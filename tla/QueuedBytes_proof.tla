-------------------------- MODULE QueuedBytes_proof --------------------------
(***************************************************************************)
(* Theorems about QueuedBytes, for any requests, sizes and capacities:     *)
(* type correctness, with the budget within its limit, that the answer of  *)
(* a request is true, and that every byte of the budget has one owner.     *)
(***************************************************************************)
EXTENDS QueuedBytes, FiniteSetTheorems, TLAPS

-----------------------------------------------------------------------------
(* Type correctness.  The subscriber and the consumer have a message in hand *)
(* while they work on it.                                                    *)

InHand ==
  /\ spc \in {"claim", "enqueue", "admit", "abort"} => smsg \in Requests
  /\ cpc = "consume" => cmsg \in Requests

TypeInv == TypeOK /\ InHand

LEMMA Sizes ==
  /\ Limit \in Nat /\ BodySize \in Nat /\ BodySize > 0 /\ PayloadSize \in Nat /\ QueueCap \in Nat
BY SizesAssumption

\* The budget stays within its limit whatever is reserved and released.
LEMMA Reserving ==
  ASSUME queued \in 0..Limit, NEW n \in Nat, TryReserve(n)
  PROVE  queued' \in 0..Limit
BY Sizes DEF TryReserve, Fits

LEMMA Releasing ==
  ASSUME queued \in 0..Limit, NEW n \in Nat, Release(n)
  PROVE  queued' \in 0..Limit
BY Sizes DEF Release

\* A compare-and-swap keeps the states of the reservations states.
LEMMA Swapping ==
  ASSUME TypeInv, NEW r, NEW from, NEW to \in {"claimed", "admitted", "aborted", "finished"},
         Swap(r, from, to) \/ Transition(r, from, to)
  PROVE  state' \in [Requests -> {"none", "open", "claimed", "admitted", "aborted", "finished"}]
BY DEF TypeInv, TypeOK, Swap, Transition

\* A message enters the end of a sequence, or leaves its head.
LEMMA Queueing ==
  ASSUME NEW s \in Seq(Requests)
  PROVE  /\ \A r \in Requests : /\ Append(s, r) \in Seq(Requests) /\ Len(Append(s, r)) = Len(s) + 1
                                /\ Range(Append(s, r)) = Range(s) \cup {r}
         /\ s # <<>> => /\ Head(s) \in Requests /\ Tail(s) \in Seq(Requests)
                        /\ Len(Tail(s)) = Len(s) - 1 /\ Len(s) \in Nat /\ Head(s) \in Range(s)
                        /\ Range(s) = Range(Tail(s)) \cup {Head(s)}
<1>1. ASSUME NEW r \in Requests
      PROVE  /\ Append(s, r) \in Seq(Requests) /\ Len(Append(s, r)) = Len(s) + 1
             /\ Range(Append(s, r)) = Range(s) \cup {r}
  <2>1. /\ DOMAIN Append(s, r) = DOMAIN s \cup {Len(s) + 1} /\ Append(s, r)[Len(s) + 1] = r
        /\ \A i \in DOMAIN s : Append(s, r)[i] = s[i]
    OBVIOUS
  <2> DEFINE t == Append(s, r)
  <2>2. t \in Seq(Requests) /\ Len(t) = Len(s) + 1
    OBVIOUS
  <2> HIDE DEF t
  <2>3. Range(t) = Range(s) \cup {r}
    BY <2>1 DEF Range, t
  <2> QED  BY <2>2, <2>3 DEF t
<1>2. ASSUME s # <<>>
      PROVE  /\ Head(s) \in Requests /\ Tail(s) \in Seq(Requests)
             /\ Len(Tail(s)) = Len(s) - 1 /\ Len(s) \in Nat /\ Head(s) \in Range(s)
             /\ Range(s) = Range(Tail(s)) \cup {Head(s)}
  <2>1. /\ Len(s) \in Nat /\ Len(s) > 0 /\ DOMAIN s = 1..Len(s) /\ Head(s) = s[1]
        /\ Tail(s) \in Seq(Requests) /\ Len(Tail(s)) = Len(s) - 1
        /\ DOMAIN Tail(s) = 1..(Len(s) - 1)
        /\ \A i \in 1..(Len(s) - 1) : Tail(s)[i] = s[i + 1]
    BY <1>2
  <2>2. \A i \in 1..Len(s) : s[i] \in Requests
    OBVIOUS
  <2> DEFINE t == Tail(s)
  <2> HIDE DEF t
  <2>3. Range(s) \subseteq Range(t) \cup {Head(s)}
    <3> SUFFICES ASSUME NEW i \in 1..Len(s) PROVE s[i] \in Range(t) \cup {Head(s)}
      BY <2>1 DEF Range
    <3>1. CASE i = 1
      BY <2>1, <3>1
    <3>2. CASE i # 1
      <4>1. i - 1 \in 1..(Len(s) - 1) /\ (i - 1) + 1 = i
        BY <2>1, <3>2
      <4>2. t[i - 1] = s[i] /\ i - 1 \in DOMAIN t
        BY <2>1, <4>1 DEF t
      <4> QED  BY <4>2 DEF Range
    <3> QED  BY <3>1, <3>2
  <2>4. Range(t) \subseteq Range(s)
    <3> SUFFICES ASSUME NEW i \in 1..(Len(s) - 1) PROVE t[i] \in Range(s)
      BY <2>1 DEF Range, t
    <3>1. t[i] = s[i + 1] /\ i + 1 \in DOMAIN s
      BY <2>1 DEF t
    <3> QED  BY <3>1 DEF Range
  <2>5. 1 \in DOMAIN s /\ Head(s) \in Range(s) /\ Head(s) \in Requests
    BY <2>1, <2>2 DEF Range
  <2> QED  BY <2>1, <2>3, <2>4, <2>5 DEF t
<1> QED
  BY <1>1, <1>2

LEMMA TypeHandler ==
  ASSUME TypeInv, NEW r \in Requests, Handler(r)
  PROVE  TypeInv'
<1> USE DEF HandlerAt, NotHandlers
<1>1. /\ queued \in 0..Limit /\ body \in [Requests -> 0..BodySize] /\ fresh \in [Requests -> Nat]
      /\ kept \in [Requests -> Nat] /\ 1 \in Nat
  BY DEF TypeInv, TypeOK
<1>2. CASE ReserveBody(r)
  <2>1. queued' \in 0..Limit /\ body' \in [Requests -> 0..BodySize]
    BY <1>1, <1>2, Sizes, Reserving DEF ReserveBody
  <2> QED
    BY <1>2, <2>1 DEF ReserveBody, TypeInv, TypeOK, InHand, reservations, subscription, subscriber, consumer
<1>3. CASE RejectBody(r)
  BY <1>3 DEF RejectBody, TypeInv, TypeOK, InHand, reservations, subscription, subscriber, consumer
<1>4. CASE ReadBody(r)
  <2>1. queued' \in 0..Limit
    BY <1>1, <1>4, Reserving DEF ReadBody
  <2>2. body[r] + 1 \in 0..BodySize
    BY <1>1, <1>4, Sizes DEF ReadBody
  <2> QED
    BY <1>4, <2>1, <2>2 DEF ReadBody, TypeInv, TypeOK, InHand, reservations, subscription, subscriber, consumer
<1>5. CASE DecodePayload(r)
  <2>1. queued' \in 0..Limit /\ fresh[r] + PayloadSize \in Nat
    BY <1>1, <1>5, Sizes, Reserving DEF DecodePayload
  <2> QED
    BY <1>5, <2>1 DEF DecodePayload, TypeInv, TypeOK, InHand, reservations, subscription, subscriber, consumer
<1>6. CASE EndArray(r)
  <2>1. queued' \in 0..Limit
    <3>1. kept[r] \in Nat
      BY <1>1
    <3> QED  BY <1>1, <1>6, <3>1, Releasing DEF EndArray
  <2> QED
    BY <1>6, <2>1 DEF EndArray, TypeInv, TypeOK, InHand, reservations, subscription, subscriber, consumer
<1>7. CASE DecodeFails(r)
  <2>1. queued' \in 0..Limit
    <3>1. fresh[r] + kept[r] \in Nat
      BY <1>1
    <3> QED  BY <1>1, <1>7, <3>1, Releasing DEF DecodeFails
  <2> QED
    BY <1>7, <2>1 DEF DecodeFails, TypeInv, TypeOK, InHand, reservations, subscription, subscriber, consumer
<1>8. CASE DecodeDone(r)
  BY <1>1, <1>8 DEF DecodeDone, TypeInv, TypeOK, InHand, subscription, subscriber, consumer
<1>9. CASE Publish(r)
  <2>1. delivered' \in Seq(Requests)
    BY <1>9, Queueing DEF Publish, TypeInv, TypeOK
  <2> QED
    BY <1>9, <2>1 DEF Publish, TypeInv, TypeOK, InHand, reservations, subscriber, consumer
<1>10. CASE PublishReturns(r)
  BY <1>10 DEF PublishReturns, TypeInv, TypeOK, InHand, reservations, subscription, subscriber, consumer
<1>11. CASE Finish(r)
  <2>1. state' \in [Requests -> {"none", "open", "claimed", "admitted", "aborted", "finished"}]
    BY <1>11, Swapping DEF Finish
  <2> QED
    BY <1>11, <2>1 DEF Finish, TypeInv, TypeOK, InHand, subscription, subscriber, consumer
<1>12. CASE FinishLoad(r)
  BY <1>12 DEF FinishLoad, TypeInv, TypeOK, InHand, reservations, subscription, subscriber, consumer
<1>13. CASE FinishDelete(r)
  BY <1>13 DEF FinishDelete, TypeInv, TypeOK, InHand, subscription, subscriber, consumer
<1>14. CASE HandlerReturns(r)
  <2>1. queued' \in 0..Limit /\ 0 \in 0..BodySize
    <3>1. kept[r] + body[r] \in Nat
      BY <1>1, Sizes
    <3> QED  BY <1>1, <1>14, <3>1, Sizes, Releasing DEF HandlerReturns
  <2> QED
    BY <1>14, <2>1 DEF HandlerReturns, TypeInv, TypeOK, InHand, reservations, subscription, subscriber, consumer
<1> QED
  BY <1>2, <1>3, <1>4, <1>5, <1>6, <1>7, <1>8, <1>9, <1>10, <1>11, <1>12, <1>13, <1>14 DEF Handler

LEMMA TypeSubscriber ==
  ASSUME TypeInv, Subscribe \/ Subscriber \/ Shutdown
  PROVE  TypeInv'
<1> USE DEF SubscriberGoto, SubscriberIdle
<1>1. CASE Subscribe \/ Shutdown
  BY <1>1 DEF Subscribe, Shutdown, TypeInv, TypeOK, InHand, handlers, reservations, subscriber, consumer
<1>2. CASE Receive
  <2>1. Head(delivered) \in Requests /\ delivered' \in Seq(Requests)
    BY <1>2, Queueing DEF Receive, TypeInv, TypeOK
  <2> QED
    BY <1>2, <2>1 DEF Receive, TypeInv, TypeOK, InHand, handlers, reservations, consumer
<1>3. CASE Claim
  <2>1. state' \in [Requests -> {"none", "open", "claimed", "admitted", "aborted", "finished"}]
        /\ smsg \in Requests
    BY <1>3, Swapping DEF Claim, TypeInv, InHand
  <2> QED
    BY <1>3, <2>1 DEF Claim, TypeInv, TypeOK, InHand, handlers, consumer
<1>4. CASE Enqueue
  <2>1. smsg \in Requests /\ rchan' \in Seq(Requests) /\ Len(rchan') <= QueueCap
    <3>1. smsg \in Requests /\ rchan \in Seq(Requests) /\ Len(rchan) < QueueCap /\ rchan' = Append(rchan, smsg)
      BY <1>4 DEF Enqueue, TypeInv, TypeOK, InHand
    <3>2. Len(rchan) \in Nat /\ Len(rchan') = Len(rchan) + 1 /\ rchan' \in Seq(Requests)
      BY <3>1
    <3> QED  BY <3>1, <3>2, Sizes
  <2> QED
    BY <1>4, <2>1 DEF Enqueue, TypeInv, TypeOK, InHand, handlers, reservations, subscription
<1>5. CASE Admit \/ Abort
  <2>1. state' \in [Requests -> {"none", "open", "claimed", "admitted", "aborted", "finished"}]
        /\ smsg \in Requests
    BY <1>5, Swapping DEF Admit, Abort, TypeInv, InHand
  <2> QED
    BY <1>5, <2>1 DEF Admit, Abort, TypeInv, TypeOK, InHand, handlers, consumer
<1>6. CASE AbortReleases
  <2>1. queued' \in 0..Limit
    <3>1. size[smsg] \in Nat /\ queued \in 0..Limit
      BY <1>6 DEF AbortReleases, TypeInv, TypeOK, InHand
    <3> QED  BY <1>6, <3>1, Releasing DEF AbortReleases
  <2> QED
    BY <1>6, <2>1 DEF AbortReleases, TypeInv, TypeOK, InHand, handlers, reservations, subscription, consumer
<1>7. CASE SubscriberStops
  BY <1>7 DEF SubscriberStops, TypeInv, TypeOK, InHand, handlers, reservations, subscription, consumer
<1> QED
  BY <1>1, <1>2, <1>3, <1>4, <1>5, <1>6, <1>7 DEF Subscriber

LEMMA TypeConsumer ==
  ASSUME TypeInv, Consumer
  PROVE  TypeInv'
<1>1. CASE Take
  <2>1. rchan' \in Seq(Requests) /\ Len(rchan') <= QueueCap /\ cmsg' \in Requests
    <3>1. rchan \in Seq(Requests) /\ Len(rchan) <= QueueCap /\ rchan # <<>> /\ rchan' = Tail(rchan)
          /\ cmsg' = Head(rchan)
      BY <1>1 DEF Take, TypeInv, TypeOK
    <3>2. Len(Tail(rchan)) = Len(rchan) - 1 /\ Len(rchan) \in Nat /\ Tail(rchan) \in Seq(Requests)
          /\ Head(rchan) \in Requests
      BY <3>1, Queueing
    <3> QED  BY <3>1, <3>2, Sizes
  <2> QED
    BY <1>1, <2>1 DEF Take, TypeInv, TypeOK, InHand, handlers, reservations, subscription, subscriber
<1>2. CASE Consume
  <2>1. queued' \in 0..Limit /\ cmsg \in Requests
    <3>1. size[cmsg] \in Nat /\ queued \in 0..Limit /\ cmsg \in Requests
      BY <1>2 DEF Consume, TypeInv, TypeOK, InHand
    <3> QED  BY <1>2, <3>1, Releasing DEF Consume
  <2> QED
    BY <1>2, <2>1 DEF Consume, TypeInv, TypeOK, InHand, handlers, reservations, subscription, subscriber
<1>3. CASE ConsumerStops \/ ConsumerWaits
  BY <1>3 DEF ConsumerStops, ConsumerWaits, TypeInv, TypeOK, InHand, handlers, reservations, subscription, subscriber
<1>4. CASE Drain
  <2>1. queued' \in 0..Limit /\ rchan' \in Seq(Requests) /\ Len(rchan') <= QueueCap
    <3>1. rchan \in Seq(Requests) /\ Len(rchan) <= QueueCap /\ queued \in 0..Limit
          /\ size \in [Requests -> Nat]
      BY DEF TypeInv, TypeOK
    <3>2. CASE rchan = <<>>
      BY <1>4, <3>1, <3>2 DEF Drain
    <3>3. CASE rchan # <<>>
      <4>1. rchan' = Tail(rchan) /\ Release(size[Head(rchan)])
        BY <1>4, <3>3 DEF Drain
      <4>2. Len(Tail(rchan)) = Len(rchan) - 1 /\ Len(rchan) \in Nat /\ Tail(rchan) \in Seq(Requests)
            /\ Head(rchan) \in Requests
        BY <3>1, <3>3, Queueing
      <4>3. size[Head(rchan)] \in Nat
        BY <3>1, <4>2
      <4>4. queued' \in 0..Limit
        BY <3>1, <4>1, <4>3, Releasing
      <4> QED  BY <3>1, <4>1, <4>2, <4>4, Sizes
    <3> QED  BY <3>2, <3>3
  <2> QED
    BY <1>4, <2>1 DEF Drain, TypeInv, TypeOK, InHand, handlers, reservations, subscription, subscriber
<1> QED
  BY <1>1, <1>2, <1>3, <1>4 DEF Consumer

LEMMA TypeInit == Init => TypeInv
<1> SUFFICES ASSUME Init PROVE TypeInv
  OBVIOUS
<1>1. 0 \in 0..Limit /\ 0 \in 0..BodySize /\ 0 \in Nat
  BY Sizes
<1>2. <<>> \in Seq(Requests) /\ Len(<<>>) <= QueueCap
  BY Sizes
<1>3. InHand
  BY DEF Init, InHand
<1> QED
  BY <1>1, <1>2, <1>3 DEF Init, TypeInv, TypeOK

LEMMA TypeNext == TypeInv /\ [Next]_vars => TypeInv'
<1> SUFFICES ASSUME TypeInv, [Next]_vars PROVE TypeInv'
  OBVIOUS
<1>1. CASE UNCHANGED vars
  BY <1>1 DEF vars, TypeInv, TypeOK, InHand, handlers, reservations, subscription, subscriber, consumer
<1> QED
  BY <1>1, TypeHandler, TypeSubscriber, TypeConsumer DEF Next

LEMMA TypeInvariant == Spec => []TypeInv
BY TypeInit, TypeNext, PTL DEF Spec

\* The budget, the reservations, the subscription and the queue hold what they
\* may; the budget is never overdrawn and the queue never exceeds its capacity.
THEOREM TypeCorrect == Spec => []TypeOK
<1>1. TypeInv => TypeOK
  BY DEF TypeInv
<1> QED
  BY <1>1, TypeInvariant, PTL

-----------------------------------------------------------------------------
(* The answers.  A batch is open until the subscriber claims it or the handler  *)
(* finishes it; a batch that was admitted reached the queue.  Until shutdown a  *)
(* claimed batch is in the hands of the subscriber, so that when Publish        *)
(* returns the batch is either admitted, or open and never delivered.           *)

Early(r) == hpc[r] \in {"new", "decode", "publish"}
Published(r) == hpc[r] \in {"publish", "await", "finish", "finishLoad", "finishDelete"}
Finished(r) == hpc[r] \in {"finishLoad", "finishDelete", "release", "done"}
Working(r) == spc \in {"enqueue", "admit"} /\ smsg = r

HandlerInv(r) ==
  /\ hpc[r] \in {"new", "decode"} => state[r] = "none"
  /\ hpc[r] = "publish" => state[r] = "open"
  /\ Early(r) => r \notin Range(delivered) /\ r \notin acked /\ smsg # r
  /\ Published(r) => r \in tracked /\ state[r] # "none"
  /\ answer[r] # "none" => hpc[r] \in {"release", "done"}
  /\ owns[r] => state[r] = "finished"
  /\ seen[r] = "admitted" => state[r] = "admitted"
  /\ answer[r] = "ok" => state[r] = "admitted"
  /\ answer[r] \in {"limit", "bad request"} => state[r] = "none"

BatchInv(r) ==
  /\ r \in Range(delivered) \/ smsg = r => state[r] # "none"
  /\ Working(r) => state[r] = "claimed"
  /\ spc = "enqueue" /\ smsg = r => ~Reached(r)
  /\ Reached(r) => state[r] \in {"claimed", "admitted"}
  /\ state[r] = "admitted" \/ (spc = "admit" /\ smsg = r) => Reached(r) \/ cpc \in {"drain", "gone"}

OpenInv(r) ==
  /\ state[r] # "aborted"
  /\ state[r] = "claimed" => Working(r)
  /\ Finished(r) => state[r] \notin {"open", "claimed"}
  /\ r \in acked => state[r] \in {"admitted", "finished"}
  /\ hpc[r] = "finish" =>
       \/ r \in acked
       \/ state[r] = "open" /\ r \notin Range(delivered) /\ smsg # r
  /\ hpc[r] = "finishDelete" => seen[r] = state[r]
  /\ answer[r] = "unavailable" => state[r] # "admitted"

RequestInv(r) == HandlerInv(r) /\ BatchInv(r) /\ (~closing => OpenInv(r))

TruthInv == \A r \in Requests : RequestInv(r)

LEMMA TruthHandler ==
  ASSUME TypeInv, TruthInv, NEW r \in Requests, Handler(r), NEW q \in Requests
  PROVE  RequestInv(q)'
<1> USE DEF HandlerAt, NotHandlers, reservations, subscription, subscriber, consumer
<1>1. UNCHANGED <<spc, smsg, rchan, cpc, cmsg, consumed, closing, acked, subscribed>>
  BY DEF Handler, ReserveBody, RejectBody, ReadBody, DecodePayload, EndArray, DecodeFails, DecodeDone,
         Publish, PublishReturns, Finish, FinishLoad, FinishDelete, HandlerReturns
<1>2. Reached(q)' = Reached(q) /\ Working(q)' = Working(q)
  BY <1>1 DEF Reached, Working
<1>3. /\ RequestInv(q) /\ DOMAIN hpc = Requests /\ DOMAIN answer = Requests /\ DOMAIN state = Requests
      /\ DOMAIN owns = Requests /\ DOMAIN seen = Requests /\ delivered \in Seq(Requests)
      /\ hpc = [x \in Requests |-> hpc[x]] /\ answer = [x \in Requests |-> answer[x]]
      /\ state = [x \in Requests |-> state[x]] /\ owns = [x \in Requests |-> owns[x]]
      /\ seen = [x \in Requests |-> seen[x]]
  BY DEF TruthInv, TypeInv, TypeOK
<1>4. CASE q # r
  <2>1. /\ hpc'[q] = hpc[q] /\ answer'[q] = answer[q] /\ owns'[q] = owns[q] /\ seen'[q] = seen[q]
        /\ state'[q] = state[q] /\ (q \in tracked' <=> q \in tracked)
    BY <1>3, <1>4 DEF Handler, ReserveBody, RejectBody, ReadBody, DecodePayload, EndArray, DecodeFails,
         DecodeDone, Publish, PublishReturns, Finish, FinishLoad, FinishDelete, HandlerReturns, Swap
  <2>2. q \in Range(delivered)' <=> q \in Range(delivered)
    <3>1. delivered' \in {delivered, Append(delivered, r)}
      BY DEF Handler, ReserveBody, RejectBody, ReadBody, DecodePayload, EndArray, DecodeFails, DecodeDone,
             Publish, PublishReturns, Finish, FinishLoad, FinishDelete, HandlerReturns
    <3>2. Range(Append(delivered, r)) = Range(delivered) \cup {r}
      BY <1>3, Queueing
    <3>3. Range(delivered)' = Range(delivered')
      BY DEF Range
    <3> QED  BY <1>4, <3>1, <3>2, <3>3
  <2> QED
    BY <1>1, <1>2, <1>3, <2>1, <2>2 DEF RequestInv, HandlerInv, BatchInv, OpenInv, Early, Published, Finished
<1>5. CASE q = r
  <2> USE DEF RequestInv, HandlerInv, BatchInv, OpenInv, Early, Published, Finished
  <2>1. ASSUME delivered' = delivered PROVE Range(delivered)' = Range(delivered)
    BY <2>1 DEF Range
  <2>2. CASE ReserveBody(r) \/ RejectBody(r)
    BY <1>1, <1>2, <1>3, <1>5, <2>1, <2>2 DEF ReserveBody, RejectBody
  <2>3. CASE ReadBody(r) \/ DecodePayload(r) \/ EndArray(r)
    BY <1>1, <1>2, <1>3, <1>5, <2>1, <2>3 DEF ReadBody, DecodePayload, EndArray
  <2>4. CASE DecodeFails(r)
    BY <1>1, <1>2, <1>3, <1>5, <2>1, <2>4 DEF DecodeFails
  <2>5. CASE DecodeDone(r)
    BY <1>1, <1>2, <1>3, <1>5, <2>1, <2>5 DEF DecodeDone
  <2>6. CASE Publish(r)
    <3>1. CASE subscribed /\ ~closing
      BY <1>1, <1>2, <1>3, <1>5, <2>6, <3>1 DEF Publish
    <3>2. CASE ~(subscribed /\ ~closing)
      BY <1>1, <1>2, <1>3, <1>5, <2>1, <2>6, <3>2 DEF Publish
    <3> QED  BY <3>1, <3>2
  <2>7. CASE PublishReturns(r)
    <3>1. /\ hpc[r] = "await" /\ hpc'[r] = "finish" /\ (r \in acked \/ closing)
          /\ UNCHANGED <<answer, owns, seen, state, tracked, delivered>>
      BY <1>3, <2>7 DEF PublishReturns
    <3> QED  BY <1>1, <1>2, <1>3, <1>5, <2>1, <3>1
  <2>8. CASE Finish(r)
    <3>1. /\ hpc[r] = "finish" /\ hpc'[r] = "finishLoad" /\ UNCHANGED <<answer, seen, tracked, delivered>>
          /\ owns'[r] = (state[r] = "open")
          /\ state'[r] = IF state[r] = "open" THEN "finished" ELSE state[r]
      BY <1>3, <2>8 DEF Finish, Swap
    <3>2. HandlerInv(r)'
      BY <1>1, <1>3, <1>5, <2>1, <3>1
    <3>3. BatchInv(r)'
      BY <1>1, <1>2, <1>3, <1>5, <2>1, <3>1
    <3>4. ~closing => OpenInv(r)'
      BY <1>1, <1>2, <1>3, <1>5, <2>1, <3>1
    <3> QED  BY <1>1, <1>5, <3>2, <3>3, <3>4
  <2>9. CASE FinishLoad(r)
    <3>1. /\ hpc[r] = "finishLoad" /\ hpc'[r] = "finishDelete" /\ seen'[r] = state[r]
          /\ UNCHANGED <<answer, owns, state, tracked, delivered>>
      BY <1>3, <2>9 DEF FinishLoad
    <3> QED  BY <1>1, <1>2, <1>3, <1>5, <2>1, <3>1
  <2>10. CASE FinishDelete(r)
    <3>1. /\ hpc[r] = "finishDelete" /\ hpc'[r] = "release"
          /\ answer'[r] = IF ~owns[r] /\ seen[r] = "admitted" THEN "ok" ELSE "unavailable"
          /\ UNCHANGED <<owns, seen, state, delivered>>
      BY <1>3, <2>10 DEF FinishDelete
    <3> QED  BY <1>1, <1>2, <1>3, <1>5, <2>1, <3>1
  <2>11. CASE HandlerReturns(r)
    <3>1. /\ hpc[r] = "release" /\ hpc'[r] = "done"
          /\ UNCHANGED <<answer, owns, seen, state, tracked, delivered>>
      BY <1>3, <2>11 DEF HandlerReturns
    <3> QED  BY <1>1, <1>2, <1>3, <1>5, <2>1, <3>1
  <2> QED
    BY <2>2, <2>3, <2>4, <2>5, <2>6, <2>7, <2>8, <2>9, <2>10, <2>11 DEF Handler
<1> QED
  BY <1>4, <1>5

LEMMA TruthSubscriber ==
  ASSUME TypeInv, TruthInv, Subscribe \/ Subscriber \/ Shutdown, NEW q \in Requests
  PROVE  RequestInv(q)'
<1> USE DEF SubscriberGoto, SubscriberIdle, handlers
<1>1. UNCHANGED <<hpc, answer, owns, seen, tracked, cpc, cmsg, consumed>> /\ (closing => closing')
  BY DEF Subscribe, Subscriber, Shutdown, Receive, Claim, Enqueue, Admit, Abort, AbortReleases,
         SubscriberStops, consumer, reservations, subscription
<1>2. /\ RequestInv(q) /\ q # NoRequest /\ delivered \in Seq(Requests) /\ rchan \in Seq(Requests)
      /\ DOMAIN state = Requests /\ state = [x \in Requests |-> state[x]]
      /\ state[q] \in {"none", "open", "claimed", "admitted", "aborted", "finished"}
      /\ hpc[q] \in {"new", "decode", "publish", "await", "finish", "finishLoad", "finishDelete",
                    "release", "done"}
      /\ spc \in {"claim", "enqueue", "admit", "abort"} => smsg \in Requests
  BY RequestsAssumption DEF TruthInv, TypeInv, TypeOK, InHand
<1> USE DEF RequestInv, HandlerInv, BatchInv, OpenInv, Early, Published, Finished
<1>3. ASSUME delivered' = delivered PROVE Range(delivered)' = Range(delivered)
  BY <1>3 DEF Range
<1>4. ASSUME rchan' = rchan PROVE Reached(q)' = Reached(q)
  BY <1>1, <1>4 DEF Reached
<1>5. CASE Subscribe \/ Shutdown
  <2>1. UNCHANGED <<state, spc, smsg, rchan, delivered, acked>>
    BY <1>5 DEF Subscribe, Shutdown, reservations, subscriber, consumer
  <2> QED  BY <1>1, <1>2, <1>3, <1>4, <2>1 DEF Working
<1>6. CASE Receive
  <2>1. /\ spc = "idle" /\ Head(delivered) \in Range(delivered) /\ rchan' = rchan /\ state' = state
        /\ Range(delivered)' \subseteq Range(delivered)
    <3>1. spc = "idle" /\ delivered # <<>> /\ delivered' = Tail(delivered) /\ rchan' = rchan /\ state' = state
      BY <1>6 DEF Receive, consumer, reservations
    <3>2. Head(delivered) \in Range(delivered) /\ Range(Tail(delivered)) \subseteq Range(delivered)
      <4>1. delivered \in Seq(Requests) /\ delivered # <<>>
        BY <1>2, <3>1
      <4>2. /\ Head(delivered) \in Range(delivered)
            /\ Range(delivered) = Range(Tail(delivered)) \cup {Head(delivered)}
        BY <4>1, Queueing
      <4> QED  BY <4>2
    <3>3. Range(delivered)' = Range(Tail(delivered))
      BY <3>1 DEF Range
    <3> QED  BY <3>1, <3>2, <3>3
  <2>2. CASE Head(delivered) \in tracked
    <3>1. spc' = "claim" /\ smsg' = Head(delivered) /\ acked' = acked
      BY <1>6, <2>2 DEF Receive
    <3> QED  BY <1>1, <1>2, <1>4, <2>1, <3>1 DEF Working
  <2>3. CASE Head(delivered) \notin tracked
    <3>1. acked' = acked \cup {Head(delivered)} /\ spc' = "idle" /\ smsg' = NoRequest
      BY <1>6, <2>3 DEF Receive
    <3> QED  BY <1>1, <1>2, <1>4, <2>1, <2>3, <3>1 DEF Working
  <2> QED  BY <2>2, <2>3
<1>7. CASE Claim
  <2>1. /\ spc = "claim" /\ UNCHANGED <<delivered, rchan>> /\ smsg \in Requests
    BY <1>2, <1>7 DEF Claim, consumer
  <2>2. CASE state[smsg] = "open"
    <3>1. state' = [state EXCEPT ![smsg] = "claimed"] /\ spc' = "enqueue" /\ smsg' = smsg /\ acked' = acked
      BY <1>7, <2>2 DEF Claim, Swap
    <3>2. q # smsg => state'[q] = state[q]
      BY <1>2, <3>1
    <3>3. state'[smsg] = "claimed"
      BY <1>2, <2>1, <3>1
    <3> QED  BY <1>1, <1>2, <1>3, <1>4, <2>1, <2>2, <3>1, <3>2, <3>3 DEF Working
  <2>3. CASE state[smsg] # "open"
    <3>1. state' = state /\ spc' = "idle" /\ smsg' = NoRequest /\ acked' = acked \cup {smsg}
      BY <1>7, <2>3 DEF Claim, Swap
    <3> QED  BY <1>1, <1>2, <1>3, <1>4, <2>1, <2>3, <3>1 DEF Working
  <2> QED  BY <2>2, <2>3
<1>8. CASE Enqueue
  <2>1. /\ spc = "enqueue" /\ spc' = "admit" /\ rchan' = Append(rchan, smsg) /\ smsg \in Requests
        /\ UNCHANGED <<smsg, state, delivered, acked>>
    BY <1>2, <1>8 DEF Enqueue, reservations, subscription
  <2>2. Reached(q)' <=> Reached(q) \/ q = smsg
    <3>1. Range(rchan)' = Range(Append(rchan, smsg))
      BY <2>1 DEF Range
    <3>2. Range(Append(rchan, smsg)) = Range(rchan) \cup {smsg}
      BY <1>2, <2>1, Queueing
    <3> QED  BY <1>1, <3>1, <3>2 DEF Reached
  <2> QED  BY <1>1, <1>2, <1>3, <2>1, <2>2 DEF Working
<1>9. CASE Admit
  <2>1. /\ spc = "admit" /\ spc' = "idle" /\ smsg' = NoRequest /\ smsg \in Requests
        /\ acked' = acked \cup {smsg} /\ UNCHANGED <<rchan, delivered>>
    BY <1>2, <1>9 DEF Admit, consumer
  <2>2. q = smsg => state[q] = "claimed"
    BY <1>2, <2>1 DEF Working
  <2>3. CASE q # smsg
    <3>1. state'[q] = state[q]
      BY <1>2, <1>9, <2>3 DEF Admit, Transition, Swap
    <3> QED  BY <1>1, <1>2, <1>3, <1>4, <2>1, <2>3, <3>1 DEF Working
  <2>4. CASE q = smsg
    <3>1. state'[q] = IF q \in tracked THEN "admitted" ELSE "claimed"
      BY <1>2, <1>9, <2>2, <2>4 DEF Admit, Transition, Swap
    <3>2. ~closing => q \in tracked
      BY <1>2, <2>2, <2>4 DEF Working
    <3> QED  BY <1>1, <1>2, <1>3, <1>4, <2>1, <2>2, <2>4, <3>1, <3>2 DEF Working
  <2> QED  BY <2>3, <2>4
<1>10. CASE Abort
  <2>1. /\ spc = "enqueue" /\ spc' = "abort" /\ smsg' = smsg /\ smsg \in Requests /\ closing
        /\ UNCHANGED <<rchan, delivered>>
    BY <1>2, <1>10 DEF Abort, consumer
  <2>2. /\ acked' = acked \cup {smsg} /\ (q # smsg => state'[q] = state[q])
        /\ (q = smsg => state'[q] \in {"claimed", "aborted"})
        /\ (q = smsg => state[q] = "claimed")
    BY <1>2, <1>10, <2>1 DEF Abort, Transition, Swap, Working
  <2>3. q = smsg => ~Reached(q)
    BY <1>2, <2>1
  <2> QED  BY <1>1, <1>2, <1>3, <1>4, <2>1, <2>2, <2>3 DEF Working
<1>11. CASE AbortReleases \/ SubscriberStops
  <2>1. /\ UNCHANGED <<rchan, delivered, acked, state>> /\ spc \notin {"enqueue", "admit"} /\ spc' = "gone"
        /\ smsg' \in {smsg, NoRequest}
    BY <1>11 DEF AbortReleases, SubscriberStops, reservations, subscription, consumer
  <2> QED  BY <1>1, <1>2, <1>3, <1>4, <2>1 DEF Working
<1> QED
  BY <1>5, <1>6, <1>7, <1>8, <1>9, <1>10, <1>11 DEF Subscriber

LEMMA TruthConsumer ==
  ASSUME TypeInv, TruthInv, Consumer, NEW q \in Requests
  PROVE  RequestInv(q)'
<1>1. UNCHANGED <<hpc, answer, owns, seen, tracked, state, spc, smsg, delivered, acked, closing>>
  BY DEF Consumer, Take, Consume, ConsumerStops, ConsumerWaits, Drain, handlers, reservations,
         subscription, subscriber
<1>2. /\ Reached(q)' => Reached(q)
      /\ Reached(q) => Reached(q)' \/ cpc \in {"drain", "gone"}
      /\ cpc \in {"drain", "gone"} => cpc' \in {"drain", "gone"}
  <2>1. CASE Take
    <3>1. /\ rchan \in Seq(Requests) /\ rchan # <<>> /\ rchan' = Tail(rchan) /\ cmsg' = Head(rchan)
          /\ cpc = "idle" /\ cpc' = "consume" /\ consumed' = consumed
      BY <2>1 DEF Take, TypeInv, TypeOK
    <3>2. Range(rchan) = Range(Tail(rchan)) \cup {Head(rchan)}
      BY <3>1, Queueing
    <3>3. Range(rchan)' = Range(Tail(rchan))
      BY <3>1 DEF Range
    <3> QED  BY <3>1, <3>2, <3>3 DEF Reached
  <2>2. CASE Consume
    <3>1. /\ rchan' = rchan /\ cpc = "consume" /\ cpc' = "idle" /\ consumed' = consumed \cup {cmsg}
      BY <2>2 DEF Consume
    <3>2. Range(rchan)' = Range(rchan)
      BY <3>1 DEF Range
    <3> QED  BY <3>1, <3>2 DEF Reached
  <2>3. CASE ConsumerStops \/ ConsumerWaits
    <3>1. /\ UNCHANGED <<rchan, cmsg, consumed>> /\ cpc \in {"idle", "stop"} /\ cpc' \in {"stop", "drain"}
      BY <2>3 DEF ConsumerStops, ConsumerWaits
    <3>2. Range(rchan)' = Range(rchan)
      BY <3>1 DEF Range
    <3> QED  BY <3>1, <3>2 DEF Reached
  <2>4. CASE Drain
    <3>1. /\ rchan \in Seq(Requests) /\ consumed' = consumed /\ cpc = "drain" /\ cpc' \in {"drain", "gone"}
          /\ rchan' = rchan \/ (rchan # <<>> /\ rchan' = Tail(rchan))
      BY <2>4 DEF Drain, TypeInv, TypeOK
    <3>2. rchan # <<>> => Range(rchan) = Range(Tail(rchan)) \cup {Head(rchan)}
      BY <3>1, Queueing
    <3>3. Range(rchan)' \in {Range(rchan), Range(Tail(rchan))} /\ (rchan' # rchan => rchan # <<>>)
      BY <3>1 DEF Range
    <3>4. Range(rchan)' \subseteq Range(rchan)
      <4>1. CASE rchan' = rchan
        BY <4>1 DEF Range
      <4>2. CASE rchan' # rchan
        BY <3>2, <3>3, <4>2
      <4> QED  BY <4>1, <4>2
    <3> QED  BY <3>1, <3>4 DEF Reached
  <2> QED  BY <2>1, <2>2, <2>3, <2>4 DEF Consumer
<1>3. Range(delivered)' = Range(delivered)
  BY <1>1 DEF Range
<1> QED
  BY <1>1, <1>2, <1>3 DEF TruthInv, RequestInv, HandlerInv, BatchInv, OpenInv, Early, Published, Finished, Working

LEMMA TruthNext == TypeInv /\ TruthInv /\ [Next]_vars => TruthInv'
<1> SUFFICES ASSUME TypeInv, TruthInv, [Next]_vars, NEW q \in Requests PROVE RequestInv(q)'
  BY DEF TruthInv
<1>1. CASE UNCHANGED vars
  <2>1. UNCHANGED <<hpc, answer, owns, seen, tracked, state, spc, smsg, delivered, acked, closing,
                    rchan, cpc, cmsg, consumed>>
    BY <1>1 DEF vars, handlers, reservations, subscription, subscriber, consumer
  <2>2. Range(delivered)' = Range(delivered) /\ Reached(q)' = Reached(q)
    BY <2>1 DEF Range, Reached
  <2> QED
    BY <2>1, <2>2 DEF TruthInv, RequestInv, HandlerInv, BatchInv, OpenInv, Early, Published, Finished, Working
<1> QED
  BY <1>1, TruthHandler, TruthSubscriber, TruthConsumer DEF Next

LEMMA TruthInit == Init => TruthInv
<1> SUFFICES ASSUME Init, NEW q \in Requests PROVE RequestInv(q)
  BY DEF TruthInv
<1>1. Range(delivered) = {} /\ Range(rchan) = {}
  BY DEF Init, Range
<1> QED
  BY <1>1, RequestsAssumption DEF Init, RequestInv, HandlerInv, BatchInv, OpenInv, Early, Published,
     Finished, Working, Reached

LEMMA TruthImplies == TypeInv /\ TruthInv => AnswerIsTruthful
<1> SUFFICES ASSUME TypeInv, TruthInv, NEW r \in Requests
             PROVE  /\ answer[r] = "ok" => Reached(r) \/ cpc \in {"drain", "gone"}
                    /\ answer[r] \in {"limit", "bad request", "unavailable"} /\ ~closing => ~Reached(r)
  BY DEF AnswerIsTruthful
<1> QED
  BY DEF TruthInv, RequestInv, HandlerInv, BatchInv, OpenInv, Finished

\* What the client is told is true, whatever the order in which the subscriber
\* claims a batch, the handler finishes it and the consumer takes it, and
\* whenever the subscription is closed.
THEOREM AnswersAreTruthful == Spec => []AnswerIsTruthful
BY TypeInvariant, TruthInit, TruthNext, TruthImplies, PTL DEF Spec

-----------------------------------------------------------------------------
(* The owners.  The bytes are counted as the elements of a set, and a step     *)
(* changes the bytes of one request by what it reserves or releases.  The      *)
(* releases are never refused, because whoever releases bytes owns them: a     *)
(* batch is in one place of the subscriber, the queue and the consumer, it is  *)
(* the handler's until it is claimed, and the handler gives it up for lost     *)
(* only after it was claimed.                                                  *)

Bytes(f) == UNION {{r} \X (1..f[r]) : r \in Requests}

LEMMA RequestBytes ==
  ASSUME NEW r, NEW n \in Nat
  PROVE  IsFiniteSet({r} \X (1..n)) /\ Cardinality({r} \X (1..n)) = n
<1>1. IsFiniteSet({r}) /\ Cardinality({r}) = 1
  BY FS_Singleton
<1>2. IsFiniteSet(1..n) /\ Cardinality(1..n) = n
  BY FS_Interval
<1>3. /\ IsFiniteSet({r} \X (1..n))
      /\ Cardinality({r} \X (1..n)) = Cardinality({r}) * Cardinality(1..n)
  BY <1>1, <1>2, FS_Product
<1> QED  BY <1>1, <1>2, <1>3

\* When only the bytes of r change, the number of all bytes changes with them.
LEMMA OneOwnerChanges ==
  ASSUME NEW f \in [Requests -> Nat], NEW g \in [Requests -> Nat], NEW r \in Requests,
         \A q \in Requests : q # r => g[q] = f[q], IsFiniteSet(Bytes(f))
  PROVE  /\ IsFiniteSet(Bytes(g)) /\ Cardinality(Bytes(f)) \in Nat
         /\ f[r] <= Cardinality(Bytes(f))
         /\ Cardinality(Bytes(g)) = (Cardinality(Bytes(f)) - f[r]) + g[r]
<1> DEFINE old == {r} \X (1..f[r])
           new == {r} \X (1..g[r])
           rest == Bytes(f) \ old
<1>1. /\ IsFiniteSet(old) /\ Cardinality(old) = f[r]
      /\ IsFiniteSet(new) /\ Cardinality(new) = g[r]
  BY RequestBytes
<1>2. old \subseteq Bytes(f) /\ Bytes(f) \cap old = old
  BY DEF Bytes
<1>3. \A b \in rest : b[1] # r
  BY DEF Bytes
<1>4. rest \cap new = {}
  BY <1>3
<1>5. Bytes(g) = rest \cup new
  BY DEF Bytes
<1> HIDE DEF old, new, rest
<1>6. Cardinality(Bytes(f)) \in Nat /\ Cardinality(old) <= Cardinality(Bytes(f))
  BY <1>2, FS_CardinalityType, FS_Subset
<1>7. IsFiniteSet(rest) /\ Cardinality(rest) = Cardinality(Bytes(f)) - f[r]
  <2>1. /\ IsFiniteSet(Bytes(f) \ old)
        /\ Cardinality(Bytes(f) \ old) = Cardinality(Bytes(f)) - Cardinality(Bytes(f) \cap old)
    BY FS_Difference
  <2> QED  BY <1>1, <1>2, <2>1 DEF rest
<1>8. /\ IsFiniteSet(rest \cup new)
      /\ Cardinality(rest \cup new) = Cardinality(rest) + g[r] - Cardinality({})
  BY <1>1, <1>4, <1>7, FS_Union
<1>9. Cardinality({}) = 0
  BY FS_EmptySet
<1> QED  BY <1>1, <1>5, <1>6, <1>7, <1>8, <1>9

LEMMA BodyType ==
  ASSUME TypeInv, NEW r \in Requests
  PROVE  body[r] \in Nat /\ fresh[r] \in Nat /\ body[r] + fresh[r] \in Nat
<1>1. body[r] \in 0..BodySize /\ fresh[r] \in Nat
  BY DEF TypeInv, TypeOK
<1> QED  BY <1>1, Sizes

Counted == IsFiniteSet(OwnedBytes) /\ EveryByteHasOneOwner

LEMMA HeldType ==
  ASSUME TypeInv, NEW r \in Requests
  PROVE  Held(r) \in Nat
<1>1. body[r] \in Nat /\ fresh[r] \in Nat /\ kept[r] \in Nat /\ size[r] \in Nat
  <2>1. body[r] \in 0..BodySize /\ fresh[r] \in Nat /\ kept[r] \in Nat /\ size[r] \in Nat
    BY DEF TypeInv, TypeOK
  <2> QED  BY <2>1, Sizes
<1>2. BatchBytes(r) \in Nat
  BY <1>1 DEF BatchBytes
<1> QED  BY <1>1, <1>2 DEF Held

LEMMA Accounts ==
  ASSUME Counted, TypeInv, \A q \in Requests : Held(q)' \in Nat,
         NEW r \in Requests, NEW n \in Nat,
         \A q \in Requests : q # r => Held(q)' = Held(q),
         \/ TryReserve(n) /\ Held(r)' = Held(r) + n
         \/ Release(n) /\ Held(r) = Held(r)' + n
         \/ queued' = queued /\ Held(r)' = Held(r)
  PROVE  Counted'
<1> DEFINE f == [q \in Requests |-> Held(q)]
           g == [q \in Requests |-> Held(q)']
<1>1. f \in [Requests -> Nat] /\ g \in [Requests -> Nat]
  <2>1. \A q \in Requests : Held(q) \in Nat
    BY HeldType
  <2> QED  BY <2>1
<1>2. OwnedBytes = Bytes(f) /\ OwnedBytes' = Bytes(g)
  BY DEF OwnedBytes, Bytes
<1>3. f[r] = Held(r) /\ g[r] = Held(r)' /\ \A q \in Requests : q # r => g[q] = f[q]
  OBVIOUS
<1>4. IsFiniteSet(Bytes(f)) /\ queued = Cardinality(Bytes(f)) /\ queued \in Nat
  <2>1. queued \in Nat
    <3>1. queued \in 0..Limit
      BY DEF TypeInv, TypeOK
    <3> QED  BY <3>1, Sizes
  <2> HIDE DEF f
  <2> QED  BY <1>2, <2>1 DEF Counted, EveryByteHasOneOwner
<1> HIDE DEF f, g
<1>5. /\ IsFiniteSet(Bytes(g)) /\ f[r] <= queued
      /\ Cardinality(Bytes(g)) = (queued - f[r]) + g[r]
  BY <1>1, <1>3, <1>4, OneOwnerChanges
<1>6. queued' = (queued - f[r]) + g[r]
  <2>1. f[r] \in Nat /\ g[r] \in Nat
    BY <1>1
  <2> QED  BY <1>3, <1>4, <1>5, <2>1 DEF TryReserve, Release
<1> QED  BY <1>2, <1>5, <1>6 DEF Counted, EveryByteHasOneOwner

-----------------------------------------------------------------------------
(* What the owners are.                                                        *)

OwnInv(r) ==
  /\ hpc[r] = "new" => body[r] = 0
  /\ state[r] = "open" => hpc[r] \in {"publish", "await", "finish"}
  /\ hpc[r] \in {"publish", "await", "finish"} =>
       kept[r] = size[r] /\ state[r] \in {"open", "claimed", "admitted", "aborted"}
  /\ hpc[r] \in {"finishLoad", "finishDelete"} => owns[r] \/ Claimed(r)
  /\ hpc[r] \in {"release", "done"} /\ Claimed(r) => kept[r] = 0
  /\ HeldBySubscriber(r) => Claimed(r) /\ ~HeldByConsumer(r)

Distinct(s) == \A i, j \in 1..Len(s) : s[i] = s[j] => i = j

QueueInv == Distinct(rchan) /\ (cpc = "consume" => cmsg \notin Range(rchan))

OwnerInv == (\A r \in Requests : OwnInv(r)) /\ QueueInv

\* A sequence of distinct elements that one enters or leaves.
LEMMA DistinctQueue ==
  ASSUME NEW s \in Seq(Requests), Distinct(s)
  PROVE  /\ \A r \in Requests : r \notin Range(s) => Distinct(Append(s, r))
         /\ s # <<>> => Distinct(Tail(s)) /\ Head(s) \notin Range(Tail(s))
<1>1. ASSUME NEW r \in Requests, r \notin Range(s) PROVE Distinct(Append(s, r))
  <2>1. /\ Len(s) \in Nat /\ Len(Append(s, r)) = Len(s) + 1 /\ Append(s, r)[Len(s) + 1] = r
        /\ \A i \in 1..Len(s) : Append(s, r)[i] = s[i] /\ s[i] \in Range(s)
    BY DEF Range
  <2> QED  BY <1>1, <2>1 DEF Distinct
<1>2. ASSUME s # <<>> PROVE Distinct(Tail(s)) /\ Head(s) \notin Range(Tail(s))
  <2> DEFINE t == Tail(s)
  <2>1. /\ Len(s) \in Nat /\ Len(s) > 0 /\ Head(s) = s[1] /\ Len(t) = Len(s) - 1
        /\ DOMAIN t = 1..(Len(s) - 1) /\ \A i \in 1..(Len(s) - 1) : t[i] = s[i + 1]
    BY <1>2
  <2> HIDE DEF t
  <2>2. Distinct(t)
    BY <2>1 DEF Distinct
  <2>3. Head(s) \notin Range(t)
    BY <2>1 DEF Distinct, Range
  <2> QED  BY <2>2, <2>3 DEF t
<1> QED  BY <1>1, <1>2

\* Whoever the consumer or the queue holds was claimed.
LEMMA ConsumedIsClaimed ==
  ASSUME TruthInv
  PROVE  \A r \in Requests : HeldByConsumer(r) => Claimed(r)
BY DEF TruthInv, RequestInv, BatchInv, HeldByConsumer, Reached, Claimed

LEMMA OwnerHandler ==
  ASSUME TypeInv, \A q \in Requests : Held(q)' \in Nat, TruthInv, OwnerInv, Counted,
         NEW r \in Requests, Handler(r)
  PROVE  OwnerInv' /\ Counted'
<1> USE DEF HandlerAt, NotHandlers, reservations, subscription, subscriber, consumer
<1>1. UNCHANGED <<spc, smsg, rchan, cpc, cmsg>>
  BY DEF Handler, ReserveBody, RejectBody, ReadBody, DecodePayload, EndArray, DecodeFails, DecodeDone,
         Publish, PublishReturns, Finish, FinishLoad, FinishDelete, HandlerReturns
<1>2. /\ \A q \in Requests : /\ HeldBySubscriber(q)' = HeldBySubscriber(q)
                             /\ HeldByConsumer(q)' = HeldByConsumer(q)
      /\ QueueInv'
  <2>1. Range(rchan)' = Range(rchan)
    BY <1>1 DEF Range
  <2> QED  BY <1>1, <2>1 DEF HeldBySubscriber, HeldByConsumer, OwnerInv, QueueInv, Distinct
<1>3. /\ hpc \in [Requests -> {"new", "decode", "publish", "await", "finish", "finishLoad",
                              "finishDelete", "release", "done"}]
      /\ body \in [Requests -> 0..BodySize] /\ fresh \in [Requests -> Nat]
      /\ kept \in [Requests -> Nat] /\ size \in [Requests -> Nat] /\ DOMAIN owns = Requests
      /\ state \in [Requests -> {"none", "open", "claimed", "admitted", "aborted", "finished"}]
  BY DEF TypeInv, TypeOK
<1>4. \A q \in Requests : q # r =>
        /\ hpc'[q] = hpc[q] /\ body'[q] = body[q] /\ fresh'[q] = fresh[q] /\ kept'[q] = kept[q]
        /\ size'[q] = size[q] /\ state'[q] = state[q] /\ owns'[q] = owns[q]
  BY <1>3 DEF Handler, ReserveBody, RejectBody, ReadBody, DecodePayload, EndArray, DecodeFails,
         DecodeDone, Publish, PublishReturns, Finish, FinishLoad, FinishDelete, HandlerReturns, Swap
<1>5. \A q \in Requests : q # r => Held(q)' = Held(q) /\ OwnInv(q)'
  BY <1>2, <1>4 DEF Held, BatchBytes, Claimed, OwnerInv, OwnInv
<1>6. OwnInv(r) /\ HandlerInv(r) /\ (HeldByConsumer(r) => Claimed(r))
  BY ConsumedIsClaimed DEF OwnerInv, TruthInv, RequestInv
<1>7. /\ body[r] \in Nat /\ fresh[r] \in Nat /\ kept[r] \in Nat /\ size[r] \in Nat
      /\ hpc[r] \in {"new", "decode"} => state[r] = "none" /\ ~Claimed(r)
      /\ owns[r] => ~Claimed(r)
  <2>1. body[r] \in Nat /\ fresh[r] \in Nat /\ kept[r] \in Nat /\ size[r] \in Nat
    BY <1>3, Sizes
  <2> QED  BY <1>6, <2>1 DEF HandlerInv, Claimed
<1> DEFINE Goal == OwnInv(r)' /\ \E n \in Nat :
              \/ TryReserve(n) /\ Held(r)' = Held(r) + n
              \/ Release(n) /\ Held(r) = Held(r)' + n
              \/ queued' = queued /\ Held(r)' = Held(r)
<1> SUFFICES Goal
  <2>1. ASSUME Goal PROVE Counted'
    <3>1. PICK n \in Nat : \/ TryReserve(n) /\ Held(r)' = Held(r) + n
                           \/ Release(n) /\ Held(r) = Held(r)' + n
                           \/ queued' = queued /\ Held(r)' = Held(r)
      BY <2>1
    <3> QED  BY <1>5, <3>1, Accounts
  <2> QED  BY <1>2, <1>5, <2>1 DEF OwnerInv
<1> USE DEF OwnInv, Held, BatchBytes, Claimed
<1>8. CASE ReserveBody(r)
  <2>1. OwnInv(r)'
    BY <1>2, <1>3, <1>6, <1>8 DEF ReserveBody
  <2>2. CASE TryReserve(BodySize) /\ body' = [body EXCEPT ![r] = BodySize]
    <3>1. body[r] = 0
      BY <1>6, <1>8 DEF ReserveBody
    <3> QED  BY <1>2, <1>3, <1>7, <1>8, <2>1, <2>2, <3>1, Sizes DEF ReserveBody
  <2>3. CASE UNCHANGED <<queued, body>>
    BY <1>2, <1>3, <1>7, <1>8, <2>1, <2>3 DEF ReserveBody
  <2> QED  BY <1>8, <2>2, <2>3 DEF ReserveBody
<1>9. CASE RejectBody(r)
  BY <1>2, <1>3, <1>6, <1>7, <1>9 DEF RejectBody
<1>10. CASE ReadBody(r)
  <2>1. OwnInv(r)'
    BY <1>2, <1>3, <1>6, <1>10 DEF ReadBody
  <2>2. TryReserve(1) /\ Held(r)' = Held(r) + 1
    BY <1>2, <1>3, <1>7, <1>10 DEF ReadBody
  <2> QED  BY <2>1, <2>2
<1>11. CASE DecodePayload(r)
  <2>1. OwnInv(r)'
    BY <1>2, <1>3, <1>6, <1>11 DEF DecodePayload
  <2>2. TryReserve(PayloadSize) /\ Held(r)' = Held(r) + PayloadSize
    BY <1>2, <1>3, <1>7, <1>11, Sizes DEF DecodePayload
  <2> QED  BY <2>1, <2>2, Sizes
<1>12. CASE EndArray(r)
  <2>1. OwnInv(r)'
    BY <1>2, <1>3, <1>6, <1>7, <1>12 DEF EndArray
  <2>2. Release(kept[r]) /\ Held(r) = Held(r)' + kept[r]
    BY <1>2, <1>3, <1>7, <1>12 DEF EndArray
  <2> QED  BY <1>7, <2>1, <2>2
<1>13. CASE DecodeFails(r)
  <2>1. OwnInv(r)'
    BY <1>2, <1>3, <1>6, <1>7, <1>13 DEF DecodeFails
  <2>2. /\ Release(fresh[r] + kept[r]) /\ hpc[r] = "decode" /\ UNCHANGED <<state, body>>
        /\ fresh'[r] = 0 /\ kept'[r] = 0
    BY <1>3, <1>13 DEF DecodeFails
  <2>4. Held(r) = Held(r)' + (fresh[r] + kept[r])
    <3>1. Held(r) = body[r] + fresh[r] + kept[r] /\ Held(r)' = body[r] + 0 + 0
      BY <1>7, <2>2
    <3> QED  BY <1>7, <3>1
  <2>3. fresh[r] + kept[r] \in Nat
    BY <1>7
  <2> QED  BY <2>1, <2>2, <2>3, <2>4
<1>14. CASE DecodeDone(r)
  BY <1>2, <1>3, <1>6, <1>7, <1>14 DEF DecodeDone
<1>15. CASE Publish(r) \/ PublishReturns(r)
  BY <1>2, <1>3, <1>6, <1>7, <1>15 DEF Publish, PublishReturns
<1>16. CASE Finish(r)
  BY <1>2, <1>3, <1>6, <1>7, <1>16 DEF Finish, Swap
<1>17. CASE FinishLoad(r)
  BY <1>2, <1>3, <1>6, <1>7, <1>17 DEF FinishLoad
<1>18. CASE FinishDelete(r)
  BY <1>2, <1>3, <1>6, <1>7, <1>18 DEF FinishDelete
<1>19. CASE HandlerReturns(r)
  <2>1. OwnInv(r)'
    BY <1>2, <1>3, <1>6, <1>7, <1>19 DEF HandlerReturns
  <2>2. Release(kept[r] + body[r]) /\ Held(r) = Held(r)' + (kept[r] + body[r])
    BY <1>2, <1>3, <1>6, <1>7, <1>19 DEF HandlerReturns
  <2>3. kept[r] + body[r] \in Nat
    BY <1>7
  <2> QED  BY <2>1, <2>2, <2>3
<1> QED
  BY <1>8, <1>9, <1>10, <1>11, <1>12, <1>13, <1>14, <1>15, <1>16, <1>17, <1>18, <1>19 DEF Handler

\* The subscriber takes a batch from its handler and hands it to the queue.
LEMMA OwnerSubscriber ==
  ASSUME TypeInv, \A q \in Requests : Held(q)' \in Nat, TruthInv, OwnerInv, Counted,
         Subscribe \/ Subscriber \/ Shutdown
  PROVE  OwnerInv' /\ Counted'
<1> USE DEF SubscriberGoto, SubscriberIdle, handlers
<1>1. UNCHANGED <<hpc, body, fresh, kept, size, owns, cpc, cmsg>>
  BY DEF Subscribe, Subscriber, Shutdown, Receive, Claim, Enqueue, Admit, Abort, AbortReleases,
         SubscriberStops, consumer, reservations
<1>2. /\ rchan \in Seq(Requests) /\ size \in [Requests -> Nat]
      /\ state \in [Requests -> {"none", "open", "claimed", "admitted", "aborted", "finished"}]
      /\ spc \in {"claim", "enqueue", "admit", "abort"} => smsg \in Requests
      /\ NoRequest \notin Requests
  BY RequestsAssumption DEF TypeInv, TypeOK, InHand
<1>3. \A q \in Requests : OwnInv(q) /\ BatchInv(q) /\ (HeldByConsumer(q) => Claimed(q))
  BY ConsumedIsClaimed DEF OwnerInv, TruthInv, RequestInv
<1>4. ASSUME rchan' = rchan
      PROVE  QueueInv' /\ \A q \in Requests : HeldByConsumer(q)' = HeldByConsumer(q)
  <2>1. Range(rchan)' = Range(rchan)
    BY <1>4 DEF Range
  <2> QED  BY <1>1, <1>4, <2>1 DEF HeldByConsumer, OwnerInv, QueueInv, Distinct
\* A step that moves no batch.
<1>5. ASSUME state' = state, rchan' = rchan, queued' = queued,
             \A q \in Requests : HeldBySubscriber(q)' = HeldBySubscriber(q)
      PROVE  OwnerInv' /\ Counted'
  <2>1. \A q \in Requests : Held(q)' = Held(q) /\ OwnInv(q)'
    BY <1>1, <1>3, <1>4, <1>5 DEF Held, BatchBytes, Claimed, OwnInv
  <2>2. Counted'
    BY <1>5, <2>1 DEF Counted, EveryByteHasOneOwner, OwnedBytes
  <2> QED  BY <1>4, <1>5, <2>1, <2>2 DEF OwnerInv
\* A step that changes the state or the place of the batch in hand.
<1>6. ASSUME NEW r \in Requests, queued' = queued, QueueInv', OwnInv(r)', Held(r)' = Held(r),
             \A q \in Requests : q # r =>
               /\ state'[q] = state[q] /\ HeldBySubscriber(q)' = HeldBySubscriber(q)
               /\ HeldByConsumer(q)' = HeldByConsumer(q)
      PROVE  OwnerInv' /\ Counted'
  <2>1. \A q \in Requests : q # r => Held(q)' = Held(q) /\ OwnInv(q)'
    BY <1>1, <1>3, <1>6 DEF Held, BatchBytes, Claimed, OwnInv
  <2>2. Counted'
    BY <1>6, <2>1, Accounts
  <2> QED  BY <1>6, <2>1, <2>2 DEF OwnerInv
<1>7. CASE Subscribe \/ Shutdown \/ Receive
  BY <1>5, <1>7 DEF Subscribe, Shutdown, Receive, reservations, subscriber, consumer, HeldBySubscriber
<1>8. CASE SubscriberStops
  BY <1>5, <1>8 DEF SubscriberStops, reservations, consumer, HeldBySubscriber
<1>9. CASE Claim
  <2>0. PICK r \in Requests : r = smsg
    BY <1>2, <1>9 DEF Claim
  <2>1. spc = "claim" /\ smsg = r /\ rchan' = rchan /\ queued' = queued
    BY <1>2, <1>9, <2>0 DEF Claim, consumer
  <2>2. CASE state[r] # "open"
    BY <1>5, <1>9, <2>1, <2>2 DEF Claim, Swap, HeldBySubscriber
  <2>3. CASE state[r] = "open"
    <3>1. /\ spc' = "enqueue" /\ smsg' = r /\ state'[r] = "claimed"
          /\ \A q \in Requests : q # r => state'[q] = state[q]
      BY <1>2, <1>9, <2>1, <2>3 DEF Claim, Swap
    <3>2. ~HeldByConsumer(r) /\ ~HeldByConsumer(r)' /\ HeldBySubscriber(r)'
      BY <1>3, <1>4, <2>1, <2>3, <3>1 DEF Claimed, HeldBySubscriber
    <3>3. kept[r] = size[r] /\ hpc[r] \in {"publish", "await", "finish"}
      BY <1>3, <2>1, <2>3 DEF OwnInv
    <3>4. OwnInv(r)'
      BY <1>1, <3>1, <3>2, <3>3 DEF OwnInv, Claimed
    <3>5. Held(r)' = Held(r)
      BY <1>1, <2>3, <3>1, <3>2, <3>3 DEF Held, BatchBytes, Claimed
    <3> QED  BY <1>4, <1>6, <2>1, <3>1, <3>4, <3>5 DEF HeldBySubscriber
  <2> QED  BY <2>2, <2>3
<1>10. CASE Enqueue
  <2>0. PICK r \in Requests : r = smsg
    BY <1>2, <1>10 DEF Enqueue
  <2>1. /\ spc = "enqueue" /\ spc' = "admit" /\ smsg = r /\ smsg' = r /\ state' = state
        /\ rchan' = Append(rchan, r) /\ queued' = queued
    BY <1>2, <1>10, <2>0 DEF Enqueue, reservations
  <2>2. HeldBySubscriber(r) /\ Claimed(r) /\ ~HeldByConsumer(r) /\ r \notin Range(rchan)
    BY <1>3, <2>1 DEF HeldBySubscriber, HeldByConsumer, OwnInv
  <2>3. Range(rchan)' = Range(rchan) \cup {r}
    <3>1. Range(rchan)' = Range(Append(rchan, r))
      BY <2>1 DEF Range
    <3> QED  BY <1>2, <2>1, <3>1, Queueing
  <2>4. QueueInv'
    <3>1. Distinct(Append(rchan, r))
      BY <1>2, <2>1, <2>2, DistinctQueue DEF OwnerInv, QueueInv
    <3>2. Distinct(rchan)'
      BY <2>1, <3>1 DEF Distinct
    <3> QED  BY <1>1, <2>2, <2>3, <3>2 DEF QueueInv, OwnerInv, HeldByConsumer
  <2>5. /\ ~HeldBySubscriber(r)' /\ HeldByConsumer(r)' /\ Claimed(r)'
        /\ \A q \in Requests : q # r => HeldBySubscriber(q)' = HeldBySubscriber(q)
                                       /\ HeldByConsumer(q)' = HeldByConsumer(q)
    BY <1>1, <2>1, <2>2, <2>3 DEF HeldBySubscriber, HeldByConsumer, Claimed
  <2>6. OwnInv(r)' /\ Held(r)' = Held(r)
    BY <1>1, <1>3, <2>1, <2>2, <2>5 DEF OwnInv, Held, BatchBytes, Claimed
  <2> QED  BY <1>6, <2>1, <2>4, <2>5, <2>6
<1>11. CASE Admit
  <2>0. PICK r \in Requests : r = smsg
    BY <1>2, <1>11 DEF Admit
  <2>1. /\ spc = "admit" /\ spc' = "idle" /\ smsg = r /\ queued' = queued /\ rchan' = rchan
        /\ \A q \in Requests : q # r => state'[q] = state[q]
        /\ state'[r] \in {state[r], "admitted"}
    BY <1>2, <1>11, <2>0 DEF Admit, consumer, Transition, Swap
  <2>2. state[r] = "claimed"
    BY <1>3, <2>1 DEF BatchInv, Working
  <2>3. \A q \in Requests : ~HeldBySubscriber(q) /\ ~HeldBySubscriber(q)'
    BY <2>1 DEF HeldBySubscriber
  <2>4. Claimed(r) /\ Claimed(r)' /\ HeldByConsumer(r)' = HeldByConsumer(r)
    BY <1>4, <2>1, <2>2 DEF Claimed
  <2>5. Held(r)' = Held(r)
    BY <1>1, <2>3, <2>4 DEF Held, BatchBytes
  <2>6. OwnInv(r)'
    BY <1>1, <1>3, <2>1, <2>2, <2>3, <2>4 DEF OwnInv
  <2>7. \A q \in Requests : HeldBySubscriber(q)' = HeldBySubscriber(q)
    BY <2>1 DEF HeldBySubscriber
  <2> QED  BY <1>4, <1>6, <2>1, <2>5, <2>6, <2>7
<1>12. CASE Abort
  <2>0. PICK r \in Requests : r = smsg
    BY <1>2, <1>12 DEF Abort
  <2>1. /\ spc = "enqueue" /\ spc' = "abort" /\ smsg = r /\ smsg' = r
        /\ queued' = queued /\ rchan' = rchan
        /\ \A q \in Requests : q # r => state'[q] = state[q]
        /\ state'[r] \in {state[r], "aborted"}
    BY <1>2, <1>12, <2>0 DEF Abort, consumer, Transition, Swap
  <2>2. state[r] = "claimed"
    BY <1>3, <2>1 DEF BatchInv, Working
  <2>3. \A q \in Requests : HeldBySubscriber(q)' = HeldBySubscriber(q)
    BY <2>1 DEF HeldBySubscriber
  <2>4. OwnInv(r)' /\ Held(r)' = Held(r)
    BY <1>1, <1>3, <1>4, <2>1, <2>2, <2>3 DEF OwnInv, Held, BatchBytes, Claimed
  <2> QED  BY <1>4, <1>6, <2>1, <2>3, <2>4
<1>13. CASE AbortReleases
  <2>0. PICK r \in Requests : r = smsg
    BY <1>2, <1>13 DEF AbortReleases
  <2>1. /\ spc = "abort" /\ spc' = "gone" /\ smsg = r /\ state' = state /\ rchan' = rchan
        /\ Release(size[r]) /\ size[r] \in Nat
    BY <1>2, <1>13, <2>0 DEF AbortReleases, reservations, consumer
  <2>2. HeldBySubscriber(r) /\ Claimed(r) /\ ~HeldByConsumer(r)
    BY <1>3, <2>1 DEF HeldBySubscriber, OwnInv
  <2>3. /\ \A q \in Requests : ~HeldBySubscriber(q)' /\ (q # r => ~HeldBySubscriber(q))
        /\ ~HeldByConsumer(r)'
    BY <1>4, <2>1, <2>2 DEF HeldBySubscriber
  <2>4. \A q \in Requests : OwnInv(q)' /\ (q # r => Held(q)' = Held(q))
    BY <1>1, <1>3, <1>4, <2>1, <2>3 DEF OwnInv, Held, BatchBytes, Claimed
  <2>5. Held(r) = Held(r)' + size[r]
    <3>1. BatchBytes(r) = size[r] /\ BatchBytes(r)' = 0
      BY <2>1, <2>2, <2>3 DEF BatchBytes, Claimed
    <3>2. Held(r) = (body[r] + fresh[r]) + size[r] /\ Held(r)' = body[r] + fresh[r] + 0
      BY <1>1, <3>1 DEF Held
    <3>3. Held(r)' \in Nat /\ body[r] + fresh[r] \in Nat
      BY <2>1, BodyType
    <3> QED  BY <2>1, <3>2, <3>3
  <2> QED  BY <1>4, <2>1, <2>4, <2>5, Accounts DEF OwnerInv
<1> QED
  BY <1>7, <1>8, <1>9, <1>10, <1>11, <1>12, <1>13 DEF Subscriber

\* The consumer takes the batches out of the queue, and releases each once.
LEMMA OwnerConsumer ==
  ASSUME TypeInv, \A q \in Requests : Held(q)' \in Nat, TruthInv, OwnerInv, Counted, Consumer
  PROVE  OwnerInv' /\ Counted'
<1>1. UNCHANGED <<hpc, body, fresh, kept, size, owns, state, spc, smsg>>
  BY DEF Consumer, Take, Consume, ConsumerStops, ConsumerWaits, Drain, handlers, reservations, subscriber
<1>2. rchan \in Seq(Requests) /\ size \in [Requests -> Nat] /\ (cpc = "consume" => cmsg \in Requests)
  BY DEF TypeInv, TypeOK, InHand
<1>3. \A q \in Requests : OwnInv(q) /\ (HeldByConsumer(q) => Claimed(q))
  BY ConsumedIsClaimed DEF OwnerInv
<1>4. Distinct(rchan) /\ (cpc = "consume" => cmsg \notin Range(rchan))
  BY DEF OwnerInv, QueueInv
<1>5. \A q \in Requests : HeldBySubscriber(q)' = HeldBySubscriber(q) /\ Claimed(q)' = Claimed(q)
  BY <1>1 DEF HeldBySubscriber, Claimed
\* A step that keeps the batches the consumer holds.
<1>6. ASSUME queued' = queued, QueueInv', \A q \in Requests : HeldByConsumer(q)' = HeldByConsumer(q)
      PROVE  OwnerInv' /\ Counted'
  <2>1. \A q \in Requests : Held(q)' = Held(q) /\ OwnInv(q)'
    BY <1>1, <1>3, <1>5, <1>6 DEF Held, BatchBytes, OwnInv
  <2>2. Counted'
    BY <1>6, <2>1 DEF Counted, EveryByteHasOneOwner, OwnedBytes
  <2> QED  BY <1>6, <2>1, <2>2 DEF OwnerInv
\* A step that releases the bytes of r and does not hold it any more.
<1>7. ASSUME NEW r \in Requests, Release(size[r]), QueueInv', HeldByConsumer(r), ~HeldByConsumer(r)',
             \A q \in Requests : q # r => HeldByConsumer(q)' = HeldByConsumer(q)
      PROVE  OwnerInv' /\ Counted'
  <2>1. \A q \in Requests : OwnInv(q)' /\ (q # r => Held(q)' = Held(q))
    BY <1>1, <1>3, <1>5, <1>7 DEF Held, BatchBytes, OwnInv
  <2>2. Claimed(r) /\ ~HeldBySubscriber(r) /\ size[r] \in Nat
    BY <1>2, <1>3, <1>7 DEF OwnInv
  <2>3. BatchBytes(r) = size[r] /\ BatchBytes(r)' = 0
    BY <1>5, <1>7, <2>2 DEF BatchBytes
  <2>4. Held(r) = (body[r] + fresh[r]) + size[r] /\ Held(r)' = body[r] + fresh[r] + 0
    BY <1>1, <2>3 DEF Held
  <2>5. body[r] + fresh[r] \in Nat
    BY BodyType
  <2>6. Held(r) = Held(r)' + size[r]
    BY <2>2, <2>4, <2>5
  <2> QED  BY <1>7, <2>1, <2>2, <2>6, Accounts DEF OwnerInv
<1>8. ASSUME rchan # <<>>, rchan' = Tail(rchan)
      PROVE  /\ Head(rchan) \in Requests /\ Head(rchan) \in Range(rchan)
             /\ Range(rchan) = Range(rchan)' \cup {Head(rchan)}
             /\ Head(rchan) \notin Range(rchan)' /\ Distinct(rchan)'
  <2>1. Range(rchan)' = Range(Tail(rchan)) /\ (Distinct(rchan)' <=> Distinct(Tail(rchan)))
    BY <1>8 DEF Range, Distinct
  <2> QED  BY <1>2, <1>4, <1>8, <2>1, Queueing, DistinctQueue
<1>9. CASE Take
  <2>1. /\ rchan # <<>> /\ rchan' = Tail(rchan) /\ cmsg' = Head(rchan) /\ queued' = queued
        /\ cpc = "idle" /\ cpc' = "consume"
    BY <1>9 DEF Take
  <2> QED  BY <1>6, <1>8, <2>1 DEF QueueInv, HeldByConsumer
<1>10. CASE Consume
  <2>1. /\ cpc = "consume" /\ cpc' = "idle" /\ rchan' = rchan /\ Release(size[cmsg]) /\ cmsg \in Requests
    BY <1>2, <1>10 DEF Consume
  <2>2. Range(rchan)' = Range(rchan) /\ Distinct(rchan)'
    BY <1>4, <2>1 DEF Range, Distinct
  <2>3. /\ HeldByConsumer(cmsg)
        /\ ~(cmsg \in Range(rchan)' \/ cpc' = "consume")
    BY <1>4, <2>1, <2>2 DEF HeldByConsumer
  <2> QED  BY <1>4, <1>7, <2>1, <2>2, <2>3 DEF QueueInv, HeldByConsumer
<1>11. CASE ConsumerStops \/ ConsumerWaits
  <2>1. rchan' = rchan /\ queued' = queued /\ cpc # "consume" /\ cpc' # "consume"
    BY <1>11 DEF ConsumerStops, ConsumerWaits
  <2>2. Range(rchan)' = Range(rchan) /\ Distinct(rchan)'
    BY <1>4, <2>1 DEF Range, Distinct
  <2> QED  BY <1>6, <2>1, <2>2 DEF QueueInv, HeldByConsumer
<1>12. CASE Drain
  <2>1. CASE rchan = <<>>
    <3>1. rchan' = rchan /\ queued' = queued /\ cpc # "consume" /\ cpc' # "consume"
      BY <1>12, <2>1 DEF Drain
    <3>2. Range(rchan)' = Range(rchan) /\ Distinct(rchan)'
      BY <1>4, <3>1 DEF Range, Distinct
    <3> QED  BY <1>6, <3>1, <3>2 DEF QueueInv, HeldByConsumer
  <2>2. CASE rchan # <<>>
    <3>1. rchan' = Tail(rchan) /\ Release(size[Head(rchan)]) /\ cpc = "drain" /\ cpc' = "drain"
      BY <1>12, <2>2 DEF Drain
    <3> DEFINE r == Head(rchan)
    <3>2. /\ r \in Requests /\ r \in Range(rchan) /\ Range(rchan) = Range(rchan)' \cup {r}
          /\ r \notin Range(rchan)' /\ Distinct(rchan)'
      BY <1>8, <2>2, <3>1
    <3> HIDE DEF r
    <3>3. QueueInv' /\ HeldByConsumer(r) /\ ~(r \in Range(rchan)' \/ cpc' = "consume")
      BY <3>1, <3>2 DEF QueueInv, HeldByConsumer
    <3>4. \A q \in Requests : q # r => HeldByConsumer(q)' = HeldByConsumer(q)
      BY <3>1, <3>2 DEF HeldByConsumer
    <3>5. Release(size[r])
      BY <3>1 DEF r
    <3> QED  BY <1>7, <3>1, <3>2, <3>3, <3>4, <3>5 DEF HeldByConsumer
  <2> QED  BY <2>1, <2>2
<1> QED
  BY <1>9, <1>10, <1>11, <1>12 DEF Consumer

LEMMA AllHeld == TypeInv => \A r \in Requests : Held(r) \in Nat
BY HeldType

LEMMA OwnerNext ==
  TypeInv /\ TypeInv' /\ TruthInv /\ OwnerInv /\ Counted /\ [Next]_vars => OwnerInv' /\ Counted'
<1> SUFFICES ASSUME TypeInv, TypeInv', TruthInv, OwnerInv, Counted, [Next]_vars
             PROVE  OwnerInv' /\ Counted'
  OBVIOUS
<1>1. \A q \in Requests : Held(q)' \in Nat
  <2>1. (\A r \in Requests : Held(r) \in Nat)'
    BY AllHeld, PTL
  <2> QED  BY <2>1
<1>2. CASE UNCHANGED vars
  <2> USE DEF vars, handlers, reservations, subscription, subscriber, consumer
  <2>1. Range(rchan)' = Range(rchan)
    BY <1>2 DEF Range
  <2>2. \A q \in Requests : /\ HeldBySubscriber(q)' = HeldBySubscriber(q)
                            /\ HeldByConsumer(q)' = HeldByConsumer(q)
    BY <1>2, <2>1 DEF HeldBySubscriber, HeldByConsumer
  <2>3. \A q \in Requests : Held(q)' = Held(q) /\ OwnInv(q)'
    BY <1>2, <2>2 DEF Held, BatchBytes, Claimed, OwnInv, OwnerInv
  <2>4. QueueInv'
    BY <1>2, <2>1 DEF OwnerInv, QueueInv, Distinct
  <2>5. Counted'
    BY <1>2, <2>3 DEF Counted, EveryByteHasOneOwner, OwnedBytes
  <2> QED  BY <2>3, <2>4, <2>5 DEF OwnerInv
<1> QED
  BY <1>1, <1>2, OwnerHandler, OwnerSubscriber, OwnerConsumer DEF Next

LEMMA OwnerInit == Init => OwnerInv /\ Counted
<1> SUFFICES ASSUME Init PROVE OwnerInv /\ Counted
  OBVIOUS
<1>1. Range(rchan) = {} /\ Distinct(rchan)
  BY DEF Init, Range, Distinct
<1>2. OwnerInv
  BY <1>1, RequestsAssumption DEF Init, OwnerInv, OwnInv, QueueInv, Claimed, HeldBySubscriber
<1>3. \A r \in Requests : Held(r) = 0
  BY DEF Init, Held, BatchBytes, Claimed
<1>4. OwnedBytes = {}
  BY <1>3 DEF OwnedBytes
<1>5. Counted
  BY <1>4, FS_EmptySet DEF Counted, EveryByteHasOneOwner, Init
<1> QED  BY <1>2, <1>5

\* Every queued byte has one owner who will release it, for any number of requests at
\* once: no interleaving of handler, subscriber and consumer, and no shutdown, leaks a
\* byte or releases one twice.
THEOREM BytesHaveOneOwner == Spec => []EveryByteHasOneOwner
<1>1. Counted => EveryByteHasOneOwner
  BY DEF Counted
<1> QED
  BY <1>1, TypeInvariant, TypeNext, TruthInit, TruthNext, OwnerInit, OwnerNext, PTL DEF Spec

-----------------------------------------------------------------------------
(* At rest.  A handler that has not begun or has ended holds nothing, and only *)
(* one that decodes has an array in hand.                                      *)

RestOf(r) ==
  /\ hpc[r] # "decode" => fresh[r] = 0
  /\ hpc[r] \in {"new", "done"} => body[r] = 0 /\ kept[r] = 0

RestInv == \A r \in Requests : RestOf(r)

LEMMA RestNext == TypeInv /\ RestInv /\ [Next]_vars => RestInv'
<1> SUFFICES ASSUME TypeInv, RestInv, [Next]_vars, NEW q \in Requests PROVE RestOf(q)'
  BY DEF RestInv
<1>1. /\ DOMAIN hpc = Requests /\ DOMAIN body = Requests /\ DOMAIN fresh = Requests
      /\ DOMAIN kept = Requests /\ RestOf(q)
  BY DEF TypeInv, TypeOK, RestInv
<1>2. CASE UNCHANGED handlers
  BY <1>1, <1>2 DEF handlers, RestOf
<1>3. ASSUME NEW r \in Requests, Handler(r) PROVE RestOf(q)'
  <2> USE DEF HandlerAt, RestOf
  <2>1. CASE ReserveBody(r) \/ RejectBody(r) \/ ReadBody(r) \/ DecodePayload(r)
    BY <1>1, <2>1 DEF ReserveBody, RejectBody, ReadBody, DecodePayload
  <2>2. CASE EndArray(r) \/ DecodeFails(r) \/ DecodeDone(r)
    BY <1>1, <2>2 DEF EndArray, DecodeFails, DecodeDone
  <2>3. CASE Publish(r) \/ PublishReturns(r) \/ Finish(r) \/ FinishLoad(r)
    BY <1>1, <2>3 DEF Publish, PublishReturns, Finish, FinishLoad
  <2>4. CASE FinishDelete(r) \/ HandlerReturns(r)
    BY <1>1, <2>4 DEF FinishDelete, HandlerReturns
  <2> QED  BY <1>3, <2>1, <2>2, <2>3, <2>4 DEF Handler
<1>4. CASE Subscribe \/ Subscriber \/ Consumer \/ Shutdown \/ UNCHANGED vars
  <2>1. UNCHANGED handlers
    BY <1>4 DEF Subscribe, Subscriber, Receive, Claim, Enqueue, Admit, Abort, AbortReleases, SubscriberStops,
       Consumer, Take, Consume, ConsumerStops, ConsumerWaits, Drain, Shutdown, vars
  <2> QED  BY <1>2, <2>1
<1> QED  BY <1>3, <1>4 DEF Next

\* No request is being handled, and no batch is on its way through the subscriber,
\* the queue and the consumer.
AtRest ==
  /\ \A r \in Requests : hpc[r] \in {"new", "done"}
  /\ spc \in {"idle", "gone"} /\ rchan = <<>> /\ cpc # "consume"

LEMMA RestImplies == RestInv /\ Counted /\ AtRest => queued = 0
<1> SUFFICES ASSUME RestInv, Counted, AtRest PROVE queued = 0
  OBVIOUS
<1>1. Range(rchan) = {}
  BY DEF AtRest, Range
<1>2. \A r \in Requests : BatchBytes(r) = 0
  BY <1>1 DEF AtRest, RestInv, RestOf, BatchBytes, HeldBySubscriber, HeldByConsumer
<1>3. \A r \in Requests : Held(r) = 0
  BY <1>2 DEF Held, AtRest, RestInv, RestOf
<1>4. OwnedBytes = {}
  BY <1>3 DEF OwnedBytes
<1> QED  BY <1>4, FS_EmptySet DEF Counted, EveryByteHasOneOwner

\* Whenever nothing is under way, the whole budget is free again: whatever requests
\* came before, were refused, answered, dropped or drained, nothing of them is left.
THEOREM NothingIsLeftBehind == Spec => [](AtRest => queued = 0)
<1>1. Init => RestInv
  BY DEF Init, RestInv, RestOf
<1> QED
  BY <1>1, RestNext, RestImplies, TypeInvariant, TypeNext, TruthInit, TruthNext, OwnerInit, OwnerNext, PTL DEF Spec

=============================================================================
