----------------------------- MODULE QueuedBytes -----------------------------
(***************************************************************************)
(* The byte budget of HTTP rule messages (internal/queuedbytes) and those  *)
(* who reserve and release its bytes: the handler of each POST of rule     *)
(* messages (internal/mod/http/server/rules.go), the subscriber that moves *)
(* a published batch to the queue of the rule engine, and the consumer of  *)
(* that queue (internal/mod/rule/handler.go).                              *)
(*                                                                         *)
(* The reservation of a batch changes hands while Publish runs: the        *)
(* handler tracks it, the subscriber claims it, and the handler finds out  *)
(* in FinishMessage, by compare-and-swap on the state of the reservation,  *)
(* which of the two has to release it.  TryReserve and Release retry their *)
(* compare-and-swap until it succeeds, and are one step each.              *)
(*                                                                         *)
(* The gochannel publisher is external: Publish hands the message to the   *)
(* subscriber, if there is one, and returns when it is acknowledged or     *)
(* when the subscription is closed, the message perhaps still undelivered. *)
(*                                                                         *)
(* An operator whose name starts with Bug is a faulty variant of the one   *)
(* after it; no behaviour uses it.                                         *)
(***************************************************************************)
EXTENDS Naturals, Sequences, Functions, FiniteSets

CONSTANTS Requests,     \* bound: the POST requests, one batch each
          NoRequest,
          Limit,        \* Budget.limit
          BodySize,     \* bytes of a request body
          PayloadSize,  \* bytes reserved for a payload, overhead included
          MaxPayloads,  \* bound: payloads of one array of messages
          QueueCap      \* capacity of ruleMessageChan (1000 in the code)

ASSUME RequestsAssumption == NoRequest \notin Requests
ASSUME SizesAssumption ==
  {Limit, BodySize, PayloadSize, MaxPayloads, QueueCap} \subseteq Nat \ {0}

VARIABLES
  queued,             \* Budget.queued
  hpc, answer,        \* each handler, and what it answered
  body,               \* bytes reserved for the body read so far
  fresh, kept,        \* bytes of the array being decoded, of the payloads kept
  tracked,            \* keys of Budget.reservations
  size, state,        \* the messageReservation of each batch
  owns, seen,         \* locals of FinishMessage
  subscribed, closing,
  delivered, acked,   \* the subscription: messages on their way, acknowledged
  spc, smsg,          \* the subscriber
  rchan,              \* ruleMessageChan
  cpc, cmsg, consumed \* the consumer, and the batches the engine was given

handlers == <<hpc, answer, body, fresh, kept, owns, seen>>
reservations == <<tracked, size, state>>
subscription == <<subscribed, closing, delivered, acked>>
subscriber == <<spc, smsg>>
consumer == <<rchan, cpc, cmsg, consumed>>
vars == <<queued, handlers, reservations, subscription, subscriber, consumer>>

Init ==
  /\ queued = 0
  /\ hpc = [r \in Requests |-> "new"] /\ answer = [r \in Requests |-> "none"]
  /\ body = [r \in Requests |-> 0] /\ fresh = [r \in Requests |-> 0]
  /\ kept = [r \in Requests |-> 0]
  /\ tracked = {} /\ size = [r \in Requests |-> 0] /\ state = [r \in Requests |-> "none"]
  /\ owns = [r \in Requests |-> FALSE] /\ seen = [r \in Requests |-> "none"]
  /\ subscribed = FALSE /\ closing = FALSE /\ delivered = <<>> /\ acked = {}
  /\ spc = "idle" /\ smsg = NoRequest
  /\ rchan = <<>> /\ cpc = "idle" /\ cmsg = NoRequest /\ consumed = {}

-----------------------------------------------------------------------------
(***************************************************************************)
(* Budget.                                                                 *)
(***************************************************************************)

BugFitsOneMore(n) == n <= Limit /\ queued <= Limit + 1 - n

Fits(n) == n <= Limit /\ queued <= Limit - n

TryReserve(n) == Fits(n) /\ queued' = queued + n

\* Release refuses more than is queued, and nobody looks at its result.
Release(n) == queued' = IF n > queued THEN queued ELSE queued - n

\* The compare-and-swap of a reservation, on the object the caller holds.
Swap(r, from, to) ==
  state' = IF state[r] = from THEN [state EXCEPT ![r] = to] ELSE state

\* transitionMessage: looks the object up first.
Transition(r, from, to) ==
  IF r \in tracked THEN Swap(r, from, to) ELSE UNCHANGED state

-----------------------------------------------------------------------------
(***************************************************************************)
(* RulesHandler, one per request.                                          *)
(***************************************************************************)

HandlerAt(r, from, to) == hpc[r] = from /\ hpc' = [hpc EXCEPT ![r] = to]

NotHandlers == <<reservations, subscription, subscriber, consumer>>

\* A known Content-Length is reserved at once; otherwise nothing is, yet.
ReserveBody(r) ==
  /\ HandlerAt(r, "new", "decode")
  /\ \/ TryReserve(BodySize) /\ body' = [body EXCEPT ![r] = BodySize]
     \/ UNCHANGED <<queued, body>>
  /\ UNCHANGED <<answer, fresh, kept, owns, seen, NotHandlers>>

RejectBody(r) ==
  /\ ~Fits(BodySize)
  /\ HandlerAt(r, "new", "done") /\ answer' = [answer EXCEPT ![r] = "limit"]
  /\ UNCHANGED <<queued, body, fresh, kept, owns, seen, NotHandlers>>

\* The reader of a body of unknown length reserves the bytes as they are read.
ReadBody(r) ==
  /\ hpc[r] = "decode" /\ body[r] < BodySize
  /\ TryReserve(1) /\ body' = [body EXCEPT ![r] = @ + 1]
  /\ UNCHANGED <<hpc, answer, fresh, kept, owns, seen, NotHandlers>>

\* A payload of the array being decoded is reserved.
DecodePayload(r) ==
  /\ hpc[r] = "decode" /\ fresh[r] < MaxPayloads * PayloadSize
  /\ TryReserve(PayloadSize) /\ fresh' = [fresh EXCEPT ![r] = @ + PayloadSize]
  /\ UNCHANGED <<hpc, answer, body, kept, owns, seen, NotHandlers>>

\* The array, empty perhaps, ends; it replaces the payloads of an earlier
\* "messages" field.
EndArray(r) ==
  /\ hpc[r] = "decode"
  /\ Release(kept[r])
  /\ kept' = [kept EXCEPT ![r] = fresh[r]] /\ fresh' = [fresh EXCEPT ![r] = 0]
  /\ UNCHANGED <<hpc, answer, body, owns, seen, NotHandlers>>

\* Decoding fails, for the limit or for the syntax: its payloads are released.
DecodeFails(r) ==
  /\ HandlerAt(r, "decode", "release")
  /\ \/ answer' = [answer EXCEPT ![r] = "bad request"]
     \/ ~(Fits(PayloadSize) /\ Fits(1)) /\ answer' = [answer EXCEPT ![r] = "limit"]
  /\ Release(fresh[r] + kept[r])
  /\ fresh' = [fresh EXCEPT ![r] = 0] /\ kept' = [kept EXCEPT ![r] = 0]
  /\ UNCHANGED <<body, owns, seen, NotHandlers>>

DecodeDone(r) ==
  /\ fresh[r] = 0 /\ kept[r] > 0 /\ body[r] = BodySize
  /\ HandlerAt(r, "decode", "publish")
  /\ tracked' = tracked \cup {r}
  /\ size' = [size EXCEPT ![r] = kept[r]] /\ state' = [state EXCEPT ![r] = "open"]
  /\ UNCHANGED <<queued, answer, body, fresh, kept, owns, seen, subscription, subscriber, consumer>>

\* Publish; without a subscriber it returns at once.
Publish(r) ==
  /\ HandlerAt(r, "publish", IF subscribed /\ ~closing THEN "await" ELSE "finish")
  /\ delivered' = IF subscribed /\ ~closing THEN Append(delivered, r) ELSE delivered
  /\ UNCHANGED <<queued, answer, body, fresh, kept, owns, seen, reservations,
                 subscribed, closing, acked, subscriber, consumer>>

PublishReturns(r) ==
  /\ r \in acked \/ closing
  /\ HandlerAt(r, "await", "finish")
  /\ UNCHANGED <<queued, answer, body, fresh, kept, owns, seen, NotHandlers>>

BugFinishWithoutSwap(r) ==
  /\ HandlerAt(r, "finish", "finishLoad")
  /\ owns' = [owns EXCEPT ![r] = state[r] = "open"]
  /\ UNCHANGED <<queued, answer, body, fresh, kept, seen, NotHandlers>>

\* FinishMessage: take the reservation back if nobody claimed it ...
Finish(r) ==
  /\ HandlerAt(r, "finish", "finishLoad")
  /\ owns' = [owns EXCEPT ![r] = state[r] = "open"]
  /\ Swap(r, "open", "finished")
  /\ UNCHANGED <<queued, answer, body, fresh, kept, seen, tracked, size,
                 subscription, subscriber, consumer>>

\* ... load the state ...
FinishLoad(r) ==
  /\ HandlerAt(r, "finishLoad", "finishDelete")
  /\ seen' = [seen EXCEPT ![r] = state[r]]
  /\ UNCHANGED <<queued, answer, body, fresh, kept, owns, NotHandlers>>

\* ... and forget the message.  The bytes of a claimed batch are no longer the
\* handler's; the answer is 200 when it was admitted.
FinishDelete(r) ==
  /\ HandlerAt(r, "finishDelete", "release")
  /\ tracked' = tracked \ {r}
  /\ kept' = IF owns[r] THEN kept ELSE [kept EXCEPT ![r] = 0]
  /\ answer' = [answer EXCEPT ![r] =
       IF ~owns[r] /\ seen[r] = "admitted" THEN "ok" ELSE "unavailable"]
  /\ UNCHANGED <<queued, body, fresh, owns, seen, size, state, subscription, subscriber, consumer>>

\* The deferred releases: the payloads that are still the handler's, the body.
HandlerReturns(r) ==
  /\ HandlerAt(r, "release", "done")
  /\ Release(kept[r] + body[r])
  /\ kept' = [kept EXCEPT ![r] = 0] /\ body' = [body EXCEPT ![r] = 0]
  /\ UNCHANGED <<answer, fresh, owns, seen, NotHandlers>>

Handler(r) ==
  \/ ReserveBody(r) \/ RejectBody(r) \/ ReadBody(r) \/ DecodePayload(r) \/ EndArray(r)
  \/ DecodeFails(r) \/ DecodeDone(r) \/ Publish(r) \/ PublishReturns(r)
  \/ Finish(r) \/ FinishLoad(r) \/ FinishDelete(r) \/ HandlerReturns(r)

-----------------------------------------------------------------------------
(***************************************************************************)
(* The subscriber: handleSubMsg and handleRuleMessage.                     *)
(***************************************************************************)

SubscriberGoto(l) == spc' = l /\ UNCHANGED smsg
SubscriberIdle == spc' = "idle" /\ smsg' = NoRequest

Subscribe ==
  /\ ~subscribed /\ ~closing /\ subscribed' = TRUE
  /\ UNCHANGED <<queued, handlers, reservations, closing, delivered, acked, subscriber, consumer>>

\* ClaimMessage looks the reservation up; an unknown message is dropped.
Receive ==
  /\ spc = "idle" /\ delivered # <<>> /\ delivered' = Tail(delivered)
  /\ IF Head(delivered) \in tracked
       THEN spc' = "claim" /\ smsg' = Head(delivered) /\ UNCHANGED acked
       ELSE acked' = acked \cup {Head(delivered)} /\ SubscriberIdle
  /\ UNCHANGED <<queued, handlers, reservations, subscribed, closing, consumer>>

Claim ==
  /\ spc = "claim"
  /\ Swap(smsg, "open", "claimed")
  /\ IF state[smsg] = "open"
       THEN SubscriberGoto("enqueue") /\ UNCHANGED acked
       ELSE acked' = acked \cup {smsg} /\ SubscriberIdle
  /\ UNCHANGED <<queued, handlers, tracked, size, subscribed, closing, delivered, consumer>>

\* The batch enters the queue; the consumer may take it before it is admitted.
Enqueue ==
  /\ spc = "enqueue" /\ Len(rchan) < QueueCap
  /\ rchan' = Append(rchan, smsg) /\ SubscriberGoto("admit")
  /\ UNCHANGED <<queued, handlers, reservations, subscription, cpc, cmsg, consumed>>

BugAckWithoutAdmission ==
  /\ spc = "admit" /\ SubscriberIdle
  /\ UNCHANGED state /\ acked' = acked \cup {smsg}
  /\ UNCHANGED <<queued, handlers, tracked, size, subscribed, closing, delivered, consumer>>

Admit ==
  /\ spc = "admit" /\ SubscriberIdle
  /\ Transition(smsg, "claimed", "admitted") /\ acked' = acked \cup {smsg}
  /\ UNCHANGED <<queued, handlers, tracked, size, subscribed, closing, delivered, consumer>>

\* The context ends while the queue is full: the batch is dropped ...
Abort ==
  /\ spc = "enqueue" /\ closing /\ SubscriberGoto("abort")
  /\ Transition(smsg, "claimed", "aborted") /\ acked' = acked \cup {smsg}
  /\ UNCHANGED <<queued, handlers, tracked, size, subscribed, closing, delivered, consumer>>

\* ... and its bytes are released when the subscriber returns.
AbortReleases ==
  /\ spc = "abort" /\ Release(size[smsg]) /\ spc' = "gone" /\ smsg' = NoRequest
  /\ UNCHANGED <<handlers, reservations, subscription, consumer>>

SubscriberStops ==
  /\ spc = "idle" /\ closing /\ spc' = "gone" /\ UNCHANGED smsg
  /\ UNCHANGED <<queued, handlers, reservations, subscription, consumer>>

Subscriber == Receive \/ Claim \/ Enqueue \/ Admit \/ Abort \/ AbortReleases \/ SubscriberStops

-----------------------------------------------------------------------------
(***************************************************************************)
(* The consumer: consumeRuleMessages, and its shutdown.                    *)
(***************************************************************************)

Take ==
  /\ cpc = "idle" /\ rchan # <<>>
  /\ cmsg' = Head(rchan) /\ rchan' = Tail(rchan) /\ cpc' = "consume"
  /\ UNCHANGED <<queued, handlers, reservations, subscription, subscriber, consumed>>

\* The engine is given the batch, then its bytes are released.
Consume ==
  /\ cpc = "consume" /\ cpc' = "idle" /\ cmsg' = NoRequest
  /\ consumed' = consumed \cup {cmsg} /\ Release(size[cmsg])
  /\ UNCHANGED <<handlers, reservations, subscription, subscriber, rchan>>

\* On shutdown the consumer takes no more batches ...
ConsumerStops ==
  /\ cpc = "idle" /\ closing /\ cpc' = "stop"
  /\ UNCHANGED <<queued, handlers, reservations, subscription, subscriber, rchan, cmsg, consumed>>

BugDrainAtOnce ==
  /\ cpc = "stop" /\ cpc' = "drain"
  /\ UNCHANGED <<queued, handlers, reservations, subscription, subscriber, rchan, cmsg, consumed>>

\* ... waits until the subscriber is gone, and then empties the queue.
ConsumerWaits ==
  /\ cpc = "stop" /\ spc = "gone" /\ cpc' = "drain"
  /\ UNCHANGED <<queued, handlers, reservations, subscription, subscriber, rchan, cmsg, consumed>>

Drain ==
  /\ cpc = "drain"
  /\ IF rchan = <<>>
       THEN cpc' = "gone" /\ UNCHANGED <<queued, rchan>>
       ELSE rchan' = Tail(rchan) /\ Release(size[Head(rchan)]) /\ UNCHANGED cpc
  /\ UNCHANGED <<handlers, reservations, subscription, subscriber, cmsg, consumed>>

Consumer == Take \/ Consume \/ ConsumerStops \/ ConsumerWaits \/ Drain

\* The daemon's context is cancelled.
Shutdown ==
  /\ ~closing /\ closing' = TRUE
  /\ UNCHANGED <<queued, handlers, reservations, subscribed, delivered, acked, subscriber, consumer>>

Next ==
  \/ \E r \in Requests : Handler(r)
  \/ Subscribe \/ Subscriber \/ Consumer \/ Shutdown

Spec == Init /\ [][Next]_vars

\* Every goroutine runs on, and the ReadTimeout of the server ends every request.
Fairness ==
  /\ \A r \in Requests : WF_vars(Handler(r)) /\ WF_vars(DecodeFails(r) \/ DecodeDone(r))
  /\ WF_vars(Subscriber) /\ WF_vars(Consumer)

FairSpec == Spec /\ Fairness

-----------------------------------------------------------------------------
(***************************************************************************)
(* Properties.                                                             *)
(***************************************************************************)

\* Every variable keeps its type; the budget is never overdrawn.
TypeOK ==
  /\ queued \in 0..Limit
  /\ hpc \in [Requests -> {"new", "decode", "publish", "await", "finish", "finishLoad",
                           "finishDelete", "release", "done"}]
  /\ answer \in [Requests -> {"none", "limit", "bad request", "ok", "unavailable"}]
  /\ body \in [Requests -> 0..BodySize]
  /\ fresh \in [Requests -> Nat] /\ kept \in [Requests -> Nat]
  /\ tracked \subseteq Requests /\ size \in [Requests -> Nat]
  /\ state \in [Requests -> {"none", "open", "claimed", "admitted", "aborted", "finished"}]
  /\ owns \in [Requests -> BOOLEAN] /\ seen \in [Requests ->
       {"none", "open", "claimed", "admitted", "aborted", "finished"}]
  /\ subscribed \in BOOLEAN /\ closing \in BOOLEAN
  /\ delivered \in Seq(Requests) /\ acked \subseteq Requests
  /\ spc \in {"idle", "claim", "enqueue", "admit", "abort", "gone"}
  /\ smsg \in Requests \cup {NoRequest}
  /\ rchan \in Seq(Requests) /\ Len(rchan) <= QueueCap
  /\ cpc \in {"idle", "consume", "stop", "drain", "gone"} /\ cmsg \in Requests \cup {NoRequest}
  /\ consumed \subseteq Requests

\* Who has to release the bytes of the batch: the handler until it is claimed,
\* then the subscriber, the queue, the consumer, one after the other.
Claimed(r) == state[r] \in {"claimed", "admitted", "aborted"}
HeldBySubscriber(r) == spc \in {"enqueue", "abort"} /\ smsg = r
HeldByConsumer(r) == r \in Range(rchan) \/ (cpc = "consume" /\ cmsg = r)
BatchBytes(r) ==
  IF ~Claimed(r) THEN kept[r]
  ELSE IF HeldBySubscriber(r) \/ HeldByConsumer(r) THEN size[r] ELSE 0

Held(r) == body[r] + fresh[r] + BatchBytes(r)

\* The bytes somebody will release, numbered per request.
OwnedBytes == UNION {{r} \X (1..Held(r)) : r \in Requests}

\* Every queued byte has exactly one owner who will release it: nothing leaks when
\* Publish returns early, and nothing is released twice.
EveryByteHasOneOwner == queued = Cardinality(OwnedBytes)

\* What the client is told is true: a request answered with 200 has its batch in the
\* queue or with the engine, until the shutdown empties the queue; one that is told to
\* come back did not hand its batch to the engine, unless the daemon was shutting
\* down, so that sending it again makes no duplicate.
Reached(r) == r \in Range(rchan) \cup consumed \/ (cpc = "consume" /\ cmsg = r)
AnswerIsTruthful ==
  \A r \in Requests :
    /\ answer[r] = "ok" => Reached(r) \/ cpc \in {"drain", "gone"}
    /\ answer[r] \in {"limit", "bad request", "unavailable"} /\ ~closing => ~Reached(r)

\* The bytes of every request come back to the budget, also on shutdown.
BytesComeBack == \A r \in Requests : Held(r) > 0 ~> Held(r) = 0

=============================================================================
