---------------------------- MODULE MasterSlave ----------------------------
(***************************************************************************)
(* The master's registry of slaves (internal/master), the client of a      *)
(* slave that keeps its entry alive (internal/slave/client.go and          *)
(* cmd/coscout/commands/slave.go) and the fan-out with which a task or a   *)
(* rule asks every online slave for its files (internal/master/client.go). *)
(*                                                                         *)
(* A request is a message of "net": it may be lost, its reply may be lost, *)
(* and its caller may time out or die while the master still handles it.   *)
(* Time is the age of an entry, in steps of the model, up to OnlineWindow. *)
(***************************************************************************)
EXTENDS Naturals, FiniteSets

CONSTANTS
  Slaves,        \* the identifiers of the slaves
  Nobody,        \* no slave
  Addrs,         \* the addresses a slave's process may be started at
  SlaveTimeout,  \* MasterConfig.SlaveTimeout
  OnlineWindow,  \* the age from which an entry is not online whatever its status
  MaxStray       \* bound: requests whose caller has gone and that are not handled yet

ASSUME SlavesAssumption ==
  /\ SlaveTimeout \in Nat /\ OnlineWindow \in Nat /\ MaxStray \in Nat
  /\ SlaveTimeout < OnlineWindow /\ Nobody \notin Slaves

VARIABLES
  registry,  \* SlaveRegistry.slaves: a function from the registered identifiers
  net,       \* the requests that are not answered
  proc,      \* per slave: its process is "down", "up" or "leaving" (unregistering)
  beat,      \* per slave: its goroutine is "registering" or "beating"
  addr,      \* per slave: the address its process was started at
  fan        \* the fan-out: its phase, the slaves it waits for, and the entry
             \* it is about to mark

vars == <<registry, net, proc, beat, addr, fan>>
slaveVars == <<proc, beat, addr>>

Entry == [addr : Addrs, status : {"online", "timeout", "error"}, age : 0..OnlineWindow]
Request == [from : Slaves, kind : {"register", "heartbeat", "unregister"},
            addr : Addrs, seen : BOOLEAN, live : BOOLEAN]
Idle == [pc |-> "idle", waiting |-> {}, mark |-> Nobody]

Registered(s) == s \in DOMAIN registry
BugOnline(s) == Registered(s) /\ registry[s].status = "online"

Online(s) == Registered(s) /\ registry[s].status = "online"
                           /\ registry[s].age < OnlineWindow

Alive(s) == proc[s] # "down"
Calling(s) == \E q \in net : q.from = s /\ q.live /\ q.kind # "unregister"
Unregistering(s) == \E q \in net : q.from = s /\ q.live /\ q.kind = "unregister"
Strays == {q \in net : ~q.live}

Ask(s, kind) == [from |-> s, kind |-> kind, addr |-> addr[s], seen |-> FALSE, live |-> TRUE]
Put(f, s, e) == [t \in DOMAIN f \cup {s} |-> IF t = s THEN e ELSE f[t]]
Without(f, s) == [t \in DOMAIN f \ {s} |-> f[t]]
(* The caller of the requests q has gone; what the bound allows is still handled. *)
Orphan(q) == LET kept == {[r EXCEPT !.live = FALSE] : r \in q}
             IN  IF Cardinality(Strays \cup kept) <= MaxStray THEN kept ELSE {}

Init ==
  /\ registry = << >> /\ net = {} /\ fan = Idle
  /\ proc = [s \in Slaves |-> "down"]
  /\ beat = [s \in Slaves |-> "registering"]
  /\ addr \in [Slaves -> Addrs]

---------------------------------------------------------------------------
(* The slave. *)

Boot(s, a) ==
  /\ proc[s] = "down"
  /\ proc' = [proc EXCEPT ![s] = "up"]
  /\ beat' = [beat EXCEPT ![s] = "registering"]
  /\ addr' = [addr EXCEPT ![s] = a]
  /\ UNCHANGED <<registry, net, fan>>

(* An attempt of the registration loop, the first one or a retry. *)
SendRegister(s) ==
  /\ Alive(s) /\ beat[s] = "registering" /\ ~Calling(s)
  /\ net' = net \cup {Ask(s, "register")}
  /\ UNCHANGED <<registry, slaveVars, fan>>

SendHeartbeat(s) ==
  /\ Alive(s) /\ beat[s] = "beating" /\ ~Calling(s)
  /\ net' = net \cup {Ask(s, "heartbeat")}
  /\ UNCHANGED <<registry, slaveVars, fan>>

(* SIGTERM: the main goroutine unregisters while the other one still beats. *)
Signal(s) ==
  /\ proc[s] = "up"
  /\ proc' = [proc EXCEPT ![s] = "leaving"]
  /\ net' = net \cup {Ask(s, "unregister")}
  /\ UNCHANGED <<registry, beat, addr, fan>>

(* The process ends: killed at any moment, or once its unregister call returned. *)
Stop(s) ==
  LET mine == {q \in net : q.from = s /\ q.live}
  IN  /\ proc' = [proc EXCEPT ![s] = "down"]
      /\ net' = (net \ mine) \cup Orphan(mine)
      /\ UNCHANGED <<registry, beat, addr, fan>>

Crash(s) == Alive(s) /\ Stop(s)
Exit(s) == proc[s] = "leaving" /\ ~Unregistering(s) /\ Stop(s)

---------------------------------------------------------------------------
(* The network and the clients' timeouts: the call of a live request fails. *)

Drop(q) == net' = net \ {q} /\ UNCHANGED <<registry, slaveVars, fan>>
Abandon(q) ==
  /\ q.live
  /\ net' = (net \ {q}) \cup Orphan({q})
  /\ UNCHANGED <<registry, slaveVars, fan>>

---------------------------------------------------------------------------
(* The master's handlers. "heard" tells whether the reply reaches its caller. *)

(* A mark that fan-out obtained a pointer for goes to an object nobody reads. *)
Forget(s) == fan' = IF fan.mark = s THEN [fan EXCEPT !.mark = Nobody] ELSE fan

HandleRegister(q, heard) ==
  LET conflict == Registered(q.from) /\ registry[q.from].addr # q.addr
  IN  /\ q.kind = "register"
      /\ net' = net \ {q}
      /\ IF conflict
         THEN UNCHANGED <<registry, beat, fan>>
         ELSE /\ registry' = Put(registry, q.from,
                                 [addr |-> q.addr, status |-> "online", age |-> 0])
              /\ Forget(q.from)
              /\ beat' = IF q.live /\ heard
                         THEN [beat EXCEPT ![q.from] = "beating"] ELSE beat
      /\ UNCHANGED <<proc, addr>>

(* GetSlave: a slave nobody knows is told to register again, and does at once. *)
BugNoReRegister(q, heard) ==
  /\ q.kind = "heartbeat" /\ ~q.seen
  /\ net' = (net \ {q}) \cup
            (IF Registered(q.from) THEN {[q EXCEPT !.seen = TRUE]} ELSE {})
  /\ UNCHANGED <<registry, slaveVars, fan>>

HandleHeartbeat(q, heard) ==
  /\ q.kind = "heartbeat" /\ ~q.seen
  /\ net' = (net \ {q}) \cup
            (CASE Registered(q.from) -> {[q EXCEPT !.seen = TRUE]}
               [] ~Registered(q.from) /\ q.live /\ heard -> {Ask(q.from, "register")}
               [] OTHER -> {})
  /\ UNCHANGED <<registry, slaveVars, fan>>

(* UpdateHeartbeat takes the lock a second time: the entry may be gone by then. *)
BugUpdateHeartbeat(q) ==
  /\ q.kind = "heartbeat" /\ q.seen
  /\ registry' = Put(registry, q.from, [addr |-> q.addr, status |-> "online", age |-> 0])
  /\ net' = net \ {q}
  /\ UNCHANGED <<slaveVars, fan>>

UpdateHeartbeat(q) ==
  /\ q.kind = "heartbeat" /\ q.seen
  /\ registry' = IF Registered(q.from)
                 THEN [registry EXCEPT ![q.from].status = "online", ![q.from].age = 0]
                 ELSE registry
  /\ net' = net \ {q}
  /\ UNCHANGED <<slaveVars, fan>>

HandleUnregister(q) ==
  /\ q.kind = "unregister"
  /\ registry' = Without(registry, q.from)
  /\ net' = net \ {q}
  /\ Forget(q.from)
  /\ UNCHANGED slaveVars

Tick ==
  /\ \E s \in DOMAIN registry : registry[s].age < OnlineWindow
  /\ registry' = [s \in DOMAIN registry |->
       [registry[s] EXCEPT !.age = IF @ < OnlineWindow THEN @ + 1 ELSE @]]
  /\ UNCHANGED <<net, slaveVars, fan>>

(* An entry that is too old is marked, never removed. *)
CheckAndCleanup ==
  /\ \E s \in DOMAIN registry : registry[s].age > SlaveTimeout
  /\ registry' = [s \in DOMAIN registry |->
       IF registry[s].age > SlaveTimeout
       THEN [registry[s] EXCEPT !.status = "timeout"] ELSE registry[s]]
  /\ UNCHANGED <<net, slaveVars, fan>>

(* The registry is in memory: a restarted master knows nobody. *)
MasterRestart ==
  /\ registry' = << >> /\ net' = {} /\ fan' = Idle
  /\ UNCHANGED slaveVars

---------------------------------------------------------------------------
(* RequestAllSlaveFiles and RequestAllSlaveFilesByContent.                 *)

FanoutStart ==
  LET online == {s \in Slaves : Online(s)}
  IN  /\ fan.pc = "idle" /\ online # {}
      /\ fan' = [pc |-> "collect", waiting |-> online, mark |-> Nobody]
      /\ UNCHANGED <<registry, net, slaveVars>>

(* An answer comes from whatever process listens at the address of the entry. *)
Answer(s) ==
  /\ fan.pc = "collect" /\ s \in fan.waiting
  /\ \E t \in Slaves : Alive(t) /\ (Registered(s) => addr[t] = registry[s].addr)
  /\ fan' = [fan EXCEPT !.waiting = @ \ {s}]
  /\ UNCHANGED <<registry, net, slaveVars>>

(* The call to s fails or times out: the entry is looked up ... *)
Fail(s) ==
  /\ fan.pc = "collect" /\ s \in fan.waiting
  /\ fan' = [pc |-> "mark", waiting |-> fan.waiting \ {s},
             mark |-> IF Registered(s) THEN s ELSE Nobody]
  /\ UNCHANGED <<registry, net, slaveVars>>

(* ... and its status is written without the lock of the registry. *)
MarkError ==
  /\ fan.pc = "mark"
  /\ registry' = IF fan.mark = Nobody THEN registry
                 ELSE [registry EXCEPT ![fan.mark].status = "error"]
  /\ fan' = [fan EXCEPT !.pc = "collect", !.mark = Nobody]
  /\ UNCHANGED <<net, slaveVars>>

(* Nobody is waited for, or the context of the caller expires: what has been *)
(* collected is returned.                                                    *)
FanoutReturn ==
  /\ fan.pc = "collect"
  /\ fan' = Idle
  /\ UNCHANGED <<registry, net, slaveVars>>

---------------------------------------------------------------------------
Next ==
  \/ \E s \in Slaves :
       \/ \E a \in Addrs : Boot(s, a)
       \/ SendRegister(s) \/ SendHeartbeat(s) \/ Signal(s) \/ Crash(s) \/ Exit(s)
       \/ Answer(s) \/ Fail(s)
  \/ \E q \in net :
       \/ Drop(q) \/ Abandon(q) \/ UpdateHeartbeat(q) \/ HandleUnregister(q)
       \/ \E heard \in BOOLEAN : HandleRegister(q, heard) \/ HandleHeartbeat(q, heard)
  \/ Tick \/ CheckAndCleanup \/ MasterRestart
  \/ FanoutStart \/ MarkError \/ FanoutReturn

(* Fairness: the tickers and timeouts of the processes fire, the network does *)
(* not lose every request of a kind, and the handlers of the master run.      *)
Handled(s) ==
  /\ SF_vars(\E q \in net : q.from = s /\ q.live /\ HandleRegister(q, TRUE))
  /\ SF_vars(\E q \in net : q.from = s /\ q.live /\ HandleHeartbeat(q, TRUE))
  /\ SF_vars(\E q \in net : q.from = s /\ UpdateHeartbeat(q))
  /\ WF_vars(\E q \in net : q.from = s /\ ~q.live /\
               (Drop(q) \/ HandleRegister(q, FALSE) \/ HandleHeartbeat(q, FALSE)
                  \/ UpdateHeartbeat(q) \/ HandleUnregister(q)))

Fairness ==
  /\ \A s \in Slaves : /\ WF_vars(SendRegister(s)) /\ WF_vars(SendHeartbeat(s))
                        /\ WF_vars(Exit(s)) /\ Handled(s)
  /\ WF_vars(Tick) /\ WF_vars(MarkError) /\ WF_vars(FanoutReturn)

Spec == Init /\ [][Next]_vars
FairSpec == Spec /\ Fairness

---------------------------------------------------------------------------
(* Every variable has its type, strays are bounded, and a pending mark is   *)
(* for an entry of the registry.                                            *)
TypeOK ==
  /\ registry \in UNION {[D -> Entry] : D \in SUBSET Slaves}
  /\ net \subseteq Request /\ Cardinality(Strays) <= MaxStray
  /\ \A q, r \in net : q.live /\ r.live /\ q.from = r.from
                         /\ (q.kind = "unregister" <=> r.kind = "unregister") => q = r
  /\ proc \in [Slaves -> {"down", "up", "leaving"}]
  /\ beat \in [Slaves -> {"registering", "beating"}]
  /\ addr \in [Slaves -> Addrs]
  /\ fan \in [pc : {"idle", "collect", "mark"}, waiting : SUBSET Slaves,
              mark : Slaves \cup {Nobody}]
  /\ fan.mark # Nobody => fan.pc = "mark" /\ Registered(fan.mark)

(* An entry appears only for a registration, with the address it names, and *)
(* keeps that address as long as it stays: a heartbeat that overtakes an    *)
(* unregistration or a restart of the master does not bring an entry back,  *)
(* and a slave with a taken identifier does not take the entry over.        *)
OnlyRegistrationAdds ==
  [][\A s \in DOMAIN registry' :
       IF Registered(s) THEN registry'[s].addr = registry[s].addr
       ELSE \E q \in net \ net' : /\ q.from = s /\ q.kind = "register"
                                  /\ q.addr = registry'[s].addr]_vars

(* A slave that stays up, with an entry that is its own or none, is online  *)
(* again and again, whatever was lost, however often the master restarts    *)
(* and a fan-out marks it: it registers again and its heartbeats repair it. *)
LiveSlaveComesOnline ==
  \A s \in Slaves :
    <>[](proc[s] = "up" /\ (Registered(s) => registry[s].addr = addr[s]))
      => []<>Online(s)

(* A slave that is gone for good stops being online for good, although its  *)
(* entry stays and late requests of it may still be handled.                *)
DeadSlaveGoesOffline ==
  \A s \in Slaves : <>[](proc[s] = "down") => <>[]~Online(s)
=============================================================================
