------------------------------ MODULE Delivery ------------------------------
(***************************************************************************)
(* The way of an event from the request that caused it to the report:      *)
(* requests, the outbox, the relays of all replicas, Kafka, and the        *)
(* projector.                                                              *)
(***************************************************************************)
EXTENDS Projector

CONSTANT MaxRow     \* bound on the row ids EveryRowArrives asks about

vars == <<requestVars, relayVars, projectorVars>>

(* The analytics topic holds what earlier releases have left there.        *)
Init ==
    /\ RequestInit
    /\ pass = [r \in Relays |-> NoPass]
    /\ log = [tp \in {"integration", "analytics"} \X Partitions |->
                IF tp = <<"analytics", 1>> THEN work.history ELSE <<>>]
    /\ cursor = [p \in Partitions |-> 0]
    /\ handler = [c \in Consumers |-> Poll]
    /\ consumed = {} /\ processed = {} /\ rollup = EmptyBag
    /\ trouble = 0

Next ==
    \/ RequestNext /\ UNCHANGED <<relayVars, projectorVars>>
    \/ RelayNext /\ UNCHANGED projectorVars
    \/ ProjectorNext /\ UNCHANGED <<requestVars, relayVars>>

Spec == Init /\ [][Next]_vars

(* Servers, relays and consumers work through what they have; nothing that *)
(* fails has to happen.                                                    *)
Fairness ==
    /\ WF_vars(Serve /\ UNCHANGED <<relayVars, projectorVars>>)
    /\ WF_vars(Drain /\ UNCHANGED projectorVars)
    /\ WF_vars(Handle /\ UNCHANGED <<requestVars, relayVars>>)

FairSpec == Spec /\ Fairness

-----------------------------------------------------------------------------
(* Correctness *)

TypeOK ==
    /\ work \in Workloads
    /\ \A k \in Keys : keys[k] = Absent \/ keys[k].answer \in {"done", "refused"}
    /\ DOMAIN outbox \subseteq 1 .. nextId - 1
    /\ \A i \in DOMAIN outbox : outbox[i].by \in Requests /\ outbox[i].attempts \in Nat
    /\ work.maxAttempts > 0 => \A i \in DOMAIN outbox : outbox[i].attempts <= work.maxAttempts
    /\ \A a \in Requests : req[a].step \in {"idle", "running", "answered"}
    /\ \A r \in Relays : pass[r].open \/ LockedBy(r) = {}
    /\ \A p \in Partitions : cursor[p] \in 0 .. Len(Analytics(p))
    /\ \A c \in Consumers : handler[c].step \in {"poll", "decode", "apply", "stopped"}
    /\ IsABag(rollup)

(* The events the report is to count: what is committed in the outbox for  *)
(* the analytics topic, and what earlier releases have sent.               *)
Facts == {[id |-> i, msg |-> outbox[i].msg] : i \in {i \in DOMAIN outbox : outbox[i].msg.topic = "analytics"}}
         \cup {work.history[n] : n \in DOMAIN work.history}

Ledger == INSTANCE ReportLedger WITH
    EffectOf <- LAMBDA e : Effect(e.msg),
    told     <- Facts,
    counted  <- {e \in Facts : \E x \in processed : x.id = e.id},
    report   <- rollup

(* The rollup moves like the report of the abstract ledger: whatever is    *)
(* sent twice, read twice or read out of order, each committed event is    *)
(* counted at most once and with its own effect.                           *)
ImplementsReport == Ledger!LedgerSpec

Arrived(i) ==
    IF outbox[i].msg.topic = "integration" THEN Sent(i)
    ELSE (\E x \in processed : x.id = i) \/ trouble > 0

(* Every committed row reaches Kafka, and every event for the report is    *)
(* counted, as long as failures come to an end.  The exceptions are a row  *)
(* the relay has given up after its last attempt and a projector that was  *)
(* in trouble.                                                             *)
EveryRowArrives == \A i \in 1 .. MaxRow :
    i \in DOMAIN outbox ~> i \in DOMAIN outbox /\ (Arrived(i) \/ Exhausted(i))
=============================================================================
