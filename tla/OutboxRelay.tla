----------------------------- MODULE OutboxRelay -----------------------------
(***************************************************************************)
(* The relay that drains outbox_events onto Kafka.  A pass claims the      *)
(* oldest unpublished rows no other pass has locked, sends them one by one *)
(* in id order, marks each as published, and commits all marks at its end. *)
(* A failed send is recorded on its row and ends the pass.  A pass that is *)
(* cut off before its commit leaves its rows as they were, although some   *)
(* of their messages may be in Kafka already.                              *)
(*                                                                         *)
(* Every replica of cmd/inventory runs a relay over the same table.        *)
(***************************************************************************)
EXTENDS KeyedRequests, FiniteSetsExt

CONSTANT PartitionOf    \* the hash balancer: the partition of a message key

(* What is on a topic; a readable message that counts an amount has one.   *)
Messages == {m \in [topic : {"integration", "analytics"}, type : Entities \X STRING, key : DOMAIN PartitionOf,
                    sku : STRING, bin : STRING, qty : Nat, at : Nat, cloudEvent : BOOLEAN, readable : BOOLEAN] :
                m.readable => Delta(m) > 0}
Entries == [id : Int, msg : Messages]

ASSUME RelaysAssumption == \A w \in Workloads :
    /\ IsFiniteSet(w.relays) /\ w.maxAttempts \in Nat /\ w.batchSize \in Nat \ {0}
    /\ \A a \in DOMAIN w.requests : \A n \in DOMAIN w.requests[a].events :
          LET e == w.requests[a].events[n] IN {e.sku, e.bin, e.res} \subseteq DOMAIN PartitionOf

VARIABLES
    pass,       \* per relay, its open pass
    log         \* per topic and partition, the messages Kafka has stored

relayVars == <<pass, log>>

Relays == work.relays
Partitions == {PartitionOf[k] : k \in DOMAIN PartitionOf}

NoPass == [open |-> FALSE, todo |-> {}, sent |-> {}]

LockedBy(r) == pass[r].todo \cup pass[r].sent

Exhausted(i) == work.maxAttempts > 0 /\ outbox[i].attempts >= work.maxAttempts

(* What ORDER BY id LIMIT n FOR UPDATE SKIP LOCKED finds.                  *)
Claimable(r) == {i \in DOMAIN outbox :
    /\ ~outbox[i].published /\ ~Exhausted(i)
    /\ \A o \in Relays \ {r} : i \notin LockedBy(o)}

Batch(S) == {i \in S : Cardinality({j \in S : j < i}) < work.batchSize}

ClaimBatch(r) ==
    /\ ~pass[r].open /\ Claimable(r) # {}
    /\ pass' = [pass EXCEPT ![r] = [open |-> TRUE, todo |-> Batch(Claimable(r)), sent |-> {}]]
    /\ UNCHANGED <<requestVars, log>>

(* A message keeps the id it was encoded with, however often it is sent.   *)
Stored(i) ==
    LET m == outbox[i].msg
    IN  log' = [log EXCEPT ![<<m.topic, PartitionOf[m.key]>>] = Append(@, [id |-> i, msg |-> m])]

Sendable(i) == outbox[i].msg.type[2] \notin work.unsendable

Send(r) ==
    /\ pass[r].todo # {}
    /\ LET i == Min(pass[r].todo)
       IN  /\ Sendable(i)
           /\ Stored(i)
           /\ pass' = [pass EXCEPT ![r].todo = @ \ {i}, ![r].sent = @ \cup {i}]
    /\ UNCHANGED requestVars

(* Mutant: the pass marks all it has claimed.                              *)
CommitAllMarks(r, failed) ==
    /\ outbox' = [i \in DOMAIN outbox |->
                    [outbox[i] EXCEPT !.published = @ \/ i \in LockedBy(r),
                                      !.attempts = IF i \in failed THEN @ + 1 ELSE @]]
    /\ pass' = [pass EXCEPT ![r] = NoPass]

CommitMarks(r, failed) ==
    /\ outbox' = [i \in DOMAIN outbox |->
                    [outbox[i] EXCEPT !.published = @ \/ i \in pass[r].sent,
                                      !.attempts = IF i \in failed THEN @ + 1 ELSE @]]
    /\ pass' = [pass EXCEPT ![r] = NoPass]

(* Mutant: a failed row is marked and the pass moves on.                   *)
SendFailsUnnoticed(r) ==
    /\ pass[r].todo # {}
    /\ LET i == Min(pass[r].todo)
       IN  /\ Mishap /\ log' = log
           /\ pass' = [pass EXCEPT ![r].todo = @ \ {i}, ![r].sent = @ \cup {i}]
    /\ UNCHANGED <<work, keys, outbox, nextId, req>>

(* The broker refuses the message, or stores it and the acknowledgement is *)
(* lost.  A message it will never take fails without a mishap.             *)
SendFails(r) ==
    /\ pass[r].todo # {}
    /\ LET i == Min(pass[r].todo)
       IN  /\ IF Sendable(i)
              THEN Mishap /\ (Stored(i) \/ log' = log)
              ELSE UNCHANGED <<mishaps, log>>
           /\ CommitMarks(r, {i})
    /\ UNCHANGED <<work, keys, nextId, req>>

FinishPass(r) ==
    /\ pass[r].open /\ pass[r].todo = {}
    /\ CommitMarks(r, {})
    /\ UNCHANGED <<work, keys, nextId, req, mishaps, log>>

(* A crash, a cancelled context, or a failed UPDATE or commit.             *)
Interrupted(r) ==
    /\ pass[r].open
    /\ Mishap
    /\ pass' = [pass EXCEPT ![r] = NoPass]
    /\ UNCHANGED <<work, keys, outbox, nextId, req, log>>

RelayNext == \E r \in Relays :
    ClaimBatch(r) \/ Send(r) \/ SendFails(r) \/ FinishPass(r) \/ Interrupted(r)

(* What a relay does on its own when nothing fails; an unsendable message  *)
(* is refused every time.                                                  *)
Drain == \E r \in Relays :
    \/ ClaimBatch(r) \/ Send(r) \/ FinishPass(r)
    \/ SendFails(r) /\ UNCHANGED mishaps

-----------------------------------------------------------------------------
(* Correctness *)

Sent(i) == \E tp \in DOMAIN log : \E n \in DOMAIN log[tp] : log[tp][n].id = i

(* A row is marked as published only if its message is in Kafka, whatever  *)
(* pass was cut off in between.                                            *)
NothingLost == \A i \in DOMAIN outbox : outbox[i].published => Sent(i)

(* Row j tells what happened to the same key after what row i tells.       *)
Later(i, j) ==
    LET a == outbox[i].by
        b == outbox[j].by
    IN  /\ outbox[i].msg.topic = outbox[j].msg.topic /\ outbox[i].msg.key = outbox[j].msg.key
        /\ \/ a = b /\ i < j
           \/ a \in work.requests[b].after

(* Where a consumer of the partition first sees message i.                 *)
FirstAt(i, entries) == {n \in DOMAIN entries : entries[n].id = i /\ \A m \in 1 .. n - 1 : entries[m].id # i}

(* No consumer sees a later event of a key before it has seen the earlier  *)
(* ones.                                                                   *)
InKeyOrder == \A i, j \in DOMAIN outbox : Later(i, j) =>
    \A tp \in DOMAIN log : \A n \in FirstAt(j, log[tp]) :
        \E m \in FirstAt(i, log[tp]) : m < n

(* With one relay that gives up no row the order holds through failed      *)
(* sends, lost acknowledgements and interrupted passes.                    *)
OneRelayKeepsOrder == Cardinality(Relays) = 1 /\ work.maxAttempts = 0 => InKeyOrder
=============================================================================
