-------------------------- MODULE DeliveryInvariant --------------------------
(***************************************************************************)
(* The inductive invariant of Delivery: what every reachable state has to  *)
(* satisfy for a key to have one effect, for no row to be lost or sent out *)
(* of order, and for the report to count each event at most once.          *)
(***************************************************************************)
EXTENDS Delivery

RowsToInsert == [id : Nat \ {0}, msg : Messages]
OutboxRows   == [msg : Messages, by : Requests, published : BOOLEAN, attempts : Nat]
RequestStates == [step : {"idle", "running", "answered"}, todo : Seq(Messages), rows : Seq(RowsToInsert),
                  answer : Answers \cup {Absent}]
Passes   == [open : BOOLEAN, todo : SUBSET Nat, sent : SUBSET Nat]
Handlers == [step : {"poll", "decode", "apply", "stopped"}, at : Entries \cup {Absent}]
Topics   == {"integration", "analytics"}

RequestsTyped ==
    /\ work \in Workloads
    /\ keys \in [Keys -> Outcomes \cup {Absent}]
    /\ nextId \in Nat \ {0}
    /\ DOMAIN outbox \subseteq 1 .. nextId - 1
    /\ outbox \in [DOMAIN outbox -> OutboxRows]
    /\ req \in [Requests -> RequestStates]
    /\ mishaps \in Nat

RelaysTyped ==
    /\ pass \in [Relays -> Passes]
    /\ log \in [Topics \X Partitions -> Seq(Entries)]

ProjectorTyped ==
    /\ cursor \in [Partitions -> Nat]
    /\ handler \in [Consumers -> Handlers]
    /\ consumed \subseteq Int
    /\ processed \subseteq [id : Int, at : Nat] /\ IsFiniteSet(processed)
    /\ IsABag(rollup) /\ \A c \in DOMAIN rollup : c.hour \in Int
    /\ trouble \in Nat

-----------------------------------------------------------------------------
(* Requests *)

IdAt(a, n) == req[a].rows[n].id

(* What a running request has inserted has ids of its own, in order, and   *)
(* is not visible.                                                         *)
IdsInv == \A a \in Requests : \A n \in DOMAIN req[a].rows :
    /\ IdAt(a, n) < nextId /\ IdAt(a, n) \notin DOMAIN outbox
    /\ \A m \in DOMAIN req[a].rows : m < n => IdAt(a, m) < IdAt(a, n)
    /\ \A b \in Requests \ {a} : \A m \in DOMAIN req[b].rows : IdAt(b, m) # IdAt(a, n)

(* With what it has left to insert it makes its events.                    *)
LeftInv == \A a \in Requests :
    IF Running(a) THEN Len(req[a].rows) + Len(req[a].todo) = Len(Rows(Events(a)))
    ELSE req[a].rows = <<>>

(* A request begins after what it depends on has taken effect, and draws   *)
(* its ids later.                                                          *)
OrderInv ==
    /\ \A a \in Requests : RowsOf(a) # {} => req[a].step = "answered"
    /\ \A a \in Requests : \A b \in work.requests[a].after :
          /\ req[a].step # "idle" => RowsOf(b) # {}
          /\ \A i \in RowsOf(b) :
                /\ \A j \in RowsOf(a) : i < j
                /\ \A n \in DOMAIN req[a].rows : i < IdAt(a, n)

-----------------------------------------------------------------------------
(* Keys *)

OfKey(a, k) == Keyed(a) /\ KeyOf(a) = k
Told(a) == req[a].answer \in {"done", "refused"}

(* A key is claimed by one running request at most.  Until it has an       *)
(* outcome nothing of it has taken effect; the outcome is what each        *)
(* attempt was told, and if it is done the rows of one attempt are there.  *)
KeysInv ==
    /\ \A a \in Requests : Keyed(a) /\ (Running(a) \/ Told(a) \/ RowsOf(a) # {}) => KeyOf(a) # Absent
    /\ \A a, b \in Requests : \A k \in Keys : OfKey(a, k) /\ OfKey(b, k) =>
          /\ Running(a) /\ Running(b) => a = b
          /\ RowsOf(a) # {} /\ RowsOf(b) # {} => a = b
    /\ \A a \in Requests : \A k \in Keys : OfKey(a, k) =>
          /\ Running(a) => keys[k] = Absent
          /\ RowsOf(a) # {} => keys[k] # Absent
          /\ Told(a) => keys[k] = [hash |-> Events(a), answer |-> req[a].answer]
    /\ \A k \in Keys : keys[k] # Absent /\ keys[k].answer = "done" =>
          \E b \in Requests : /\ OfKey(b, k) /\ req[b].step = "answered"
                              /\ Cardinality(RowsOf(b)) = Len(Rows(keys[k].hash))

-----------------------------------------------------------------------------
(* Relays *)

Locked == UNION {LockedBy(r) : r \in Relays}

(* No two passes hold one row, and none holds a row that is done with.     *)
PassesInv ==
    /\ \A r \in Relays :
          /\ pass[r].open \/ LockedBy(r) = {}
          /\ pass[r].todo \cap pass[r].sent = {}
          /\ LockedBy(r) \subseteq DOMAIN outbox
          /\ \A o \in Relays \ {r} : LockedBy(r) \cap LockedBy(o) = {}
          /\ \A i \in LockedBy(r) : ~outbox[i].published /\ ~Exhausted(i)
          /\ \A i \in pass[r].sent : Sent(i)
    /\ work.maxAttempts > 0 => \A i \in DOMAIN outbox : outbox[i].attempts <= work.maxAttempts
    /\ NothingLost

(* What Kafka has stored is a row of the outbox, in the partition of its   *)
(* key, or was there before.                                               *)
LogInv == \A tp \in DOMAIN log : \A n \in DOMAIN log[tp] :
    LET i == log[tp][n].id
        m == log[tp][n].msg
    IN  \/ tp[1] = "analytics" /\ \E h \in DOMAIN work.history : log[tp][n] = work.history[h]
        \/ i \in DOMAIN outbox /\ m = outbox[i].msg /\ tp = <<m.topic, PartitionOf[m.key]>>

(* The only relay claims no row without the earlier ones of its key.       *)
ClaimsInOrder == Cardinality(Relays) = 1 /\ work.maxAttempts = 0 =>
    \A i, j \in DOMAIN outbox : Later(i, j) /\ j \in Locked => outbox[i].published \/ i \in Locked

-----------------------------------------------------------------------------
(* The projector *)

Counts(m) == m.cloudEvent /\ m.readable /\ Projects(m)

Known(id) == \E p \in Partitions : \E n \in 1 .. cursor[p] : Analytics(p)[n].id = id
ReadFrom(p) == {Analytics(p)[n].id : n \in {n \in 1 .. cursor[p] : Counts(Analytics(p)[n].msg)}}
Read == UNION {ReadFrom(p) : p \in Partitions}

(* Somebody will still count the message: it is about to, or has yet to    *)
(* find out that nobody else has.                                          *)
Live(id) == \E c \in Consumers :
    /\ handler[c].step \in {"decode", "apply"} /\ Entry(c).id = id
    /\ handler[c].step = "apply" \/ id \notin consumed

Lost == {id \in Read : ~Live(id) /\ \A x \in processed : x.id # id}

ProjectorInv ==
    /\ \A p \in Partitions : cursor[p] <= Len(Analytics(p))
    /\ \A c \in Consumers :
          IF handler[c].step \in {"decode", "apply"}
          THEN \E p \in Partitions : \E n \in 1 .. cursor[p] : Entry(c) = Analytics(p)[n]
          ELSE Entry(c) = Absent
    /\ \A c \in Consumers : handler[c].step = "apply" =>
          Entry(c).msg.cloudEvent /\ Projects(Entry(c).msg) /\ Entry(c).id \in consumed
    /\ \A id \in consumed : Known(id)
    /\ \A x \in processed : Known(x.id)
    /\ IsFiniteSet(Lost) /\ Cardinality(Lost) <= trouble

IInv ==
    /\ RequestsTyped /\ RelaysTyped /\ ProjectorTyped
    /\ IdsInv /\ LeftInv /\ OrderInv /\ KeysInv
    /\ PassesInv /\ LogInv /\ ClaimsInOrder /\ OneRelayKeepsOrder
    /\ ProjectorInv
=============================================================================
