------------------------------ MODULE Projector ------------------------------
(***************************************************************************)
(* The analytics projector: consumers of one group read the analytics      *)
(* topic and add each event to the rollup of the flow and accuracy report. *)
(*                                                                         *)
(* ReadMessage commits the offset before the message is handled.  Handling *)
(* records the event id in analytics_consumed_events first, and adds the   *)
(* event to the rollup in a second transaction that also claims the id in  *)
(* analytics_processed_events.  What fails or dies in between is not       *)
(* repeated.  A consumer whose read fails is gone for good, although its   *)
(* pod goes on reporting itself healthy.                                   *)
(***************************************************************************)
EXTENDS OutboxRelay

(* What earlier releases have sent has ids of its own, and an id stands    *)
(* for one message.                                                        *)
ASSUME HistoryAssumption == \A w \in Workloads :
    /\ w.trouble \in Nat /\ w.until \in Nat
    /\ w.history \in Seq(Entries)
    /\ \A n \in DOMAIN w.history :
          /\ w.history[n].id < 1 /\ w.history[n].msg.topic = "analytics"
          /\ \A m \in DOMAIN w.history : w.history[m].id = w.history[n].id => w.history[m] = w.history[n]

ASSUME NoEntryAssumption == Absent \notin Entries

VARIABLES
    cursor,     \* per partition, the offset committed for the group
    handler,    \* per consumer, its step and the message at hand
    consumed,   \* analytics_consumed_events
    processed,  \* analytics_processed_events: ids with their occurred_at
    rollup,     \* flow_accuracy_rollup: a bag of cells
    trouble     \* failures of the projector so far

projectorVars == <<cursor, handler, consumed, processed, rollup, trouble>>

Consumers == work.consumers
Analytics(p) == log[<<"analytics", p>>]

(* Bound: the failures of the projector in one behaviour.                  *)
Trouble == trouble < work.trouble /\ trouble' = trouble + 1

Poll == [step |-> "poll", at |-> Absent]
Handling(c, step) == handler[c].step = step
Return(c) == handler' = [handler EXCEPT ![c] = Poll]
Entry(c) == handler[c].at

(* Mutant: all that was fetched with the message is committed with it.     *)
ReadBatch(c, p) ==
    /\ Handling(c, "poll") /\ cursor[p] < Len(Analytics(p))
    /\ cursor' = [cursor EXCEPT ![p] = Len(Analytics(p))]
    /\ handler' = [handler EXCEPT ![c] = [step |-> "decode", at |-> Analytics(p)[cursor[p] + 1]]]
    /\ UNCHANGED <<consumed, processed, rollup, trouble>>

(* Which consumer holds a partition may change between any two reads.      *)
ReadMessage(c, p) ==
    /\ Handling(c, "poll") /\ cursor[p] < Len(Analytics(p))
    /\ cursor' = [cursor EXCEPT ![p] = @ + 1]
    /\ handler' = [handler EXCEPT ![c] = [step |-> "decode", at |-> Analytics(p)[cursor[p] + 1]]]
    /\ UNCHANGED <<consumed, processed, rollup, trouble>>

(* The commit of the offset fails, before or after it took effect: Run     *)
(* returns and nothing starts it again.                                    *)
ReadFails(c, p) ==
    /\ Handling(c, "poll") /\ cursor[p] < Len(Analytics(p))
    /\ Trouble
    /\ \E n \in {0, 1} : cursor' = [cursor EXCEPT ![p] = @ + n]
    /\ handler' = [handler EXCEPT ![c] = [step |-> "stopped", at |-> Absent]]
    /\ UNCHANGED <<consumed, processed, rollup>>

(* Not a CloudEvent, or of a type the projection does not know.            *)
Ignore(c) ==
    /\ Handling(c, "decode")
    /\ ~Entry(c).msg.cloudEvent \/ ~Projects(Entry(c).msg)
    /\ Return(c)
    /\ UNCHANGED <<cursor, consumed, processed, rollup, trouble>>

Expected(c) == Handling(c, "decode") /\ Entry(c).msg.cloudEvent /\ Projects(Entry(c).msg)

MarkProcessed(c) ==
    /\ Expected(c) /\ Entry(c).id \notin consumed
    /\ consumed' = consumed \cup {Entry(c).id}
    /\ handler' = [handler EXCEPT ![c].step = "apply"]
    /\ UNCHANGED <<cursor, processed, rollup, trouble>>

Duplicate(c) ==
    /\ Expected(c) /\ Entry(c).id \in consumed
    /\ Return(c)
    /\ UNCHANGED <<cursor, consumed, processed, rollup, trouble>>

MarkFails(c) ==
    /\ Expected(c)
    /\ Trouble
    /\ consumed' \in {consumed, consumed \cup {Entry(c).id}}
    /\ Return(c)
    /\ UNCHANGED <<cursor, processed, rollup>>

(* Mutant: the upsert replaces the counter it finds.                       *)
ApplyOver(entry) ==
    IF \E x \in processed : x.id = entry.id THEN UNCHANGED <<processed, rollup>>
    ELSE /\ processed' = processed \cup {[id |-> entry.id, at |-> entry.msg.at]}
         /\ rollup' = Effect(entry.msg) @@ rollup

(* claim and upsertRollup, one transaction.                                *)
ApplyDelta(entry) ==
    IF \E x \in processed : x.id = entry.id THEN UNCHANGED <<processed, rollup>>
    ELSE /\ processed' = processed \cup {[id |-> entry.id, at |-> entry.msg.at]}
         /\ rollup' = rollup (+) Effect(entry.msg)

Apply(c) ==
    /\ Handling(c, "apply")
    /\ IF Entry(c).msg.readable THEN ApplyDelta(Entry(c)) ELSE UNCHANGED <<processed, rollup>>
    /\ Return(c)
    /\ UNCHANGED <<cursor, consumed, trouble>>

(* The transaction fails, or its commit does and took effect or not: the   *)
(* error is logged and the loop goes on.                                   *)
ApplyFails(c) ==
    /\ Handling(c, "apply") /\ Entry(c).msg.readable
    /\ Trouble
    /\ ApplyDelta(Entry(c)) \/ UNCHANGED <<processed, rollup>>
    /\ Return(c)
    /\ UNCHANGED <<cursor, consumed>>

(* The process dies with a message at hand and is started again.  Stopping *)
(* it does the same: main cancels the consumer and does not wait for it.   *)
Crash(c) ==
    /\ handler[c].step \in {"decode", "apply"}
    /\ Trouble
    /\ Return(c)
    /\ UNCHANGED <<cursor, consumed, processed, rollup>>

Handle == \E c \in Consumers :
    \/ \E p \in DOMAIN cursor : ReadMessage(c, p)
    \/ Ignore(c) \/ MarkProcessed(c) \/ Duplicate(c) \/ Apply(c)

ProjectorNext ==
    \/ Handle
    \/ \E c \in Consumers : (\E p \in DOMAIN cursor : ReadFails(c, p)) \/ MarkFails(c) \/ ApplyFails(c) \/ Crash(c)

-----------------------------------------------------------------------------
(* The reports service *)

(* Mutant: the lag of the event that lies furthest back.                   *)
LagOfOldest(now) ==
    LET first == Min({x.at : x \in processed})
    IN  IF processed = {} \/ now < first THEN 0 ELSE now - first

FreshnessLag(now) ==
    LET latest == Max({x.at : x \in processed})
    IN  IF processed = {} \/ now < latest THEN 0 ELSE now - latest

-----------------------------------------------------------------------------
(* Correctness *)

Times == 0 .. work.until

(* A report over two adjoining windows is the report over both: no hour is *)
(* counted in two windows and none falls between them.                     *)
WindowsAddUp == \A from, mid, to \in Times : from <= mid /\ mid <= to =>
    LET over(s, t) == Query(rollup, [from |-> s, to |-> t, sku |-> Unspecified, bin |-> Unspecified])
    IN  over(from, to) = over(from, mid) (+) over(mid, to)

(* Messages that were read and are done with, but never counted.           *)
Uncounted == {id \in UNION {{Analytics(p)[n].id : n \in
                  {n \in 1 .. cursor[p] : LET m == Analytics(p)[n].msg IN m.cloudEvent /\ m.readable /\ Projects(m)}}
                  : p \in DOMAIN cursor} :
    /\ \A x \in processed : x.id # id
    /\ \A c \in Consumers : handler[c].at = Absent \/ Entry(c).id # id}

(* A failure of the projector costs the report at most one event, and      *)
(* nothing else does: neither a redelivery nor a rebalance nor a message   *)
(* that cannot be read hides another one.                                  *)
OneLossPerTrouble == Cardinality(Uncounted) <= trouble

(* Counting an event, however late it arrives, never makes the report look *)
(* older.                                                                  *)
NeverLooksOlder == [][processed' # processed /\ processed # {} =>
    FreshnessLag(work.until)' <= FreshnessLag(work.until)]_projectorVars
=============================================================================
