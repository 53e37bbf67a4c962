---------------------------- MODULE ReportLedger ----------------------------
(***************************************************************************)
(* What the way from a committed event to the report promises, without     *)
(* outbox, relays, Kafka or consumers: an event that was told is counted   *)
(* at most once, with its own effect, and nothing else moves the report.   *)
(***************************************************************************)
EXTENDS Bags

CONSTANT EffectOf(_)    \* the bag of cells an event adds to the report

VARIABLES
    told,       \* the events that took effect
    counted,    \* those the report counts
    report      \* the totals

ledgerVars == <<told, counted, report>>

LedgerInit == counted = {} /\ report = EmptyBag

Tell == told \subseteq told' /\ UNCHANGED <<counted, report>>

Count == \E e \in told \ counted :
    /\ counted' = counted \cup {e}
    /\ report' = report (+) EffectOf(e)
    /\ UNCHANGED told

LedgerSpec == LedgerInit /\ [][Tell \/ Count]_ledgerVars
=============================================================================
