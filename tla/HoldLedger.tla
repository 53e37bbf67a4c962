----------------------------- MODULE HoldLedger -----------------------------
(***************************************************************************)
(* What the reservation use cases promise, without rows, versions,         *)
(* transactions or requests: a reservation takes all of its allocation at  *)
(* once, from stock on hand that no ACTIVE reservation holds; it is        *)
(* resolved once; revocation and expiry give the allocation back, a pick   *)
(* takes it off hand.                                                      *)
(***************************************************************************)
EXTENDS Integers, FiniteSets

CONSTANTS Units, Resvs, None

VARIABLES
    onHand,     \* quantity of each unit
    holds       \* reservations: allocation and status, or None

HoldVars == <<onHand, holds>>

Active == {r \in Resvs : holds[r] # None /\ holds[r].status = "ACTIVE"}

(* The quantity of u that is held, counted piece by piece.                 *)
HeldOn(u) == Cardinality(UNION {{r} \X (1 .. holds[r].allocs[u]) : r \in Active})

(* All that is held of a unit is on hand: none of it is promised twice.    *)
NothingOversold == \A u \in Units : HeldOn(u) <= onHand[u]

LedgerInit == NothingOversold

Others(r) == \A x \in Resvs \ {r} : holds'[x] = holds[x]

Hold(r) ==
    /\ holds[r] = None
    /\ holds'[r] # None /\ holds'[r].status = "ACTIVE"
    /\ \E u \in Units : holds'[r].allocs[u] > 0
    /\ \A u \in Units : holds'[r].allocs[u] <= onHand[u] - HeldOn(u)
    /\ Others(r)
    /\ UNCHANGED onHand

GiveBack(r) ==
    /\ r \in Active
    /\ \E status \in {"REVOKED", "EXPIRED"} :
          holds' = [holds EXCEPT ![r].status = status]
    /\ UNCHANGED onHand

TakeOffHand(r) ==
    /\ r \in Active
    /\ holds' = [holds EXCEPT ![r].status = "CONFIRMED"]
    /\ onHand' = [u \in Units |-> onHand[u] - holds[r].allocs[u]]

(* A stow brings a new unit.                                               *)
PutOnHand(u) ==
    /\ onHand[u] = 0 /\ onHand'[u] > 0
    /\ \A v \in Units \ {u} : onHand'[v] = onHand[v]
    /\ UNCHANGED holds

LedgerNext ==
    \/ \E r \in Resvs : Hold(r) \/ GiveBack(r) \/ TakeOffHand(r)
    \/ \E u \in Units : PutOnHand(u)

LedgerSpec == LedgerInit /\ [][LedgerNext]_HoldVars
=============================================================================
