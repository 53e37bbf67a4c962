--------------------------- MODULE HoldsInvariant ---------------------------
(***************************************************************************)
(* The inductive invariant of conservation: what is reserved of the units  *)
(* against what the ACTIVE reservations hold, in the tables and in every   *)
(* open transaction.  It is kept as long as every request has a unit of    *)
(* work and no reservation expires inside a transaction that commits its   *)
(* errors too.                                                             *)
(***************************************************************************)
EXTENDS StockInvariant

Reserved(t, u) == IF t[u] = Absent THEN 0 ELSE t[u].reserved

(* The quantity the ACTIVE reservations of a table hold on unit u.         *)
Holders(t)   == {r \in Resvs : t[r] # Absent /\ IsActive(t[r])}
HeldIn(t, u) == Amount(Holders(t), [r \in Holders(t) |-> t[r].allocs[u]])

(* Reservations are identified by UUIDs, of which there are finitely many. *)
(* What they hold is reserved when the service starts; no hold is the      *)
(* value that stands for a missing row.                                    *)
ASSUME HoldsAssumption ==
    /\ IsFiniteSet(Resvs)
    /\ \A t \in Databases, u \in Units : HeldIn(t, u) <= Reserved(t, u)
    /\ Absent \notin [status : Status, allocs : [Units -> Nat]]

(* No reservation expires inside ReserveStock, whose transaction is the    *)
(* middleware's and is committed with an error as well.                    *)
Unhurried == \A s \in Sessions : job[s].op = "reserve" => pc[s] \notin Resolves

(* It is so where nothing is being reserved, and as long as the clock does *)
(* not pass the lifetime of a reservation.                                 *)
NoReserve == \A s \in Sessions : "reserve" \notin OpsOf[s]

Lasts(row) == row # Absent => Horizon <= row.expiresAt
LongLived  == Horizon <= Timeout /\ \A t \in Databases, r \in Resvs : Lasts(t[r])

LastsInv ==
    /\ now <= Horizon
    /\ \A r \in Resvs : Lasts(db[r]) /\ \A s \in Sessions : Lasts(writes[s][r]) /\ Lasts(loaded[s][r])

-----------------------------------------------------------------------------
(* Requests that resolve a reservation, or create one                      *)

Returning(s) == \/ pc[s] \in Resolves
                \/ pc[s] = "commit" /\ job[s].act # "ACTIVE"
Reserving(s) == pc[s] \in {"draw", "reply"}

(* The units the reservation in hand draws on, and those of them that are  *)
(* dealt with.                                                             *)
Planned(s) == IF Returning(s) THEN Allocated(loaded[s][job[s].res])
                              ELSE {u \in Units : job[s].draw[u] > 0}
Settled(s) == Planned(s) \ (job[s].todo \ Picked(s))

Returned(s, u) == IF Returning(s) THEN Share(s, u) ELSE 0
Taken(s, u)    == IF Returning(s) /\ Picking(s) THEN Share(s, u) ELSE 0
Drawn(s, u)    == IF Reserving(s) THEN job[s].draw[u] ELSE 0

(* A unit the transaction has written differs from the committed one by    *)
(* the part of the reservation in hand; a unit it adds is wholly free.     *)
UnitShifted(s, u) ==
    IF db[u] = Absent
    THEN /\ pc[s] = "commit" /\ job[s].act = "ACTIVE"
         /\ writes[s][u].reserved = 0 /\ writes[s][u].quantity > 0
    ELSE /\ writes[s][u].reserved + Returned(s, u) = db[u].reserved + Drawn(s, u)
         /\ writes[s][u].quantity + Taken(s, u) = db[u].quantity

(* A reservation is written when all of its units have been.               *)
ResvShifted(s, r) ==
    /\ r = job[s].res
    /\ IF pc[s] = "reply"
       THEN db[r] = Absent /\ IsActive(writes[s][r]) /\ writes[s][r].allocs = job[s].draw
       ELSE /\ pc[s] = "commit" /\ job[s].act # "ACTIVE"
            /\ db[r] # Absent /\ writes[s][r].status = job[s].act
            /\ writes[s][r].allocs = db[r].allocs /\ loaded[s][r].allocs = db[r].allocs

Written(s) == {r \in Rows : writes[s][r] # Absent}

(* What a request has written, at each of its statements.                  *)
InStep(s) ==
    /\ Returning(s) \/ Reserving(s) =>
          job[s].todo \subseteq Planned(s) /\ Units \cap Written(s) = Settled(s)
    /\ pc[s] = "reply" \/ (Returning(s) /\ pc[s] = "commit") =>
          job[s].res \in Resvs \cap Written(s) /\ job[s].todo = {}
    /\ pc[s] = "mark" => job[s].todo \cap Written(s) = {}
    /\ pc[s] = "putunit" => Written(s) \subseteq Bins
    /\ pc[s] \in Finished \cup {"idle", "due", "place", "putbin", "setbin"} => Written(s) = {}
    /\ pc[s] = "commit" => job[s].op # "reserve"
    /\ pc[s] \in {"place", "putbin", "putunit"} => job[s].qty > 0
    /\ pc[s] = "due" /\ job[s].op = "reserve" => job[s].qty > 0
    /\ Reserving(s) => \E u \in Units : job[s].draw[u] > 0

HoldsTx(s) ==
    /\ \A u \in Units \cap Written(s) : UnitShifted(s, u)
    /\ \A r \in Resvs \cap Written(s) : ResvShifted(s, r)
    /\ InStep(s)

(* The committed tables reserve what is held, or just that.                *)
Backed == \A u \in Units : HeldIn(db, u) <= Reserved(db, u)
Exact  == \A u \in Units : HeldIn(db, u) = Reserved(db, u)

HoldsInv == Backed /\ \A s \in Sessions : HoldsTx(s)
=============================================================================
