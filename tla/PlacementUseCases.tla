------------------------- MODULE PlacementUseCases -------------------------
(***************************************************************************)
(* The use cases on bins and on what lies in them: StowStock, RegisterBin  *)
(* and RunCycleCount.  The DOT hazard classes of the SKUs are fixed here:  *)
(* Conflicts holds the pairs of different SKUs product.Incompatible        *)
(* reports.  The answer of the facility-layout lookup (checkPlacement) may  *)
(* go either way.                                                          *)
(***************************************************************************)
EXTENDS RequestTx

CONSTANTS
    Portions,   \* quantities stowed or counted
    Capacities, \* capacities registered
    Conflicts   \* pairs of SKUs whose hazard classes are incompatible

ASSUME PlacementAssumption ==
    /\ Portions \subseteq Nat /\ Capacities \subseteq Nat
    /\ Conflicts \subseteq Skus \X Skus
    /\ \A p \in Conflicts : p[1] # p[2] /\ <<p[2], p[1]>> \in Conflicts

InBin(t, b) == {u \in Units : t[u] # Absent /\ t[u].bin = b}

-----------------------------------------------------------------------------
(* StowStock *)

(* StowStock.Execute: the bin is read before anything is checked.          *)
StowStock(s) ==
    /\ pc[s] = "idle" /\ "stow" \in OpsOf[s]
    /\ \E sku \in Skus, qty \in Portions \ {0}, b \in Bins :
          IF db[b] = Absent
          THEN Forget(s, "err")
          ELSE /\ Load(s, {b})
               /\ GoTo(s, "place", [NoJob EXCEPT !.op = "stow", !.sku = sku, !.qty = qty,
                                                 !.bin = b])
    /\ UNCHANGED <<now, store>>

(* checkPlacement: the lookup refuses, or is unavailable for a classified  *)
(* SKU.                                                                    *)
RefusePlacement(s) == pc[s] = "place" /\ Fail(s)

(* checkSegregation against the occupants of this moment, then bin.Occupy  *)
(* on the bin as it was loaded.                                            *)
CheckSegregation(s) ==
    /\ pc[s] = "place"
    /\ IF /\ \A u \in InBin(db, job[s].bin) : <<job[s].sku, db[u].sku>> \notin Conflicts
          /\ CanOccupy(loaded[s][job[s].bin], job[s].qty)
       THEN GoTo(s, "putbin", job[s]) /\ UNCHANGED <<now, store, loaded>>
       ELSE Fail(s)

SaveOccupied(s) ==
    /\ pc[s] = "putbin"
    /\ LET b   == job[s].bin
           bin == Occupy(loaded[s][b], job[s].qty)
       IN  \/ /\ Save(s, b, bin) /\ GoTo(s, "putunit", job[s])
              /\ UNCHANGED <<now, loaded, outbox, pending>>
           \/ Conflict(s, b, bin)

SaveStowed(s) ==
    /\ pc[s] = "putunit"
    /\ \E u \in {x \in Units : Unused(x)} :
          /\ Save(s, u, NewStockUnit(job[s].sku, job[s].bin, job[s].qty))
          /\ Publish(s, {"ItemStowed", "LocationRecorded"}, u)
          /\ GoTo(s, "commit", job[s])
    /\ UNCHANGED <<now, loaded>>

-----------------------------------------------------------------------------
(* RegisterBin *)

(* RegisterBin.Execute: the read is inside the unit of work.               *)
RegisterBin(s) ==
    /\ pc[s] = "idle" /\ "register" \in OpsOf[s]
    /\ \E b \in Bins, capacity \in Capacities \ {0} :
          IF db[b] # Absent /\ db[b].capacity = capacity
          THEN Forget(s, "ok")
          ELSE IF db[b] = Absent \/ CanResize(db[b], capacity)
          THEN /\ Load(s, {b})
               /\ GoTo(s, "setbin", [NoJob EXCEPT !.op = "register", !.bin = b, !.qty = capacity])
          ELSE Forget(s, "err")
    /\ UNCHANGED <<now, store>>

(* Locations.Save of the new or the resized bin.                           *)
SaveCapacity(s) ==
    /\ pc[s] = "setbin"
    /\ LET b   == job[s].bin
           bin == IF loaded[s][b] = Absent THEN NewBin(job[s].qty)
                                           ELSE Resize(loaded[s][b], job[s].qty)
       IN  \/ /\ Save(s, b, bin) /\ GoTo(s, "commit", job[s])
              /\ UNCHANGED <<now, loaded, outbox, pending>>
           \/ Conflict(s, b, bin)

-----------------------------------------------------------------------------
(* RunCycleCount *)

LocatableIn(t, b) == {u \in InBin(t, b) : Locatable(t[u])}
SystemQty(t, S)   == Amount(S, [u \in S |-> t[u].quantity])

(* Marking the units of M, one after the other, covers a shortfall of n    *)
(* and stops as soon as it does.                                           *)
Covers(M, t, n) ==
    /\ SystemQty(t, M) >= n
    /\ IF n = 0 THEN M = {} ELSE \E last \in M : SystemQty(t, M \ {last}) < n

(* RunCycleCount.Execute: Stock.FindByBin, outside the unit of work.       *)
RunCycleCount(s) ==
    /\ pc[s] = "idle" /\ "count" \in OpsOf[s]
    /\ \E b \in Bins, counted \in Portions :
          LET locatable == LocatableIn(db, b)
              system    == SystemQty(db, locatable)
              short     == IF counted < system THEN system - counted ELSE 0
          IN  /\ Load(s, locatable)
              /\ \E M \in SUBSET locatable, order \in Orders :
                    /\ Covers(M, db, short)
                    /\ GoTo(s, "mark", [NoJob EXCEPT !.op = "count", !.bin = b, !.qty = counted,
                                                     !.todo = M, !.rank = order])
    /\ UNCHANGED <<now, store>>

(* markShortfallUnlocated: Stock.Save and ItemUnlocated, unit by unit.     *)
MarkUnit(s) ==
    /\ pc[s] = "mark"
    /\ \E u \in job[s].todo :
          LET unit == MarkUnlocated(loaded[s][u])
          IN  /\ IsNext(s, u)
              /\ \/ /\ Save(s, u, unit) /\ Publish(s, {"ItemUnlocated"}, u)
                    /\ GoTo(s, "mark", Without(s, u)) /\ UNCHANGED <<now, loaded>>
                 \/ Conflict(s, u, unit)

(* DiscrepancyDetected, if the count differs, and CycleCountCompleted.     *)
CountDone(s) ==
    /\ pc[s] = "mark" /\ job[s].todo = {}
    /\ LET system == SystemQty(loaded[s], LocatableIn(loaded[s], job[s].bin))
       IN  Publish(s, {"CycleCountCompleted"} \cup
                      (IF job[s].qty = system THEN {} ELSE {"DiscrepancyDetected"}), job[s].bin)
    /\ GoTo(s, "commit", job[s])
    /\ UNCHANGED <<now, db, writes, loaded>>

PlacementStep(s) ==
    \/ StowStock(s) \/ RefusePlacement(s) \/ CheckSegregation(s) \/ SaveOccupied(s)
    \/ SaveStowed(s) \/ RegisterBin(s) \/ SaveCapacity(s) \/ RunCycleCount(s)
    \/ MarkUnit(s) \/ CountDone(s)
=============================================================================
