--------------------------- MODULE StockInvariant ---------------------------
(***************************************************************************)
(* Inductive invariants about what the tables of Inventory mean: reserved  *)
(* quantities against stock on hand, bins against what lies in them, hazard *)
(* classes, and the outbox against the reservations.  They rest on the     *)
(* invariant of InventoryInvariant.                                        *)
(***************************************************************************)
EXTENDS InventoryInvariant

(* The service starts on tables it has left behind itself: no more is      *)
(* reserved of a unit than is on hand, every unit's bin exists, bins       *)
(* balance, fit and are segregated, a bin is empty when it is created, and *)
(* what the empty outbox tells of, nothing, is so.                         *)
ASSUME DatabasesAssumption == \A t \in Databases :
    /\ \A u \in Units : t[u] # Absent => t[u].reserved <= t[u].quantity /\ t[t[u].bin] # Absent
    /\ \A u, v \in Units : t[u] # Absent /\ t[v] # Absent /\ t[u].bin = t[v].bin =>
          <<t[u].sku, t[v].sku>> \notin Conflicts
    /\ \A b \in Bins : t[b] # Absent =>
          /\ t[b].occupied = Amount(InBin(t, b), [u \in InBin(t, b) |-> t[u].quantity])
          /\ t[b].occupied <= t[b].capacity /\ (t[b].version = 1 => t[b].occupied = 0)
    /\ \A r \in Resvs : t[r] # Absent => IsActive(t[r])

(* A request is one of those its session may be asked for, and what it     *)
(* resolves is resolved, as a pick only if a pick was asked for.           *)
Asked == \A s \in Sessions :
    /\ job[s].op \in OpsOf[s] \cup {"none"}
    /\ pc[s] \in Resolves => job[s].act # "ACTIVE" /\ (Picking(s) => job[s].op = "confirm")

-----------------------------------------------------------------------------
(* Reserved and on hand *)

Sound(unit) == unit # Absent => unit.reserved <= unit.quantity

(* No copy of a unit has more reserved than is on hand, and what a request *)
(* is about to draw was free in the copy it draws from.                    *)
OnHandInv == \A u \in Units :
    /\ Sound(db[u])
    /\ \A s \in Sessions :
          /\ Sound(writes[s][u]) /\ Sound(loaded[s][u])
          /\ pc[s] = "draw" /\ u \in job[s].todo =>
                loaded[s][u].reserved + job[s].draw[u] <= loaded[s][u].quantity

-----------------------------------------------------------------------------
(* The outbox *)

Endings(events, r) == {e \in events : e.key = r /\ e.type \in Terminal}

(* The events tell of the reservation what its row does.                   *)
Tell(events, r, row) ==
    IF row = Absent \/ IsActive(row) THEN Endings(events, r) = {}
    ELSE \E e \in events : Endings(events, r) = {e} /\ e.type = EventOf[row.status]

(* An open transaction has inserted the events of what it has written.     *)
EventsInv == \A r \in Resvs :
    /\ Tell(outbox, r, db[r])
    /\ \A s \in Sessions : Tell(pending[s], r, writes[s][r])

-----------------------------------------------------------------------------
(* Bins and what lies in them *)

Alike(x, y) == x # Absent /\ y # Absent => x.sku = y.sku /\ x.bin = y.bin

(* A unit never changes its SKU or its bin.                                *)
UnitsAlike == \A s \in Sessions, u \in Units :
    Alike(writes[s][u], db[u]) /\ Alike(loaded[s][u], Visible(s, u))

Compatible(sku, b) == \A v \in InBin(db, b) : <<sku, db[v].sku>> \notin Conflicts

(* The unit a transaction is adding, if any, is the only one it writes,    *)
(* and the last row; it holds the bin, and nothing in the bin conflicts.   *)
AddsUnit(s, u) == writes[s][u] # Absent /\ db[u] = Absent
AddingInv == \A s \in Sessions, u \in Units : AddsUnit(s, u) =>
    /\ pc[s] = "commit" /\ job[s].op = "stow"
    /\ writes[s][writes[s][u].bin] # Absent
    /\ Compatible(writes[s][u].sku, writes[s][u].bin)
    /\ \A v \in Units : writes[s][v] # Absent => v = u

(* A stow that has checked the bin was right to, unless the bin has moved  *)
(* on; once it holds the bin nothing moves.                                *)
StowInv == \A s \in Sessions :
    /\ pc[s] = "putbin" /\ db[job[s].bin].version = loaded[s][job[s].bin].version =>
          Compatible(job[s].sku, job[s].bin)
    /\ pc[s] = "putunit" => /\ writes[s][job[s].bin] # Absent
                            /\ Compatible(job[s].sku, job[s].bin)
                            /\ \A u \in Units : writes[s][u] = Absent
    /\ pc[s] \in {"putbin", "setbin"} => writes[s] = NoRows

SegregationInv == UnitsAlike /\ AddingInv /\ StowInv /\ Segregated

-----------------------------------------------------------------------------
(* The bins' ledger *)

Lies(t, b) == Amount(InBin(t, b), [u \in InBin(t, b) |-> t[u].quantity])
View(s)    == [r \in Rows |-> Visible(s, r)]

(* The unit whose pick is written, but not yet its bin.                    *)
Picked(s) == {u \in job[s].todo : pc[s] \in {"bin", "savebin"} /\ IsNext(s, u)}

(* How far the bin is ahead of what the request has written of its units.  *)
UnderWay(s, b) ==
    IF pc[s] = "putunit" /\ job[s].bin = b THEN job[s].qty
    ELSE IF \E u \in Picked(s) : loaded[s][u].bin = b
    THEN Share(s, CHOOSE u \in Picked(s) : TRUE)
    ELSE 0

(* The committed bins balance.  A transaction that holds a bin sees it     *)
(* balanced but for the unit in its hands; one that does not has changed   *)
(* no quantity in it but of that unit.                                     *)
Balanced(t, b, ahead) == t[b] # Absent => t[b].occupied = Lies(t, b) + ahead
BooksInv ==
    /\ \A b \in Bins : Balanced(db, b, 0)
    /\ \A s \in Sessions, b \in Bins :
          IF writes[s][b] # Absent THEN Balanced(View(s), b, UnderWay(s, b))
          ELSE \A u \in Units : writes[s][u] # Absent /\ writes[s][u].bin = b =>
                  db[u].quantity = writes[s][u].quantity + (IF u \in Picked(s) THEN Share(s, u) ELSE 0)

(* A unit's bin exists, what is in it fits, and it was empty when created. *)
Fits(bin) == bin # Absent => bin.occupied <= bin.capacity /\ (bin.version = 1 => bin.occupied = 0)
BinsInv ==
    /\ \A u \in Units : db[u] # Absent => db[db[u].bin] # Absent
    /\ \A b \in Bins : Fits(db[b]) /\ \A s \in Sessions : Fits(writes[s][b])
    /\ \A s \in Sessions :
          /\ pc[s] \in {"bin", "savebin"} => Picking(s)
          /\ \A u \in Picked(s) : writes[s][u] # Absent /\ loaded[s][u].bin = writes[s][u].bin
          /\ pc[s] = "putbin" => CanOccupy(loaded[s][job[s].bin], job[s].qty)
          /\ pc[s] = "setbin" /\ Has(s, job[s].bin) => CanResize(loaded[s][job[s].bin], job[s].qty)

(* The bins balance, fit and are segregated, and every request that races   *)
(* for one is at a statement that keeps them so.                           *)
ShelvesInv == SegregationInv /\ BooksInv /\ BinsInv
=============================================================================
