---------------------------- MODULE StockDomain ----------------------------
(***************************************************************************)
(* The three aggregates of the inventory domain as table rows, and their   *)
(* methods as pure operators.  A method that can fail is split in two: a   *)
(* predicate (the condition under which the Go method returns nil) and the *)
(* row it leaves behind.  Quantities are shared.Quantity values, natural   *)
(* numbers whose Sub fails instead of going below zero.                    *)
(*                                                                         *)
(* A row carries the aggregate's optimistic-concurrency version, which no  *)
(* method of the domain reads or writes.                                   *)
(***************************************************************************)
EXTENDS Integers, FiniteSets

CONSTANTS
    Units,      \* identifiers of stock units
    Bins,       \* identifiers of bins
    Resvs,      \* identifiers of reservations
    Skus,       \* stock keeping units
    Demands,    \* demand references
    Absent      \* stands for "no such row" and "not applicable"

StockState == {"AVAILABLE", "RESERVED", "PICKED", "REMOVED", "UNLOCATED"}
Status     == {"ACTIVE", "CONFIRMED", "REVOKED", "EXPIRED"}
Version    == Nat \ {0}

StockUnit == [sku: Skus, bin: Bins, quantity: Nat, reserved: Nat,
              state: StockState, version: Version]
Bin == [capacity: Nat, occupied: Nat, version: Version]
Reservation == [sku: Skus, quantity: Nat, demand: Demands,
                allocs: [Units -> Nat], status: Status, expiresAt: Nat,
                version: Version]

Rows == Units \cup Bins \cup Resvs

ASSUME RowsAssumption ==
    /\ Units \cap Bins = {} /\ Units \cap Resvs = {} /\ Bins \cap Resvs = {}
    /\ Absent \notin StockUnit \cup Bin \cup Reservation
    /\ Absent \notin Skus \cup Demands \cup Rows
    /\ IsFiniteSet(Units)

-----------------------------------------------------------------------------
(* StockUnit *)

NewStockUnit(sku, bin, qty) ==
    [sku |-> sku, bin |-> bin, quantity |-> qty, reserved |-> 0,
     state |-> "AVAILABLE", version |-> 1]

Locatable(u) == u.state \notin {"UNLOCATED", "REMOVED"}

(* Mutant: what is promised already is promised again.                     *)
UsableUnheld(u) == IF Locatable(u) THEN u.quantity ELSE 0

Usable(u) ==
    IF Locatable(u) /\ u.reserved <= u.quantity
    THEN u.quantity - u.reserved ELSE 0

Reserve(u, qty) ==
    [u EXCEPT !.reserved = @ + qty, !.state = "RESERVED"]

(* Mutant: no check against the reserved quantity.                         *)
CanReleaseAny(u, qty) == qty >= 0

CanRelease(u, qty) == qty <= u.reserved

ReleaseReservation(u, qty) ==
    [u EXCEPT !.reserved = @ - qty,
              !.state = IF u.reserved = qty /\ @ = "RESERVED"
                        THEN "AVAILABLE" ELSE @]

CanPick(u, qty) == qty <= u.reserved /\ qty <= u.quantity

(* Mutant: the reservation outlives the pick.                              *)
PickFromHand(u, qty) == [u EXCEPT !.quantity = @ - qty, !.state = "PICKED"]

Pick(u, qty) ==
    [u EXCEPT !.reserved = @ - qty, !.quantity = @ - qty,
              !.state = IF u.quantity = qty THEN "REMOVED" ELSE "PICKED"]

MarkUnlocated(u) == [u EXCEPT !.state = "UNLOCATED"]

-----------------------------------------------------------------------------
(* Bin *)

NewBin(capacity) == [capacity |-> capacity, occupied |-> 0, version |-> 1]

CanOccupy(b, qty) == qty > 0 /\ b.occupied + qty <= b.capacity
Occupy(b, qty)    == [b EXCEPT !.occupied = @ + qty]

CanReleaseBin(b, qty) == qty > 0 /\ qty <= b.occupied
ReleaseBin(b, qty)    == [b EXCEPT !.occupied = @ - qty]

(* Mutant: a bin shrinks below what lies in it.                            *)
CanResizeAny(b, capacity) == capacity > 0

CanResize(b, capacity) == capacity > 0 /\ b.occupied <= capacity
Resize(b, capacity)    == [b EXCEPT !.capacity = capacity]

-----------------------------------------------------------------------------
(* Reservation *)

NewReservation(sku, qty, demand, allocs, expiresAt) ==
    [sku |-> sku, quantity |-> qty, demand |-> demand, allocs |-> allocs,
     status |-> "ACTIVE", expiresAt |-> expiresAt, version |-> 1]

IsActive(res)       == res.status = "ACTIVE"
IsExpired(res, now) == now > res.expiresAt
(* Mutant: a resolved reservation can be picked.                           *)
CanConfirmAny(res, now) == ~IsExpired(res, now)

CanConfirm(res, now) == IsActive(res) /\ ~IsExpired(res, now)

(* Revoke, Confirm and Expire differ only in the status they move to. *)
ResolveAs(res, status) == [res EXCEPT !.status = status]

Allocated(res) == {u \in Units : res.allocs[u] > 0}

-----------------------------------------------------------------------------
(* Quantities are summed by counting pieces: <<x, i>> is the i-th piece of *)
(* x, so the pieces of a family of quantities are as many as their sum.    *)

Pieces(S, f) == UNION {{x} \X (1 .. f[x]) : x \in S}
Amount(S, f) == Cardinality(Pieces(S, f))
=============================================================================
