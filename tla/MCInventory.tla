---------------------------- MODULE MCInventory ----------------------------
(***************************************************************************)
(* Small databases, request mixes and bounds for TLC.                      *)
(***************************************************************************)
EXTENDS HoldsInvariant, TLC

TwoUnits   == {"u1", "u2"}
ThreeUnits == {"u1", "u2", "u3"}
OneBin     == {"b1"}
TwoResvs   == {"r1", "r2"}
ThreeResvs == {"r1", "r2", "r3"}
OneSku     == {"widget"}
TwoSkus    == {"widget", "acid"}
AcidApart  == {<<"widget", "acid">>, <<"acid", "widget">>}
OneDemand  == {"d1"}
TwoDemands == {"d1", "d2"}
IdOrder    == [u \in Units |-> CASE u = "u1" -> 1 [] u = "u2" -> 2 [] u = "u3" -> 3]

-----------------------------------------------------------------------------
(* Databases to start from, each what a few requests have left.            *)

UnitRow(qty, reserved, version) ==
    [sku |-> "widget", bin |-> "b1", quantity |-> qty, reserved |-> reserved,
     state |-> IF reserved = 0 THEN "AVAILABLE" ELSE "RESERVED", version |-> version]
BinRow(capacity, occupied, version) ==
    [capacity |-> capacity, occupied |-> occupied, version |-> version]
Holding(demand, n1, n2) ==
    NewReservation("widget", n1 + n2, demand,
                   [u \in Units |-> CASE u = "u1" -> n1 [] u = "u2" -> n2 [] OTHER -> 0], 0)

Only(f) == [r \in Rows |-> IF r \in DOMAIN f THEN f[r] ELSE Absent]

Nothing == {Only(<<>>)}

(* r2 was reserved first; r1 then drew what was left of u1 and one of u2.  *)
HeldStock == {Only(
    ("b1" :> BinRow(4, 4, 3)) @@ ("u1" :> UnitRow(2, 2, 3)) @@ ("u2" :> UnitRow(2, 1, 2))
    @@ ("r1" :> Holding("d1", 1, 1)) @@ ("r2" :> Holding("d1", 1, 0)))}

(* r1 and r2 each hold one of u1.                                          *)
SharedUnit == {Only(
    ("b1" :> BinRow(2, 2, 2)) @@ ("u1" :> UnitRow(2, 2, 3))
    @@ ("r1" :> Holding("d1", 1, 0)) @@ ("r2" :> Holding("d1", 1, 0)))}

(* r1 holds one of u1; one of u1 and one of u2 are free.                   *)
FreeStock == {Only(
    ("b1" :> BinRow(3, 3, 3)) @@ ("u1" :> UnitRow(2, 1, 2)) @@ ("u2" :> UnitRow(1, 0, 1))
    @@ ("r1" :> Holding("d2", 1, 0)))}

(* r1 holds one of u1, and the bin has room for two more.                  *)
RoomLeft == {Only(("b1" :> BinRow(4, 2, 2)) @@ ("u1" :> UnitRow(2, 1, 2)) @@ ("r1" :> Holding("d1", 1, 0)))}

(* The bin is registered and empty.                                        *)
EmptyBin == {Only("b1" :> BinRow(2, 0, 1))}

PlacementStates == Nothing \cup EmptyBin \cup RoomLeft

-----------------------------------------------------------------------------
(* Request mixes *)

ResolveMix == (1 :> {"revoke"}) @@ (2 :> {"confirm"}) @@ (3 :> {"get"})
ReserveMix == (1 :> {"reserve"}) @@ (2 :> {"reserve"}) @@ (3 :> {"revoke", "confirm", "count"})
PlaceMix   == (1 :> {"stow"}) @@ (2 :> {"stow", "count"}) @@ (3 :> {"register", "confirm"})
EntryMix   == (1 :> {"reserve", "get"}) @@ (2 :> {"mcp_revoke"}) @@ (3 :> {"confirm", "revoke", "count"})

ReserveTwice == (1 :> {"reserve"}) @@ (2 :> {"reserve"})
ReserveAndGet == (1 :> {"reserve"}) @@ (2 :> {"get"})
RevokeOverMCP == (1 :> {"mcp_revoke"}) @@ (2 :> {"revoke"})
CountAndPick == (1 :> {"count"}) @@ (2 :> {"confirm"})
RegisterTwice == (1 :> {"register"}) @@ (2 :> {"register"})
=============================================================================
