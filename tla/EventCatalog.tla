---------------------------- MODULE EventCatalog ----------------------------
(***************************************************************************)
(* The events the inventory service tells the outside about: how each one  *)
(* is encoded for the two Kafka topics, which row and counter of the flow  *)
(* and accuracy report it moves, and what a report query returns.          *)
(*                                                                         *)
(* A domain event is a record with the fields any kind may carry.  Times   *)
(* are counted in ticks, TicksPerHour of them to the hour of the rollup.   *)
(***************************************************************************)
EXTENDS Integers, Sequences, FiniteSets, Bags

CONSTANTS
    SkuOf,        \* the SKU of a reservation, as the repository answers
    Unspecified,  \* the empty string of a report dimension
    TicksPerHour

ASSUME TicksAssumption == TicksPerHour \in Nat \ {0}

(* SKUs, bins and reservations are named by strings.                       *)
ASSUME NamesAssumption ==
    /\ Unspecified \in STRING
    /\ DOMAIN SkuOf \subseteq STRING /\ \A r \in DOMAIN SkuOf : SkuOf[r] \in STRING

IntegrationKinds == {"StockReserved", "ReservationRevoked"}
StockKinds       == {"StockReceived", "ItemStowed", "ItemUnlocated"}
BinKinds         == {"CycleCountCompleted", "DiscrepancyDetected"}
ReservationKinds == {"StockPicked", "StockReserved", "ReservationExpired", "ReservationRevoked"}
AnalyticsKinds   == StockKinds \cup BinKinds \cup ReservationKinds

(* Kinds that carry an amount, which NewPositiveQuantity has accepted.     *)
AmountKinds      == {"StockReceived", "StockPicked"}

DomainEvents == {e \in [kind : STRING, sku : STRING, bin : STRING, res : DOMAIN SkuOf, qty : Nat, at : Nat] :
                    e.kind \in AmountKinds => e.qty > 0}

-----------------------------------------------------------------------------
(* Encoding *)

Entities == {"stock", "bin", "reservation"}
EntityOf(kind) == CASE kind \in StockKinds -> "stock"
                    [] kind \in BinKinds   -> "bin"
                    [] OTHER               -> "reservation"

(* Resolutions of a reservation carry only its id: the SKU is looked up.   *)
Resolutions == {"ReservationExpired", "ReservationRevoked"}
SkuIn(e) == IF e.kind \in Resolutions THEN SkuOf[e.res] ELSE e.sku

IntegrationMessages(e) ==
    IF e.kind \notin IntegrationKinds THEN <<>>
    ELSE << [topic |-> "integration", type |-> <<"reservation", e.kind>>, key |-> e.res,
             sku |-> SkuIn(e), bin |-> Unspecified, qty |-> e.qty, at |-> e.at,
             cloudEvent |-> TRUE, readable |-> TRUE] >>

AnalyticsKey(e) == CASE e.kind \in BinKinds    -> e.bin
                     [] e.kind \in Resolutions -> e.res
                     [] OTHER                  -> e.sku

AnalyticsMessages(e) ==
    IF e.kind \notin AnalyticsKinds THEN <<>>
    ELSE << [topic |-> "analytics", type |-> <<EntityOf(e.kind), e.kind>>, key |-> AnalyticsKey(e),
             sku |-> IF e.kind \in BinKinds THEN Unspecified ELSE SkuIn(e),
             bin |-> IF e.kind \in BinKinds \cup {"ItemStowed", "ItemUnlocated"} THEN e.bin ELSE Unspecified,
             qty |-> IF e.kind \in BinKinds \cup Resolutions THEN 0 ELSE e.qty, at |-> e.at,
             cloudEvent |-> TRUE, readable |-> TRUE] >>

(* Every event goes through both encoders, the integration one first.      *)
Encoded(e) == IntegrationMessages(e) \o AnalyticsMessages(e)

-----------------------------------------------------------------------------
(* Projection *)

ProjectedTypes == {<<EntityOf(k), k>> : k \in AnalyticsKinds}
Projects(m) == m.type \in ProjectedTypes

HourBucket(t) == (t \div TicksPerHour) * TicksPerHour

(* A cell is one counter of one row of flow_accuracy_rollup.               *)
Cell(m) ==
    LET kind == m.type[2]
    IN [sku    |-> IF kind \in BinKinds THEN Unspecified ELSE m.sku,
        bin    |-> IF kind \in BinKinds \cup {"ItemStowed", "ItemUnlocated"} THEN m.bin ELSE Unspecified,
        hour   |-> HourBucket(m.at),
        counts |-> kind]

(* Receipts and picks add their quantity, every other event counts one.    *)
Delta(m) == IF m.type[2] \in AmountKinds THEN m.qty ELSE 1

Effect(m) == [c \in {Cell(m)} |-> Delta(m)]

-----------------------------------------------------------------------------
(* Reading the report *)

(* Mutant: the end of the window belongs to it.                            *)
SelectedThrough(cell, q) ==
    /\ q.from <= cell.hour /\ cell.hour <= q.to
    /\ q.sku \in {Unspecified, cell.sku}
    /\ q.bin \in {Unspecified, cell.bin}
Selected(cell, q) ==
    /\ q.from <= cell.hour /\ cell.hour < q.to
    /\ q.sku \in {Unspecified, cell.sku}
    /\ q.bin \in {Unspecified, cell.bin}

Query(report, q) == [c \in {c \in BagToSet(report) : Selected(c, q)} |-> report[c]]
=============================================================================
