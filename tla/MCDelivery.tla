----------------------------- MODULE MCDelivery -----------------------------
(***************************************************************************)
(* Small workloads for the way of an event to the report.                  *)
(***************************************************************************)
EXTENDS DeliveryInvariant, TLC

Skus  == {"widget"}
Resvs == {"r1", "r2"}
SkuOfReservation == [r \in Resvs |-> "widget"]
TwoPartitions == ("widget" :> 1) @@ ("r1" :> 2) @@ ("r2" :> 1) @@ ("b1" :> 2)

Ev(kind, res, qty, at) == [kind |-> kind, sku |-> "widget", bin |-> "b1", res |-> res, qty |-> qty, at |-> at]

-----------------------------------------------------------------------------
(* Requests *)

Request(key, events) == [keyed |-> TRUE, key |-> key, events |-> events, after |-> {}, mayRefuse |-> FALSE]
Plain(events, after) == [keyed |-> FALSE, key |-> Absent, events |-> events, after |-> after, mayRefuse |-> FALSE]

Receipt(key, qty, at) == Request(key, <<Ev("StockReceived", "r1", qty, at)>>)

(* A reservation that finds r2 expired and may then lose a version race.   *)
Reservation(key) == [Request(key, <<Ev("ReservationExpired", "r2", 0, 2), Ev("StockReserved", "r1", 2, 2)>>)
                        EXCEPT !.mayRefuse = TRUE]
FirstReservation == Request("k1", <<Ev("StockReserved", "r1", 2, 2)>>)
Revocation(after)  == [Plain(<<Ev("ReservationRevoked", "r1", 2, 3)>>, after) EXCEPT !.mayRefuse = TRUE]
Pick(after)        == Plain(<<Ev("StockPicked", "r1", 2, 3)>>, after)
Stow(at)           == Plain(<<Ev("LocationRecorded", "r1", 0, at), Ev("ItemStowed", "r1", 1, at)>>, {})
CycleCount(at)     == Plain(<<Ev("ItemUnlocated", "r1", 1, at), Ev("DiscrepancyDetected", "r1", 0, at),
                              Ev("CycleCountCompleted", "r1", 0, at)>>, {})

-----------------------------------------------------------------------------
(* What earlier releases have left on the topic: a flat envelope, a type   *)
(* of a newer release that was rolled back, a payload of another schema.   *)

OldMessage(id, type, isEvent, readable) ==
    [id |-> id, msg |-> [topic |-> "analytics", type |-> type, key |-> "widget", sku |-> "widget",
                         bin |-> Unspecified, qty |-> 1, at |-> 0, cloudEvent |-> isEvent, readable |-> readable]]

OldMessages == << OldMessage(-1, <<"stock", "StockReceived">>, FALSE, TRUE),
                  OldMessage(-2, <<"stock", "StockMoved">>, TRUE, TRUE),
                  OldMessage(-3, <<"stock", "StockReceived">>, TRUE, FALSE) >>

-----------------------------------------------------------------------------
(* Workloads *)

Workload(requests, relays, consumers, faults, faultsOfProjector) ==
    [requests |-> requests, relays |-> relays, batchSize |-> 2, maxAttempts |-> 0, unsendable |-> {},
     consumers |-> consumers, history |-> <<>>, mishaps |-> faults, trouble |-> faultsOfProjector, until |-> 4]

(* A reservation, its retry, and its key used again for a receipt.         *)
Retries == Workload(<<Reservation("k1"), Reservation("k1"), Receipt("k1", 1, 3), Receipt(Absent, 1, 3)>>, {1}, {1}, 1, 0)

(* A reservation with a later revocation.                                  *)
LifeCycle == Workload(<<FirstReservation, Revocation({1})>>, {1}, {1}, 1, 1)

(* A stow and a later pick, on a topic with a past.                        *)
Shelf == [Workload(<<Stow(1), Pick({1})>>, {1}, {1}, 1, 1) EXCEPT !.history = OldMessages]

(* Two receipts of one hour, two replicas of the service and two of the    *)
(* projector.                                                              *)
Replicas == Workload(<<Receipt("k1", 2, 1), Receipt("k2", 1, 1)>>, {1, 2}, {1, 2}, 1, 1)

(* A cycle count whose second row Kafka will never take.                   *)
GivenUp == [Workload(<<CycleCount(0)>>, {1}, {1}, 1, 1) EXCEPT !.maxAttempts = 2, !.unsendable = {"DiscrepancyDetected"}]

AllWorkloads == {Retries, LifeCycle, Shelf, Replicas, GivenUp}

(* A reservation and its revocation, drained by two replicas, no failures. *)
TwoReplicas == {[Workload(<<FirstReservation, Revocation({1})>>, {1, 2}, {}, 0, 0) EXCEPT !.batchSize = 1]}
=============================================================================
