------------------------ MODULE ReservationUseCases ------------------------
(***************************************************************************)
(* The use cases on reservations: ReserveStock, RevokeReservation (over    *)
(* HTTP and, without a unit of work, over MCP), ConfirmPick and            *)
(* GetReservationsByDemandRef, with the lazy expiry all of them start      *)
(* with.  One action per statement that another request can interleave     *)
(* with; the in-memory steps between two statements belong to the second.  *)
(***************************************************************************)
EXTENDS RequestTx

CONSTANTS
    Amounts,    \* quantities a client asks for
    Timeout     \* lifetime of a reservation

ASSUME ReservationAssumption == Amounts \subseteq Nat /\ Timeout \in Nat

Resolution == [revoke |-> "REVOKED", mcp_revoke |-> "REVOKED", confirm |-> "CONFIRMED"]
EventOf == [REVOKED |-> "ReservationRevoked", EXPIRED |-> "ReservationExpired",
            CONFIRMED |-> "StockPicked", ACTIVE |-> "StockReserved"]

-----------------------------------------------------------------------------
(* Lookups *)

(* RevokeReservation.Execute, ConfirmPick.Execute: Reservations.FindByID.  *)
FindByID(s) ==
    /\ pc[s] = "idle"
    /\ \E op \in OpsOf[s] \cap DOMAIN Resolution, r \in Resvs :
          IF db[r] = Absent
          THEN Forget(s, "err")
          ELSE /\ Load(s, {r})
               /\ GoTo(s, "due", [NoJob EXCEPT !.op = op, !.res = r, !.queue = {r}])
    /\ UNCHANGED <<now, store>>

(* Reservations.FindByDemandRef: every reservation of the demand.          *)
LookUpDemand(s, j) ==
    LET found == {r \in Resvs : db[r] # Absent /\ db[r].demand = j.demand}
    IN  /\ Load(s, found)
        /\ GoTo(s, "due", [j EXCEPT !.queue = found])
        /\ UNCHANGED <<now, store>>

(* GetReservationsByDemandRef.Execute *)
GetReservations(s) ==
    /\ pc[s] = "idle" /\ "get" \in OpsOf[s]
    /\ \E demand \in Demands :
          LookUpDemand(s, [NoJob EXCEPT !.op = "get", !.demand = demand])

(* ReserveStock.Execute *)
ReserveStock(s) ==
    /\ pc[s] = "idle" /\ "reserve" \in OpsOf[s]
    /\ \E sku \in Skus, qty \in Amounts \ {0}, demand \in Demands :
          LookUpDemand(s, [NoJob EXCEPT !.op = "reserve", !.sku = sku, !.qty = qty,
                                        !.demand = demand])

-----------------------------------------------------------------------------
(* Lazy expiry: expireAllIfDue, oldest reservation first *)

Due(s, r) == IsActive(loaded[s][r]) /\ IsExpired(loaded[s][r], now)

IsOldest(s, r) ==
    /\ r \in job[s].queue
    /\ \A q \in job[s].queue : loaded[s][r].expiresAt <= loaded[s][q].expiresAt

NotDue(s) ==
    /\ pc[s] = "due"
    /\ \E r \in job[s].queue :
          /\ IsOldest(s, r) /\ ~Due(s, r)
          /\ GoTo(s, "due", [job[s] EXCEPT !.queue = @ \ {r}])
    /\ UNCHANGED <<now, store, loaded>>

(* Resolve the reservation r as act, unit by unit in the order of their    *)
(* ids: the start of releaseAllocations, or of ConfirmPick's loop.         *)
Resolving(s, r, act) ==
    GoTo(s, "load", [job[s] EXCEPT !.act = act, !.res = r, !.queue = @ \ {r},
                                   !.todo = Allocated(loaded[s][r]), !.rank = ById])

ExpireIfDue(s) ==
    /\ pc[s] = "due"
    /\ \E r \in job[s].queue :
          IsOldest(s, r) /\ Due(s, r) /\ Resolving(s, r, "EXPIRED")
    /\ UNCHANGED <<now, store, loaded>>

-----------------------------------------------------------------------------
(* Revoke, confirm and expire *)

(* res.Revoke() or res.Confirm(now), on the reservation as loaded.         *)
Decide(s) ==
    /\ pc[s] = "due" /\ job[s].queue = {} /\ job[s].op \in DOMAIN Resolution
    /\ LET r   == job[s].res
           res == loaded[s][r]
           allowed == IF job[s].op = "confirm" THEN CanConfirm(res, now) ELSE IsActive(res)
       IN  IF allowed
           THEN Resolving(s, r, Resolution[job[s].op]) /\ UNCHANGED <<now, store, loaded>>
           ELSE Fail(s)

Picking(s) == job[s].act = "CONFIRMED"
Share(s, u) == loaded[s][job[s].res].allocs[u]

(* Stock.FindByID for the next allocation, and the method on the unit.     *)
LoadUnit(s) ==
    /\ pc[s] = "load"
    /\ \E u \in job[s].todo :
          /\ IsNext(s, u)
          /\ IF /\ Visible(s, u) # Absent
                /\ IF Picking(s) THEN CanPick(Visible(s, u), Share(s, u))
                                 ELSE CanRelease(Visible(s, u), Share(s, u))
             THEN Load(s, {u}) /\ GoTo(s, "save", job[s]) /\ UNCHANGED <<now, store>>
             ELSE Fail(s)

SaveUnit(s) ==
    /\ pc[s] = "save"
    /\ \E u \in job[s].todo :
          LET unit == IF Picking(s) THEN Pick(loaded[s][u], Share(s, u))
                                    ELSE ReleaseReservation(loaded[s][u], Share(s, u))
          IN  /\ IsNext(s, u)
              /\ \/ /\ Save(s, u, unit)
                    /\ IF Picking(s) THEN GoTo(s, "bin", job[s])
                                     ELSE GoTo(s, "load", Without(s, u))
                    /\ UNCHANGED <<now, loaded, outbox, pending>>
                 \/ Conflict(s, u, unit)

(* ConfirmPick.pickFromBin: Locations.FindByID and bin.Release.            *)
LoadBin(s) ==
    /\ pc[s] = "bin"
    /\ \E u \in job[s].todo :
          LET b == loaded[s][u].bin
          IN  /\ IsNext(s, u)
              /\ IF Visible(s, b) # Absent /\ CanReleaseBin(Visible(s, b), Share(s, u))
                 THEN Load(s, {b}) /\ GoTo(s, "savebin", job[s]) /\ UNCHANGED <<now, store>>
                 ELSE Fail(s)

SaveBin(s) ==
    /\ pc[s] = "savebin"
    /\ \E u \in job[s].todo :
          LET b   == loaded[s][u].bin
              bin == ReleaseBin(loaded[s][b], Share(s, u))
          IN  /\ IsNext(s, u)
              /\ \/ /\ Save(s, b, bin) /\ GoTo(s, "load", Without(s, u))
                    /\ UNCHANGED <<now, loaded, outbox, pending>>
                 \/ Conflict(s, b, bin)

(* Reservations.Save and Events.Publish, once every unit is written.       *)
SaveReservation(s) ==
    /\ pc[s] = "load" /\ job[s].todo = {}
    /\ LET r   == job[s].res
           res == ResolveAs(loaded[s][r], job[s].act)
       IN  \/ /\ Save(s, r, res)
              /\ Publish(s, {EventOf[job[s].act]}, r)
              /\ loaded' = [loaded EXCEPT ![s][r] = res]
              /\ GoTo(s, "commit", job[s])
              /\ UNCHANGED now
           \/ Conflict(s, r, res)

-----------------------------------------------------------------------------
(* ReserveStock *)

(* isReplayOf: an ACTIVE reservation this request would have created.      *)
Replays(s) == \E r \in Resvs :
    /\ loaded[s][r] # Absent
    /\ IsActive(loaded[s][r])
    /\ loaded[s][r].sku = job[s].sku /\ loaded[s][r].quantity = job[s].qty

(* A replay is answered with the reservation found; so is a plain lookup.  *)
AnswerFound(s) ==
    /\ pc[s] = "due" /\ job[s].queue = {}
    /\ job[s].op \in {"get", "reserve"} /\ (job[s].op = "reserve" => Replays(s))
    /\ Forget(s, "ok")
    /\ Commit(s) /\ UNCHANGED now

(* allocate: draw greedily from the units in the order of the query.       *)
Greedy(usable, order, qty) ==
    [u \in DOMAIN usable |->
       LET before == Amount({v \in DOMAIN usable : order[v] < order[u]}, usable)
           left   == IF before < qty THEN qty - before ELSE 0
       IN  IF left < usable[u] THEN left ELSE usable[u]]

(* Stock.FindBySKU and the allocation, all in memory.                      *)
FindBySKU(s) ==
    /\ pc[s] = "due" /\ job[s].queue = {} /\ job[s].op = "reserve" /\ ~Replays(s)
    /\ LET ofSku  == {u \in Units : Visible(s, u) # Absent /\ Visible(s, u).sku = job[s].sku}
           usable == [u \in Units |-> IF u \in ofSku THEN Usable(Visible(s, u)) ELSE 0]
       IN  IF job[s].qty > Amount(Units, usable)
           THEN Fail(s)
           ELSE /\ \E order \in Orders :
                      LET draw == Greedy(usable, order, job[s].qty)
                      IN  GoTo(s, "draw", [job[s] EXCEPT !.draw = draw, !.rank = order,
                                                         !.todo = {u \in Units : draw[u] > 0}])
                /\ Load(s, ofSku)
                /\ UNCHANGED <<now, store>>

(* Stock.Save of the units touched, outside any scope of the use case.     *)
SaveTouched(s) ==
    /\ pc[s] = "draw"
    /\ \E u \in job[s].todo :
          LET unit == Reserve(loaded[s][u], job[s].draw[u])
          IN  /\ IsNext(s, u)
              /\ \/ /\ Save(s, u, unit) /\ GoTo(s, "draw", Without(s, u))
                    /\ UNCHANGED <<now, loaded, outbox, pending>>
                 \/ Conflict(s, u, unit)

(* Reservations.Save of the new reservation, with StockReserved.           *)
CreateReservation(s) ==
    /\ pc[s] = "draw" /\ job[s].todo = {}
    /\ \E r \in {x \in Resvs : Unused(x)} :
          /\ Save(s, r, NewReservation(job[s].sku, job[s].qty, job[s].demand,
                                       job[s].draw, now + Timeout))
          /\ Publish(s, {"StockReserved"}, r)
          /\ GoTo(s, "reply", [job[s] EXCEPT !.res = r])
    /\ UNCHANGED <<now, loaded>>

(* The middleware commits with the response.                               *)
Reply(s) ==
    /\ pc[s] = "reply"
    /\ Forget(s, "ok") /\ Commit(s) /\ UNCHANGED now

ReservationStep(s) ==
    \/ FindByID(s) \/ GetReservations(s) \/ ReserveStock(s) \/ NotDue(s) \/ ExpireIfDue(s)
    \/ Decide(s) \/ LoadUnit(s) \/ SaveUnit(s) \/ LoadBin(s) \/ SaveBin(s)
    \/ SaveReservation(s) \/ AnswerFound(s) \/ FindBySKU(s) \/ SaveTouched(s)
    \/ CreateReservation(s) \/ Reply(s)
=============================================================================
