----------------------------- MODULE Inventory -----------------------------
(***************************************************************************)
(* The inventory service: any number of requests, each at a statement of   *)
(* its use case, over one database and one clock.                          *)
(***************************************************************************)
EXTENDS ReservationUseCases, PlacementUseCases

CONSTANT Crashable      \* sessions whose transaction may be lost

ASSUME CrashAssumption == Crashable \subseteq Sessions

Step(s) ==
    \/ ReservationStep(s)
    \/ PlacementStep(s)
    \/ CommitScope(s)
    \/ DeadlockVictim(s)

Next ==
    \/ \E s \in Sessions : Step(s)
    \/ \E s \in Crashable : Crash(s)
    \/ Tick

Spec == Init /\ [][Next]_vars

(* A request that has been received is worked on until it is answered: its *)
(* goroutine is scheduled, a lock is granted once its holder has gone, and *)
(* Postgres resolves deadlocks.  Nothing makes a client send a request.    *)
Working(s) == pc[s] # "idle" /\ Step(s)
FairSpec == Spec /\ \A s \in Sessions : WF_vars(Working(s))

-----------------------------------------------------------------------------
(* Type invariant: tables, memories and transactions hold rows of their    *)
(* kind.                                                                   *)
TypeOK ==
    /\ now \in Nat
    /\ db \in Tables
    /\ outbox \subseteq Event
    /\ writes  \in [Sessions -> Tables]
    /\ pending \in [Sessions -> SUBSET Event]
    /\ loaded  \in [Sessions -> Tables]
    /\ pc  \in [Sessions -> Steps]
    /\ job \in [Sessions -> Job]

-----------------------------------------------------------------------------
(* Safety *)

Existing(K) == {r \in K : db[r] # Absent}

(* The quantity ACTIVE reservations hold on unit u.                        *)
Held(u) ==
    LET active == {r \in Existing(Resvs) : IsActive(db[r])}
    IN  Amount(active, [r \in active |-> db[r].allocs[u]])

(* The reserved quantity of every unit is exactly what the ACTIVE          *)
(* reservations draw from it: expiry, revocation and picking give back or  *)
(* take each allocation once, whatever the interleaving.                   *)
ReservedIsHeld == \A u \in Existing(Units) : db[u].reserved = Held(u)

(* An ACTIVE reservation never loses what it holds: no other request gives *)
(* the same allocation back, or a second time.                             *)
HoldsBacked == \A u \in Existing(Units) : Held(u) <= db[u].reserved

(* No quantity stays reserved that no ACTIVE reservation holds: a request  *)
(* that fails half-way leaves no draw behind.                              *)
NothingStranded == \A u \in Existing(Units) : db[u].reserved <= Held(u)

(* What is reserved is on hand: a unit is never promised beyond its        *)
(* quantity.                                                               *)
ReservedOnHand == \A u \in Existing(Units) : db[u].reserved <= db[u].quantity

(* A bin's occupied space is the sum of what lies in it, lost or not, and  *)
(* fits its capacity: stows, picks and resizes never lose an update of one *)
(* another.                                                                *)
BinLedger == \A b \in Existing(Bins) :
    LET inside == InBin(db, b)
    IN  /\ db[b].occupied = Amount(inside, [u \in inside |-> db[u].quantity])
        /\ db[b].occupied <= db[b].capacity

(* Incompatible hazard classes never share a bin, although a stow checks   *)
(* the occupants before it writes and holds no lock in between.            *)
Segregated == \A u, v \in Existing(Units) :
    db[u].bin = db[v].bin => <<db[u].sku, db[v].sku>> \notin Conflicts

Terminal == {"ReservationRevoked", "ReservationExpired", "StockPicked"}

(* The outbox tells how each reservation ended, once: nothing while it is  *)
(* ACTIVE, and then exactly the event of its resolution.  A request that   *)
(* was rolled back leaves no event, one that committed loses none.         *)
OutboxMatches == \A r \in Existing(Resvs) :
    LET told == {e \in outbox : e.key = r /\ e.type \in Terminal}
    IN  /\ IsActive(db[r]) => told = {}
        /\ ~IsActive(db[r]) => \E e \in told : told = {e} /\ e.type = EventOf[db[r].status]

(* A reservation is resolved at most once: revoke, confirm and expiry      *)
(* race, and the first to commit is final.                                 *)
ResolvedOnce == [][\A r \in Resvs :
    db[r] # Absent /\ ~IsActive(db[r]) => db'[r] # Absent /\ db'[r].status = db[r].status]_vars

(* Stock a cycle count could not find stays out of usable inventory.       *)
LostStaysLost == [][\A u \in Units :
    db[u] # Absent /\ db[u].state = "UNLOCATED" => Usable(db'[u]) = 0]_vars

(* A bin is created once: of several registrations one reports BinCreated. *)
CreatedOnce == \A s, o \in Sessions : pc[s] = "created" /\ pc[o] = "created" => s = o

-----------------------------------------------------------------------------
(* Refinement *)

OnHand(u)  == IF db[u] = Absent THEN 0 ELSE db[u].quantity
HoldOf(r)  == IF db[r] = Absent THEN Absent
              ELSE [status |-> db[r].status, allocs |-> db[r].allocs]

Ledger == INSTANCE HoldLedger WITH
    None   <- Absent,
    onHand <- [u \in Units |-> OnHand(u)],
    holds  <- [r \in Resvs |-> HoldOf(r)]

(* The committed tables move like the atomic ledger: each commit is one    *)
(* hold, one return, one pick or nothing, and no stock is held twice.      *)
ImplementsLedger == Ledger!LedgerSpec

-----------------------------------------------------------------------------
(* Liveness *)

(* Every request received is answered, deadlocked ones included.           *)
EveryRequestAnswered == \A s \in Sessions : pc[s] # "idle" ~> pc[s] \in Finished
=============================================================================
