----------------------------- MODULE RequestTx -----------------------------
(***************************************************************************)
(* Requests over the Postgres tables of the inventory service.             *)
(*                                                                         *)
(* A session serves one request.  It keeps in memory the aggregates it has *)
(* loaded and works through the statements of a use case; what a statement *)
(* writes stays invisible to the others until the transaction around it    *)
(* commits, and keeps its row locked until then.  How far a transaction    *)
(* reaches depends on where the request came from:                         *)
(*                                                                         *)
(*   "own"     the use case opens it around its writes (UnitOfWork.Execute) *)
(*             and rolls it back when they fail;                            *)
(*   "joined"  RequireIdempotencyKey opened it before the handler ran, the  *)
(*             use case joins it, and the middleware commits it with every  *)
(*             response, an error response included;                        *)
(*   "none"    no unit of work is wired (cmd/mcp): each statement commits   *)
(*             on its own.                                                  *)
(*                                                                         *)
(* Every Save is guarded by the row's version.  Transactions run at READ    *)
(* COMMITTED: a statement sees what is committed when it runs and what its  *)
(* own transaction has written.                                             *)
(***************************************************************************)
EXTENDS StockDomain

CONSTANTS
    Sessions,   \* requests, each served once
    OpsOf,      \* the operations a session may be asked for
    Databases,  \* the table contents the service may start from
    ById,       \* the order of stock unit ids (ORDER BY stock_unit_id)
    Horizon     \* bound on the clock

VARIABLES
    now,        \* the clock
    db,         \* committed rows
    outbox,     \* committed outbox rows
    writes,     \* per session, rows written by its open transaction
    pending,    \* per session, outbox rows inserted by its open transaction
    loaded,     \* per session, the aggregates in memory, as loaded
    pc,         \* per session, the next statement
    job         \* per session, the request and what is left of it

store == <<db, outbox, writes, pending>>
vars  == <<now, store, loaded, pc, job>>

Ops == {"reserve", "revoke", "mcp_revoke", "confirm", "get", "stow", "register", "count"}
EventType == {"StockReserved", "ReservationRevoked", "ReservationExpired",
              "StockPicked", "ItemStowed", "LocationRecorded", "ItemUnlocated",
              "DiscrepancyDetected", "CycleCountCompleted"}
Event == [type: EventType, key: Rows, by: Sessions]

(* Statements that run inside the unit of work a use case opens itself.    *)
ScopeSteps == {"load", "save", "bin", "savebin", "commit", "putbin", "putunit",
               "setbin", "mark"}
Finished == {"ok", "created", "err"}
Steps == ScopeSteps \cup Finished \cup {"idle", "due", "place", "draw", "reply"}

Job == [op: Ops \cup {"none"}, sku: Skus \cup {Absent}, qty: Nat,
        demand: Demands \cup {Absent}, bin: Bins \cup {Absent},
        queue: SUBSET Resvs, res: Resvs \cup {Absent}, act: Status,
        todo: SUBSET Units, rank: [Units -> Nat], draw: [Units -> Nat]]

NoRows == [r \in Rows |-> Absent]
NoJob  == [op |-> "none", sku |-> Absent, qty |-> 0, demand |-> Absent,
           bin |-> Absent, queue |-> {}, res |-> Absent, act |-> "ACTIVE",
           todo |-> {}, rank |-> [u \in Units |-> 0], draw |-> [u \in Units |-> 0]]

TypedRow(r, a) ==
    \/ a = Absent
    \/ r \in Units /\ a \in StockUnit
    \/ r \in Bins  /\ a \in Bin
    \/ r \in Resvs /\ a \in Reservation

Tables == {t \in [Rows -> StockUnit \cup Bin \cup Reservation \cup {Absent}] :
               \A r \in Rows : TypedRow(r, t[r])}

-----------------------------------------------------------------------------
(* Transactions *)

Scope(op) == CASE op = "reserve"    -> "joined"
               [] op = "mcp_revoke" -> "none"
               [] OTHER             -> "own"

InTx(s) == \/ Scope(job[s].op) = "joined"
           \/ Scope(job[s].op) = "own" /\ pc[s] \in ScopeSteps

Visible(s, r) == IF writes[s][r] # Absent THEN writes[s][r] ELSE db[r]

(* Another open transaction has written the row: a write of it waits.      *)
Locked(s, r) == \E o \in Sessions \ {s} : writes[o][r] # Absent

Unused(r) == db[r] = Absent /\ \A s \in Sessions : writes[s][r] = Absent

GoTo(s, step, j) ==
    /\ pc'  = [pc EXCEPT ![s] = step]
    /\ job' = [job EXCEPT ![s] = j]

(* The response is sent and the request's memory is gone.                  *)
Forget(s, answer) ==
    /\ GoTo(s, answer, NoJob)
    /\ loaded' = [loaded EXCEPT ![s] = NoRows]

CloseTx(s) ==
    /\ writes'  = [writes EXCEPT ![s] = NoRows]
    /\ pending' = [pending EXCEPT ![s] = {}]

Commit(s) ==
    /\ db' = [r \in Rows |-> Visible(s, r)]
    /\ outbox' = outbox \cup pending[s]
    /\ CloseTx(s)

(* Mutant: the scope keeps what was written before it failed.              *)
RollbackNothing(s) == Commit(s)

(* Mutant: the transaction of a failed scope is never ended.               *)
RollbackForgotten(s) == UNCHANGED store

Rollback(s) == CloseTx(s) /\ UNCHANGED <<db, outbox>>

(* An error response.  The unit of work of a use case rolls back; the      *)
(* idempotency middleware caches the error and commits.                    *)
Fail(s) ==
    /\ Forget(s, "err")
    /\ IF Scope(job[s].op) = "joined" THEN Commit(s) ELSE Rollback(s)
    /\ UNCHANGED now

-----------------------------------------------------------------------------
(* Statements *)

Load(s, R) ==
    loaded' = [loaded EXCEPT ![s] =
                 [r \in Rows |-> IF r \in R THEN Visible(s, r) ELSE loaded[s][r]]]

(* Mutant: an upsert without the version guard.                            *)
HitAlways(s, r, a) == TRUE

(* INSERT ... ON CONFLICT (id) DO UPDATE ... WHERE version = <loaded>      *)
Hit(s, r, a) == Visible(s, r) # Absent => Visible(s, r).version = a.version

(* Mutant: the upsert leaves the version alone.                            *)
StoredSameVersion(s, r, a) == a

Stored(s, r, a) ==
    IF Visible(s, r) = Absent THEN a ELSE [a EXCEPT !.version = @ + 1]

Save(s, r, a) ==
    /\ ~Locked(s, r) /\ Hit(s, r, a)
    /\ IF InTx(s)
       THEN writes' = [writes EXCEPT ![s][r] = Stored(s, r, a)] /\ UNCHANGED db
       ELSE db' = [db EXCEPT ![r] = Stored(s, r, a)] /\ UNCHANGED writes

(* The version moved on: ErrConcurrentModification.                        *)
Conflict(s, r, a) == ~Locked(s, r) /\ ~Hit(s, r, a) /\ Fail(s)

(* Mutant: the event is published while the transaction is still open.     *)
PublishAtOnce(s, types, key) ==
    /\ outbox' = outbox \cup {[type |-> t, key |-> key, by |-> s] : t \in types}
    /\ UNCHANGED pending

(* Outbox rows share the transaction; without one the publisher only logs. *)
Publish(s, types, key) ==
    /\ pending' = IF InTx(s)
                  THEN [pending EXCEPT ![s] = @ \cup
                           {[type |-> t, key |-> key, by |-> s] : t \in types}]
                  ELSE pending
    /\ UNCHANGED outbox

(* The orders in which a query without ORDER BY may return the units.      *)
Orders == {f \in [Units -> 1 .. Cardinality(Units)] :
              \A u, v \in Units : u # v => f[u] # f[v]}

(* u is the next of the units the request still has to write.              *)
IsNext(s, u) ==
    /\ u \in job[s].todo
    /\ \A v \in job[s].todo : job[s].rank[u] <= job[s].rank[v]

(* What is left once u has been written.                                   *)
Without(s, u) == [job[s] EXCEPT !.todo = @ \ {u}]

(* The use case is done: its own unit of work commits.  A nested scope     *)
(* commits nothing, and without one every statement has committed already. *)
CommitScope(s) ==
    /\ pc[s] = "commit"
    /\ IF Scope(job[s].op) = "own" THEN Commit(s) ELSE UNCHANGED store
    /\ IF job[s].act = "EXPIRED"
       THEN GoTo(s, "due", job[s]) /\ UNCHANGED loaded
       ELSE Forget(s, IF job[s].op = "register" /\ loaded[s][job[s].bin] = Absent
                      THEN "created" ELSE "ok")
    /\ UNCHANGED now

-----------------------------------------------------------------------------
(* Failures outside the use case's control *)

(* The connection is lost, the process dies or the client goes away: the   *)
(* open transaction is rolled back, statements already committed stay.     *)
Crash(s) ==
    /\ pc[s] \notin Finished \cup {"idle"}
    /\ Forget(s, "err") /\ Rollback(s) /\ UNCHANGED now

(* The rows a session is about to write.                                   *)
Wanted(s) ==
    CASE pc[s] \in {"save", "draw", "mark"}      -> {u \in Units : IsNext(s, u)}
      [] pc[s] = "savebin"                       -> {loaded[s][u].bin : u \in {v \in Units : IsNext(s, v)}}
      [] pc[s] \in {"putbin", "setbin"}          -> {job[s].bin}
      [] pc[s] = "load" /\ job[s].todo = {}      -> {job[s].res}
      [] OTHER                                   -> {}

WaitsFor(s, o) == s # o /\ \E r \in Wanted(s) : writes[o][r] # Absent

(* s waits, directly or not, for itself; Postgres aborts its transaction   *)
(* to let the others through.                                              *)
InDeadlock(s) ==
    \E C \in SUBSET Sessions :
        /\ s \in C
        /\ \A a \in C : (\E b \in C : WaitsFor(a, b)) /\ (\E b \in C : WaitsFor(b, a))

DeadlockVictim(s) ==
    /\ InDeadlock(s)
    /\ Forget(s, "err") /\ Rollback(s) /\ UNCHANGED now

Tick == now < Horizon /\ now' = now + 1 /\ UNCHANGED <<store, loaded, pc, job>>

Init ==
    /\ now = 0
    /\ db \in Databases
    /\ outbox = {}
    /\ writes  = [s \in Sessions |-> NoRows]
    /\ pending = [s \in Sessions |-> {}]
    /\ loaded  = [s \in Sessions |-> NoRows]
    /\ pc  = [s \in Sessions |-> "idle"]
    /\ job = [s \in Sessions |-> NoJob]

ASSUME SessionsAssumption ==
    /\ OpsOf \in [Sessions -> SUBSET Ops]
    /\ Databases \subseteq Tables
    /\ ById \in [Units -> Nat]
    /\ \A u, v \in Units : u # v => ById[u] # ById[v]
    /\ Horizon \in Nat
=============================================================================
