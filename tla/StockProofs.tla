---------------------------- MODULE StockProofs ----------------------------
(***************************************************************************)
(* Proofs about what the tables of Inventory mean: what is reserved is on  *)
(* hand, the outbox tells how each reservation ended, hazard classes stay  *)
(* apart and bins balance, for any sessions, rows and entry points.        *)
(***************************************************************************)
EXTENDS StockInvariant, InventoryProofs

-----------------------------------------------------------------------------
(* The steps of a request, by what they do to the tables.                  *)

(* Rows are read, or forgotten.                                            *)
ReadsOnly(s) ==
    /\ UNCHANGED <<db, writes, outbox>>
    /\ \A q \in Rows : loaded'[s][q] \in {Absent, loaded[s][q], Visible(s, q)}

(* The transaction is over, and the request or one of its scopes with it.  *)
Ends(s) ==
    /\ Commit(s) \/ Rollback(s)
    /\ loaded' = loaded \/ loaded' = [loaded EXCEPT ![s] = NoRows]
    /\ pc'[s] \in Finished \cup {"due"}

(* A row is written, from the copy in memory if there is one.              *)
Puts(s, r, a) ==
    /\ r \in Rows /\ TypedRow(r, a) /\ a # Absent
    /\ Save(s, r, a)
    /\ Has(s, r) => a.version = loaded[s][r].version

PicksUnit(s, u) ==
    /\ pc[s] = "save" /\ Picking(s) /\ IsNext(s, u)
    /\ u \in Units /\ loaded[s][u] \in StockUnit /\ Share(s, u) \in Nat
    /\ CanPick(loaded[s][u], Share(s, u))
    /\ Puts(s, u, Pick(loaded[s][u], Share(s, u)))
    /\ pc'[s] = "bin" /\ job'[s] = job[s]
    /\ UNCHANGED <<loaded, outbox, pending>>

ReleasesUnit(s, u) ==
    /\ pc[s] = "save" /\ ~Picking(s) /\ IsNext(s, u)
    /\ u \in Units /\ loaded[s][u] \in StockUnit /\ Share(s, u) \in Nat
    /\ CanRelease(loaded[s][u], Share(s, u))
    /\ Puts(s, u, ReleaseReservation(loaded[s][u], Share(s, u)))
    /\ pc'[s] = "load" /\ job'[s] = Without(s, u)
    /\ UNCHANGED <<loaded, outbox, pending>>

ReleasesBin(s, u, b) ==
    /\ pc[s] = "savebin" /\ IsNext(s, u) /\ b = loaded[s][u].bin
    /\ u \in Units /\ loaded[s][u] \in StockUnit /\ Share(s, u) \in Nat
    /\ b \in Bins /\ loaded[s][b] \in Bin
    /\ CanReleaseBin(loaded[s][b], Share(s, u))
    /\ Puts(s, b, ReleaseBin(loaded[s][b], Share(s, u)))
    /\ pc'[s] = "load" /\ job'[s] = Without(s, u)
    /\ UNCHANGED <<loaded, outbox, pending>>

DrawsUnit(s, u) ==
    /\ pc[s] = "draw" /\ u \in job[s].todo /\ u \in Units /\ loaded[s][u] \in StockUnit
    /\ job[s].draw[u] \in Nat
    /\ Puts(s, u, Reserve(loaded[s][u], job[s].draw[u]))
    /\ pc'[s] = "draw" /\ job'[s] = Without(s, u)
    /\ UNCHANGED <<loaded, outbox, pending>>

MarksUnit(s, u) ==
    /\ pc[s] = "mark" /\ u \in job[s].todo /\ u \in Units /\ loaded[s][u] \in StockUnit
    /\ Puts(s, u, MarkUnlocated(loaded[s][u]))
    /\ Publish(s, {"ItemUnlocated"}, u)
    /\ pc'[s] = "mark" /\ job'[s] = Without(s, u)
    /\ loaded' = loaded

Resolved(s, r, res) ==
    /\ pc[s] = "load" /\ job[s].todo = {} /\ r = job[s].res /\ r \in Resvs
    /\ loaded[s][r] \in Reservation /\ res = ResolveAs(loaded[s][r], job[s].act)
    /\ Puts(s, r, res)
    /\ Publish(s, {EventOf[job[s].act]}, r)
    /\ pc'[s] = "commit" /\ job'[s] = job[s]
    /\ loaded' = [loaded EXCEPT ![s][r] = res]

Created(s, r, res) ==
    /\ pc[s] = "draw" /\ job[s].todo = {} /\ r \in Resvs /\ Unused(r)
    /\ res = NewReservation(job[s].sku, job[s].qty, job[s].demand, job[s].draw, now + Timeout)
    /\ Puts(s, r, res)
    /\ Publish(s, {"StockReserved"}, r)
    /\ pc'[s] = "reply" /\ job'[s] = [job[s] EXCEPT !.res = r] /\ loaded' = loaded

OccupiesBin(s, b) ==
    /\ pc[s] = "putbin" /\ b = job[s].bin /\ b \in Bins /\ loaded[s][b] \in Bin /\ job[s].qty \in Nat
    /\ Puts(s, b, Occupy(loaded[s][b], job[s].qty))
    /\ pc'[s] = "putunit" /\ job'[s] = job[s]
    /\ UNCHANGED <<loaded, outbox, pending>>

StowsUnit(s, u, unit) ==
    /\ pc[s] = "putunit" /\ u \in Units /\ Unused(u)
    /\ job[s].bin \in Bins /\ job[s].sku \in Skus /\ job[s].qty \in Nat
    /\ unit = NewStockUnit(job[s].sku, job[s].bin, job[s].qty)
    /\ Puts(s, u, unit)
    /\ Publish(s, {"ItemStowed", "LocationRecorded"}, u)
    /\ pc'[s] = "commit" /\ job'[s] = job[s] /\ loaded' = loaded

SetsBin(s, b, bin) ==
    /\ pc[s] = "setbin" /\ b = job[s].bin /\ b \in Bins /\ job[s].qty \in Nat
    /\ \/ loaded[s][b] = Absent /\ bin = NewBin(job[s].qty)
       \/ loaded[s][b] \in Bin /\ bin = Resize(loaded[s][b], job[s].qty)
    /\ Puts(s, b, bin)
    /\ pc'[s] = "commit" /\ job'[s] = job[s]
    /\ UNCHANGED <<loaded, outbox, pending>>

(* The reads that lead to a statement that writes.                         *)
Turns(s) ==
    \/ pc'[s] \in Finished \cup {"due", "place", "mark", "commit"} /\ pending' = pending
    \/ CountDone(s) /\ pc'[s] = "commit"
    \/ /\ pc[s] = "due" /\ pc'[s] = "load" /\ pending' = pending
       /\ \E r \in Resvs, act \in Status \ {"ACTIVE"} :
             Resolving(s, r, act) /\ (act = "CONFIRMED" => job[s].op = "confirm")
    \/ LoadUnit(s) /\ pc'[s] = "save" /\ job'[s] = job[s] /\ pending' = pending
    \/ LoadBin(s) /\ pc'[s] = "savebin" /\ job'[s] = job[s] /\ pending' = pending
    \/ FindBySKU(s) /\ pc'[s] = "draw" /\ pending' = pending
    \/ CheckSegregation(s) /\ pc'[s] = "putbin" /\ job'[s] = job[s] /\ pending' = pending
    \/ RegisterBin(s) /\ pc'[s] = "setbin" /\ pending' = pending

Shape(s) ==
    \/ ReadsOnly(s) /\ Turns(s)
    \/ Ends(s)
    \/ \E u \in Units : PicksUnit(s, u) \/ ReleasesUnit(s, u) \/ DrawsUnit(s, u) \/ MarksUnit(s, u)
    \/ \E u \in Units, b \in Bins : ReleasesBin(s, u, b)
    \/ \E r \in Resvs : \E res : Resolved(s, r, res) \/ Created(s, r, res)
    \/ \E b \in Bins : OccupiesBin(s, b)
    \/ \E u \in Units : \E unit : StowsUnit(s, u, unit)
    \/ \E b \in Bins : \E bin : SetsBin(s, b, bin)

(* A session moves to a statement with what it carries.                    *)
LEMMA Moved ==
    ASSUME TypeOK, NEW s \in Sessions, NEW step, NEW j, GoTo(s, step, j)
    PROVE  /\ pc'[s] = step /\ job'[s] = j
           /\ \A o \in Sessions \ {s} : pc'[o] = pc[o] /\ job'[o] = job[o]
BY DEF GoTo, TypeOK

(* An answer ends the request.                                             *)
LEMMA Forgotten ==
    ASSUME TypeOK, NEW s \in Sessions, NEW answer, Forget(s, answer)
    PROVE  /\ pc'[s] = answer /\ job'[s] = NoJob
           /\ loaded' = [loaded EXCEPT ![s] = NoRows] /\ loaded'[s] = NoRows
BY Moved DEF Forget, TypeOK

(* An error ends the transaction.                                          *)
LEMMA FailEnds ==
    ASSUME TypeOK, NEW s \in Sessions, Fail(s)
    PROVE  Ends(s) /\ pc'[s] = "err" /\ job'[s] = NoJob
<1>1. Forget(s, "err") /\ (Commit(s) \/ Rollback(s))
  BY DEF Fail
<1> QED BY <1>1, Forgotten DEF Ends, Finished

(* So does a Save that comes too late.                                     *)
LEMMA ConflictEnds ==
    ASSUME TypeOK, NEW s \in Sessions, NEW r, NEW a, Conflict(s, r, a)
    PROVE  Ends(s)
BY FailEnds DEF Conflict

(* Rows that are read are what the session sees.                           *)
LEMMA ReadingReads ==
    ASSUME TypeOK, NEW s \in Sessions, UNCHANGED <<db, writes, outbox>>,
           \/ loaded' = loaded
           \/ \E answer : Forget(s, answer)
           \/ \E R \in SUBSET Rows : Load(s, R)
    PROVE  ReadsOnly(s)
<1>1. CASE loaded' = loaded
  BY <1>1 DEF ReadsOnly
<1>2. CASE \E answer : Forget(s, answer)
  BY <1>2, Forgotten DEF ReadsOnly, NoRows
<1>3. CASE \E R \in SUBSET Rows : Load(s, R)
  BY <1>3, LoadReads DEF ReadsOnly
<1> QED BY <1>1, <1>2, <1>3

(* The methods of the aggregates do not touch the version.                 *)
LEMMA UnitVersions ==
    ASSUME NEW unit \in StockUnit, NEW n
    PROVE  /\ Pick(unit, n).version = unit.version /\ ReleaseReservation(unit, n).version = unit.version
           /\ Reserve(unit, n).version = unit.version /\ MarkUnlocated(unit).version = unit.version
BY DEF StockUnit, Pick, ReleaseReservation, Reserve, MarkUnlocated

(* The lookups at the start of a request, and what they may lead to.       *)
LEMMA LookupShape ==
    ASSUME IInv, NEW s \in Sessions,
           FindByID(s) \/ GetReservations(s) \/ ReserveStock(s) \/ StowStock(s) \/ RunCycleCount(s)
    PROVE  ReadsOnly(s) /\ Turns(s)
<1>1. TypeOK
  BY DEF IInv
<1>2. CASE FindByID(s)
  <2>1. UNCHANGED <<db, writes, outbox, pending>>
    BY <1>2 DEF FindByID, store
  <2>2. PICK r \in Resvs : \/ Forget(s, "err")
                           \/ Load(s, {r}) /\ \E j : GoTo(s, "due", j)
    BY <1>2 DEF FindByID
  <2>3. {r} \in SUBSET Rows
    BY DEF Rows
  <2>4. ReadsOnly(s)
    BY <1>1, <2>1, <2>2, <2>3, ReadingReads
  <2>5. pc'[s] \in Finished \cup {"due", "place", "mark", "commit"}
    BY <1>1, <2>2, Moved, Forgotten DEF Finished
  <2> QED BY <2>1, <2>4, <2>5 DEF Turns
<1>3. CASE GetReservations(s) \/ ReserveStock(s)
  <2>1. PICK j : LookUpDemand(s, j)
    BY <1>3 DEF GetReservations, ReserveStock
  <2>2. PICK found, k : /\ found \in SUBSET Rows /\ Load(s, found) /\ GoTo(s, "due", k)
                       /\ UNCHANGED <<db, writes, outbox, pending>>
    BY <2>1 DEF LookUpDemand, store, Rows
  <2>3. ReadsOnly(s)
    BY <1>1, <2>2, ReadingReads
  <2>4. pc'[s] = "due"
    BY <1>1, <2>2, Moved
  <2> QED BY <2>2, <2>3, <2>4 DEF Turns
<1>4. CASE StowStock(s)
  <2>1. UNCHANGED <<db, writes, outbox, pending>>
    BY <1>4 DEF StowStock, store
  <2>2. PICK b \in Bins : \/ Forget(s, "err")
                          \/ Load(s, {b}) /\ \E j : GoTo(s, "place", j)
    BY <1>4 DEF StowStock
  <2>3. {b} \in SUBSET Rows
    BY DEF Rows
  <2>4. ReadsOnly(s)
    BY <1>1, <2>1, <2>2, <2>3, ReadingReads
  <2>5. pc'[s] \in Finished \cup {"due", "place", "mark", "commit"}
    BY <1>1, <2>2, Moved, Forgotten DEF Finished
  <2> QED BY <2>1, <2>4, <2>5 DEF Turns
<1>5. CASE RunCycleCount(s)
  <2>1. UNCHANGED <<db, writes, outbox, pending>>
    BY <1>5 DEF RunCycleCount, store
  <2>2. PICK R \in SUBSET Rows : Load(s, R) /\ \E j : GoTo(s, "mark", j)
    <3>1. PICK b \in Bins : Load(s, LocatableIn(db, b)) /\ \E j : GoTo(s, "mark", j)
      BY <1>5 DEF RunCycleCount
    <3>2. LocatableIn(db, b) \in SUBSET Rows
      BY DEF LocatableIn, InBin, Rows
    <3> QED BY <3>1, <3>2
  <2>3. ReadsOnly(s)
    BY <1>1, <2>1, <2>2, ReadingReads
  <2>4. pc'[s] = "mark"
    BY <1>1, <2>2, Moved
  <2> QED BY <2>1, <2>3, <2>4 DEF Turns
<1> QED BY <1>2, <1>3, <1>4, <1>5

(* The statements that decide what is written next.                        *)
LEMMA DecisionShape ==
    ASSUME IInv, NEW s \in Sessions,
           \/ NotDue(s) \/ ExpireIfDue(s) \/ Decide(s) \/ LoadUnit(s) \/ LoadBin(s)
           \/ FindBySKU(s) \/ CheckSegregation(s) \/ RegisterBin(s)
    PROVE  (ReadsOnly(s) /\ Turns(s)) \/ Ends(s)
<1>1. TypeOK
  BY DEF IInv
<1>2. CASE NotDue(s)
  <2>1. UNCHANGED <<db, writes, outbox, pending, loaded>> /\ \E j : GoTo(s, "due", j)
    BY <1>2 DEF NotDue, store
  <2> QED BY <1>1, <2>1, ReadingReads, Moved DEF Turns
<1>3. ASSUME pc[s] = "due", NEW r \in Resvs, NEW act \in Status \ {"ACTIVE"}, Resolving(s, r, act),
             act = "CONFIRMED" => job[s].op = "confirm", UNCHANGED <<store, loaded>>
      PROVE  ReadsOnly(s) /\ Turns(s)
  <2>1. UNCHANGED <<db, writes, outbox, pending, loaded>> /\ \E j : GoTo(s, "load", j)
    BY <1>3 DEF Resolving, store
  <2>2. pc'[s] = "load"
    BY <1>1, <2>1, Moved
  <2> QED BY <1>1, <1>3, <2>1, <2>2, ReadingReads DEF Turns
<1>4. CASE ExpireIfDue(s)
  <2>1. pc[s] = "due" /\ UNCHANGED <<store, loaded>> /\ \E r \in job[s].queue : Resolving(s, r, "EXPIRED")
    BY <1>4 DEF ExpireIfDue
  <2>2. job[s].queue \subseteq Resvs /\ "EXPIRED" \in Status \ {"ACTIVE"}
    BY <1>1 DEF TypeOK, Job, Status
  <2> QED BY <1>3, <2>1, <2>2
<1>5. CASE Decide(s)
  <2>1. pc[s] = "due" /\ job[s].op \in DOMAIN Resolution
    BY <1>5 DEF Decide
  <2>2. \/ Resolving(s, job[s].res, Resolution[job[s].op]) /\ UNCHANGED <<store, loaded>>
        \/ Fail(s)
    BY <1>5 DEF Decide
  <2>3. job[s].res \in Resvs
    BY <2>1 DEF IInv, Control, LookedUp
  <2>4. /\ Resolution[job[s].op] \in Status \ {"ACTIVE"}
        /\ Resolution[job[s].op] = "CONFIRMED" => job[s].op = "confirm"
    BY <2>1 DEF Resolution, Status
  <2> QED BY <1>1, <1>3, <2>1, <2>2, <2>3, <2>4, FailEnds
<1>6. CASE LoadUnit(s)
  <2>1. pc[s] = "load" /\ "load" \in Resolves
    BY <1>6 DEF LoadUnit, Resolves
  <2>2. PICK u \in job[s].todo : \/ Load(s, {u}) /\ GoTo(s, "save", job[s]) /\ UNCHANGED <<db, writes, outbox, pending>>
                                 \/ Fail(s)
    BY <1>6 DEF LoadUnit, store
  <2>3. {u} \in SUBSET Rows
    BY <1>1 DEF TypeOK, Job, Rows
  <2>4. ASSUME Load(s, {u}), GoTo(s, "save", job[s]), UNCHANGED <<db, writes, outbox, pending>>
        PROVE  ReadsOnly(s) /\ Turns(s)
    <3>1. ReadsOnly(s)
      BY <1>1, <2>3, <2>4, ReadingReads
    <3>2. pc'[s] = "save" /\ job'[s] = job[s]
      BY <1>1, <2>4, Moved
    <3> QED BY <1>6, <2>4, <3>1, <3>2 DEF Turns
  <2> QED BY <1>1, <2>2, <2>4, FailEnds
<1>7. CASE LoadBin(s)
  <2>1. PICK u \in job[s].todo : \/ /\ Load(s, {loaded[s][u].bin}) /\ GoTo(s, "savebin", job[s])
                                    /\ UNCHANGED <<db, writes, outbox, pending>> /\ IsNext(s, u)
                                 \/ Fail(s)
    BY <1>7 DEF LoadBin, store
  <2>2. ASSUME Load(s, {loaded[s][u].bin}), GoTo(s, "savebin", job[s]), UNCHANGED <<db, writes, outbox, pending>>,
               IsNext(s, u)
        PROVE  ReadsOnly(s) /\ Turns(s)
    <3>1. pc[s] = "bin"
      BY <1>7 DEF LoadBin
    <3>2. Has(s, u) /\ u \in Units
      BY <1>1, <2>2, <3>1 DEF IInv, Control, NextInHand, TypeOK, Job
    <3>3. loaded[s][u] \in StockUnit
      BY <1>1, <3>2, RowKinds DEF Has, TypeOK
    <3>4. {loaded[s][u].bin} \in SUBSET Rows
      BY <3>3 DEF StockUnit, Rows
    <3>5. ReadsOnly(s)
      BY <1>1, <2>2, <3>4, ReadingReads
    <3>6. pc'[s] = "savebin" /\ job'[s] = job[s]
      BY <1>1, <2>2, Moved
    <3> QED BY <1>7, <2>2, <3>5, <3>6 DEF Turns
  <2> QED BY <1>1, <2>1, <2>2, FailEnds
<1>8. CASE FindBySKU(s)
  <2>1. \/ /\ \E R \in SUBSET Rows : Load(s, R)
           /\ \E j : GoTo(s, "draw", j)
           /\ UNCHANGED <<db, writes, outbox, pending>>
        \/ Fail(s)
    <3>1. {u \in Units : Visible(s, u) # Absent /\ Visible(s, u).sku = job[s].sku} \in SUBSET Rows
      BY DEF Rows
    <3> QED BY <1>8, <3>1 DEF FindBySKU, store
  <2>2. CASE Fail(s)
    BY <1>1, <2>2, FailEnds
  <2>3. CASE /\ \E R \in SUBSET Rows : Load(s, R)
             /\ \E j : GoTo(s, "draw", j)
             /\ UNCHANGED <<db, writes, outbox, pending>>
    <3>1. ReadsOnly(s) /\ pc'[s] = "draw"
      BY <1>1, <2>3, ReadingReads, Moved
    <3> QED BY <1>8, <2>3, <3>1 DEF Turns
  <2> QED BY <2>1, <2>2, <2>3
<1>9. CASE CheckSegregation(s)
  <2>1. \/ GoTo(s, "putbin", job[s]) /\ UNCHANGED <<db, writes, outbox, pending, loaded>>
        \/ Fail(s)
    BY <1>9 DEF CheckSegregation, store
  <2>2. ASSUME GoTo(s, "putbin", job[s]), UNCHANGED <<db, writes, outbox, pending, loaded>>
        PROVE  ReadsOnly(s) /\ Turns(s)
    <3>1. ReadsOnly(s) /\ pc'[s] = "putbin" /\ job'[s] = job[s]
      BY <1>1, <2>2, ReadingReads, Moved
    <3> QED BY <1>9, <2>2, <3>1 DEF Turns
  <2> QED BY <1>1, <2>1, <2>2, FailEnds
<1>10. CASE RegisterBin(s)
  <2>1. UNCHANGED <<db, writes, outbox, pending>>
    BY <1>10 DEF RegisterBin, store
  <2>2. PICK b \in Bins : \/ Forget(s, "ok") \/ Forget(s, "err")
                          \/ Load(s, {b}) /\ \E j : GoTo(s, "setbin", j)
    BY <1>10 DEF RegisterBin
  <2>3. {b} \in SUBSET Rows
    BY DEF Rows
  <2>4. ReadsOnly(s)
    BY <1>1, <2>1, <2>2, <2>3, ReadingReads
  <2>5. pc'[s] \in Finished \cup {"setbin"}
    BY <1>1, <2>2, Moved, Forgotten DEF Finished
  <2> QED BY <1>10, <2>1, <2>4, <2>5 DEF Turns
<1> QED BY <1>2, <1>4, <1>5, <1>6, <1>7, <1>8, <1>9, <1>10

(* The ends of requests and of their scopes.                               *)
LEMMA EndShape ==
    ASSUME IInv, NEW s \in Sessions,
           AnswerFound(s) \/ Reply(s) \/ RefusePlacement(s) \/ CountDone(s) \/ CommitScope(s) \/ DeadlockVictim(s)
    PROVE  (ReadsOnly(s) /\ Turns(s)) \/ Ends(s)
<1>1. TypeOK
  BY DEF IInv
<1>2. ASSUME NEW answer \in Finished, Forget(s, answer), Commit(s) \/ Rollback(s) PROVE Ends(s)
  BY <1>1, <1>2, Forgotten DEF Ends
<1>3. CASE AnswerFound(s) \/ Reply(s) \/ DeadlockVictim(s)
  BY <1>2, <1>3 DEF AnswerFound, Reply, DeadlockVictim, Finished
<1>4. CASE RefusePlacement(s)
  BY <1>1, <1>4, FailEnds DEF RefusePlacement
<1>5. CASE CountDone(s)
  <2>1. UNCHANGED <<db, writes, outbox, loaded>> /\ GoTo(s, "commit", job[s])
    BY <1>5 DEF CountDone, Publish
  <2> QED BY <1>1, <1>5, <2>1, ReadingReads, Moved DEF Turns
<1>6. CASE CommitScope(s)
  <2>1. \/ GoTo(s, "due", job[s]) /\ loaded' = loaded
        \/ \E answer \in Finished : Forget(s, answer)
    BY <1>6 DEF CommitScope, Finished
  <2>2. pc'[s] \in Finished \cup {"due"}
    BY <1>1, <2>1, Moved, Forgotten
  <2>3. CASE Scope(job[s].op) = "own"
    BY <1>1, <1>6, <2>1, <2>2, <2>3, Forgotten DEF CommitScope, Ends
  <2>4. CASE Scope(job[s].op) # "own"
    <3>1. UNCHANGED <<db, writes, outbox, pending>>
      BY <1>6, <2>4 DEF CommitScope, store
    <3> QED BY <1>1, <2>1, <2>2, <3>1, ReadingReads DEF Turns
  <2> QED BY <2>3, <2>4
<1> QED BY <1>3, <1>4, <1>5, <1>6

(* The Saves of a resolution.                                              *)
LEMMA SaveUnitShape ==
    ASSUME IInv, NEW s \in Sessions, SaveUnit(s)
    PROVE  Ends(s) \/ \E u \in Units : PicksUnit(s, u) \/ ReleasesUnit(s, u)
<1> PICK u \in job[s].todo :
       LET unit == IF Picking(s) THEN Pick(loaded[s][u], Share(s, u))
                                 ELSE ReleaseReservation(loaded[s][u], Share(s, u))
       IN  /\ IsNext(s, u)
           /\ \/ /\ Save(s, u, unit)
                 /\ IF Picking(s) THEN GoTo(s, "bin", job[s])
                                  ELSE GoTo(s, "load", Without(s, u))
                 /\ UNCHANGED <<now, loaded, outbox, pending>>
              \/ Conflict(s, u, unit)
  BY DEF SaveUnit
<1>1. pc[s] = "save" /\ pc[s] \in Resolves
  BY DEF SaveUnit, Resolves
<1>2. /\ TypeOK /\ job[s] \in Job /\ u \in Units /\ u \in Rows /\ loaded[s] \in Tables
      /\ Share(s, u) \in Nat
  BY <1>1, ResolutionFacts DEF Rows
<1>3. NextInHand(s) /\ UnitAllows(s)
  BY <1>1 DEF IInv, Control
<1>4. loaded[s][u] \in StockUnit
  BY <1>2, <1>3, RowKinds DEF NextInHand, Has
<1>5. CASE Picking(s) /\ Save(s, u, Pick(loaded[s][u], Share(s, u))) /\ GoTo(s, "bin", job[s])
           /\ UNCHANGED <<now, loaded, outbox, pending>>
  <2>1. CanPick(loaded[s][u], Share(s, u))
    BY <1>3, <1>5 DEF UnitAllows
  <2>2. Pick(loaded[s][u], Share(s, u)) \in StockUnit
    BY <1>2, <1>4, <2>1, UnitRows
  <2>3. Puts(s, u, Pick(loaded[s][u], Share(s, u)))
    BY <1>2, <1>4, <1>5, <2>2, NotAbsent, UnitVersions DEF Puts, TypedRow
  <2>4. pc'[s] = "bin" /\ job'[s] = job[s]
    BY <1>2, <1>5, Moved
  <2>5. PicksUnit(s, u)
    BY <1>1, <1>2, <1>4, <1>5, <2>1, <2>3, <2>4 DEF PicksUnit
  <2> QED BY <1>2, <2>5
<1>6. CASE ~Picking(s) /\ Save(s, u, ReleaseReservation(loaded[s][u], Share(s, u))) /\ GoTo(s, "load", Without(s, u))
           /\ UNCHANGED <<now, loaded, outbox, pending>>
  <2>1. CanRelease(loaded[s][u], Share(s, u))
    BY <1>3, <1>6 DEF UnitAllows
  <2>2. ReleaseReservation(loaded[s][u], Share(s, u)) \in StockUnit
    BY <1>2, <1>4, <2>1, UnitRows
  <2>3. Puts(s, u, ReleaseReservation(loaded[s][u], Share(s, u)))
    BY <1>2, <1>4, <1>6, <2>2, NotAbsent, UnitVersions DEF Puts, TypedRow
  <2>4. pc'[s] = "load" /\ job'[s] = Without(s, u)
    BY <1>2, <1>6, Moved
  <2>5. ReleasesUnit(s, u)
    BY <1>1, <1>2, <1>4, <1>6, <2>1, <2>3, <2>4 DEF ReleasesUnit
  <2> QED BY <1>2, <2>5
<1> QED BY <1>2, <1>5, <1>6, ConflictEnds

(* The Save of the bin a unit was picked from.                             *)
LEMMA SaveBinShape ==
    ASSUME IInv, NEW s \in Sessions, SaveBin(s)
    PROVE  Ends(s) \/ \E u \in Units, b \in Bins : ReleasesBin(s, u, b)
<1>1. PICK u, b :
         /\ u \in job[s].todo /\ IsNext(s, u) /\ b = loaded[s][u].bin
         /\ \/ /\ Save(s, b, ReleaseBin(loaded[s][b], Share(s, u))) /\ GoTo(s, "load", Without(s, u))
               /\ UNCHANGED <<now, loaded, outbox, pending>>
            \/ Conflict(s, b, ReleaseBin(loaded[s][b], Share(s, u)))
  BY DEF SaveBin
<1>2. pc[s] = "savebin" /\ pc[s] \in Resolves
  BY DEF SaveBin, Resolves
<1>3. /\ TypeOK /\ job[s] \in Job /\ u \in Units /\ loaded[s] \in Tables /\ Share(s, u) \in Nat
  BY <1>1, <1>2, ResolutionFacts
<1>4. NextInHand(s) /\ BinAllows(s)
  BY <1>2 DEF IInv, Control
<1>5. loaded[s][u] \in StockUnit
  BY <1>1, <1>3, <1>4, RowKinds DEF NextInHand, Has
<1>6. b \in Bins /\ b \in Rows
  BY <1>1, <1>5 DEF StockUnit, Rows
<1>7. loaded[s][b] \in Bin /\ CanReleaseBin(loaded[s][b], Share(s, u))
  BY <1>1, <1>3, <1>4, <1>6, RowKinds DEF BinAllows, Has
<1>8. CASE Conflict(s, b, ReleaseBin(loaded[s][b], Share(s, u)))
  BY <1>3, <1>8, ConflictEnds
<1>9. CASE /\ Save(s, b, ReleaseBin(loaded[s][b], Share(s, u))) /\ GoTo(s, "load", Without(s, u))
           /\ UNCHANGED <<now, loaded, outbox, pending>>
  <2>1. ReleaseBin(loaded[s][b], Share(s, u)) \in Bin
    BY <1>3, <1>7, BinRows
  <2>2. ReleaseBin(loaded[s][b], Share(s, u)).version = loaded[s][b].version
    BY <1>7 DEF ReleaseBin, Bin
  <2>3. Puts(s, b, ReleaseBin(loaded[s][b], Share(s, u)))
    BY <1>6, <1>9, <2>1, <2>2, NotAbsent DEF Puts, TypedRow
  <2>4. pc'[s] = "load" /\ job'[s] = Without(s, u)
    BY <1>3, <1>9, Moved
  <2>5. ReleasesBin(s, u, b)
    BY <1>1, <1>2, <1>3, <1>5, <1>6, <1>7, <1>9, <2>3, <2>4 DEF ReleasesBin
  <2> QED BY <1>3, <1>6, <2>5
<1> QED BY <1>1, <1>8, <1>9

(* The Save of the resolved reservation.                                   *)
LEMMA SaveReservationShape ==
    ASSUME IInv, NEW s \in Sessions, SaveReservation(s)
    PROVE  Ends(s) \/ \E r \in Resvs : \E res : Resolved(s, r, res)
<1>1. PICK r, res : r = job[s].res /\ res = ResolveAs(loaded[s][r], job[s].act)
  OBVIOUS
<1>2. pc[s] = "load" /\ job[s].todo = {} /\ pc[s] \in Resolves
  BY DEF SaveReservation, Resolves
<1>3. TypeOK /\ job[s] \in Job /\ loaded[s] \in Tables /\ r \in Resvs /\ r \in Rows
      /\ loaded[s][r] \in Reservation
  BY <1>1, <1>2, ResolutionFacts DEF ResolvesActive, Rows
<1>4. \/ /\ Save(s, r, res) /\ Publish(s, {EventOf[job[s].act]}, r)
         /\ loaded' = [loaded EXCEPT ![s][r] = res] /\ GoTo(s, "commit", job[s])
      \/ Conflict(s, r, res)
  BY <1>1 DEF SaveReservation
<1>5. CASE Conflict(s, r, res)
  BY <1>3, <1>5, ConflictEnds
<1>6. CASE /\ Save(s, r, res) /\ Publish(s, {EventOf[job[s].act]}, r)
           /\ loaded' = [loaded EXCEPT ![s][r] = res] /\ GoTo(s, "commit", job[s])
  <2>1. job[s].act \in Status
    BY <1>3 DEF Job
  <2>2. res \in Reservation /\ res.version = loaded[s][r].version
    BY <1>1, <1>3, <2>1 DEF ResolveAs, Reservation
  <2>3. Puts(s, r, res)
    BY <1>3, <1>6, <2>2, NotAbsent DEF Puts, TypedRow
  <2>4. pc'[s] = "commit" /\ job'[s] = job[s]
    BY <1>3, <1>6, Moved
  <2>5. Resolved(s, r, res)
    BY <1>1, <1>2, <1>3, <1>6, <2>3, <2>4 DEF Resolved
  <2> QED BY <1>3, <2>5
<1> QED BY <1>4, <1>5, <1>6

(* The Save of a unit that was drawn from.                                 *)
LEMMA SaveTouchedShape ==
    ASSUME IInv, NEW s \in Sessions, SaveTouched(s)
    PROVE  Ends(s) \/ \E u \in Units : DrawsUnit(s, u)
<1>1. PICK u \in job[s].todo :
         \/ /\ Save(s, u, Reserve(loaded[s][u], job[s].draw[u])) /\ GoTo(s, "draw", Without(s, u))
            /\ UNCHANGED <<now, loaded, outbox, pending>>
         \/ Conflict(s, u, Reserve(loaded[s][u], job[s].draw[u]))
  BY DEF SaveTouched
<1>2. pc[s] = "draw"
  BY DEF SaveTouched
<1>3. TypeOK /\ job[s] \in Job /\ loaded[s] \in Tables /\ Holds(s)
  BY <1>2 DEF IInv, TypeOK, Control
<1>4. u \in Units /\ u \in Rows /\ job[s].draw[u] \in Nat
  BY <1>3 DEF Job, Rows
<1>5. loaded[s][u] \in StockUnit
  BY <1>1, <1>3, <1>4, RowKinds DEF Holds, Has
<1>6. CASE Conflict(s, u, Reserve(loaded[s][u], job[s].draw[u]))
  BY <1>3, <1>6, ConflictEnds
<1>7. CASE /\ Save(s, u, Reserve(loaded[s][u], job[s].draw[u])) /\ GoTo(s, "draw", Without(s, u))
           /\ UNCHANGED <<now, loaded, outbox, pending>>
  <2>1. Reserve(loaded[s][u], job[s].draw[u]) \in StockUnit
    BY <1>4, <1>5, UnitRows
  <2>2. Puts(s, u, Reserve(loaded[s][u], job[s].draw[u]))
    BY <1>4, <1>5, <1>7, <2>1, NotAbsent, UnitVersions DEF Puts, TypedRow
  <2>3. pc'[s] = "draw" /\ job'[s] = Without(s, u)
    BY <1>3, <1>7, Moved
  <2>4. DrawsUnit(s, u)
    BY <1>1, <1>2, <1>4, <1>5, <1>7, <2>2, <2>3 DEF DrawsUnit
  <2> QED BY <1>4, <2>4
<1> QED BY <1>1, <1>6, <1>7

(* The Save of the new reservation.                                        *)
LEMMA CreateReservationShape ==
    ASSUME IInv, NEW s \in Sessions, CreateReservation(s)
    PROVE  \E r \in Resvs : \E res : Created(s, r, res)
<1>1. PICK r, res :
         /\ r \in Resvs /\ Unused(r)
         /\ res = NewReservation(job[s].sku, job[s].qty, job[s].demand, job[s].draw, now + Timeout)
         /\ Save(s, r, res) /\ Publish(s, {"StockReserved"}, r)
         /\ GoTo(s, "reply", [job[s] EXCEPT !.res = r])
  BY DEF CreateReservation
<1>2. pc[s] = "draw" /\ job[s].todo = {} /\ loaded' = loaded
  BY DEF CreateReservation
<1>3. /\ TypeOK /\ StoreInv /\ job[s] \in Job /\ r \in Rows
      /\ job[s].sku \in Skus /\ job[s].demand \in Demands
  BY <1>1, <1>2 DEF IInv, TypeOK, Control, Rows
<1>4. res \in Reservation
  <2>1. now + Timeout \in Nat
    BY <1>3, ReservationAssumption DEF TypeOK
  <2>2. job[s].qty \in Nat /\ job[s].draw \in [Units -> Nat]
    BY <1>3 DEF Job
  <2> QED BY <1>1, <1>3, <2>1, <2>2 DEF NewReservation, Reservation, Status, Version
<1>5. loaded[s][r] = Absent
  BY <1>1, <1>3 DEF Unused, Visible, StoreInv, Snapshot
<1>6. Puts(s, r, res)
  BY <1>1, <1>3, <1>4, <1>5, NotAbsent DEF Puts, TypedRow, Has
<1>7. pc'[s] = "reply" /\ job'[s] = [job[s] EXCEPT !.res = r]
  BY <1>1, <1>3, Moved
<1> QED BY <1>1, <1>2, <1>6, <1>7 DEF Created

(* The Save of the bin that is stowed into.                                *)
LEMMA SaveOccupiedShape ==
    ASSUME IInv, NEW s \in Sessions, SaveOccupied(s)
    PROVE  Ends(s) \/ \E b \in Bins : OccupiesBin(s, b)
<1>1. PICK b : b = job[s].bin
  OBVIOUS
<1>2. \/ /\ Save(s, b, Occupy(loaded[s][b], job[s].qty)) /\ GoTo(s, "putunit", job[s])
         /\ UNCHANGED <<now, loaded, outbox, pending>>
      \/ Conflict(s, b, Occupy(loaded[s][b], job[s].qty))
  BY <1>1 DEF SaveOccupied
<1>3. pc[s] = "putbin"
  BY DEF SaveOccupied
<1>4. TypeOK /\ job[s].qty \in Nat /\ loaded[s] \in Tables /\ b \in Bins /\ b \in Rows /\ Has(s, b)
  BY <1>1, <1>3 DEF IInv, TypeOK, Control, Job, Rows
<1>5. loaded[s][b] \in Bin
  BY <1>4, RowKinds DEF Has
<1>6. CASE Conflict(s, b, Occupy(loaded[s][b], job[s].qty))
  BY <1>4, <1>6, ConflictEnds
<1>7. CASE /\ Save(s, b, Occupy(loaded[s][b], job[s].qty)) /\ GoTo(s, "putunit", job[s])
           /\ UNCHANGED <<now, loaded, outbox, pending>>
  <2>1. Occupy(loaded[s][b], job[s].qty) \in Bin
    BY <1>4, <1>5, BinRows
  <2>2. Occupy(loaded[s][b], job[s].qty).version = loaded[s][b].version
    BY <1>5 DEF Occupy, Bin
  <2>3. Puts(s, b, Occupy(loaded[s][b], job[s].qty))
    BY <1>4, <1>7, <2>1, <2>2, NotAbsent DEF Puts, TypedRow
  <2>4. pc'[s] = "putunit" /\ job'[s] = job[s]
    BY <1>4, <1>7, Moved
  <2>5. OccupiesBin(s, b)
    BY <1>1, <1>3, <1>4, <1>5, <1>7, <2>3, <2>4 DEF OccupiesBin
  <2> QED BY <1>4, <2>5
<1> QED BY <1>2, <1>6, <1>7

(* The Save of the unit that is stowed.                                    *)
LEMMA SaveStowedShape ==
    ASSUME IInv, NEW s \in Sessions, SaveStowed(s)
    PROVE  \E u \in Units : \E unit : StowsUnit(s, u, unit)
<1>1. PICK u, unit :
         /\ u \in Units /\ Unused(u) /\ unit = NewStockUnit(job[s].sku, job[s].bin, job[s].qty)
         /\ Save(s, u, unit) /\ Publish(s, {"ItemStowed", "LocationRecorded"}, u)
         /\ GoTo(s, "commit", job[s])
  BY DEF SaveStowed
<1>2. pc[s] = "putunit" /\ loaded' = loaded
  BY DEF SaveStowed
<1>3. /\ TypeOK /\ StoreInv /\ u \in Rows
      /\ job[s].sku \in Skus /\ job[s].bin \in Bins /\ job[s].qty \in Nat
  BY <1>1, <1>2 DEF IInv, TypeOK, Control, Rows, Job
<1>4. unit \in StockUnit
  BY <1>1, <1>3 DEF NewStockUnit, StockUnit, StockState, Version
<1>5. loaded[s][u] = Absent
  BY <1>1, <1>3 DEF Unused, Visible, StoreInv, Snapshot
<1>6. Puts(s, u, unit)
  BY <1>1, <1>3, <1>4, <1>5, NotAbsent DEF Puts, TypedRow, Has
<1>7. pc'[s] = "commit" /\ job'[s] = job[s]
  BY <1>1, <1>3, Moved
<1> QED BY <1>1, <1>2, <1>3, <1>6, <1>7 DEF StowsUnit

(* The Save of a new or resized bin.                                       *)
LEMMA SaveCapacityShape ==
    ASSUME IInv, NEW s \in Sessions, SaveCapacity(s)
    PROVE  Ends(s) \/ \E b \in Bins : \E bin : SetsBin(s, b, bin)
<1>1. PICK b, bin : /\ b = job[s].bin
                    /\ bin = IF loaded[s][b] = Absent THEN NewBin(job[s].qty) ELSE Resize(loaded[s][b], job[s].qty)
  OBVIOUS
<1>2. \/ /\ Save(s, b, bin) /\ GoTo(s, "commit", job[s])
         /\ UNCHANGED <<now, loaded, outbox, pending>>
      \/ Conflict(s, b, bin)
  BY <1>1 DEF SaveCapacity
<1>3. pc[s] = "setbin"
  BY DEF SaveCapacity
<1>4. TypeOK /\ job[s].qty \in Nat /\ loaded[s] \in Tables /\ b \in Bins /\ b \in Rows
  BY <1>1, <1>3 DEF IInv, TypeOK, Control, Job, Rows
<1>5. \/ loaded[s][b] = Absent /\ bin = NewBin(job[s].qty)
      \/ loaded[s][b] \in Bin /\ bin = Resize(loaded[s][b], job[s].qty)
  BY <1>1, <1>4, RowKinds
<1>6. CASE Conflict(s, b, bin)
  BY <1>4, <1>6, ConflictEnds
<1>7. CASE /\ Save(s, b, bin) /\ GoTo(s, "commit", job[s])
           /\ UNCHANGED <<now, loaded, outbox, pending>>
  <2>1. bin \in Bin
    BY <1>4, <1>5, BinRows, NewBinRow
  <2>2. Has(s, b) => bin.version = loaded[s][b].version
    BY <1>5 DEF Has, Resize, Bin
  <2>3. Puts(s, b, bin)
    BY <1>4, <1>7, <2>1, <2>2, NotAbsent DEF Puts, TypedRow
  <2>4. pc'[s] = "commit" /\ job'[s] = job[s]
    BY <1>4, <1>7, Moved
  <2>5. SetsBin(s, b, bin)
    BY <1>1, <1>3, <1>4, <1>5, <1>7, <2>3, <2>4 DEF SetsBin
  <2> QED BY <1>4, <2>5
<1> QED BY <1>2, <1>6, <1>7

(* The Save of a unit that was not found.                                  *)
LEMMA MarkUnitShape ==
    ASSUME IInv, NEW s \in Sessions, MarkUnit(s)
    PROVE  Ends(s) \/ \E u \in Units : MarksUnit(s, u)
<1>1. PICK u \in job[s].todo :
         \/ /\ Save(s, u, MarkUnlocated(loaded[s][u])) /\ Publish(s, {"ItemUnlocated"}, u)
            /\ GoTo(s, "mark", Without(s, u)) /\ UNCHANGED <<now, loaded>>
         \/ Conflict(s, u, MarkUnlocated(loaded[s][u]))
  BY DEF MarkUnit
<1>2. pc[s] = "mark"
  BY DEF MarkUnit
<1>3. TypeOK /\ job[s] \in Job /\ loaded[s] \in Tables /\ Holds(s)
  BY <1>2 DEF IInv, TypeOK, Control
<1>4. u \in Units /\ u \in Rows
  BY <1>3 DEF Job, Rows
<1>5. loaded[s][u] \in StockUnit
  BY <1>1, <1>3, <1>4, RowKinds DEF Holds, Has
<1>6. CASE Conflict(s, u, MarkUnlocated(loaded[s][u]))
  BY <1>3, <1>6, ConflictEnds
<1>7. CASE /\ Save(s, u, MarkUnlocated(loaded[s][u])) /\ Publish(s, {"ItemUnlocated"}, u)
           /\ GoTo(s, "mark", Without(s, u)) /\ UNCHANGED <<now, loaded>>
  <2>1. MarkUnlocated(loaded[s][u]) \in StockUnit
    BY <1>5, UnitRows
  <2>2. Puts(s, u, MarkUnlocated(loaded[s][u]))
    BY <1>4, <1>5, <1>7, <2>1, NotAbsent, UnitVersions DEF Puts, TypedRow
  <2>3. pc'[s] = "mark" /\ job'[s] = Without(s, u)
    BY <1>3, <1>7, Moved
  <2>4. MarksUnit(s, u)
    BY <1>2, <1>4, <1>5, <1>7, <2>2, <2>3 DEF MarksUnit
  <2> QED BY <1>4, <2>4
<1> QED BY <1>1, <1>6, <1>7

(* Every step of a session has one of these shapes.                        *)
LEMMA StepShape ==
    ASSUME IInv, NEW s \in Sessions, Step(s)
    PROVE  Shape(s)
<1>1. CASE ReservationStep(s)
  BY <1>1, LookupShape, DecisionShape, EndShape, SaveUnitShape, SaveBinShape, SaveReservationShape,
     SaveTouchedShape, CreateReservationShape DEF ReservationStep, Shape
<1>2. CASE PlacementStep(s)
  BY <1>2, LookupShape, DecisionShape, EndShape, SaveOccupiedShape, SaveStowedShape, SaveCapacityShape,
     MarkUnitShape DEF PlacementStep, Shape
<1> QED BY <1>1, <1>2, EndShape DEF Step, Shape

(* What a session has in memory and in its transaction is its own.         *)
Alone(s) == \A o \in Sessions \ {s} :
    /\ pc'[o] = pc[o] /\ job'[o] = job[o] /\ loaded'[o] = loaded[o]
    /\ writes'[o] = writes[o] /\ pending'[o] = pending[o]

(* The outbox rows of the others are not touched.                          *)
LEMMA PendingAlone ==
    ASSUME TypeOK, NEW s \in Sessions, Shape(s)
    PROVE  \A o \in Sessions \ {s} : pending'[o] = pending[o]
<1>1. ASSUME NEW types, NEW key, Publish(s, types, key)
      PROVE  \A o \in Sessions \ {s} : pending'[o] = pending[o]
  BY <1>1 DEF Publish, TypeOK
<1>2. CASE ReadsOnly(s) /\ Turns(s)
  BY <1>1, <1>2 DEF Turns, CountDone
<1>3. CASE Ends(s)
  BY <1>3 DEF Ends, Commit, Rollback, CloseTx, TypeOK
<1>4. CASE \E u \in Units : PicksUnit(s, u) \/ ReleasesUnit(s, u) \/ DrawsUnit(s, u) \/ MarksUnit(s, u)
  BY <1>1, <1>4 DEF PicksUnit, ReleasesUnit, DrawsUnit, MarksUnit
<1>5. CASE \E u \in Units, b \in Bins : ReleasesBin(s, u, b)
  BY <1>5 DEF ReleasesBin
<1>6. CASE \E r \in Resvs : \E res : Resolved(s, r, res) \/ Created(s, r, res)
  BY <1>1, <1>6 DEF Resolved, Created
<1>7. CASE \E b \in Bins : OccupiesBin(s, b)
  BY <1>7 DEF OccupiesBin
<1>8. CASE \E u \in Units : \E unit : StowsUnit(s, u, unit)
  BY <1>1, <1>8 DEF StowsUnit
<1>9. CASE \E b \in Bins : \E bin : SetsBin(s, b, bin)
  BY <1>9 DEF SetsBin
<1> QED BY <1>2, <1>3, <1>4, <1>5, <1>6, <1>7, <1>8, <1>9 DEF Shape

(* All a request can do once its own unit of work is complete is to end    *)
(* it.  Between the two rows it writes for one unit it can read the second, *)
(* write it, or give up.                                                   *)
Midway == {"bin", "savebin", "putunit"}
Orderly(s) ==
    /\ pc[s] = "commit" /\ Scope(job[s].op) = "own" => Ends(s)
    /\ pc[s] \in Midway =>
          \/ Ends(s) /\ (Scope(job[s].op) # "joined" => Rollback(s))
          \/ /\ pc[s] = "bin" /\ ReadsOnly(s) /\ pc'[s] = "savebin" /\ job'[s] = job[s]
             /\ \A q \in Units \cup Resvs : loaded'[s][q] = loaded[s][q]
          \/ \E u \in Units, b \in Bins : ReleasesBin(s, u, b)
          \/ \E u \in Units : \E unit : StowsUnit(s, u, unit)

(* The statements at these points.                                         *)
LEMMA OrderlySteps ==
    ASSUME NEW s \in Sessions, Step(s), pc[s] \in Midway \cup {"commit"}
    PROVE  \/ pc[s] = "commit" /\ CommitScope(s)
           \/ pc[s] = "bin" /\ LoadBin(s)
           \/ pc[s] = "savebin" /\ SaveBin(s)
           \/ pc[s] = "putunit" /\ SaveStowed(s)
           \/ DeadlockVictim(s)
<1>1. ReservationStep(s) => LoadBin(s) \/ SaveBin(s)
  BY DEF ReservationStep, FindByID, GetReservations, ReserveStock, NotDue, ExpireIfDue, Decide, LoadUnit, SaveUnit,
         SaveReservation, AnswerFound, FindBySKU, SaveTouched, CreateReservation, Reply, Midway
<1>2. PlacementStep(s) => SaveStowed(s)
  BY DEF PlacementStep, StowStock, RefusePlacement, CheckSegregation, SaveOccupied, RegisterBin,
         SaveCapacity, RunCycleCount, MarkUnit, CountDone, Midway
<1> QED BY <1>1, <1>2 DEF Step, CommitScope, LoadBin, SaveBin, SaveStowed

(* The bin of the picked unit is read.                                     *)
LEMMA LoadBinOrderly ==
    ASSUME IInv, NEW s \in Sessions, LoadBin(s)
    PROVE  \/ Ends(s) /\ (Scope(job[s].op) # "joined" => Rollback(s))
           \/ /\ pc[s] = "bin" /\ ReadsOnly(s) /\ pc'[s] = "savebin" /\ job'[s] = job[s]
              /\ \A q \in Units \cup Resvs : loaded'[s][q] = loaded[s][q]
<1>1. TypeOK
  BY DEF IInv
<1>2. PICK u, b :
         /\ u \in job[s].todo /\ b = loaded[s][u].bin /\ IsNext(s, u)
         /\ \/ /\ Load(s, {b}) /\ GoTo(s, "savebin", job[s]) /\ UNCHANGED <<db, writes, outbox, pending>>
            \/ Fail(s)
  BY DEF LoadBin, store
<1>3. CASE Fail(s)
  BY <1>1, <1>3, FailEnds DEF Fail
<1>4. CASE Load(s, {b}) /\ GoTo(s, "savebin", job[s]) /\ UNCHANGED <<db, writes, outbox, pending>>
  <2>1. pc[s] = "bin"
    BY DEF LoadBin
  <2>2. Has(s, u) /\ u \in Units
    BY <1>1, <1>2, <2>1 DEF IInv, Control, NextInHand, TypeOK, Job
  <2>3. loaded[s][u] \in StockUnit
    BY <1>1, <2>2, RowKinds DEF Has, TypeOK
  <2>4. b \in Bins /\ {b} \in SUBSET Rows
    BY <1>2, <2>3 DEF StockUnit, Rows
  <2>5. ReadsOnly(s)
    BY <1>1, <1>4, <2>4, ReadingReads
  <2>6. pc'[s] = "savebin" /\ job'[s] = job[s]
    BY <1>1, <1>4, Moved
  <2>7. ASSUME NEW q \in Units \cup Resvs PROVE loaded'[s][q] = loaded[s][q]
    <3>1. q \in Rows /\ q # b
      BY <2>4, RowsAssumption DEF Rows
    <3> QED BY <1>1, <1>4, <3>1 DEF Load, TypeOK
  <2> QED BY <2>1, <2>5, <2>6, <2>7
<1> QED BY <1>2, <1>3, <1>4

(* The order of the statements of one use case.                            *)
LEMMA StepOrderly ==
    ASSUME IInv, NEW s \in Sessions, Step(s)
    PROVE  Orderly(s)
<1>1. TypeOK
  BY DEF IInv
<1>2. CASE pc[s] = "commit" /\ CommitScope(s)
  <2>1. \/ GoTo(s, "due", job[s]) /\ loaded' = loaded
        \/ \E answer \in Finished : Forget(s, answer)
    BY <1>2 DEF CommitScope, Finished
  <2>2. pc'[s] \in Finished \cup {"due"} /\ (loaded' = loaded \/ loaded' = [loaded EXCEPT ![s] = NoRows])
    BY <1>1, <2>1, Moved, Forgotten
  <2> QED BY <1>2, <2>2 DEF CommitScope, Ends, Orderly, Midway
<1>3. CASE DeadlockVictim(s)
  <2>1. Forget(s, "err") /\ Rollback(s)
    BY <1>3 DEF DeadlockVictim
  <2>2. Ends(s)
    BY <1>1, <2>1, Forgotten DEF Ends, Finished
  <2> QED BY <2>1, <2>2 DEF Orderly
<1>4. CASE pc[s] = "bin" /\ LoadBin(s)
  BY <1>4, LoadBinOrderly DEF Orderly
<1>5. CASE pc[s] = "savebin" /\ SaveBin(s)
  <2>1. Ends(s) => (Scope(job[s].op) # "joined" => Rollback(s)) \/ \E u \in Units, b \in Bins : ReleasesBin(s, u, b)
    <3>1. CASE \E r, a : Conflict(s, r, a)
      BY <3>1 DEF Conflict, Fail
    <3>2. CASE \A r, a : ~Conflict(s, r, a)
      <4>1. \E j : GoTo(s, "load", j)
        BY <1>5, <3>2 DEF SaveBin
      <4>2. pc'[s] = "load"
        BY <1>1, <4>1, Moved
      <4> QED BY <4>2 DEF Ends, Finished
    <3> QED BY <3>1, <3>2
  <2> QED BY <1>5, <2>1, SaveBinShape DEF Orderly
<1>6. CASE pc[s] = "putunit" /\ SaveStowed(s)
  BY <1>6, SaveStowedShape DEF Orderly
<1>7. CASE pc[s] \notin Midway \cup {"commit"}
  BY <1>7 DEF Orderly
<1> QED BY <1>2, <1>3, <1>4, <1>5, <1>6, <1>7, OrderlySteps

(* A step of the service is a step of one session, or of the clock.        *)
LEMMA NextShape ==
    ASSUME IInv, [Next]_vars
    PROVE  /\ IInv'
           /\ \/ UNCHANGED <<db, outbox, writes, pending, loaded, pc, job>>
              \/ \E s \in Sessions : Shape(s) /\ Alone(s) /\ Orderly(s)
<1>1. IInv'
  BY NextKeepsInvariant
<1>2. TypeOK
  BY DEF IInv
<1>3. ASSUME NEW s \in Sessions, Step(s)
      PROVE  Shape(s) /\ Alone(s) /\ Orderly(s)
  <2>1. Shape(s) /\ StoreKept(s) /\ SessionKept(s) /\ Orderly(s)
    BY <1>3, StepShape, StepKeeps, StepOrderly
  <2> QED BY <1>2, <2>1, PendingAlone DEF StoreKept, SessionKept, Alone
<1>4. ASSUME NEW s \in Crashable, Crash(s)
      PROVE  s \in Sessions /\ Shape(s) /\ Alone(s) /\ Orderly(s)
  <2>1. s \in Sessions /\ Forget(s, "err") /\ Rollback(s) /\ now' = now
    BY <1>4, CrashAssumption DEF Crash
  <2>2. Ends(s)
    BY <1>2, <2>1, Forgotten DEF Ends, Finished
  <2>3. StoreKept(s) /\ SessionKept(s)
    BY <2>1, AbortKeeps
  <2> QED BY <1>2, <2>1, <2>2, <2>3, PendingAlone DEF StoreKept, SessionKept, Alone, Shape, Orderly
<1>5. Tick \/ UNCHANGED vars => UNCHANGED <<db, outbox, writes, pending, loaded, pc, job>>
  BY DEF Tick, vars, store
<1> QED BY <1>1, <1>3, <1>4, <1>5 DEF Next

-----------------------------------------------------------------------------
(* What a Save and the end of a transaction leave.                         *)

(* The row a Save leaves: its fields but for the version.                  *)
LEMMA StoredFields ==
    ASSUME TypeOK, NEW s \in Sessions, NEW r \in Rows, NEW a
    PROVE  /\ a \in StockUnit =>
                /\ Stored(s, r, a).sku = a.sku /\ Stored(s, r, a).bin = a.bin
                /\ Stored(s, r, a).quantity = a.quantity /\ Stored(s, r, a).reserved = a.reserved
           /\ a \in Bin =>
                /\ Stored(s, r, a).capacity = a.capacity /\ Stored(s, r, a).occupied = a.occupied
           /\ a \in Reservation =>
                /\ Stored(s, r, a).status = a.status /\ Stored(s, r, a).allocs = a.allocs
BY DEF Stored, StockUnit, Bin, Reservation

(* The transaction, or the table where there is none, has the new row; the *)
(* other rows stay, nobody else has written this one, and the copy it was  *)
(* made from was the row.                                                  *)
LEMMA PutsEffect ==
    ASSUME IInv, NEW s \in Sessions, NEW r, NEW a, Puts(s, r, a)
    PROVE  /\ TypedRow(r, Stored(s, r, a)) /\ Stored(s, r, a) # Absent
           /\ \A o \in Sessions \ {s} : writes'[o] = writes[o] /\ writes[o][r] = Absent
           /\ \A q \in Rows \ {r} : writes'[s][q] = writes[s][q] /\ db'[q] = db[q]
           /\ InTx(s) => writes'[s][r] = Stored(s, r, a) /\ db'[r] = db[r]
           /\ ~InTx(s) => db'[r] = Stored(s, r, a) /\ writes'[s][r] = Absent
           /\ ~InTx(s) => \A q \in Rows : writes[s][q] = Absent
           /\ \A q \in Rows \ {r} : Visible(s, q)' = Visible(s, q)
           /\ Visible(s, r)' = Stored(s, r, a)
           /\ Has(s, r) => Visible(s, r) = loaded[s][r]
           /\ Visible(s, r) = Absent => Stored(s, r, a) = a
           /\ Visible(s, r) # Absent => Visible(s, r).version = a.version
                                        /\ Stored(s, r, a).version = Visible(s, r).version + 1
<1> PICK v : v = Stored(s, r, a)
  OBVIOUS
<1>1. TypeOK /\ StoreInv /\ TxClosed(s) /\ r \in Rows
  BY DEF IInv, Puts
<1>2. ~Locked(s, r) /\ Hit(s, r, a) /\ a # Absent /\ TypedRow(r, a)
  BY DEF Puts, Save
<1>3. TypedRow(r, v) /\ v # Absent
      /\ (Visible(s, r) = Absent => v = a)
      /\ (Visible(s, r) # Absent => Visible(s, r).version = a.version /\ v.version = Visible(s, r).version + 1)
  BY <1>1, <1>2, StoredRow
<1>4. \A o \in Sessions \ {s} : writes[o][r] = Absent
  BY <1>2 DEF Locked
<1>5. Has(s, r) => Visible(s, r) = loaded[s][r]
  BY <1>1, <1>2 DEF Has, Puts, Hit, StoreInv, Snapshot
<1>6. CASE InTx(s)
  <2>1. writes' = [writes EXCEPT ![s][r] = v] /\ db' = db
    BY <1>6 DEF Puts, Save
  <2>2. writes'[s][r] = v /\ (\A q \in Rows \ {r} : writes'[s][q] = writes[s][q])
        /\ \A o \in Sessions \ {s} : writes'[o] = writes[o]
    BY <1>1, <2>1 DEF TypeOK, Tables
  <2> QED BY <1>1, <1>3, <1>4, <1>5, <1>6, <2>1, <2>2 DEF Visible
<1>7. CASE ~InTx(s)
  <2>1. db' = [db EXCEPT ![r] = v] /\ writes' = writes
    BY <1>7 DEF Puts, Save
  <2>2. \A q \in Rows : writes[s][q] = Absent
    BY <1>1, <1>7 DEF TxClosed, NoRows
  <2>3. db'[r] = v /\ \A q \in Rows \ {r} : db'[q] = db[q]
    BY <1>1, <2>1 DEF TypeOK, Tables
  <2> QED BY <1>1, <1>3, <1>4, <1>5, <1>7, <2>1, <2>2, <2>3 DEF Visible
<1> QED BY <1>6, <1>7

(* A transaction that ends puts into the table all it has written, or      *)
(* nothing.                                                                *)
LEMMA EndsEffect ==
    ASSUME IInv, NEW s \in Sessions, Ends(s)
    PROVE  /\ writes'[s] = NoRows /\ \A q \in Rows : writes'[s][q] = Absent
           /\ \A o \in Sessions \ {s} : writes'[o] = writes[o]
           /\ \/ \A q \in Rows : db'[q] = Visible(s, q)
              \/ db' = db
           /\ \A q \in Rows : loaded'[s][q] \in {Absent, loaded[s][q]}
<1>1. TypeOK
  BY DEF IInv
<1>2. writes' = [writes EXCEPT ![s] = NoRows]
  BY DEF Ends, Commit, Rollback, CloseTx
<1>3. (\A q \in Rows : db'[q] = Visible(s, q)) \/ db' = db
  BY DEF Ends, Commit, Rollback
<1>4. \A q \in Rows : loaded'[s][q] \in {Absent, loaded[s][q]}
  BY <1>1 DEF Ends, TypeOK, NoRows
<1> QED BY <1>1, <1>2, <1>3, <1>4 DEF TypeOK, NoRows

-----------------------------------------------------------------------------
(* Reserved and on hand.                                                   *)

(* What is to be drawn is free in the copy it is drawn from.               *)
Draws(s) == pc[s] = "draw" => \A u \in Units \cap job[s].todo :
    loaded[s][u].reserved + job[s].draw[u] <= loaded[s][u].quantity

(* A step keeps it that leaves sound rows in the table and with its        *)
(* session.                                                                *)
LEMMA OnHandKept ==
    ASSUME OnHandInv, NEW s \in Sessions, Alone(s),
           \A u \in Units : Sound(db'[u]) /\ Sound(writes'[s][u]) /\ Sound(loaded'[s][u]),
           Draws(s)'
    PROVE  OnHandInv'
<1>1. ASSUME NEW o \in Sessions
      PROVE  (\A u \in Units : Sound(writes'[o][u]) /\ Sound(loaded'[o][u])) /\ Draws(o)'
  <2>1. CASE o = s
    BY <2>1
  <2>2. CASE o # s
    BY <2>2 DEF Alone, OnHandInv, Draws
  <2> QED BY <2>1, <2>2
<1> QED BY <1>1 DEF OnHandInv, Draws

(* A Save keeps it that writes a sound unit, or no unit.                   *)
LEMMA OnHandPut ==
    ASSUME IInv, OnHandInv, NEW s \in Sessions, Alone(s), NEW r, NEW a, Puts(s, r, a),
           r \in Units => a.reserved <= a.quantity,
           \A u \in Units : loaded'[s][u] = loaded[s][u],
           Draws(s)'
    PROVE  OnHandInv'
<1>1. \A u \in Units : Sound(db[u]) /\ Sound(writes[s][u]) /\ Sound(loaded[s][u])
  BY DEF OnHandInv
<1>2. r \in Units => a \in StockUnit /\ r \in Rows
  BY RowsAssumption DEF Puts, TypedRow
<1>3. r \in Units => Sound(Stored(s, r, a))
  BY <1>2, StoredFields DEF Sound, IInv
<1>4. ASSUME NEW u \in Units
      PROVE  Sound(db'[u]) /\ Sound(writes'[s][u]) /\ Sound(loaded'[s][u])
  <2>1. u \in Rows
    BY DEF Rows
  <2>2. CASE u = r
    <3>1. \/ db'[u] = Stored(s, r, a) /\ writes'[s][u] = Absent
          \/ db'[u] = db[u] /\ writes'[s][u] = Stored(s, r, a)
      BY <2>2, PutsEffect
    <3> QED BY <1>1, <1>3, <2>2, <3>1 DEF Sound
  <2>3. CASE u # r
    <3>1. db'[u] = db[u] /\ writes'[s][u] = writes[s][u]
      BY <2>1, <2>3, PutsEffect
    <3> QED BY <1>1, <3>1
  <2> QED BY <2>2, <2>3
<1> QED BY <1>4, OnHandKept

(* The greedy draw is within what is usable of each unit, and what is      *)
(* usable is neither reserved nor missing.                                 *)
LEMMA DrawsWhatIsFree ==
    ASSUME IInv, OnHandInv, NEW s \in Sessions, FindBySKU(s), pc'[s] = "draw"
    PROVE  Draws(s)'
<1> DEFINE ofSku  == {u \in Units : Visible(s, u) # Absent /\ Visible(s, u).sku = job[s].sku}
           usable == [u \in Units |-> IF u \in ofSku THEN Usable(Visible(s, u)) ELSE 0]
<1>1. TypeOK /\ job[s] \in Job
  BY DEF IInv, TypeOK
<1>2. ~Fail(s)
  BY <1>1, FailEnds
<1>3. PICK order, draw :
         /\ order \in Orders /\ draw = Greedy(usable, order, job[s].qty)
         /\ GoTo(s, "draw", [job[s] EXCEPT !.draw = draw, !.rank = order, !.todo = {u \in Units : draw[u] > 0}])
         /\ Load(s, ofSku)
  BY <1>2 DEF FindBySKU
<1>4. job'[s].draw = draw /\ job'[s].todo = {u \in Units : draw[u] > 0}
  <2> PICK todo : todo = {u \in Units : draw[u] > 0}
    OBVIOUS
  <2>1. job'[s] = [job[s] EXCEPT !.draw = draw, !.rank = order, !.todo = todo]
    BY <1>1, <1>3, Moved
  <2> QED BY <1>1, <2>1 DEF Job
<1>5. order \in [Units -> Nat]
  <2>1. order \in [Units -> 1 .. Cardinality(Units)] /\ Cardinality(Units) \in Nat
    BY <1>3, RowsAssumption, FS_CardinalityType DEF Orders
  <2> QED BY <2>1
<1>6. \A u \in ofSku : Visible(s, u) \in StockUnit /\ Usable(Visible(s, u)) \in Nat
  <2>1. \A u \in ofSku : Visible(s, u) \in StockUnit
    BY <1>1, RowKinds DEF TypeOK, Visible
  <2> QED BY <2>1 DEF StockUnit, Usable
<1>7. usable \in [Units -> Nat]
  BY <1>6
<1>8. \A u \in Units : draw[u] <= usable[u] /\ draw[u] \in Nat
  <2> HIDE DEF usable
  <2>1. job[s].qty \in Nat /\ draw = Greedy(usable, order, job[s].qty)
    BY <1>1, <1>3 DEF Job
  <2>2. draw \in [Units -> Nat] /\ \A u \in Units : draw[u] <= usable[u]
    BY <1>5, <1>7, <2>1, GreedyDraw
  <2> QED BY <2>2
<1>9. \A u \in Units : u \in ofSku => usable[u] = Usable(Visible(s, u))
  OBVIOUS
<1>10. \A u \in Units : u \notin ofSku => usable[u] = 0
  OBVIOUS
<1>11. \A u \in ofSku : u \in Rows /\ ofSku \subseteq Rows
  BY DEF Rows
<1> HIDE DEF ofSku, usable
<1>12. ASSUME NEW u \in Units, draw[u] > 0
       PROVE  loaded'[s][u].reserved + draw[u] <= loaded'[s][u].quantity
  <2>1. u \in ofSku
    BY <1>8, <1>10, <1>12
  <2>2. loaded'[s][u] = Visible(s, u)
    BY <1>1, <1>3, <1>11, <2>1, LoadReads
  <2>3. draw[u] <= Usable(Visible(s, u)) /\ draw[u] \in Nat /\ Visible(s, u) \in StockUnit
    BY <1>6, <1>8, <1>9, <2>1
  <2> QED BY <1>12, <2>2, <2>3 DEF Usable, StockUnit
<1> QED BY <1>4, <1>12 DEF Draws

(* No step of a session breaks it.                                         *)
LEMMA OnHandStep ==
    ASSUME IInv, OnHandInv, NEW s \in Sessions, Shape(s), Alone(s)
    PROVE  OnHandInv'
<1>1. \A u \in Units : /\ Sound(db[u]) /\ Sound(writes[s][u]) /\ Sound(loaded[s][u]) /\ Sound(Visible(s, u))
                       /\ u \in Rows
  BY DEF OnHandInv, Visible, Rows
<1>2. Draws(s) /\ Sound(Absent) /\ TypeOK /\ job[s] \in Job
  BY DEF OnHandInv, Draws, Sound, IInv, TypeOK
<1>3. CASE ReadsOnly(s) /\ Turns(s)
  <2>1. Draws(s)'
    <3>1. CASE FindBySKU(s)
      BY <3>1, DrawsWhatIsFree DEF Draws
    <3>2. CASE ~FindBySKU(s)
      <4>1. pc'[s] # "draw"
        BY <1>3, <3>2 DEF Turns, Finished
      <4> QED BY <4>1 DEF Draws
    <3> QED BY <3>1, <3>2
  <2>2. \A u \in Units : Sound(db'[u]) /\ Sound(writes'[s][u]) /\ Sound(loaded'[s][u])
    BY <1>1, <1>2, <1>3 DEF ReadsOnly
  <2> QED BY <2>1, <2>2, OnHandKept
<1>4. CASE Ends(s)
  <2>1. Draws(s)'
    BY <1>4 DEF Ends, Finished, Draws
  <2>2. \A u \in Units : Sound(db'[u]) /\ Sound(writes'[s][u]) /\ Sound(loaded'[s][u])
    BY <1>1, <1>2, <1>4, EndsEffect
  <2> QED BY <2>1, <2>2, OnHandKept
<1>5. ASSUME NEW u \in Units, PicksUnit(s, u) PROVE OnHandInv'
  <2>1. /\ Puts(s, u, Pick(loaded[s][u], Share(s, u))) /\ loaded' = loaded /\ pc'[s] = "bin"
        /\ loaded[s][u] \in StockUnit /\ Share(s, u) \in Nat /\ CanPick(loaded[s][u], Share(s, u))
    BY <1>5 DEF PicksUnit
  <2>2. Pick(loaded[s][u], Share(s, u)).reserved <= Pick(loaded[s][u], Share(s, u)).quantity
    <3>1. loaded[s][u].reserved <= loaded[s][u].quantity
      BY <1>1, <2>1, NotAbsent DEF Sound
    <3> QED BY <2>1, <3>1 DEF Pick, CanPick, StockUnit
  <2>3. Draws(s)'
    BY <2>1 DEF Draws
  <2> QED BY <2>1, <2>2, <2>3, OnHandPut
<1>6. ASSUME NEW u \in Units, ReleasesUnit(s, u) PROVE OnHandInv'
  <2>1. /\ Puts(s, u, ReleaseReservation(loaded[s][u], Share(s, u))) /\ loaded' = loaded /\ pc'[s] = "load"
        /\ loaded[s][u] \in StockUnit /\ Share(s, u) \in Nat /\ CanRelease(loaded[s][u], Share(s, u))
    BY <1>6 DEF ReleasesUnit
  <2>2. ReleaseReservation(loaded[s][u], Share(s, u)).reserved <= ReleaseReservation(loaded[s][u], Share(s, u)).quantity
    <3>1. loaded[s][u].reserved <= loaded[s][u].quantity
      BY <1>1, <2>1, NotAbsent DEF Sound
    <3> QED BY <2>1, <3>1 DEF ReleaseReservation, CanRelease, StockUnit
  <2>3. Draws(s)'
    BY <2>1 DEF Draws
  <2> QED BY <2>1, <2>2, <2>3, OnHandPut
<1>7. ASSUME NEW u \in Units, DrawsUnit(s, u) PROVE OnHandInv'
  <2>1. /\ Puts(s, u, Reserve(loaded[s][u], job[s].draw[u])) /\ loaded' = loaded /\ pc[s] = "draw"
        /\ loaded[s][u] \in StockUnit /\ job[s].draw[u] \in Nat /\ u \in job[s].todo
        /\ job'[s] = Without(s, u)
    BY <1>7 DEF DrawsUnit
  <2>2. Reserve(loaded[s][u], job[s].draw[u]).reserved <= Reserve(loaded[s][u], job[s].draw[u]).quantity
    <3>1. loaded[s][u].reserved + job[s].draw[u] <= loaded[s][u].quantity
      BY <1>2, <2>1 DEF Draws
    <3> QED BY <2>1, <3>1 DEF Reserve, StockUnit
  <2>3. Draws(s)'
    <3>1. job'[s].todo \subseteq job[s].todo /\ job'[s].draw = job[s].draw
      BY <1>2, <2>1 DEF Without, Job
    <3> QED BY <1>2, <2>1, <3>1 DEF Draws
  <2> QED BY <2>1, <2>2, <2>3, OnHandPut
<1>8. ASSUME NEW u \in Units, MarksUnit(s, u) PROVE OnHandInv'
  <2>1. /\ Puts(s, u, MarkUnlocated(loaded[s][u])) /\ loaded' = loaded /\ pc'[s] = "mark"
        /\ loaded[s][u] \in StockUnit
    BY <1>8 DEF MarksUnit
  <2>2. MarkUnlocated(loaded[s][u]).reserved <= MarkUnlocated(loaded[s][u]).quantity
    <3>1. loaded[s][u].reserved <= loaded[s][u].quantity
      BY <1>1, <2>1, NotAbsent DEF Sound
    <3> QED BY <2>1, <3>1 DEF MarkUnlocated, StockUnit
  <2>3. Draws(s)'
    BY <2>1 DEF Draws
  <2> QED BY <2>1, <2>2, <2>3, OnHandPut
<1>9. ASSUME NEW u \in Units, NEW unit, StowsUnit(s, u, unit) PROVE OnHandInv'
  <2>1. Puts(s, u, unit) /\ loaded' = loaded /\ pc'[s] = "commit" /\ unit.reserved <= unit.quantity
    BY <1>9 DEF StowsUnit, NewStockUnit
  <2>2. Draws(s)'
    BY <2>1 DEF Draws
  <2> QED BY <2>1, <2>2, OnHandPut
<1>10. ASSUME NEW r \in Bins \cup Resvs, NEW a, Puts(s, r, a), pc'[s] # "draw",
              \A u \in Units : loaded'[s][u] = loaded[s][u]
       PROVE  OnHandInv'
  <2>1. r \notin Units /\ Draws(s)'
    BY <1>10, RowsAssumption DEF Draws
  <2> QED BY <1>10, <2>1, OnHandPut
<1>11. ASSUME NEW u \in Units, NEW b \in Bins, ReleasesBin(s, u, b) PROVE OnHandInv'
  <2>1. Puts(s, b, ReleaseBin(loaded[s][b], Share(s, u))) /\ loaded' = loaded /\ pc'[s] = "load"
    BY <1>11 DEF ReleasesBin
  <2> QED BY <1>10, <2>1
<1>12. ASSUME NEW r \in Resvs, NEW res, Resolved(s, r, res) PROVE OnHandInv'
  <2>1. Puts(s, r, res) /\ loaded' = [loaded EXCEPT ![s][r] = res] /\ pc'[s] = "commit"
    BY <1>12 DEF Resolved
  <2>2. \A u \in Units : loaded'[s][u] = loaded[s][u]
    BY <1>2, <2>1, RowsAssumption DEF TypeOK, Tables
  <2> QED BY <1>10, <2>1, <2>2
<1>13. ASSUME NEW r \in Resvs, NEW res, Created(s, r, res) PROVE OnHandInv'
  <2>1. Puts(s, r, res) /\ loaded' = loaded /\ pc'[s] = "reply"
    BY <1>13 DEF Created
  <2> QED BY <1>10, <2>1
<1>14. ASSUME NEW b \in Bins, OccupiesBin(s, b) PROVE OnHandInv'
  <2>1. Puts(s, b, Occupy(loaded[s][b], job[s].qty)) /\ loaded' = loaded /\ pc'[s] = "putunit"
    BY <1>14 DEF OccupiesBin
  <2> QED BY <1>10, <2>1
<1>15. ASSUME NEW b \in Bins, NEW bin, SetsBin(s, b, bin) PROVE OnHandInv'
  <2>1. Puts(s, b, bin) /\ loaded' = loaded /\ pc'[s] = "commit"
    BY <1>15 DEF SetsBin
  <2> QED BY <1>10, <2>1
<1> QED BY <1>3, <1>4, <1>5, <1>6, <1>7, <1>8, <1>9, <1>11, <1>12, <1>13, <1>14, <1>15 DEF Shape

(* No step at all does.                                                    *)
LEMMA OnHandInductive == IInv /\ OnHandInv /\ [Next]_vars => OnHandInv'
<1> SUFFICES ASSUME IInv, OnHandInv, [Next]_vars PROVE OnHandInv'
  OBVIOUS
<1>1. CASE UNCHANGED <<db, outbox, writes, pending, loaded, pc, job>>
  BY <1>1 DEF OnHandInv
<1>2. CASE \E s \in Sessions : Shape(s) /\ Alone(s)
  BY <1>2, OnHandStep
<1> QED BY <1>1, <1>2, NextShape

(* The service starts with it.                                             *)
LEMMA OnHandInit == Init => OnHandInv
<1> SUFFICES ASSUME Init PROVE OnHandInv
  OBVIOUS
<1>1. /\ \A u \in Units : Sound(db[u])
      /\ \A s \in Sessions : pc[s] = "idle" /\ \A u \in Units : writes[s][u] = Absent /\ loaded[s][u] = Absent
  BY DatabasesAssumption DEF Init, NoRows, Rows, Sound
<1> QED BY <1>1 DEF OnHandInv, Sound

(* In every copy of a unit, committed, written or in memory, what is       *)
(* reserved is on hand, and what a ReserveStock plans to draw is free in   *)
(* the copy it will write.                                                 *)
THEOREM CopiesAreSound == Spec => []OnHandInv
<1>1. Init => IInv /\ OnHandInv
  BY InitEstablishesInvariant, OnHandInit
<1>2. (IInv /\ OnHandInv) /\ [Next]_vars => (IInv /\ OnHandInv)'
  BY OnHandInductive, NextKeepsInvariant
<1> QED BY <1>1, <1>2, PTL DEF Spec

(* What is reserved of a unit is on hand, for any number of requests:      *)
(* reserve draws from a copy that Save's version guard finds unchanged,    *)
(* release and pick give back or take what they found reserved.            *)
THEOREM ReservedIsOnHand == Spec => []ReservedOnHand
<1>1. OnHandInv => ReservedOnHand
  BY DEF OnHandInv, ReservedOnHand, Existing, Sound
<1> QED BY <1>1, CopiesAreSound, PTL

-----------------------------------------------------------------------------
(* The outbox and the reservations.                                        *)

(* A request stays what it was asked to be.                                *)
LEMMA OpKept ==
    ASSUME IInv, NEW s \in Sessions, Step(s)
    PROVE  job'[s].op \in OpsOf[s] \cup {"none", job[s].op}
<1> DEFINE Kept == job'[s].op \in OpsOf[s] \cup {"none", job[s].op}
<1>1. TypeOK /\ job[s] \in Job /\ NoJob \in Job
  BY NoJobJob DEF IInv, TypeOK
<1>2. ASSUME NEW step, NEW j, GoTo(s, step, j), j.op \in OpsOf[s] \cup {"none", job[s].op}
      PROVE  Kept
  BY <1>1, <1>2, Moved
<1>3. ASSUME NEW answer, Forget(s, answer) PROVE Kept
  BY <1>1, <1>3, Forgotten DEF NoJob
<1>4. Fail(s) => Kept
  BY <1>3 DEF Fail
<1>5. \A r, a : Conflict(s, r, a) => Kept
  BY <1>4 DEF Conflict
<1>6. \A u : Without(s, u).op = job[s].op
  BY <1>1, WithoutTyped
<1>7. CASE FindByID(s)
  <2>1. PICK op, r : /\ op \in OpsOf[s]
                    /\ \/ Forget(s, "err")
                       \/ GoTo(s, "due", [NoJob EXCEPT !.op = op, !.res = r, !.queue = {r}])
    BY <1>7 DEF FindByID
  <2>2. [NoJob EXCEPT !.op = op, !.res = r, !.queue = {r}].op = op
    BY DEF NoJob
  <2> QED BY <1>2, <1>3, <2>1, <2>2
<1>8. CASE GetReservations(s)
  <2>1. PICK demand : LookUpDemand(s, [NoJob EXCEPT !.op = "get", !.demand = demand])
    BY <1>8 DEF GetReservations
  <2>2. PICK found : GoTo(s, "due", [[NoJob EXCEPT !.op = "get", !.demand = demand] EXCEPT !.queue = found])
    BY <2>1 DEF LookUpDemand
  <2>3. [[NoJob EXCEPT !.op = "get", !.demand = demand] EXCEPT !.queue = found].op = "get"
    BY DEF NoJob
  <2> QED BY <1>2, <1>8, <2>2, <2>3 DEF GetReservations
<1>9. CASE ReserveStock(s)
  <2>1. PICK sku, qty, demand :
           LookUpDemand(s, [NoJob EXCEPT !.op = "reserve", !.sku = sku, !.qty = qty, !.demand = demand])
    BY <1>9 DEF ReserveStock
  <2> DEFINE j == [NoJob EXCEPT !.op = "reserve", !.sku = sku, !.qty = qty, !.demand = demand]
  <2>2. PICK found : GoTo(s, "due", [j EXCEPT !.queue = found])
    BY <2>1 DEF LookUpDemand
  <2>3. [j EXCEPT !.queue = found].op = "reserve"
    BY DEF NoJob
  <2> QED BY <1>2, <1>9, <2>2, <2>3 DEF ReserveStock
<1>10. CASE NotDue(s)
  <2>1. PICK r : GoTo(s, "due", [job[s] EXCEPT !.queue = @ \ {r}])
    BY <1>10 DEF NotDue
  <2>2. [job[s] EXCEPT !.queue = @ \ {r}].op = job[s].op
    BY <1>1 DEF Job
  <2> QED BY <1>2, <2>1, <2>2
<1>11. ASSUME NEW r, NEW act, Resolving(s, r, act) PROVE Kept
  <2> DEFINE j == [job[s] EXCEPT !.act = act, !.res = r, !.queue = @ \ {r},
                                 !.todo = Allocated(loaded[s][r]), !.rank = ById]
  <2>1. GoTo(s, "load", j)
    BY <1>11 DEF Resolving
  <2>2. j.op = job[s].op
    BY <1>1 DEF Job
  <2> QED BY <1>2, <2>1, <2>2
<1>12. CASE ExpireIfDue(s) \/ Decide(s)
  BY <1>4, <1>11, <1>12 DEF ExpireIfDue, Decide
<1>13. CASE LoadUnit(s) \/ LoadBin(s)
  BY <1>2, <1>4, <1>13 DEF LoadUnit, LoadBin
<1>14. CASE SaveUnit(s) \/ SaveBin(s) \/ SaveReservation(s) \/ SaveTouched(s)
  BY <1>2, <1>5, <1>6, <1>14 DEF SaveUnit, SaveBin, SaveReservation, SaveTouched
<1>15. CASE AnswerFound(s) \/ Reply(s)
  BY <1>3, <1>15 DEF AnswerFound, Reply
<1>16. CASE FindBySKU(s)
  <2>1. \/ Fail(s)
        \/ \E draw, order, todo :
              GoTo(s, "draw", [job[s] EXCEPT !.draw = draw, !.rank = order, !.todo = todo])
    BY <1>16 DEF FindBySKU
  <2>2. \A draw, order, todo : [job[s] EXCEPT !.draw = draw, !.rank = order, !.todo = todo].op = job[s].op
    BY <1>1 DEF Job
  <2>3. CASE Fail(s)
    BY <1>4, <2>3
  <2>4. CASE ~Fail(s)
    <3>1. PICK draw, order, todo :
             GoTo(s, "draw", [job[s] EXCEPT !.draw = draw, !.rank = order, !.todo = todo])
      BY <2>1, <2>4
    <3> DEFINE j == [job[s] EXCEPT !.draw = draw, !.rank = order, !.todo = todo]
    <3>2. GoTo(s, "draw", j) /\ j.op = job[s].op
      BY <2>2, <3>1
    <3> HIDE DEF j
    <3> QED BY <1>2, <3>2
  <2> QED BY <2>3, <2>4
<1>17. CASE CreateReservation(s)
  <2>1. PICK r : GoTo(s, "reply", [job[s] EXCEPT !.res = r])
    BY <1>17 DEF CreateReservation
  <2>2. [job[s] EXCEPT !.res = r].op = job[s].op
    BY <1>1 DEF Job
  <2> QED BY <1>2, <2>1, <2>2
<1>18. CASE StowStock(s)
  <2>1. PICK sku, qty, b :
           \/ Forget(s, "err")
           \/ GoTo(s, "place", [NoJob EXCEPT !.op = "stow", !.sku = sku, !.qty = qty, !.bin = b])
    BY <1>18 DEF StowStock
  <2>2. [NoJob EXCEPT !.op = "stow", !.sku = sku, !.qty = qty, !.bin = b].op = "stow"
    BY DEF NoJob
  <2> QED BY <1>2, <1>3, <1>18, <2>1, <2>2 DEF StowStock
<1>19. CASE RefusePlacement(s) \/ CheckSegregation(s) \/ SaveOccupied(s) \/ SaveStowed(s)
  BY <1>2, <1>4, <1>5, <1>19 DEF RefusePlacement, CheckSegregation, SaveOccupied, SaveStowed
<1>20. CASE RegisterBin(s)
  <2>1. PICK b, capacity :
           \/ Forget(s, "ok") \/ Forget(s, "err")
           \/ GoTo(s, "setbin", [NoJob EXCEPT !.op = "register", !.bin = b, !.qty = capacity])
    BY <1>20 DEF RegisterBin
  <2>2. [NoJob EXCEPT !.op = "register", !.bin = b, !.qty = capacity].op = "register"
    BY DEF NoJob
  <2> QED BY <1>2, <1>3, <1>20, <2>1, <2>2 DEF RegisterBin
<1>21. CASE SaveCapacity(s) \/ MarkUnit(s) \/ CountDone(s)
  BY <1>2, <1>5, <1>6, <1>21 DEF SaveCapacity, MarkUnit, CountDone
<1>22. CASE RunCycleCount(s)
  <2>1. PICK b, counted, M, order :
           GoTo(s, "mark", [NoJob EXCEPT !.op = "count", !.bin = b, !.qty = counted, !.todo = M, !.rank = order])
    BY <1>22 DEF RunCycleCount
  <2>2. [NoJob EXCEPT !.op = "count", !.bin = b, !.qty = counted, !.todo = M, !.rank = order].op = "count"
    BY DEF NoJob
  <2> QED BY <1>2, <1>22, <2>1, <2>2 DEF RunCycleCount
<1>23. CASE CommitScope(s) \/ DeadlockVictim(s)
  BY <1>2, <1>3, <1>23 DEF CommitScope, DeadlockVictim
<1>24. CASE ReservationStep(s)
  BY <1>7, <1>8, <1>9, <1>10, <1>12, <1>13, <1>14, <1>15, <1>16, <1>17, <1>24 DEF ReservationStep
<1>25. CASE PlacementStep(s)
  BY <1>18, <1>19, <1>20, <1>21, <1>22, <1>25 DEF PlacementStep
<1> QED BY <1>23, <1>24, <1>25 DEF Step

(* What a session resolves stays resolved while it writes it, and a pick a *)
(* pick.                                                                   *)
Resolute(s) == pc[s] \in Resolves => job[s].act # "ACTIVE" /\ (Picking(s) => job[s].op = "confirm")

(* A request does not change its mind while it resolves.                   *)
LEMMA ActKept ==
    ASSUME IInv, NEW s \in Sessions, Shape(s), Resolute(s)
    PROVE  Resolute(s)'
<1>1. TypeOK /\ job[s] \in Job
  BY DEF IInv, TypeOK
<1>2. \A u : Without(s, u).act = job[s].act /\ Without(s, u).op = job[s].op
  BY <1>1, WithoutTyped
<1>3. ASSUME pc[s] \in Resolves, job'[s].act = job[s].act, job'[s].op = job[s].op PROVE Resolute(s)'
  BY <1>3 DEF Resolute, Picking
<1>4. ASSUME pc'[s] \notin Resolves PROVE Resolute(s)'
  BY <1>4 DEF Resolute
<1>5. ASSUME NEW r \in Resvs, NEW act \in Status \ {"ACTIVE"}, Resolving(s, r, act),
             act = "CONFIRMED" => job[s].op = "confirm"
      PROVE  Resolute(s)'
  <2> PICK queue, todo : queue = job[s].queue \ {r} /\ todo = Allocated(loaded[s][r])
    OBVIOUS
  <2>1. GoTo(s, "load", [job[s] EXCEPT !.act = act, !.res = r, !.queue = queue, !.todo = todo, !.rank = ById])
    BY <1>5 DEF Resolving
  <2> DEFINE j == [job[s] EXCEPT !.act = act, !.res = r, !.queue = queue, !.todo = todo, !.rank = ById]
  <2>2. GoTo(s, "load", j) /\ j.act = act /\ j.op = job[s].op
    BY <1>1, <2>1 DEF Job
  <2> HIDE DEF j
  <2>3. job'[s].act = act /\ job'[s].op = job[s].op
    BY <1>1, <2>2, Moved
  <2> QED BY <1>5, <2>3 DEF Resolute, Picking
<1>6. CASE ReadsOnly(s) /\ Turns(s)
  <2>1. CASE pc'[s] \notin Resolves
    BY <1>4, <2>1
  <2>2. CASE pc[s] \in Resolves /\ job'[s] = job[s]
    BY <1>3, <2>2
  <2>3. CASE \E r \in Resvs, act \in Status \ {"ACTIVE"} :
                Resolving(s, r, act) /\ (act = "CONFIRMED" => job[s].op = "confirm")
    BY <1>5, <2>3
  <2> QED BY <1>6, <2>1, <2>2, <2>3 DEF Turns, Resolves, Finished, LoadUnit, LoadBin
<1>7. CASE Ends(s)
  BY <1>4, <1>7 DEF Ends, Resolves, Finished
<1>8. CASE \/ \E u \in Units : PicksUnit(s, u) \/ ReleasesUnit(s, u) \/ DrawsUnit(s, u) \/ MarksUnit(s, u)
           \/ \E u \in Units, b \in Bins : ReleasesBin(s, u, b)
  BY <1>2, <1>3, <1>4, <1>8 DEF PicksUnit, ReleasesUnit, DrawsUnit, MarksUnit, ReleasesBin, Resolves
<1>9. CASE \/ \E r \in Resvs : \E res : Resolved(s, r, res) \/ Created(s, r, res)
           \/ \E b \in Bins : OccupiesBin(s, b)
           \/ \E u \in Units : \E unit : StowsUnit(s, u, unit)
           \/ \E b \in Bins : \E bin : SetsBin(s, b, bin)
  BY <1>4, <1>9 DEF Resolved, Created, OccupiesBin, StowsUnit, SetsBin, Resolves
<1> QED BY <1>6, <1>7, <1>8, <1>9 DEF Shape

(* A step keeps what was asked.                                            *)
LEMMA AskedInductive == IInv /\ Asked /\ [Next]_vars => Asked'
<1> SUFFICES ASSUME IInv, Asked, [Next]_vars PROVE Asked'
  OBVIOUS
<1>1. ASSUME NEW s \in Sessions PROVE Resolute(s)'
  <2>1. Resolute(s)
    BY DEF Asked, Resolute
  <2>2. CASE UNCHANGED <<db, outbox, writes, pending, loaded, pc, job>>
    BY <2>1, <2>2 DEF Resolute, Picking
  <2>3. CASE \E o \in Sessions : Shape(o) /\ Alone(o)
    BY <2>1, <2>3, ActKept DEF Alone, Resolute, Picking
  <2> QED BY <2>2, <2>3, NextShape
<1>2. ASSUME NEW s \in Sessions PROVE job'[s].op \in OpsOf[s] \cup {"none"}
  <2>1. TypeOK /\ job[s].op \in OpsOf[s] \cup {"none"}
    BY DEF Asked, IInv
  <2>2. ASSUME NEW o \in Sessions, Step(o) PROVE job'[s].op \in OpsOf[s] \cup {"none"}
    <3>1. o # s => job'[s] = job[s]
      BY <2>2, StepKeeps DEF SessionKept
    <3>2. o = s => job'[s].op \in OpsOf[s] \cup {"none", job[s].op}
      BY <2>2, OpKept
    <3> QED BY <2>1, <3>1, <3>2
  <2>3. ASSUME NEW o \in Crashable, Crash(o) PROVE job'[s].op \in OpsOf[s] \cup {"none"}
    <3>1. o \in Sessions /\ GoTo(o, "err", NoJob)
      BY <2>3, CrashAssumption DEF Crash, Forget
    <3>2. job'[o] = NoJob /\ (o # s => job'[s] = job[s])
      BY <2>1, <3>1, Moved
    <3> QED BY <2>1, <3>2 DEF NoJob
  <2>4. CASE Tick \/ UNCHANGED vars
    BY <2>1, <2>4 DEF Tick, vars
  <2> QED BY <2>2, <2>3, <2>4 DEF Next
<1> QED BY <1>1, <1>2 DEF Asked, Resolute

(* Nothing has been asked at the start.                                    *)
LEMMA AskedInit == Init => Asked
BY DEF Init, Asked, NoJob, Resolves

(* Rows and events that agreed still do when neither changes.              *)
LEMMA TellSame ==
    ASSUME NEW before, NEW after, NEW r, NEW row, Tell(before, r, row), Endings(after, r) = Endings(before, r)
    PROVE  Tell(after, r, row)
<1>1. CASE row = Absent \/ IsActive(row)
  BY <1>1 DEF Tell
<1>2. CASE ~(row = Absent \/ IsActive(row))
  <2>1. PICK e \in before : Endings(before, r) = {e} /\ e.type = EventOf[row.status]
    BY <1>2 DEF Tell
  <2>2. e \in after
    BY <2>1 DEF Endings
  <2> QED BY <1>2, <2>1, <2>2 DEF Tell
<1> QED BY <1>1, <1>2

(* Only the events of a resolution tell of an ending.                      *)
LEMMA PublishedEndings ==
    ASSUME TypeOK, NEW s \in Sessions, NEW types, NEW key, Publish(s, types, key)
    PROVE  /\ outbox' = outbox
           /\ \A r : r # key \/ types \cap Terminal = {} => Endings(pending'[s], r) = Endings(pending[s], r)
<1> PICK new : new = {[type |-> t, key |-> key, by |-> s] : t \in types}
  OBVIOUS
<1>1. pending'[s] \in {pending[s], pending[s] \cup new} /\ outbox' = outbox
  BY DEF Publish, TypeOK
<1>2. ASSUME NEW r, r # key \/ types \cap Terminal = {} PROVE Endings(new, r) = {}
  BY <1>2 DEF Endings
<1>3. \A r : Endings(pending[s] \cup new, r) = Endings(pending[s], r) \cup Endings(new, r)
  BY DEF Endings
<1> QED BY <1>1, <1>2, <1>3

(* A step keeps the events in agreement that leaves its own events and the *)
(* table's so.                                                             *)
LEMMA EventsKept ==
    ASSUME EventsInv, NEW s \in Sessions, Alone(s),
           \A r \in Resvs : Tell(outbox', r, db'[r]) /\ Tell(pending'[s], r, writes'[s][r])
    PROVE  EventsInv'
<1>1. ASSUME NEW o \in Sessions, NEW r \in Resvs PROVE Tell(pending'[o], r, writes'[o][r])
  <2>1. CASE o = s
    BY <2>1
  <2>2. CASE o # s
    BY <2>2 DEF EventsInv, Alone
  <2> QED BY <2>1, <2>2
<1> QED BY <1>1 DEF EventsInv, Tell, Endings

(* So does one that writes no reservation and tells of no ending.          *)
LEMMA EventsQuiet ==
    ASSUME EventsInv, NEW s \in Sessions, Alone(s), outbox' = outbox,
           \A r \in Resvs : /\ db'[r] = db[r] /\ writes'[s][r] = writes[s][r]
                            /\ Endings(pending'[s], r) = Endings(pending[s], r)
    PROVE  EventsInv'
<1>1. ASSUME NEW r \in Resvs PROVE Tell(outbox', r, db'[r]) /\ Tell(pending'[s], r, writes'[s][r])
  <2>1. Tell(outbox, r, db[r]) /\ Tell(pending[s], r, writes[s][r])
    BY DEF EventsInv
  <2> QED BY <2>1, TellSame
<1> QED BY <1>1, EventsKept

(* A transaction that ends tells what its session has seen, or nothing.    *)
LEMMA EventsEnd ==
    ASSUME IInv, EventsInv, NEW s \in Sessions, Alone(s), Ends(s)
    PROVE  EventsInv'
<1>1. TypeOK /\ StoreInv /\ writes'[s] = NoRows /\ pending'[s] = {}
  BY EndsEffect DEF IInv, TypeOK, Ends, Commit, Rollback, CloseTx
<1>2. ASSUME NEW r \in Resvs
      PROVE  Tell(outbox', r, db'[r]) /\ Tell(pending'[s], r, writes'[s][r])
  <2>1. r \in Rows /\ Tell(outbox, r, db[r]) /\ Tell(pending[s], r, writes[s][r])
    BY <1>2 DEF Rows, EventsInv
  <2>2. Tell(pending'[s], r, writes'[s][r])
    BY <1>1, <2>1 DEF NoRows, Tell, Endings
  <2>3. CASE Rollback(s)
    BY <2>1, <2>2, <2>3 DEF Rollback
  <2>4. CASE Commit(s)
    <3>1. db'[r] = Visible(s, r) /\ outbox' = outbox \cup pending[s]
      BY <2>1, <2>4 DEF Commit
    <3>2. Endings(outbox', r) = Endings(outbox, r) \cup Endings(pending[s], r)
      BY <3>1 DEF Endings
    <3>3. CASE writes[s][r] = Absent
      <4>1. Endings(pending[s], r) = {} /\ db'[r] = db[r]
        BY <2>1, <3>1, <3>3 DEF Tell, Visible
      <4> QED BY <2>1, <2>2, <3>2, <4>1, TellSame
    <3>4. CASE writes[s][r] # Absent
      <4>1. Endings(outbox, r) = {}
        BY <1>1, <2>1, <3>4 DEF StoreInv, WritesActive, Tell
      <4>2. Endings(outbox', r) = Endings(pending[s], r) /\ db'[r] = writes[s][r]
        BY <3>1, <3>2, <3>4, <4>1 DEF Visible
      <4> QED BY <2>1, <2>2, <4>2, TellSame
    <3> QED BY <3>3, <3>4
  <2> QED BY <2>3, <2>4 DEF Ends
<1> QED BY <1>2, EventsKept

(* A reservation that is written changes what the transaction tells of it  *)
(* alone.                                                                  *)
LEMMA EventsPut ==
    ASSUME IInv, EventsInv, NEW s \in Sessions, Alone(s), NEW r \in Resvs, NEW res, Puts(s, r, res), InTx(s),
           NEW types, Publish(s, types, r), Tell(pending'[s], r, Stored(s, r, res))
    PROVE  EventsInv'
<1>1. TypeOK
  BY DEF IInv
<1>2. /\ outbox' = outbox
      /\ \A q \in Resvs : q # r => Endings(pending'[s], q) = Endings(pending[s], q)
  BY <1>1, PublishedEndings
<1>3. ASSUME NEW q \in Resvs
      PROVE  Tell(outbox', q, db'[q]) /\ Tell(pending'[s], q, writes'[s][q])
  <2>1. q \in Rows /\ Tell(outbox, q, db[q]) /\ Tell(pending[s], q, writes[s][q])
    BY <1>3 DEF Rows, EventsInv
  <2>2. CASE q = r
    <3>1. writes'[s][q] = Stored(s, r, res) /\ db'[q] = db[q]
      BY <2>2, PutsEffect
    <3> QED BY <1>2, <2>1, <2>2, <3>1
  <2>3. CASE q # r
    <3>1. writes'[s][q] = writes[s][q] /\ db'[q] = db[q]
      BY <2>1, <2>3, PutsEffect
    <3> QED BY <1>2, <2>1, <2>3, <3>1, TellSame
  <2> QED BY <2>2, <2>3
<1> QED BY <1>3, EventsKept

(* A resolution publishes the one event of how the reservation ended.      *)
LEMMA EventsResolved ==
    ASSUME IInv, Asked, EventsInv, NEW s \in Sessions, Alone(s), Scope(job[s].op) # "none",
           NEW r \in Resvs, NEW res, Resolved(s, r, res)
    PROVE  EventsInv'
<1> PICK act : act = job[s].act
  OBVIOUS
<1>1. /\ TypeOK /\ pc[s] = "load" /\ r = job[s].res /\ r \in Rows
      /\ loaded[s][r] \in Reservation /\ res = ResolveAs(loaded[s][r], act)
      /\ Puts(s, r, res) /\ Publish(s, {EventOf[act]}, r)
  BY DEF IInv, Resolved, Rows
<1>2. InTx(s)
  <2>1. Scope(job[s].op) \in {"joined", "own"}
    BY DEF Scope
  <2> QED BY <1>1, <2>1 DEF InTx, ScopeSteps
<1>3. act \in Status /\ act # "ACTIVE"
  BY <1>1 DEF Asked, Resolves, TypeOK, Job
<1>4. EventOf[act] \in Terminal
  BY <1>3 DEF EventOf, Terminal, Status
<1>5. IsActive(loaded[s][r]) /\ Has(s, r)
  BY <1>1 DEF IInv, Control, ResolvesActive, Resolves
<1>6. Visible(s, r) = loaded[s][r]
  BY <1>1, <1>5, PutsEffect
<1>7. Endings(pending[s], r) = {}
  BY <1>5, <1>6 DEF EventsInv, Tell, Visible
<1>8. Stored(s, r, res).status = act /\ Stored(s, r, res) # Absent
  <2>1. res \in Reservation /\ res.status = act
    BY <1>1, <1>3 DEF ResolveAs, Reservation
  <2> QED BY <1>1, <2>1, StoredFields, PutsEffect
<1>9. PICK e : e = [type |-> EventOf[act], key |-> r, by |-> s]
  OBVIOUS
<1>10. pending'[s] = pending[s] \cup {e}
  BY <1>1, <1>2, <1>9 DEF Publish, TypeOK
<1>11. Endings(pending'[s], r) = {e} /\ e \in pending'[s] /\ e.type = EventOf[act]
  BY <1>4, <1>7, <1>9, <1>10 DEF Endings
<1>12. Tell(pending'[s], r, Stored(s, r, res))
  BY <1>3, <1>8, <1>11 DEF Tell, IsActive
<1> QED BY <1>1, <1>2, <1>12, EventsPut

(* A new reservation has no ending to tell of.                             *)
LEMMA EventsCreated ==
    ASSUME IInv, EventsInv, NEW s \in Sessions, Alone(s), NEW r \in Resvs, NEW res, Created(s, r, res)
    PROVE  EventsInv'
<1>1. /\ TypeOK /\ pc[s] = "draw" /\ Unused(r) /\ r \in Rows
      /\ Puts(s, r, res) /\ Publish(s, {"StockReserved"}, r) /\ res.status = "ACTIVE"
  BY DEF IInv, Created, Rows, NewReservation
<1>2. InTx(s)
  BY <1>1 DEF IInv, Control, InTx, Scope
<1>3. writes[s][r] = Absent /\ Visible(s, r) = Absent
  BY <1>1 DEF Unused, Visible
<1>4. Stored(s, r, res) = res
  BY <1>1, <1>3, PutsEffect
<1>5. Endings(pending'[s], r) = {}
  <2>1. Endings(pending[s], r) = {}
    BY <1>3 DEF EventsInv, Tell
  <2>2. {"StockReserved"} \cap Terminal = {}
    BY DEF Terminal
  <2> QED BY <1>1, <2>1, <2>2, PublishedEndings
<1>6. Tell(pending'[s], r, Stored(s, r, res))
  BY <1>1, <1>4, <1>5 DEF Tell, IsActive
<1> QED BY <1>1, <1>2, <1>6, EventsPut

(* A write of a unit or a bin leaves the reservations alone.               *)
LEMMA EventsElsewhere ==
    ASSUME IInv, EventsInv, NEW s \in Sessions, Alone(s), NEW q \in Units \cup Bins, NEW a, Puts(s, q, a),
           \/ UNCHANGED <<outbox, pending>>
           \/ \E types : types \cap Terminal = {} /\ Publish(s, types, q)
    PROVE  EventsInv'
<1>1. outbox' = outbox /\ \A r \in Resvs : Endings(pending'[s], r) = Endings(pending[s], r)
  BY PublishedEndings DEF IInv
<1>2. \A r \in Resvs : db'[r] = db[r] /\ writes'[s][r] = writes[s][r]
  <2>1. \A r \in Resvs : r \in Rows \ {q}
    BY RowsAssumption DEF Rows
  <2> QED BY <2>1, PutsEffect
<1> QED BY <1>1, <1>2, EventsQuiet

(* A session's step keeps rows and events in accord.                       *)
LEMMA EventsStep ==
    ASSUME IInv, Asked, EventsInv, NEW s \in Sessions, Shape(s), Alone(s), Scope(job[s].op) # "none"
    PROVE  EventsInv'
<1>1. CASE ReadsOnly(s) /\ Turns(s)
  <2>1. pending' = pending \/ CountDone(s)
    BY <1>1 DEF Turns
  <2>2. \A r \in Resvs : Endings(pending'[s], r) = Endings(pending[s], r)
    <3>1. CASE CountDone(s)
      <4>1. PICK types, b : Publish(s, types, b) /\ types \subseteq {"CycleCountCompleted", "DiscrepancyDetected"}
        BY <3>1 DEF CountDone
      <4>2. types \cap Terminal = {}
        BY <4>1 DEF Terminal
      <4> QED BY <4>1, <4>2, PublishedEndings DEF IInv
    <3> QED BY <2>1, <3>1
  <2> QED BY <1>1, <2>2, EventsQuiet DEF ReadsOnly
<1>2. CASE Ends(s)
  BY <1>2, EventsEnd
<1>3. CASE \E u \in Units : PicksUnit(s, u) \/ ReleasesUnit(s, u) \/ DrawsUnit(s, u)
  <2>1. \E u \in Units : \E unit : Puts(s, u, unit) /\ UNCHANGED <<outbox, pending>>
    BY <1>3 DEF PicksUnit, ReleasesUnit, DrawsUnit
  <2> QED BY <2>1, EventsElsewhere
<1>4. CASE \E u \in Units : MarksUnit(s, u) \/ \E unit : StowsUnit(s, u, unit)
  <2>1. \E u \in Units : \E unit : Puts(s, u, unit) /\ \E types : types \cap Terminal = {} /\ Publish(s, types, u)
    <3>1. {"ItemUnlocated"} \cap Terminal = {} /\ {"ItemStowed", "LocationRecorded"} \cap Terminal = {}
      BY DEF Terminal
    <3> QED BY <1>4, <3>1 DEF MarksUnit, StowsUnit
  <2> QED BY <2>1, EventsElsewhere
<1>5. CASE \/ \E u \in Units, b \in Bins : ReleasesBin(s, u, b)
           \/ \E b \in Bins : OccupiesBin(s, b) \/ \E bin : SetsBin(s, b, bin)
  <2>1. \E b \in Bins : \E bin : Puts(s, b, bin) /\ UNCHANGED <<outbox, pending>>
    BY <1>5 DEF ReleasesBin, OccupiesBin, SetsBin
  <2> QED BY <2>1, EventsElsewhere
<1>6. CASE \E r \in Resvs : \E res : Resolved(s, r, res) \/ Created(s, r, res)
  BY <1>6, EventsResolved, EventsCreated
<1> QED BY <1>1, <1>2, <1>3, <1>4, <1>5, <1>6 DEF Shape

(* No request comes from MCP's process, which has no unit of work.         *)
Transactional == \A s \in Sessions : "mcp_revoke" \notin OpsOf[s]

(* So does every step.                                                     *)
LEMMA EventsInductive == Transactional /\ IInv /\ Asked /\ EventsInv /\ [Next]_vars => EventsInv'
<1> SUFFICES ASSUME Transactional, IInv, Asked, EventsInv, [Next]_vars PROVE EventsInv'
  OBVIOUS
<1>1. \A s \in Sessions : Scope(job[s].op) # "none"
  <2>1. \A s \in Sessions : job[s].op # "mcp_revoke"
    BY DEF Transactional, Asked
  <2> QED BY <2>1 DEF Scope
<1>2. CASE UNCHANGED <<db, outbox, writes, pending, loaded, pc, job>>
  BY <1>2 DEF EventsInv, Tell, Endings
<1>3. CASE \E s \in Sessions : Shape(s) /\ Alone(s)
  BY <1>1, <1>3, EventsStep
<1> QED BY <1>2, <1>3, NextShape

(* The empty outbox tells of nothing, and nothing has ended.               *)
LEMMA EventsInit == Init => EventsInv
<1> SUFFICES ASSUME Init PROVE EventsInv
  OBVIOUS
<1>1. /\ outbox = {} /\ \A s \in Sessions : pending[s] = {} /\ \A r \in Resvs : writes[s][r] = Absent
      /\ \A r \in Resvs : db[r] # Absent => IsActive(db[r])
  BY DatabasesAssumption DEF Init, NoRows, Rows
<1> QED BY <1>1 DEF EventsInv, Tell, Endings

(* Every open transaction has inserted the events of the reservations it   *)
(* has resolved, and no others: what it commits or rolls back matches.     *)
THEOREM EventsGoWithRows == Transactional => (Spec => []EventsInv)
<1> SUFFICES ASSUME Transactional PROVE Spec => []EventsInv
  OBVIOUS
<1>1. Init => IInv /\ Asked /\ EventsInv
  BY InitEstablishesInvariant, AskedInit, EventsInit
<1>2. (IInv /\ Asked /\ EventsInv) /\ [Next]_vars => (IInv /\ Asked /\ EventsInv)'
  BY AskedInductive, EventsInductive, NextKeepsInvariant
<1> QED BY <1>1, <1>2, PTL DEF Spec

(* The outbox tells how each reservation ended, once, for any number of    *)
(* requests that run in transactions: the event is inserted with the row   *)
(* it tells of, and the row is rewritten only while it is ACTIVE.          *)
THEOREM EndingsAreTold == Transactional => (Spec => []OutboxMatches)
<1> SUFFICES ASSUME Transactional PROVE Spec => []OutboxMatches
  OBVIOUS
<1>1. Spec => []EventsInv
  BY EventsGoWithRows
<1>2. EventsInv => OutboxMatches
  BY DEF EventsInv, Tell, Endings, OutboxMatches, Existing
<1> QED BY <1>1, <1>2, PTL

-----------------------------------------------------------------------------
(* Hazard classes in a bin.                                                *)

(* A unit is rewritten from the copy in memory, in its place.              *)
Rewrites(s, u, a) ==
    /\ u \in Units /\ u \in Rows /\ Has(s, u) /\ loaded[s][u] \in StockUnit /\ a \in StockUnit
    /\ a.sku = loaded[s][u].sku /\ a.bin = loaded[s][u].bin
    /\ Puts(s, u, a) /\ loaded' = loaded
    /\ pc[s] # "commit" /\ pc'[s] \in {"bin", "load", "draw", "mark"}

(* A row is written that is no unit, and no stow's bin.                    *)
WritesAside(s, r, a) ==
    /\ r \in Bins \cup Resvs /\ r \in Rows /\ r \notin Units /\ Puts(s, r, a)
    /\ \A u \in Units : loaded'[s][u] = loaded[s][u]
    /\ pc[s] # "commit" /\ pc'[s] \in {"load", "commit", "reply"}

(* The steps of a session, by what they mean to the units in the bins.     *)
LEMMA StowShape ==
    ASSUME TypeOK, NEW s \in Sessions, Shape(s)
    PROVE  \/ ReadsOnly(s) /\ Turns(s)
           \/ Ends(s)
           \/ \E u \in Units : \E a : Rewrites(s, u, a)
           \/ \E r \in Bins \cup Resvs : \E a : WritesAside(s, r, a)
           \/ \E b \in Bins : OccupiesBin(s, b)
           \/ \E u \in Units : \E unit : StowsUnit(s, u, unit)
<1>1. ASSUME NEW u \in Units, NEW a, Puts(s, u, a), loaded[s][u] \in StockUnit, loaded' = loaded,
             a.sku = loaded[s][u].sku, a.bin = loaded[s][u].bin,
             pc[s] # "commit", pc'[s] \in {"bin", "load", "draw", "mark"}
      PROVE  Rewrites(s, u, a)
  <2>1. a \in StockUnit
    BY <1>1, RowsAssumption DEF Puts, TypedRow
  <2> QED BY <1>1, <2>1, NotAbsent DEF Rewrites, Has, Rows
<1>2. ASSUME NEW unit \in StockUnit, NEW n
      PROVE  /\ Pick(unit, n).sku = unit.sku /\ Pick(unit, n).bin = unit.bin
             /\ ReleaseReservation(unit, n).sku = unit.sku /\ ReleaseReservation(unit, n).bin = unit.bin
             /\ Reserve(unit, n).sku = unit.sku /\ Reserve(unit, n).bin = unit.bin
             /\ MarkUnlocated(unit).sku = unit.sku /\ MarkUnlocated(unit).bin = unit.bin
  BY DEF StockUnit, Pick, ReleaseReservation, Reserve, MarkUnlocated
<1>3. ASSUME NEW u \in Units, PicksUnit(s, u) \/ ReleasesUnit(s, u) \/ DrawsUnit(s, u) \/ MarksUnit(s, u)
      PROVE  \E a : Rewrites(s, u, a)
  <2>1. CASE PicksUnit(s, u)
    BY <1>1, <1>2, <2>1 DEF PicksUnit
  <2>2. CASE ReleasesUnit(s, u)
    BY <1>1, <1>2, <2>2 DEF ReleasesUnit
  <2>3. CASE DrawsUnit(s, u)
    BY <1>1, <1>2, <2>3 DEF DrawsUnit
  <2>4. CASE MarksUnit(s, u)
    BY <1>1, <1>2, <2>4 DEF MarksUnit
  <2> QED BY <1>3, <2>1, <2>2, <2>3, <2>4
<1>4. ASSUME NEW r \in Bins \cup Resvs, NEW a, Puts(s, r, a), \A u \in Units : loaded'[s][u] = loaded[s][u],
             pc[s] # "commit", pc'[s] \in {"load", "commit", "reply"}
      PROVE  WritesAside(s, r, a)
  BY <1>4, RowsAssumption DEF WritesAside, Rows
<1>5. ASSUME NEW u \in Units, NEW b \in Bins, ReleasesBin(s, u, b)
      PROVE  WritesAside(s, b, ReleaseBin(loaded[s][b], Share(s, u)))
  BY <1>4, <1>5 DEF ReleasesBin
<1>6. ASSUME NEW r \in Resvs, NEW res, Resolved(s, r, res) \/ Created(s, r, res)
      PROVE  WritesAside(s, r, res)
  <2>1. CASE Resolved(s, r, res)
    <3>1. Puts(s, r, res) /\ pc[s] = "load" /\ pc'[s] = "commit" /\ loaded' = [loaded EXCEPT ![s][r] = res]
      BY <2>1 DEF Resolved
    <3>2. \A u \in Units : loaded'[s][u] = loaded[s][u]
      BY <3>1, RowsAssumption DEF TypeOK, Tables
    <3> QED BY <1>4, <3>1, <3>2
  <2>2. CASE Created(s, r, res)
    BY <1>4, <2>2 DEF Created
  <2> QED BY <1>6, <2>1, <2>2
<1>7. ASSUME NEW b \in Bins, NEW bin, SetsBin(s, b, bin)
      PROVE  WritesAside(s, b, bin)
  BY <1>4, <1>7 DEF SetsBin
<1> QED BY <1>3, <1>5, <1>6, <1>7 DEF Shape

(* What a step may do to the committed table: no row goes, one that        *)
(* changes gets a newer version, one another transaction has written stays,*)
(* and a unit appears only when the transaction that adds it commits.      *)
TableMoves(s) ==
    /\ \A q \in Rows : db[q] # Absent =>
          db'[q] # Absent /\ (db'[q] = db[q] \/ db'[q].version > db[q].version)
    /\ \A o \in Sessions \ {s}, q \in Rows : writes[o][q] # Absent => db'[q] = db[q]
    /\ \A u \in Units : Alike(db'[u], db[u])
    /\ \A u \in Units : db[u] = Absent /\ db'[u] # Absent =>
          AddsUnit(s, u) /\ \A q \in Rows : db'[q] = Visible(s, q)

(* A step that leaves the table.                                           *)
LEMMA TableSame ==
    ASSUME NEW s, db' = db
    PROVE  TableMoves(s)
BY DEF TableMoves, Alike

(* A transaction that ends.                                                *)
LEMMA TableEnds ==
    ASSUME IInv, UnitsAlike, NEW s \in Sessions, Ends(s)
    PROVE  TableMoves(s)
<1>1. CASE db' = db
  BY <1>1, TableSame
<1>2. CASE \A q \in Rows : db'[q] = Visible(s, q)
  <2>1. ASSUME NEW q \in Rows, db[q] # Absent
        PROVE  db'[q] # Absent /\ (db'[q] = db[q] \/ db'[q].version > db[q].version)
    BY <1>2, <2>1 DEF Visible, IInv, StoreInv, Newer
  <2>2. ASSUME NEW o \in Sessions \ {s}, NEW q \in Rows, writes[o][q] # Absent
        PROVE  db'[q] = db[q]
    BY <1>2, <2>2 DEF Visible, IInv, StoreInv, Exclusive
  <2>3. ASSUME NEW u \in Units
        PROVE  /\ Alike(db'[u], db[u])
               /\ db[u] = Absent /\ db'[u] # Absent => AddsUnit(s, u)
    <3>1. u \in Rows /\ Alike(writes[s][u], db[u])
      BY DEF Rows, UnitsAlike
    <3> QED BY <1>2, <3>1 DEF Visible, Alike, AddsUnit
  <2> QED BY <1>2, <2>1, <2>2, <2>3 DEF TableMoves
<1> QED BY <1>1, <1>2, EndsEffect

(* A Save of a unit that keeps its place, or of another row.               *)
LEMMA TablePuts ==
    ASSUME IInv, NEW s \in Sessions, NEW r, NEW a, Puts(s, r, a),
           r \in Units => /\ Has(s, r) /\ loaded[s][r] \in StockUnit /\ a \in StockUnit
                          /\ a.sku = loaded[s][r].sku /\ a.bin = loaded[s][r].bin
    PROVE  TableMoves(s)
<1> PICK v : v = Stored(s, r, a)
  OBVIOUS
<1>1. TypeOK /\ r \in Rows /\ Hit(s, r, a) /\ a # Absent /\ TypedRow(r, a)
  BY DEF IInv, Puts, Save
<1>2. v # Absent /\ (Visible(s, r) # Absent => v.version = Visible(s, r).version + 1 /\ Visible(s, r).version \in Nat)
  BY <1>1, StoredRow
<1>3. CASE db' = db
  BY <1>3, TableSame
<1>4. CASE db' # db
  <2>1. ~InTx(s) /\ db' = [db EXCEPT ![r] = v]
    BY <1>4 DEF Puts, Save
  <2>2. Visible(s, r) = db[r]
    BY <1>1, <2>1, PutsEffect DEF Visible
  <2>3. db'[r] = v /\ \A q \in Rows : q # r => db'[q] = db[q]
    BY <1>1, <2>1 DEF TypeOK, Tables
  <2>4. ASSUME NEW q \in Rows, db[q] # Absent
        PROVE  db'[q] # Absent /\ (db'[q] = db[q] \/ db'[q].version > db[q].version)
    BY <1>2, <2>2, <2>3, <2>4
  <2>5. \A o \in Sessions \ {s} : writes[o][r] = Absent
    BY PutsEffect
  <2>6. ASSUME r \in Units PROVE db[r] # Absent /\ v.sku = db[r].sku /\ v.bin = db[r].bin
    <3>1. db[r] = loaded[s][r] /\ db[r] # Absent
      BY <2>2, <2>6, PutsEffect DEF Has
    <3>2. v.sku = a.sku /\ v.bin = a.bin
      BY <1>1, <2>6, StoredFields
    <3> QED BY <2>6, <3>1, <3>2
  <2>7. ASSUME NEW u \in Units
        PROVE  Alike(db'[u], db[u]) /\ ~(db[u] = Absent /\ db'[u] # Absent)
    <3>1. u \in Rows
      BY DEF Rows
    <3> QED BY <2>3, <2>6, <3>1 DEF Alike
  <2> QED BY <2>3, <2>4, <2>5, <2>7 DEF TableMoves
<1> QED BY <1>3, <1>4

(* A stowed unit waits for the commit.                                     *)
LEMMA StowsInTx ==
    ASSUME IInv, NEW s \in Sessions, pc[s] \in {"putbin", "putunit"}
    PROVE  InTx(s)
BY DEF IInv, Control, InTx, Scope, ScopeSteps

(* Every step.                                                             *)
LEMMA TableStep ==
    ASSUME IInv, UnitsAlike, NEW s \in Sessions, Shape(s)
    PROVE  TableMoves(s)
<1>1. CASE ReadsOnly(s)
  BY <1>1, TableSame DEF ReadsOnly
<1>2. CASE Ends(s)
  BY <1>2, TableEnds
<1>3. ASSUME NEW u \in Units, NEW a, Rewrites(s, u, a) PROVE TableMoves(s)
  BY <1>3, TablePuts DEF Rewrites
<1>4. ASSUME NEW r \in Bins \cup Resvs, NEW a, WritesAside(s, r, a) PROVE TableMoves(s)
  BY <1>4, TablePuts DEF WritesAside
<1>5. CASE \/ \E b \in Bins : OccupiesBin(s, b)
           \/ \E u \in Units : \E unit : StowsUnit(s, u, unit)
  <2>1. pc[s] \in {"putbin", "putunit"} /\ \E r, a : Save(s, r, a)
    BY <1>5 DEF OccupiesBin, StowsUnit, Puts
  <2>2. db' = db
    BY <2>1, StowsInTx DEF Save
  <2> QED BY <2>2, TableSame
<1> QED BY <1>1, <1>2, <1>3, <1>4, <1>5, StowShape DEF IInv

(* What another session knows of the units stays so.                       *)
LEMMA AlikeAlone ==
    ASSUME IInv, UnitsAlike, NEW s \in Sessions, Alone(s), TableMoves(s), NEW o \in Sessions \ {s}, NEW u \in Units
    PROVE  Alike(writes'[o][u], db'[u]) /\ Alike(loaded'[o][u], Visible(o, u)')
<1>1. writes'[o] = writes[o] /\ loaded'[o] = loaded[o] /\ u \in Rows
  BY DEF Alone, Rows
<1>2. Alike(writes[o][u], db[u]) /\ Alike(loaded[o][u], Visible(o, u)) /\ Alike(db'[u], db[u])
  BY DEF UnitsAlike, TableMoves
<1>3. loaded[o][u] # Absent => Visible(o, u) # Absent
  BY <1>1 DEF IInv, StoreInv, Snapshot
<1>4. CASE writes[o][u] # Absent
  <2>1. db'[u] = db[u]
    BY <1>1, <1>4 DEF TableMoves
  <2> QED BY <1>1, <1>2, <2>1 DEF Visible
<1>5. CASE writes[o][u] = Absent
  BY <1>1, <1>2, <1>3, <1>5 DEF Visible, Alike
<1> QED BY <1>4, <1>5

(* A unit never changes its SKU or its bin.                                *)
LEMMA AlikeStep ==
    ASSUME IInv, UnitsAlike, NEW s \in Sessions, Shape(s), Alone(s)
    PROVE  UnitsAlike'
<1>1. \A u \in Units : u \in Rows /\ Alike(writes[s][u], db[u]) /\ Alike(loaded[s][u], Visible(s, u))
  BY DEF UnitsAlike, Rows
<1>2. ASSUME NEW u \in Units
      PROVE  Alike(writes'[s][u], db'[u]) /\ Alike(loaded'[s][u], Visible(s, u)')
  <2>1. CASE ReadsOnly(s)
    BY <1>1, <2>1 DEF ReadsOnly, Visible, Alike
  <2>2. CASE Ends(s)
    <3>1. writes'[s][u] = Absent /\ db'[u] \in {Visible(s, u), db[u]} /\ loaded'[s][u] \in {Absent, loaded[s][u]}
      BY <1>1, <2>2, EndsEffect
    <3> QED BY <1>1, <3>1 DEF Visible, Alike
  <2>3. ASSUME NEW v \in Units, NEW a, Rewrites(s, v, a)
        PROVE  Alike(writes'[s][u], db'[u]) /\ Alike(loaded'[s][u], Visible(s, u)')
    <3>1. Puts(s, v, a) /\ loaded' = loaded
      BY <2>3 DEF Rewrites
    <3>2. CASE u # v
      <4>1. writes'[s][u] = writes[s][u] /\ db'[u] = db[u]
        BY <1>1, <3>1, <3>2, PutsEffect
      <4> QED BY <1>1, <3>1, <4>1 DEF Visible
    <3>3. CASE u = v
      <4>1. Alike(Stored(s, u, a), loaded[s][u])
        BY <1>1, <2>3, <3>3, StoredFields DEF Rewrites, Alike, IInv
      <4>2. Visible(s, u) = loaded[s][u] /\ Visible(s, u)' = Stored(s, u, a) /\ loaded[s][u] # Absent
        BY <2>3, <3>1, <3>3, PutsEffect DEF Rewrites, Has
      <4>3. \/ writes'[s][u] = Stored(s, u, a) /\ db'[u] = db[u]
            \/ writes'[s][u] = Absent
        BY <3>1, <3>3, PutsEffect
      <4> QED BY <1>1, <3>1, <4>1, <4>2, <4>3 DEF Visible, Alike
    <3> QED BY <3>2, <3>3
  <2>4. ASSUME NEW r, r # u, NEW a, Puts(s, r, a), loaded'[s][u] = loaded[s][u]
        PROVE  Alike(writes'[s][u], db'[u]) /\ Alike(loaded'[s][u], Visible(s, u)')
    <3>1. writes'[s][u] = writes[s][u] /\ db'[u] = db[u]
      BY <1>1, <2>4, PutsEffect
    <3> QED BY <1>1, <2>4, <3>1 DEF Visible
  <2>5. ASSUME NEW r \in Bins \cup Resvs, NEW a, WritesAside(s, r, a)
        PROVE  Alike(writes'[s][u], db'[u]) /\ Alike(loaded'[s][u], Visible(s, u)')
    BY <2>4, <2>5 DEF WritesAside
  <2>6. ASSUME NEW b \in Bins, OccupiesBin(s, b)
        PROVE  Alike(writes'[s][u], db'[u]) /\ Alike(loaded'[s][u], Visible(s, u)')
    BY <2>4, <2>6, RowsAssumption DEF OccupiesBin
  <2>7. ASSUME NEW v \in Units, NEW unit, StowsUnit(s, v, unit)
        PROVE  Alike(writes'[s][u], db'[u]) /\ Alike(loaded'[s][u], Visible(s, u)')
    <3>1. Puts(s, v, unit) /\ loaded' = loaded /\ Unused(v)
      BY <2>7 DEF StowsUnit
    <3>2. CASE u # v
      BY <2>4, <3>1, <3>2
    <3>3. CASE u = v
      <4>1. InTx(s) /\ db'[u] = Absent
        BY <1>1, <2>7, <3>1, <3>3, StowsInTx, PutsEffect DEF StowsUnit, Unused
      <4>2. loaded[s][u] = Absent
        BY <1>1, <3>1, <3>3 DEF Unused, Visible, IInv, StoreInv, Snapshot
      <4> QED BY <3>1, <4>1, <4>2 DEF Alike
    <3> QED BY <3>2, <3>3
  <2> QED BY <2>1, <2>2, <2>3, <2>5, <2>6, <2>7, StowShape DEF IInv
<1>3. TableMoves(s)
  BY TableStep
<1> QED BY <1>2, <1>3, AlikeAlone DEF UnitsAlike

(* What is in a bin another transaction has written stays what it was.     *)
LEMMA HeldBinStays ==
    ASSUME IInv, UnitsAlike, AddingInv, NEW s \in Sessions, TableMoves(s), NEW b \in Bins,
           \/ \E o \in Sessions \ {s} : writes[o][b] # Absent
           \/ db' = db
           \/ db'[b] = db[b] /\ db[b] # Absent,
           NEW sku, Compatible(sku, b)
    PROVE  Compatible(sku, b)'
<1>1. b \in Rows
  BY DEF Rows
<1>2. ASSUME NEW v \in Units, db'[v] # Absent, db'[v].bin = b
      PROVE  db[v] # Absent /\ db'[v].sku = db[v].sku /\ db[v].bin = b
  <2>1. Alike(db'[v], db[v])
    BY DEF TableMoves
  <2>2. ASSUME db[v] = Absent PROVE FALSE
    <3>1. AddsUnit(s, v) /\ (\A q \in Rows : db'[q] = Visible(s, q)) /\ v \in Rows
      BY <1>2, <2>2 DEF TableMoves, Rows
    <3>2. writes[s][b] # Absent
      BY <1>2, <3>1 DEF AddingInv, Visible, AddsUnit
    <3>3. db'[b] = writes[s][b]
      BY <1>1, <3>1, <3>2 DEF Visible
    <3>4. db[b] # Absent => db'[b] # db[b]
      <4>1. ASSUME db[b] # Absent PROVE writes[s][b].version > db[b].version /\ db[b].version \in Nat
        BY <1>1, <3>2, <4>1, RowKinds DEF IInv, StoreInv, Newer, TypeOK
      <4> QED BY <3>3, <4>1
    <3> QED BY <1>1, <1>2, <2>2, <3>2, <3>4 DEF IInv, StoreInv, Exclusive
  <2> QED BY <1>2, <2>1, <2>2 DEF Alike
<1> QED BY <1>2 DEF Compatible, InBin

(* The transaction of a stow holds its bin until it commits.               *)
LEMMA AddingStep ==
    ASSUME IInv, UnitsAlike, AddingInv, StowInv, NEW s \in Sessions, Shape(s), Alone(s), Orderly(s)
    PROVE  AddingInv'
<1>1. TypeOK /\ TableMoves(s) /\ \A u \in Units : u \in Rows
  BY TableStep DEF IInv, Rows
<1>2. ASSUME NEW o \in Sessions \ {s}, NEW u \in Units, AddsUnit(o, u)'
      PROVE  /\ pc'[o] = "commit" /\ job'[o].op = "stow"
             /\ writes'[o][writes'[o][u].bin] # Absent
             /\ Compatible(writes[o][u].sku, writes[o][u].bin)'
             /\ \A v \in Units : writes'[o][v] # Absent => v = u
  <2> PICK sku, b : sku = writes[o][u].sku /\ b = writes[o][u].bin
    OBVIOUS
  <2>1. writes'[o] = writes[o] /\ pc'[o] = pc[o] /\ job'[o] = job[o]
    BY DEF Alone
  <2>2. AddsUnit(o, u)
    BY <1>1, <1>2, <2>1 DEF AddsUnit, TableMoves
  <2>3. writes[o][u] \in StockUnit
    BY <1>1, <2>2, RowKinds DEF TypeOK, AddsUnit
  <2>4. b \in Bins
    BY <2>3 DEF StockUnit
  <2>5. /\ pc[o] = "commit" /\ job[o].op = "stow" /\ writes[o][b] # Absent /\ Compatible(sku, b)
        /\ \A v \in Units : writes[o][v] # Absent => v = u
    BY <2>2 DEF AddingInv
  <2>6. Compatible(sku, b)'
    BY <1>1, <2>4, <2>5, HeldBinStays
  <2> QED BY <2>1, <2>5, <2>6 DEF Compatible
<1>3. ASSUME pc[s] # "commit", NEW r, NEW a, Puts(s, r, a), NEW u \in Units, AddsUnit(s, u)',
             r \in Units => Visible(s, r) # Absent
      PROVE  FALSE
  <2>1. \A v \in Units : ~AddsUnit(s, v)
    BY <1>3 DEF AddingInv
  <2>2. db[u] = Absent
    BY <1>1, <1>3 DEF AddsUnit, TableMoves
  <2>3. CASE u = r
    BY <1>3, <2>1, <2>2, <2>3 DEF Visible, AddsUnit
  <2>4. CASE u # r
    <3>1. writes'[s][u] = writes[s][u]
      BY <1>1, <1>3, <2>4, PutsEffect
    <3> QED BY <1>3, <2>1, <2>2, <3>1 DEF AddsUnit
  <2> QED BY <2>3, <2>4
<1>4. ASSUME NEW u \in Units, AddsUnit(s, u)'
      PROVE  /\ pc'[s] = "commit" /\ job'[s].op = "stow"
             /\ writes'[s][writes'[s][u].bin] # Absent
             /\ \E sku, b : /\ sku = writes'[s][u].sku /\ b = writes'[s][u].bin /\ b \in Bins
                            /\ Compatible(sku, b)'
             /\ \A v \in Units : writes'[s][v] # Absent => v = u
  <2>1. CASE Ends(s)
    BY <1>1, <1>4, <2>1, EndsEffect DEF AddsUnit
  <2>2. CASE ReadsOnly(s) /\ ~Ends(s)
    <3>1. AddsUnit(s, u)
      BY <1>4, <2>2 DEF ReadsOnly, AddsUnit
    <3>2. pc[s] = "commit" /\ Scope(job[s].op) = "own"
      BY <3>1 DEF AddingInv, Scope
    <3> QED BY <2>2, <3>2 DEF Orderly
  <2>3. ASSUME NEW v \in Units, NEW a, Rewrites(s, v, a) PROVE FALSE
    <3>1. Visible(s, v) # Absent
      BY <2>3, PutsEffect DEF Rewrites, Has
    <3> QED BY <1>3, <1>4, <2>3, <3>1 DEF Rewrites
  <2>4. ASSUME NEW r \in Bins \cup Resvs, NEW a, WritesAside(s, r, a) PROVE FALSE
    BY <1>3, <1>4, <2>4 DEF WritesAside
  <2>5. ASSUME NEW b \in Bins, OccupiesBin(s, b) PROVE FALSE
    BY <1>3, <1>4, <2>5, RowsAssumption DEF OccupiesBin
  <2>6. ASSUME NEW v \in Units, NEW unit, StowsUnit(s, v, unit)
        PROVE  /\ pc'[s] = "commit" /\ job'[s].op = "stow"
               /\ writes'[s][writes'[s][u].bin] # Absent
               /\ \E sku, b : /\ sku = writes'[s][u].sku /\ b = writes'[s][u].bin /\ b \in Bins
                              /\ Compatible(sku, b)'
               /\ \A w \in Units : writes'[s][w] # Absent => w = u
    <3> PICK sku, b : sku = job[s].sku /\ b = job[s].bin
      OBVIOUS
    <3>1. /\ Puts(s, v, unit) /\ Unused(v) /\ pc[s] = "putunit" /\ b \in Bins
          /\ unit.sku = sku /\ unit.bin = b /\ pc'[s] = "commit" /\ job'[s] = job[s]
      BY <2>6 DEF StowsUnit, NewStockUnit
    <3>2. writes[s][b] # Absent /\ Compatible(sku, b) /\ \A w \in Units : writes[s][w] = Absent
      BY <3>1 DEF StowInv
    <3>3. InTx(s) /\ job'[s].op = "stow"
      BY <3>1, StowsInTx DEF IInv, Control
    <3>4. writes'[s][v] = unit /\ \A q \in Rows \ {v} : writes'[s][q] = writes[s][q]
      BY <3>1, <3>3, PutsEffect DEF Unused, Visible
    <3>5. b \in Rows \ {v}
      BY <3>1, RowsAssumption DEF Rows
    <3>6. \A w \in Units : writes'[s][w] # Absent => w = v
      BY <1>1, <3>2, <3>4
    <3>7. u = v
      BY <1>4, <3>6 DEF AddsUnit
    <3>8. db' = db
      BY <3>1, <3>3 DEF Puts, Save
    <3>9. Compatible(sku, b)'
      BY <1>1, <3>1, <3>2, <3>8, HeldBinStays
    <3> QED BY <3>1, <3>2, <3>3, <3>4, <3>5, <3>6, <3>7, <3>9
  <2> QED BY <1>1, <2>1, <2>2, <2>3, <2>4, <2>5, <2>6, StowShape
<1>5. ASSUME NEW u \in Units, AddsUnit(s, u)' PROVE Compatible(writes[s][u].sku, writes[s][u].bin)'
  <2> PICK sku, b : sku = writes'[s][u].sku /\ b = writes'[s][u].bin /\ Compatible(sku, b)'
    BY <1>4, <1>5
  <2> QED BY DEF Compatible, InBin
<1>6. ASSUME NEW o \in Sessions \ {s}, NEW u \in Units, AddsUnit(o, u)'
      PROVE  Compatible(writes[o][u].sku, writes[o][u].bin)'
  BY <1>2, <1>6
<1>7. \A o \in Sessions, u \in Units : o = s \/ o \in Sessions \ {s}
  OBVIOUS
<1> QED BY <1>2, <1>4, <1>5, <1>6, <1>7 DEF AddingInv

(* What a stow relies on, and a registration.                              *)
Stow(s) ==
    /\ pc[s] = "putbin" /\ db[job[s].bin].version = loaded[s][job[s].bin].version =>
          Compatible(job[s].sku, job[s].bin)
    /\ pc[s] = "putunit" => /\ writes[s][job[s].bin] # Absent
                            /\ Compatible(job[s].sku, job[s].bin)
                            /\ \A u \in Units : writes[s][u] = Absent
    /\ pc[s] \in {"putbin", "setbin"} => writes[s] = NoRows

(* What it relies on, after a step.                                        *)
LEMMA StowNext ==
    ASSUME NEW s, NEW sku, NEW b, sku = job'[s].sku, b = job'[s].bin,
           pc'[s] = "putbin" /\ db'[b].version = loaded'[s][b].version => Compatible(sku, b)',
           pc'[s] = "putunit" => /\ writes'[s][b] # Absent /\ Compatible(sku, b)'
                                 /\ \A u \in Units : writes'[s][u] = Absent,
           pc'[s] \in {"putbin", "setbin"} => writes'[s] = NoRows
    PROVE  Stow(s)'
BY DEF Stow, Compatible, InBin

(* Another's stow: its check of the occupants holds as long as the version *)
(* of the bin stays.                                                       *)
LEMMA StowAlone ==
    ASSUME IInv, UnitsAlike, AddingInv, NEW s \in Sessions, Alone(s), TableMoves(s),
           NEW o \in Sessions \ {s}, Stow(o)
    PROVE  Stow(o)'
<1> PICK sku, b : sku = job[o].sku /\ b = job[o].bin
  OBVIOUS
<1>1. TypeOK /\ writes'[o] = writes[o] /\ pc'[o] = pc[o] /\ job'[o] = job[o] /\ loaded'[o] = loaded[o]
  BY DEF Alone, IInv
<1>2. pc[o] \in {"putbin", "putunit"} => b \in Bins /\ b \in Rows /\ Has(o, b)
  BY DEF IInv, Control, Rows
<1>3. ASSUME pc[o] = "putbin", db'[b].version = loaded[o][b].version
      PROVE  Compatible(sku, b)'
  <2>1. b \in Bins /\ b \in Rows /\ Has(o, b) /\ writes[o] = NoRows
    BY <1>2, <1>3 DEF Stow
  <2>2. Visible(o, b) = db[b]
    BY <2>1 DEF Visible, NoRows
  <2>3. db[b] # Absent /\ loaded[o][b].version <= db[b].version
    BY <2>1, <2>2 DEF IInv, StoreInv, Snapshot, Has
  <2>4. db[b].version \in Nat /\ loaded[o][b].version \in Nat
    BY <1>1, <2>1, <2>3, RowKinds DEF TypeOK, Has
  <2>5. db'[b] = db[b] \/ db'[b].version > db[b].version
    BY <2>1, <2>3 DEF TableMoves
  <2>6. db'[b] = db[b]
    BY <1>3, <2>3, <2>4, <2>5
  <2>7. Compatible(sku, b)
    BY <1>3, <2>6 DEF Stow
  <2> QED BY <2>1, <2>3, <2>6, <2>7, HeldBinStays
<1>4. ASSUME pc[o] = "putunit"
      PROVE  writes[o][b] # Absent /\ Compatible(sku, b)' /\ \A u \in Units : writes[o][u] = Absent
  <2>1. b \in Bins /\ writes[o][b] # Absent /\ Compatible(sku, b) /\ \A u \in Units : writes[o][u] = Absent
    BY <1>2, <1>4 DEF Stow
  <2> QED BY <2>1, HeldBinStays
<1>5. pc[o] \in {"putbin", "setbin"} => writes[o] = NoRows
  BY DEF Stow
<1> QED BY <1>1, <1>3, <1>4, <1>5, StowNext

(* The check reads the occupants of the moment it is made.                 *)
LEMMA StowOwn ==
    ASSUME IInv, UnitsAlike, AddingInv, NEW s \in Sessions, Shape(s), Stow(s)
    PROVE  Stow(s)'
<1>1. TypeOK /\ TableMoves(s)
  BY TableStep DEF IInv
<1>2. CASE pc'[s] \notin {"putbin", "putunit", "setbin"}
  BY <1>2 DEF Stow
<1>3. CASE ReadsOnly(s) /\ Turns(s)
  <2>1. \/ pc'[s] \notin {"putbin", "putunit", "setbin"}
        \/ CheckSegregation(s) /\ pc'[s] = "putbin" /\ job'[s] = job[s]
        \/ RegisterBin(s) /\ pc'[s] = "setbin"
    BY <1>3 DEF Turns, Finished, CountDone
  <2>2. db' = db /\ writes' = writes
    BY <1>3 DEF ReadsOnly
  <2>3. CASE CheckSegregation(s) /\ pc'[s] = "putbin" /\ job'[s] = job[s]
    <3> PICK sku, b : sku = job[s].sku /\ b = job[s].bin
      OBVIOUS
    <3>1. pc[s] = "place" /\ ~Fail(s)
      BY <1>1, <2>3, FailEnds DEF CheckSegregation
    <3>2. \A u \in InBin(db, b) : <<sku, db[u].sku>> \notin Conflicts
      BY <2>3, <3>1 DEF CheckSegregation
    <3>3. Compatible(sku, b)'
      BY <2>2, <3>2 DEF Compatible, InBin
    <3>4. job[s].op = "stow"
      BY <3>1 DEF IInv, Control
    <3>5. writes[s] = NoRows
      BY <3>1, <3>4 DEF IInv, TxClosed, InTx, Scope, ScopeSteps
    <3> QED BY <2>2, <2>3, <3>3, <3>5, StowNext
  <2>4. CASE RegisterBin(s) /\ pc'[s] = "setbin"
    <3>1. pc[s] = "idle"
      BY <2>4 DEF RegisterBin
    <3>2. job[s].op = "none"
      BY <3>1 DEF IInv, Control
    <3>3. writes[s] = NoRows
      BY <3>1, <3>2 DEF IInv, TxClosed, InTx, Scope, ScopeSteps
    <3> QED BY <2>2, <2>4, <3>3 DEF Stow
  <2> QED BY <1>2, <2>1, <2>3, <2>4
<1>4. ASSUME NEW c \in Bins, OccupiesBin(s, c) PROVE Stow(s)'
  <2> PICK sku, b : sku = job[s].sku /\ b = job[s].bin
    OBVIOUS
  <2>1. /\ pc[s] = "putbin" /\ b = c /\ Puts(s, b, Occupy(loaded[s][b], job[s].qty))
        /\ pc'[s] = "putunit" /\ job'[s] = job[s] /\ b \in Bins
    BY <1>4 DEF OccupiesBin
  <2>2. InTx(s) /\ writes[s] = NoRows /\ Has(s, b)
    BY <2>1, StowsInTx DEF Stow, IInv, Control
  <2>3. db' = db /\ Hit(s, b, Occupy(loaded[s][b], job[s].qty))
    BY <2>1, <2>2 DEF Puts, Save
  <2>4. b \in Rows /\ \A u \in Units : u \in Rows \ {b}
    BY <2>1, RowsAssumption DEF Rows
  <2>5. db[b] = loaded[s][b]
    BY <2>1, <2>2, <2>4, PutsEffect DEF Visible, NoRows
  <2>6. Compatible(sku, b)
    BY <2>1, <2>5 DEF Stow
  <2>7. Compatible(sku, b)'
    BY <1>1, <2>1, <2>3, <2>6, HeldBinStays
  <2>8. writes'[s][b] # Absent /\ \A u \in Units : writes'[s][u] = Absent
    BY <2>1, <2>2, <2>4, PutsEffect DEF NoRows
  <2> QED BY <2>1, <2>7, <2>8, StowNext
<1>5. CASE \/ Ends(s)
           \/ \E u \in Units : \E a : Rewrites(s, u, a)
           \/ \E r \in Bins \cup Resvs : \E a : WritesAside(s, r, a)
           \/ \E u \in Units : \E unit : StowsUnit(s, u, unit)
  BY <1>2, <1>5 DEF Ends, Finished, Rewrites, WritesAside, StowsUnit
<1>6. CASE \E b \in Bins : \E bin : SetsBin(s, b, bin)
  BY <1>2, <1>6 DEF SetsBin
<1> QED BY <1>1, <1>3, <1>4, <1>5, StowShape

(* A new unit suits the bin it is added to.                                *)
LEMMA SegregatedStep ==
    ASSUME IInv, UnitsAlike, AddingInv, Segregated, NEW s \in Sessions, TableMoves(s)
    PROVE  Segregated'
<1>1. ASSUME NEW u \in Units, db'[u] # Absent, db[u] # Absent
      PROVE  db'[u].sku = db[u].sku /\ db'[u].bin = db[u].bin
  BY <1>1 DEF TableMoves, Alike
<1>2. ASSUME NEW u \in Units, db'[u] # Absent, db[u] = Absent
      PROVE  /\ Compatible(db'[u].sku, db'[u].bin)
             /\ \A v \in Units : db'[v] # Absent /\ db[v] = Absent => v = u
  <2>1. u \in Rows /\ AddsUnit(s, u) /\ \A v \in Units : db'[v] # Absent /\ db[v] = Absent => AddsUnit(s, v)
    BY <1>2 DEF TableMoves, Rows
  <2>2. db'[u] = writes[s][u]
    BY <1>2, <2>1 DEF TableMoves, Visible, AddsUnit
  <2> QED BY <2>1, <2>2 DEF AddingInv, AddsUnit
<1>3. ASSUME NEW u \in Units, NEW v \in Units, db'[u] # Absent, db[u] = Absent, db'[v] # Absent, db'[u].bin = db'[v].bin
      PROVE  <<db'[u].sku, db'[v].sku>> \notin Conflicts
  <2>1. CASE db[v] # Absent
    <3>1. db'[v].sku = db[v].sku /\ db[v].bin = db'[u].bin
      BY <1>1, <1>3, <2>1
    <3> QED BY <1>2, <1>3, <2>1, <3>1 DEF Compatible, InBin
  <2>2. CASE db[v] = Absent
    <3>1. u = v
      BY <1>2, <1>3, <2>2
    <3> QED BY <3>1, PlacementAssumption
  <2> QED BY <2>1, <2>2
<1>4. ASSUME NEW u \in Units, NEW v \in Units, db'[u] # Absent, db'[v] # Absent, db'[u].bin = db'[v].bin
      PROVE  <<db'[u].sku, db'[v].sku>> \notin Conflicts
  <2>1. CASE db[u] = Absent
    BY <1>3, <1>4, <2>1
  <2>2. CASE db[v] = Absent
    <3>1. <<db'[v].sku, db'[u].sku>> \notin Conflicts
      BY <1>3, <1>4, <2>2
    <3>2. \A x, y : <<x, y>> \in Conflicts => <<y, x>> \in Conflicts
      BY PlacementAssumption
    <3> QED BY <3>1, <3>2
  <2>3. CASE db[u] # Absent /\ db[v] # Absent
    <3>1. db[u].bin = db[v].bin /\ db'[u].sku = db[u].sku /\ db'[v].sku = db[v].sku
      BY <1>1, <1>4, <2>3
    <3> QED BY <2>3, <3>1 DEF Segregated, Existing
  <2> QED BY <2>1, <2>2, <2>3
<1> QED BY <1>4 DEF Segregated, Existing

(* A step keeps incompatible classes apart.                                *)
LEMMA SegregationInductive == IInv /\ SegregationInv /\ [Next]_vars => SegregationInv'
<1> SUFFICES ASSUME IInv, SegregationInv, [Next]_vars PROVE SegregationInv'
  OBVIOUS
<1>1. UnitsAlike /\ AddingInv /\ StowInv /\ Segregated
  BY DEF SegregationInv
<1>2. CASE UNCHANGED <<db, outbox, writes, pending, loaded, pc, job>>
  <2>1. UnitsAlike' /\ AddingInv'
    BY <1>1, <1>2 DEF UnitsAlike, AddingInv, AddsUnit, Visible, Compatible, InBin
  <2>2. StowInv' /\ Segregated'
    BY <1>1, <1>2 DEF StowInv, Compatible, InBin, Segregated, Existing
  <2> QED BY <2>1, <2>2 DEF SegregationInv
<1>3. ASSUME NEW s \in Sessions, Shape(s), Alone(s), Orderly(s) PROVE SegregationInv'
  <2>1. UnitsAlike' /\ AddingInv'
    BY <1>1, <1>3, AlikeStep, AddingStep
  <2>2. TableMoves(s)
    BY <1>1, <1>3, TableStep
  <2>3. ASSUME NEW o \in Sessions PROVE Stow(o)'
    <3>1. Stow(o)
      BY <1>1 DEF StowInv, Stow
    <3> QED BY <1>1, <1>3, <2>2, <3>1, StowAlone, StowOwn
  <2>4. StowInv'
    BY <2>3 DEF StowInv, Stow
  <2>5. Segregated'
    BY <1>1, <2>2, SegregatedStep
  <2> QED BY <2>1, <2>4, <2>5 DEF SegregationInv
<1> QED BY <1>2, <1>3, NextShape

(* The service starts with them apart.                                     *)
LEMMA SegregationInit == Init => SegregationInv
<1> SUFFICES ASSUME Init PROVE SegregationInv
  OBVIOUS
<1>1. \A s \in Sessions : /\ pc[s] = "idle"
                          /\ \A u \in Units : writes[s][u] = Absent /\ loaded[s][u] = Absent
  BY DEF Init, NoRows, Rows
<1>2. UnitsAlike /\ AddingInv /\ StowInv
  BY <1>1 DEF UnitsAlike, Alike, AddingInv, AddsUnit, StowInv
<1>3. Segregated
  BY DatabasesAssumption DEF Init, Segregated, Existing
<1> QED BY <1>2, <1>3 DEF SegregationInv

(* Incompatible hazard classes never share a bin, for any number of stows  *)
(* that race into it: the check holds no lock, but the bin's version tells *)
(* whether it still stands when the bin is written, and the bin's row lock *)
(* keeps it standing until the unit is committed with it.                  *)
THEOREM ClassesStayApart == Spec => []Segregated
<1>1. Init => IInv /\ SegregationInv
  BY InitEstablishesInvariant, SegregationInit
<1>2. (IInv /\ SegregationInv) /\ [Next]_vars => (IInv /\ SegregationInv)'
  BY SegregationInductive, NextKeepsInvariant
<1>3. SegregationInv => Segregated
  BY DEF SegregationInv
<1> QED BY <1>1, <1>2, <1>3, PTL DEF Spec

-----------------------------------------------------------------------------
(* Sums of quantities.                                                     *)

(* Of nothing.                                                             *)
LEMMA AmountNone == \A f : Amount({}, f) = 0
BY FS_EmptySet DEF Amount, Pieces

(* The sum depends on the quantities alone.                                *)
LEMMA AmountSame ==
    ASSUME NEW S, NEW f, NEW g, \A x \in S : f[x] = g[x]
    PROVE  Amount(S, f) = Amount(S, g)
<1>1. Pieces(S, f) = Pieces(S, g)
  BY DEF Pieces
<1> QED BY <1>1 DEF Amount

(* One quantity more.                                                      *)
LEMMA AmountSplit ==
    ASSUME NEW S, IsFiniteSet(S), NEW u \in S, NEW f, \A x \in S : f[x] \in Nat
    PROVE  /\ Amount(S, f) = Amount(S \ {u}, f) + f[u]
           /\ Amount(S, f) \in Nat /\ Amount(S \ {u}, f) \in Nat
<1> DEFINE P == Pieces(S \ {u}, f)
           Q == {u} \X (1 .. f[u])
<1>1. f[u] \in Nat
  OBVIOUS
<1>2. IsFiniteSet(P) /\ IsFiniteSet(Pieces(S, f))
  BY PiecesFinite, FS_Subset
<1>3. IsFiniteSet(Q) /\ Cardinality(Q) = f[u]
  <2>1. IsFiniteSet({u}) /\ Cardinality({u}) = 1
    BY FS_Singleton
  <2>2. IsFiniteSet(1 .. f[u]) /\ Cardinality(1 .. f[u]) = f[u]
    <3> PICK n : n = f[u]
      OBVIOUS
    <3>1. n \in Int /\ 1 \in Int
      BY <1>1
    <3>2. IsFiniteSet(1 .. n) /\ Cardinality(1 .. n) = IF 1 > n THEN 0 ELSE n - 1 + 1
      BY <3>1, FS_Interval
    <3> QED BY <1>1, <3>2
  <2>3. IsFiniteSet(Q) /\ Cardinality(Q) = Cardinality({u}) * Cardinality(1 .. f[u])
    BY <2>1, <2>2, FS_Product
  <2> QED BY <2>1, <2>2, <2>3
<1>4. Pieces(S, f) = P \cup Q
  BY DEF Pieces
<1>5. P \cap Q = {}
  BY DEF Pieces
<1>6. Cardinality(P \cup Q) = Cardinality(P) + Cardinality(Q) - Cardinality(P \cap Q)
  <2> HIDE DEF P, Q
  <2> QED BY <1>2, <1>3, FS_Union
<1>7. Cardinality(P) \in Nat /\ Cardinality(Pieces(S, f)) \in Nat /\ Cardinality({}) = 0
  BY <1>2, FS_CardinalityType, FS_EmptySet
<1> HIDE DEF P, Q
<1>8. Cardinality(Pieces(S, f)) = Cardinality(P) + f[u]
  <2>1. Cardinality(Pieces(S, f)) = Cardinality(P) + Cardinality(Q) - Cardinality(P \cap Q)
    BY <1>4, <1>6
  <2>2. Cardinality(P \cap Q) = 0
    BY <1>5, <1>7
  <2>3. \A m, n, k \in Nat : \A z : z = m + n - k /\ k = 0 => z = m + n
    OBVIOUS
  <2>4. Cardinality(P) \in Nat /\ Cardinality(Q) \in Nat /\ Cardinality(P \cap Q) \in Nat
    BY <1>1, <1>3, <1>7, <2>2
  <2>5. Cardinality(Pieces(S, f)) = Cardinality(P) + Cardinality(Q)
    BY <2>1, <2>2, <2>3, <2>4
  <2> QED BY <1>3, <2>5
<1> QED BY <1>7, <1>8 DEF Amount, P

-----------------------------------------------------------------------------
(* Bins and what lies in them.                                             *)

(* The space a unit takes in a bin.                                        *)
Space(t, b, u) == IF t[u] # Absent /\ t[u].bin = b THEN t[u].quantity ELSE 0

(* Space is a natural number.                                              *)
LEMMA SpaceNat ==
    ASSUME NEW t \in Tables, NEW b, NEW u \in Units
    PROVE  Space(t, b, u) \in Nat
<1>1. t[u] # Absent => t[u] \in StockUnit
  BY RowKinds
<1> QED BY <1>1 DEF Space, StockUnit

(* What lies in a bin is what the units take of it.                        *)
LEMMA LiesAll ==
    ASSUME NEW t \in Tables, NEW b
    PROVE  Lies(t, b) = Amount(Units, [u \in Units |-> Space(t, b, u)])
<1> DEFINE q  == [u \in InBin(t, b) |-> t[u].quantity]
           sp == [u \in Units |-> Space(t, b, u)]
<1>1. \A x \in InBin(t, b) : x \in Units /\ q[x] = sp[x]
  BY DEF InBin, Space
<1>2. \A x \in Units : x \notin InBin(t, b) => sp[x] = 0
  BY DEF InBin, Space
<1> HIDE DEF q, sp
<1>3. Pieces(InBin(t, b), q) \subseteq Pieces(Units, sp)
  BY <1>1 DEF Pieces
<1>4. Pieces(Units, sp) \subseteq Pieces(InBin(t, b), q)
  <2>1. ASSUME NEW x \in Units, NEW p \in {x} \X (1 .. sp[x]) PROVE x \in InBin(t, b)
    <3>1. CASE x \notin InBin(t, b)
      <4>1. sp[x] = 0 /\ 1 .. 0 = {}
        BY <1>2, <3>1
      <4> QED BY <2>1, <4>1
    <3> QED BY <3>1
  <2> QED BY <1>1, <2>1 DEF Pieces
<1>5. Lies(t, b) = Cardinality(Pieces(InBin(t, b), q)) /\ Amount(Units, sp) = Cardinality(Pieces(Units, sp))
  BY DEF Lies, Amount, q
<1>6. Pieces(InBin(t, b), q) = Pieces(Units, sp)
  BY <1>3, <1>4
<1>7. Lies(t, b) = Amount(Units, sp)
  BY <1>5, <1>6
<1> QED BY <1>7 DEF sp

(* Two tables that differ in one unit differ in what it takes.             *)
LEMMA LiesOne ==
    ASSUME NEW t \in Tables, NEW w \in Tables, NEW b, NEW u \in Units,
           \A v \in Units : v # u => Space(w, b, v) = Space(t, b, v)
    PROVE  /\ Lies(w, b) + Space(t, b, u) = Lies(t, b) + Space(w, b, u)
           /\ Lies(w, b) \in Nat /\ Lies(t, b) \in Nat
<1> DEFINE f == [v \in Units |-> Space(t, b, v)]
           g == [v \in Units |-> Space(w, b, v)]
<1>1. (\A v \in Units : f[v] \in Nat /\ g[v] \in Nat) /\ f[u] = Space(t, b, u) /\ g[u] = Space(w, b, u)
  BY SpaceNat
<1>2. \A v \in Units \ {u} : f[v] = g[v]
  OBVIOUS
<1>3. Lies(t, b) = Amount(Units, f) /\ Lies(w, b) = Amount(Units, g)
  BY LiesAll
<1> HIDE DEF f, g
<1>4. Amount(Units \ {u}, f) = Amount(Units \ {u}, g)
  BY <1>2, AmountSame
<1>5. /\ Amount(Units, f) = Amount(Units \ {u}, f) + f[u] /\ Amount(Units, f) \in Nat
      /\ Amount(Units \ {u}, f) \in Nat
  BY <1>1, AmountSplit, RowsAssumption
<1>6. Amount(Units, g) = Amount(Units \ {u}, g) + g[u] /\ Amount(Units, g) \in Nat
  BY <1>1, AmountSplit, RowsAssumption
<1>7. PICK rest : rest = Amount(Units \ {u}, f)
  OBVIOUS
<1>8. Lies(t, b) = rest + f[u] /\ Lies(w, b) = rest + g[u] /\ rest \in Nat /\ Lies(t, b) \in Nat /\ Lies(w, b) \in Nat
  BY <1>3, <1>4, <1>5, <1>6, <1>7
<1>9. \A k, m, n \in Nat : (k + n) + m = (k + m) + n
  OBVIOUS
<1> QED BY <1>1, <1>8, <1>9

(* Two tables in which the units take the same.                            *)
LEMMA LiesSame ==
    ASSUME NEW t \in Tables, NEW w \in Tables, NEW b, \A v \in Units : Space(w, b, v) = Space(t, b, v)
    PROVE  Lies(w, b) = Lies(t, b)
<1> DEFINE f == [v \in Units |-> Space(t, b, v)]
           g == [v \in Units |-> Space(w, b, v)]
<1>1. f = g
  OBVIOUS
<1> QED BY <1>1, LiesAll

(* So is what lies in a bin.                                               *)
LEMMA LiesNat ==
    ASSUME NEW t \in Tables, NEW b
    PROVE  Lies(t, b) \in Nat
<1> DEFINE f == [v \in Units |-> Space(t, b, v)]
<1>1. \A v \in Units : f[v] \in Nat
  BY SpaceNat
<1> HIDE DEF f
<1>2. Amount(Units, f) \in Nat
  BY <1>1, AmountNat, RowsAssumption
<1> QED BY <1>2, LiesAll DEF f

-----------------------------------------------------------------------------
(* The bins' ledger: what a request carries from statement to statement.   *)

(* A pick always has a unit of work, and one unit in hand.                 *)
LEMMA PickFacts ==
    ASSUME IInv, Asked, NEW s \in Sessions, pc[s] \in Resolves, Picking(s)
    PROVE  job[s].op = "confirm" /\ Scope(job[s].op) = "own" /\ InTx(s)
BY DEF Asked, Scope, InTx, Resolves, ScopeSteps

(* The unit in hand is one of the reservation's.                           *)
LEMMA PickedOne ==
    ASSUME IInv, NEW s \in Sessions
    PROVE  /\ Picked(s) \subseteq Units
           /\ Picked(s) # {} => pc[s] \in {"bin", "savebin"}
           /\ \A u \in Picked(s) : Picked(s) = {u} /\ Share(s, u) \in Nat /\ job[s].res \in Resvs
<1>1. Picked(s) # {} => pc[s] \in {"bin", "savebin"}
  BY DEF Picked
<1>2. CASE Picked(s) = {}
  BY <1>2
<1>3. CASE pc[s] \in {"bin", "savebin"}
  <2>1. /\ job[s].todo \in SUBSET Units /\ (\A u \in Units : Share(s, u) \in Nat) /\ job[s].res \in Resvs
        /\ \A u, v : IsNext(s, u) /\ IsNext(s, v) => u = v
    BY <1>3, ResolutionFacts DEF Resolves, ResolvesActive
  <2>2. \A u \in Picked(s) : u \in Units /\ IsNext(s, u)
    BY <2>1 DEF Picked
  <2> QED BY <1>1, <2>1, <2>2
<1> QED BY <1>1, <1>2, <1>3

(* What a statement on a bin relies on: the pick in hand is written, and a *)
(* change of the bin was allowed when it was loaded.                       *)
Carries(s) ==
    /\ pc[s] \in {"bin", "savebin"} => Picking(s)
    /\ \A u \in Picked(s) : writes[s][u] # Absent /\ loaded[s][u].bin = writes[s][u].bin
    /\ pc[s] = "putbin" => CanOccupy(loaded[s][job[s].bin], job[s].qty)
    /\ pc[s] = "setbin" /\ Has(s, job[s].bin) => CanResize(loaded[s][job[s].bin], job[s].qty)

(* A unit has been picked, and its bin is next.                            *)
LEMMA CarriesPick ==
    ASSUME IInv, Asked, NEW s \in Sessions, NEW u \in Units, PicksUnit(s, u)
    PROVE  /\ InTx(s) /\ Picked(s) = {} /\ Picked(s)' = {u} /\ Share(s, u)' = Share(s, u)
           /\ Picking(s)' /\ writes'[s][u] # Absent /\ loaded'[s][u].bin = writes'[s][u].bin
           /\ writes'[s][u].quantity + Share(s, u) = loaded[s][u].quantity
<1> PICK n : n = Share(s, u)
  OBVIOUS
<1>1. /\ pc[s] = "save" /\ Picking(s) /\ IsNext(s, u) /\ pc'[s] = "bin" /\ job'[s] = job[s] /\ loaded' = loaded
      /\ loaded[s][u] \in StockUnit /\ n \in Nat /\ CanPick(loaded[s][u], n)
      /\ Puts(s, u, Pick(loaded[s][u], n))
  BY DEF PicksUnit
<1>2. InTx(s) /\ \A w, v : IsNext(s, w) /\ IsNext(s, v) => w = v
  BY <1>1, PickFacts, ResolutionFacts DEF Resolves
<1>3. Picked(s) = {} /\ Picked(s)' = {u}
  <2>1. Picked(s)' = {v \in job[s].todo : IsNext(s, v)}
    BY <1>1 DEF Picked, IsNext
  <2>2. u \in job[s].todo
    BY <1>1 DEF IsNext
  <2> QED BY <1>1, <1>2, <2>1, <2>2 DEF Picked
<1>4. Pick(loaded[s][u], n) \in StockUnit
  BY <1>1, UnitRows
<1>5. writes'[s][u] = Stored(s, u, Pick(loaded[s][u], n)) /\ writes'[s][u] # Absent /\ u \in Rows
  BY <1>1, <1>2, PutsEffect DEF Puts
<1>6. writes'[s][u].bin = loaded[s][u].bin /\ writes'[s][u].quantity = loaded[s][u].quantity - n
  <2>1. Pick(loaded[s][u], n).bin = loaded[s][u].bin
        /\ Pick(loaded[s][u], n).quantity = loaded[s][u].quantity - n
    BY <1>1 DEF Pick, StockUnit
  <2> QED BY <1>4, <1>5, <2>1, StoredFields DEF IInv
<1>7. loaded[s][u].quantity \in Nat
  BY <1>1 DEF StockUnit
<1>8. Share(s, u)' = n /\ Picking(s)'
  BY <1>1, <1>2 DEF Picking, Share
<1>9. writes'[s][u].quantity + n = loaded[s][u].quantity
  BY <1>1, <1>6, <1>7
<1> QED BY <1>1, <1>2, <1>3, <1>5, <1>6, <1>8, <1>9

(* The bin of the picked unit has been read.                               *)
LEMMA CarriesRead ==
    ASSUME IInv, NEW s \in Sessions, pc[s] = "bin", ReadsOnly(s), pc'[s] = "savebin", job'[s] = job[s],
           \A q \in Units \cup Resvs : loaded'[s][q] = loaded[s][q]
    PROVE  /\ Picked(s)' = Picked(s) /\ (Picking(s) => Picking(s)')
           /\ \A u \in Picked(s) : Share(s, u)' = Share(s, u) /\ loaded'[s][u] = loaded[s][u]
<1>1. Picked(s)' = Picked(s)
  BY DEF Picked, IsNext
<1>2. \A u \in Picked(s) : u \in Units /\ job[s].res \in Resvs
  BY PickedOne
<1> QED BY <1>1, <1>2 DEF Picking, Share

(* A bin is read to be resized only as far as what lies in it allows.      *)
LEMMA RegisterCarries ==
    ASSUME IInv, NEW s \in Sessions, RegisterBin(s)
    PROVE  pc'[s] = "setbin" /\ loaded'[s][job'[s].bin] # Absent =>
              CanResize(loaded'[s][job'[s].bin], job'[s].qty)
<1> PICK b \in Bins, capacity \in Capacities \ {0} :
       IF db[b] # Absent /\ db[b].capacity = capacity
       THEN Forget(s, "ok")
       ELSE IF db[b] = Absent \/ CanResize(db[b], capacity)
       THEN /\ Load(s, {b})
            /\ GoTo(s, "setbin", [NoJob EXCEPT !.op = "register", !.bin = b, !.qty = capacity])
       ELSE Forget(s, "err")
  BY ZenonT(60) DEF RegisterBin
<1> DEFINE j == [NoJob EXCEPT !.op = "register", !.bin = b, !.qty = capacity]
<1>1. TypeOK /\ writes[s] = NoRows
  BY IdleClosed DEF RegisterBin, IInv
<1>2. \/ Forget(s, "ok") \/ Forget(s, "err")
      \/ (db[b] = Absent \/ CanResize(db[b], capacity)) /\ Load(s, {b}) /\ GoTo(s, "setbin", j)
  OBVIOUS
<1>3. j.bin = b /\ j.qty = capacity
  BY DEF NoJob
<1> HIDE DEF j
<1> SUFFICES ASSUME pc'[s] = "setbin", loaded'[s][job'[s].bin] # Absent
             PROVE  CanResize(loaded'[s][job'[s].bin], job'[s].qty)
  OBVIOUS
<1>4. ~Forget(s, "ok") /\ ~Forget(s, "err")
  BY <1>1, Forgotten
<1>5. job'[s].bin = b /\ job'[s].qty = capacity
  BY <1>1, <1>2, <1>3, <1>4, Moved
<1>6. {b} \in SUBSET Rows /\ b \in Rows
  BY DEF Rows
<1>7. loaded'[s][b] = db[b]
  BY <1>1, <1>2, <1>4, <1>6, LoadReads DEF Visible, NoRows
<1> QED BY <1>2, <1>4, <1>5, <1>7

(* A session's own step.                                                   *)
LEMMA CarriesOwn ==
    ASSUME IInv, Asked, NEW s \in Sessions, Shape(s), Orderly(s), Carries(s)
    PROVE  Carries(s)'
<1>1. CASE pc'[s] \notin {"bin", "savebin", "putbin", "setbin"}
  BY <1>1 DEF Carries, Picked
<1>2. CASE \E u \in Units : PicksUnit(s, u)
  <2>1. PICK u \in Units : PicksUnit(s, u)
    BY <1>2
  <2>2. pc'[s] = "bin"
    BY <2>1 DEF PicksUnit
  <2> QED BY <2>1, <2>2, CarriesPick DEF Carries
<1>3. CASE ReadsOnly(s) /\ Turns(s) /\ ~Ends(s)
  <2>1. writes' = writes
    BY <1>3 DEF ReadsOnly
  <2>2. \/ pc'[s] \notin {"bin", "savebin", "putbin", "setbin"}
        \/ LoadBin(s) /\ pc'[s] = "savebin"
        \/ CheckSegregation(s) /\ pc'[s] = "putbin" /\ job'[s] = job[s]
        \/ RegisterBin(s) /\ pc'[s] = "setbin"
    BY <1>3 DEF Turns, Finished, CountDone
  <2>3. CASE LoadBin(s) /\ pc'[s] = "savebin"
    <3>1. pc[s] = "bin" /\ pc[s] \in Midway
      BY <2>3 DEF LoadBin, Midway
    <3>2. job'[s] = job[s] /\ \A q \in Units \cup Resvs : loaded'[s][q] = loaded[s][q]
      BY <1>3, <2>3, <3>1 DEF Orderly, ReleasesBin, StowsUnit
    <3>3. /\ Picked(s)' = Picked(s) /\ Picking(s)'
          /\ \A u \in Picked(s) : loaded'[s][u] = loaded[s][u]
      BY <1>3, <2>3, <3>1, <3>2, CarriesRead DEF Carries
    <3> QED BY <2>1, <2>3, <3>3 DEF Carries
  <2>4. CASE CheckSegregation(s) /\ pc'[s] = "putbin" /\ job'[s] = job[s]
    <3>1. CanOccupy(loaded[s][job[s].bin], job[s].qty) /\ loaded' = loaded
      BY <1>3, <2>4, FailEnds DEF CheckSegregation, IInv
    <3> QED BY <2>4, <3>1 DEF Carries, Picked
  <2>5. CASE RegisterBin(s) /\ pc'[s] = "setbin"
    <3>1. writes[s] = NoRows
      BY <2>5, IdleClosed DEF RegisterBin
    <3> QED BY <2>5, RegisterCarries DEF Carries, Picked, Has
  <2> QED BY <1>1, <2>2, <2>3, <2>4, <2>5
<1>4. CASE \/ Ends(s)
           \/ \E u \in Units : ReleasesUnit(s, u) \/ DrawsUnit(s, u) \/ MarksUnit(s, u)
           \/ \E u \in Units, b \in Bins : ReleasesBin(s, u, b)
           \/ \E r \in Resvs : \E res : Resolved(s, r, res) \/ Created(s, r, res)
           \/ \E b \in Bins : OccupiesBin(s, b)
           \/ \E u \in Units : \E unit : StowsUnit(s, u, unit)
           \/ \E b \in Bins : \E bin : SetsBin(s, b, bin)
  BY <1>1, <1>4 DEF Ends, Finished, ReleasesUnit, DrawsUnit, MarksUnit, ReleasesBin, Resolved, Created,
     OccupiesBin, StowsUnit, SetsBin
<1> QED BY <1>2, <1>3, <1>4 DEF Shape

(* A session carries what it carries while the others move.                *)
LEMMA CarriesStep ==
    ASSUME IInv, Asked, NEW s \in Sessions, Shape(s), Alone(s), Orderly(s), NEW o \in Sessions, Carries(o)
    PROVE  Carries(o)'
<1>1. CASE o = s
  BY <1>1, CarriesOwn
<1>2. CASE o # s
  BY <1>2 DEF Alone, Carries, Picked, IsNext, Picking, Share, Has
<1> QED BY <1>1, <1>2

(* What is put into a bin's row fits, if it was a new row or made from a   *)
(* row that did.                                                           *)
LEMMA FitsPut ==
    ASSUME IInv, NEW s \in Sessions, NEW b \in Bins, NEW a \in Bin, Puts(s, b, a),
           a.occupied <= a.capacity, Has(s, b) \/ a.occupied = 0
    PROVE  Fits(Stored(s, b, a))
<1> PICK v : v = Stored(s, b, a)
  OBVIOUS
<1>1. TypeOK /\ b \in Rows
  BY DEF IInv, Rows
<1>2. v.occupied = a.occupied /\ v.capacity = a.capacity
  BY <1>1, StoredFields
<1>3. CASE Has(s, b)
  <2>1. Visible(s, b) # Absent
    BY <1>3, PutsEffect DEF Has
  <2>2. v.version = Visible(s, b).version + 1 /\ Visible(s, b).version = a.version
    BY <2>1, PutsEffect
  <2>3. v.version # 1
    BY <2>2 DEF Bin, Version
  <2> QED BY <1>2, <2>3 DEF Fits
<1>4. CASE a.occupied = 0
  BY <1>2, <1>4 DEF Fits
<1> QED BY <1>3, <1>4

(* A Save keeps the bins fitting that writes a fitting one, or none.       *)
LEMMA FitsKept ==
    ASSUME IInv, NEW s \in Sessions, NEW r, NEW a, Puts(s, r, a), r \in Bins => Fits(Stored(s, r, a)),
           \A c \in Bins : Fits(db[c]) /\ Fits(writes[s][c])
    PROVE  \A c \in Bins : Fits(db'[c]) /\ Fits(writes'[s][c])
<1>1. ASSUME NEW c \in Bins PROVE Fits(db'[c]) /\ Fits(writes'[s][c])
  <2>1. CASE c # r
    <3>1. db'[c] = db[c] /\ writes'[s][c] = writes[s][c]
      BY <2>1, PutsEffect DEF Rows
    <3> QED BY <3>1
  <2>2. CASE c = r
    <3>1. \/ db'[c] = db[c] /\ writes'[s][c] = Stored(s, r, a)
          \/ db'[c] = Stored(s, r, a) /\ writes'[s][c] = Absent
      BY <2>2, PutsEffect
    <3> QED BY <2>2, <3>1 DEF Fits
  <2> QED BY <2>1, <2>2
<1> QED BY <1>1

(* The bins fit their contents and a unit's bin is there.                  *)
LEMMA BinsStep ==
    ASSUME IInv, Asked, SegregationInv, BinsInv, NEW s \in Sessions, Shape(s), Alone(s), Orderly(s)
    PROVE  BinsInv'
<1>1. TypeOK /\ UnitsAlike /\ AddingInv /\ TableMoves(s)
  BY TableStep DEF IInv, SegregationInv
<1>2. ASSUME NEW u \in Units, db'[u] # Absent PROVE db'[db'[u].bin] # Absent
  <2>1. CASE db[u] # Absent
    <3>1. db'[u].bin = db[u].bin /\ db[db[u].bin] # Absent
      BY <1>1, <1>2, <2>1 DEF TableMoves, Alike, BinsInv
    <3>2. db[u].bin \in Rows
      BY <1>1, <2>1, RowKinds DEF TypeOK, StockUnit, Rows
    <3> QED BY <1>1, <3>1, <3>2 DEF TableMoves
  <2>2. CASE db[u] = Absent
    <3>1. AddsUnit(s, u) /\ (\A q \in Rows : db'[q] = Visible(s, q)) /\ u \in Rows
      BY <1>1, <1>2, <2>2 DEF TableMoves, Rows
    <3>2. db'[u] = writes[s][u] /\ writes[s][writes[s][u].bin] # Absent
      BY <1>1, <3>1 DEF AddingInv, AddsUnit, Visible
    <3>3. writes[s][u].bin \in Rows
      BY <1>1, <3>1, RowKinds DEF TypeOK, StockUnit, Rows, AddsUnit
    <3> QED BY <3>1, <3>2, <3>3 DEF Visible
  <2> QED BY <2>1, <2>2
<1>3. \A c \in Bins : Fits(db[c]) /\ Fits(writes[s][c])
  BY DEF BinsInv
<1>4. Carries(s)
  BY DEF BinsInv, Carries
<1>5. \A c \in Bins : Fits(db'[c]) /\ Fits(writes'[s][c])
  <2>1. CASE ReadsOnly(s)
    BY <1>3, <2>1 DEF ReadsOnly
  <2>2. CASE Ends(s)
    <3>1. ASSUME NEW c \in Bins PROVE writes'[s][c] = Absent /\ (db'[c] = Visible(s, c) \/ db'[c] = db[c])
      BY <2>2, EndsEffect DEF Rows
    <3> QED BY <1>3, <3>1 DEF Visible, Fits
  <2>3. ASSUME NEW r \in Units \cup Resvs, NEW a, Puts(s, r, a)
        PROVE  \A c \in Bins : Fits(db'[c]) /\ Fits(writes'[s][c])
    <3>1. r \notin Bins
      BY RowsAssumption
    <3> QED BY <1>3, <2>3, <3>1, FitsKept
  <2>4. CASE \/ \E u \in Units : PicksUnit(s, u) \/ ReleasesUnit(s, u) \/ DrawsUnit(s, u) \/ MarksUnit(s, u)
             \/ \E r \in Resvs : \E res : Resolved(s, r, res) \/ Created(s, r, res)
             \/ \E u \in Units : \E unit : StowsUnit(s, u, unit)
    <3>1. \E r \in Units \cup Resvs : \E a : Puts(s, r, a)
      BY <2>4 DEF PicksUnit, ReleasesUnit, DrawsUnit, MarksUnit, Resolved, Created, StowsUnit
    <3> QED BY <2>3, <3>1
  <2>5. ASSUME NEW b \in Bins, NEW a \in Bin, Puts(s, b, a), a.occupied <= a.capacity, Has(s, b) \/ a.occupied = 0
        PROVE  \A c \in Bins : Fits(db'[c]) /\ Fits(writes'[s][c])
    <3>1. Fits(Stored(s, b, a))
      BY <2>5, FitsPut
    <3> QED BY <1>3, <2>5, <3>1, FitsKept
  <2>6. ASSUME NEW u \in Units, NEW b \in Bins, ReleasesBin(s, u, b)
        PROVE  \A c \in Bins : Fits(db'[c]) /\ Fits(writes'[s][c])
    <3> PICK n, bin : n = Share(s, u) /\ bin = loaded[s][b]
      OBVIOUS
    <3>1. n \in Nat /\ bin \in Bin /\ CanReleaseBin(bin, n) /\ Puts(s, b, ReleaseBin(bin, n))
      BY <2>6 DEF ReleasesBin
    <3>2. Has(s, b) /\ ReleaseBin(bin, n) \in Bin
      BY <3>1, BinRows, NotAbsent DEF Has
    <3>3. Fits(bin)
      <4>1. Visible(s, b) = bin
        BY <3>1, <3>2, PutsEffect
      <4> QED BY <1>3, <4>1 DEF Visible
    <3>4. ReleaseBin(bin, n).occupied <= ReleaseBin(bin, n).capacity
      BY <3>1, <3>3, NotAbsent DEF Fits, ReleaseBin, CanReleaseBin, Bin
    <3> QED BY <2>5, <3>1, <3>2, <3>4
  <2>7. ASSUME NEW b \in Bins, OccupiesBin(s, b)
        PROVE  \A c \in Bins : Fits(db'[c]) /\ Fits(writes'[s][c])
    <3> PICK n, bin : n = job[s].qty /\ bin = loaded[s][b]
      OBVIOUS
    <3>1. n \in Nat /\ bin \in Bin /\ CanOccupy(bin, n) /\ Puts(s, b, Occupy(bin, n))
      BY <1>4, <2>7 DEF OccupiesBin, Carries
    <3>2. Has(s, b) /\ Occupy(bin, n) \in Bin
      BY <3>1, BinRows, NotAbsent DEF Has
    <3>3. Occupy(bin, n).occupied <= Occupy(bin, n).capacity
      BY <3>1 DEF Occupy, CanOccupy, Bin
    <3> QED BY <2>5, <3>1, <3>2, <3>3
  <2>8. ASSUME NEW b \in Bins, NEW a, SetsBin(s, b, a)
        PROVE  \A c \in Bins : Fits(db'[c]) /\ Fits(writes'[s][c])
    <3> PICK n, bin : n = job[s].qty /\ bin = loaded[s][b]
      OBVIOUS
    <3>1. n \in Nat /\ b = job[s].bin /\ pc[s] = "setbin" /\ Puts(s, b, a)
      BY <2>8 DEF SetsBin
    <3>2. \/ a = NewBin(n)
          \/ bin \in Bin /\ a = Resize(bin, n)
      BY <2>8 DEF SetsBin
    <3>3. CASE a = NewBin(n)
      <4>1. a \in Bin
        BY <3>1, <3>3, NewBinRow
      <4>2. a.occupied = 0 /\ a.occupied <= a.capacity
        BY <3>1, <3>3 DEF NewBin
      <4> QED BY <2>5, <3>1, <4>1, <4>2
    <3>4. CASE bin \in Bin /\ a = Resize(bin, n)
      <4>1. a \in Bin /\ Has(s, b)
        BY <3>1, <3>4, BinRows, NotAbsent DEF Has
      <4>2. CanResize(bin, n)
        BY <1>4, <3>1, <4>1 DEF Carries
      <4>3. a.occupied <= a.capacity
        BY <3>1, <3>4, <4>2 DEF Resize, CanResize, Bin
      <4> QED BY <2>5, <3>1, <4>1, <4>3
    <3> QED BY <3>2, <3>3, <3>4
  <2> QED BY <2>1, <2>2, <2>4, <2>6, <2>7, <2>8 DEF Shape
<1>6. ASSUME NEW o \in Sessions PROVE Carries(o)' /\ \A c \in Bins : Fits(writes'[o][c])
  <2>1. Carries(o) /\ \A c \in Bins : Fits(writes[o][c])
    BY DEF BinsInv, Carries
  <2>2. Carries(o)'
    BY <2>1, CarriesStep
  <2>3. o # s => writes'[o] = writes[o]
    BY DEF Alone
  <2> QED BY <1>5, <2>1, <2>2, <2>3
<1> QED BY <1>2, <1>5, <1>6 DEF BinsInv, Carries

-----------------------------------------------------------------------------
(* The bins' ledger: sums.                                                 *)

(* What a transaction sees is a table.                                     *)
LEMMA ViewTable ==
    ASSUME TypeOK, NEW s \in Sessions
    PROVE  View(s) \in Tables /\ \A r \in Rows : View(s)[r] = Visible(s, r)
<1>1. db \in Tables /\ writes[s] \in Tables
  BY DEF TypeOK
<1> PICK t : t = View(s)
  OBVIOUS
<1>2. t = [r \in Rows |-> t[r]] /\ \A r \in Rows : t[r] = writes[s][r] \/ t[r] = db[r]
  BY DEF View, Visible
<1>3. t \in Tables
  BY <1>1, <1>2, MergeRows
<1> QED BY <1>3 DEF View

(* A bin balances against what a request has in its hands.                 *)
Books(s) == \A b \in Bins :
    IF writes[s][b] # Absent THEN Balanced(View(s), b, UnderWay(s, b))
    ELSE \A u \in Units : writes[s][u] # Absent /\ writes[s][u].bin = b =>
            db[u].quantity = writes[s][u].quantity + (IF u \in Picked(s) THEN Share(s, u) ELSE 0)

(* Away from the middle of a pick or stow, nothing is in its hands.        *)
LEMMA HandsFree ==
    ASSUME NEW s
    PROVE  /\ pc[s] \notin Midway => Picked(s) = {} /\ \A b : UnderWay(s, b) = 0
           /\ pc'[s] \notin Midway => Picked(s)' = {} /\ \A b : UnderWay(s, b)' = 0
BY DEF Picked, UnderWay, Midway

(* In it, the unit that was picked.                                        *)
LEMMA InHand ==
    ASSUME NEW s, NEW u
    PROVE  /\ Picked(s) = {u} => \A b : UnderWay(s, b) = IF loaded[s][u].bin = b THEN Share(s, u) ELSE 0
           /\ Picked(s)' = {u} => \A b : UnderWay(s, b)' = IF loaded'[s][u].bin = b THEN Share(s, u)' ELSE 0
<1>1. \A S : S = {u} => (CHOOSE v \in S : TRUE) = u
  OBVIOUS
<1>2. Picked(s) = {u} => pc[s] # "putunit"
  BY DEF Picked
<1>3. Picked(s)' = {u} => pc'[s] # "putunit"
  BY DEF Picked
<1>4. ASSUME Picked(s) = {u}, NEW b PROVE UnderWay(s, b) = IF loaded[s][u].bin = b THEN Share(s, u) ELSE 0
  BY <1>1, <1>2, <1>4 DEF UnderWay
<1>5. ASSUME Picked(s)' = {u}, NEW b
      PROVE  UnderWay(s, b)' = IF loaded'[s][u].bin = b THEN Share(s, u)' ELSE 0
  BY <1>1, <1>3, <1>5 DEF UnderWay
<1> QED BY <1>4, <1>5

(* In a bin that is not written, only the unit in hand has changed.        *)
LEMMA SpaceSeen ==
    ASSUME IInv, UnitsAlike, AddingInv, NEW s \in Sessions, Books(s), NEW b \in Bins, writes[s][b] = Absent,
           NEW u \in Units
    PROVE  Space(db, b, u) = Space(View(s), b, u) + (IF u \in Picked(s) /\ writes[s][u] # Absent /\ writes[s][u].bin = b
                                                    THEN Share(s, u) ELSE 0)
<1> PICK n : n = Share(s, u)
  OBVIOUS
<1>1. TypeOK /\ u \in Rows /\ View(s)[u] = Visible(s, u) /\ db \in Tables
  BY ViewTable DEF IInv, TypeOK, Rows
<1>2. Space(db, b, u) \in Nat
  BY <1>1, SpaceNat
<1>3. CASE writes[s][u] = Absent
  <2>1. View(s)[u] = db[u]
    BY <1>1, <1>3 DEF Visible
  <2> QED BY <1>2, <1>3, <2>1 DEF Space
<1>4. CASE writes[s][u] # Absent
  <2>1. View(s)[u] = writes[s][u]
    BY <1>1, <1>4 DEF Visible
  <2>2. CASE db[u] # Absent
    <3>1. writes[s][u].bin = db[u].bin
      BY <1>4, <2>2 DEF UnitsAlike, Alike
    <3>2. CASE db[u].bin = b
      <4>1. db[u].quantity = writes[s][u].quantity + (IF u \in Picked(s) THEN n ELSE 0)
        BY <1>4, <3>1, <3>2 DEF Books
      <4> QED BY <1>4, <2>1, <2>2, <3>1, <3>2, <4>1 DEF Space
    <3>3. CASE db[u].bin # b
      BY <2>1, <3>1, <3>3 DEF Space
    <3> QED BY <3>2, <3>3
  <2>3. CASE db[u] = Absent
    <3>1. writes[s][u].bin # b
      BY <1>4, <2>3 DEF AddingInv, AddsUnit
    <3> QED BY <2>1, <2>3, <3>1 DEF Space
  <2> QED BY <2>2, <2>3
<1> QED BY <1>3, <1>4
(* So is what it sees after a step.                                        *)
LEMMA ViewNext ==
    ASSUME TypeOK', NEW s \in Sessions
    PROVE  View(s)' \in Tables /\ \A r \in Rows : View(s)'[r] = Visible(s, r)'
<1>1. db' \in Tables /\ writes'[s] \in Tables
  BY DEF TypeOK
<1> PICK t : t = View(s)'
  OBVIOUS
<1>2. t = [r \in Rows |-> t[r]] /\ \A r \in Rows : t[r] = writes'[s][r] \/ t[r] = db'[r]
  BY DEF View, Visible
<1>3. t \in Tables
  BY <1>1, <1>2, MergeRows
<1> QED BY <1>3 DEF View

(* A step disturbs only the bins its session has written.                  *)
ShelfMoves(s) == \A b \in Bins :
    writes[s][b] # Absent \/ \A u \in Units : Space(db', b, u) = Space(db, b, u)

(* The books of the others stay balanced.                                  *)
LEMMA BooksAlone ==
    ASSUME IInv, TypeOK', NEW s \in Sessions, Alone(s), TableMoves(s), ShelfMoves(s),
           NEW o \in Sessions \ {s}, Books(o)
    PROVE  Books(o)'
<1> PICK t, w : t = View(o) /\ w = View(o)'
  OBVIOUS
<1>1. /\ pc'[o] = pc[o] /\ job'[o] = job[o] /\ loaded'[o] = loaded[o] /\ writes'[o] = writes[o]
      /\ Picked(o)' = Picked(o) /\ (\A u : Share(o, u)' = Share(o, u)) /\ \A b : UnderWay(o, b)' = UnderWay(o, b)
  <2>1. pc'[o] = pc[o] /\ job'[o] = job[o] /\ loaded'[o] = loaded[o] /\ writes'[o] = writes[o]
    BY DEF Alone
  <2>2. Picked(o)' = Picked(o) /\ \A u : Share(o, u)' = Share(o, u)
    BY <2>1 DEF Picked, IsNext, Share
  <2>3. \A b : UnderWay(o, b)' = UnderWay(o, b)
    BY <2>1, <2>2 DEF UnderWay
  <2> QED BY <2>1, <2>2, <2>3
<1>2. /\ t \in Tables /\ w \in Tables
      /\ \A q \in Rows : t[q] = IF writes[o][q] # Absent THEN writes[o][q] ELSE db[q]
      /\ \A q \in Rows : w[q] = IF writes[o][q] # Absent THEN writes[o][q] ELSE db'[q]
  BY <1>1, ViewTable, ViewNext DEF IInv, Visible
<1>3. ASSUME NEW b \in Bins, writes[o][b] # Absent
      PROVE  Balanced(w, b, UnderWay(o, b))
  <2>1. b \in Rows /\ t[b] = w[b]
    BY <1>2, <1>3 DEF Rows
  <2>2. writes[s][b] = Absent
    BY <1>3, <2>1 DEF IInv, StoreInv, Exclusive
  <2>3. ASSUME NEW u \in Units PROVE Space(w, b, u) = Space(t, b, u)
    <3>1. Space(db', b, u) = Space(db, b, u)
      BY <2>2 DEF ShelfMoves
    <3>2. u \in Rows
      BY DEF Rows
    <3> QED BY <1>2, <3>1, <3>2 DEF Space
  <2>4. Lies(w, b) = Lies(t, b)
    BY <1>2, <2>3, LiesSame
  <2>5. Balanced(t, b, UnderWay(o, b))
    BY <1>3 DEF Books
  <2> QED BY <2>1, <2>4, <2>5 DEF Balanced
<1>4. ASSUME NEW b \in Bins, writes[o][b] = Absent, NEW u \in Units, writes[o][u] # Absent, writes[o][u].bin = b
      PROVE  db'[u].quantity = writes[o][u].quantity + (IF u \in Picked(o) THEN Share(o, u) ELSE 0)
  <2>1. u \in Rows
    BY DEF Rows
  <2>2. db'[u] = db[u]
    BY <1>4, <2>1 DEF TableMoves
  <2> QED BY <1>4, <2>2 DEF Books
<1>5. ASSUME NEW b \in Bins
      PROVE  (IF writes[o][b] # Absent THEN Balanced(View(o), b, UnderWay(o, b))
              ELSE \A u \in Units : writes[o][u] # Absent /\ writes[o][u].bin = b =>
                      db[u].quantity = writes[o][u].quantity + (IF u \in Picked(o) THEN Share(o, u) ELSE 0))'
  BY <1>1, <1>3, <1>4
<1> QED BY <1>5 DEF Books

(* A step keeps the books whose own session keeps its own.                 *)
LEMMA BooksKept ==
    ASSUME IInv, TypeOK', BooksInv, NEW s \in Sessions, Alone(s), TableMoves(s), ShelfMoves(s),
           \A b \in Bins : Balanced(db', b, 0), Books(s)'
    PROVE  BooksInv'
<1>1. ASSUME NEW o \in Sessions PROVE Books(o)'
  <2>1. Books(o)
    BY DEF BooksInv, Books
  <2> QED BY <2>1, BooksAlone
<1> QED BY <1>1 DEF BooksInv, Books

(* Nothing in a bin takes no space.                                        *)
LEMMA LiesNone ==
    ASSUME NEW t \in Tables, NEW b, \A u \in Units : t[u] # Absent => t[u].bin # b
    PROVE  Lies(t, b) = 0
<1>1. InBin(t, b) = {}
  BY DEF InBin
<1> QED BY <1>1, AmountNone DEF Lies

(* The transaction is over.                                                *)
LEMMA BooksEnd ==
    ASSUME IInv, TypeOK', Asked, UnitsAlike, AddingInv, BooksInv, NEW s \in Sessions, Carries(s),
           Ends(s), Alone(s), Orderly(s)
    PROVE  BooksInv'
<1>1. TypeOK /\ TableMoves(s) /\ Books(s) /\ \A c \in Bins : c \in Rows
  BY TableEnds DEF IInv, BooksInv, Books, Rows
<1>2. Books(s)'
  BY EndsEffect DEF Books, Rows
<1>3. CASE db' = db
  <2>1. ShelfMoves(s) /\ \A b \in Bins : Balanced(db', b, 0)
    BY <1>3 DEF ShelfMoves, BooksInv
  <2> QED BY <1>1, <1>2, <2>1, BooksKept
<1>4. CASE db' # db
  <2>1. pc[s] \notin Midway
    <3>1. ~Rollback(s)
      BY <1>4 DEF Rollback
    <3>2. CASE pc[s] \in {"bin", "savebin"}
      <4>1. Scope(job[s].op) # "joined"
        BY <3>2, PickFacts DEF Carries, Resolves
      <4> QED BY <3>1, <3>2, <4>1 DEF Orderly, ReleasesBin, StowsUnit, Ends, Midway, Finished
    <3>3. CASE pc[s] = "putunit"
      <4>1. Scope(job[s].op) # "joined"
        BY <3>3 DEF IInv, Control, Scope
      <4> QED BY <3>1, <3>3, <4>1 DEF Orderly, ReleasesBin, StowsUnit, Ends, Midway, Finished
    <3> QED BY <3>2, <3>3 DEF Midway
  <2>2. Picked(s) = {} /\ \A b : UnderWay(s, b) = 0
    BY <2>1, HandsFree
  <2> PICK t : t = View(s)
    OBVIOUS
  <2>3. t \in Tables /\ db' \in Tables /\ db \in Tables /\ \A q \in Rows : t[q] = db'[q] /\ db'[q] = Visible(s, q)
    BY <1>1, <1>4, ViewTable, EndsEffect DEF TypeOK
  <2>4. ASSUME NEW b \in Bins, NEW u \in Units PROVE Space(db', b, u) = Space(t, b, u)
    BY <2>3 DEF Space, Rows
  <2>5. ASSUME NEW b \in Bins, writes[s][b] = Absent, NEW u \in Units PROVE Space(db', b, u) = Space(db, b, u)
    <3>1. Space(db, b, u) = Space(t, b, u) + 0
      BY <1>1, <2>2, <2>5, SpaceSeen
    <3>2. Space(t, b, u) \in Nat
      BY <2>3, SpaceNat
    <3> QED BY <2>4, <3>1, <3>2
  <2>6. ShelfMoves(s)
    BY <2>5 DEF ShelfMoves
  <2>7. ASSUME NEW b \in Bins PROVE Balanced(db', b, 0)
    <3>1. CASE writes[s][b] # Absent
      <4>1. Balanced(t, b, 0)
        BY <1>1, <2>2, <3>1 DEF Books
      <4>2. Lies(db', b) = Lies(t, b) /\ t[b] = db'[b]
        BY <1>1, <2>3, <2>4, LiesSame
      <4> QED BY <4>1, <4>2 DEF Balanced
    <3>2. CASE writes[s][b] = Absent
      <4>1. Balanced(db, b, 0)
        BY DEF BooksInv
      <4>2. Lies(db', b) = Lies(db, b)
        BY <2>3, <2>5, <3>2, LiesSame
      <4>3. db'[b] = db[b]
        BY <1>1, <2>3, <3>2 DEF Visible
      <4> QED BY <4>1, <4>2, <4>3 DEF Balanced
    <3> QED BY <3>1, <3>2
  <2> QED BY <1>1, <1>2, <2>6, <2>7, BooksKept
<1> QED BY <1>3, <1>4

(* A row is written that takes no other space than it did.                 *)
LEMMA BooksAside ==
    ASSUME IInv, TypeOK', BooksInv, NEW s \in Sessions, Alone(s), TableMoves(s),
           NEW r \in Units \cup Resvs, NEW a, Puts(s, r, a), pc[s] \notin Midway, pc'[s] \notin Midway,
           r \in Units => /\ Has(s, r) /\ loaded[s][r] \in StockUnit /\ a \in StockUnit
                          /\ a.quantity = loaded[s][r].quantity /\ a.bin = loaded[s][r].bin
    PROVE  BooksInv'
<1> PICK t, w, v : t = View(s) /\ w = View(s)' /\ v = Stored(s, r, a)
  OBVIOUS
<1>1. TypeOK /\ r \in Rows /\ Books(s) /\ Picked(s) = {} /\ Picked(s)' = {}
  BY HandsFree DEF IInv, Puts, BooksInv, Books
<1>2. \A b \in Bins : b \in Rows /\ b # r /\ UnderWay(s, b) = 0 /\ UnderWay(s, b)' = 0
  BY HandsFree, RowsAssumption DEF Rows
<1>3. /\ t \in Tables /\ w \in Tables /\ db \in Tables /\ db' \in Tables
      /\ (\A q \in Rows \ {r} : w[q] = t[q] /\ writes'[s][q] = writes[s][q] /\ db'[q] = db[q])
      /\ w[r] = v /\ t[r] = Visible(s, r)
  BY <1>1, ViewTable, ViewNext, PutsEffect DEF TypeOK
<1>4. ASSUME r \in Units
      PROVE  /\ v # Absent /\ v.quantity = a.quantity /\ v.bin = a.bin
             /\ t[r] # Absent /\ t[r].quantity = a.quantity /\ t[r].bin = a.bin
  BY <1>1, <1>3, <1>4, PutsEffect, StoredFields DEF Has
<1>5. ASSUME NEW b \in Bins, NEW u \in Units PROVE Space(w, b, u) = Space(t, b, u)
  <2>1. CASE u = r
    BY <1>3, <1>4, <2>1 DEF Space
  <2>2. CASE u # r
    BY <1>3, <2>2 DEF Space, Rows
  <2> QED BY <2>1, <2>2
<1>6. ASSUME NEW b \in Bins, NEW u \in Units PROVE Space(db', b, u) = Space(db, b, u)
  <2>1. CASE InTx(s) \/ u # r
    <3>1. db'[u] = db[u]
      BY <1>1, <1>3, <2>1, PutsEffect DEF Rows
    <3> QED BY <3>1 DEF Space
  <2>2. CASE ~InTx(s) /\ u = r
    <3>1. db'[u] = v /\ t[u] = db[u]
      BY <1>1, <1>3, <2>2, PutsEffect DEF Visible
    <3> QED BY <1>4, <2>2, <3>1 DEF Space
  <2> QED BY <2>1, <2>2
<1>7. ASSUME NEW b \in Bins PROVE Balanced(db', b, 0)
  <2>1. db'[b] = db[b] /\ Balanced(db, b, 0)
    BY <1>2, <1>3 DEF BooksInv
  <2>2. Lies(db', b) = Lies(db, b)
    BY <1>3, <1>6, LiesSame
  <2> QED BY <2>1, <2>2 DEF Balanced
<1>8. ASSUME NEW b \in Bins, writes'[s][b] # Absent
      PROVE  Balanced(w, b, 0)
  <2>1. writes[s][b] # Absent /\ w[b] = t[b]
    BY <1>2, <1>3, <1>8
  <2>2. Balanced(t, b, 0)
    BY <1>1, <1>2, <2>1 DEF Books
  <2>3. Lies(w, b) = Lies(t, b)
    BY <1>3, <1>5, LiesSame
  <2> QED BY <2>1, <2>2, <2>3 DEF Balanced
<1>9. ASSUME NEW b \in Bins, writes'[s][b] = Absent, NEW u \in Units, writes'[s][u] # Absent, writes'[s][u].bin = b
      PROVE  db'[u].quantity = writes'[s][u].quantity + 0
  <2>1. writes[s][b] = Absent
    BY <1>2, <1>3, <1>9
  <2>2. CASE u # r
    <3>1. writes'[s][u] = writes[s][u] /\ db'[u] = db[u]
      BY <1>3, <2>2 DEF Rows
    <3> QED BY <1>1, <1>9, <2>1, <3>1 DEF Books
  <2>3. CASE u = r
    <3>1. InTx(s) /\ writes'[s][u] = v /\ db'[u] = db[u]
      BY <1>1, <1>9, <2>3, PutsEffect
    <3>2. CASE writes[s][u] = Absent
      <4>1. t[u] = db[u] /\ a.quantity \in Nat
        BY <1>3, <2>3, <3>2 DEF Visible, StockUnit
      <4> QED BY <1>4, <2>3, <3>1, <4>1
    <3>3. CASE writes[s][u] # Absent
      <4>1. t[u] = writes[s][u]
        BY <1>3, <2>3, <3>3 DEF Visible
      <4>2. writes[s][u].bin = b
        BY <1>4, <1>9, <2>3, <3>1, <4>1
      <4>3. db[u].quantity = writes[s][u].quantity + 0
        BY <1>1, <2>1, <3>3, <4>2 DEF Books
      <4> QED BY <1>4, <2>3, <3>1, <4>1, <4>3
    <3> QED BY <3>2, <3>3
  <2> QED BY <2>2, <2>3
<1>10. Books(s)'
  <2>1. \A b \in Bins :
          (IF writes[s][b] # Absent THEN Balanced(View(s), b, UnderWay(s, b))
           ELSE \A u \in Units : writes[s][u] # Absent /\ writes[s][u].bin = b =>
                   db[u].quantity = writes[s][u].quantity + (IF u \in Picked(s) THEN Share(s, u) ELSE 0))'
    BY <1>1, <1>2, <1>8, <1>9
  <2> QED BY <2>1 DEF Books
<1>11. ShelfMoves(s)
  BY <1>6 DEF ShelfMoves
<1> QED BY <1>7, <1>10, <1>11, BooksKept

(* A step within the transaction.                                          *)
LEMMA BooksTx ==
    ASSUME IInv, TypeOK', BooksInv, NEW s \in Sessions, Alone(s), db' = db, Books(s)'
    PROVE  BooksInv'
<1>1. TableMoves(s) /\ ShelfMoves(s) /\ \A b \in Bins : Balanced(db', b, 0)
  BY TableSame DEF ShelfMoves, BooksInv
<1> QED BY <1>1, BooksKept

(* A unit is picked: what was taken is in the hands.                       *)
LEMMA BooksPick ==
    ASSUME IInv, TypeOK', Asked, BooksInv, NEW s \in Sessions, Alone(s), NEW u \in Units, PicksUnit(s, u)
    PROVE  BooksInv'
<1> PICK t, w, n, c : t = View(s) /\ w = View(s)' /\ n = Share(s, u) /\ c = loaded[s][u].bin
  OBVIOUS
<1>1. /\ InTx(s) /\ Picked(s) = {} /\ Picked(s)' = {u} /\ Share(s, u)' = n
      /\ writes'[s][u] # Absent /\ loaded'[s][u].bin = c /\ writes'[s][u].bin = c
      /\ writes'[s][u].quantity + n = loaded[s][u].quantity
  <2>1. loaded' = loaded
    BY DEF PicksUnit
  <2> QED BY <2>1, CarriesPick
<1>2. PICK a : Puts(s, u, a)
  BY DEF PicksUnit
<1>3. /\ TypeOK /\ Books(s) /\ u \in Rows /\ pc[s] = "save" /\ n \in Nat /\ loaded[s][u] \in StockUnit
      /\ pc[s] \notin Midway
  BY DEF IInv, BooksInv, Books, Rows, PicksUnit, Midway
<1>4. \A b \in Bins : /\ b \in Rows \ {u} /\ UnderWay(s, b) = 0
                      /\ UnderWay(s, b)' = IF c = b THEN n ELSE 0
  BY <1>1, <1>3, HandsFree, InHand, RowsAssumption DEF Rows
<1>5. /\ t \in Tables /\ w \in Tables /\ db' = db
      /\ (\A q \in Rows \ {u} : w[q] = t[q] /\ writes'[s][q] = writes[s][q])
      /\ w[u] = writes'[s][u] /\ t[u] = loaded[s][u] /\ t[u] # Absent
      /\ (writes[s][u] = Absent => t[u] = db[u]) /\ (writes[s][u] # Absent => t[u] = writes[s][u])
  <2>1. db' = db
    BY <1>1, <1>2 DEF Puts, Save
  <2>2. Has(s, u)
    BY <1>3, NotAbsent DEF Has
  <2>3. \A q \in Rows : t[q] = Visible(s, q) /\ w[q] = Visible(s, q)'
    BY <1>3, ViewTable, ViewNext
  <2>4. t \in Tables /\ w \in Tables
    BY <1>3, ViewTable, ViewNext
  <2>5. \A q \in Rows \ {u} : Visible(s, q)' = Visible(s, q) /\ writes'[s][q] = writes[s][q]
    BY <1>2, PutsEffect
  <2>6. w[u] = writes'[s][u] /\ t[u] = loaded[s][u]
    BY <1>1, <1>2, <1>3, <2>2, <2>3, PutsEffect DEF Visible
  <2> QED BY <1>3, <2>1, <2>2, <2>3, <2>4, <2>5, <2>6 DEF Visible, Has
<1>6. ASSUME NEW b \in Bins, writes'[s][b] # Absent PROVE Balanced(w, b, UnderWay(s, b)')
  <2>1. writes[s][b] # Absent /\ w[b] = t[b]
    BY <1>4, <1>5, <1>6
  <2>2. Balanced(t, b, 0)
    BY <1>3, <1>4, <2>1 DEF Books
  <2>3. \A x \in Units : x # u => Space(w, b, x) = Space(t, b, x)
    BY <1>5 DEF Space, Rows
  <2>4. /\ Lies(w, b) + Space(t, b, u) = Lies(t, b) + Space(w, b, u)
        /\ Lies(w, b) \in Nat /\ Lies(t, b) \in Nat
    BY <1>5, <2>3, LiesOne
  <2>5. Space(t, b, u) = Space(w, b, u) + UnderWay(s, b)' /\ Space(w, b, u) \in Nat /\ UnderWay(s, b)' \in Nat
    <3>1. Space(w, b, u) \in Nat
      BY <1>5, SpaceNat
    <3> QED BY <1>1, <1>3, <1>4, <1>5, <3>1 DEF Space
  <2>6. Lies(t, b) = Lies(w, b) + UnderWay(s, b)' /\ Lies(t, b) + 0 = Lies(t, b)
    BY <2>4, <2>5
  <2> QED BY <2>1, <2>2, <2>6 DEF Balanced
<1>7. ASSUME NEW b \in Bins, writes'[s][b] = Absent, NEW x \in Units, writes'[s][x] # Absent, writes'[s][x].bin = b
      PROVE  db'[x].quantity = writes'[s][x].quantity + (IF x = u THEN n ELSE 0)
  <2>1. writes[s][b] = Absent
    BY <1>4, <1>5, <1>7
  <2>2. CASE x # u
    <3>1. writes'[s][x] = writes[s][x]
      BY <1>5, <2>2 DEF Rows
    <3> QED BY <1>1, <1>3, <1>5, <1>7, <2>1, <2>2, <3>1 DEF Books
  <2>3. CASE x = u
    <3>1. db[u].quantity = t[u].quantity
      <4>1. CASE writes[s][u] = Absent
        BY <1>5, <4>1
      <4>2. CASE writes[s][u] # Absent
        <5>1. t[u] = writes[s][u] /\ writes[s][u].bin = b /\ writes[s][u].quantity \in Nat
          BY <1>1, <1>3, <1>5, <1>7, <2>3, <4>2 DEF StockUnit
        <5>2. db[u].quantity = writes[s][u].quantity + 0
          BY <1>1, <1>3, <2>1, <4>2, <5>1 DEF Books
        <5> QED BY <5>1, <5>2
      <4> QED BY <4>1, <4>2
    <3> QED BY <1>1, <1>5, <2>3, <3>1
  <2> QED BY <2>2, <2>3
<1>8. Books(s)'
  <2>1. \A b \in Bins :
          (IF writes[s][b] # Absent THEN Balanced(View(s), b, UnderWay(s, b))
           ELSE \A x \in Units : writes[s][x] # Absent /\ writes[s][x].bin = b =>
                   db[x].quantity = writes[s][x].quantity + (IF x \in Picked(s) THEN Share(s, x) ELSE 0))'
    BY <1>1, <1>6, <1>7
  <2> QED BY <2>1 DEF Books
<1> QED BY <1>5, <1>8, BooksTx

(* The bin of the unit in hand is written: nothing is left in the hands.   *)
LEMMA BooksRelease ==
    ASSUME IInv, TypeOK', Asked, UnitsAlike, AddingInv, BooksInv, NEW s \in Sessions, Carries(s), Alone(s),
           NEW u \in Units, NEW c \in Bins, ReleasesBin(s, u, c)
    PROVE  BooksInv'
<1> PICK t, w, n, a : t = View(s) /\ w = View(s)' /\ n = Share(s, u) /\ a = ReleaseBin(loaded[s][c], n)
  OBVIOUS
<1>1. /\ TypeOK /\ Books(s) /\ pc[s] = "savebin" /\ n \in Nat /\ c = loaded[s][u].bin /\ c \in Rows
      /\ Puts(s, c, a) /\ loaded[s][c] \in Bin /\ CanReleaseBin(loaded[s][c], n) /\ pc'[s] \notin Midway
  BY DEF IInv, BooksInv, Books, Rows, ReleasesBin, Midway
<1>2. Picked(s) = {u} /\ writes[s][u] # Absent /\ writes[s][u].bin = c
  <2>1. u \in Picked(s)
    BY <1>1 DEF ReleasesBin, Picked, IsNext
  <2> QED BY <1>1, <2>1, PickedOne DEF Carries
<1>3. InTx(s)
  BY <1>1, PickFacts DEF Carries, Resolves
<1>4. Picked(s)' = {} /\ \A b \in Bins : UnderWay(s, b) = (IF b = c THEN n ELSE 0) /\ UnderWay(s, b)' = 0
  BY <1>1, <1>2, HandsFree, InHand
<1>5. /\ t \in Tables /\ w \in Tables /\ db \in Tables /\ db' = db /\ \A q \in Rows : t[q] = Visible(s, q)
      /\ \A q \in Rows \ {c} : w[q] = t[q] /\ writes'[s][q] = writes[s][q]
  <2>1. db' = db
    BY <1>1, <1>3 DEF Puts, Save
  <2>2. t \in Tables /\ w \in Tables /\ \A q \in Rows : t[q] = Visible(s, q) /\ w[q] = Visible(s, q)'
    BY <1>1, ViewTable, ViewNext
  <2> QED BY <1>1, <2>1, <2>2, PutsEffect DEF TypeOK
<1>6. /\ writes'[s][c] # Absent /\ w[c] # Absent /\ t[c] = loaded[s][c]
      /\ w[c].occupied + n = t[c].occupied /\ w[c].occupied \in Nat
  <2>1. a \in Bin /\ Has(s, c)
    BY <1>1, BinRows, NotAbsent DEF Has
  <2>2. w[c] = Stored(s, c, a) /\ writes'[s][c] = Stored(s, c, a) /\ Stored(s, c, a) # Absent /\ t[c] = loaded[s][c]
    <3>1. w[c] = Visible(s, c)'
      BY <1>1, ViewNext
    <3> QED BY <1>1, <1>3, <1>5, <2>1, <3>1, PutsEffect
  <2>3. Stored(s, c, a).occupied = a.occupied
    BY <1>1, <2>1, StoredFields
  <2>4. a.occupied + n = loaded[s][c].occupied /\ a.occupied \in Nat
    BY <1>1 DEF ReleaseBin, CanReleaseBin, Bin
  <2> QED BY <2>2, <2>3, <2>4
<1>7. ASSUME NEW b \in Bins PROVE Lies(w, b) = Lies(t, b) /\ Lies(t, b) \in Nat
  <2>1. \A x \in Units : x \in Rows \ {c}
    BY RowsAssumption DEF Rows
  <2>2. \A x \in Units : Space(w, b, x) = Space(t, b, x)
    BY <1>5, <2>1 DEF Space
  <2> QED BY <1>5, <2>2, LiesSame, LiesNat
<1>8. t[c].occupied = Lies(t, c) + n
  <2>1. CASE writes[s][c] # Absent
    <3>1. Balanced(t, c, n) /\ t[c] # Absent
      BY <1>1, <1>4, <1>5, <2>1 DEF Books, Visible
    <3> QED BY <3>1 DEF Balanced
  <2>2. CASE writes[s][c] = Absent
    <3>1. t[c] = db[c] /\ t[c] # Absent
      BY <1>1, <1>5, <1>6, <2>2, NotAbsent DEF Visible
    <3>2. Balanced(db, c, 0)
      BY DEF BooksInv
    <3>3. \A x \in Units : Space(db, c, x) = Space(t, c, x) + (IF x = u THEN n ELSE 0)
      BY <1>1, <1>2, <2>2, SpaceSeen
    <3>4. \A x \in Units : Space(t, c, x) \in Nat
      BY <1>5, SpaceNat
    <3>5. \A x \in Units : x # u => Space(db, c, x) = Space(t, c, x)
      BY <3>3, <3>4
    <3>6. /\ Lies(db, c) + Space(t, c, u) = Lies(t, c) + Space(db, c, u)
          /\ Lies(db, c) \in Nat /\ Lies(t, c) \in Nat
      BY <1>5, <3>5, LiesOne
    <3>7. Lies(db, c) = Lies(t, c) + n /\ Lies(db, c) + 0 = Lies(db, c)
      BY <1>1, <3>3, <3>4, <3>6
    <3> QED BY <3>1, <3>2, <3>7 DEF Balanced
  <2> QED BY <2>1, <2>2
<1>9. ASSUME NEW b \in Bins, writes'[s][b] # Absent PROVE Balanced(w, b, 0)
  <2>1. Lies(w, b) + 0 = Lies(t, b) /\ Lies(w, b) = Lies(t, b)
    BY <1>7
  <2>2. CASE b = c
    <3>1. w[c].occupied = Lies(t, c)
      BY <1>1, <1>6, <1>7, <1>8
    <3> QED BY <2>1, <2>2, <3>1 DEF Balanced
  <2>3. CASE b # c
    <3>1. b \in Rows \ {c}
      BY <2>3 DEF Rows
    <3>2. writes[s][b] # Absent /\ w[b] = t[b]
      BY <1>5, <1>9, <3>1
    <3>3. Balanced(t, b, 0)
      BY <1>1, <1>4, <2>3, <3>2 DEF Books
    <3> QED BY <2>1, <3>2, <3>3 DEF Balanced
  <2> QED BY <2>2, <2>3
<1>10. ASSUME NEW b \in Bins, writes'[s][b] = Absent, NEW x \in Units, writes'[s][x] # Absent, writes'[s][x].bin = b
       PROVE  db'[x].quantity = writes'[s][x].quantity + 0
  <2>1. b # c /\ b \in Rows \ {c} /\ x \in Rows \ {c}
    BY <1>6, <1>10, RowsAssumption DEF Rows
  <2>2. writes[s][b] = Absent /\ writes'[s][x] = writes[s][x]
    BY <1>5, <1>10, <2>1
  <2>3. x \notin Picked(s)
    BY <1>2, <1>10, <2>1, <2>2
  <2> QED BY <1>1, <1>5, <1>10, <2>2, <2>3 DEF Books
<1>11. Books(s)'
  <2>1. \A b \in Bins :
          (IF writes[s][b] # Absent THEN Balanced(View(s), b, UnderWay(s, b))
           ELSE \A x \in Units : writes[s][x] # Absent /\ writes[s][x].bin = b =>
                   db[x].quantity = writes[s][x].quantity + (IF x \in Picked(s) THEN Share(s, x) ELSE 0))'
    BY <1>4, <1>9, <1>10
  <2> QED BY <2>1 DEF Books
<1> QED BY <1>5, <1>11, BooksTx

(* A transaction begins with a bin.                                        *)
LEMMA BooksFirst ==
    ASSUME IInv, TypeOK', BooksInv, NEW s \in Sessions, Alone(s), InTx(s), writes[s] = NoRows,
           NEW c \in Bins, NEW a \in Bin, Puts(s, c, a), a.occupied = Lies(db, c) + UnderWay(s, c)'
    PROVE  BooksInv'
<1> PICK w : w = View(s)'
  OBVIOUS
<1>1. TypeOK /\ c \in Rows /\ db' = db /\ db \in Tables /\ \A q \in Rows : writes[s][q] = Absent
  BY DEF IInv, TypeOK, Rows, Puts, Save, NoRows
<1>2. /\ w \in Tables /\ \A q \in Rows \ {c} : w[q] = db[q] /\ writes'[s][q] = Absent
      /\ w[c] = Stored(s, c, a)
  <2>1. w \in Tables /\ \A q \in Rows : w[q] = Visible(s, q)'
    BY ViewNext
  <2> QED BY <1>1, <2>1, PutsEffect DEF Visible
<1>3. w[c].occupied = a.occupied
  BY <1>1, <1>2, StoredFields
<1>4. \A x \in Units : x \in Rows \ {c}
  BY RowsAssumption DEF Rows
<1>5. Lies(w, c) = Lies(db, c)
  <2>1. \A x \in Units : Space(w, c, x) = Space(db, c, x)
    BY <1>2, <1>4 DEF Space
  <2> QED BY <1>1, <1>2, <2>1, LiesSame
<1>6. ASSUME NEW b \in Bins, writes'[s][b] # Absent PROVE Balanced(w, b, UnderWay(s, b)')
  <2>1. b = c
    BY <1>2, <1>6 DEF Rows
  <2> QED BY <1>3, <1>5, <2>1 DEF Balanced
<1>7. \A x \in Units : writes'[s][x] = Absent
  BY <1>2, <1>4
<1>8. Books(s)'
  <2>1. \A b \in Bins :
          (IF writes[s][b] # Absent THEN Balanced(View(s), b, UnderWay(s, b))
           ELSE \A x \in Units : writes[s][x] # Absent /\ writes[s][x].bin = b =>
                   db[x].quantity = writes[s][x].quantity + (IF x \in Picked(s) THEN Share(s, x) ELSE 0))'
    BY <1>6, <1>7
  <2> QED BY <2>1 DEF Books
<1> QED BY <1>1, <1>8, BooksTx

(* A stow makes room for what it is about to put there.                    *)
LEMMA BooksOccupy ==
    ASSUME IInv, TypeOK', StowInv, BooksInv, NEW s \in Sessions, Alone(s), NEW c \in Bins, OccupiesBin(s, c)
    PROVE  BooksInv'
<1> PICK n, a : n = job[s].qty /\ a = Occupy(loaded[s][c], n)
  OBVIOUS
<1>1. /\ pc[s] = "putbin" /\ c = job[s].bin /\ loaded[s][c] \in Bin /\ n \in Nat /\ Puts(s, c, a)
      /\ pc'[s] = "putunit" /\ job'[s] = job[s]
  BY DEF OccupiesBin
<1>2. InTx(s) /\ writes[s] = NoRows
  BY <1>1, StowsInTx DEF StowInv
<1>3. UnderWay(s, c)' = n
  BY <1>1 DEF UnderWay
<1>4. db[c] = loaded[s][c] /\ db[c] # Absent
  <2>1. Has(s, c) /\ c \in Rows
    BY <1>1, NotAbsent DEF Has, Rows
  <2>2. Visible(s, c) = loaded[s][c]
    BY <1>1, <2>1, PutsEffect
  <2> QED BY <1>2, <2>1, <2>2 DEF Visible, NoRows, Has
<1>5. db[c].occupied = Lies(db, c) /\ Lies(db, c) \in Nat
  <2>1. Lies(db, c) \in Nat
    BY LiesNat DEF IInv, TypeOK
  <2> QED BY <1>4, <2>1 DEF BooksInv, Balanced
<1>6. a \in Bin /\ a.occupied = Lies(db, c) + n
  <2>1. a.occupied = loaded[s][c].occupied + n
    BY <1>1 DEF Occupy, Bin
  <2> QED BY <1>1, <1>4, <1>5, <2>1, BinRows
<1> QED BY <1>1, <1>2, <1>3, <1>6, BooksFirst

(* A bin is created empty, or resized with what it has.                    *)
LEMMA BooksSet ==
    ASSUME IInv, TypeOK', StowInv, BooksInv, BinsInv, NEW s \in Sessions, Alone(s), NEW c \in Bins, NEW a,
           SetsBin(s, c, a)
    PROVE  BooksInv'
<1> PICK n : n = job[s].qty
  OBVIOUS
<1>1. /\ pc[s] = "setbin" /\ n \in Nat /\ Puts(s, c, a) /\ pc'[s] = "commit" /\ c \in Rows
      /\ \/ loaded[s][c] = Absent /\ a = NewBin(n)
         \/ loaded[s][c] \in Bin /\ a = Resize(loaded[s][c], n)
  BY DEF SetsBin, Rows
<1>2. InTx(s) /\ writes[s] = NoRows
  BY <1>1 DEF IInv, Control, InTx, Scope, ScopeSteps, StowInv
<1>3. UnderWay(s, c)' = 0
  BY <1>1 DEF UnderWay, Picked
<1>4. Visible(s, c) = db[c] /\ db \in Tables /\ Lies(db, c) \in Nat
  BY <1>1, <1>2, LiesNat DEF Visible, NoRows, IInv, TypeOK
<1>5. db[c] # Absent => db[c].occupied = Lies(db, c)
  BY <1>4 DEF BooksInv, Balanced
<1>6. a \in Bin /\ a.occupied = Lies(db, c)
  <2>1. CASE loaded[s][c] = Absent /\ a = NewBin(n)
    <3>1. a \in Bin /\ a.occupied = 0 /\ a.version = 1
      BY <1>1, <2>1, NewBinRow DEF NewBin
    <3>2. CASE db[c] = Absent
      <4>1. \A x \in Units : db[x] # Absent => db[x].bin # c
        BY <3>2 DEF BinsInv
      <4> QED BY <1>4, <3>1, <4>1, LiesNone
    <3>3. CASE db[c] # Absent
      <4>1. db[c].version = 1
        BY <1>1, <1>4, <3>1, <3>3, PutsEffect
      <4>2. db[c].occupied = 0
        BY <3>3, <4>1 DEF BinsInv, Fits
      <4> QED BY <1>5, <3>1, <3>3, <4>2
    <3> QED BY <3>2, <3>3
  <2>2. CASE loaded[s][c] \in Bin /\ a = Resize(loaded[s][c], n)
    <3>1. Has(s, c)
      BY <2>2, NotAbsent DEF Has
    <3>2. db[c] = loaded[s][c] /\ db[c] # Absent
      BY <1>1, <1>4, <3>1, PutsEffect DEF Has
    <3>3. a \in Bin /\ a.occupied = loaded[s][c].occupied
      BY <1>1, <2>2, BinRows DEF Resize, Bin
    <3> QED BY <1>5, <3>2, <3>3
  <2> QED BY <1>1, <2>1, <2>2
<1> QED BY <1>1, <1>2, <1>3, <1>4, <1>6, BooksFirst

(* The stowed unit takes the room that was made for it.                    *)
LEMMA BooksStow ==
    ASSUME IInv, TypeOK', StowInv, BooksInv, NEW s \in Sessions, Alone(s),
           NEW u \in Units, NEW a, StowsUnit(s, u, a)
    PROVE  BooksInv'
<1> PICK t, w, n, c : t = View(s) /\ w = View(s)' /\ n = job[s].qty /\ c = job[s].bin
  OBVIOUS
<1>1. /\ TypeOK /\ Books(s) /\ pc[s] = "putunit" /\ pc'[s] = "commit" /\ Unused(u) /\ c \in Bins /\ n \in Nat
      /\ Puts(s, u, a) /\ a.bin = c /\ a.quantity = n /\ u \in Rows
  BY DEF IInv, BooksInv, Books, StowsUnit, NewStockUnit, Rows
<1>2. InTx(s) /\ writes[s][c] # Absent /\ \A x \in Units : writes[s][x] = Absent
  BY <1>1, StowsInTx DEF StowInv
<1>3. Picked(s)' = {} /\ \A b : UnderWay(s, b)' = 0
  BY <1>1, HandsFree DEF Midway
<1>4. \A b \in Bins : UnderWay(s, b) = IF b = c THEN n ELSE 0
  BY <1>1 DEF UnderWay, Picked
<1>5. /\ t \in Tables /\ w \in Tables /\ db' = db /\ t[u] = Absent
      /\ w[u] = a /\ a # Absent /\ writes'[s][u] = a
      /\ \A q \in Rows \ {u} : w[q] = t[q] /\ writes'[s][q] = writes[s][q]
  <2>1. db' = db
    BY <1>1, <1>2 DEF Puts, Save
  <2>2. t \in Tables /\ w \in Tables /\ \A q \in Rows : t[q] = Visible(s, q) /\ w[q] = Visible(s, q)'
    BY <1>1, ViewTable, ViewNext
  <2>3. Visible(s, u) = Absent
    BY <1>1 DEF Unused, Visible
  <2> QED BY <1>1, <1>2, <2>1, <2>2, <2>3, PutsEffect
<1>6. \A b \in Bins : b \in Rows \ {u}
  BY RowsAssumption DEF Rows
<1>7. ASSUME NEW b \in Bins, writes'[s][b] # Absent PROVE Balanced(w, b, 0)
  <2>1. writes[s][b] # Absent /\ w[b] = t[b]
    BY <1>5, <1>6, <1>7
  <2>2. Balanced(t, b, IF b = c THEN n ELSE 0)
    BY <1>1, <1>4, <2>1 DEF Books
  <2>3. \A x \in Units : x # u => Space(w, b, x) = Space(t, b, x)
    BY <1>5 DEF Space, Rows
  <2>4. /\ Lies(w, b) + Space(t, b, u) = Lies(t, b) + Space(w, b, u)
        /\ Lies(w, b) \in Nat /\ Lies(t, b) \in Nat
    BY <1>5, <2>3, LiesOne
  <2>5. Space(t, b, u) = 0 /\ Space(w, b, u) = IF b = c THEN n ELSE 0
    BY <1>1, <1>5 DEF Space
  <2>6. Lies(w, b) + 0 = Lies(t, b) + (IF b = c THEN n ELSE 0)
    BY <2>4, <2>5
  <2> QED BY <2>1, <2>2, <2>6 DEF Balanced
<1>8. ASSUME NEW b \in Bins, writes'[s][b] = Absent, NEW x \in Units, writes'[s][x] # Absent, writes'[s][x].bin = b
      PROVE  FALSE
  <2>1. x = u
    BY <1>2, <1>5, <1>8 DEF Rows
  <2>2. b = c
    BY <1>1, <1>5, <1>8, <2>1
  <2> QED BY <1>2, <1>5, <1>6, <1>8, <2>2
<1>9. Books(s)'
  <2>1. \A b \in Bins :
          (IF writes[s][b] # Absent THEN Balanced(View(s), b, UnderWay(s, b))
           ELSE \A x \in Units : writes[s][x] # Absent /\ writes[s][x].bin = b =>
                   db[x].quantity = writes[s][x].quantity + (IF x \in Picked(s) THEN Share(s, x) ELSE 0))'
    BY <1>3, <1>7, <1>8
  <2> QED BY <2>1 DEF Books
<1> QED BY <1>5, <1>9, BooksTx

(* Reading changes nothing, in the middle of a pick too.                   *)
LEMMA BooksRead ==
    ASSUME IInv, TypeOK', BooksInv, NEW s \in Sessions, Alone(s), Orderly(s), ReadsOnly(s), Turns(s), ~Ends(s)
    PROVE  BooksInv'
<1>1. db' = db /\ writes' = writes /\ Books(s) /\ \A r : Visible(s, r)' = Visible(s, r)
  BY DEF ReadsOnly, BooksInv, Books, Visible
<1>2. View(s)' = View(s)
  BY <1>1 DEF View
<1>3. /\ Picked(s)' = Picked(s) /\ (\A u \in Picked(s) : Share(s, u)' = Share(s, u))
      /\ \A b \in Bins : UnderWay(s, b)' = UnderWay(s, b)
  <2>1. CASE pc[s] = "bin" /\ pc'[s] = "savebin"
    <3>1. job'[s] = job[s] /\ \A q \in Units \cup Resvs : loaded'[s][q] = loaded[s][q]
      BY <2>1 DEF Orderly, ReleasesBin, StowsUnit, Midway
    <3>2. Picked(s)' = Picked(s) /\ \A u \in Picked(s) : Share(s, u)' = Share(s, u) /\ loaded'[s][u] = loaded[s][u]
      BY <2>1, <3>1, CarriesRead
    <3>3. CASE Picked(s) = {}
      BY <2>1, <3>2, <3>3 DEF UnderWay
    <3>4. CASE Picked(s) # {}
      <4>1. PICK u \in Picked(s) : Picked(s) = {u}
        BY <3>4, PickedOne
      <4> QED BY <3>2, <4>1, InHand
    <3> QED BY <3>2, <3>3, <3>4
  <2>2. CASE pc[s] \notin Midway /\ pc'[s] \notin Midway
    BY <2>2, HandsFree
  <2>3. pc[s] \in Midway => pc[s] = "bin" /\ pc'[s] = "savebin"
    <3>1. ASSUME pc[s] \in Midway, NEW u \in Units, NEW b \in Bins, ReleasesBin(s, u, b) PROVE FALSE
      BY <3>1 DEF ReleasesBin, Turns, Finished, LoadUnit, LoadBin
    <3>2. ASSUME pc[s] \in Midway, NEW u \in Units, NEW a, StowsUnit(s, u, a) PROVE FALSE
      <4>1. InTx(s) /\ Puts(s, u, a) /\ writes[s][u] = Absent
        BY <3>2, StowsInTx DEF StowsUnit, Unused
      <4> QED BY <1>1, <4>1, PutsEffect
    <3> QED BY <3>1, <3>2 DEF Orderly
  <2>4. pc'[s] \in Midway => pc'[s] = "savebin" /\ pc[s] = "bin"
    BY DEF Turns, Midway, Finished, LoadBin, CountDone
  <2> QED BY <2>1, <2>2, <2>3, <2>4
<1>4. Books(s)'
  <2>1. \A b \in Bins :
          (IF writes[s][b] # Absent THEN Balanced(View(s), b, UnderWay(s, b))
           ELSE \A x \in Units : writes[s][x] # Absent /\ writes[s][x].bin = b =>
                   db[x].quantity = writes[s][x].quantity + (IF x \in Picked(s) THEN Share(s, x) ELSE 0))'
    BY <1>1, <1>2, <1>3 DEF Books
  <2> QED BY <2>1 DEF Books
<1> QED BY <1>1, <1>4, BooksTx
(* A session's step keeps the books.                                       *)
LEMMA BooksStep ==
    ASSUME IInv, TypeOK', Asked, ShelvesInv, NEW s \in Sessions, Shape(s), Alone(s), Orderly(s)
    PROVE  BooksInv'
<1>1. UnitsAlike /\ AddingInv /\ StowInv /\ BooksInv /\ BinsInv /\ Carries(s) /\ TableMoves(s)
  BY TableStep DEF ShelvesInv, SegregationInv, BinsInv, Carries
<1>2. CASE Ends(s)
  BY <1>1, <1>2, BooksEnd
<1>3. CASE ReadsOnly(s) /\ Turns(s) /\ ~Ends(s)
  BY <1>1, <1>3, BooksRead
<1>4. ASSUME NEW u \in Units, PicksUnit(s, u) PROVE BooksInv'
  BY <1>1, <1>4, BooksPick
<1>5. ASSUME NEW u \in Units, NEW a, Puts(s, u, a), loaded[s][u] \in StockUnit,
             a.quantity = loaded[s][u].quantity, a.bin = loaded[s][u].bin, pc[s] \notin Midway, pc'[s] \notin Midway
      PROVE  BooksInv'
  <2>1. a \in StockUnit
    BY <1>5, RowsAssumption DEF Puts, TypedRow
  <2>2. Has(s, u)
    BY <1>5, NotAbsent DEF Has
  <2> QED BY <1>1, <1>5, <2>1, <2>2, BooksAside
<1>6. ASSUME NEW u \in Units, ReleasesUnit(s, u) \/ DrawsUnit(s, u) \/ MarksUnit(s, u) PROVE BooksInv'
  <2>1. ASSUME NEW unit \in StockUnit, NEW n
        PROVE  /\ ReleaseReservation(unit, n).quantity = unit.quantity /\ ReleaseReservation(unit, n).bin = unit.bin
               /\ Reserve(unit, n).quantity = unit.quantity /\ Reserve(unit, n).bin = unit.bin
               /\ MarkUnlocated(unit).quantity = unit.quantity /\ MarkUnlocated(unit).bin = unit.bin
    BY DEF StockUnit, ReleaseReservation, Reserve, MarkUnlocated
  <2>2. loaded[s][u] \in StockUnit /\ pc[s] \notin Midway /\ pc'[s] \notin Midway
    BY <1>6 DEF ReleasesUnit, DrawsUnit, MarksUnit, Midway
  <2>3. \E a : Puts(s, u, a) /\ a.quantity = loaded[s][u].quantity /\ a.bin = loaded[s][u].bin
    BY <1>6, <2>1, <2>2 DEF ReleasesUnit, DrawsUnit, MarksUnit
  <2> QED BY <1>5, <2>2, <2>3
<1>7. ASSUME NEW u \in Units, NEW b \in Bins, ReleasesBin(s, u, b) PROVE BooksInv'
  BY <1>1, <1>7, BooksRelease
<1>8. ASSUME NEW r \in Resvs, NEW res, Resolved(s, r, res) \/ Created(s, r, res) PROVE BooksInv'
  <2>1. Puts(s, r, res) /\ pc[s] \notin Midway /\ pc'[s] \notin Midway /\ r \notin Units
    BY <1>8, RowsAssumption DEF Resolved, Created, Midway
  <2> QED BY <1>1, <2>1, BooksAside
<1>9. ASSUME NEW b \in Bins, OccupiesBin(s, b) PROVE BooksInv'
  BY <1>1, <1>9, BooksOccupy
<1>10. ASSUME NEW u \in Units, NEW unit, StowsUnit(s, u, unit) PROVE BooksInv'
  BY <1>1, <1>10, BooksStow
<1>11. ASSUME NEW b \in Bins, NEW bin, SetsBin(s, b, bin) PROVE BooksInv'
  BY <1>1, <1>11, BooksSet
<1> QED BY <1>2, <1>3, <1>4, <1>6, <1>7, <1>8, <1>9, <1>10, <1>11 DEF Shape

(* A step keeps the shelves in order.                                      *)
LEMMA ShelvesInductive == IInv /\ Asked /\ ShelvesInv /\ [Next]_vars => ShelvesInv'
<1> SUFFICES ASSUME IInv, Asked, ShelvesInv, [Next]_vars PROVE ShelvesInv'
  OBVIOUS
<1>1. SegregationInv /\ BooksInv /\ BinsInv /\ TypeOK' /\ SegregationInv'
  BY SegregationInductive, NextShape DEF ShelvesInv, IInv
<1>2. CASE UNCHANGED <<db, outbox, writes, pending, loaded, pc, job>>
  <2>1. BooksInv'
    <3>1. \A s : View(s)' = View(s) /\ Picked(s)' = Picked(s) /\ \A u : Share(s, u)' = Share(s, u)
      BY <1>2 DEF View, Visible, Picked, IsNext, Share
    <3>2. ASSUME NEW s, NEW b PROVE UnderWay(s, b)' = UnderWay(s, b)
      <4>1. pc' = pc /\ job' = job /\ loaded' = loaded /\ Picked(s)' = Picked(s) /\ \A u : Share(s, u)' = Share(s, u)
        BY <1>2, <3>1
      <4> QED BY <4>1 DEF UnderWay
    <3> QED BY <1>1, <1>2, <3>1, <3>2 DEF BooksInv
  <2>2. BinsInv'
    BY <1>1, <1>2 DEF BinsInv, Picked, IsNext, Picking, Has
  <2> QED BY <1>1, <2>1, <2>2 DEF ShelvesInv
<1>3. ASSUME NEW s \in Sessions, Shape(s), Alone(s), Orderly(s) PROVE ShelvesInv'
  BY <1>1, <1>3, BinsStep, BooksStep DEF ShelvesInv
<1> QED BY <1>2, <1>3, NextShape

(* The service starts with its shelves in order.                           *)
LEMMA ShelvesInit == Init => ShelvesInv
<1> SUFFICES ASSUME Init PROVE ShelvesInv
  OBVIOUS
<1>1. \A s \in Sessions : pc[s] = "idle" /\ \A r \in Rows : writes[s][r] = Absent
  BY DEF Init, NoRows
<1>2. Bins \subseteq Rows /\ Units \subseteq Rows
  BY DEF Rows
<1>3. db \in Tables /\ db \in Databases
  BY SessionsAssumption DEF Init
<1>4. ASSUME NEW b \in Bins PROVE Balanced(db, b, 0) /\ Fits(db[b])
  <2>1. db[b] # Absent => /\ db[b].occupied = Lies(db, b)
                          /\ db[b].occupied <= db[b].capacity /\ (db[b].version = 1 => db[b].occupied = 0)
    BY <1>3, DatabasesAssumption DEF Lies
  <2>2. Lies(db, b) \in Nat
    BY <1>3, LiesNat
  <2> QED BY <2>1, <2>2 DEF Balanced, Fits
<1>5. BooksInv
  BY <1>1, <1>2, <1>4 DEF BooksInv
<1>6. BinsInv
  <2>1. \A u \in Units : db[u] # Absent => db[db[u].bin] # Absent
    BY <1>3, DatabasesAssumption
  <2> QED BY <1>1, <1>2, <1>4, <2>1 DEF BinsInv, Fits, Picked
<1> QED BY <1>5, <1>6, SegregationInit DEF ShelvesInv

(* The transaction that has written a bin is ahead of the bin's contents   *)
(* by just the quantity in hand; one that has not has moved no stock in or *)
(* out of it.                                                              *)
THEOREM BooksAreKept == Spec => []ShelvesInv
<1>1. Init => IInv /\ Asked /\ ShelvesInv
  BY InitEstablishesInvariant, AskedInit, ShelvesInit
<1>2. (IInv /\ Asked /\ ShelvesInv) /\ [Next]_vars => (IInv /\ Asked /\ ShelvesInv)'
  BY ShelvesInductive, AskedInductive, NextKeepsInvariant
<1> QED BY <1>1, <1>2, PTL DEF Spec

(* A bin's occupied space is what lies in it and fits its capacity,        *)
(* whatever stows, picks, resizes and rollbacks race: a pick writes the    *)
(* unit before its bin and a stow the bin before its unit, and between the *)
(* two the bin is ahead by just the quantity in hand.                      *)
THEOREM BinsBalance == Spec => []BinLedger
<1>1. IInv /\ ShelvesInv => BinLedger
  <2> SUFFICES ASSUME IInv, ShelvesInv, NEW b \in Bins, db[b] # Absent
               PROVE  /\ db[b].occupied = Amount(InBin(db, b), [u \in InBin(db, b) |-> db[u].quantity])
                      /\ db[b].occupied <= db[b].capacity
    BY DEF BinLedger, Existing
  <2>1. Balanced(db, b, 0) /\ Fits(db[b])
    BY DEF ShelvesInv, BooksInv, BinsInv
  <2>2. Lies(db, b) \in Nat
    BY LiesNat DEF IInv, TypeOK
  <2>3. db[b].occupied = Lies(db, b)
    BY <2>1, <2>2 DEF Balanced
  <2> QED BY <2>1, <2>3 DEF Fits, Lies
<1> QED BY <1>1, BooksAreKept, InvariantHolds, PTL
=============================================================================
