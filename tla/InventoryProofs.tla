--------------------------- MODULE InventoryProofs ---------------------------
(***************************************************************************)
(* Theorems about Inventory, for every value of the constants: the tables  *)
(* keep their types, and a resolved reservation stays resolved.            *)
(***************************************************************************)
EXTENDS InventoryInvariant, FiniteSetTheorems, TLAPS

-----------------------------------------------------------------------------
(* Data: rows, tables, amounts and jobs.                                   *)

(* A table holds stock units under Units, bins under Bins and reservations *)
(* under Resvs, and nothing else: the three Postgres tables.               *)
LEMMA RowKinds ==
    ASSUME NEW t \in Tables
    PROVE  /\ \A u \in Units : t[u] # Absent => t[u] \in StockUnit
           /\ \A b \in Bins  : t[b] # Absent => t[b] \in Bin
           /\ \A r \in Resvs : t[r] # Absent => t[r] \in Reservation
           /\ \A r \in Rows  : t[r] # Absent => t[r].version \in Nat
  BY RowsAssumption DEF Tables, TypedRow, Rows, StockUnit, Bin, Reservation, Version

(* Writing a row of its kind leaves a table a table.                       *)
LEMMA PutRow ==
    ASSUME NEW t \in Tables, NEW r \in Rows, NEW a, TypedRow(r, a)
    PROVE  [t EXCEPT ![r] = a] \in Tables
  BY DEF Tables, TypedRow

(* Merging two tables row by row gives a table.                            *)
LEMMA MergeRows ==
    ASSUME NEW t, NEW u \in Tables, NEW v \in Tables,
           t = [r \in Rows |-> t[r]],
           \A r \in Rows : t[r] = u[r] \/ t[r] = v[r]
    PROVE  t \in Tables
  BY DEF Tables, TypedRow

(* An empty table, the memory of a session that has loaded nothing.        *)
LEMMA NoRowsTable == NoRows \in Tables
  BY DEF NoRows, Tables, TypedRow

(* The blank request of an idle session is typed.                          *)
LEMMA NoJobJob == NoJob \in Job
  BY DEF NoJob, Job, Status

(* The pieces of finitely many quantities are finitely many.               *)
LEMMA PiecesFinite ==
    ASSUME NEW S, IsFiniteSet(S), NEW f, \A x \in S : f[x] \in Nat
    PROVE  IsFiniteSet(Pieces(S, f))
<1>1. IsFiniteSet(S)
  OBVIOUS
<1>2. ASSUME NEW x \in S
      PROVE  IsFiniteSet({x} \X (1 .. f[x]))
  <2>1. IsFiniteSet({x})
    BY FS_Singleton
  <2>2. IsFiniteSet(1 .. f[x])
    BY FS_Interval
  <2>3. QED
    BY <2>1, <2>2, FS_Product
<1> DEFINE T == {{x} \X (1 .. f[x]) : x \in S}
           g == [x \in S |-> {x} \X (1 .. f[x])]
<1>3. g \in Surjection(S, T)
  BY DEF Surjection
<1>4. IsFiniteSet(T)
  <2> HIDE DEF T, g
  <2> QED
    BY <1>1, <1>3, FS_Surjection
<1>5. QED
  BY <1>2, <1>4, FS_UNION DEF Pieces

(* So their sum is a number.                                               *)
LEMMA AmountNat ==
    ASSUME NEW S, IsFiniteSet(S), NEW f, \A x \in S : f[x] \in Nat
    PROVE  Amount(S, f) \in Nat
  BY PiecesFinite, FS_CardinalityType DEF Amount

-----------------------------------------------------------------------------
(* What a step of session s does to the store.                             *)

(* No step takes a reservation out of the status it was resolved to.       *)
StaysResolved == \A r \in Resvs :
    db[r] # Absent /\ ~IsActive(db[r]) => db'[r] # Absent /\ db'[r].status = db[r].status

StoreKept(s) ==
    /\ db' \in Tables /\ writes' \in [Sessions -> Tables] /\ loaded' \in [Sessions -> Tables]
    /\ StoreInv' /\ StaysResolved
    /\ \A o \in Sessions \ {s} : writes'[o] = writes[o] /\ loaded'[o] = loaded[o]

(* The row a guarded upsert leaves is of its kind, and newer than the one  *)
(* it replaces.                                                            *)
LEMMA StoredRow ==
    ASSUME TypeOK, NEW s \in Sessions, NEW r \in Rows, NEW a,
           a # Absent, TypedRow(r, a), Hit(s, r, a)
    PROVE  /\ TypedRow(r, Stored(s, r, a)) /\ Stored(s, r, a) # Absent
           /\ Stored(s, r, a).version \in Nat /\ a.version \in Nat
           /\ Visible(s, r) = Absent => Stored(s, r, a) = a
           /\ Visible(s, r) # Absent => /\ Stored(s, r, a).version = Visible(s, r).version + 1
                                        /\ Visible(s, r).version = a.version
                                        /\ Visible(s, r).version \in Nat
<1>1. /\ TypedRow(r, Stored(s, r, a)) /\ Stored(s, r, a) # Absent
      /\ Stored(s, r, a).version \in Nat /\ a.version \in Nat
      /\ Visible(s, r) # Absent => Stored(s, r, a).version = a.version + 1
  <2>1. CASE r \in Units
    BY <2>1, RowsAssumption DEF TypedRow, Stored, StockUnit, Version
  <2>2. CASE r \in Bins
    BY <2>2, RowsAssumption DEF TypedRow, Stored, Bin, Version
  <2>3. CASE r \in Resvs
    BY <2>3, RowsAssumption DEF TypedRow, Stored, Reservation, Version
  <2>4. QED
    BY <2>1, <2>2, <2>3 DEF Rows
<1>2. QED
  BY <1>1 DEF Hit, Stored

(* A Save: the version guard and the row lock keep concurrent transactions *)
(* apart.                                                                  *)
LEMMA SaveKeepsStore ==
    ASSUME TypeOK, StoreInv, NEW s \in Sessions, TxClosed(s),
           NEW r \in Rows, NEW a, a # Absent, TypedRow(r, a), Save(s, r, a),
           r \in Resvs /\ Visible(s, r) # Absent => IsActive(Visible(s, r)),
           loaded' = loaded \/ loaded' = [loaded EXCEPT ![s][r] = a]
    PROVE  StoreKept(s)
<1> DEFINE v == Stored(s, r, a)
<1>1. /\ TypedRow(r, v) /\ v # Absent /\ v.version \in Nat /\ a.version \in Nat
      /\ Visible(s, r) = Absent => v = a
      /\ Visible(s, r) # Absent => /\ v.version = Visible(s, r).version + 1
                                   /\ Visible(s, r).version = a.version
                                   /\ Visible(s, r).version \in Nat
  BY StoredRow DEF Save
<1>2. \A o \in Sessions \ {s} : writes[o][r] = Absent
  BY DEF Save, Locked
<1>3. /\ \A q \in Rows : db[q] # Absent => db[q].version \in Nat
      /\ \A o \in Sessions, q \in Rows : writes[o][q] # Absent => writes[o][q].version \in Nat
      /\ \A o \in Sessions, q \in Rows : loaded[o][q] # Absent => loaded[o][q].version \in Nat
  BY RowKinds DEF TypeOK
<1>4. loaded' \in [Sessions -> Tables]
  BY PutRow DEF TypeOK
<1>5. \A o \in Sessions, q \in Rows :
         \/ loaded'[o][q] = loaded[o][q]
         \/ o = s /\ q = r /\ loaded'[o][q] = a
  BY DEF TypeOK, Tables
<1>6. \A o \in Sessions \ {s} : loaded'[o] = loaded[o]
  BY DEF TypeOK
<1>7. CASE InTx(s)
  <2>1. db' = db /\ writes' = [writes EXCEPT ![s][r] = v]
    BY <1>7 DEF Save
  <2>2. writes' \in [Sessions -> Tables]
    BY <1>1, <2>1, PutRow DEF TypeOK
  <2>3. \A o \in Sessions, q \in Rows :
           writes'[o][q] = IF o = s /\ q = r THEN v ELSE writes[o][q]
    BY <2>1 DEF TypeOK, Tables
  <2> HIDE DEF v
  <2>4. Exclusive'
    BY <1>1, <1>2, <2>3 DEF Exclusive, StoreInv
  <2>5. Newer'
    BY <1>1, <1>3, <2>1, <2>3 DEF Newer, StoreInv, Visible
  <2>6. WritesActive'
    BY <2>1, <2>3 DEF WritesActive, StoreInv, Visible, IsActive, Rows
  <2>7. Snapshot'
    BY <1>1, <1>3, <1>5, <2>1, <2>3 DEF Snapshot, StoreInv, Visible
  <2>8. QED
    BY <1>4, <1>6, <2>1, <2>2, <2>4, <2>5, <2>6, <2>7
       DEF StoreKept, StoreInv, StaysResolved, TypeOK
<1>8. CASE ~InTx(s)
  <2>1. writes' = writes /\ db' = [db EXCEPT ![r] = v]
    BY <1>8 DEF Save
  <2>2. db' \in Tables
    BY <1>1, <2>1, PutRow DEF TypeOK
  <2>3. \A q \in Rows : db'[q] = IF q = r THEN v ELSE db[q]
    BY <2>1 DEF TypeOK, Tables
  <2>4. \A o \in Sessions : writes[o][r] = Absent
    BY <1>2, <1>8 DEF TxClosed, NoRows
  <2> HIDE DEF v
  <2>5. Exclusive'
    BY <2>1 DEF Exclusive, StoreInv
  <2>6. Newer'
    BY <2>1, <2>3, <2>4 DEF Newer, StoreInv
  <2>7. WritesActive'
    BY <2>1, <2>3, <2>4, RowsAssumption DEF WritesActive, StoreInv, Rows
  <2>8. Snapshot'
    BY <1>1, <1>3, <1>5, <2>1, <2>3, <2>4 DEF Snapshot, StoreInv, Visible
  <2>9. StaysResolved
    BY <2>3, <2>4 DEF StaysResolved, Visible, Rows
  <2>10. QED
    BY <1>4, <1>6, <2>1, <2>2, <2>5, <2>6, <2>7, <2>8, <2>9 DEF StoreKept, StoreInv, TypeOK
<1>9. QED
  BY <1>7, <1>8
(* Committing a transaction makes its rows the newest for everyone.        *)
LEMMA CommitKeepsStore ==
    ASSUME TypeOK, StoreInv, NEW s \in Sessions, Commit(s),
           loaded' = loaded \/ loaded' = [loaded EXCEPT ![s] = NoRows]
    PROVE  StoreKept(s) /\ writes'[s] = NoRows
<1>1. /\ writes' = [writes EXCEPT ![s] = NoRows]
      /\ db' = [r \in Rows |-> Visible(s, r)]
  BY DEF Commit, CloseTx
<1>2. db' \in Tables
  <2>1. writes[s] \in Tables /\ db \in Tables
    BY DEF TypeOK
  <2>2. db' = [r \in Rows |-> db'[r]]
    BY <1>1
  <2>3. \A r \in Rows : db'[r] = writes[s][r] \/ db'[r] = db[r]
    BY <1>1 DEF Visible
  <2>4. QED
    BY <2>1, <2>2, <2>3, MergeRows
<1>3. writes' \in [Sessions -> Tables] /\ loaded' \in [Sessions -> Tables]
  BY <1>1, NoRowsTable DEF TypeOK
<1>4. \A o \in Sessions \ {s} : writes'[o] = writes[o] /\ loaded'[o] = loaded[o]
  BY <1>1 DEF TypeOK
<1>5. writes'[s] = NoRows
  BY <1>1 DEF TypeOK
<1>6. \A q \in Rows : writes'[s][q] = Absent
  BY <1>5 DEF NoRows
<1>7. \A o \in Sessions, q \in Rows : loaded'[o][q] # Absent => loaded'[o][q] = loaded[o][q]
  BY DEF TypeOK, NoRows
<1>8. \A q \in Rows : db'[q] = IF writes[s][q] # Absent THEN writes[s][q] ELSE db[q]
  BY <1>1 DEF Visible
<1>9. /\ \A q \in Rows : db[q] # Absent => db[q].version \in Nat
      /\ \A o \in Sessions, q \in Rows : writes[o][q] # Absent => writes[o][q].version \in Nat
      /\ \A o \in Sessions, q \in Rows : loaded[o][q] # Absent => loaded[o][q].version \in Nat
  BY RowKinds DEF TypeOK
<1>10. Exclusive'
  BY <1>4, <1>6 DEF Exclusive, StoreInv
<1>11. Newer'
  BY <1>4, <1>6, <1>8 DEF Newer, Exclusive, StoreInv
<1>12. WritesActive'
  BY <1>4, <1>6, <1>8 DEF WritesActive, Exclusive, StoreInv, Rows, IsActive
<1>13. Snapshot'
  <2> SUFFICES ASSUME NEW o \in Sessions, NEW q \in Rows, loaded'[o][q] # Absent
               PROVE  /\ Visible(o, q)' # Absent
                      /\ loaded'[o][q].version <= Visible(o, q)'.version
                      /\ loaded'[o][q].version = Visible(o, q)'.version
                            => loaded'[o][q] = Visible(o, q)'
    BY DEF Snapshot
  <2>1. /\ Visible(o, q) # Absent
        /\ loaded[o][q].version <= Visible(o, q).version
        /\ loaded[o][q].version = Visible(o, q).version => loaded[o][q] = Visible(o, q)
    BY <1>7 DEF Snapshot, StoreInv
  <2>2. CASE o = s \/ writes[o][q] # Absent \/ writes[s][q] = Absent
    BY <1>4, <1>6, <1>7, <1>8, <2>1, <2>2 DEF Visible
  <2>3. CASE o # s /\ writes[o][q] = Absent /\ writes[s][q] # Absent
    <3>1. db[q] # Absent /\ Visible(o, q) = db[q]
      BY <2>1, <2>3 DEF Visible
    <3>2. writes[s][q].version > db[q].version
      BY <2>3, <3>1 DEF Newer, StoreInv
    <3>3. Visible(o, q)' = writes[s][q]
      BY <1>4, <1>8, <2>3 DEF Visible
    <3>4. QED
      BY <1>7, <1>9, <2>1, <2>3, <3>1, <3>2, <3>3
  <2>4. QED
    BY <2>2, <2>3
<1>14. StaysResolved
  BY <1>8 DEF StaysResolved, WritesActive, StoreInv, Rows
<1>15. QED
  BY <1>2, <1>3, <1>4, <1>5, <1>10, <1>11, <1>12, <1>13, <1>14 DEF StoreKept, StoreInv

(* A rollback only takes away what nobody else saw.                        *)
LEMMA RollbackKeepsStore ==
    ASSUME TypeOK, StoreInv, NEW s \in Sessions, Rollback(s),
           loaded' = [loaded EXCEPT ![s] = NoRows]
    PROVE  StoreKept(s) /\ writes'[s] = NoRows
<1>1. writes' = [writes EXCEPT ![s] = NoRows] /\ db' = db
  BY DEF Rollback, CloseTx
<1>2. writes' \in [Sessions -> Tables] /\ loaded' \in [Sessions -> Tables]
  BY <1>1, NoRowsTable DEF TypeOK
<1>3. \A o \in Sessions \ {s} : writes'[o] = writes[o] /\ loaded'[o] = loaded[o]
  BY <1>1 DEF TypeOK
<1>4. writes'[s] = NoRows
  BY <1>1 DEF TypeOK
<1>5. \A q \in Rows : writes'[s][q] = Absent /\ loaded'[s][q] = Absent
  BY <1>4 DEF TypeOK, NoRows
<1>6. Exclusive' /\ Newer' /\ WritesActive'
  BY <1>1, <1>3, <1>5 DEF Exclusive, Newer, WritesActive, StoreInv, Rows
<1>7. Snapshot'
  BY <1>1, <1>3, <1>5 DEF Snapshot, StoreInv, Visible
<1>8. QED
  BY <1>1, <1>2, <1>3, <1>4, <1>6, <1>7 DEF StoreKept, StoreInv, StaysResolved, TypeOK

(* A read, or a step that only works in memory.                            *)
LEMMA ReadKeepsStore ==
    ASSUME TypeOK, StoreInv, NEW s \in Sessions, UNCHANGED <<db, writes>>,
           \/ loaded' = loaded
           \/ loaded' = [loaded EXCEPT ![s] = NoRows]
           \/ \E R \in SUBSET Rows : Load(s, R)
    PROVE  StoreKept(s)
<1>1. /\ loaded' \in [Sessions -> Tables]
      /\ \A o \in Sessions \ {s} : loaded'[o] = loaded[o]
      /\ \A q \in Rows : loaded'[s][q] \in {Absent, loaded[s][q], Visible(s, q)}
  <2>1. CASE loaded' = loaded
    BY <2>1 DEF TypeOK
  <2>2. CASE loaded' = [loaded EXCEPT ![s] = NoRows]
    BY <2>2, NoRowsTable DEF TypeOK, NoRows
  <2>3. CASE \E R \in SUBSET Rows : Load(s, R)
    <3> PICK R \in SUBSET Rows : Load(s, R)
      BY <2>3
    <3> DEFINE m == [r \in Rows |-> IF r \in R THEN Visible(s, r) ELSE loaded[s][r]]
    <3>1. m \in Tables
      BY DEF TypeOK, Visible, Tables, TypedRow
    <3>2. loaded' = [loaded EXCEPT ![s] = m]
      BY DEF Load
    <3>3. \A q \in Rows : m[q] \in {loaded[s][q], Visible(s, q)}
      OBVIOUS
    <3> HIDE DEF m
    <3>4. QED
      BY <3>1, <3>2, <3>3 DEF TypeOK
  <2>4. QED
    BY <2>1, <2>2, <2>3
<1>2. Exclusive' /\ Newer' /\ WritesActive'
  BY DEF Exclusive, Newer, WritesActive, StoreInv
<1>3. \A o \in Sessions, q \in Rows : Visible(o, q)' = Visible(o, q)
  BY DEF Visible
<1>4. \A q \in Rows : Visible(s, q) # Absent => Visible(s, q).version \in Nat
  BY RowKinds DEF TypeOK, Visible
<1>5. Snapshot'
  BY <1>1, <1>3, <1>4 DEF Snapshot, StoreInv
<1>6. QED
  BY <1>1, <1>2, <1>5 DEF StoreKept, StoreInv, StaysResolved, TypeOK

-----------------------------------------------------------------------------
(* What a step of session s does to the sessions.                          *)

SessionKept(s) ==
    /\ now' \in Nat
    /\ outbox' \subseteq Event /\ pending' \in [Sessions -> SUBSET Event]
    /\ pc' \in [Sessions -> Steps] /\ job' \in [Sessions -> Job]
    /\ \A o \in Sessions \ {s} : pc'[o] = pc[o] /\ job'[o] = job[o]
    /\ TxClosed(s)' /\ Control(s)'

(* A session's facts are its own: a step of another leaves them alone.     *)
LEMMA StepKeepsInvariant ==
    ASSUME IInv, NEW s \in Sessions, StoreKept(s), SessionKept(s)
    PROVE  IInv' /\ StaysResolved
<1>1. TypeOK'
  BY DEF StoreKept, SessionKept, TypeOK
<1>2. ASSUME NEW o \in Sessions \ {s}
      PROVE  TxClosed(o)' /\ Control(o)'
  <2>1. /\ TxClosed(o) /\ Control(o)
        /\ pc'[o] = pc[o] /\ job'[o] = job[o] /\ loaded'[o] = loaded[o] /\ writes'[o] = writes[o]
    BY DEF IInv, StoreKept, SessionKept
  <2>2. TxClosed(o)'
    BY <2>1 DEF TxClosed, InTx
  <2>3. LookedUp(o) => LookedUp(o)'
    BY <2>1 DEF LookedUp, Has
  <2>4. ResolvesActive(o) => ResolvesActive(o)'
    BY <2>1 DEF ResolvesActive, Has
  <2>5. \A u : IsNext(o, u)' <=> IsNext(o, u)
    BY <2>1 DEF IsNext
  <2>6. NextInHand(o) => NextInHand(o)'
    BY <2>1, <2>5 DEF NextInHand, Has
  <2>7. UnitAllows(o) => UnitAllows(o)'
    BY <2>1, <2>5 DEF UnitAllows, Picking, Share
  <2>8. BinAllows(o) => BinAllows(o)'
    BY <2>1, <2>5 DEF BinAllows, Has, Share
  <2>9. Holds(o) => Holds(o)'
    BY <2>1 DEF Holds, Has
  <2>10. Control(o)'
    BY <2>1, <2>3, <2>4, <2>6, <2>7, <2>8, <2>9 DEF Control, Has
  <2>11. QED
    BY <2>2, <2>10
<1>3. QED
  BY <1>1, <1>2 DEF IInv, StoreKept, SessionKept

(* Moving one session keeps the others where they are.                     *)
LEMMA GoToTyped ==
    ASSUME TypeOK, NEW s \in Sessions, NEW step \in Steps, NEW j \in Job, GoTo(s, step, j)
    PROVE  /\ pc' \in [Sessions -> Steps] /\ job' \in [Sessions -> Job]
           /\ \A o \in Sessions \ {s} : pc'[o] = pc[o] /\ job'[o] = job[o]
           /\ pc'[s] = step /\ job'[s] = j
  BY DEF GoTo, TypeOK

(* Committing or dropping a transaction moves only outbox rows it inserted.*)
LEMMA CommitEvents ==
    ASSUME TypeOK, NEW s \in Sessions, Commit(s) \/ Rollback(s)
    PROVE  outbox' \subseteq Event /\ pending' \in [Sessions -> SUBSET Event]
  BY DEF TypeOK, Commit, Rollback, CloseTx

(* Publishing inserts outbox rows of known types.                          *)
LEMMA PublishEvents ==
    ASSUME TypeOK, NEW s \in Sessions, NEW types \in SUBSET EventType, NEW key \in Rows,
           Publish(s, types, key)
    PROVE  outbox' \subseteq Event /\ pending' \in [Sessions -> SUBSET Event]
  BY DEF TypeOK, Publish, Event

(* A session that has answered owes nothing.                               *)
LEMMA ForgetKeeps ==
    ASSUME TypeOK, NEW s \in Sessions, NEW answer \in Finished, Forget(s, answer),
           writes'[s] = NoRows
    PROVE  /\ pc' \in [Sessions -> Steps] /\ job' \in [Sessions -> Job]
           /\ \A o \in Sessions \ {s} : pc'[o] = pc[o] /\ job'[o] = job[o]
           /\ TxClosed(s)' /\ Control(s)'
<1>1. answer \in Steps /\ GoTo(s, answer, NoJob)
  BY DEF Forget, Steps
<1>2. /\ pc' \in [Sessions -> Steps] /\ job' \in [Sessions -> Job]
      /\ \A o \in Sessions \ {s} : pc'[o] = pc[o] /\ job'[o] = job[o]
      /\ pc'[s] = answer
  BY <1>1, NoJobJob, GoToTyped
<1>3. Control(s)'
  BY <1>2 DEF Control, Finished, Resolves
<1>4. QED
  BY <1>2, <1>3 DEF TxClosed

(* An error response, rolled back or committed by the middleware.          *)
LEMMA FailKeeps ==
    ASSUME IInv, NEW s \in Sessions, Fail(s)
    PROVE  StoreKept(s) /\ SessionKept(s)
<1>1. /\ TypeOK /\ StoreInv /\ "err" \in Finished
      /\ Forget(s, "err") /\ loaded' = [loaded EXCEPT ![s] = NoRows]
      /\ Commit(s) \/ Rollback(s)
      /\ now' = now
  BY DEF IInv, Fail, Forget, Finished
<1>2. StoreKept(s) /\ writes'[s] = NoRows
  BY <1>1, CommitKeepsStore, RollbackKeepsStore
<1>3. QED
  BY <1>1, <1>2, ForgetKeeps, CommitEvents DEF SessionKept, TypeOK

(* A refused Save is an error response.                                    *)
LEMMA ConflictKeeps ==
    ASSUME IInv, NEW s \in Sessions, NEW r, NEW a, Conflict(s, r, a)
    PROVE  StoreKept(s) /\ SessionKept(s)
  BY FailKeeps DEF Conflict

(* The request is over: its transaction commits with the response.         *)
LEMMA AnswerKeeps ==
    ASSUME IInv, NEW s \in Sessions, NEW answer \in Finished, Forget(s, answer), Commit(s),
           now' = now
    PROVE  StoreKept(s) /\ SessionKept(s)
<1>1. TypeOK /\ StoreInv /\ loaded' = [loaded EXCEPT ![s] = NoRows]
  BY DEF IInv, Forget
<1>2. StoreKept(s) /\ writes'[s] = NoRows
  BY <1>1, CommitKeepsStore
<1>3. QED
  BY <1>1, <1>2, ForgetKeeps, CommitEvents DEF SessionKept, TypeOK

(* At most, rows the session can see are read into its memory.             *)
ReadsRows(s) == loaded' = loaded \/ \E R \in SUBSET Rows : Load(s, R)

(* A transaction that has written is still open after the step.            *)
StaysOpen(s, step, j) == \/ writes[s] = NoRows
                         \/ Scope(j.op) = "joined"
                         \/ j.op = job[s].op /\ step \in ScopeSteps

(* A step that writes nothing and stays in the request.                    *)
LEMMA ReadStepKeeps ==
    ASSUME IInv, NEW s \in Sessions, UNCHANGED <<now, store>>, ReadsRows(s),
           NEW step \in Steps, NEW j \in Job, GoTo(s, step, j),
           StaysOpen(s, step, j),
           Control(s)'
    PROVE  StoreKept(s) /\ SessionKept(s)
<1>1. TypeOK /\ StoreInv /\ TxClosed(s) /\ UNCHANGED <<db, writes, outbox, pending, now>>
  BY DEF IInv, store
<1>2. StoreKept(s)
  BY <1>1, ReadKeepsStore DEF ReadsRows
<1>3. /\ pc' \in [Sessions -> Steps] /\ job' \in [Sessions -> Job]
      /\ \A o \in Sessions \ {s} : pc'[o] = pc[o] /\ job'[o] = job[o]
      /\ pc'[s] = step /\ job'[s] = j
  BY <1>1, GoToTyped
<1>4. TxClosed(s)'
  BY <1>1, <1>3 DEF TxClosed, InTx, StaysOpen
<1>5. QED
  BY <1>1, <1>2, <1>3, <1>4 DEF SessionKept, TypeOK

(* Only an ACTIVE reservation, or a new one, is written.                   *)
Writable(s, r) == r \in Resvs /\ Visible(s, r) # Absent => IsActive(Visible(s, r))

Remembers(s, r, a) == loaded' = loaded \/ loaded' = [loaded EXCEPT ![s][r] = a]

Tells(s) == \/ UNCHANGED <<outbox, pending>>
            \/ \E types \in SUBSET EventType, key \in Rows : Publish(s, types, key)

SameTx(s, step, j) ==
    j.op = job[s].op /\ (step \in ScopeSteps \/ Scope(j.op) = "joined")

(* A step around one Save that stays in its transaction.                   *)
LEMMA SaveStepKeeps ==
    ASSUME IInv, NEW s \in Sessions, now' = now,
           NEW r \in Rows, NEW a, a # Absent, TypedRow(r, a), Save(s, r, a),
           Writable(s, r), Remembers(s, r, a), Tells(s),
           NEW step \in Steps, NEW j \in Job, GoTo(s, step, j), SameTx(s, step, j),
           Control(s)'
    PROVE  StoreKept(s) /\ SessionKept(s)
<1>1. TypeOK /\ StoreInv /\ TxClosed(s)
  BY DEF IInv
<1>2. StoreKept(s)
  BY <1>1, SaveKeepsStore DEF Writable, Remembers
<1>3. /\ pc' \in [Sessions -> Steps] /\ job' \in [Sessions -> Job]
      /\ \A o \in Sessions \ {s} : pc'[o] = pc[o] /\ job'[o] = job[o]
      /\ pc'[s] = step /\ job'[s] = j
  BY <1>1, GoToTyped
<1>4. outbox' \subseteq Event /\ pending' \in [Sessions -> SUBSET Event]
  BY <1>1, PublishEvents DEF TypeOK, Tells
<1>5. TxClosed(s)'
  BY <1>1, <1>3 DEF TxClosed, InTx, Save, SameTx
<1>6. QED
  BY <1>1, <1>2, <1>3, <1>4, <1>5 DEF SessionKept, TypeOK

(* A request refused before it opened anything.                            *)
LEMMA RefusalKeeps ==
    ASSUME IInv, NEW s \in Sessions, pc[s] = "idle", UNCHANGED <<now, store>>,
           NEW answer \in Finished, Forget(s, answer)
    PROVE  StoreKept(s) /\ SessionKept(s)
<1>1. /\ TypeOK /\ StoreInv /\ TxClosed(s) /\ Control(s)
      /\ UNCHANGED <<db, writes, outbox, pending, now>>
      /\ loaded' = [loaded EXCEPT ![s] = NoRows]
  BY DEF IInv, store, Forget
<1>2. writes[s] = NoRows
  BY <1>1 DEF TxClosed, Control, InTx, Scope, ScopeSteps
<1>3. StoreKept(s)
  BY <1>1, ReadKeepsStore
<1>4. QED
  BY <1>1, <1>2, <1>3, ForgetKeeps DEF SessionKept, TypeOK

(* An idle session has nothing open.                                       *)
LEMMA IdleClosed ==
    ASSUME IInv, NEW s \in Sessions, pc[s] = "idle"
    PROVE  writes[s] = NoRows
  BY DEF IInv, TxClosed, Control, InTx, Scope, ScopeSteps

(* The operations that resolve the reservation they name.                  *)
LEMMA ResolutionOps ==
    /\ DOMAIN Resolution = {"revoke", "mcp_revoke", "confirm"}
    /\ \A op \in DOMAIN Resolution : op \in Ops /\ op # "reserve" /\ Resolution[op] \in Status
    /\ \A act \in Status : EventOf[act] \in EventType
  BY DEF Resolution, EventOf, Ops, Status, EventType

(* Units are written in the order of their ids, one at a time.             *)
LEMMA OneNext ==
    ASSUME NEW s \in Sessions, job[s].rank = ById, job[s].todo \in SUBSET Units
    PROVE  \A u, v : IsNext(s, u) /\ IsNext(s, v) => u = v
  BY SessionsAssumption DEF IsNext

-----------------------------------------------------------------------------
(* The actions of ReservationUseCases.                                     *)

(* FindByID: a reservation is loaded for revoke or confirm.                *)
LEMMA FindByIDKeeps ==
    ASSUME IInv, NEW s \in Sessions, FindByID(s)
    PROVE  StoreKept(s) /\ SessionKept(s)
<1> PICK op \in OpsOf[s] \cap DOMAIN Resolution, r \in Resvs :
       IF db[r] = Absent
       THEN Forget(s, "err")
       ELSE /\ Load(s, {r})
            /\ GoTo(s, "due", [NoJob EXCEPT !.op = op, !.res = r, !.queue = {r}])
  BY DEF FindByID
<1>1. pc[s] = "idle" /\ UNCHANGED <<now, store>>
  BY DEF FindByID
<1>2. CASE db[r] = Absent
  BY <1>1, <1>2, RefusalKeeps DEF Finished
<1>3. CASE db[r] # Absent
  <2> DEFINE j == [NoJob EXCEPT !.op = op, !.res = r, !.queue = {r}]
  <2>1. j \in Job
    BY ResolutionOps, NoJobJob DEF Job
  <2>2. Load(s, {r}) /\ GoTo(s, "due", j) /\ "due" \in Steps
    BY <1>3 DEF Steps
  <2>3. {r} \in SUBSET Rows
    BY DEF Rows
  <2>4. j.op = op /\ j.res = r /\ j.queue = {r}
    BY DEF NoJob
  <2> HIDE DEF j
  <2>5. pc'[s] = "due" /\ job'[s] = j
    BY <2>1, <2>2, GoToTyped DEF IInv
  <2>6. loaded'[s][r] # Absent
    BY <1>3, <2>2, <2>3 DEF Load, Visible, IInv, TypeOK
  <2>7. Control(s)'
    BY <2>4, <2>5, <2>6, ResolutionOps DEF Control, LookedUp, Has, Resolves
  <2>8. StaysOpen(s, "due", j)
    BY <1>1, IdleClosed DEF StaysOpen
  <2>9. ReadsRows(s)
    BY <2>2, <2>3 DEF ReadsRows
  <2>10. QED
    BY <1>1, <2>1, <2>2, <2>7, <2>8, <2>9, ReadStepKeeps
<1>4. QED
  BY <1>2, <1>3

(* FindByDemandRef: the reservations of a demand are loaded.               *)
LEMMA LookUpDemandKeeps ==
    ASSUME IInv, NEW s \in Sessions, pc[s] = "idle", NEW j \in Job, LookUpDemand(s, j),
           j.op \in {"get", "reserve"},
           j.op = "reserve" => j.sku \in Skus /\ j.demand \in Demands
    PROVE  StoreKept(s) /\ SessionKept(s)
<1> DEFINE found == {r \in Resvs : db[r] # Absent /\ db[r].demand = j.demand}
           k == [j EXCEPT !.queue = found]
<1>1. Load(s, found) /\ GoTo(s, "due", k) /\ UNCHANGED <<now, store>> /\ "due" \in Steps
  BY DEF LookUpDemand, Steps
<1>2. /\ k \in Job /\ k.queue = found /\ k.op = j.op /\ k.sku = j.sku /\ k.demand = j.demand
      /\ found \in SUBSET Rows
  BY DEF Job, Rows
<1>3. \A r \in found : db[r] # Absent
  OBVIOUS
<1> HIDE DEF found, k
<1>4. pc'[s] = "due" /\ job'[s] = k
  BY <1>1, <1>2, GoToTyped DEF IInv
<1>5. \A r \in found : loaded'[s][r] # Absent
  BY <1>1, <1>2, <1>3 DEF Load, Visible, IInv, TypeOK
<1>6. Control(s)'
  BY <1>2, <1>4, <1>5, ResolutionOps DEF Control, LookedUp, Has, Resolves
<1>7. StaysOpen(s, "due", k)
  BY IdleClosed DEF StaysOpen
<1>8. ReadsRows(s)
  BY <1>1, <1>2 DEF ReadsRows
<1>9. QED
  BY <1>1, <1>2, <1>6, <1>7, <1>8, ReadStepKeeps

(* GetReservationsByDemandRef starts with that lookup.                     *)
LEMMA GetReservationsKeeps ==
    ASSUME IInv, NEW s \in Sessions, GetReservations(s)
    PROVE  StoreKept(s) /\ SessionKept(s)
<1>1. PICK demand \in Demands :
         LookUpDemand(s, [NoJob EXCEPT !.op = "get", !.demand = demand])
  BY DEF GetReservations
<1> DEFINE j == [NoJob EXCEPT !.op = "get", !.demand = demand]
<1>2. j \in Job /\ j.op = "get"
  BY NoJobJob DEF Job, NoJob, Ops
<1>3. QED
  BY <1>1, <1>2, LookUpDemandKeeps DEF GetReservations

(* ReserveStock starts with it too.                                        *)
LEMMA ReserveStockKeeps ==
    ASSUME IInv, NEW s \in Sessions, ReserveStock(s)
    PROVE  StoreKept(s) /\ SessionKept(s)
<1>1. PICK sku \in Skus, qty \in Amounts \ {0}, demand \in Demands :
         LookUpDemand(s, [NoJob EXCEPT !.op = "reserve", !.sku = sku, !.qty = qty,
                                       !.demand = demand])
  BY DEF ReserveStock
<1> DEFINE j == [NoJob EXCEPT !.op = "reserve", !.sku = sku, !.qty = qty, !.demand = demand]
<1>2. j \in Job /\ j.op = "reserve" /\ j.sku = sku /\ j.demand = demand
  BY NoJobJob, ReservationAssumption DEF Job, NoJob, Ops
<1>3. QED
  BY <1>1, <1>2, LookUpDemandKeeps DEF ReserveStock

(* A reservation that is not due is left alone.                            *)
LEMMA NotDueKeeps ==
    ASSUME IInv, NEW s \in Sessions, NotDue(s)
    PROVE  StoreKept(s) /\ SessionKept(s)
<1> PICK r \in job[s].queue :
       GoTo(s, "due", [job[s] EXCEPT !.queue = @ \ {r}])
  BY DEF NotDue
<1> DEFINE j == [job[s] EXCEPT !.queue = @ \ {r}]
<1>1. /\ pc[s] = "due" /\ UNCHANGED <<now, store>> /\ loaded' = loaded
      /\ GoTo(s, "due", j) /\ "due" \in Steps
  BY DEF NotDue, Steps
<1>2. /\ j \in Job /\ j.queue \subseteq job[s].queue /\ j.op = job[s].op
      /\ j.res = job[s].res /\ j.sku = job[s].sku /\ j.demand = job[s].demand
  BY DEF IInv, TypeOK, Job
<1> HIDE DEF j
<1>3. pc'[s] = "due" /\ job'[s] = j
  BY <1>1, <1>2, GoToTyped DEF IInv
<1>4. LookedUp(s)'
  BY <1>1, <1>2, <1>3 DEF IInv, Control, LookedUp, Has
<1>5. Control(s)'
  BY <1>3, <1>4 DEF Control, Resolves
<1>6. TxClosed(s) /\ StaysOpen(s, "due", j) /\ ReadsRows(s)
  BY <1>1, <1>2 DEF IInv, TxClosed, InTx, StaysOpen, ReadsRows, ScopeSteps
<1>7. QED
  BY <1>1, <1>2, <1>5, <1>6, ReadStepKeeps

(* Whatever resolves a reservation starts from one it saw ACTIVE.          *)
LEMMA ResolvingKeeps ==
    ASSUME IInv, NEW s \in Sessions, pc[s] = "due", UNCHANGED <<now, store, loaded>>,
           NEW r \in Resvs, Has(s, r), IsActive(loaded[s][r]), NEW act \in Status,
           job[s].op = "reserve" => act = "EXPIRED", Resolving(s, r, act)
    PROVE  StoreKept(s) /\ SessionKept(s)
<1> DEFINE j == [job[s] EXCEPT !.act = act, !.res = r, !.queue = @ \ {r},
                               !.todo = Allocated(loaded[s][r]), !.rank = ById]
<1>1. GoTo(s, "load", j) /\ "load" \in Steps /\ "load" \in ScopeSteps
  BY DEF Resolving, Steps, ScopeSteps
<1>2. Allocated(loaded[s][r]) \subseteq Units
  BY DEF Allocated
<1>3. /\ j \in Job /\ j.queue \subseteq job[s].queue /\ j.op = job[s].op /\ j.res = r
      /\ j.act = act /\ j.rank = ById /\ j.sku = job[s].sku /\ j.demand = job[s].demand
  <2>1. job[s] \in Job /\ ById \in [Units -> Nat]
    BY SessionsAssumption DEF IInv, TypeOK
  <2>2. job[s].queue \ {r} \in SUBSET Resvs
    BY <2>1 DEF Job
  <2>3. QED
    BY <1>2, <2>1, <2>2 DEF Job
<1> HIDE DEF j
<1>4. pc'[s] = "load" /\ job'[s] = j
  BY <1>1, <1>3, GoToTyped DEF IInv
<1>5. LookedUp(s)'
  BY <1>3, <1>4 DEF IInv, Control, LookedUp, Has
<1>6. ResolvesActive(s)'
  BY <1>3, <1>4 DEF ResolvesActive, Has
<1>7. Control(s)'
  BY <1>4, <1>5, <1>6 DEF Control, Resolves
<1>8. StaysOpen(s, "load", j) /\ ReadsRows(s) /\ UNCHANGED <<now, store>>
  BY <1>1, <1>3 DEF StaysOpen, ReadsRows
<1>9. QED
  BY <1>1, <1>3, <1>7, <1>8, ReadStepKeeps

(* Only a reservation seen ACTIVE is expired.                              *)
LEMMA ExpireIfDueKeeps ==
    ASSUME IInv, NEW s \in Sessions, ExpireIfDue(s)
    PROVE  StoreKept(s) /\ SessionKept(s)
<1> PICK r \in job[s].queue : Due(s, r) /\ Resolving(s, r, "EXPIRED")
  BY DEF ExpireIfDue
<1>1. pc[s] = "due" /\ UNCHANGED <<now, store, loaded>> /\ "EXPIRED" \in Status
  BY DEF ExpireIfDue, Status
<1>2. r \in Resvs /\ Has(s, r)
  BY <1>1 DEF IInv, TypeOK, Job, Control, LookedUp
<1>3. IsActive(loaded[s][r])
  BY DEF Due
<1>4. QED
  BY <1>1, <1>2, <1>3, ResolvingKeeps

(* Revoke and Confirm refuse what is not ACTIVE.                           *)
LEMMA DecideKeeps ==
    ASSUME IInv, NEW s \in Sessions, Decide(s)
    PROVE  StoreKept(s) /\ SessionKept(s)
<1> DEFINE r   == job[s].res
           res == loaded[s][r]
<1>1. pc[s] = "due" /\ job[s].op \in DOMAIN Resolution
  BY DEF Decide
<1>2. r \in Resvs /\ Has(s, r)
  BY <1>1 DEF IInv, Control, LookedUp
<1>3. \/ /\ IsActive(res) /\ Resolving(s, r, Resolution[job[s].op])
         /\ UNCHANGED <<now, store, loaded>>
      \/ Fail(s)
  BY DEF Decide, CanConfirm
<1>4. Resolution[job[s].op] \in Status /\ job[s].op # "reserve"
  BY <1>1, ResolutionOps
<1>5. CASE Fail(s)
  BY <1>5, FailKeeps
<1>6. CASE /\ IsActive(res) /\ Resolving(s, r, Resolution[job[s].op])
           /\ UNCHANGED <<now, store, loaded>>
  BY <1>1, <1>2, <1>4, <1>6, ResolvingKeeps
<1>7. QED
  BY <1>3, <1>5, <1>6

-----------------------------------------------------------------------------
(* Resolving a reservation, unit by unit.                                  *)

(* What a query puts in memory.                                            *)
LEMMA LoadReads ==
    ASSUME TypeOK, NEW s \in Sessions, NEW R \in SUBSET Rows, Load(s, R)
    PROVE  \A q \in Rows : loaded'[s][q] = IF q \in R THEN Visible(s, q) ELSE loaded[s][q]
  BY DEF TypeOK, Load

(* What every statement of a resolution can rely on.                       *)
LEMMA ResolutionFacts ==
    ASSUME IInv, NEW s \in Sessions, pc[s] \in Resolves
    PROVE  /\ TypeOK /\ job[s] \in Job /\ LookedUp(s) /\ ResolvesActive(s)
           /\ loaded[s] \in Tables /\ loaded[s][job[s].res] \in Reservation
           /\ job[s].todo \in SUBSET Units /\ job[s].queue \in SUBSET Resvs
           /\ \A u \in Units : Share(s, u) \in Nat
           /\ \A u, v : IsNext(s, u) /\ IsNext(s, v) => u = v
<1>1. TypeOK /\ LookedUp(s) /\ ResolvesActive(s)
  BY DEF IInv, Control
<1>2. job[s] \in Job /\ loaded[s] \in Tables
  BY <1>1 DEF TypeOK
<1>3. job[s].todo \in SUBSET Units /\ job[s].queue \in SUBSET Resvs
  BY <1>2 DEF Job
<1>4. loaded[s][job[s].res] \in Reservation
  BY <1>1, <1>2, RowKinds DEF ResolvesActive, Has
<1>5. \A u \in Units : Share(s, u) \in Nat
  BY <1>4 DEF Reservation, Share
<1>6. \A u, v : IsNext(s, u) /\ IsNext(s, v) => u = v
  BY <1>1, <1>3, OneNext DEF ResolvesActive
<1>7. QED
  BY <1>1, <1>2, <1>3, <1>4, <1>5, <1>6

(* The next statement still knows the reservation, and what to do with it. *)
LEMMA StillResolves ==
    ASSUME IInv, NEW s \in Sessions, pc[s] \in Resolves, NEW j, job'[s] = j,
           /\ j.queue = job[s].queue /\ j.op = job[s].op /\ j.res = job[s].res
           /\ j.act = job[s].act /\ j.rank = job[s].rank
           /\ j.sku = job[s].sku /\ j.demand = job[s].demand,
           \A q \in Rows : Has(s, q) => loaded'[s][q] # Absent,
           loaded'[s][job[s].res] = loaded[s][job[s].res]
    PROVE  LookedUp(s)' /\ ResolvesActive(s)'
<1>1. job[s].queue \subseteq Rows /\ Resvs \subseteq Rows /\ LookedUp(s) /\ ResolvesActive(s)
  BY ResolutionFacts DEF Rows
<1>2. LookedUp(s)'
  BY <1>1 DEF LookedUp, Has
<1>3. ResolvesActive(s)'
  BY <1>1 DEF ResolvesActive, Has
<1>4. QED
  BY <1>2, <1>3

(* Crossing a unit off the list changes nothing else of the request.       *)
LEMMA WithoutTyped ==
    ASSUME NEW s, job[s] \in Job, NEW u
    PROVE  /\ Without(s, u) \in Job /\ Without(s, u).todo \subseteq job[s].todo
           /\ Without(s, u).op = job[s].op /\ Without(s, u).queue = job[s].queue
           /\ Without(s, u).res = job[s].res /\ Without(s, u).act = job[s].act
           /\ Without(s, u).rank = job[s].rank /\ Without(s, u).sku = job[s].sku
           /\ Without(s, u).demand = job[s].demand /\ Without(s, u).bin = job[s].bin
  BY DEF Without, Job

(* The next unit is read and its method's condition checked.               *)
LEMMA LoadUnitKeeps ==
    ASSUME IInv, NEW s \in Sessions, LoadUnit(s)
    PROVE  StoreKept(s) /\ SessionKept(s)
<1> PICK u \in job[s].todo :
       /\ IsNext(s, u)
       /\ IF /\ Visible(s, u) # Absent
             /\ IF Picking(s) THEN CanPick(Visible(s, u), Share(s, u))
                              ELSE CanRelease(Visible(s, u), Share(s, u))
          THEN Load(s, {u}) /\ GoTo(s, "save", job[s]) /\ UNCHANGED <<now, store>>
          ELSE Fail(s)
  BY DEF LoadUnit
<1>1. pc[s] = "load" /\ pc[s] \in Resolves
  BY DEF LoadUnit, Resolves
<1>2. CASE Fail(s)
  BY <1>2, FailKeeps
<1>3. CASE /\ Visible(s, u) # Absent
           /\ IF Picking(s) THEN CanPick(Visible(s, u), Share(s, u))
                            ELSE CanRelease(Visible(s, u), Share(s, u))
           /\ Load(s, {u}) /\ GoTo(s, "save", job[s]) /\ UNCHANGED <<now, store>>
  <2>1. /\ TypeOK /\ job[s] \in Job /\ u \in Units /\ {u} \in SUBSET Rows
        /\ "save" \in Steps /\ "save" \in ScopeSteps /\ job[s].res \in Resvs
        /\ \A v : IsNext(s, v) => v = u
    BY <1>1, ResolutionFacts DEF Rows, Steps, ScopeSteps, ResolvesActive
  <2>2. pc'[s] = "save" /\ job'[s] = job[s]
    BY <1>3, <2>1, GoToTyped
  <2>3. \A q \in Rows : loaded'[s][q] = IF q = u THEN Visible(s, u) ELSE loaded[s][q]
    BY <1>3, <2>1, LoadReads
  <2>4. loaded'[s][job[s].res] = loaded[s][job[s].res]
    BY <2>1, <2>3, RowsAssumption DEF Rows
  <2>5. LookedUp(s)' /\ ResolvesActive(s)'
    BY <1>1, <1>3, <2>2, <2>3, <2>4, StillResolves DEF Has
  <2>6. \A v : IsNext(s, v)' => v = u
    BY <2>1, <2>2 DEF IsNext
  <2>7. loaded'[s][u] = Visible(s, u) /\ \A v : Share(s, v)' = Share(s, v)
    BY <2>1, <2>2, <2>3, <2>4 DEF Share, Rows
  <2>8. NextInHand(s)'
    BY <1>3, <2>6, <2>7 DEF NextInHand, Has
  <2>9. UnitAllows(s)'
    BY <1>3, <2>2, <2>6, <2>7 DEF UnitAllows, Picking
  <2>10. Control(s)'
    BY <2>2, <2>5, <2>8, <2>9 DEF Control, Resolves
  <2>11. StaysOpen(s, "save", job[s]) /\ ReadsRows(s)
    BY <1>3, <2>1 DEF StaysOpen, ReadsRows
  <2>12. QED
    BY <1>3, <2>1, <2>10, <2>11, ReadStepKeeps
<1>4. QED
  BY <1>2, <1>3

(* The bin picked from is read and Release's condition checked.            *)
LEMMA LoadBinKeeps ==
    ASSUME IInv, NEW s \in Sessions, LoadBin(s)
    PROVE  StoreKept(s) /\ SessionKept(s)
<1> PICK u \in job[s].todo :
       LET b == loaded[s][u].bin
       IN  /\ IsNext(s, u)
           /\ IF Visible(s, b) # Absent /\ CanReleaseBin(Visible(s, b), Share(s, u))
              THEN Load(s, {b}) /\ GoTo(s, "savebin", job[s]) /\ UNCHANGED <<now, store>>
              ELSE Fail(s)
  BY DEF LoadBin
<1> DEFINE b == loaded[s][u].bin
<1>1. pc[s] = "bin" /\ pc[s] \in Resolves
  BY DEF LoadBin, Resolves
<1>2. CASE Fail(s)
  BY <1>2, FailKeeps
<1>3. CASE /\ Visible(s, b) # Absent /\ CanReleaseBin(Visible(s, b), Share(s, u))
           /\ Load(s, {b}) /\ GoTo(s, "savebin", job[s]) /\ UNCHANGED <<now, store>>
  <2>1. /\ TypeOK /\ job[s] \in Job /\ u \in Units /\ loaded[s] \in Tables
        /\ "savebin" \in Steps /\ "savebin" \in ScopeSteps /\ job[s].res \in Resvs
        /\ \A v : IsNext(s, v) => v = u
    BY <1>1, ResolutionFacts DEF Steps, ScopeSteps, ResolvesActive
  <2>2. Has(s, u)
    BY <1>1 DEF IInv, Control, NextInHand
  <2>3. b \in Bins
    BY <2>1, <2>2, RowKinds DEF Has, StockUnit
  <2> HIDE DEF b
  <2>4. {b} \in SUBSET Rows /\ b # u /\ b # job[s].res
    BY <2>1, <2>3, RowsAssumption DEF Rows
  <2>5. pc'[s] = "savebin" /\ job'[s] = job[s]
    BY <1>3, <2>1, GoToTyped
  <2>6. \A q \in Rows : loaded'[s][q] = IF q = b THEN Visible(s, b) ELSE loaded[s][q]
    BY <1>3, <2>1, <2>4, LoadReads
  <2>7. /\ loaded'[s][job[s].res] = loaded[s][job[s].res]
        /\ loaded'[s][u] = loaded[s][u] /\ loaded'[s][b] = Visible(s, b)
    BY <2>1, <2>4, <2>6 DEF Rows
  <2>8. LookedUp(s)' /\ ResolvesActive(s)'
    BY <1>1, <1>3, <2>5, <2>6, <2>7, StillResolves DEF Has
  <2>9. \A v : IsNext(s, v)' => v = u
    BY <2>1, <2>5 DEF IsNext
  <2>10. loaded'[s][u].bin = b /\ \A v : Share(s, v)' = Share(s, v)
    BY <2>5, <2>7 DEF Share, b
  <2>11. NextInHand(s)'
    BY <2>2, <2>7, <2>9 DEF NextInHand, Has
  <2>12. BinAllows(s)'
    BY <1>3, <2>7, <2>9, <2>10 DEF BinAllows, Has
  <2>13. Control(s)'
    BY <2>5, <2>8, <2>11, <2>12 DEF Control, Resolves
  <2>14. StaysOpen(s, "savebin", job[s]) /\ ReadsRows(s)
    BY <1>3, <2>1, <2>4 DEF StaysOpen, ReadsRows
  <2>15. QED
    BY <1>3, <2>1, <2>13, <2>14, ReadStepKeeps
<1>4. QED
  BY <1>2, <1>3

(* Picking or giving back a share leaves a stock unit.                     *)
LEMMA UnitRows ==
    ASSUME NEW unit \in StockUnit, NEW n \in Nat
    PROVE  /\ CanPick(unit, n) => Pick(unit, n) \in StockUnit
           /\ CanRelease(unit, n) => ReleaseReservation(unit, n) \in StockUnit
           /\ Reserve(unit, n) \in StockUnit
           /\ MarkUnlocated(unit) \in StockUnit
<1>1. {"AVAILABLE", "RESERVED", "PICKED", "REMOVED", "UNLOCATED"} \subseteq StockState
  BY DEF StockState
<1>2. ASSUME CanPick(unit, n)
      PROVE  Pick(unit, n) \in StockUnit
  <2>1. unit.reserved - n \in Nat /\ unit.quantity - n \in Nat
    BY <1>2 DEF StockUnit, CanPick
  <2>2. QED
    BY <1>1, <2>1 DEF StockUnit, Pick
<1>3. ASSUME CanRelease(unit, n)
      PROVE  ReleaseReservation(unit, n) \in StockUnit
  <2>1. unit.reserved - n \in Nat
    BY <1>3 DEF StockUnit, CanRelease
  <2>2. QED
    BY <1>1, <2>1 DEF StockUnit, ReleaseReservation
<1>4. Reserve(unit, n) \in StockUnit
  <2>1. unit.reserved + n \in Nat
    BY DEF StockUnit
  <2>2. QED
    BY <1>1, <2>1 DEF StockUnit, Reserve
<1>5. MarkUnlocated(unit) \in StockUnit
  BY <1>1 DEF StockUnit, MarkUnlocated
<1>6. QED
  BY <1>2, <1>3, <1>4, <1>5

(* Occupying, releasing and resizing leave a bin.                          *)
LEMMA BinRows ==
    ASSUME NEW bin \in Bin, NEW n \in Nat
    PROVE  /\ CanReleaseBin(bin, n) => ReleaseBin(bin, n) \in Bin
           /\ Occupy(bin, n) \in Bin /\ Resize(bin, n) \in Bin
  BY DEF Bin, CanReleaseBin, ReleaseBin, Occupy, Resize

(* A new bin is a bin.                                                     *)
LEMMA NewBinRow ==
    ASSUME NEW n \in Nat
    PROVE  NewBin(n) \in Bin
  BY DEF Bin, NewBin, Version

(* An aggregate is never the missing row.                                  *)
LEMMA NotAbsent ==
    ASSUME NEW a, a \in StockUnit \/ a \in Bin \/ a \in Reservation
    PROVE  a # Absent
  BY RowsAssumption

(* The unit's Save, from the copy that was checked.                        *)
LEMMA SaveUnitKeeps ==
    ASSUME IInv, NEW s \in Sessions, SaveUnit(s)
    PROVE  StoreKept(s) /\ SessionKept(s)
<1> PICK u \in job[s].todo :
       LET unit == IF Picking(s) THEN Pick(loaded[s][u], Share(s, u))
                                 ELSE ReleaseReservation(loaded[s][u], Share(s, u))
       IN  /\ IsNext(s, u)
           /\ \/ /\ Save(s, u, unit)
                 /\ IF Picking(s) THEN GoTo(s, "bin", job[s])
                                  ELSE GoTo(s, "load", Without(s, u))
                 /\ UNCHANGED <<now, loaded, outbox, pending>>
              \/ Conflict(s, u, unit)
  BY DEF SaveUnit
<1> DEFINE unit == IF Picking(s) THEN Pick(loaded[s][u], Share(s, u))
                                 ELSE ReleaseReservation(loaded[s][u], Share(s, u))
<1>1. pc[s] = "save" /\ pc[s] \in Resolves
  BY DEF SaveUnit, Resolves
<1>2. CASE Conflict(s, u, unit)
  BY <1>2, ConflictKeeps
<1>3. CASE /\ Save(s, u, unit)
           /\ IF Picking(s) THEN GoTo(s, "bin", job[s])
                            ELSE GoTo(s, "load", Without(s, u))
           /\ UNCHANGED <<now, loaded, outbox, pending>>
  <2>1. /\ TypeOK /\ job[s] \in Job /\ u \in Units /\ u \in Rows /\ loaded[s] \in Tables
        /\ Share(s, u) \in Nat
    BY <1>1, ResolutionFacts DEF Rows
  <2>2. NextInHand(s) /\ UnitAllows(s)
    BY <1>1 DEF IInv, Control
  <2>3. loaded[s][u] \in StockUnit
    BY <2>1, <2>2, RowKinds DEF NextInHand, Has
  <2>4. unit \in StockUnit
    BY <2>1, <2>2, <2>3, UnitRows DEF UnitAllows
  <2> HIDE DEF unit
  <2>5. TypedRow(u, unit) /\ unit # Absent
    BY <2>1, <2>4, NotAbsent DEF TypedRow
  <2>6. Writable(s, u) /\ Remembers(s, u, unit) /\ Tells(s)
    BY <1>3, <2>1, RowsAssumption DEF Writable, Remembers, Tells
  <2>7. CASE Picking(s)
    <3>1. GoTo(s, "bin", job[s]) /\ "bin" \in Steps
      BY <1>3, <2>7 DEF Steps, ScopeSteps
    <3>2. pc'[s] = "bin" /\ job'[s] = job[s]
      BY <2>1, <3>1, GoToTyped
    <3>3. LookedUp(s)' /\ ResolvesActive(s)'
      BY <1>1, <1>3, <3>2, StillResolves DEF Has
    <3>4. NextInHand(s)'
      BY <1>3, <2>2, <3>2 DEF NextInHand, Has, IsNext
    <3>5. Control(s)'
      BY <3>2, <3>3, <3>4 DEF Control, Resolves
    <3>6. SameTx(s, "bin", job[s])
      BY DEF SameTx, ScopeSteps
    <3>7. QED
      BY <1>3, <2>1, <2>5, <2>6, <3>1, <3>5, <3>6, SaveStepKeeps
  <2>8. CASE ~Picking(s)
    <3>1. GoTo(s, "load", Without(s, u)) /\ "load" \in Steps
      BY <1>3, <2>8 DEF Steps, ScopeSteps
    <3>2. Without(s, u) \in Job
      BY <2>1, WithoutTyped
    <3>3. pc'[s] = "load" /\ job'[s] = Without(s, u)
      BY <2>1, <3>1, <3>2, GoToTyped
    <3>4. LookedUp(s)' /\ ResolvesActive(s)'
      BY <1>1, <1>3, <2>1, <3>3, StillResolves, WithoutTyped DEF Has
    <3>5. Control(s)'
      BY <3>3, <3>4 DEF Control, Resolves
    <3>6. SameTx(s, "load", Without(s, u))
      BY <2>1, WithoutTyped DEF SameTx, ScopeSteps
    <3>7. QED
      BY <1>3, <2>1, <2>5, <2>6, <3>1, <3>2, <3>5, <3>6, SaveStepKeeps
  <2>9. QED
    BY <2>7, <2>8
<1>4. QED
  BY <1>2, <1>3

(* The bin's Save, from the copy that was checked.                         *)
LEMMA SaveBinKeeps ==
    ASSUME IInv, NEW s \in Sessions, SaveBin(s)
    PROVE  StoreKept(s) /\ SessionKept(s)
<1> PICK u \in job[s].todo :
       LET b   == loaded[s][u].bin
           bin == ReleaseBin(loaded[s][b], Share(s, u))
       IN  /\ IsNext(s, u)
           /\ \/ /\ Save(s, b, bin) /\ GoTo(s, "load", Without(s, u))
                 /\ UNCHANGED <<now, loaded, outbox, pending>>
              \/ Conflict(s, b, bin)
  BY DEF SaveBin
<1> DEFINE b   == loaded[s][u].bin
           bin == ReleaseBin(loaded[s][b], Share(s, u))
<1>1. pc[s] = "savebin" /\ pc[s] \in Resolves
  BY DEF SaveBin, Resolves
<1>2. CASE Conflict(s, b, bin)
  BY <1>2, ConflictKeeps
<1>3. CASE /\ Save(s, b, bin) /\ GoTo(s, "load", Without(s, u))
           /\ UNCHANGED <<now, loaded, outbox, pending>>
  <2>1. /\ TypeOK /\ job[s] \in Job /\ u \in Units /\ loaded[s] \in Tables
        /\ Share(s, u) \in Nat
    BY <1>1, ResolutionFacts
  <2>2. NextInHand(s) /\ BinAllows(s)
    BY <1>1 DEF IInv, Control
  <2>3. b \in Bins
    BY <2>1, <2>2, RowKinds DEF NextInHand, Has, StockUnit
  <2>4. Has(s, b) /\ CanReleaseBin(loaded[s][b], Share(s, u))
    BY <2>2 DEF BinAllows
  <2>5. bin \in Bin
    BY <2>1, <2>3, <2>4, RowKinds, BinRows DEF Has
  <2> HIDE DEF b, bin
  <2>6. TypedRow(b, bin) /\ bin # Absent /\ b \in Rows
    BY <2>3, <2>5, NotAbsent DEF TypedRow, Rows
  <2>7. Writable(s, b) /\ Remembers(s, b, bin) /\ Tells(s)
    BY <1>3, <2>3, RowsAssumption DEF Writable, Remembers, Tells
  <2>8. Without(s, u) \in Job /\ "load" \in Steps
    BY <2>1, WithoutTyped DEF Steps, ScopeSteps
  <2>9. pc'[s] = "load" /\ job'[s] = Without(s, u)
    BY <1>3, <2>1, <2>8, GoToTyped
  <2>10. LookedUp(s)' /\ ResolvesActive(s)'
    BY <1>1, <1>3, <2>1, <2>9, StillResolves, WithoutTyped DEF Has
  <2>11. Control(s)'
    BY <2>9, <2>10 DEF Control, Resolves
  <2>12. SameTx(s, "load", Without(s, u))
    BY <2>1, WithoutTyped DEF SameTx, ScopeSteps
  <2>13. QED
    BY <1>3, <2>6, <2>7, <2>8, <2>11, <2>12, SaveStepKeeps
<1>4. QED
  BY <1>2, <1>3

(* The reservation itself: the version guard makes what was loaded ACTIVE  *)
(* still the row that is written.                                          *)
LEMMA SaveReservationKeeps ==
    ASSUME IInv, NEW s \in Sessions, SaveReservation(s)
    PROVE  StoreKept(s) /\ SessionKept(s)
<1> DEFINE r   == job[s].res
           res == ResolveAs(loaded[s][r], job[s].act)
<1>1. pc[s] = "load" /\ pc[s] \in Resolves
  BY DEF SaveReservation, Resolves
<1>2. \/ /\ Save(s, r, res) /\ Publish(s, {EventOf[job[s].act]}, r)
         /\ loaded' = [loaded EXCEPT ![s][r] = res]
         /\ GoTo(s, "commit", job[s]) /\ now' = now
      \/ Conflict(s, r, res)
  BY DEF SaveReservation
<1>3. CASE Conflict(s, r, res)
  BY <1>3, ConflictKeeps
<1>4. CASE /\ Save(s, r, res) /\ Publish(s, {EventOf[job[s].act]}, r)
           /\ loaded' = [loaded EXCEPT ![s][r] = res]
           /\ GoTo(s, "commit", job[s]) /\ now' = now
  <2>1. /\ TypeOK /\ job[s] \in Job /\ LookedUp(s) /\ ResolvesActive(s)
        /\ loaded[s] \in Tables /\ loaded[s][r] \in Reservation /\ r \in Resvs /\ r \in Rows
        /\ job[s].act \in Status /\ job[s].queue \in SUBSET Rows
    BY <1>1, ResolutionFacts DEF ResolvesActive, Rows, Job
  <2>2. res \in Reservation /\ res.version = loaded[s][r].version
    BY <2>1 DEF ResolveAs, Reservation
  <2>3. Hit(s, r, res)
    BY <1>4 DEF Save
  <2> HIDE DEF res
  <2>4. Visible(s, r) # Absent => loaded[s][r] = Visible(s, r)
    BY <2>1, <2>2, <2>3 DEF IInv, StoreInv, Snapshot, Hit, ResolvesActive, Has
  <2>5. Writable(s, r)
    BY <2>1, <2>4 DEF Writable, ResolvesActive
  <2>6. TypedRow(r, res) /\ res # Absent
    BY <2>1, <2>2, NotAbsent DEF TypedRow
  <2>7. Remembers(s, r, res) /\ Tells(s)
    BY <1>4, <2>1, ResolutionOps DEF Remembers, Tells
  <2>8. "commit" \in Steps /\ SameTx(s, "commit", job[s])
    BY DEF Steps, ScopeSteps, SameTx
  <2>9. pc'[s] = "commit" /\ job'[s] = job[s]
    BY <1>4, <2>1, <2>8, GoToTyped
  <2>10. \A q \in Rows : loaded[s][q] # Absent => loaded'[s][q] # Absent
    BY <1>4, <2>1, <2>6 DEF TypeOK
  <2>11. LookedUp(s)'
    BY <2>1, <2>9, <2>10 DEF LookedUp, Has, Rows
  <2>12. Control(s)'
    BY <2>1, <2>9, <2>11 DEF Control, Resolves, ResolvesActive
  <2>13. QED
    BY <1>4, <2>1, <2>5, <2>6, <2>7, <2>8, <2>12, SaveStepKeeps
<1>5. QED
  BY <1>2, <1>3, <1>4

-----------------------------------------------------------------------------
(* Answers, and the reservation of stock.                                  *)

(* A replay or a lookup is answered and its transaction ended.             *)
LEMMA AnswerFoundKeeps ==
    ASSUME IInv, NEW s \in Sessions, AnswerFound(s)
    PROVE  StoreKept(s) /\ SessionKept(s)
<1>1. "ok" \in Finished /\ Forget(s, "ok") /\ Commit(s) /\ now' = now
  BY DEF AnswerFound, Finished
<1>2. QED
  BY <1>1, AnswerKeeps

(* The middleware commits with the response.                               *)
LEMMA ReplyKeeps ==
    ASSUME IInv, NEW s \in Sessions, Reply(s)
    PROVE  StoreKept(s) /\ SessionKept(s)
<1>1. "ok" \in Finished /\ Forget(s, "ok") /\ Commit(s) /\ now' = now
  BY DEF Reply, Finished
<1>2. QED
  BY <1>1, AnswerKeeps

(* The greedy draw takes from each unit a natural number, and nothing from *)
(* a unit without usable quantity.                                         *)
LEMMA GreedyDraw ==
    ASSUME NEW usable \in [Units -> Nat], NEW order \in [Units -> Nat], NEW qty \in Nat
    PROVE  /\ Greedy(usable, order, qty) \in [Units -> Nat]
           /\ \A u \in Units : Greedy(usable, order, qty)[u] <= usable[u]
<1> DEFINE Before(u) == Amount({v \in Units : order[v] < order[u]}, usable)
           Left(u)   == IF Before(u) < qty THEN qty - Before(u) ELSE 0
           Draw(u)   == IF Left(u) < usable[u] THEN Left(u) ELSE usable[u]
<1>1. Greedy(usable, order, qty) = [u \in Units |-> Draw(u)]
  BY DEF Greedy
<1>2. ASSUME NEW u \in Units
      PROVE  Draw(u) \in Nat /\ Draw(u) <= usable[u]
  <2>1. {v \in Units : order[v] < order[u]} \in SUBSET Units
    OBVIOUS
  <2>2. Before(u) \in Nat
    BY <2>1, AmountNat, RowsAssumption, FS_Subset
  <2> HIDE DEF Before
  <2>3. Left(u) \in Nat
    BY <2>2
  <2> HIDE DEF Left
  <2>4. QED
    BY <2>3
<1> HIDE DEF Draw
<1>3. QED
  BY <1>1, <1>2

(* The draw is computed in memory, from units the request has loaded.      *)
LEMMA FindBySKUKeeps ==
    ASSUME IInv, NEW s \in Sessions, FindBySKU(s)
    PROVE  StoreKept(s) /\ SessionKept(s)
<1> DEFINE ofSku  == {u \in Units : Visible(s, u) # Absent /\ Visible(s, u).sku = job[s].sku}
           usable == [u \in Units |-> IF u \in ofSku THEN Usable(Visible(s, u)) ELSE 0]
<1>1. pc[s] = "due" /\ job[s].op = "reserve"
  BY DEF FindBySKU
<1>2. \/ Fail(s)
      \/ /\ \E order \in Orders :
               LET draw == Greedy(usable, order, job[s].qty)
               IN  GoTo(s, "draw", [job[s] EXCEPT !.draw = draw, !.rank = order,
                                                  !.todo = {u \in Units : draw[u] > 0}])
         /\ Load(s, ofSku)
         /\ UNCHANGED <<now, store>>
  BY DEF FindBySKU
<1>3. CASE Fail(s)
  BY <1>3, FailKeeps
<1>4. CASE /\ \E order \in Orders :
                 LET draw == Greedy(usable, order, job[s].qty)
                 IN  GoTo(s, "draw", [job[s] EXCEPT !.draw = draw, !.rank = order,
                                                    !.todo = {u \in Units : draw[u] > 0}])
           /\ Load(s, ofSku)
           /\ UNCHANGED <<now, store>>
  <2> PICK order \in Orders :
         LET draw == Greedy(usable, order, job[s].qty)
         IN  GoTo(s, "draw", [job[s] EXCEPT !.draw = draw, !.rank = order,
                                            !.todo = {u \in Units : draw[u] > 0}])
    BY <1>4
  <2> DEFINE draw == Greedy(usable, order, job[s].qty)
             todo == {u \in Units : draw[u] > 0}
             j    == [job[s] EXCEPT !.draw = draw, !.rank = order, !.todo = todo]
  <2>1. TypeOK /\ job[s] \in Job /\ LookedUp(s) /\ job[s].qty \in Nat
    BY <1>1 DEF IInv, TypeOK, Control, Job
  <2>2. \A u \in Units : Visible(s, u) # Absent => Visible(s, u) \in StockUnit
    BY <2>1, RowKinds DEF TypeOK, Visible
  <2>3. \A u \in ofSku : Usable(Visible(s, u)) \in Nat
    BY <2>2 DEF Usable, StockUnit
  <2>4. usable \in [Units -> Nat] /\ \A u \in Units : usable[u] > 0 => u \in ofSku
    BY <2>3
  <2>5. order \in [Units -> Nat]
    <3>1. order \in [Units -> 1 .. Cardinality(Units)] /\ Cardinality(Units) \in Nat
      BY RowsAssumption, FS_CardinalityType DEF Orders
    <3>2. QED
      BY <3>1
  <2>6. ofSku \in SUBSET Rows /\ \A u \in ofSku : Visible(s, u) # Absent
    BY DEF Rows
  <2> HIDE DEF ofSku, usable
  <2>7. draw \in [Units -> Nat] /\ \A u \in Units : draw[u] <= usable[u]
    BY <2>1, <2>4, <2>5, GreedyDraw
  <2> HIDE DEF draw
  <2>8. todo \in SUBSET Units /\ todo \subseteq ofSku
    BY <2>4, <2>7
  <2> HIDE DEF todo
  <2>9. /\ j \in Job /\ j.op = "reserve" /\ j.todo = todo
        /\ j.sku = job[s].sku /\ j.demand = job[s].demand
    BY <1>1, <2>1, <2>5, <2>7, <2>8 DEF Job
  <2>10. GoTo(s, "draw", j) /\ "draw" \in Steps
    BY DEF Steps, draw, todo
  <2> HIDE DEF j
  <2>11. pc'[s] = "draw" /\ job'[s] = j
    BY <2>1, <2>9, <2>10, GoToTyped
  <2>12. \A u \in todo : loaded'[s][u] # Absent
    BY <1>4, <2>1, <2>6, <2>8, LoadReads
  <2>13. Control(s)'
    BY <1>1, <2>1, <2>9, <2>11, <2>12 DEF Control, Resolves, Holds, Has, LookedUp
  <2>14. StaysOpen(s, "draw", j) /\ ReadsRows(s)
    BY <1>4, <2>6, <2>9 DEF StaysOpen, ReadsRows, Scope
  <2>15. QED
    BY <1>4, <2>9, <2>10, <2>13, <2>14, ReadStepKeeps
<1>5. QED
  BY <1>2, <1>3, <1>4

(* Each unit drawn from is saved.                                          *)
LEMMA SaveTouchedKeeps ==
    ASSUME IInv, NEW s \in Sessions, SaveTouched(s)
    PROVE  StoreKept(s) /\ SessionKept(s)
<1> PICK u \in job[s].todo :
       LET unit == Reserve(loaded[s][u], job[s].draw[u])
       IN  /\ IsNext(s, u)
           /\ \/ /\ Save(s, u, unit) /\ GoTo(s, "draw", Without(s, u))
                 /\ UNCHANGED <<now, loaded, outbox, pending>>
              \/ Conflict(s, u, unit)
  BY DEF SaveTouched
<1> DEFINE unit == Reserve(loaded[s][u], job[s].draw[u])
<1>1. pc[s] = "draw"
  BY DEF SaveTouched
<1>2. CASE Conflict(s, u, unit)
  BY <1>2, ConflictKeeps
<1>3. CASE /\ Save(s, u, unit) /\ GoTo(s, "draw", Without(s, u))
           /\ UNCHANGED <<now, loaded, outbox, pending>>
  <2>1. /\ TypeOK /\ job[s] \in Job /\ loaded[s] \in Tables
        /\ job[s].op = "reserve" /\ job[s].sku \in Skus /\ job[s].demand \in Demands
        /\ Holds(s)
    BY <1>1 DEF IInv, TypeOK, Control
  <2>2. u \in Units /\ u \in Rows /\ job[s].draw[u] \in Nat
    BY <2>1 DEF Job, Rows
  <2>3. loaded[s][u] \in StockUnit
    BY <2>1, <2>2, RowKinds DEF Holds, Has
  <2>4. unit \in StockUnit
    BY <2>2, <2>3, UnitRows
  <2> HIDE DEF unit
  <2>5. TypedRow(u, unit) /\ unit # Absent
    BY <2>2, <2>4, NotAbsent DEF TypedRow
  <2>6. Writable(s, u) /\ Remembers(s, u, unit) /\ Tells(s)
    BY <1>3, <2>2, RowsAssumption DEF Writable, Remembers, Tells
  <2>7. Without(s, u) \in Job /\ "draw" \in Steps
    BY <2>1, WithoutTyped DEF Steps
  <2>8. pc'[s] = "draw" /\ job'[s] = Without(s, u)
    BY <1>3, <2>1, <2>7, GoToTyped
  <2>9. Holds(s)'
    BY <1>3, <2>1, <2>8, WithoutTyped DEF Holds, Has
  <2>10. Control(s)'
    BY <2>1, <2>8, <2>9, WithoutTyped DEF Control, Resolves
  <2>11. SameTx(s, "draw", Without(s, u))
    BY <2>1, WithoutTyped DEF SameTx, Scope
  <2>12. QED
    BY <1>3, <2>2, <2>5, <2>6, <2>7, <2>10, <2>11, SaveStepKeeps
<1>4. QED
  BY <1>2, <1>3

(* The new reservation is written under an unused identifier.              *)
LEMMA CreateReservationKeeps ==
    ASSUME IInv, NEW s \in Sessions, CreateReservation(s)
    PROVE  StoreKept(s) /\ SessionKept(s)
<1> PICK r \in Resvs :
       /\ Unused(r)
       /\ Save(s, r, NewReservation(job[s].sku, job[s].qty, job[s].demand,
                                    job[s].draw, now + Timeout))
       /\ Publish(s, {"StockReserved"}, r)
       /\ GoTo(s, "reply", [job[s] EXCEPT !.res = r])
  BY DEF CreateReservation
<1> DEFINE res == NewReservation(job[s].sku, job[s].qty, job[s].demand,
                                 job[s].draw, now + Timeout)
           j   == [job[s] EXCEPT !.res = r]
<1>1. pc[s] = "draw" /\ now' = now /\ loaded' = loaded
  BY DEF CreateReservation
<1>2. /\ TypeOK /\ job[s] \in Job /\ r \in Rows
      /\ job[s].op = "reserve" /\ job[s].sku \in Skus /\ job[s].demand \in Demands
  BY <1>1 DEF IInv, TypeOK, Control, Rows
<1>3. res \in Reservation
  <2>1. now + Timeout \in Nat
    BY <1>2, ReservationAssumption DEF TypeOK
  <2>2. job[s].qty \in Nat /\ job[s].draw \in [Units -> Nat]
    BY <1>2 DEF Job
  <2>3. QED
    BY <1>2, <2>1, <2>2 DEF NewReservation, Reservation, Status, Version
<1>4. Save(s, r, res) /\ Publish(s, {"StockReserved"}, r) /\ GoTo(s, "reply", j)
  OBVIOUS
<1> HIDE DEF res
<1>5. TypedRow(r, res) /\ res # Absent
  BY <1>3, NotAbsent DEF TypedRow
<1>6. Writable(s, r)
  BY DEF Writable, Unused, Visible
<1>7. Remembers(s, r, res) /\ Tells(s)
  BY <1>1, <1>2, <1>4 DEF Remembers, Tells, EventType
<1>8. j \in Job /\ j.op = "reserve" /\ "reply" \in Steps
  BY <1>2 DEF Job, Steps
<1> HIDE DEF j
<1>9. pc'[s] = "reply" /\ job'[s] = j
  BY <1>2, <1>4, <1>8, GoToTyped
<1>10. Control(s)'
  BY <1>8, <1>9 DEF Control, Resolves
<1>11. SameTx(s, "reply", j)
  BY <1>2, <1>8 DEF SameTx, Scope
<1>12. QED
  BY <1>1, <1>2, <1>4, <1>5, <1>6, <1>7, <1>8, <1>10, <1>11, SaveStepKeeps

-----------------------------------------------------------------------------
(* The actions of PlacementUseCases.                                       *)

(* The bin to stow into is loaded.                                         *)
LEMMA StowStockKeeps ==
    ASSUME IInv, NEW s \in Sessions, StowStock(s)
    PROVE  StoreKept(s) /\ SessionKept(s)
<1> PICK sku \in Skus, qty \in Portions \ {0}, b \in Bins :
       IF db[b] = Absent
       THEN Forget(s, "err")
       ELSE /\ Load(s, {b})
            /\ GoTo(s, "place", [NoJob EXCEPT !.op = "stow", !.sku = sku, !.qty = qty,
                                              !.bin = b])
  BY DEF StowStock
<1>1. pc[s] = "idle" /\ UNCHANGED <<now, store>>
  BY DEF StowStock
<1>2. CASE db[b] = Absent
  BY <1>1, <1>2, RefusalKeeps DEF Finished
<1>3. CASE db[b] # Absent
  <2> DEFINE j == [NoJob EXCEPT !.op = "stow", !.sku = sku, !.qty = qty, !.bin = b]
  <2>1. j \in Job /\ j.op = "stow" /\ j.sku = sku /\ j.bin = b /\ j.act = "ACTIVE"
    BY PlacementAssumption, NoJobJob DEF Job, NoJob, Ops
  <2>2. Load(s, {b}) /\ GoTo(s, "place", j) /\ "place" \in Steps /\ {b} \in SUBSET Rows
    BY <1>3 DEF Steps, Rows
  <2> HIDE DEF j
  <2>3. pc'[s] = "place" /\ job'[s] = j
    BY <2>1, <2>2, GoToTyped DEF IInv
  <2>4. loaded'[s][b] # Absent
    BY <1>3, <2>2 DEF Load, Visible, IInv, TypeOK
  <2>5. Control(s)'
    BY <2>1, <2>3, <2>4 DEF Control, Resolves, Has
  <2>6. StaysOpen(s, "place", j) /\ ReadsRows(s)
    BY <1>1, <2>2, IdleClosed DEF StaysOpen, ReadsRows
  <2>7. QED
    BY <1>1, <2>1, <2>2, <2>5, <2>6, ReadStepKeeps
<1>4. QED
  BY <1>2, <1>3

(* The occupants are checked; nothing is written yet.                      *)
LEMMA CheckSegregationKeeps ==
    ASSUME IInv, NEW s \in Sessions, CheckSegregation(s)
    PROVE  StoreKept(s) /\ SessionKept(s)
<1>1. pc[s] = "place" /\ TypeOK /\ Control(s) /\ TxClosed(s) /\ job[s] \in Job
  BY DEF CheckSegregation, IInv, TypeOK
<1>2. \/ GoTo(s, "putbin", job[s]) /\ UNCHANGED <<now, store, loaded>>
      \/ Fail(s)
  BY DEF CheckSegregation
<1>3. CASE Fail(s)
  BY <1>3, FailKeeps
<1>4. CASE GoTo(s, "putbin", job[s]) /\ UNCHANGED <<now, store, loaded>>
  <2>1. "putbin" \in Steps /\ StaysOpen(s, "putbin", job[s]) /\ ReadsRows(s)
        /\ UNCHANGED <<now, store>>
    BY <1>4 DEF Steps, ScopeSteps, StaysOpen, ReadsRows
  <2>2. pc'[s] = "putbin" /\ job'[s] = job[s]
    BY <1>1, <1>4, <2>1, GoToTyped
  <2>3. Control(s)'
    BY <1>1, <1>4, <2>2 DEF Control, Resolves, Has
  <2>4. QED
    BY <1>1, <1>4, <2>1, <2>3, ReadStepKeeps
<1>5. QED
  BY <1>2, <1>3, <1>4

(* The bin's Save of a stow.                                               *)
LEMMA SaveOccupiedKeeps ==
    ASSUME IInv, NEW s \in Sessions, SaveOccupied(s)
    PROVE  StoreKept(s) /\ SessionKept(s)
<1> DEFINE b   == job[s].bin
           bin == Occupy(loaded[s][b], job[s].qty)
<1>1. pc[s] = "putbin"
  BY DEF SaveOccupied
<1>2. \/ /\ Save(s, b, bin) /\ GoTo(s, "putunit", job[s])
         /\ UNCHANGED <<now, loaded, outbox, pending>>
      \/ Conflict(s, b, bin)
  BY DEF SaveOccupied
<1>3. CASE Conflict(s, b, bin)
  BY <1>3, ConflictKeeps
<1>4. CASE /\ Save(s, b, bin) /\ GoTo(s, "putunit", job[s])
           /\ UNCHANGED <<now, loaded, outbox, pending>>
  <2>1. /\ TypeOK /\ job[s] \in Job /\ loaded[s] \in Tables /\ Control(s)
        /\ b \in Bins /\ Has(s, b) /\ job[s].qty \in Nat
    BY <1>1 DEF IInv, TypeOK, Control, Job
  <2>2. bin \in Bin
    BY <2>1, RowKinds, BinRows DEF Has
  <2> HIDE DEF bin
  <2>3. TypedRow(b, bin) /\ bin # Absent /\ b \in Rows
    BY <2>1, <2>2, NotAbsent DEF TypedRow, Rows
  <2>4. Writable(s, b) /\ Remembers(s, b, bin) /\ Tells(s)
    BY <1>4, <2>1, RowsAssumption DEF Writable, Remembers, Tells
  <2>5. "putunit" \in Steps /\ SameTx(s, "putunit", job[s])
    BY DEF Steps, ScopeSteps, SameTx
  <2>6. pc'[s] = "putunit" /\ job'[s] = job[s]
    BY <1>4, <2>1, <2>5, GoToTyped
  <2>7. Control(s)'
    BY <1>1, <1>4, <2>1, <2>6 DEF Control, Resolves, Has
  <2>8. QED
    BY <1>4, <2>1, <2>3, <2>4, <2>5, <2>7, SaveStepKeeps
<1>5. QED
  BY <1>2, <1>3, <1>4

(* The new unit is written under an unused identifier.                     *)
LEMMA SaveStowedKeeps ==
    ASSUME IInv, NEW s \in Sessions, SaveStowed(s)
    PROVE  StoreKept(s) /\ SessionKept(s)
<1> PICK u \in Units :
       /\ Save(s, u, NewStockUnit(job[s].sku, job[s].bin, job[s].qty))
       /\ Publish(s, {"ItemStowed", "LocationRecorded"}, u)
       /\ GoTo(s, "commit", job[s])
  BY DEF SaveStowed
<1> DEFINE unit == NewStockUnit(job[s].sku, job[s].bin, job[s].qty)
<1>1. pc[s] = "putunit" /\ now' = now /\ loaded' = loaded
  BY DEF SaveStowed
<1>2. /\ TypeOK /\ job[s] \in Job /\ u \in Rows /\ job[s].op = "stow"
      /\ job[s].sku \in Skus /\ job[s].bin \in Bins /\ job[s].qty \in Nat
      /\ job[s].act = "ACTIVE"
  BY <1>1 DEF IInv, TypeOK, Control, Rows, Job
<1>3. unit \in StockUnit
  BY <1>2 DEF NewStockUnit, StockUnit, StockState, Version
<1>4. Save(s, u, unit)
  OBVIOUS
<1> HIDE DEF unit
<1>5. TypedRow(u, unit) /\ unit # Absent
  BY <1>3, NotAbsent DEF TypedRow
<1>6. Writable(s, u)
  BY RowsAssumption DEF Writable
<1>7. {"ItemStowed", "LocationRecorded"} \in SUBSET EventType
  BY DEF EventType
<1>8. Remembers(s, u, unit) /\ Tells(s)
  BY <1>1, <1>2, <1>7 DEF Remembers, Tells
<1>9. "commit" \in Steps /\ SameTx(s, "commit", job[s])
  BY DEF Steps, ScopeSteps, SameTx
<1>10. pc'[s] = "commit" /\ job'[s] = job[s]
  BY <1>2, <1>9, GoToTyped
<1>11. Control(s)'
  BY <1>2, <1>10 DEF Control, Resolves
<1>12. QED
  BY <1>1, <1>2, <1>4, <1>5, <1>6, <1>8, <1>9, <1>11, SaveStepKeeps

(* Registering a bin the same again, with an impossible size, or for real. *)
LEMMA RegisterBinKeeps ==
    ASSUME IInv, NEW s \in Sessions, RegisterBin(s)
    PROVE  StoreKept(s) /\ SessionKept(s)
<1> PICK b \in Bins, capacity \in Capacities \ {0} :
       IF db[b] # Absent /\ db[b].capacity = capacity
       THEN Forget(s, "ok")
       ELSE IF db[b] = Absent \/ CanResize(db[b], capacity)
       THEN /\ Load(s, {b})
            /\ GoTo(s, "setbin", [NoJob EXCEPT !.op = "register", !.bin = b, !.qty = capacity])
       ELSE Forget(s, "err")
  BY ZenonT(60) DEF RegisterBin
<1> DEFINE j == [NoJob EXCEPT !.op = "register", !.bin = b, !.qty = capacity]
<1>1. pc[s] = "idle" /\ UNCHANGED <<now, store>> /\ "ok" \in Finished /\ "err" \in Finished
  BY DEF RegisterBin, Finished
<1>2. \/ Forget(s, "ok") \/ Forget(s, "err")
      \/ Load(s, {b}) /\ GoTo(s, "setbin", j)
  OBVIOUS
<1>3. CASE Forget(s, "ok")
  BY <1>1, <1>3, RefusalKeeps
<1>4. CASE Forget(s, "err")
  BY <1>1, <1>4, RefusalKeeps
<1>5. CASE Load(s, {b}) /\ GoTo(s, "setbin", j)
  <2>1. j \in Job /\ j.op = "register" /\ j.bin = b /\ j.act = "ACTIVE"
    BY PlacementAssumption, NoJobJob DEF Job, NoJob, Ops
  <2>2. "setbin" \in Steps /\ {b} \in SUBSET Rows
    BY DEF Steps, ScopeSteps, Rows
  <2> HIDE DEF j
  <2>3. pc'[s] = "setbin" /\ job'[s] = j
    BY <1>5, <2>1, <2>2, GoToTyped DEF IInv
  <2>4. Control(s)'
    BY <2>1, <2>3 DEF Control, Resolves
  <2>5. StaysOpen(s, "setbin", j) /\ ReadsRows(s)
    BY <1>1, <1>5, <2>2, IdleClosed DEF StaysOpen, ReadsRows
  <2>6. QED
    BY <1>1, <1>5, <2>1, <2>2, <2>4, <2>5, ReadStepKeeps
<1>6. QED
  BY <1>2, <1>3, <1>4, <1>5

(* The Save of the new or resized bin.                                     *)
LEMMA SaveCapacityKeeps ==
    ASSUME IInv, NEW s \in Sessions, SaveCapacity(s)
    PROVE  StoreKept(s) /\ SessionKept(s)
<1> DEFINE b   == job[s].bin
           bin == IF loaded[s][b] = Absent THEN NewBin(job[s].qty)
                                           ELSE Resize(loaded[s][b], job[s].qty)
<1>1. pc[s] = "setbin"
  BY DEF SaveCapacity
<1>2. \/ /\ Save(s, b, bin) /\ GoTo(s, "commit", job[s])
         /\ UNCHANGED <<now, loaded, outbox, pending>>
      \/ Conflict(s, b, bin)
  BY DEF SaveCapacity
<1>3. CASE Conflict(s, b, bin)
  BY <1>3, ConflictKeeps
<1>4. CASE /\ Save(s, b, bin) /\ GoTo(s, "commit", job[s])
           /\ UNCHANGED <<now, loaded, outbox, pending>>
  <2>1. /\ TypeOK /\ job[s] \in Job /\ loaded[s] \in Tables
        /\ b \in Bins /\ job[s].qty \in Nat
        /\ job[s].op = "register" /\ job[s].act = "ACTIVE"
    BY <1>1 DEF IInv, TypeOK, Control, Job
  <2>2. bin \in Bin
    BY <2>1, RowKinds, BinRows, NewBinRow
  <2> HIDE DEF bin
  <2>3. TypedRow(b, bin) /\ bin # Absent /\ b \in Rows
    BY <2>1, <2>2, NotAbsent DEF TypedRow, Rows
  <2>4. Writable(s, b) /\ Remembers(s, b, bin) /\ Tells(s)
    BY <1>4, <2>1, RowsAssumption DEF Writable, Remembers, Tells
  <2>5. "commit" \in Steps /\ SameTx(s, "commit", job[s])
    BY DEF Steps, ScopeSteps, SameTx
  <2>6. pc'[s] = "commit" /\ job'[s] = job[s]
    BY <1>4, <2>1, <2>5, GoToTyped
  <2>7. Control(s)'
    BY <2>1, <2>6 DEF Control, Resolves
  <2>8. QED
    BY <1>4, <2>1, <2>3, <2>4, <2>5, <2>7, SaveStepKeeps
<1>5. QED
  BY <1>2, <1>3, <1>4

(* The units of the bin are loaded and the missing ones chosen.            *)
LEMMA RunCycleCountKeeps ==
    ASSUME IInv, NEW s \in Sessions, RunCycleCount(s)
    PROVE  StoreKept(s) /\ SessionKept(s)
<1>1. pc[s] = "idle" /\ UNCHANGED <<now, store>>
  BY DEF RunCycleCount
<1>2. PICK b \in Bins, counted \in Portions :
         LET locatable == LocatableIn(db, b)
         IN  /\ Load(s, locatable)
             /\ \E M \in SUBSET locatable, order \in Orders :
                   GoTo(s, "mark", [NoJob EXCEPT !.op = "count", !.bin = b, !.qty = counted,
                                                 !.todo = M, !.rank = order])
  BY DEF RunCycleCount
<1> DEFINE locatable == LocatableIn(db, b)
<1>3. PICK M \in SUBSET locatable, order \in Orders :
         GoTo(s, "mark", [NoJob EXCEPT !.op = "count", !.bin = b, !.qty = counted,
                                       !.todo = M, !.rank = order])
  BY <1>2
<1> DEFINE j == [NoJob EXCEPT !.op = "count", !.bin = b, !.qty = counted,
                              !.todo = M, !.rank = order]
<1>4. /\ locatable \in SUBSET Units /\ locatable \in SUBSET Rows
      /\ \A u \in locatable : db[u] # Absent
  BY DEF LocatableIn, InBin, Rows
<1>5. order \in [Units -> Nat]
  <2>1. order \in [Units -> 1 .. Cardinality(Units)] /\ Cardinality(Units) \in Nat
    BY RowsAssumption, FS_CardinalityType DEF Orders
  <2>2. QED
    BY <2>1
<1>6. Load(s, locatable)
  BY <1>2
<1> HIDE DEF locatable
<1>7. /\ j \in Job /\ j.op = "count" /\ j.bin = b /\ j.act = "ACTIVE" /\ j.todo = M
  BY <1>4, <1>5, PlacementAssumption, NoJobJob DEF Job, NoJob, Ops
<1>8. GoTo(s, "mark", j) /\ "mark" \in Steps
  BY <1>3 DEF Steps, ScopeSteps
<1> HIDE DEF j
<1>9. pc'[s] = "mark" /\ job'[s] = j
  BY <1>7, <1>8, GoToTyped DEF IInv
<1>10. \A u \in M : loaded'[s][u] # Absent
  BY <1>4, <1>6, LoadReads DEF IInv, Visible
<1>11. Control(s)'
  BY <1>7, <1>9, <1>10 DEF Control, Resolves, Holds, Has
<1>12. StaysOpen(s, "mark", j) /\ ReadsRows(s)
  BY <1>1, <1>4, <1>6, IdleClosed DEF StaysOpen, ReadsRows
<1>13. QED
  BY <1>1, <1>7, <1>8, <1>11, <1>12, ReadStepKeeps

(* Each missing unit is marked and saved.                                  *)
LEMMA MarkUnitKeeps ==
    ASSUME IInv, NEW s \in Sessions, MarkUnit(s)
    PROVE  StoreKept(s) /\ SessionKept(s)
<1> PICK u \in job[s].todo :
       LET unit == MarkUnlocated(loaded[s][u])
       IN  /\ IsNext(s, u)
           /\ \/ /\ Save(s, u, unit) /\ Publish(s, {"ItemUnlocated"}, u)
                 /\ GoTo(s, "mark", Without(s, u)) /\ UNCHANGED <<now, loaded>>
              \/ Conflict(s, u, unit)
  BY DEF MarkUnit
<1> DEFINE unit == MarkUnlocated(loaded[s][u])
<1>1. pc[s] = "mark"
  BY DEF MarkUnit
<1>2. CASE Conflict(s, u, unit)
  BY <1>2, ConflictKeeps
<1>3. CASE /\ Save(s, u, unit) /\ Publish(s, {"ItemUnlocated"}, u)
           /\ GoTo(s, "mark", Without(s, u)) /\ UNCHANGED <<now, loaded>>
  <2>1. /\ TypeOK /\ job[s] \in Job /\ loaded[s] \in Tables /\ job[s].op = "count"
        /\ job[s].bin \in Bins /\ job[s].act = "ACTIVE" /\ Holds(s)
    BY <1>1 DEF IInv, TypeOK, Control
  <2>2. u \in Units /\ u \in Rows
    BY <2>1 DEF Job, Rows
  <2>3. loaded[s][u] \in StockUnit
    BY <2>1, <2>2, RowKinds DEF Holds, Has
  <2>4. unit \in StockUnit
    <3>1. 0 \in Nat
      OBVIOUS
    <3>2. QED
      BY <2>3, <3>1, UnitRows
  <2> HIDE DEF unit
  <2>5. TypedRow(u, unit) /\ unit # Absent
    BY <2>2, <2>4, NotAbsent DEF TypedRow
  <2>6. {"ItemUnlocated"} \in SUBSET EventType
    BY DEF EventType
  <2>7. Writable(s, u) /\ Remembers(s, u, unit) /\ Tells(s)
    BY <1>3, <2>2, <2>6, RowsAssumption DEF Writable, Remembers, Tells
  <2>8. Without(s, u) \in Job /\ "mark" \in Steps
    BY <2>1, WithoutTyped DEF Steps, ScopeSteps
  <2>9. pc'[s] = "mark" /\ job'[s] = Without(s, u)
    BY <1>3, <2>1, <2>8, GoToTyped
  <2>10. Holds(s)'
    BY <1>3, <2>1, <2>9, WithoutTyped DEF Holds, Has
  <2>11. Control(s)'
    BY <2>1, <2>9, <2>10, WithoutTyped DEF Control, Resolves
  <2>12. SameTx(s, "mark", Without(s, u))
    BY <2>1, WithoutTyped DEF SameTx, ScopeSteps
  <2>13. QED
    BY <1>3, <2>2, <2>5, <2>7, <2>8, <2>11, <2>12, SaveStepKeeps
<1>4. QED
  BY <1>2, <1>3

(* The count's own events close the unit of work.                          *)
LEMMA CountDoneKeeps ==
    ASSUME IInv, NEW s \in Sessions, CountDone(s)
    PROVE  StoreKept(s) /\ SessionKept(s)
<1>1. PICK types \in SUBSET EventType : Publish(s, types, job[s].bin)
  BY DEF CountDone, EventType
<1>2. /\ pc[s] = "mark" /\ GoTo(s, "commit", job[s])
      /\ now' = now /\ db' = db /\ writes' = writes /\ loaded' = loaded
  BY DEF CountDone
<1>3. /\ TypeOK /\ StoreInv /\ TxClosed(s) /\ job[s] \in Job /\ job[s].op = "count"
      /\ job[s].bin \in Rows /\ job[s].act = "ACTIVE"
  BY <1>2 DEF IInv, TypeOK, Control, Rows
<1>4. StoreKept(s)
  BY <1>2, <1>3, ReadKeepsStore
<1>5. outbox' \subseteq Event /\ pending' \in [Sessions -> SUBSET Event]
  BY <1>1, <1>3, PublishEvents
<1>6. "commit" \in Steps
  BY DEF Steps, ScopeSteps
<1>7. /\ pc' \in [Sessions -> Steps] /\ job' \in [Sessions -> Job]
      /\ \A o \in Sessions \ {s} : pc'[o] = pc[o] /\ job'[o] = job[o]
      /\ pc'[s] = "commit" /\ job'[s] = job[s]
  BY <1>2, <1>3, <1>6, GoToTyped
<1>8. Control(s)'
  BY <1>3, <1>7 DEF Control, Resolves
<1>9. TxClosed(s)'
  BY <1>2, <1>3, <1>7 DEF TxClosed, InTx, ScopeSteps
<1>10. QED
  BY <1>2, <1>3, <1>4, <1>5, <1>7, <1>8, <1>9 DEF SessionKept, TypeOK

-----------------------------------------------------------------------------
(* Ends of a use case, failures, and the clock.                            *)

(* The end of a use case, whichever transaction it ran in.                 *)
LEMMA CommitScopeKeeps ==
    ASSUME IInv, NEW s \in Sessions, CommitScope(s)
    PROVE  StoreKept(s) /\ SessionKept(s)
<1>1. /\ pc[s] = "commit" /\ now' = now
      /\ TypeOK /\ StoreInv /\ TxClosed(s) /\ Control(s) /\ job[s] \in Job
  BY DEF CommitScope, IInv, TypeOK
<1>2. /\ Scope(job[s].op) = "own" => Commit(s)
      /\ Scope(job[s].op) # "own" => UNCHANGED <<db, outbox, writes, pending>>
  BY DEF CommitScope, store
<1>3. \/ /\ job[s].act = "EXPIRED" /\ GoTo(s, "due", job[s]) /\ loaded' = loaded
      \/ /\ job[s].act # "EXPIRED"
         /\ \E answer \in Finished : Forget(s, answer)
  BY DEF CommitScope, Finished
<1>4. loaded' = loaded \/ loaded' = [loaded EXCEPT ![s] = NoRows]
  BY <1>3 DEF Forget
<1>5. StoreKept(s) /\ (Scope(job[s].op) = "own" => writes'[s] = NoRows)
  BY <1>1, <1>2, <1>4, CommitKeepsStore, ReadKeepsStore
<1>6. outbox' \subseteq Event /\ pending' \in [Sessions -> SUBSET Event]
  BY <1>1, <1>2, CommitEvents DEF TypeOK
<1>7. Scope(job[s].op) = "none" => writes'[s] = NoRows
  BY <1>1, <1>2 DEF TxClosed, InTx
<1>8. Scope(job[s].op) = "joined" <=> job[s].op = "reserve"
  BY DEF Scope
<1>9. Scope(job[s].op) \in {"own", "none", "joined"}
  BY DEF Scope
<1>10. CASE /\ job[s].act = "EXPIRED" /\ GoTo(s, "due", job[s]) /\ loaded' = loaded
  <2>1. /\ pc' \in [Sessions -> Steps] /\ job' \in [Sessions -> Job]
        /\ \A o \in Sessions \ {s} : pc'[o] = pc[o] /\ job'[o] = job[o]
        /\ pc'[s] = "due" /\ job'[s] = job[s]
    BY <1>1, <1>10, GoToTyped DEF Steps
  <2>2. LookedUp(s)'
    BY <1>1, <1>10, <2>1 DEF Control, LookedUp, Has
  <2>3. Control(s)'
    BY <2>1, <2>2 DEF Control, Resolves
  <2>4. TxClosed(s)'
    BY <1>5, <1>7, <1>9, <2>1 DEF TxClosed, InTx
  <2>5. QED
    BY <1>1, <1>5, <1>6, <2>1, <2>3, <2>4 DEF SessionKept, TypeOK
<1>11. CASE job[s].act # "EXPIRED" /\ \E answer \in Finished : Forget(s, answer)
  <2>1. job[s].op # "reserve"
    BY <1>1, <1>11 DEF Control
  <2>2. writes'[s] = NoRows
    BY <1>5, <1>7, <1>8, <1>9, <2>1
  <2>3. PICK answer \in Finished : Forget(s, answer)
    BY <1>11
  <2>4. QED
    BY <1>1, <1>5, <1>6, <2>2, <2>3, ForgetKeeps DEF SessionKept, TypeOK
<1>12. QED
  BY <1>3, <1>10, <1>11

(* A transaction lost with its connection, or aborted to end a deadlock.   *)
LEMMA AbortKeeps ==
    ASSUME IInv, NEW s \in Sessions, Forget(s, "err"), Rollback(s), now' = now
    PROVE  StoreKept(s) /\ SessionKept(s)
<1>1. TypeOK /\ StoreInv /\ loaded' = [loaded EXCEPT ![s] = NoRows] /\ "err" \in Finished
  BY DEF IInv, Forget, Finished
<1>2. StoreKept(s) /\ writes'[s] = NoRows
  BY <1>1, RollbackKeepsStore
<1>3. QED
  BY <1>1, <1>2, ForgetKeeps, CommitEvents DEF SessionKept, TypeOK

(* All statements on reservations.                                         *)
LEMMA ReservationStepKeeps ==
    ASSUME IInv, NEW s \in Sessions, ReservationStep(s)
    PROVE  StoreKept(s) /\ SessionKept(s)
  BY FindByIDKeeps, GetReservationsKeeps, ReserveStockKeeps, NotDueKeeps, ExpireIfDueKeeps,
     DecideKeeps, LoadUnitKeeps, SaveUnitKeeps, LoadBinKeeps, SaveBinKeeps,
     SaveReservationKeeps, AnswerFoundKeeps, FindBySKUKeeps, SaveTouchedKeeps,
     CreateReservationKeeps, ReplyKeeps
     DEF ReservationStep

(* All statements on bins and their contents.                              *)
LEMMA PlacementStepKeeps ==
    ASSUME IInv, NEW s \in Sessions, PlacementStep(s)
    PROVE  StoreKept(s) /\ SessionKept(s)
<1>1. RefusePlacement(s) => Fail(s)
  BY DEF RefusePlacement
<1>2. QED
  BY <1>1, FailKeeps, StowStockKeeps, CheckSegregationKeeps, SaveOccupiedKeeps,
     SaveStowedKeeps, RegisterBinKeeps, SaveCapacityKeeps, RunCycleCountKeeps,
     MarkUnitKeeps, CountDoneKeeps
     DEF PlacementStep

(* All steps of a session.                                                 *)
LEMMA StepKeeps ==
    ASSUME IInv, NEW s \in Sessions, Step(s)
    PROVE  StoreKept(s) /\ SessionKept(s)
<1>1. DeadlockVictim(s) => Forget(s, "err") /\ Rollback(s) /\ now' = now
  BY DEF DeadlockVictim
<1>2. QED
  BY <1>1, ReservationStepKeeps, PlacementStepKeeps, CommitScopeKeeps, AbortKeeps DEF Step

-----------------------------------------------------------------------------
(* The theorems.                                                           *)

(* A step that leaves the store and the sessions alone leaves every part   *)
(* of the invariant alone.                                                 *)
LEMMA StutterKeeps ==
    ASSUME IInv, now' \in Nat, UNCHANGED <<store, loaded, pc, job>>
    PROVE  IInv' /\ StaysResolved
<1>1. UNCHANGED <<db, outbox, writes, pending, loaded, pc, job>>
  BY DEF store
<1>2. TypeOK'
  BY <1>1 DEF IInv, TypeOK
<1>3. StoreInv'
  BY <1>1 DEF IInv, StoreInv, Exclusive, Newer, Snapshot, WritesActive, Visible
<1>4. ASSUME NEW s \in Sessions
      PROVE  TxClosed(s)' /\ Control(s)'
  <2>1. TxClosed(s) /\ Control(s)
    BY DEF IInv
  <2>2. TxClosed(s)'
    BY <1>1, <2>1 DEF TxClosed, InTx
  <2>3. Control(s)'
    BY <1>1, <2>1 DEF Control, LookedUp, ResolvesActive, NextInHand, UnitAllows, BinAllows,
                      Holds, Has, IsNext, Picking, Share
  <2>4. QED
    BY <2>2, <2>3
<1>5. StaysResolved
  BY <1>1 DEF StaysResolved
<1>6. QED
  BY <1>2, <1>3, <1>4, <1>5 DEF IInv

(* The invariant is inductive, and no step from it unresolves anything.    *)
LEMMA NextKeepsInvariant ==
    ASSUME IInv, [Next]_vars
    PROVE  IInv' /\ StaysResolved
<1>1. ASSUME NEW s \in Sessions, Step(s)
      PROVE  IInv' /\ StaysResolved
  BY <1>1, StepKeeps, StepKeepsInvariant
<1>2. ASSUME NEW s \in Crashable, Crash(s)
      PROVE  IInv' /\ StaysResolved
  <2>1. s \in Sessions /\ Forget(s, "err") /\ Rollback(s) /\ now' = now
    BY <1>2, CrashAssumption DEF Crash
  <2>2. QED
    BY <2>1, AbortKeeps, StepKeepsInvariant
<1>3. CASE Tick
  <2>1. now' \in Nat /\ UNCHANGED <<store, loaded, pc, job>>
    BY <1>3 DEF Tick, IInv, TypeOK
  <2>2. QED
    BY <2>1, StutterKeeps
<1>4. CASE UNCHANGED vars
  <2>1. now' \in Nat /\ UNCHANGED <<store, loaded, pc, job>>
    BY <1>4 DEF vars, IInv, TypeOK
  <2>2. QED
    BY <2>1, StutterKeeps
<1>5. QED
  BY <1>1, <1>2, <1>3, <1>4 DEF Next

(* The service starts with typed tables, idle sessions and nothing open.   *)
LEMMA InitEstablishesInvariant == Init => IInv
<1> SUFFICES ASSUME Init PROVE IInv
  OBVIOUS
<1>1. /\ now = 0 /\ db \in Tables /\ outbox = {}
      /\ writes = [s \in Sessions |-> NoRows] /\ pending = [s \in Sessions |-> {}]
      /\ loaded = [s \in Sessions |-> NoRows]
      /\ pc = [s \in Sessions |-> "idle"] /\ job = [s \in Sessions |-> NoJob]
  BY SessionsAssumption DEF Init
<1>2. TypeOK
  BY <1>1, NoRowsTable, NoJobJob DEF TypeOK, Steps
<1>3. \A s \in Sessions, r \in Rows : writes[s][r] = Absent /\ loaded[s][r] = Absent
  BY <1>1 DEF NoRows
<1>4. StoreInv
  BY <1>3 DEF StoreInv, Exclusive, Newer, Snapshot, WritesActive, Rows
<1>5. ASSUME NEW s \in Sessions
      PROVE  TxClosed(s) /\ Control(s)
  <2>1. writes[s] = NoRows /\ pc[s] = "idle" /\ job[s].op = "none"
    BY <1>1 DEF NoJob
  <2>2. QED
    BY <2>1 DEF TxClosed, Control, Resolves
<1>6. QED
  BY <1>2, <1>4, <1>5 DEF IInv

(* Every reachable state satisfies the inductive invariant.                *)
THEOREM InvariantHolds == Spec => []IInv
<1>1. IInv /\ [Next]_vars => IInv'
  BY NextKeepsInvariant
<1>2. QED
  BY InitEstablishesInvariant, <1>1, PTL DEF Spec

(* The tables, the transactions, the memories and the outbox keep their    *)
(* types: no interleaving of statements, no rollback and no crash leaves a *)
(* row with a negative quantity (shared.Quantity.Sub never goes below      *)
(* zero), or an aggregate under another's key.                             *)
THEOREM TypesKept == Spec => []TypeOK
<1>1. IInv => TypeOK
  BY DEF IInv
<1>2. QED
  BY InvariantHolds, <1>1, PTL

(* Optimistic concurrency is sound for any number of requests: a version   *)
(* of a row tells one content, for what is committed, for what an open     *)
(* transaction has written and for every copy a request has in memory      *)
(* (the WHERE version = guard of every Save).                              *)
THEOREM VersionsAreSound == Spec => []StoreInv
<1>1. IInv => StoreInv
  BY DEF IInv
<1>2. QED
  BY InvariantHolds, <1>1, PTL

(* A reservation is resolved at most once: revoke (with or without a unit  *)
(* of work), confirm and lazy expiry may race, the version guard of Save   *)
(* lets only one of them commit, and its outcome is final.                 *)
THEOREM ResolutionIsFinal == Spec => ResolvedOnce
<1>1. IInv /\ [Next]_vars => [StaysResolved]_vars
  BY NextKeepsInvariant
<1>2. ResolvedOnce <=> [][StaysResolved]_vars
  BY PTL DEF ResolvedOnce, StaysResolved
<1>3. QED
  BY InvariantHolds, <1>1, <1>2, PTL DEF Spec

=============================================================================
