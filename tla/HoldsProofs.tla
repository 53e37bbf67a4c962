---------------------------- MODULE HoldsProofs ----------------------------
(***************************************************************************)
(* Proofs of conservation: what ACTIVE reservations hold stays reserved,   *)
(* nothing else does, and the committed tables move like the atomic ledger *)
(* of holds.                                                               *)
(***************************************************************************)
EXTENDS HoldsInvariant, StockProofs, NumberLemmas

-----------------------------------------------------------------------------
(* Sums of what is held.                                                   *)

(* A table has finitely many holders, each of a quantity of each unit.     *)
LEMMA HoldersFacts ==
    ASSUME NEW t \in Tables
    PROVE  /\ IsFiniteSet(Holders(t))
           /\ \A r \in Holders(t) : r \in Resvs /\ t[r] \in Reservation
           /\ \A r \in Holders(t), u \in Units : t[r].allocs[u] \in Nat
<1>1. Holders(t) \subseteq Resvs
  BY DEF Holders
<1>2. IsFiniteSet(Holders(t))
  BY <1>1, HoldsAssumption, FS_Subset
<1>3. \A r \in Holders(t) : t[r] \in Reservation
  BY RowKinds DEF Holders
<1> QED BY <1>1, <1>2, <1>3 DEF Reservation

(* What is held is a number.                                               *)
LEMMA HeldNat ==
    ASSUME NEW t \in Tables, NEW u \in Units
    PROVE  HeldIn(t, u) \in Nat
<1> DEFINE f == [r \in Holders(t) |-> t[r].allocs[u]]
<1>1. IsFiniteSet(Holders(t)) /\ \A r \in Holders(t) : f[r] \in Nat
  BY HoldersFacts
<1> HIDE DEF f
<1>2. Amount(Holders(t), f) \in Nat
  BY <1>1, AmountNat
<1> QED BY <1>2 DEF HeldIn, f

(* The same holders of the same quantities.                                *)
LEMMA HeldSame ==
    ASSUME NEW t, NEW w, NEW u, Holders(w) = Holders(t),
           \A r \in Holders(t) : w[r].allocs[u] = t[r].allocs[u]
    PROVE  HeldIn(w, u) = HeldIn(t, u)
<1> DEFINE f == [r \in Holders(t) |-> t[r].allocs[u]]
           g == [r \in Holders(w) |-> w[r].allocs[u]]
<1>1. f = g
  OBVIOUS
<1> QED BY <1>1 DEF HeldIn

(* One holder more.                                                        *)
LEMMA HeldMore ==
    ASSUME NEW t \in Tables, NEW w \in Tables, NEW u \in Units, NEW r \in Holders(w),
           Holders(t) = Holders(w) \ {r},
           \A x \in Holders(t) : w[x].allocs[u] = t[x].allocs[u]
    PROVE  HeldIn(w, u) = HeldIn(t, u) + w[r].allocs[u]
<1> DEFINE f == [x \in Holders(w) |-> w[x].allocs[u]]
           g == [x \in Holders(t) |-> t[x].allocs[u]]
<1>1. /\ IsFiniteSet(Holders(w)) /\ \A x \in Holders(w) : f[x] \in Nat
      /\ f[r] = w[r].allocs[u]
  BY HoldersFacts
<1>2. \A x \in Holders(w) \ {r} : f[x] = g[x]
  OBVIOUS
<1>3. HeldIn(w, u) = Amount(Holders(w), f) /\ HeldIn(t, u) = Amount(Holders(t), g)
  BY DEF HeldIn
<1> HIDE DEF f, g
<1>4. Amount(Holders(w), f) = Amount(Holders(w) \ {r}, f) + f[r]
  BY <1>1, AmountSplit
<1>5. Amount(Holders(w) \ {r}, f) = Amount(Holders(w) \ {r}, g)
  BY <1>2, AmountSame
<1> QED BY <1>1, <1>3, <1>4, <1>5

-----------------------------------------------------------------------------
(* What a commit does to the tables.                                       *)

(* All the session sees becomes the table.                                 *)
Commits(s) == \A q \in Rows : db'[q] = Visible(s, q)

(* What the transaction has written, and what it will replace, are rows.   *)
LEMMA WrittenRows ==
    ASSUME TypeOK, NEW s \in Sessions
    PROVE  /\ \A u \in Units : /\ u \in Rows /\ (writes[s][u] # Absent <=> u \in Written(s))
                               /\ writes[s][u] # Absent => writes[s][u] \in StockUnit
                               /\ db[u] # Absent => db[u] \in StockUnit
           /\ \A r \in Resvs : /\ r \in Rows /\ (writes[s][r] # Absent <=> r \in Written(s))
                               /\ writes[s][r] # Absent => writes[s][r] \in Reservation
                               /\ db[r] # Absent => db[r] \in Reservation
<1>1. db \in Tables /\ writes[s] \in Tables
  BY DEF TypeOK
<1>2. \A u \in Units \cup Resvs : u \in Rows
  BY DEF Rows
<1>3. \A u \in Units \cup Resvs : writes[s][u] # Absent <=> u \in Written(s)
  BY <1>2 DEF Written
<1> QED BY <1>1, <1>2, <1>3, RowKinds

(* A commit of nothing but the end of a reservation: it held just what is  *)
(* given back, and what is picked goes off hand.                           *)
LEMMA CommitResolves ==
    ASSUME IInv, NEW s \in Sessions, HoldsTx(s), Commits(s),
           pc[s] = "commit", job[s].act # "ACTIVE", NEW r, r = job[s].res
    PROVE  /\ r \in Resvs /\ db[r] \in Reservation /\ IsActive(db[r])
           /\ db'[r] \in Reservation /\ db'[r].status = job[s].act /\ db'[r].allocs = db[r].allocs
           /\ \A x \in Resvs \ {r} : db'[x] = db[x]
           /\ \A u \in Units : /\ Reserved(db, u)' + db[r].allocs[u] = Reserved(db, u)
                               /\ OnHand(u)' + (IF Picking(s) THEN db[r].allocs[u] ELSE 0) = OnHand(u)
<1>1. TypeOK /\ StoreInv /\ InStep(s) /\ Returning(s) /\ ~Reserving(s)
  BY DEF IInv, HoldsTx, Returning, Reserving
<1>2. r \in Resvs \cap Written(s) /\ job[s].todo = {} /\ Units \cap Written(s) = Settled(s)
  BY <1>1 DEF InStep
<1>3. /\ db[r] # Absent /\ writes[s][r].status = job[s].act
      /\ writes[s][r].allocs = db[r].allocs /\ loaded[s][r].allocs = db[r].allocs
  BY <1>2 DEF HoldsTx, ResvShifted
<1>4. /\ writes[s][r] # Absent /\ writes[s][r] \in Reservation /\ db[r] \in Reservation
      /\ db'[r] = writes[s][r]
  BY <1>1, <1>2, <1>3, WrittenRows DEF Commits, Visible
<1>5. IsActive(db[r])
  BY <1>1, <1>2, <1>4, <1>3 DEF StoreInv, WritesActive
<1>6. ASSUME NEW x \in Resvs \ {r} PROVE db'[x] = db[x]
  <2>1. x \notin Written(s)
    BY <1>6 DEF HoldsTx, ResvShifted
  <2> QED BY <1>1, <2>1, WrittenRows DEF Commits, Visible
<1>7. ASSUME NEW u \in Units
      PROVE  /\ Reserved(db, u)' + db[r].allocs[u] = Reserved(db, u)
             /\ OnHand(u)' + (IF Picking(s) THEN db[r].allocs[u] ELSE 0) = OnHand(u)
  <2>1. Share(s, u) = db[r].allocs[u] /\ db[r].allocs[u] \in Nat
    BY <1>3, <1>4 DEF Share, Reservation
  <2>2. CASE writes[s][u] # Absent
    <3>1. u \in Written(s) /\ writes[s][u] \in StockUnit /\ (db[u] # Absent => db[u] \in StockUnit)
          /\ db'[u] = writes[s][u]
      BY <1>1, <2>2, WrittenRows DEF Commits, Visible
    <3>2. UnitShifted(s, u)
      BY <3>1 DEF HoldsTx
    <3>3. /\ db[u] # Absent
          /\ writes[s][u].reserved + Returned(s, u) = db[u].reserved + Drawn(s, u)
          /\ writes[s][u].quantity + Taken(s, u) = db[u].quantity
      BY <3>2 DEF UnitShifted
    <3>4. Returned(s, u) = db[r].allocs[u] /\ Drawn(s, u) = 0
          /\ Taken(s, u) = (IF Picking(s) THEN db[r].allocs[u] ELSE 0)
      BY <1>1, <2>1 DEF Returned, Drawn, Taken
    <3> QED BY <2>2, <3>1, <3>3, <3>4 DEF Reserved, OnHand, StockUnit
  <2>3. CASE writes[s][u] = Absent
    <3>1. u \notin Written(s) /\ db'[u] = db[u] /\ (db[u] # Absent => db[u] \in StockUnit)
      BY <1>1, <2>3, WrittenRows DEF Commits, Visible
    <3>2. u \notin Allocated(loaded[s][r])
      BY <1>1, <1>2, <3>1 DEF Settled, Planned
    <3>3. db[r].allocs[u] = 0
      BY <1>3, <2>1, <3>2 DEF Allocated
    <3> QED BY <3>1, <3>3 DEF Reserved, OnHand, StockUnit
  <2> QED BY <2>2, <2>3
<1> QED BY <1>2, <1>3, <1>4, <1>5, <1>6, <1>7

(* A commit of a new reservation: it holds just what is drawn.             *)
LEMMA CommitCreates ==
    ASSUME IInv, NEW s \in Sessions, HoldsTx(s), Commits(s), pc[s] = "reply", NEW r, r = job[s].res
    PROVE  /\ r \in Resvs /\ db[r] = Absent
           /\ db'[r] \in Reservation /\ IsActive(db'[r]) /\ db'[r].allocs = job[s].draw
           /\ \A x \in Resvs \ {r} : db'[x] = db[x]
           /\ \A u \in Units : /\ Reserved(db, u)' = Reserved(db, u) + job[s].draw[u]
                               /\ OnHand(u)' = OnHand(u)
<1>1. TypeOK /\ job[s] \in Job /\ InStep(s) /\ Reserving(s) /\ ~Returning(s)
  BY DEF IInv, TypeOK, HoldsTx, Returning, Reserving, Resolves
<1>2. r \in Resvs \cap Written(s) /\ job[s].todo = {} /\ Units \cap Written(s) = Settled(s)
  BY <1>1 DEF InStep
<1>3. db[r] = Absent /\ IsActive(writes[s][r]) /\ writes[s][r].allocs = job[s].draw
  BY <1>2 DEF HoldsTx, ResvShifted
<1>4. writes[s][r] # Absent /\ writes[s][r] \in Reservation /\ db'[r] = writes[s][r]
  BY <1>1, <1>2, WrittenRows DEF Commits, Visible
<1>5. ASSUME NEW x \in Resvs \ {r} PROVE db'[x] = db[x]
  <2>1. x \notin Written(s)
    BY <1>5 DEF HoldsTx, ResvShifted
  <2> QED BY <1>1, <2>1, WrittenRows DEF Commits, Visible
<1>6. ASSUME NEW u \in Units
      PROVE  /\ Reserved(db, u)' = Reserved(db, u) + job[s].draw[u]
             /\ OnHand(u)' = OnHand(u)
  <2>1. job[s].draw[u] \in Nat
    BY <1>1 DEF Job
  <2>2. CASE writes[s][u] # Absent
    <3>1. u \in Written(s) /\ writes[s][u] \in StockUnit /\ (db[u] # Absent => db[u] \in StockUnit)
          /\ db'[u] = writes[s][u]
      BY <1>1, <2>2, WrittenRows DEF Commits, Visible
    <3>2. UnitShifted(s, u)
      BY <3>1 DEF HoldsTx
    <3>3. /\ db[u] # Absent
          /\ writes[s][u].reserved + Returned(s, u) = db[u].reserved + Drawn(s, u)
          /\ writes[s][u].quantity + Taken(s, u) = db[u].quantity
      BY <3>2 DEF UnitShifted
    <3>4. Returned(s, u) = 0 /\ Taken(s, u) = 0 /\ Drawn(s, u) = job[s].draw[u]
      BY <1>1 DEF Returned, Drawn, Taken
    <3> QED BY <2>1, <2>2, <3>1, <3>3, <3>4 DEF Reserved, OnHand, StockUnit
  <2>3. CASE writes[s][u] = Absent
    <3>1. u \notin Written(s) /\ db'[u] = db[u] /\ (db[u] # Absent => db[u] \in StockUnit)
      BY <1>1, <2>3, WrittenRows DEF Commits, Visible
    <3>2. u \notin {v \in Units : job[s].draw[v] > 0}
      BY <1>1, <1>2, <3>1 DEF Settled, Planned
    <3> QED BY <2>1, <3>1, <3>2 DEF Reserved, OnHand, StockUnit
  <2> QED BY <2>2, <2>3
<1> QED BY <1>2, <1>3, <1>4, <1>5, <1>6

(* Any other commit leaves the reservations, and takes no stock: it may    *)
(* reserve what nobody holds, or bring a unit.                             *)
LEMMA CommitAside ==
    ASSUME IInv, NEW s \in Sessions, HoldsTx(s), Commits(s), ~Returning(s), pc[s] # "reply"
    PROVE  /\ \A x \in Resvs : db'[x] = db[x]
           /\ \A u \in Units : /\ Reserved(db, u)' >= Reserved(db, u)
                               /\ pc[s] # "draw" => Reserved(db, u)' = Reserved(db, u)
                               /\ db[u] # Absent \/ writes[s][u] = Absent => OnHand(u)' = OnHand(u)
                               /\ db[u] = Absent /\ writes[s][u] # Absent => OnHand(u) = 0 /\ OnHand(u)' > 0
<1>1. TypeOK /\ job[s] \in Job
  BY DEF IInv, TypeOK
<1>2. ASSUME NEW x \in Resvs PROVE db'[x] = db[x]
  <2>1. x \notin Written(s)
    BY DEF HoldsTx, ResvShifted, Returning
  <2> QED BY <1>1, <2>1, WrittenRows DEF Commits, Visible
<1>3. ASSUME NEW u \in Units
      PROVE  /\ Reserved(db, u)' >= Reserved(db, u)
             /\ pc[s] # "draw" => Reserved(db, u)' = Reserved(db, u)
             /\ db[u] # Absent \/ writes[s][u] = Absent => OnHand(u)' = OnHand(u)
             /\ db[u] = Absent /\ writes[s][u] # Absent => OnHand(u) = 0 /\ OnHand(u)' > 0
  <2>1. CASE writes[s][u] = Absent
    <3>1. db'[u] = db[u] /\ (db[u] # Absent => db[u] \in StockUnit)
      BY <1>1, <2>1, WrittenRows DEF Commits, Visible
    <3> QED BY <2>1, <3>1 DEF Reserved, OnHand, StockUnit
  <2>2. CASE writes[s][u] # Absent
    <3>1. u \in Written(s) /\ writes[s][u] \in StockUnit /\ (db[u] # Absent => db[u] \in StockUnit)
          /\ db'[u] = writes[s][u]
      BY <1>1, <2>2, WrittenRows DEF Commits, Visible
    <3>2. UnitShifted(s, u)
      BY <3>1 DEF HoldsTx
    <3>3. CASE db[u] = Absent
      BY <2>2, <3>1, <3>2, <3>3 DEF UnitShifted, Reserved, OnHand, StockUnit
    <3>4. CASE db[u] # Absent
      <4>1. Returned(s, u) = 0 /\ Taken(s, u) = 0 /\ Drawn(s, u) \in Nat /\ (pc[s] # "draw" => Drawn(s, u) = 0)
        BY <1>1 DEF Returned, Drawn, Taken, Reserving, Job
      <4>2. /\ writes[s][u].reserved + Returned(s, u) = db[u].reserved + Drawn(s, u)
            /\ writes[s][u].quantity + Taken(s, u) = db[u].quantity
        BY <3>2, <3>4 DEF UnitShifted
      <4> QED BY <2>2, <3>1, <3>4, <4>1, <4>2 DEF Reserved, OnHand, StockUnit
    <3> QED BY <3>3, <3>4
  <2> QED BY <2>1, <2>2
<1> QED BY <1>2, <1>3

(* A transaction that ends while it resolves has written nothing to the    *)
(* table.                                                                  *)
Whole(s) == db' = db \/ (Commits(s) /\ pc[s] \notin Resolves)

(* What a commit does to what is held: one hold less, one more, or none.   *)
LEMMA HeldAfter ==
    ASSUME IInv, TypeOK', NEW s \in Sessions, HoldsTx(s), Commits(s), pc[s] \notin Resolves, NEW u \in Units
    PROVE  /\ HeldIn(db, u) \in Nat /\ HeldIn(db, u)' \in Nat
           /\ Reserved(db, u) \in Nat /\ Reserved(db, u)' \in Nat
           /\ \/ \E n \in Nat : /\ HeldIn(db, u)' + n = HeldIn(db, u)
                                /\ Reserved(db, u)' + n = Reserved(db, u)
              \/ \E n \in Nat : /\ HeldIn(db, u)' = HeldIn(db, u) + n
                                /\ Reserved(db, u)' = Reserved(db, u) + n
              \/ /\ HeldIn(db, u)' = HeldIn(db, u) /\ Reserved(db, u)' >= Reserved(db, u)
                 /\ pc[s] # "draw" => Reserved(db, u)' = Reserved(db, u)
<1> PICK t : t = db'
  OBVIOUS
<1>1. db \in Tables /\ t \in Tables
  BY DEF IInv, TypeOK
<1>2. HeldIn(db, u)' = HeldIn(t, u)
  BY DEF HeldIn, Holders
<1>3. Reserved(db, u)' = Reserved(t, u)
  BY DEF Reserved
<1>4. HeldIn(db, u) \in Nat /\ HeldIn(t, u) \in Nat
  BY <1>1, HeldNat
<1>5. Reserved(db, u) \in Nat /\ Reserved(t, u) \in Nat
  BY <1>1, RowKinds DEF Reserved, StockUnit
<1>6. CASE Returning(s)
  <2> PICK r : r = job[s].res
    OBVIOUS
  <2>1. pc[s] = "commit" /\ job[s].act # "ACTIVE"
    BY <1>6 DEF Returning
  <2>2. /\ r \in Resvs /\ db[r] \in Reservation /\ IsActive(db[r])
        /\ t[r].status = job[s].act /\ t[r].allocs = db[r].allocs
        /\ \A x \in Resvs \ {r} : t[x] = db[x]
        /\ Reserved(t, u) + db[r].allocs[u] = Reserved(db, u)
    BY <1>3, <2>1, CommitResolves
  <2>3. r \in Holders(db) /\ Holders(t) = Holders(db) \ {r}
    BY <2>1, <2>2, NotAbsent DEF Holders, IsActive
  <2>4. HeldIn(db, u) = HeldIn(t, u) + db[r].allocs[u]
    BY <1>1, <2>2, <2>3, HeldMore DEF Holders
  <2>5. db[r].allocs[u] \in Nat
    BY <2>2 DEF Reservation
  <2> QED BY <1>2, <1>3, <1>4, <1>5, <2>2, <2>4, <2>5
<1>7. CASE pc[s] = "reply"
  <2> PICK r : r = job[s].res
    OBVIOUS
  <2>1. /\ r \in Resvs /\ db[r] = Absent
        /\ t[r] \in Reservation /\ IsActive(t[r]) /\ t[r].allocs = job[s].draw
        /\ \A x \in Resvs \ {r} : t[x] = db[x]
        /\ Reserved(t, u) = Reserved(db, u) + job[s].draw[u]
    BY <1>3, <1>7, CommitCreates
  <2>2. r \in Holders(t) /\ Holders(db) = Holders(t) \ {r}
    BY <2>1, NotAbsent DEF Holders
  <2>3. HeldIn(t, u) = HeldIn(db, u) + t[r].allocs[u]
    BY <1>1, <2>1, <2>2, HeldMore DEF Holders
  <2>4. job[s].draw[u] \in Nat
    BY DEF IInv, TypeOK, Job
  <2> QED BY <1>2, <1>3, <1>4, <1>5, <2>1, <2>3, <2>4
<1>8. CASE ~Returning(s) /\ pc[s] # "reply"
  <2>1. /\ \A x \in Resvs : t[x] = db[x]
        /\ Reserved(t, u) >= Reserved(db, u)
        /\ pc[s] # "draw" => Reserved(t, u) = Reserved(db, u)
    BY <1>3, <1>8, CommitAside
  <2>2. Holders(t) = Holders(db) /\ \A x \in Holders(db) : t[x].allocs[u] = db[x].allocs[u]
    BY <2>1 DEF Holders
  <2>3. HeldIn(t, u) = HeldIn(db, u)
    BY <2>2, HeldSame
  <2> QED BY <1>2, <1>3, <1>4, <1>5, <2>1, <2>3
<1> QED BY <1>6, <1>7, <1>8

(* What is held stays reserved.                                            *)
LEMMA BackedStep ==
    ASSUME IInv, TypeOK', Backed, NEW s \in Sessions, HoldsTx(s), Whole(s)
    PROVE  Backed'
<1>1. CASE db' = db
  BY <1>1 DEF Backed, HeldIn, Holders, Reserved
<1>2. CASE Commits(s) /\ pc[s] \notin Resolves
  <2>1. ASSUME NEW u \in Units PROVE (HeldIn(db, u) <= Reserved(db, u))'
    <3>1. HeldIn(db, u) <= Reserved(db, u)
      BY DEF Backed
    <3>2. PICK h, k, g, l : h = HeldIn(db, u) /\ k = Reserved(db, u) /\ g = HeldIn(db, u)' /\ l = Reserved(db, u)'
      OBVIOUS
    <3>3. /\ h \in Nat /\ k \in Nat /\ g \in Nat /\ l \in Nat
          /\ \/ \E n \in Nat : g + n = h /\ l + n = k
             \/ \E n \in Nat : g = h + n /\ l = k + n
             \/ g = h /\ l >= k
      BY <1>2, <3>2, HeldAfter
    <3>4. h <= k => g <= l
      BY <3>3
    <3> QED BY <3>1, <3>2, <3>4
  <2> QED BY <2>1 DEF Backed
<1> QED BY <1>1, <1>2 DEF Whole

(* Where nothing is being reserved, what is not held stays free.           *)
LEMMA ExactStep ==
    ASSUME IInv, TypeOK', Exact, NEW s \in Sessions, HoldsTx(s), Whole(s), pc[s] # "draw"
    PROVE  Exact'
<1>1. CASE db' = db
  BY <1>1 DEF Exact, HeldIn, Holders, Reserved
<1>2. CASE Commits(s) /\ pc[s] \notin Resolves
  <2>1. ASSUME NEW u \in Units PROVE (HeldIn(db, u) = Reserved(db, u))'
    <3>1. HeldIn(db, u) = Reserved(db, u)
      BY DEF Exact
    <3>2. PICK h, k, g, l : h = HeldIn(db, u) /\ k = Reserved(db, u) /\ g = HeldIn(db, u)' /\ l = Reserved(db, u)'
      OBVIOUS
    <3>3. /\ h \in Nat /\ k \in Nat /\ g \in Nat /\ l \in Nat
          /\ \/ \E n \in Nat : g + n = h /\ l + n = k
             \/ \E n \in Nat : g = h + n /\ l = k + n
             \/ g = h /\ l = k
      BY <1>2, <3>2, HeldAfter
    <3>4. h = k => g = l
      BY <3>3
    <3> QED BY <3>1, <3>2, <3>4
  <2> QED BY <2>1 DEF Exact
<1> QED BY <1>1, <1>2 DEF Whole

-----------------------------------------------------------------------------
(* Where a request stands after a statement.                               *)

(* Nothing adds up to nothing.                                             *)
LEMMA AmountZero ==
    ASSUME NEW S, NEW f, \A x \in S : f[x] = 0
    PROVE  Amount(S, f) = 0
<1>1. \A x \in S : {x} \X (1 .. f[x]) = {}
  <2>1. \A n \in Int : n \notin 1 .. 0
    OBVIOUS
  <2>2. 1 .. 0 = {}
    BY <2>1
  <2> QED BY <2>2
<1>2. Pieces(S, f) = {}
  BY <1>1 DEF Pieces
<1> QED BY <1>2, FS_EmptySet DEF Amount

(* A draw of something draws from some unit: the first one that is usable. *)
LEMMA GreedyDraws ==
    ASSUME NEW usable \in [Units -> Nat], NEW order \in [Units -> Nat], NEW qty \in Nat, qty > 0,
           qty <= Amount(Units, usable)
    PROVE  \E u \in Units : Greedy(usable, order, qty)[u] > 0
<1> DEFINE T == {u \in Units : usable[u] > 0}
           Before(u) == Amount({v \in Units : order[v] < order[u]}, usable)
           Left(u)   == IF Before(u) < qty THEN qty - Before(u) ELSE 0
<1>1. T # {}
  <2>1. SUFFICES ASSUME T = {} PROVE FALSE
    OBVIOUS
  <2>2. \A u \in Units : usable[u] = 0
    BY <2>1
  <2>3. Amount(Units, usable) = 0
    BY <2>2, AmountZero
  <2> QED BY <2>3
<1>2. PICK u \in T : \A v \in T : order[u] <= order[v]
  <2> DEFINE R == {order[v] : v \in T}
  <2>1. R \in SUBSET Nat /\ R # {}
    BY <1>1
  <2>2. PICK n \in R : \A m \in R : n <= m
    BY <2>1, LeastNatural
  <2> QED BY <2>2
<1>3. \A v \in {w \in Units : order[w] < order[u]} : usable[v] = 0
  <2>1. ASSUME NEW v \in Units, order[v] < order[u] PROVE usable[v] = 0
    <3>1. order[v] \in Nat /\ order[u] \in Nat /\ usable[v] \in Nat
      OBVIOUS
    <3>2. v \notin T
      BY <1>2, <2>1, <3>1
    <3> QED BY <3>1, <3>2
  <2> QED BY <2>1
<1>4. Before(u) = 0
  BY <1>3, AmountZero
<1>5. Greedy(usable, order, qty)[u] = IF Left(u) < usable[u] THEN Left(u) ELSE usable[u]
  BY DEF Greedy
<1>6. u \in Units /\ usable[u] \in Nat /\ usable[u] > 0
  OBVIOUS
<1> HIDE DEF Before, T
<1>7. Left(u) = qty
  BY <1>4
<1> HIDE DEF Left
<1> QED BY <1>5, <1>6, <1>7

(* A request starts: it has read what it needs, or has nothing to do.      *)
Starts(s) ==
    /\ pc[s] \in {"idle", "due"}
    /\ UNCHANGED <<db, writes>>
    /\ \/ pc'[s] \in Finished \cup {"mark", "setbin"}
       \/ pc'[s] = "due" /\ (job'[s].op = "reserve" => job'[s].qty > 0)
       \/ pc'[s] = "place" /\ job'[s].qty > 0
       \/ pc'[s] = "load" /\ loaded' = loaded /\ \E r \in Resvs, act \in Status : Resolving(s, r, act)
       \/ /\ pc'[s] = "draw" /\ job'[s].todo = {u \in Units : job'[s].draw[u] > 0}
          /\ \E u \in Units : job'[s].draw[u] > 0

(* It stops: while it resolves, without a trace if it may roll back.       *)
Stops(s) ==
    /\ Ends(s)
    /\ pc'[s] = "due" => pc[s] = "commit" /\ job'[s] = job[s]
    /\ pc[s] \in Resolves /\ Scope(job[s].op) # "joined" => db' = db

(* An error, or a rollback, stops it.                                      *)
LEMMA ErrorStops ==
    ASSUME TypeOK, NEW s \in Sessions, Fail(s) \/ (Forget(s, "err") /\ Rollback(s))
    PROVE  Stops(s)
<1>1. Forget(s, "err") /\ (Commit(s) \/ Rollback(s)) /\ (Scope(job[s].op) # "joined" => Rollback(s))
  BY DEF Fail
<1>2. pc'[s] = "err" /\ (loaded' = loaded \/ loaded' = [loaded EXCEPT ![s] = NoRows])
  BY <1>1, Forgotten
<1> QED BY <1>1, <1>2 DEF Stops, Ends, Finished, Rollback

(* So does an answer that is not an error, outside a resolution.           *)
LEMMA AnswerStops ==
    ASSUME TypeOK, NEW s \in Sessions, NEW answer \in Finished, Forget(s, answer), Commit(s), pc[s] \notin Resolves
    PROVE  Stops(s)
<1>1. pc'[s] = answer /\ (loaded' = loaded \/ loaded' = [loaded EXCEPT ![s] = NoRows])
  BY Forgotten
<1> QED BY <1>1 DEF Stops, Ends, Finished

(* The lookups.                                                            *)
LEMMA LookupStarts ==
    ASSUME IInv, NEW s \in Sessions,
           \/ FindByID(s) \/ GetReservations(s) \/ ReserveStock(s) \/ StowStock(s) \/ RunCycleCount(s)
           \/ RegisterBin(s)
    PROVE  Starts(s)
<1>1. TypeOK
  BY DEF IInv
<1>2. pc[s] = "idle" /\ UNCHANGED <<db, writes>>
  BY DEF FindByID, GetReservations, ReserveStock, StowStock, RunCycleCount, RegisterBin, LookUpDemand, store
<1>3. ASSUME \E answer \in Finished : Forget(s, answer) PROVE Starts(s)
  BY <1>1, <1>2, <1>3, Forgotten DEF Starts
<1>4. CASE FindByID(s)
  <2>1. PICK op, r : /\ op \in DOMAIN Resolution
                     /\ \/ Forget(s, "err")
                        \/ GoTo(s, "due", [NoJob EXCEPT !.op = op, !.res = r, !.queue = {r}])
    BY <1>4 DEF FindByID
  <2>2. CASE Forget(s, "err")
    BY <1>3, <2>2 DEF Finished
  <2>3. CASE GoTo(s, "due", [NoJob EXCEPT !.op = op, !.res = r, !.queue = {r}])
    <3>1. pc'[s] = "due" /\ job'[s] = [NoJob EXCEPT !.op = op, !.res = r, !.queue = {r}]
      BY <1>1, <2>3, Moved
    <3>2. job'[s].op # "reserve"
      BY <2>1, <3>1, ResolutionOps DEF NoJob
    <3> QED BY <1>2, <3>1, <3>2 DEF Starts
  <2> QED BY <2>1, <2>2, <2>3
<1>5. CASE GetReservations(s)
  <2>1. PICK demand \in Demands : LookUpDemand(s, [NoJob EXCEPT !.op = "get", !.demand = demand])
    BY <1>5 DEF GetReservations
  <2>2. PICK found : GoTo(s, "due", [[NoJob EXCEPT !.op = "get", !.demand = demand] EXCEPT !.queue = found])
    BY <2>1 DEF LookUpDemand
  <2>3. PICK j : j = [[NoJob EXCEPT !.op = "get", !.demand = demand] EXCEPT !.queue = found]
    OBVIOUS
  <2>4. pc'[s] = "due" /\ job'[s] = j
    BY <1>1, <2>2, <2>3, Moved
  <2>5. j.op = "get"
    BY <2>3 DEF NoJob
  <2> QED BY <1>2, <2>4, <2>5 DEF Starts
<1>6. CASE ReserveStock(s)
  <2>1. PICK sku \in Skus, qty \in Amounts \ {0}, demand \in Demands :
           LookUpDemand(s, [NoJob EXCEPT !.op = "reserve", !.sku = sku, !.qty = qty, !.demand = demand])
    BY <1>6 DEF ReserveStock
  <2>2. PICK found : GoTo(s, "due", [[NoJob EXCEPT !.op = "reserve", !.sku = sku, !.qty = qty, !.demand = demand]
                                     EXCEPT !.queue = found])
    BY <2>1 DEF LookUpDemand
  <2>3. PICK j : j = [[NoJob EXCEPT !.op = "reserve", !.sku = sku, !.qty = qty, !.demand = demand] EXCEPT !.queue = found]
    OBVIOUS
  <2>4. pc'[s] = "due" /\ job'[s] = j
    BY <1>1, <2>2, <2>3, Moved
  <2>5. j.qty = qty
    BY <2>3 DEF NoJob
  <2>6. qty > 0
    BY ReservationAssumption
  <2> QED BY <1>2, <2>4, <2>5, <2>6 DEF Starts
<1>7. CASE StowStock(s)
  <2>1. PICK sku \in Skus, qty \in Portions \ {0}, b \in Bins :
           \/ Forget(s, "err")
           \/ GoTo(s, "place", [NoJob EXCEPT !.op = "stow", !.sku = sku, !.qty = qty, !.bin = b])
    BY <1>7, ZenonT(60) DEF StowStock
  <2>2. CASE Forget(s, "err")
    BY <1>3, <2>2 DEF Finished
  <2>3. CASE GoTo(s, "place", [NoJob EXCEPT !.op = "stow", !.sku = sku, !.qty = qty, !.bin = b])
    <3>1. pc'[s] = "place" /\ job'[s].qty = qty
      <4>1. PICK j : j = [NoJob EXCEPT !.op = "stow", !.sku = sku, !.qty = qty, !.bin = b]
        OBVIOUS
      <4>2. pc'[s] = "place" /\ job'[s] = j
        BY <1>1, <2>3, <4>1, Moved
      <4> QED BY <4>1, <4>2 DEF NoJob
    <3>2. qty > 0
      BY PlacementAssumption
    <3> QED BY <1>2, <3>1, <3>2 DEF Starts
  <2> QED BY <2>1, <2>2, <2>3
<1>8. CASE RunCycleCount(s)
  <2>1. \E j : GoTo(s, "mark", j)
    BY <1>8 DEF RunCycleCount
  <2> QED BY <1>1, <1>2, <2>1, Moved DEF Starts
<1>9. CASE RegisterBin(s)
  <2>1. Forget(s, "ok") \/ Forget(s, "err") \/ \E j : GoTo(s, "setbin", j)
    BY <1>9 DEF RegisterBin
  <2>2. CASE Forget(s, "ok") \/ Forget(s, "err")
    BY <1>3, <2>2 DEF Finished
  <2>3. CASE \E j : GoTo(s, "setbin", j)
    BY <1>1, <1>2, <2>3, Moved DEF Starts
  <2> QED BY <2>1, <2>2, <2>3
<1> QED BY <1>4, <1>5, <1>6, <1>7, <1>8, <1>9

(* The allocation: it draws something, and all of it is to be written.     *)
LEMMA DrawStarts ==
    ASSUME IInv, NEW s \in Sessions, FindBySKU(s), job[s].qty > 0
    PROVE  Starts(s) \/ Stops(s)
<1> DEFINE ofSku  == {u \in Units : Visible(s, u) # Absent /\ Visible(s, u).sku = job[s].sku}
           usable == [u \in Units |-> IF u \in ofSku THEN Usable(Visible(s, u)) ELSE 0]
<1>1. TypeOK /\ job[s] \in Job
  BY DEF IInv, TypeOK
<1>2. CASE Fail(s)
  BY <1>1, <1>2, ErrorStops
<1>3. CASE ~Fail(s)
  <2>1. ~(job[s].qty > Amount(Units, usable)) /\ UNCHANGED <<db, writes>> /\ pc[s] = "due"
    BY <1>3 DEF FindBySKU, store
  <2>2. PICK order, draw :
           /\ order \in Orders /\ draw = Greedy(usable, order, job[s].qty)
           /\ GoTo(s, "draw", [job[s] EXCEPT !.draw = draw, !.rank = order, !.todo = {u \in Units : draw[u] > 0}])
    BY <1>3 DEF FindBySKU
  <2>3. pc'[s] = "draw" /\ job'[s].draw = draw /\ job'[s].todo = {u \in Units : draw[u] > 0}
    <3> PICK todo : todo = {u \in Units : draw[u] > 0}
      OBVIOUS
    <3>1. pc'[s] = "draw" /\ job'[s] = [job[s] EXCEPT !.draw = draw, !.rank = order, !.todo = todo]
      BY <1>1, <2>2, Moved
    <3> QED BY <1>1, <3>1 DEF Job
  <2>4. order \in [Units -> Nat]
    <3>1. order \in [Units -> 1 .. Cardinality(Units)] /\ Cardinality(Units) \in Nat
      BY <2>2, RowsAssumption, FS_CardinalityType DEF Orders
    <3> QED BY <3>1
  <2>5. \A u \in ofSku : Usable(Visible(s, u)) \in Nat
    <3>1. \A u \in ofSku : Visible(s, u) \in StockUnit
      BY <1>1, RowKinds DEF TypeOK, Visible
    <3> QED BY <3>1 DEF StockUnit, Usable
  <2>6. usable \in [Units -> Nat]
    BY <2>5
  <2> HIDE DEF usable
  <2>7. job[s].qty \in Nat /\ Amount(Units, usable) \in Nat
    BY <1>1, <2>6, AmountNat, RowsAssumption DEF Job
  <2>8. \E u \in Units : draw[u] > 0
    BY <2>1, <2>2, <2>4, <2>6, <2>7, GreedyDraws
  <2> QED BY <2>1, <2>3, <2>8 DEF Starts
<1> QED BY <1>2, <1>3

(* What a request does once its reservations are loaded.                   *)
LEMMA DueStarts ==
    ASSUME IInv, NEW s \in Sessions, InStep(s),
           NotDue(s) \/ ExpireIfDue(s) \/ Decide(s) \/ AnswerFound(s) \/ FindBySKU(s)
    PROVE  Starts(s) \/ Stops(s)
<1>1. TypeOK /\ job[s] \in Job
  BY DEF IInv, TypeOK
<1>2. pc[s] = "due" /\ (job[s].op = "reserve" => job[s].qty > 0)
  BY DEF NotDue, ExpireIfDue, Decide, AnswerFound, FindBySKU, InStep
<1>3. CASE NotDue(s)
  <2>1. PICK r : GoTo(s, "due", [job[s] EXCEPT !.queue = @ \ {r}])
    BY <1>3 DEF NotDue
  <2>2. UNCHANGED <<db, writes>>
    BY <1>3 DEF NotDue, store
  <2> PICK queue : queue = job[s].queue \ {r}
    OBVIOUS
  <2>3. pc'[s] = "due" /\ job'[s] = [job[s] EXCEPT !.queue = queue]
    BY <1>1, <2>1, Moved
  <2>4. job'[s].op = job[s].op /\ job'[s].qty = job[s].qty
    BY <1>1, <2>3 DEF Job
  <2> QED BY <1>2, <2>2, <2>3, <2>4 DEF Starts
<1>4. ASSUME NEW r \in Resvs, NEW act \in Status, Resolving(s, r, act), UNCHANGED <<store, loaded>>
      PROVE  Starts(s)
  <2>1. \E j : GoTo(s, "load", j)
    BY <1>4 DEF Resolving
  <2>2. pc'[s] = "load"
    BY <1>1, <2>1, Moved
  <2> QED BY <1>2, <1>4, <2>2 DEF Starts, store
<1>5. CASE ExpireIfDue(s)
  <2>1. UNCHANGED <<store, loaded>> /\ \E r \in job[s].queue : Resolving(s, r, "EXPIRED")
    BY <1>5 DEF ExpireIfDue
  <2>2. job[s].queue \subseteq Resvs /\ "EXPIRED" \in Status
    BY <1>1 DEF Job, Status
  <2> QED BY <1>4, <2>1, <2>2
<1>6. CASE Decide(s)
  <2>1. job[s].op \in DOMAIN Resolution
    BY <1>6 DEF Decide
  <2>2. \/ Resolving(s, job[s].res, Resolution[job[s].op]) /\ UNCHANGED <<store, loaded>>
        \/ Fail(s)
    BY <1>6 DEF Decide
  <2>3. job[s].res \in Resvs
    BY <1>2, <2>1 DEF IInv, Control, LookedUp
  <2>4. Resolution[job[s].op] \in Status
    BY <2>1, ResolutionOps
  <2> QED BY <1>1, <1>4, <2>2, <2>3, <2>4, ErrorStops
<1>7. CASE AnswerFound(s)
  <2>1. Forget(s, "ok") /\ Commit(s) /\ "ok" \in Finished /\ pc[s] \notin Resolves
    BY <1>2, <1>7 DEF AnswerFound, Finished, Resolves
  <2> QED BY <1>1, <2>1, AnswerStops
<1>8. CASE FindBySKU(s)
  <2>1. job[s].op = "reserve"
    BY <1>8 DEF FindBySKU
  <2> QED BY <1>2, <1>8, <2>1, DrawStarts
<1> QED BY <1>3, <1>5, <1>6, <1>7, <1>8

(* A Save that ends the request came too late.                             *)
LEMMA SaveStops ==
    ASSUME IInv, NEW s \in Sessions, Ends(s),
           \/ SaveUnit(s) \/ SaveBin(s) \/ SaveReservation(s) \/ SaveTouched(s) \/ SaveOccupied(s)
           \/ SaveCapacity(s) \/ MarkUnit(s)
    PROVE  Stops(s)
<1>1. TypeOK
  BY DEF IInv
<1>2. CASE \E r, a : Conflict(s, r, a)
  BY <1>1, <1>2, ErrorStops DEF Conflict
<1>3. CASE \A r, a : ~Conflict(s, r, a)
  <2> DEFINE Onward == \E step \in {"bin", "load", "commit", "draw", "putunit", "mark"} : \E j : GoTo(s, step, j)
  <2>1. SaveUnit(s) => Onward
    BY <1>3 DEF SaveUnit
  <2>2. SaveBin(s) => Onward
    BY <1>3 DEF SaveBin
  <2>3. SaveReservation(s) => Onward
    BY <1>3 DEF SaveReservation
  <2>4. SaveTouched(s) => Onward
    BY <1>3 DEF SaveTouched
  <2>5. SaveOccupied(s) => Onward
    BY <1>3 DEF SaveOccupied
  <2>6. SaveCapacity(s) => Onward
    BY <1>3 DEF SaveCapacity
  <2>7. MarkUnit(s) => Onward
    BY <1>3 DEF MarkUnit
  <2>8. Onward
    BY <2>1, <2>2, <2>3, <2>4, <2>5, <2>6, <2>7
  <2>9. pc'[s] \in {"bin", "load", "commit", "draw", "putunit", "mark"}
    BY <1>1, <2>8, Moved
  <2> QED BY <2>9 DEF Ends, Finished
<1> QED BY <1>2, <1>3

(* A request goes on to its next statement with what it carries.           *)
Proceeds(s) ==
    /\ UNCHANGED <<db, writes>> /\ job'[s] = job[s]
    /\ \A r \in Resvs : loaded'[s][r] = loaded[s][r]
    /\ \/ pc[s] = "load"  /\ pc'[s] = "save"
       \/ pc[s] = "bin"   /\ pc'[s] = "savebin"
       \/ pc[s] = "place" /\ pc'[s] = "putbin"
       \/ pc[s] = "mark"  /\ pc'[s] = "commit"

(* The next unit of a resolution is read.                                  *)
LEMMA UnitProceeds ==
    ASSUME IInv, NEW s \in Sessions, LoadUnit(s)
    PROVE  Proceeds(s) \/ Stops(s)
<1>1. TypeOK /\ pc[s] = "load"
  BY DEF IInv, LoadUnit
<1>2. PICK u \in job[s].todo : \/ Load(s, {u}) /\ GoTo(s, "save", job[s]) /\ UNCHANGED <<db, writes>>
                               \/ Fail(s)
  BY DEF LoadUnit, store
<1>3. u \in Units /\ {u} \in SUBSET Rows
  BY <1>1 DEF TypeOK, Job, Rows
<1>4. CASE Load(s, {u}) /\ GoTo(s, "save", job[s]) /\ UNCHANGED <<db, writes>>
  <2>1. pc'[s] = "save" /\ job'[s] = job[s]
    BY <1>1, <1>4, Moved
  <2>2. ASSUME NEW r \in Resvs PROVE loaded'[s][r] = loaded[s][r]
    <3>1. r \in Rows /\ r # u
      BY <1>3, RowsAssumption DEF Rows
    <3> QED BY <1>1, <1>3, <1>4, <3>1, LoadReads
  <2> QED BY <1>1, <1>4, <2>1, <2>2 DEF Proceeds
<1> QED BY <1>1, <1>2, <1>4, ErrorStops

(* The bin of the picked unit is read.                                     *)
LEMMA BinProceeds ==
    ASSUME IInv, NEW s \in Sessions, LoadBin(s)
    PROVE  Proceeds(s) \/ Stops(s)
<1>1. TypeOK
  BY DEF IInv
<1>2. CASE Fail(s)
  BY <1>1, <1>2, ErrorStops
<1>3. CASE ~Fail(s)
  <2>1. UNCHANGED <<db, writes>> /\ \E j : GoTo(s, "savebin", j)
    BY <1>3 DEF LoadBin, store
  <2>2. pc'[s] = "savebin"
    BY <1>1, <2>1, Moved
  <2>3. ~Ends(s)
    BY <2>2 DEF Ends, Finished
  <2> QED BY <2>1, <2>3, LoadBinOrderly DEF Proceeds
<1> QED BY <1>2, <1>3

(* The occupants are checked, or the count is complete.                    *)
LEMMA PlacementProceeds ==
    ASSUME IInv, NEW s \in Sessions, RefusePlacement(s) \/ CheckSegregation(s) \/ CountDone(s)
    PROVE  Proceeds(s) \/ Stops(s)
<1>1. TypeOK
  BY DEF IInv
<1>2. CASE Fail(s)
  BY <1>1, <1>2, ErrorStops
<1>3. CASE ~Fail(s)
  <2>1. \/ pc[s] = "place" /\ GoTo(s, "putbin", job[s]) /\ UNCHANGED <<db, writes, loaded>>
        \/ pc[s] = "mark" /\ GoTo(s, "commit", job[s]) /\ UNCHANGED <<db, writes, loaded>>
    BY <1>3 DEF RefusePlacement, CheckSegregation, CountDone, store
  <2> QED BY <1>1, <2>1, Moved DEF Proceeds
<1> QED BY <1>2, <1>3

(* The unit of work of the use case is complete.                           *)
LEMMA ScopeStops ==
    ASSUME IInv, NEW s \in Sessions, CommitScope(s), Scope(job[s].op) = "own"
    PROVE  Stops(s)
<1>1. TypeOK /\ pc[s] = "commit" /\ Commit(s) /\ pc[s] \notin Resolves
  BY DEF IInv, CommitScope, Resolves
<1>2. \/ GoTo(s, "due", job[s]) /\ loaded' = loaded
      \/ \E answer \in Finished : Forget(s, answer)
  BY DEF CommitScope, Finished
<1>3. CASE GoTo(s, "due", job[s]) /\ loaded' = loaded
  BY <1>1, <1>3, Moved DEF Stops, Ends
<1> QED BY <1>1, <1>2, <1>3, AnswerStops

(* One more row is written.                                                *)
Writes(s) ==
    \/ \E u \in Units : PicksUnit(s, u) \/ ReleasesUnit(s, u) \/ DrawsUnit(s, u) \/ MarksUnit(s, u)
    \/ \E u \in Units, b \in Bins : ReleasesBin(s, u, b)
    \/ \E r \in Resvs : \E res : Resolved(s, r, res) \/ Created(s, r, res)
    \/ \E b \in Bins : OccupiesBin(s, b)
    \/ \E u \in Units : \E unit : StowsUnit(s, u, unit)
    \/ \E b \in Bins : \E bin : SetsBin(s, b, bin)

(* The statements of a request whose use case has a unit of work of its    *)
(* own around each commit of its own.                                      *)
LEMMA HoldsShape ==
    ASSUME IInv, NEW s \in Sessions, Step(s), InStep(s), pc[s] = "commit" => Scope(job[s].op) = "own"
    PROVE  Starts(s) \/ Proceeds(s) \/ Stops(s) \/ Writes(s)
<1>1. TypeOK
  BY DEF IInv
<1>2. CASE CommitScope(s)
  BY <1>2, ScopeStops DEF CommitScope
<1>3. CASE DeadlockVictim(s)
  BY <1>1, <1>3, ErrorStops DEF DeadlockVictim
<1>4. CASE \/ FindByID(s) \/ GetReservations(s) \/ ReserveStock(s) \/ StowStock(s) \/ RunCycleCount(s)
           \/ RegisterBin(s)
  BY <1>4, LookupStarts
<1>5. CASE NotDue(s) \/ ExpireIfDue(s) \/ Decide(s) \/ AnswerFound(s) \/ FindBySKU(s)
  BY <1>5, DueStarts
<1>6. CASE Reply(s)
  <2>1. Forget(s, "ok") /\ Commit(s) /\ "ok" \in Finished /\ pc[s] \notin Resolves
    BY <1>6 DEF Reply, Finished, Resolves
  <2> QED BY <1>1, <2>1, AnswerStops
<1>7. CASE LoadUnit(s) \/ LoadBin(s) \/ RefusePlacement(s) \/ CheckSegregation(s) \/ CountDone(s)
  BY <1>7, UnitProceeds, BinProceeds, PlacementProceeds
<1>8. CASE SaveUnit(s) \/ SaveBin(s) \/ SaveReservation(s)
  BY <1>8, SaveStops, SaveUnitShape, SaveBinShape, SaveReservationShape DEF Writes
<1>9. CASE SaveTouched(s) \/ CreateReservation(s) \/ SaveOccupied(s) \/ SaveStowed(s)
  BY <1>9, SaveStops, SaveTouchedShape, CreateReservationShape, SaveOccupiedShape, SaveStowedShape DEF Writes
<1>10. CASE SaveCapacity(s) \/ MarkUnit(s)
  BY <1>10, SaveStops, SaveCapacityShape, MarkUnitShape DEF Writes
<1> QED BY <1>2, <1>3, <1>4, <1>5, <1>6, <1>7, <1>8, <1>9, <1>10 DEF Step, ReservationStep, PlacementStep

-----------------------------------------------------------------------------
(* What a request has written, after each of its statements.               *)

(* A request that has written nothing, and resolves or reserves nothing    *)
(* yet, is in step.                                                        *)
LEMMA HoldsFresh ==
    ASSUME NEW s, Written(s)' = {},
           \/ pc'[s] \in Finished \cup {"mark", "setbin"}
           \/ pc'[s] = "due" /\ (job'[s].op = "reserve" => job'[s].qty > 0)
           \/ pc'[s] \in {"place", "putbin"} /\ job'[s].qty > 0
    PROVE  HoldsTx(s)'
<1>1. ~Returning(s)' /\ ~Reserving(s)' /\ pc'[s] \notin {"reply", "commit", "putunit"}
  BY DEF Returning, Reserving, Resolves, Finished
<1>2. InStep(s)'
  BY <1>1 DEF InStep, Finished
<1> QED BY <1>2 DEF HoldsTx

(* A request that stops leaves no transaction.                             *)
LEMMA HoldsStops ==
    ASSUME IInv, NEW s \in Sessions, InStep(s), Stops(s)
    PROVE  HoldsTx(s)'
<1>1. Written(s)' = {}
  BY EndsEffect DEF Stops, Written
<1>2. pc'[s] \in Finished \cup {"due"}
  BY DEF Stops, Ends
<1>3. pc'[s] = "due" => job'[s].op # "reserve"
  BY DEF Stops, InStep
<1> QED BY <1>1, <1>2, <1>3, HoldsFresh

(* A request that starts has written nothing, and deals with nothing yet.  *)
LEMMA HoldsStarts ==
    ASSUME IInv, NEW s \in Sessions, InStep(s), Starts(s)
    PROVE  HoldsTx(s)' /\ db' = db
<1>1. Written(s)' = {} /\ db' = db
  <2>1. Written(s) = {}
    BY DEF Starts, InStep
  <2> QED BY <2>1 DEF Starts, Written
<1>2. CASE \/ pc'[s] \in Finished \cup {"mark", "setbin"}
           \/ pc'[s] = "due" /\ (job'[s].op = "reserve" => job'[s].qty > 0)
           \/ pc'[s] = "place" /\ job'[s].qty > 0
  BY <1>1, <1>2, HoldsFresh
<1>3. ASSUME pc'[s] \in {"load", "draw"}, Planned(s)' = job'[s].todo,
             Reserving(s)' => \E u \in Units : job'[s].draw[u] > 0
      PROVE  HoldsTx(s)'
  <2>1. Picked(s)' = {}
    BY <1>3 DEF Picked
  <2>2. Settled(s)' = {}
    BY <1>3, <2>1 DEF Settled
  <2>3. InStep(s)'
    BY <1>1, <1>3, <2>2 DEF InStep, Finished, Returning
  <2> QED BY <1>1, <2>3 DEF HoldsTx
<1>4. CASE pc'[s] = "load" /\ loaded' = loaded /\ \E r \in Resvs, act \in Status : Resolving(s, r, act)
  <2>1. PICK r \in Resvs, act \in Status : Resolving(s, r, act)
    BY <1>4
  <2>2. job[s] \in Job /\ TypeOK
    BY DEF IInv, TypeOK
  <2> PICK queue, todo : queue = job[s].queue \ {r} /\ todo = Allocated(loaded[s][r])
    OBVIOUS
  <2>3. job'[s] = [job[s] EXCEPT !.act = act, !.res = r, !.queue = queue, !.todo = todo, !.rank = ById]
    BY <2>1, <2>2, Moved DEF Resolving
  <2>4. job'[s].res = r /\ job'[s].todo = Allocated(loaded[s][r])
    BY <2>2, <2>3 DEF Job
  <2>5. Planned(s)' = job'[s].todo /\ ~Reserving(s)'
    BY <1>4, <2>4 DEF Planned, Returning, Reserving, Resolves, Allocated
  <2> QED BY <1>1, <1>3, <1>4, <2>5
<1>5. CASE /\ pc'[s] = "draw" /\ job'[s].todo = {u \in Units : job'[s].draw[u] > 0}
           /\ \E u \in Units : job'[s].draw[u] > 0
  <2>1. Planned(s)' = job'[s].todo
    BY <1>5 DEF Planned, Returning, Resolves
  <2> QED BY <1>1, <1>3, <1>5, <2>1
<1> QED BY <1>1, <1>2, <1>4, <1>5 DEF Starts

(* The part of a request does not change with the rows it reads or writes. *)
LEMMA SamePart ==
    ASSUME NEW s, Returning(s)' <=> Returning(s), Reserving(s)' <=> Reserving(s),
           job'[s].res = job[s].res, job'[s].act = job[s].act, job'[s].draw = job[s].draw,
           loaded'[s][job[s].res].allocs = loaded[s][job[s].res].allocs
    PROVE  /\ Planned(s)' = Planned(s)
           /\ \A u : Returned(s, u)' = Returned(s, u) /\ Taken(s, u)' = Taken(s, u) /\ Drawn(s, u)' = Drawn(s, u)
<1>1. \A u : Share(s, u)' = Share(s, u)
  BY DEF Share
<1>2. Picking(s)' <=> Picking(s)
  BY DEF Picking
<1>3. Planned(s)' = Planned(s)
  BY DEF Planned, Allocated
<1> QED BY <1>1, <1>2, <1>3 DEF Returned, Taken, Drawn

(* Nor does a unit written before, until the request commits.              *)
LEMMA ShiftedKept ==
    ASSUME NEW s, NEW u, UnitShifted(s, u), pc[s] # "commit", db' = db, writes'[s][u] = writes[s][u],
           Returned(s, u)' = Returned(s, u), Taken(s, u)' = Taken(s, u), Drawn(s, u)' = Drawn(s, u)
    PROVE  UnitShifted(s, u)'
BY DEF UnitShifted

(* A request that goes on.                                                 *)
LEMMA HoldsProceeds ==
    ASSUME IInv, NEW s \in Sessions, HoldsTx(s), Proceeds(s)
    PROVE  HoldsTx(s)' /\ db' = db
<1>1. /\ db' = db /\ writes' = writes /\ job'[s] = job[s] /\ Written(s)' = Written(s)
      /\ \A r \in Resvs : loaded'[s][r] = loaded[s][r]
  BY DEF Proceeds, Written
<1>2. InStep(s) /\ Control(s)
  BY DEF HoldsTx, IInv
<1>3. CASE pc[s] = "place" /\ pc'[s] = "putbin"
  <2>1. Written(s)' = {} /\ job'[s].qty > 0
    BY <1>1, <1>2, <1>3 DEF InStep
  <2> QED BY <1>1, <1>3, <2>1, HoldsFresh
<1>4. CASE \/ pc[s] = "load" /\ pc'[s] = "save"
           \/ pc[s] = "bin" /\ pc'[s] = "savebin"
           \/ pc[s] = "mark" /\ pc'[s] = "commit"
  <2>1. /\ pc[s] \notin {"commit", "reply"} /\ (Returning(s)' <=> Returning(s)) /\ (Reserving(s)' <=> Reserving(s))
        /\ ~Reserving(s) /\ pc'[s] # "reply"
    BY <1>1, <1>2, <1>4 DEF Returning, Reserving, Resolves, Control
  <2>2. Picked(s)' = Picked(s)
    BY <1>1, <1>4 DEF Picked, IsNext
  <2>3. CASE Returning(s)
    <3>1. job[s].res \in Resvs
      BY <1>1, <1>2, <1>4, <2>1, <2>3 DEF Returning, Control, ResolvesActive
    <3>2. /\ Planned(s)' = Planned(s) /\ Settled(s)' = Settled(s)
          /\ \A u : Returned(s, u)' = Returned(s, u) /\ Taken(s, u)' = Taken(s, u) /\ Drawn(s, u)' = Drawn(s, u)
      BY <1>1, <2>1, <2>2, <3>1, SamePart DEF Settled
    <3>3. pc'[s] # "commit"
      BY <1>1, <1>2, <1>4, <2>1, <2>3 DEF Returning, Control, Resolves
    <3>4. InStep(s)'
      BY <1>1, <1>2, <1>4, <2>1, <2>3, <3>2, <3>3 DEF InStep, Finished
    <3>5. \A u \in Units \cap Written(s) : UnitShifted(s, u)'
      BY <1>1, <2>1, <3>2, ShiftedKept DEF HoldsTx
    <3>6. \A r \in Resvs : r \notin Written(s)
      BY <2>1 DEF HoldsTx, ResvShifted
    <3> QED BY <1>1, <3>4, <3>5, <3>6 DEF HoldsTx
  <2>4. CASE ~Returning(s)
    <3>1. pc[s] = "mark" /\ pc'[s] = "commit" /\ job[s].op = "count"
      BY <1>2, <1>4, <2>4 DEF Returning, Resolves, Control
    <3>2. \A u : /\ Returned(s, u)' = Returned(s, u) /\ Taken(s, u)' = Taken(s, u) /\ Drawn(s, u)' = Drawn(s, u)
      BY <2>1, <2>4 DEF Returned, Taken, Drawn
    <3>3. InStep(s)'
      BY <1>1, <2>1, <2>4, <3>1 DEF InStep, Finished
    <3>4. \A u \in Units \cap Written(s) : UnitShifted(s, u)'
      BY <1>1, <2>1, <3>2, ShiftedKept DEF HoldsTx
    <3>5. \A r \in Resvs : r \notin Written(s)
      BY <2>1 DEF HoldsTx, ResvShifted
    <3> QED BY <1>1, <3>3, <3>4, <3>5 DEF HoldsTx
  <2> QED BY <2>3, <2>4
<1> QED BY <1>3, <1>4 DEF Proceeds

(* A request that has a unit of work writes inside it.                     *)
LEMMA WritesInTx ==
    ASSUME IInv, NEW s \in Sessions, Scope(job[s].op) # "none", pc[s] \in ScopeSteps \cup {"draw"}
    PROVE  InTx(s)
<1>1. Scope(job[s].op) = "joined" \/ Scope(job[s].op) = "own"
  BY DEF Scope
<1>2. pc[s] = "draw" => job[s].op = "reserve"
  BY DEF IInv, Control
<1> QED BY <1>1, <1>2 DEF InTx, Scope

(* The row goes into the transaction, and nothing else does.               *)
LEMMA PutInTx ==
    ASSUME IInv, NEW s \in Sessions, InTx(s), NEW r, NEW a, Puts(s, r, a)
    PROVE  /\ r \in Rows /\ db' = db /\ Written(s)' = Written(s) \cup {r}
           /\ writes'[s][r] = Stored(s, r, a) /\ \A q \in Rows \ {r} : writes'[s][q] = writes[s][q]
           /\ Has(s, r) /\ r \notin Written(s) => db[r] = loaded[s][r]
<1>1. r \in Rows /\ db' = db
  BY DEF Puts, Save
<1>2. /\ writes'[s][r] = Stored(s, r, a) /\ Stored(s, r, a) # Absent
      /\ \A q \in Rows \ {r} : writes'[s][q] = writes[s][q]
      /\ Has(s, r) => Visible(s, r) = loaded[s][r]
  BY PutsEffect
<1>3. Written(s)' = Written(s) \cup {r}
  BY <1>1, <1>2 DEF Written
<1>4. r \notin Written(s) => Visible(s, r) = db[r]
  BY <1>1 DEF Visible, Written
<1> QED BY <1>1, <1>2, <1>3, <1>4

(* A unit is written by the part of the reservation in hand.               *)
LEMMA HoldsUnit ==
    ASSUME IInv, NEW s \in Sessions, HoldsTx(s), InTx(s), pc[s] \notin {"commit", "reply"},
           NEW u \in Units, NEW a \in StockUnit, Puts(s, u, a), Has(s, u), u \notin Written(s),
           \A v \in Units : /\ Returned(s, v)' = Returned(s, v) /\ Taken(s, v)' = Taken(s, v)
                            /\ Drawn(s, v)' = Drawn(s, v),
           a.reserved + Returned(s, u) = loaded[s][u].reserved + Drawn(s, u),
           a.quantity + Taken(s, u) = loaded[s][u].quantity,
           InStep(s)'
    PROVE  HoldsTx(s)' /\ db' = db
<1>1. /\ u \in Rows /\ db' = db /\ Written(s)' = Written(s) \cup {u} /\ db[u] = loaded[s][u]
      /\ writes'[s][u] = Stored(s, u, a) /\ \A q \in Rows \ {u} : writes'[s][q] = writes[s][q]
  BY PutInTx
<1>2. writes'[s][u].reserved = a.reserved /\ writes'[s][u].quantity = a.quantity
  BY <1>1, StoredFields DEF IInv
<1>3. UnitShifted(s, u)'
  <2>1. db'[u] # Absent /\ db'[u] = loaded[s][u]
    BY <1>1 DEF Has
  <2> QED BY <1>2, <2>1 DEF UnitShifted
<1>4. ASSUME NEW v \in Units \cap Written(s) PROVE UnitShifted(s, v)'
  <2>1. v # u /\ v \in Rows /\ UnitShifted(s, v)
    BY DEF HoldsTx, Written
  <2>2. writes'[s][v] = writes[s][v]
    BY <1>1, <2>1
  <2> QED BY <1>1, <2>1, <2>2, ShiftedKept
<1>5. \A r \in Resvs : r \notin Written(s)'
  <2>1. \A r \in Resvs : r \notin Written(s)
    BY DEF HoldsTx, ResvShifted
  <2> QED BY <1>1, <2>1, RowsAssumption
<1> QED BY <1>1, <1>3, <1>4, <1>5 DEF HoldsTx

(* A unit is given back, or picked.                                        *)
LEMMA HoldsReturn ==
    ASSUME IInv, Asked, NEW s \in Sessions, Scope(job[s].op) # "none", HoldsTx(s), NEW u \in Units,
           PicksUnit(s, u) \/ ReleasesUnit(s, u)
    PROVE  HoldsTx(s)' /\ db' = db
<1> PICK n : n = Share(s, u)
  OBVIOUS
<1> PICK P, T : P = Planned(s) /\ T = job[s].todo
  OBVIOUS
<1> DEFINE a == IF Picking(s) THEN Pick(loaded[s][u], n) ELSE ReleaseReservation(loaded[s][u], n)
<1>1. /\ pc[s] = "save" /\ IsNext(s, u) /\ loaded[s][u] \in StockUnit /\ n \in Nat
      /\ IF Picking(s) THEN CanPick(loaded[s][u], n) ELSE CanRelease(loaded[s][u], n)
      /\ Puts(s, u, a) /\ loaded' = loaded
      /\ IF Picking(s) THEN pc'[s] = "bin" /\ job'[s] = job[s] ELSE pc'[s] = "load" /\ job'[s] = Without(s, u)
  BY DEF PicksUnit, ReleasesUnit
<1>2. a \in StockUnit /\ Has(s, u)
  BY <1>1, UnitRows, NotAbsent DEF Has
<1>3. /\ a.reserved + n = loaded[s][u].reserved
      /\ a.quantity + (IF Picking(s) THEN n ELSE 0) = loaded[s][u].quantity
  BY <1>1 DEF StockUnit, Pick, ReleaseReservation, CanPick, CanRelease
<1> HIDE DEF a
<1>4. /\ InTx(s) /\ Returning(s) /\ ~Reserving(s) /\ Returning(s)' /\ ~Reserving(s)'
      /\ pc[s] \in Resolves /\ job[s] \in Job
  BY <1>1, WritesInTx DEF ScopeSteps, Returning, Reserving, Resolves, IInv, TypeOK
<1>5. /\ job'[s].res = job[s].res /\ job'[s].act = job[s].act /\ job'[s].draw = job[s].draw
      /\ job'[s].rank = job[s].rank /\ job'[s].todo = IF Picking(s) THEN T ELSE T \ {u}
  BY <1>1, <1>4 DEF Without, Job
<1>6. /\ Planned(s)' = P
      /\ \A v : Returned(s, v)' = Returned(s, v) /\ Taken(s, v)' = Taken(s, v) /\ Drawn(s, v)' = Drawn(s, v)
  BY <1>1, <1>4, <1>5, SamePart
<1>7. Returned(s, u) = n /\ Drawn(s, u) = 0 /\ Taken(s, u) = IF Picking(s) THEN n ELSE 0
  BY <1>4 DEF Returned, Drawn, Taken
<1>8. InStep(s) /\ u \in T /\ T \subseteq P /\ Units \cap Written(s) = P \ T /\ u \notin Written(s)
  <2>1. Picked(s) = {}
    BY <1>1 DEF Picked
  <2>2. InStep(s) /\ u \in T /\ T \subseteq P /\ Units \cap Written(s) = Settled(s)
    BY <1>1, <1>4 DEF HoldsTx, InStep, IsNext
  <2> QED BY <2>1, <2>2 DEF Settled
<1>9. Settled(s)' = P \ (T \ {u})
  <2>1. CASE Picking(s)
    <3>1. PicksUnit(s, u)
      BY <2>1 DEF ReleasesUnit
    <3>2. Picked(s)' = {u}
      BY <3>1, CarriesPick
    <3> QED BY <1>5, <1>6, <2>1, <3>2 DEF Settled
  <2>2. CASE ~Picking(s)
    <3>1. Picked(s)' = {}
      BY <1>1, <2>2 DEF Picked
    <3> QED BY <1>5, <1>6, <2>2, <3>1 DEF Settled
  <2> QED BY <2>1, <2>2
<1>10. Written(s)' = Written(s) \cup {u}
  BY <1>1, <1>4, PutInTx
<1>11. Units \cap Written(s)' = Settled(s)' /\ job'[s].todo \subseteq Planned(s)'
  BY <1>5, <1>6, <1>8, <1>9, <1>10
<1>12. pc'[s] \in {"bin", "load"}
  BY <1>1
<1>13. InStep(s)'
  BY <1>4, <1>11, <1>12 DEF InStep, Finished
<1>14. pc[s] \notin {"commit", "reply"}
  BY <1>1
<1>15. /\ a.reserved + Returned(s, u) = loaded[s][u].reserved + Drawn(s, u)
       /\ a.quantity + Taken(s, u) = loaded[s][u].quantity
  <2>1. loaded[s][u].reserved \in Nat
    BY <1>1 DEF StockUnit
  <2> QED BY <1>3, <1>7, <2>1
<1> QED BY <1>1, <1>2, <1>4, <1>6, <1>8, <1>13, <1>14, <1>15, HoldsUnit

(* A unit is drawn from.                                                   *)
LEMMA HoldsDraw ==
    ASSUME IInv, NEW s \in Sessions, Scope(job[s].op) # "none", HoldsTx(s), NEW u \in Units, DrawsUnit(s, u)
    PROVE  HoldsTx(s)' /\ db' = db
<1> PICK n, a : n = job[s].draw[u] /\ a = Reserve(loaded[s][u], n)
  OBVIOUS
<1> PICK P, T : P = Planned(s) /\ T = job[s].todo
  OBVIOUS
<1>1. /\ pc[s] = "draw" /\ pc'[s] = "draw" /\ u \in T /\ loaded[s][u] \in StockUnit /\ n \in Nat
      /\ Puts(s, u, a) /\ loaded' = loaded /\ job'[s] = Without(s, u)
  BY DEF DrawsUnit
<1>2. a \in StockUnit /\ Has(s, u)
  BY <1>1, UnitRows, NotAbsent DEF Has
<1>3. /\ a.reserved = loaded[s][u].reserved + n /\ a.quantity = loaded[s][u].quantity
      /\ loaded[s][u].reserved \in Nat /\ loaded[s][u].quantity \in Nat
  BY <1>1 DEF StockUnit, Reserve
<1>4. InTx(s) /\ ~Returning(s) /\ Reserving(s) /\ ~Returning(s)' /\ Reserving(s)' /\ job[s] \in Job
  BY <1>1, WritesInTx DEF Returning, Reserving, Resolves, IInv, TypeOK
<1>5. /\ job'[s].res = job[s].res /\ job'[s].act = job[s].act /\ job'[s].draw = job[s].draw
      /\ job'[s].todo = T \ {u}
  BY <1>1, <1>4 DEF Without, Job
<1>6. /\ Planned(s)' = P
      /\ \A v : Returned(s, v)' = Returned(s, v) /\ Taken(s, v)' = Taken(s, v) /\ Drawn(s, v)' = Drawn(s, v)
  BY <1>1, <1>4, <1>5, SamePart
<1>7. Returned(s, u) = 0 /\ Drawn(s, u) = n /\ Taken(s, u) = 0
  BY <1>4 DEF Returned, Drawn, Taken
<1>8. Picked(s) = {} /\ Picked(s)' = {}
  BY <1>1 DEF Picked
<1>9. InStep(s) /\ T \subseteq P /\ Units \cap Written(s) = P \ T /\ u \notin Written(s)
  <2>1. InStep(s) /\ T \subseteq P /\ Units \cap Written(s) = Settled(s)
    BY <1>4 DEF HoldsTx, InStep
  <2> QED BY <1>1, <1>8, <2>1 DEF Settled
<1>10. Written(s)' = Written(s) \cup {u} /\ Settled(s)' = P \ (T \ {u})
  BY <1>1, <1>4, <1>5, <1>6, <1>8, PutInTx DEF Settled
<1>11. Units \cap Written(s)' = Settled(s)' /\ job'[s].todo \subseteq Planned(s)'
  BY <1>5, <1>6, <1>9, <1>1, <1>10
<1>12. \E v \in Units : job'[s].draw[v] > 0
  BY <1>4, <1>5, <1>9 DEF InStep
<1>13. InStep(s)'
  BY <1>1, <1>4, <1>11, <1>12 DEF InStep, Finished
<1>14. /\ a.reserved + Returned(s, u) = loaded[s][u].reserved + Drawn(s, u)
       /\ a.quantity + Taken(s, u) = loaded[s][u].quantity
  BY <1>1, <1>3, <1>7
<1>15. pc[s] \notin {"commit", "reply"}
  BY <1>1
<1> QED BY <1>1, <1>2, <1>4, <1>6, <1>9, <1>13, <1>14, <1>15, HoldsUnit

(* A unit is marked: what is reserved of it and on hand stays.             *)
LEMMA HoldsMark ==
    ASSUME IInv, NEW s \in Sessions, Scope(job[s].op) # "none", HoldsTx(s), NEW u \in Units, MarksUnit(s, u)
    PROVE  HoldsTx(s)' /\ db' = db
<1> PICK a : a = MarkUnlocated(loaded[s][u])
  OBVIOUS
<1>1. /\ pc[s] = "mark" /\ pc'[s] = "mark" /\ u \in job[s].todo /\ loaded[s][u] \in StockUnit
      /\ Puts(s, u, a) /\ loaded' = loaded /\ job'[s] = Without(s, u)
  BY DEF MarksUnit
<1>2. a \in StockUnit /\ Has(s, u)
  BY <1>1, UnitRows, NotAbsent DEF Has
<1>3. /\ a.reserved = loaded[s][u].reserved /\ a.quantity = loaded[s][u].quantity
      /\ loaded[s][u].reserved \in Nat /\ loaded[s][u].quantity \in Nat
  BY <1>1 DEF StockUnit, MarkUnlocated
<1>4. InTx(s) /\ ~Returning(s) /\ ~Reserving(s) /\ ~Returning(s)' /\ ~Reserving(s)' /\ job[s] \in Job
  BY <1>1, WritesInTx DEF Returning, Reserving, Resolves, IInv, TypeOK, ScopeSteps
<1>5. job'[s].todo = job[s].todo \ {u}
  BY <1>1, <1>4 DEF Without, Job
<1>6. \A v : /\ Returned(s, v) = 0 /\ Taken(s, v) = 0 /\ Drawn(s, v) = 0
             /\ Returned(s, v)' = 0 /\ Taken(s, v)' = 0 /\ Drawn(s, v)' = 0
  BY <1>4 DEF Returned, Taken, Drawn
<1>7. InStep(s) /\ job[s].todo \cap Written(s) = {} /\ u \notin Written(s)
  BY <1>1 DEF HoldsTx, InStep
<1>8. job'[s].todo \cap Written(s)' = {}
  BY <1>1, <1>4, <1>5, <1>7, PutInTx
<1>9. InStep(s)'
  BY <1>1, <1>4, <1>8 DEF InStep, Finished
<1>10. pc[s] \notin {"commit", "reply"}
  BY <1>1
<1>11. /\ a.reserved + Returned(s, u) = loaded[s][u].reserved + Drawn(s, u)
       /\ a.quantity + Taken(s, u) = loaded[s][u].quantity
  BY <1>3, <1>6
<1> QED BY <1>1, <1>2, <1>4, <1>6, <1>7, <1>9, <1>10, <1>11, HoldsUnit

(* A row that is no unit leaves the units as they were written.            *)
LEMMA UnitsAside ==
    ASSUME IInv, NEW s \in Sessions, HoldsTx(s), InTx(s), pc[s] # "commit",
           NEW r \in Bins \cup Resvs, NEW a, Puts(s, r, a),
           \A v \in Units : /\ Returned(s, v)' = Returned(s, v) /\ Taken(s, v)' = Taken(s, v)
                            /\ Drawn(s, v)' = Drawn(s, v)
    PROVE  /\ Written(s)' = Written(s) \cup {r} /\ Units \cap Written(s)' = Units \cap Written(s)
           /\ db' = db /\ \A v \in Units \cap Written(s)' : UnitShifted(s, v)'
<1>1. /\ r \in Rows /\ db' = db /\ Written(s)' = Written(s) \cup {r}
      /\ \A q \in Rows \ {r} : writes'[s][q] = writes[s][q]
  BY PutInTx
<1>2. r \notin Units /\ Units \cap Written(s)' = Units \cap Written(s)
  BY <1>1, RowsAssumption
<1>3. ASSUME NEW v \in Units \cap Written(s) PROVE UnitShifted(s, v)'
  <2>1. v # r /\ v \in Rows /\ UnitShifted(s, v)
    BY <1>2 DEF HoldsTx, Written
  <2>2. writes'[s][v] = writes[s][v]
    BY <1>1, <2>1
  <2> QED BY <1>1, <2>1, <2>2, ShiftedKept
<1> QED BY <1>1, <1>2, <1>3

(* The bin of a picked unit is written, and the unit is dealt with.        *)
LEMMA HoldsBin ==
    ASSUME IInv, Asked, NEW s \in Sessions, Scope(job[s].op) # "none", HoldsTx(s),
           NEW u \in Units, NEW b \in Bins, ReleasesBin(s, u, b)
    PROVE  HoldsTx(s)' /\ db' = db
<1> PICK P, T, a : P = Planned(s) /\ T = job[s].todo /\ a = ReleaseBin(loaded[s][b], Share(s, u))
  OBVIOUS
<1>1. /\ pc[s] = "savebin" /\ pc'[s] = "load" /\ IsNext(s, u) /\ Puts(s, b, a)
      /\ loaded' = loaded /\ job'[s] = Without(s, u)
  BY DEF ReleasesBin
<1>2. /\ InTx(s) /\ Returning(s) /\ ~Reserving(s) /\ Returning(s)' /\ ~Reserving(s)'
      /\ pc[s] \in Resolves /\ job[s] \in Job
  BY <1>1, WritesInTx DEF ScopeSteps, Returning, Reserving, Resolves, IInv, TypeOK
<1>3. /\ job'[s].res = job[s].res /\ job'[s].act = job[s].act /\ job'[s].draw = job[s].draw
      /\ job'[s].todo = T \ {u}
  BY <1>1, <1>2 DEF Without, Job
<1>4. /\ Planned(s)' = P
      /\ \A v : Returned(s, v)' = Returned(s, v) /\ Taken(s, v)' = Taken(s, v) /\ Drawn(s, v)' = Drawn(s, v)
  BY <1>1, <1>2, <1>3, SamePart
<1>5. Picked(s) = {u} /\ Picked(s)' = {} /\ u \in T
  <2>1. u \in T /\ \A v, w : IsNext(s, v) /\ IsNext(s, w) => v = w
    BY <1>1, <1>2, ResolutionFacts DEF IsNext
  <2> QED BY <1>1, <2>1 DEF Picked
<1>6. InStep(s) /\ T \subseteq P /\ Units \cap Written(s) = P \ (T \ {u})
  <2>1. InStep(s) /\ T \subseteq P /\ Units \cap Written(s) = Settled(s)
    BY <1>2 DEF HoldsTx, InStep
  <2> QED BY <1>5, <2>1 DEF Settled
<1>7. b \in Bins \cup Resvs /\ pc[s] # "commit"
  BY <1>1
<1>8. /\ Written(s)' = Written(s) \cup {b} /\ Units \cap Written(s)' = Units \cap Written(s)
      /\ db' = db /\ \A v \in Units \cap Written(s)' : UnitShifted(s, v)'
  BY <1>1, <1>2, <1>4, <1>7, UnitsAside
<1>9. Units \cap Written(s)' = Settled(s)' /\ job'[s].todo \subseteq Planned(s)'
  BY <1>3, <1>4, <1>5, <1>6, <1>8 DEF Settled
<1>10. InStep(s)'
  BY <1>1, <1>2, <1>9 DEF InStep, Finished
<1>11. \A r \in Resvs : r \notin Written(s)'
  <2>1. \A r \in Resvs : r \notin Written(s)
    BY <1>1 DEF HoldsTx, ResvShifted
  <2> QED BY <1>8, <2>1, RowsAssumption
<1> QED BY <1>8, <1>10, <1>11 DEF HoldsTx

(* The reservation is resolved, when all of its units are dealt with.      *)
LEMMA HoldsResolved ==
    ASSUME IInv, Asked, NEW s \in Sessions, Scope(job[s].op) # "none", job[s].op # "reserve", HoldsTx(s),
           NEW r \in Resvs, NEW res, Resolved(s, r, res)
    PROVE  HoldsTx(s)' /\ db' = db
<1> PICK P, act : P = Planned(s) /\ act = job[s].act
  OBVIOUS
<1>1. /\ pc[s] = "load" /\ pc'[s] = "commit" /\ job[s].todo = {} /\ r = job[s].res
      /\ loaded[s][r] \in Reservation /\ res = ResolveAs(loaded[s][r], act)
      /\ Puts(s, r, res) /\ job'[s] = job[s] /\ loaded' = [loaded EXCEPT ![s][r] = res]
  BY DEF Resolved
<1>2. act # "ACTIVE" /\ InTx(s) /\ TypeOK /\ act \in Status
  BY <1>1, WritesInTx DEF Asked, Resolves, ScopeSteps, IInv, TypeOK, Job
<1>3. Returning(s) /\ ~Reserving(s) /\ Returning(s)' /\ ~Reserving(s)'
  BY <1>1, <1>2 DEF Returning, Reserving, Resolves
<1>4. /\ res \in Reservation /\ res.allocs = loaded[s][r].allocs /\ res.status = act
      /\ loaded'[s][r] = res /\ Has(s, r) /\ r \in Rows
  <2>1. res \in Reservation /\ res.allocs = loaded[s][r].allocs /\ res.status = act
    BY <1>1, <1>2 DEF ResolveAs, Reservation
  <2>2. Has(s, r) /\ r \in Rows
    BY <1>1, NotAbsent DEF Has, Rows
  <2>3. loaded'[s][r] = res
    BY <1>1, <1>2, <2>2 DEF TypeOK, Tables
  <2> QED BY <2>1, <2>2, <2>3
<1>5. /\ Planned(s)' = P
      /\ \A v : Returned(s, v)' = Returned(s, v) /\ Taken(s, v)' = Taken(s, v) /\ Drawn(s, v)' = Drawn(s, v)
  BY <1>1, <1>3, <1>4, SamePart
<1>6. Picked(s) = {} /\ Picked(s)' = {}
  BY <1>1 DEF Picked
<1>7. InStep(s) /\ Units \cap Written(s) = P
  <2>1. InStep(s) /\ Units \cap Written(s) = Settled(s)
    BY <1>3 DEF HoldsTx, InStep
  <2> QED BY <1>1, <1>6, <2>1 DEF Settled
<1>8. r \in Bins \cup Resvs /\ pc[s] # "commit"
  BY <1>1
<1>9. /\ Written(s)' = Written(s) \cup {r} /\ Units \cap Written(s)' = Units \cap Written(s)
      /\ db' = db /\ \A v \in Units \cap Written(s)' : UnitShifted(s, v)'
  BY <1>1, <1>2, <1>5, <1>8, UnitsAside
<1>10. \A x \in Resvs : x \notin Written(s)
  BY <1>1 DEF HoldsTx, ResvShifted
<1>11. ResvShifted(s, r)'
  <2>1. db[r] = loaded[s][r] /\ writes'[s][r] = Stored(s, r, res)
    BY <1>1, <1>2, <1>4, <1>10, PutInTx
  <2>2. writes'[s][r].status = act /\ writes'[s][r].allocs = res.allocs
    BY <1>2, <1>4, <2>1, StoredFields
  <2> QED BY <1>1, <1>2, <1>4, <1>9, <2>1, <2>2 DEF ResvShifted, Has
<1>12. Units \cap Written(s)' = Settled(s)' /\ job'[s].todo \subseteq Planned(s)'
  BY <1>1, <1>5, <1>6, <1>7, <1>9 DEF Settled
<1>13. InStep(s)'
  BY <1>1, <1>3, <1>9, <1>12 DEF InStep, Finished
<1> QED BY <1>9, <1>10, <1>11, <1>13 DEF HoldsTx

(* A reservation is created, of all that has been drawn.                   *)
LEMMA HoldsCreated ==
    ASSUME IInv, NEW s \in Sessions, Scope(job[s].op) # "none", HoldsTx(s), NEW r \in Resvs, NEW res, Created(s, r, res)
    PROVE  HoldsTx(s)' /\ db' = db
<1> PICK P : P = Planned(s)
  OBVIOUS
<1>1. /\ pc[s] = "draw" /\ pc'[s] = "reply" /\ job[s].todo = {} /\ Unused(r)
      /\ res = NewReservation(job[s].sku, job[s].qty, job[s].demand, job[s].draw, now + Timeout)
      /\ Puts(s, r, res) /\ job'[s] = [job[s] EXCEPT !.res = r] /\ loaded' = loaded
  BY DEF Created
<1>2. /\ InTx(s) /\ TypeOK /\ ~Returning(s) /\ Reserving(s) /\ ~Returning(s)' /\ Reserving(s)' /\ job[s] \in Job
  BY <1>1, WritesInTx DEF Returning, Reserving, Resolves, IInv, TypeOK
<1>3. /\ job'[s].res = r /\ job'[s].draw = job[s].draw /\ job'[s].todo = {}
  BY <1>1, <1>2 DEF Job
<1>4. Planned(s)' = P
  BY <1>2, <1>3 DEF Planned
<1>5. \A v : Returned(s, v)' = Returned(s, v) /\ Taken(s, v)' = Taken(s, v) /\ Drawn(s, v)' = Drawn(s, v)
  BY <1>2, <1>3 DEF Returned, Taken, Drawn
<1>6. Picked(s) = {} /\ Picked(s)' = {}
  BY <1>1 DEF Picked
<1>7. InStep(s) /\ Units \cap Written(s) = P
  <2>1. InStep(s) /\ Units \cap Written(s) = Settled(s)
    BY <1>2 DEF HoldsTx, InStep
  <2> QED BY <1>1, <1>6, <2>1 DEF Settled
<1>8. r \in Bins \cup Resvs /\ pc[s] # "commit"
  BY <1>1
<1>9. /\ Written(s)' = Written(s) \cup {r} /\ Units \cap Written(s)' = Units \cap Written(s)
      /\ db' = db /\ \A v \in Units \cap Written(s)' : UnitShifted(s, v)'
  BY <1>1, <1>2, <1>5, <1>8, UnitsAside
<1>10. \A x \in Resvs : x \notin Written(s)
  BY <1>1 DEF HoldsTx, ResvShifted
<1>11. ResvShifted(s, r)'
  <2>1. db[r] = Absent /\ Visible(s, r) = Absent
    BY <1>1 DEF Unused, Visible
  <2>2. writes'[s][r] = Stored(s, r, res) /\ Stored(s, r, res) = res
    BY <1>1, <1>2, <2>1, PutsEffect
  <2>3. res.status = "ACTIVE" /\ res.allocs = job[s].draw
    BY <1>1 DEF NewReservation
  <2> QED BY <1>1, <1>3, <1>9, <2>1, <2>2, <2>3 DEF ResvShifted, IsActive
<1>12. Units \cap Written(s)' = Settled(s)' /\ job'[s].todo \subseteq Planned(s)'
  BY <1>3, <1>4, <1>6, <1>7, <1>9 DEF Settled
<1>13. \E v \in Units : job'[s].draw[v] > 0
  BY <1>2, <1>3, <1>7 DEF InStep
<1>14. InStep(s)'
  BY <1>1, <1>2, <1>3, <1>9, <1>12, <1>13 DEF InStep, Finished
<1> QED BY <1>9, <1>10, <1>11, <1>14 DEF HoldsTx

(* A bin is written alone, by a stow or a registration.                    *)
LEMMA HoldsShelf ==
    ASSUME IInv, NEW s \in Sessions, Scope(job[s].op) # "none", HoldsTx(s), NEW b \in Bins,
           OccupiesBin(s, b) \/ \E bin : SetsBin(s, b, bin)
    PROVE  HoldsTx(s)' /\ db' = db
<1>1. PICK a : /\ Puts(s, b, a) /\ job'[s] = job[s]
               /\ \/ pc[s] = "putbin" /\ pc'[s] = "putunit"
                  \/ pc[s] = "setbin" /\ pc'[s] = "commit"
  BY DEF OccupiesBin, SetsBin
<1>2. InTx(s) /\ InStep(s) /\ Written(s) = {} /\ Control(s)
  BY <1>1, WritesInTx DEF ScopeSteps, HoldsTx, InStep, IInv
<1>3. Written(s)' = {b} /\ db' = db /\ b \notin Units /\ b \notin Resvs
  BY <1>1, <1>2, PutInTx, RowsAssumption
<1>4. ~Returning(s)' /\ ~Reserving(s)'
  BY <1>1, <1>2 DEF Returning, Reserving, Resolves, Control
<1>5. pc'[s] = "commit" => job'[s].op # "reserve"
  BY <1>1, <1>2 DEF Control
<1>6. pc'[s] = "putunit" => job'[s].qty > 0
  BY <1>1, <1>2 DEF InStep
<1>7. InStep(s)'
  BY <1>1, <1>3, <1>4, <1>5, <1>6 DEF InStep, Finished
<1> QED BY <1>3, <1>7 DEF HoldsTx

(* A stowed unit is added, wholly free.                                    *)
LEMMA HoldsStow ==
    ASSUME IInv, NEW s \in Sessions, Scope(job[s].op) # "none", HoldsTx(s), NEW u \in Units, NEW unit,
           StowsUnit(s, u, unit)
    PROVE  HoldsTx(s)' /\ db' = db
<1>1. /\ pc[s] = "putunit" /\ pc'[s] = "commit" /\ Unused(u) /\ Puts(s, u, unit) /\ job'[s] = job[s]
      /\ unit = NewStockUnit(job[s].sku, job[s].bin, job[s].qty)
  BY DEF StowsUnit
<1>2. InTx(s) /\ InStep(s) /\ Control(s) /\ job[s].qty > 0 /\ Written(s) \subseteq Bins
  BY <1>1, WritesInTx DEF ScopeSteps, HoldsTx, InStep, IInv
<1>3. Written(s)' = Written(s) \cup {u} /\ db' = db /\ writes'[s][u] = Stored(s, u, unit)
  BY <1>1, <1>2, PutInTx
<1>4. job'[s].act = "ACTIVE" /\ job'[s].op = "stow"
  BY <1>1, <1>2 DEF Control
<1>5. ~Returning(s)' /\ ~Reserving(s)'
  BY <1>1, <1>4 DEF Returning, Reserving, Resolves
<1>6. InStep(s)'
  BY <1>1, <1>4, <1>5 DEF InStep, Finished
<1>7. db'[u] = Absent /\ writes'[s][u] = unit
  <2>1. db[u] = Absent /\ Visible(s, u) = Absent
    BY <1>1 DEF Unused, Visible
  <2> QED BY <1>1, <1>3, <2>1, PutsEffect
<1>8. UnitShifted(s, u)'
  BY <1>1, <1>2, <1>4, <1>7 DEF UnitShifted, NewStockUnit
<1>9. \A x \in Units \cup Resvs : x \in Written(s)' => x = u
  BY <1>2, <1>3, RowsAssumption
<1>10. \A x \in Resvs : x \notin Written(s)'
  BY <1>9, RowsAssumption
<1> QED BY <1>3, <1>6, <1>8, <1>9, <1>10 DEF HoldsTx

(* A statement that writes keeps the transaction as it should be.          *)
LEMMA HoldsWrites ==
    ASSUME IInv, Asked, NEW s \in Sessions, Scope(job[s].op) # "none", HoldsTx(s), Writes(s),
           pc[s] \in Resolves => job[s].op # "reserve"
    PROVE  HoldsTx(s)' /\ db' = db
<1>1. CASE \E u \in Units : PicksUnit(s, u) \/ ReleasesUnit(s, u) \/ DrawsUnit(s, u) \/ MarksUnit(s, u)
  BY <1>1, HoldsReturn, HoldsDraw, HoldsMark
<1>2. CASE \E u \in Units, b \in Bins : ReleasesBin(s, u, b)
  BY <1>2, HoldsBin
<1>3. CASE \E r \in Resvs : \E res : Resolved(s, r, res) \/ Created(s, r, res)
  <2>1. \A r, res : Resolved(s, r, res) => job[s].op # "reserve"
    BY DEF Resolved, Resolves
  <2> QED BY <1>3, <2>1, HoldsResolved, HoldsCreated
<1>4. CASE \E b \in Bins : OccupiesBin(s, b) \/ \E bin : SetsBin(s, b, bin)
  BY <1>4, HoldsShelf
<1>5. CASE \E u \in Units : \E unit : StowsUnit(s, u, unit)
  BY <1>5, HoldsStow
<1> QED BY <1>1, <1>2, <1>3, <1>4, <1>5 DEF Writes

-----------------------------------------------------------------------------
(* The invariant.                                                          *)

(* What the others have written is not disturbed: a row has one writer.    *)
LEMMA HoldsAlone ==
    ASSUME IInv, NEW s \in Sessions, Alone(s), Whole(s), NEW o \in Sessions \ {s}, HoldsTx(o)
    PROVE  HoldsTx(o)'
<1>1. pc'[o] = pc[o] /\ job'[o] = job[o] /\ loaded'[o] = loaded[o] /\ writes'[o] = writes[o]
  BY DEF Alone
<1>2. /\ Returning(o)' <=> Returning(o)
      /\ Reserving(o)' <=> Reserving(o)
  BY <1>1 DEF Returning, Reserving
<1>3. Written(o)' = Written(o)
  BY <1>1 DEF Written
<1>4. \A q \in Written(o) : db'[q] = db[q]
  <2> SUFFICES ASSUME NEW q \in Written(o) PROVE db'[q] = db[q]
    OBVIOUS
  <2>1. q \in Rows /\ writes[s][q] = Absent
    BY DEF Written, IInv, StoreInv, Exclusive
  <2> QED BY <2>1 DEF Whole, Commits, Visible
<1>5. \A u \in Units \cap Written(o) : UnitShifted(o, u)'
  <2> SUFFICES ASSUME NEW u \in Units \cap Written(o) PROVE UnitShifted(o, u)'
    OBVIOUS
  <2>1. UnitShifted(o, u)
    BY DEF HoldsTx
  <2>2. /\ Returned(o, u)' = Returned(o, u)
        /\ Taken(o, u)' = Taken(o, u)
        /\ Drawn(o, u)' = Drawn(o, u)
    BY <1>1, <1>2 DEF Returned, Taken, Drawn, Share, Picking
  <2> QED BY <1>1, <1>4, <2>1, <2>2 DEF UnitShifted
<1>6. \A r \in Resvs \cap Written(o) : ResvShifted(o, r)'
  <2> SUFFICES ASSUME NEW r \in Resvs \cap Written(o) PROVE ResvShifted(o, r)'
    OBVIOUS
  <2>1. ResvShifted(o, r)
    BY DEF HoldsTx
  <2> QED BY <1>1, <1>4, <2>1 DEF ResvShifted
<1>7. InStep(o)'
  <2>1. Planned(o)' = Planned(o) /\ Picked(o)' = Picked(o)
    BY <1>1, <1>2 DEF Planned, Picked, IsNext
  <2>2. Settled(o)' = Settled(o)
    BY <1>1, <2>1 DEF Settled
  <2>3. InStep(o)
    BY DEF HoldsTx
  <2> QED BY <1>1, <1>2, <1>3, <2>1, <2>2, <2>3 DEF InStep
<1> QED BY <1>3, <1>5, <1>6, <1>7 DEF HoldsTx

(* A statement of one request, or the loss of its transaction, is nothing  *)
(* to the others.                                                          *)
LEMMA StepAlone ==
    ASSUME IInv, NEW s \in Sessions, Step(s) \/ Crash(s)
    PROVE  Alone(s)
<1>1. TypeOK
  BY DEF IInv
<1>2. StoreKept(s) /\ SessionKept(s) /\ Shape(s)
  <2>1. CASE Step(s)
    BY <2>1, StepKeeps, StepShape
  <2>2. CASE Crash(s)
    <3>1. Forget(s, "err") /\ Rollback(s) /\ now' = now
      BY <2>2 DEF Crash
    <3>2. Ends(s)
      BY <1>1, <3>1, Forgotten DEF Ends, Finished
    <3> QED BY <3>1, <3>2, AbortKeeps DEF Shape
  <2> QED BY <2>1, <2>2
<1> QED BY <1>1, <1>2, PendingAlone DEF StoreKept, SessionKept, Alone

(* A transaction that stops commits all of it or nothing, and nothing in   *)
(* the midst of a resolution.                                              *)
LEMMA StopsWhole ==
    ASSUME NEW s \in Sessions, Stops(s), pc[s] \in Resolves => Scope(job[s].op) # "joined"
    PROVE  Whole(s)
<1>1. CASE Commit(s)
  <2>1. Commits(s)
    BY <1>1 DEF Commit, Commits
  <2> QED BY <2>1 DEF Stops, Whole
<1>2. CASE Rollback(s)
  BY <1>2 DEF Rollback, Whole
<1> QED BY <1>1, <1>2 DEF Stops, Ends

(* Only ReserveStock joins a transaction that is not its own.              *)
LEMMA Scopes ==
    ASSUME Transactional, Asked, NEW s \in Sessions
    PROVE  /\ Scope(job[s].op) # "none"
           /\ job[s].op # "reserve" => Scope(job[s].op) = "own"
<1>1. job[s].op # "mcp_revoke"
  BY DEF Transactional, Asked
<1> QED BY <1>1 DEF Scope

(* Every step is one of the clock, or of one request that keeps what it    *)
(* has written in step and commits it whole.                               *)
LEMMA HoldsNext ==
    ASSUME Transactional, IInv, Asked, Unhurried, \A s \in Sessions : HoldsTx(s), [Next]_vars
    PROVE  \/ UNCHANGED <<db, outbox, writes, pending, loaded, pc, job>>
           \/ \E s \in Sessions : Alone(s) /\ Whole(s) /\ HoldsTx(s)'
<1>1. TypeOK
  BY DEF IInv
<1>2. ASSUME NEW s \in Sessions, Step(s)
      PROVE  Alone(s) /\ Whole(s) /\ HoldsTx(s)'
  <2>1. InStep(s) /\ HoldsTx(s)
    BY DEF HoldsTx
  <2>2. pc[s] \in Resolves => job[s].op # "reserve"
    BY DEF Unhurried
  <2>3. /\ Scope(job[s].op) # "none"
        /\ job[s].op # "reserve" => Scope(job[s].op) = "own"
    BY Scopes
  <2>4. pc[s] \in Resolves => Scope(job[s].op) # "joined"
    BY <2>2, <2>3
  <2>5. pc[s] = "commit" => Scope(job[s].op) = "own"
    BY <2>1, <2>3 DEF InStep
  <2>6. Starts(s) \/ Proceeds(s) \/ Stops(s) \/ Writes(s)
    BY <1>2, <2>1, <2>5, HoldsShape
  <2>7. CASE Starts(s) \/ Proceeds(s) \/ Writes(s)
    <3>1. HoldsTx(s)' /\ db' = db
      BY <2>1, <2>2, <2>3, <2>7, HoldsStarts, HoldsProceeds, HoldsWrites
    <3> QED BY <1>2, <3>1, StepAlone DEF Whole
  <2>8. CASE Stops(s)
    BY <1>2, <2>1, <2>4, <2>8, HoldsStops, StopsWhole, StepAlone
  <2> QED BY <2>6, <2>7, <2>8
<1>3. ASSUME NEW s \in Crashable, Crash(s)
      PROVE  s \in Sessions /\ Alone(s) /\ Whole(s) /\ HoldsTx(s)'
  <2>1. s \in Sessions /\ Forget(s, "err") /\ Rollback(s)
    BY <1>3, CrashAssumption DEF Crash
  <2>2. InStep(s)
    BY <2>1 DEF HoldsTx
  <2>3. Stops(s)
    BY <1>1, <2>1, ErrorStops
  <2>4. Whole(s)
    BY <2>1 DEF Rollback, Whole
  <2> QED BY <1>3, <2>1, <2>2, <2>3, <2>4, HoldsStops, StepAlone
<1>4. Tick \/ UNCHANGED vars => UNCHANGED <<db, outbox, writes, pending, loaded, pc, job>>
  BY DEF Tick, vars, store
<1> QED BY <1>2, <1>3, <1>4 DEF Next

(* A step that changes no table and no session keeps all of this.          *)
LEMMA HoldsStutter ==
    ASSUME HoldsInv, UNCHANGED <<db, outbox, writes, pending, loaded, pc, job>>
    PROVE  HoldsInv'
<1>1. \A u : HeldIn(db, u)' = HeldIn(db, u) /\ Reserved(db, u)' = Reserved(db, u)
  BY DEF HeldIn, Holders, Reserved
<1>2. Backed'
  BY <1>1 DEF HoldsInv, Backed
<1>3. ASSUME NEW s \in Sessions PROVE HoldsTx(s)'
  <2>1. HoldsTx(s)
    BY DEF HoldsInv
  <2>2. /\ Returning(s)' <=> Returning(s)
        /\ Reserving(s)' <=> Reserving(s)
        /\ Written(s)' = Written(s)
    BY DEF Returning, Reserving, Written
  <2>3. Planned(s)' = Planned(s) /\ Picked(s)' = Picked(s)
    BY <2>2 DEF Planned, Picked, IsNext
  <2>4. Settled(s)' = Settled(s)
    BY <2>3 DEF Settled
  <2>5. InStep(s)'
    BY <2>1, <2>2, <2>3, <2>4 DEF HoldsTx, InStep
  <2>6. \A u : /\ Returned(s, u)' = Returned(s, u)
               /\ Taken(s, u)' = Taken(s, u)
               /\ Drawn(s, u)' = Drawn(s, u)
    BY <2>2 DEF Returned, Taken, Drawn, Share, Picking
  <2>7. \A u \in Units \cap Written(s) : UnitShifted(s, u)'
    BY <2>1, <2>6 DEF HoldsTx, UnitShifted
  <2>8. \A r \in Resvs \cap Written(s) : ResvShifted(s, r)'
    BY <2>1 DEF HoldsTx, ResvShifted
  <2> QED BY <2>2, <2>5, <2>7, <2>8 DEF HoldsTx
<1> QED BY <1>2, <1>3 DEF HoldsInv

(* Conservation is inductive.                                              *)
LEMMA HoldsInductive == Transactional /\ IInv /\ Asked /\ Unhurried /\ HoldsInv /\ [Next]_vars => HoldsInv'
<1> SUFFICES ASSUME Transactional, IInv, Asked, Unhurried, HoldsInv, [Next]_vars PROVE HoldsInv'
  OBVIOUS
<1>1. Backed /\ \A s \in Sessions : HoldsTx(s)
  BY DEF HoldsInv
<1>2. TypeOK'
  BY NextKeepsInvariant DEF IInv
<1>3. ASSUME NEW s \in Sessions, Alone(s), Whole(s), HoldsTx(s)' PROVE HoldsInv'
  <2>1. Backed'
    BY <1>1, <1>2, <1>3, BackedStep
  <2>2. \A o \in Sessions \ {s} : HoldsTx(o)'
    BY <1>1, <1>3, HoldsAlone
  <2> QED BY <1>3, <2>1, <2>2 DEF HoldsInv
<1> QED BY <1>1, <1>3, HoldsNext, HoldsStutter

(* The service starts with it.                                             *)
LEMMA HoldsInit == Init => HoldsInv
<1> SUFFICES ASSUME Init PROVE HoldsInv
  OBVIOUS
<1>1. db \in Databases /\ \A s \in Sessions : pc[s] = "idle" /\ \A q \in Rows : writes[s][q] = Absent
  BY DEF Init, NoRows
<1>2. Backed
  BY <1>1, HoldsAssumption DEF Backed
<1>3. \A s \in Sessions : Written(s) = {} /\ InStep(s)
  BY <1>1 DEF Written, InStep, Returning, Reserving, Resolves
<1> QED BY <1>2, <1>3 DEF HoldsInv, HoldsTx

-----------------------------------------------------------------------------
(* When no reservation expires inside ReserveStock.                        *)

(* A statement takes no time.                                              *)
LEMMA ClockStill ==
    ASSUME NEW s, Step(s) \/ Crash(s)
    PROVE  now' = now
<1>1. Fail(s) => now' = now
  BY DEF Fail
<1>2. \A r, a : Conflict(s, r, a) => now' = now
  BY <1>1 DEF Conflict
<1>3. CASE FindByID(s) \/ ReserveStock(s) \/ GetReservations(s) \/ NotDue(s) \/ ExpireIfDue(s)
  BY <1>3 DEF FindByID, ReserveStock, GetReservations, LookUpDemand, NotDue, ExpireIfDue
<1>4. CASE Decide(s) \/ LoadUnit(s) \/ LoadBin(s) \/ FindBySKU(s)
  BY <1>1, <1>4 DEF Decide, LoadUnit, LoadBin, FindBySKU
<1>5. CASE SaveUnit(s) \/ SaveBin(s) \/ SaveReservation(s) \/ SaveTouched(s)
  BY <1>2, <1>5 DEF SaveUnit, SaveBin, SaveReservation, SaveTouched
<1>6. CASE AnswerFound(s) \/ CreateReservation(s) \/ Reply(s)
  BY <1>6 DEF AnswerFound, CreateReservation, Reply
<1>7. CASE StowStock(s) \/ RefusePlacement(s) \/ CheckSegregation(s) \/ SaveStowed(s)
  BY <1>1, <1>7 DEF StowStock, RefusePlacement, CheckSegregation, SaveStowed
<1>8. CASE SaveOccupied(s) \/ SaveCapacity(s) \/ MarkUnit(s)
  BY <1>2, <1>8 DEF SaveOccupied, SaveCapacity, MarkUnit
<1>9. CASE RegisterBin(s) \/ RunCycleCount(s) \/ CountDone(s)
  BY <1>9 DEF RegisterBin, RunCycleCount, CountDone
<1>10. CASE CommitScope(s) \/ DeadlockVictim(s) \/ Crash(s)
  BY <1>10 DEF CommitScope, DeadlockVictim, Crash
<1> QED BY <1>3, <1>4, <1>5, <1>6, <1>7, <1>8, <1>9, <1>10 DEF Step, ReservationStep, PlacementStep

(* A request for a reservation resolves only what it finds due.            *)
LEMMA OnlyDueExpires ==
    ASSUME IInv, NEW s \in Sessions, Step(s), job'[s].op = "reserve", pc'[s] \in Resolves, pc[s] \notin Resolves
    PROVE  pc[s] = "due" /\ \E r \in job[s].queue : Due(s, r)
<1>1. TypeOK /\ job[s] \in Job /\ Control(s)
  BY DEF IInv, TypeOK
<1>2. ~Forget(s, "err") /\ ~Forget(s, "ok")
  BY <1>1, Forgotten DEF Resolves
<1>3. pc[s] = "due" /\ \E r \in Resvs, act \in Status : Resolving(s, r, act)
  BY StepShape DEF Shape, Turns, Ends, Finished, Resolves, LoadUnit, LoadBin, PicksUnit, ReleasesUnit, DrawsUnit,
                   MarksUnit, ReleasesBin, Resolved, Created, OccupiesBin, StowsUnit, SetsBin
<1>4. job[s].op = "reserve"
  <2>1. PICK r, act : Resolving(s, r, act)
    BY <1>3
  <2> DEFINE j == [job[s] EXCEPT !.act = act, !.res = r, !.queue = @ \ {r},
                                 !.todo = Allocated(loaded[s][r]), !.rank = ById]
  <2>2. GoTo(s, "load", j) /\ j.op = job[s].op
    BY <1>1, <2>1 DEF Resolving, Job
  <2> HIDE DEF j
  <2> QED BY <1>1, <2>2, Moved
<1>5. CASE ExpireIfDue(s)
  BY <1>3, <1>5 DEF ExpireIfDue
<1>6. ~NotDue(s)
  BY <1>1, Moved DEF NotDue, Resolves
<1>7. ~Decide(s) /\ ~AnswerFound(s) /\ ~DeadlockVictim(s)
  BY <1>2, <1>4 DEF Decide, AnswerFound, DeadlockVictim, Resolution
<1>8. ~FindBySKU(s)
  <2>1. FindBySKU(s) => Fail(s) \/ \E j : GoTo(s, "draw", j)
    BY DEF FindBySKU
  <2> QED BY <1>1, <1>2, <2>1, Moved DEF Fail, Resolves
<1>9. ~FindByID(s) /\ ~ReserveStock(s) /\ ~GetReservations(s) /\ ~LoadUnit(s) /\ ~LoadBin(s)
  BY <1>3 DEF FindByID, ReserveStock, GetReservations, LoadUnit, LoadBin
<1>10. ~SaveUnit(s) /\ ~SaveBin(s) /\ ~SaveReservation(s) /\ ~SaveTouched(s) /\ ~CreateReservation(s) /\ ~Reply(s)
  BY <1>3 DEF SaveUnit, SaveBin, SaveReservation, SaveTouched, CreateReservation, Reply
<1>11. ~PlacementStep(s) /\ ~CommitScope(s)
  <2>1. ~StowStock(s) /\ ~RefusePlacement(s) /\ ~CheckSegregation(s) /\ ~SaveOccupied(s) /\ ~SaveStowed(s)
    BY <1>3 DEF StowStock, RefusePlacement, CheckSegregation, SaveOccupied, SaveStowed
  <2>2. ~RegisterBin(s) /\ ~SaveCapacity(s) /\ ~RunCycleCount(s) /\ ~MarkUnit(s) /\ ~CountDone(s) /\ ~CommitScope(s)
    BY <1>3 DEF RegisterBin, SaveCapacity, RunCycleCount, MarkUnit, CountDone, CommitScope
  <2> QED BY <2>1, <2>2 DEF PlacementStep
<1> QED BY <1>5, <1>6, <1>7, <1>8, <1>9, <1>10, <1>11 DEF Step, ReservationStep

(* Once it resolves, it stays what it was asked to be.                     *)
LEMMA StillAsked ==
    ASSUME IInv, NEW s \in Sessions, Step(s), pc[s] \in Resolves, pc'[s] \in Resolves
    PROVE  job'[s].op = job[s].op
<1>1. \A u : Without(s, u).op = job[s].op
  BY DEF Without, IInv, TypeOK, Job
<1>2. pc[s] \notin {"idle", "due", "draw", "mark", "putbin", "putunit", "setbin", "place"}
  BY DEF Resolves
<1>3. Shape(s)
  BY StepShape
<1>4. CASE ReadsOnly(s) /\ Turns(s)
  BY <1>2, <1>4 DEF Turns, Finished, Resolves, FindBySKU, CheckSegregation, RegisterBin, CountDone
<1>5. CASE \E u \in Units : PicksUnit(s, u) \/ ReleasesUnit(s, u) \/ DrawsUnit(s, u) \/ MarksUnit(s, u)
  BY <1>1, <1>2, <1>5 DEF PicksUnit, ReleasesUnit, DrawsUnit, MarksUnit
<1>6. CASE \E u \in Units, b \in Bins : ReleasesBin(s, u, b)
  BY <1>1, <1>6 DEF ReleasesBin
<1>7. ~Ends(s)
  BY DEF Ends, Finished, Resolves
<1> QED BY <1>2, <1>3, <1>4, <1>5, <1>6, <1>7
       DEF Shape, Resolved, Created, OccupiesBin, StowsUnit, SetsBin, Resolves

(* A step keeps the reservations from expiring before the horizon.         *)
LEMMA LastsStep ==
    ASSUME IInv, LongLived, LastsInv, NEW s \in Sessions, Shape(s), Alone(s), now' = now
    PROVE  LastsInv'
<1>1. /\ now \in Nat /\ Horizon \in Nat /\ Timeout \in Nat /\ Horizon <= Timeout
      /\ \A r \in Resvs : Lasts(db[r]) /\ \A o \in Sessions : Lasts(writes[o][r]) /\ Lasts(loaded[o][r])
  BY SessionsAssumption, ReservationAssumption DEF IInv, TypeOK, LongLived, LastsInv
<1>2. ASSUME \A r \in Resvs : Lasts(db'[r]) /\ Lasts(writes'[s][r]) /\ Lasts(loaded'[s][r])
      PROVE  LastsInv'
  BY <1>1, <1>2 DEF LastsInv, Lasts, Alone
<1>3. \A r \in Resvs : r \in Rows /\ r \notin Units \cup Bins /\ Lasts(Visible(s, r))
  BY <1>1, RowsAssumption DEF Rows, Visible
<1>4. CASE ReadsOnly(s)
  BY <1>1, <1>2, <1>3, <1>4 DEF ReadsOnly, Lasts
<1>5. CASE Ends(s)
  BY <1>1, <1>2, <1>3, <1>5, EndsEffect DEF Lasts
<1>6. ASSUME NEW q, NEW a, Puts(s, q, a), q \in Units \cup Bins, \A r \in Resvs : loaded'[s][r] = loaded[s][r]
      PROVE  LastsInv'
  BY <1>1, <1>2, <1>3, <1>6, PutsEffect
<1>7. ASSUME NEW q \in Resvs, NEW a, Puts(s, q, a), Lasts(Stored(s, q, a)), Lasts(loaded'[s][q]),
             \A r \in Resvs \ {q} : loaded'[s][r] = loaded[s][r]
      PROVE  LastsInv'
  <2>1. /\ \A r \in Rows \ {q} : writes'[s][r] = writes[s][r] /\ db'[r] = db[r]
        /\ InTx(s) => writes'[s][q] = Stored(s, q, a) /\ db'[q] = db[q]
        /\ ~InTx(s) => db'[q] = Stored(s, q, a) /\ writes'[s][q] = Absent
    BY <1>7, PutsEffect
  <2>2. Lasts(db'[q]) /\ Lasts(writes'[s][q])
    BY <1>1, <1>7, <2>1 DEF Lasts
  <2> QED BY <1>1, <1>2, <1>3, <1>7, <2>1, <2>2
<1>8. \A r, a : a \in Reservation => Stored(s, r, a).expiresAt = a.expiresAt
  BY DEF Stored, Reservation
<1>9. CASE \E u \in Units : PicksUnit(s, u) \/ ReleasesUnit(s, u) \/ DrawsUnit(s, u) \/ MarksUnit(s, u)
  BY <1>6, <1>9 DEF PicksUnit, ReleasesUnit, DrawsUnit, MarksUnit
<1>10. CASE \E u \in Units, b \in Bins : ReleasesBin(s, u, b)
  BY <1>6, <1>10 DEF ReleasesBin
<1>11. ASSUME NEW r \in Resvs, NEW res, Resolved(s, r, res) PROVE LastsInv'
  <2>1. /\ Puts(s, r, res) /\ loaded[s][r] \in Reservation /\ res = ResolveAs(loaded[s][r], job[s].act)
        /\ loaded' = [loaded EXCEPT ![s][r] = res]
    BY <1>11 DEF Resolved
  <2>2. job[s].act \in Status /\ loaded \in [Sessions -> Tables]
    BY DEF IInv, TypeOK, Job
  <2>3. res \in Reservation /\ res.expiresAt = loaded[s][r].expiresAt
    BY <2>1, <2>2 DEF ResolveAs, Reservation
  <2>4. loaded'[s][r] = res /\ \A x \in Resvs \ {r} : loaded'[s][x] = loaded[s][x]
    BY <1>3, <2>1, <2>2 DEF Tables
  <2>5. loaded[s][r] # Absent
    BY <2>1, RowsAssumption
  <2>6. Lasts(res) /\ Lasts(Stored(s, r, res))
    BY <1>1, <1>8, <2>3, <2>5 DEF Lasts
  <2> QED BY <1>7, <2>1, <2>4, <2>6
<1>12. ASSUME NEW r \in Resvs, NEW res, Created(s, r, res) PROVE LastsInv'
  <2>1. /\ Puts(s, r, res) /\ loaded' = loaded
        /\ res = NewReservation(job[s].sku, job[s].qty, job[s].demand, job[s].draw, now + Timeout)
    BY <1>12 DEF Created
  <2>2. res # Absent /\ TypedRow(r, res) /\ res.expiresAt = now + Timeout
    BY <2>1 DEF Puts, NewReservation
  <2>3. res \in Reservation
    BY <1>3, <2>2 DEF TypedRow
  <2>4. Lasts(Stored(s, r, res))
    BY <1>1, <1>8, <2>2, <2>3 DEF Lasts
  <2> QED BY <1>1, <1>7, <2>1, <2>4
<1>13. CASE \E b \in Bins : OccupiesBin(s, b) \/ \E bin : SetsBin(s, b, bin)
  BY <1>6, <1>13 DEF OccupiesBin, SetsBin
<1>14. CASE \E u \in Units : \E unit : StowsUnit(s, u, unit)
  BY <1>6, <1>14 DEF StowsUnit
<1> QED BY <1>4, <1>5, <1>9, <1>10, <1>11, <1>12, <1>13, <1>14 DEF Shape

(* Within the horizon, a request for a reservation expires none.           *)
LEMMA LastsInductive == IInv /\ LongLived /\ LastsInv /\ Unhurried /\ [Next]_vars => LastsInv' /\ Unhurried'
<1> SUFFICES ASSUME IInv, LongLived, LastsInv, Unhurried, [Next]_vars PROVE LastsInv' /\ Unhurried'
  OBVIOUS
<1>1. TypeOK /\ Horizon \in Nat
  BY SessionsAssumption DEF IInv
<1>2. ASSUME NEW s \in Sessions, Step(s) PROVE LastsInv' /\ Unhurried'
  <2>1. Shape(s) /\ Alone(s) /\ now' = now
    BY <1>2, StepShape, StepAlone, ClockStill
  <2>2. ASSUME pc[s] = "due", NEW r \in job[s].queue, Due(s, r) PROVE FALSE
    <3>1. r \in Resvs /\ r \in Rows /\ now \in Nat /\ now <= Horizon /\ Lasts(loaded[s][r])
      BY <1>1, <2>2 DEF TypeOK, Job, LastsInv, Rows
    <3>2. loaded[s][r] # Absent
      BY <2>2 DEF IInv, Control, LookedUp, Has
    <3>3. loaded[s][r] \in Reservation
      BY <1>1, <3>1, <3>2, RowKinds DEF TypeOK
    <3> QED BY <1>1, <2>2, <3>1, <3>2, <3>3 DEF Due, IsExpired, Lasts, Reservation
  <2>3. ASSUME NEW o \in Sessions, job'[o].op = "reserve", pc'[o] \in Resolves PROVE FALSE
    <3>1. o = s
      BY <2>1, <2>3 DEF Alone, Unhurried
    <3>2. pc[s] \in Resolves => job[s].op # "reserve"
      BY DEF Unhurried
    <3>3. pc[s] \notin Resolves
      BY <1>2, <2>3, <3>1, <3>2, StillAsked
    <3> QED BY <1>2, <2>2, <2>3, <3>1, <3>3, OnlyDueExpires
  <2> QED BY <2>1, <2>3, LastsStep DEF Unhurried
<1>3. ASSUME NEW s \in Crashable, Crash(s) PROVE LastsInv' /\ Unhurried'
  <2>1. s \in Sessions /\ Forget(s, "err") /\ Rollback(s) /\ now' = now /\ Alone(s)
    BY <1>3, CrashAssumption, StepAlone DEF Crash
  <2>2. Ends(s) /\ pc'[s] = "err"
    BY <1>1, <2>1, Forgotten DEF Ends, Finished
  <2> QED BY <2>1, <2>2, LastsStep DEF Shape, Unhurried, Alone, Resolves
<1>4. CASE Tick
  <2>1. now' <= Horizon /\ UNCHANGED <<db, writes, loaded, pc, job>>
    BY <1>1, <1>4 DEF Tick, store, TypeOK
  <2> QED BY <2>1 DEF LastsInv, Unhurried
<1>5. CASE UNCHANGED vars
  BY <1>5 DEF vars, store, LastsInv, Unhurried
<1> QED BY <1>2, <1>3, <1>4, <1>5 DEF Next

(* ReserveStock expires nothing in a service that is not asked to reserve, *)
(* or whose reservations outlive the run.                                  *)
THEOREM NothingIsHurried == NoReserve \/ LongLived => (Spec => []Unhurried)
<1>1. ASSUME NoReserve PROVE Spec => []Unhurried
  <2>1. Init => IInv /\ Asked
    BY InitEstablishesInvariant, AskedInit
  <2>2. (IInv /\ Asked) /\ [Next]_vars => (IInv /\ Asked)'
    BY AskedInductive, NextKeepsInvariant
  <2>3. Asked => Unhurried
    BY <1>1 DEF NoReserve, Asked, Unhurried
  <2> QED BY <2>1, <2>2, <2>3, PTL DEF Spec
<1>2. ASSUME LongLived PROVE Spec => []Unhurried
  <2>1. Init => IInv /\ LastsInv /\ Unhurried
    <3> SUFFICES ASSUME Init PROVE IInv /\ LastsInv /\ Unhurried
      OBVIOUS
    <3>1. /\ now = 0 /\ db \in Databases
          /\ \A s \in Sessions : pc[s] = "idle" /\ \A q \in Rows : writes[s][q] = Absent /\ loaded[s][q] = Absent
      BY DEF Init, NoRows
    <3>2. LastsInv
      BY <1>2, <3>1, SessionsAssumption DEF LongLived, LastsInv, Lasts, Rows
    <3>3. Unhurried
      BY <3>1 DEF Unhurried, Resolves
    <3> QED BY <3>2, <3>3, InitEstablishesInvariant
  <2>2. (IInv /\ LastsInv /\ Unhurried) /\ [Next]_vars => (IInv /\ LastsInv /\ Unhurried)'
    BY <1>2, LastsInductive, NextKeepsInvariant
  <2> QED BY <2>1, <2>2, PTL DEF Spec
<1> QED BY <1>1, <1>2

-----------------------------------------------------------------------------
(* The theorems of conservation.                                           *)

(* What the runs count as held is what is held in the committed table.     *)
LEMMA HeldCommitted == \A u \in Units : Held(u) = HeldIn(db, u)
<1>1. {r \in Existing(Resvs) : IsActive(db[r])} = Holders(db)
  BY DEF Existing, Holders
<1> QED BY <1>1 DEF Held, HeldIn

(* Every open transaction has shifted just the units of its plan that are  *)
(* dealt with, each by its share, and writes the reservation last: so what *)
(* it commits gives back or draws all of a reservation, or none.           *)
THEOREM TransactionsInStep == Transactional => (Spec /\ []Unhurried => []HoldsInv)
<1> SUFFICES ASSUME Transactional PROVE Spec /\ []Unhurried => []HoldsInv
  OBVIOUS
<1>1. Init => IInv /\ Asked /\ HoldsInv
  BY InitEstablishesInvariant, AskedInit, HoldsInit
<1>2. (IInv /\ Asked /\ HoldsInv) /\ Unhurried /\ [Next]_vars => (IInv /\ Asked /\ HoldsInv)'
  BY AskedInductive, HoldsInductive, NextKeepsInvariant
<1> QED BY <1>1, <1>2, PTL DEF Spec

(* No ACTIVE reservation loses what it holds, for any number of requests,  *)
(* units and crashes: revocation, pick and expiry give an allocation back  *)
(* in the transaction that resolves the reservation, once.  It takes a     *)
(* unit of work around every request, and no expiry in the middle of a     *)
(* ReserveStock, whose errors are committed.                               *)
THEOREM HoldsAreBacked == Transactional => (Spec /\ []Unhurried => []HoldsBacked)
<1> SUFFICES ASSUME Transactional PROVE Spec /\ []Unhurried => []HoldsBacked
  OBVIOUS
<1>1. Spec /\ []Unhurried => []HoldsInv
  BY TransactionsInStep
<1>2. HoldsInv => HoldsBacked
  BY HeldCommitted DEF HoldsInv, Backed, HoldsBacked, Existing, Reserved
<1> QED BY <1>1, <1>2, PTL

(* What is reserved when the service starts is just what is held.          *)
StartsExact == \A t \in Databases, u \in Units : HeldIn(t, u) = Reserved(t, u)

(* Where nothing is being reserved, what is reserved is exactly what the   *)
(* ACTIVE reservations hold: a resolution gives back all of it, or none.   *)
THEOREM HoldsAreExact == Transactional /\ NoReserve /\ StartsExact => (Spec => []ReservedIsHeld)
<1> SUFFICES ASSUME Transactional, NoReserve, StartsExact PROVE Spec => []ReservedIsHeld
  OBVIOUS
<1>1. Init => IInv /\ Asked /\ HoldsInv /\ Exact
  BY InitEstablishesInvariant, AskedInit, HoldsInit DEF StartsExact, Exact, Init
<1>2. (IInv /\ Asked /\ HoldsInv /\ Exact) /\ [Next]_vars => (IInv /\ Asked /\ HoldsInv /\ Exact)'
  <2> SUFFICES ASSUME IInv, Asked, HoldsInv, Exact, [Next]_vars PROVE (IInv /\ Asked /\ HoldsInv /\ Exact)'
    OBVIOUS
  <2>1. Unhurried /\ \A s \in Sessions : HoldsTx(s) /\ pc[s] # "draw"
    BY DEF NoReserve, Asked, Unhurried, HoldsInv, IInv, Control
  <2>2. IInv' /\ Asked' /\ HoldsInv'
    BY <2>1, AskedInductive, HoldsInductive, NextKeepsInvariant
  <2>3. CASE UNCHANGED <<db, outbox, writes, pending, loaded, pc, job>>
    BY <2>2, <2>3 DEF Exact, HeldIn, Holders, Reserved
  <2>4. CASE \E s \in Sessions : Whole(s)
    <3>1. TypeOK'
      BY <2>2 DEF IInv
    <3> QED BY <2>1, <2>2, <2>4, <3>1, ExactStep
  <2> QED BY <2>1, <2>3, <2>4, HoldsNext
<1>3. Exact => ReservedIsHeld
  BY HeldCommitted DEF Exact, ReservedIsHeld, Existing, Reserved
<1> QED BY <1>1, <1>2, <1>3, PTL DEF Spec

-----------------------------------------------------------------------------
(* The ledger of holds.                                                    *)

(* The ledger sees the holders, and what they hold.                        *)
LEMMA LedgerHeld ==
    ASSUME TypeOK
    PROVE  Ledger!Active = Holders(db) /\ \A u \in Units : Ledger!HeldOn(u) = HeldIn(db, u)
<1>1. \A r \in Resvs : (HoldOf(r) # Absent <=> db[r] # Absent)
                       /\ (db[r] # Absent => HoldOf(r) = [status |-> db[r].status, allocs |-> db[r].allocs])
  <2> SUFFICES ASSUME NEW r \in Resvs, db[r] # Absent PROVE HoldOf(r) # Absent
    BY DEF HoldOf
  <2>1. db[r] \in Reservation
    BY RowKinds DEF TypeOK, Rows
  <2>2. HoldOf(r) \in [status : Status, allocs : [Units -> Nat]]
    BY <2>1 DEF HoldOf, Reservation
  <2> QED BY <2>2, HoldsAssumption
<1>2. Ledger!Active = Holders(db)
  BY <1>1 DEF Ledger!Active, Holders, IsActive
<1>3. ASSUME NEW u \in Units PROVE Ledger!HeldOn(u) = HeldIn(db, u)
  <2> DEFINE S == Holders(db)
             f == [r \in S |-> db[r].allocs[u]]
  <2>1. \A r \in S : r \in Resvs /\ HoldOf(r).allocs = db[r].allocs
    BY <1>1 DEF Holders
  <2>2. {{r} \X (1 .. HoldOf(r).allocs[u]) : r \in S} = {{r} \X (1 .. f[r]) : r \in S}
    BY <2>1
  <2>3. Ledger!HeldOn(u) = Cardinality(UNION {{r} \X (1 .. HoldOf(r).allocs[u]) : r \in S})
    <3>1. \A T : Ledger!Cardinality(T) = Cardinality(T)
      BY DEF Cardinality, Ledger!Cardinality
    <3>2. {{r} \X (1 .. [x \in Resvs |-> HoldOf(x)][r].allocs[u]) : r \in Ledger!Active} = {{r} \X (1 .. HoldOf(r).allocs[u]) : r \in S}
      BY <1>2, <2>1
    <3> QED BY <3>1, <3>2 DEF Ledger!HeldOn
  <2> QED BY <2>2, <2>3 DEF HeldIn, Amount, Pieces
<1> QED BY <1>2, <1>3

(* The ledger's view of a table.                                           *)
LEMMA LedgerView ==
    ASSUME NEW u \in Units, NEW r \in Resvs
    PROVE  /\ [v \in Units |-> OnHand(v)][u] = OnHand(u) /\ [v \in Units |-> OnHand(v)]'[u] = OnHand(u)'
           /\ [x \in Resvs |-> HoldOf(x)][r] = HoldOf(r) /\ [x \in Resvs |-> HoldOf(x)]'[r] = HoldOf(r)'
OBVIOUS

(* A resolution gives back, or takes off hand, what the reservation holds. *)
LEMMA LedgerResolves ==
    ASSUME IInv, IInv', NEW s \in Sessions, HoldsTx(s), Commits(s), pc[s] = "commit", job[s].act # "ACTIVE"
    PROVE  \E r \in Resvs : Ledger!GiveBack(r) \/ Ledger!TakeOffHand(r)
<1> PICK r : r = job[s].res
  OBVIOUS
<1> PICK t : t = db'
  OBVIOUS
<1>1. /\ r \in Resvs /\ db[r] \in Reservation /\ IsActive(db[r])
      /\ t[r] \in Reservation /\ t[r].status = job[s].act /\ t[r].allocs = db[r].allocs
      /\ \A x \in Resvs \ {r} : t[x] = db[x]
      /\ \A u \in Units : OnHand(u)' + (IF Picking(s) THEN db[r].allocs[u] ELSE 0) = OnHand(u)
  BY CommitResolves
<1>2. TypeOK /\ TypeOK' /\ db \in Tables /\ t \in Tables /\ job[s] \in Job
  BY DEF IInv, TypeOK
<1>3. job[s].act \in {"CONFIRMED", "REVOKED", "EXPIRED"} /\ (Picking(s) <=> job[s].act = "CONFIRMED")
  BY <1>2 DEF Job, Status, Picking
<1>4. r \in Ledger!Active
  BY <1>1, <1>2, NotAbsent, LedgerHeld DEF Holders
<1>5. [x \in Resvs |-> HoldOf(x)]' = [[x \in Resvs |-> HoldOf(x)] EXCEPT ![r].status = job[s].act]
  <2>1. \A x \in Resvs \ {r} : HoldOf(x)' = HoldOf(x)
    BY <1>1 DEF HoldOf
  <2>2. HoldOf(r) = [status |-> db[r].status, allocs |-> db[r].allocs]
        /\ HoldOf(r)' = [status |-> job[s].act, allocs |-> db[r].allocs]
    BY <1>1, NotAbsent DEF HoldOf
  <2>3. [HoldOf(r) EXCEPT !.status = job[s].act] = HoldOf(r)'
    BY <2>2
  <2> QED BY <1>1, <2>1, <2>3
<1>6. \A u \in Units : OnHand(u)' \in Nat /\ OnHand(u) \in Nat /\ db[r].allocs[u] \in Nat
  BY <1>1, <1>2, RowKinds DEF OnHand, StockUnit, Reservation
<1>7. HoldOf(r).allocs = db[r].allocs
  BY <1>1, NotAbsent DEF HoldOf
<1>8. CASE Picking(s)
  <2>1. \A u \in Units : OnHand(u)' = OnHand(u) - db[r].allocs[u]
    BY <1>1, <1>6, <1>8
  <2>2. [u \in Units |-> OnHand(u)]'
        = [u \in Units |-> [v \in Units |-> OnHand(v)][u] - [x \in Resvs |-> HoldOf(x)][r].allocs[u]]
    BY <1>1, <1>7, <2>1
  <2>3. Ledger!TakeOffHand(r)
    BY <1>3, <1>4, <1>5, <1>8, <2>2 DEF Ledger!TakeOffHand
  <2> QED BY <1>1, <2>3
<1>9. CASE ~Picking(s)
  <2>1. \A u \in Units : OnHand(u)' = OnHand(u)
    BY <1>1, <1>6, <1>9
  <2>2. [u \in Units |-> OnHand(u)]' = [u \in Units |-> OnHand(u)]
    BY <2>1
  <2>3. job[s].act \in {"REVOKED", "EXPIRED"}
    BY <1>3, <1>9
  <2>4. Ledger!GiveBack(r)
    BY <1>4, <1>5, <2>2, <2>3 DEF Ledger!GiveBack
  <2> QED BY <1>1, <2>4
<1> QED BY <1>8, <1>9

(* A new reservation holds what was free.                                  *)
LEMMA LedgerHolds ==
    ASSUME IInv, IInv', OnHandInv, Backed, NEW s \in Sessions, HoldsTx(s), Commits(s), pc[s] = "reply"
    PROVE  \E r \in Resvs : Ledger!Hold(r)
<1> PICK r : r = job[s].res
  OBVIOUS
<1> PICK t : t = db'
  OBVIOUS
<1>1. /\ r \in Resvs /\ db[r] = Absent
      /\ t[r] \in Reservation /\ IsActive(t[r]) /\ t[r].allocs = job[s].draw
      /\ \A x \in Resvs \ {r} : t[x] = db[x]
      /\ \A u \in Units : Reserved(t, u) = Reserved(db, u) + job[s].draw[u] /\ OnHand(u)' = OnHand(u)
  <2>1. \A u : Reserved(db, u)' = Reserved(t, u)
    BY DEF Reserved
  <2> QED BY <2>1, CommitCreates
<1>2. TypeOK /\ db \in Tables /\ t \in Tables /\ job[s].draw \in [Units -> Nat]
  BY DEF IInv, TypeOK, Job
<1>3. \A x \in Resvs \ {r} : HoldOf(x)' = HoldOf(x)
  BY <1>1 DEF HoldOf
<1>4. HoldOf(r) = Absent /\ HoldOf(r)' = [status |-> "ACTIVE", allocs |-> job[s].draw]
  BY <1>1, NotAbsent DEF HoldOf, IsActive
<1>5. HoldOf(r)' # Absent
  <2>1. HoldOf(r)' \in [status : Status, allocs : [Units -> Nat]]
    BY <1>2, <1>4 DEF Status
  <2> QED BY <2>1, HoldsAssumption
<1>6. \E u \in Units : job[s].draw[u] > 0
  BY DEF HoldsTx, InStep, Reserving
<1>7. ASSUME NEW u \in Units PROVE job[s].draw[u] <= OnHand(u) - Ledger!HeldOn(u)
  <2>1. Ledger!HeldOn(u) = HeldIn(db, u) /\ HeldIn(db, u) \in Nat /\ HeldIn(db, u) <= Reserved(db, u)
    BY <1>2, LedgerHeld, HeldNat DEF Backed
  <2>2. Reserved(db, u) + job[s].draw[u] <= OnHand(u)
    <3>1. Reserved(t, u) <= OnHand(u)'
      <4>1. u \in Rows /\ t[u] = Visible(s, u)
        BY DEF Commits, Rows
      <4>2. Sound(t[u])
        BY <4>1 DEF OnHandInv, Visible
      <4> QED BY <4>2 DEF Sound, Reserved, OnHand
    <3> QED BY <1>1, <3>1
  <2>3. Reserved(db, u) \in Nat /\ OnHand(u) \in Nat /\ job[s].draw[u] \in Nat
    BY <1>2, RowKinds DEF Reserved, OnHand, StockUnit
  <2> QED BY <2>1, <2>2, <2>3
<1>8. [u \in Units |-> OnHand(u)]' = [u \in Units |-> OnHand(u)]
  BY <1>1
<1>9. Ledger!Hold(r)
  <2>1. [x \in Resvs |-> HoldOf(x)][r] = HoldOf(r) /\ [x \in Resvs |-> HoldOf(x)]'[r] = HoldOf(r)'
    BY <1>1
  <2>2. Ledger!Others(r)
    BY <1>3 DEF Ledger!Others
  <2>3. HoldOf(r)'.status = "ACTIVE" /\ HoldOf(r)'.allocs = job[s].draw
    BY <1>4
  <2>4. \A u \in Units : [v \in Units |-> OnHand(v)][u] = OnHand(u)
    OBVIOUS
  <2> QED BY <1>4, <1>5, <1>6, <1>7, <1>8, <2>1, <2>2, <2>3, <2>4 DEF Ledger!Hold
<1> QED BY <1>1, <1>9

(* Any other commit brings a unit, or is not seen.                         *)
LEMMA LedgerAside ==
    ASSUME IInv, AddingInv, NEW s \in Sessions, HoldsTx(s), Commits(s), ~Returning(s), pc[s] # "reply"
    PROVE  (\E u \in Units : Ledger!PutOnHand(u)) \/ UNCHANGED Ledger!HoldVars
<1>1. /\ \A x \in Resvs : db'[x] = db[x]
      /\ \A u \in Units :
            /\ db[u] # Absent \/ writes[s][u] = Absent => OnHand(u)' = OnHand(u)
            /\ db[u] = Absent /\ writes[s][u] # Absent => OnHand(u) = 0 /\ OnHand(u)' > 0
  BY CommitAside
<1>2. [x \in Resvs |-> HoldOf(x)]' = [x \in Resvs |-> HoldOf(x)]
  BY <1>1 DEF HoldOf
<1>3. ASSUME NEW u \in Units, AddsUnit(s, u) PROVE Ledger!PutOnHand(u)
  <2>1. \A v \in Units \ {u} : OnHand(v)' = OnHand(v)
    BY <1>1, <1>3 DEF AddingInv
  <2>2. OnHand(u) = 0 /\ OnHand(u)' > 0
    BY <1>1, <1>3 DEF AddsUnit
  <2> QED BY <1>2, <2>1, <2>2 DEF Ledger!PutOnHand
<1>4. CASE ~\E u \in Units : AddsUnit(s, u)
  <2>1. \A u \in Units : OnHand(u)' = OnHand(u)
    BY <1>1, <1>4 DEF AddsUnit
  <2> QED BY <1>2, <2>1 DEF Ledger!HoldVars
<1> QED BY <1>3, <1>4

(* Every step of the service is one of the ledger, or is not seen.         *)
LEMMA LedgerStep ==
    ASSUME Transactional, IInv, Asked, Unhurried, OnHandInv, SegregationInv, HoldsInv, [Next]_vars
    PROVE  [Ledger!LedgerNext]_(Ledger!HoldVars)
<1>1. IInv' /\ Backed /\ AddingInv /\ \A s \in Sessions : HoldsTx(s)
  BY NextKeepsInvariant DEF HoldsInv, SegregationInv
<1>2. CASE db' = db
  <2>1. \A u : OnHand(u)' = OnHand(u)
    BY <1>2 DEF OnHand
  <2>2. \A r : HoldOf(r)' = HoldOf(r)
    BY <1>2 DEF HoldOf
  <2> QED BY <2>1, <2>2 DEF Ledger!HoldVars
<1>3. ASSUME NEW s \in Sessions, Commits(s), pc[s] \notin Resolves
      PROVE  [Ledger!LedgerNext]_(Ledger!HoldVars)
  <2>1. CASE Returning(s)
    <3>1. pc[s] = "commit" /\ job[s].act # "ACTIVE"
      BY <1>3, <2>1 DEF Returning
    <3> QED BY <1>1, <1>3, <3>1, LedgerResolves DEF Ledger!LedgerNext
  <2>2. CASE pc[s] = "reply"
    BY <1>1, <1>3, <2>2, LedgerHolds DEF Ledger!LedgerNext
  <2>3. CASE ~Returning(s) /\ pc[s] # "reply"
    BY <1>1, <1>3, <2>3, LedgerAside DEF Ledger!LedgerNext
  <2> QED BY <2>1, <2>2, <2>3
<1>4. db' = db \/ \E s \in Sessions : Commits(s) /\ pc[s] \notin Resolves
  BY <1>1, HoldsNext DEF Whole
<1> QED BY <1>2, <1>3, <1>4

(* What is held is reserved, and what is reserved is on hand.              *)
LEMMA LedgerSound ==
    ASSUME IInv, OnHandInv, HoldsInv
    PROVE  Ledger!NothingOversold
<1>1. ASSUME NEW u \in Units PROVE Ledger!HeldOn(u) <= OnHand(u)
  <2>1. TypeOK /\ db \in Tables
    BY DEF IInv, TypeOK
  <2>2. Ledger!HeldOn(u) = HeldIn(db, u) /\ HeldIn(db, u) \in Nat /\ HeldIn(db, u) <= Reserved(db, u)
    BY <2>1, LedgerHeld, HeldNat DEF HoldsInv, Backed
  <2>3. Reserved(db, u) <= OnHand(u) /\ Reserved(db, u) \in Nat /\ OnHand(u) \in Nat
    BY <2>1, RowKinds DEF OnHandInv, Sound, Reserved, OnHand, StockUnit
  <2> QED BY <2>2, <2>3
<1> QED BY <1>1 DEF Ledger!NothingOversold

(* No quantity is promised to two ACTIVE reservations, and none that is    *)
(* not on hand: all they hold of a unit together is there to be picked.    *)
THEOREM NothingIsOversold == Transactional => (Spec /\ []Unhurried => []Ledger!NothingOversold)
<1> SUFFICES ASSUME Transactional PROVE Spec /\ []Unhurried => []Ledger!NothingOversold
  OBVIOUS
<1>1. Init => IInv /\ Asked /\ OnHandInv /\ HoldsInv
  BY InitEstablishesInvariant, AskedInit, OnHandInit, HoldsInit
<1>2. (IInv /\ Asked /\ OnHandInv /\ HoldsInv) /\ Unhurried /\ [Next]_vars
      => (IInv /\ Asked /\ OnHandInv /\ HoldsInv)'
  BY AskedInductive, OnHandInductive, HoldsInductive, NextKeepsInvariant
<1>3. IInv /\ OnHandInv /\ HoldsInv => Ledger!NothingOversold
  BY LedgerSound
<1> QED BY <1>1, <1>2, <1>3, PTL DEF Spec

(* The committed tables move like the atomic ledger, for any number of     *)
(* requests, units, bins and crashes: each commit is one hold of free      *)
(* stock, one return, one pick, one unit put on hand, or nothing.          *)
THEOREM LedgerImplemented == Transactional => (Spec /\ []Unhurried => ImplementsLedger)
<1> SUFFICES ASSUME Transactional PROVE Spec /\ []Unhurried => ImplementsLedger
  OBVIOUS
<1>1. Init => IInv /\ Asked /\ OnHandInv /\ SegregationInv /\ HoldsInv
  BY InitEstablishesInvariant, AskedInit, OnHandInit, SegregationInit, HoldsInit
<1>2. /\ IInv /\ Asked /\ OnHandInv /\ SegregationInv /\ HoldsInv
      /\ Unhurried /\ [Next]_vars
      => (IInv /\ Asked /\ OnHandInv /\ SegregationInv /\ HoldsInv)'
  BY AskedInductive, OnHandInductive, SegregationInductive, HoldsInductive, NextKeepsInvariant
<1>3. IInv /\ OnHandInv /\ HoldsInv => Ledger!LedgerInit
  BY LedgerSound DEF Ledger!LedgerInit
<1>4. /\ IInv /\ Asked /\ OnHandInv /\ SegregationInv /\ HoldsInv
      /\ Unhurried /\ [Next]_vars
      => [Ledger!LedgerNext]_(Ledger!HoldVars)
  BY LedgerStep
<1> QED BY <1>1, <1>2, <1>3, <1>4, PTL DEF Spec, ImplementsLedger, Ledger!LedgerSpec
=============================================================================
