--------------------------- MODULE DeliveryProofs ---------------------------
(***************************************************************************)
(* Proofs that IInv is an invariant of Delivery, and of what follows from  *)
(* it.                                                                     *)
(***************************************************************************)
EXTENDS DeliveryInvariant, NumberLemmas, SequenceTheorems

-----------------------------------------------------------------------------
(* Encoding *)

(* What makes a message.                                                   *)
LEMMA MessageIs ==
    ASSUME NEW topic \in {"integration", "analytics"}, NEW type \in Entities \X STRING,
           NEW key \in DOMAIN PartitionOf, NEW sku \in STRING, NEW bin \in STRING, NEW qty \in Nat,
           NEW at \in Nat, NEW cloudEvent \in BOOLEAN, NEW readable \in BOOLEAN, NEW m,
           m = [topic |-> topic, type |-> type, key |-> key, sku |-> sku, bin |-> bin, qty |-> qty, at |-> at,
                cloudEvent |-> cloudEvent, readable |-> readable],
           Delta(m) > 0
    PROVE  m \in Messages
<1>1. m \in [topic : {"integration", "analytics"}, type : Entities \X STRING, key : DOMAIN PartitionOf,
             sku : STRING, bin : STRING, qty : Nat, at : Nat, cloudEvent : BOOLEAN, readable : BOOLEAN]
  OBVIOUS
<1> QED BY <1>1 DEF Messages

(* The message for the integration topic is one that can be sent.          *)
LEMMA IntegrationTyped ==
    ASSUME NEW e \in DomainEvents, {e.sku, e.bin, e.res} \subseteq DOMAIN PartitionOf
    PROVE  IntegrationMessages(e) \in Seq(Messages)
<1> DEFINE m == [topic |-> "integration", type |-> <<"reservation", e.kind>>, key |-> e.res,
                 sku |-> SkuIn(e), bin |-> Unspecified, qty |-> e.qty, at |-> e.at,
                 cloudEvent |-> TRUE, readable |-> TRUE]
<1>1. CASE e.kind \notin IntegrationKinds
  BY <1>1 DEF IntegrationMessages
<1>2. CASE e.kind \in IntegrationKinds
  <2>1. SkuIn(e) \in STRING
    BY NamesAssumption DEF SkuIn, DomainEvents
  <2>2. e.kind \in STRING /\ e.qty \in Nat /\ e.at \in Nat
    BY DEF DomainEvents
  <2>3. Delta(m) = 1
    BY <1>2 DEF Delta, IntegrationKinds, AmountKinds
  <2>4. <<"reservation", e.kind>> \in Entities \X STRING /\ e.res \in DOMAIN PartitionOf /\ Unspecified \in STRING
    BY <2>2, NamesAssumption DEF Entities
  <2>5. m \in Messages
    <3>1. Delta(m) > 0
      BY <2>3
    <3> HIDE DEF m
    <3>2. \A x : x = m /\ x = [topic |-> "integration", type |-> <<"reservation", e.kind>>, key |-> e.res,
                 sku |-> SkuIn(e), bin |-> Unspecified, qty |-> e.qty, at |-> e.at,
                 cloudEvent |-> TRUE, readable |-> TRUE] => x \in Messages
      BY <2>1, <2>2, <2>4, <3>1, MessageIs
    <3> QED BY <3>2 DEF m
  <2> QED BY <1>2, <2>5 DEF IntegrationMessages
<1> QED BY <1>1, <1>2

(* The message for the analytics topic is one that can be sent.            *)
LEMMA AnalyticsTyped ==
    ASSUME NEW e \in DomainEvents, {e.sku, e.bin, e.res} \subseteq DOMAIN PartitionOf
    PROVE  AnalyticsMessages(e) \in Seq(Messages)
<1> DEFINE sku == IF e.kind \in BinKinds THEN Unspecified ELSE SkuIn(e)
           bin == IF e.kind \in BinKinds \cup {"ItemStowed", "ItemUnlocated"} THEN e.bin ELSE Unspecified
           qty == IF e.kind \in BinKinds \cup Resolutions THEN 0 ELSE e.qty
           m == [topic |-> "analytics", type |-> <<EntityOf(e.kind), e.kind>>, key |-> AnalyticsKey(e),
                 sku |-> sku, bin |-> bin, qty |-> qty, at |-> e.at, cloudEvent |-> TRUE, readable |-> TRUE]
<1>1. CASE e.kind \notin AnalyticsKinds
  BY <1>1 DEF AnalyticsMessages
<1>2. CASE e.kind \in AnalyticsKinds
  <2>0. e.kind \in STRING /\ e.qty \in Nat /\ e.at \in Nat /\ e.sku \in STRING /\ e.bin \in STRING
        /\ e.res \in STRING
    BY NamesAssumption DEF DomainEvents
  <2>1. SkuIn(e) \in STRING
    BY NamesAssumption DEF SkuIn, DomainEvents
  <2>2. EntityOf(e.kind) \in Entities
    BY DEF EntityOf, Entities
  <2>3. AnalyticsKey(e) \in DOMAIN PartitionOf
    BY DEF AnalyticsKey
  <2>4. sku \in STRING /\ bin \in STRING /\ qty \in Nat
    BY <2>0, <2>1, NamesAssumption
  <2>5. Delta(m) > 0
    <3>1. CASE e.kind \in AmountKinds
      <4>1. e.kind \notin BinKinds \cup Resolutions
        BY <3>1 DEF AmountKinds, BinKinds, Resolutions
      <4>2. qty = e.qty /\ e.qty > 0
        BY <3>1, <4>1 DEF DomainEvents
      <4> QED BY <4>2, <3>1 DEF Delta
    <3>2. CASE e.kind \notin AmountKinds
      BY <3>2 DEF Delta
    <3> QED BY <3>1, <3>2
  <2>6. m \in Messages
    <3>1. <<EntityOf(e.kind), e.kind>> \in Entities \X STRING
      BY <2>0, <2>2
    <3> HIDE DEF sku, bin, qty
    <3> QED BY <3>1, <2>0, <2>3, <2>4, <2>5, MessageIs
  <2> QED BY <1>2, <2>6 DEF AnalyticsMessages
<1> QED BY <1>1, <1>2

(* An event is encoded as messages that can be sent.                       *)
LEMMA EncodedTyped ==
    ASSUME NEW e \in DomainEvents, {e.sku, e.bin, e.res} \subseteq DOMAIN PartitionOf
    PROVE  Encoded(e) \in Seq(Messages)
BY IntegrationTyped, AnalyticsTyped, ConcatProperties DEF Encoded

(* So are the events of a request: the function Rows builds exists, and    *)
(* its first value that is no sequence of messages would have none before  *)
(* it.                                                                     *)
LEMMA RowsTyped ==
    ASSUME NEW events, NEW k \in Nat, Len(events) = k,
           \A n \in 1 .. k : Encoded(events[n]) \in Seq(Messages)
    PROVE  Rows(events) \in Seq(Messages)
<1> DEFINE Builds(f, n) == /\ f[0] = <<>>
                           /\ \A i \in 1 .. n : f[i] = f[i - 1] \o Encoded(events[i])
           Built(n) == \E f \in [0 .. n -> Seq(Messages)] : Builds(f, n)
           Bad == {n \in 0 .. k : ~Built(n)}
<1>1. Bad = {}
  <2> SUFFICES ASSUME Bad # {} PROVE FALSE
    OBVIOUS
  <2>1. PICK n \in Bad : \A m \in Bad : n <= m
    <3> HIDE DEF Built
    <3>1. Bad \in SUBSET Nat
      OBVIOUS
    <3> HIDE DEF Bad
    <3> QED BY <3>1, LeastNatural
  <2>2. n # 0
    <3> DEFINE f == [i \in 0 .. 0 |-> <<>>]
    <3>0. <<>> \in Seq(Messages)
      OBVIOUS
    <3>1. f \in [0 .. 0 -> Seq(Messages)]
      BY <3>0
    <3>2. f[0] = <<>> /\ 1 .. 0 = {}
      OBVIOUS
    <3>3. Builds(f, 0)
      BY <3>2
    <3>4. Built(0)
      BY <3>1, <3>3
    <3> HIDE DEF Built
    <3> QED BY <3>4
  <2>3. n - 1 \in 0 .. k /\ n \in 1 .. k /\ n \in Nat /\ Built(n - 1)
    <3> HIDE DEF Built
    <3> QED BY <2>1, <2>2
  <2>4. PICK f \in [0 .. n - 1 -> Seq(Messages)] : Builds(f, n - 1)
    BY <2>3
  <2> DEFINE g == [i \in 0 .. n |-> IF i = n THEN f[n - 1] \o Encoded(events[n]) ELSE f[i]]
  <2>5. f[n - 1] \in Seq(Messages) /\ Encoded(events[n]) \in Seq(Messages)
    BY <2>3
  <2>6. f[n - 1] \o Encoded(events[n]) \in Seq(Messages)
    BY <2>5, ConcatProperties
  <2> DEFINE e(i) == Encoded(events[i])
  <2> HIDE DEF e
  <2>7. g \in [0 .. n -> Seq(Messages)]
    BY <2>3, <2>6 DEF e
  <2>8. Builds(g, n)
    <3>1. g[0] = <<>>
      BY <2>3, <2>4
    <3>2. ASSUME NEW i \in 1 .. n PROVE g[i] = g[i - 1] \o Encoded(events[i])
      <4>0. i \in 0 .. n /\ i - 1 \in 0 .. n /\ i - 1 # n /\ (i # n => i \in 1 .. n - 1)
        BY <2>3
      <4>1. g[i - 1] = f[i - 1]
        BY <4>0
      <4>2. g[i] = IF i = n THEN f[n - 1] \o Encoded(events[n]) ELSE f[i]
        BY <4>0
      <4>3. i # n => f[i] = f[i - 1] \o Encoded(events[i])
        BY <4>0, <2>4
      <4> HIDE DEF g
      <4> QED BY <4>1, <4>2, <4>3
    <3> QED BY <3>1, <3>2
  <2>9. Built(n)
    BY <2>7, <2>8
  <2> HIDE DEF Built
  <2> QED BY <2>9
<1> DEFINE Step(f) == [i \in 0 .. Len(events) |-> IF i = 0 THEN <<>> ELSE f[i - 1] \o Encoded(events[i])]
           Up == CHOOSE f : f = Step(f)
<1>0. Built(k)
  <2> HIDE DEF Built
  <2> QED BY <1>1
<1>2. PICK f \in [0 .. k -> Seq(Messages)] : Builds(f, k)
  BY <1>0
<1>3. f = Step(f)
  <2>1. ASSUME NEW i \in 0 .. k PROVE f[i] = IF i = 0 THEN <<>> ELSE f[i - 1] \o Encoded(events[i])
    <3>1. i = 0 \/ i \in 1 .. k
      OBVIOUS
    <3> QED BY <3>1, <1>2
  <2> QED BY <2>1
<1>4. Up = Step(Up)
  BY <1>3
<1>5. Rows(events) = Up[Len(events)]
  BY DEF Rows
<1> DEFINE Wrong == {n \in 0 .. k : Up[n] \notin Seq(Messages)}
<1>6. Up[0] = <<>> /\ \A i \in 1 .. k : Up[i] = Up[i - 1] \o Encoded(events[i])
  <2> HIDE DEF Up
  <2>1. Up[0] = <<>>
    BY <1>4
  <2>2. ASSUME NEW i \in 1 .. k PROVE Up[i] = Up[i - 1] \o Encoded(events[i])
    <3>1. i \in 0 .. Len(events) /\ i # 0
      OBVIOUS
    <3>2. Step(Up)[i] = Up[i - 1] \o Encoded(events[i])
      BY <3>1
    <3> HIDE DEF Step
    <3> QED BY <3>2, <1>4
  <2> QED BY <2>1, <2>2
<1> HIDE DEF Up
<1>7. Wrong = {}
  <2> SUFFICES ASSUME Wrong # {} PROVE FALSE
    OBVIOUS
  <2>1. PICK n \in Wrong : \A m \in Wrong : n <= m
    <3>1. Wrong \in SUBSET Nat
      OBVIOUS
    <3> HIDE DEF Wrong
    <3> QED BY <3>1, LeastNatural
  <2>2. n # 0
    <3>1. <<>> \in Seq(Messages)
      OBVIOUS
    <3> QED BY <3>1, <1>6
  <2>3. n \in 1 .. k /\ Up[n - 1] \in Seq(Messages)
    BY <2>1, <2>2
  <2>4. Encoded(events[n]) \in Seq(Messages)
    BY <2>3
  <2>5. Up[n - 1] \o Encoded(events[n]) \in Seq(Messages)
    BY ONLY <2>3, <2>4, ConcatProperties
  <2>6. Up[n] \in Seq(Messages)
    BY <2>3, <2>5, <1>6
  <2> QED BY <2>1, <2>6
<1> HIDE DEF Step, Built, Builds, Bad
<1>8. k \in 0 .. k
  OBVIOUS
<1>9. k \notin Wrong
  <2> HIDE DEF Wrong
  <2> QED BY <1>7
<1>10. Up[k] \in Seq(Messages)
  BY <1>8, <1>9
<1> HIDE DEF Wrong
<1> QED BY <1>5, <1>10

(* What a request is made of.                                              *)
LEMMA RequestFacts ==
    ASSUME work \in Workloads, NEW a \in Requests
    PROVE  /\ Keyed(a) \in BOOLEAN
           /\ Events(a) \in Seq(DomainEvents)
           /\ Rows(Events(a)) \in Seq(Messages)
           /\ work.requests[a].after \subseteq Requests
<1>1. Keyed(a) \in BOOLEAN /\ Events(a) \in Seq(DomainEvents) /\ work.requests[a].after \subseteq Requests
  BY RequestsAssumption DEF Keyed, Events, Requests
<1> DEFINE events == Events(a)
           k == Len(events)
<1>2. k \in Nat /\ \A n \in 1 .. k : n \in DOMAIN events /\ events[n] \in DomainEvents
  BY <1>1
<1>3. \A n \in 1 .. k : {events[n].sku, events[n].bin, events[n].res} \subseteq DOMAIN PartitionOf
  BY <1>2, RelaysAssumption DEF Events, Requests
<1>4. \A n \in 1 .. k : Encoded(events[n]) \in Seq(Messages)
  BY <1>2, <1>3, EncodedTyped
<1>5. Rows(events) \in Seq(Messages)
  <2> HIDE DEF events
  <2> QED BY <1>2, <1>4, RowsTyped
<1> QED BY <1>1, <1>5

(* The partitions messages can go to.                                      *)
LEMMA PartitionTyped ==
    ASSUME NEW m \in Messages
    PROVE  <<m.topic, PartitionOf[m.key]>> \in Topics \X Partitions
<1>1. m.topic \in Topics /\ m.key \in DOMAIN PartitionOf
  BY DEF Messages, Topics
<1> QED BY <1>1 DEF Partitions

(* What earlier releases have sent.                                        *)
LEMMA HistoryFacts ==
    ASSUME work \in Workloads
    PROVE  /\ work.history \in Seq(Entries)
           /\ \A n \in DOMAIN work.history :
                 /\ work.history[n] \in Entries /\ work.history[n].id < 1
                 /\ work.history[n].msg.topic = "analytics"
                 /\ \A m \in DOMAIN work.history :
                       work.history[m].id = work.history[n].id => work.history[m] = work.history[n]
<1>1. work.history \in Seq(Entries)
  BY HistoryAssumption
<1>2. \A n \in DOMAIN work.history : work.history[n] \in Entries
  BY <1>1
<1> QED BY <1>1, <1>2, HistoryAssumption

-----------------------------------------------------------------------------
(* The initial states *)

(* Every initial state satisfies the invariant.                            *)
LEMMA InitInvariant == Init => IInv
<1> SUFFICES ASSUME Init PROVE IInv
  OBVIOUS
<1> USE DEF Init, RequestInit
<1>0. work \in Workloads /\ RequestInit
  OBVIOUS
<1>1. RequestsTyped
  <2>1. <<>> \in Seq(Messages) /\ <<>> \in Seq(RowsToInsert)
    OBVIOUS
  <2>2. Idle \in RequestStates
    BY <2>1 DEF Idle, RequestStates
  <2>3. DOMAIN outbox = {} /\ outbox \in [DOMAIN outbox -> OutboxRows]
    OBVIOUS
  <2> QED BY <2>2, <2>3 DEF RequestsTyped
<1>2. \A tp \in DOMAIN log :
         /\ log[tp] \in Seq(Entries)
         /\ log[tp] = <<>> \/ (tp = <<"analytics", 1>> /\ log[tp] = work.history)
  <2>1. <<>> \in Seq(Entries) /\ work.history \in Seq(Entries)
    BY <1>0, HistoryFacts
  <2> QED BY <2>1
<1>3. RelaysTyped
  <2>1. NoPass \in Passes
    BY DEF NoPass, Passes
  <2>2. log \in [Topics \X Partitions -> Seq(Entries)]
    BY <1>2 DEF Topics
  <2> QED BY <2>1, <2>2 DEF RelaysTyped
<1>4. ProjectorTyped
  <2>1. Poll \in Handlers
    BY DEF Poll, Handlers
  <2>2. IsFiniteSet({})
    BY FS_EmptySet
  <2>3. IsABag(EmptyBag) /\ DOMAIN EmptyBag = {}
    BY DEF IsABag, EmptyBag, SetToBag
  <2> QED BY <2>1, <2>2, <2>3 DEF ProjectorTyped
<1>5. \A a \in Requests : req[a] = Idle /\ RowsOf(a) = {}
  BY DEF RowsOf
<1>6. IdsInv /\ LeftInv
  BY <1>5 DEF IdsInv, LeftInv, Idle, Running
<1>7. OrderInv
  BY <1>5 DEF OrderInv, Idle
<1>8. KeysInv
  <2>1. \A a \in Requests : ~Running(a) /\ ~Told(a)
    BY <1>5, AbsentAssumption DEF Idle, Running, Told, Answers
  <2>2. \A k \in Keys : keys[k] = Absent
    OBVIOUS
  <2> QED BY <1>5, <2>1, <2>2 DEF KeysInv
<1>9. PassesInv
  BY DEF PassesInv, NoPass, LockedBy, NothingLost
<1>10. LogInv
  <2> SUFFICES ASSUME NEW tp \in DOMAIN log, NEW n \in DOMAIN log[tp]
               PROVE  tp[1] = "analytics" /\ \E h \in DOMAIN work.history : log[tp][n] = work.history[h]
    BY DEF LogInv
  <2>1. tp = <<"analytics", 1>> /\ log[tp] = work.history
    BY <1>2
  <2> QED BY <2>1
<1>11. ClaimsInOrder /\ OneRelayKeepsOrder
  BY DEF ClaimsInOrder, OneRelayKeepsOrder, InKeyOrder
<1>12. ProjectorInv
  <2>1. \A p \in Partitions : cursor[p] = 0 /\ 1 .. cursor[p] = {} /\ 0 <= Len(Analytics(p))
    <3>1. ASSUME NEW p \in Partitions PROVE Len(Analytics(p)) \in Nat
      BY <1>3 DEF RelaysTyped, Analytics, Topics
    <3> QED BY <3>1
  <2>2. Read = {}
    BY <2>1 DEF Read, ReadFrom
  <2>3. Lost = {}
    BY <2>2 DEF Lost
  <2>4. \A c \in Consumers : handler[c] = [step |-> "poll", at |-> Absent]
    BY DEF Poll
  <2>5. \A c \in Consumers : handler[c].step = "poll" /\ Entry(c) = Absent
    BY <2>4 DEF Entry
  <2> QED BY <2>1, <2>3, <2>5, FS_EmptySet DEF ProjectorInv
<1> QED BY <1>1, <1>3, <1>4, <1>6, <1>7, <1>8, <1>9, <1>10, <1>11, <1>12 DEF IInv

-----------------------------------------------------------------------------
(* Steps of requests: what they do to requests and keys *)

RequestsInv == RequestsTyped /\ IdsInv /\ LeftInv /\ OrderInv /\ KeysInv

(* Rows may have become visible, and none of them is part of an earlier    *)
(* story of a key.                                                         *)
Grows ==
    /\ DOMAIN outbox \subseteq DOMAIN outbox'
    /\ \A i \in DOMAIN outbox : outbox'[i] = outbox[i]
    /\ \A i \in DOMAIN outbox' \ DOMAIN outbox :
          /\ ~outbox'[i].published /\ outbox'[i].attempts = 0
          /\ \A j \in DOMAIN outbox : /\ outbox'[i].by # outbox[j].by
                                      /\ outbox'[i].by \notin work.requests[outbox[j].by].after

(* What a request's state consists of.                                     *)
LEMMA RequestTyped ==
    ASSUME RequestsTyped, NEW a \in Requests
    PROVE  /\ req[a].step \in {"idle", "running", "answered"}
           /\ req[a].todo \in Seq(Messages) /\ req[a].rows \in Seq(RowsToInsert)
           /\ req[a].answer \in Answers \cup {Absent}
           /\ \A n \in DOMAIN req[a].rows : IdAt(a, n) \in Nat \ {0} /\ req[a].rows[n].msg \in Messages
           /\ work \in Workloads
<1>1. req[a] \in RequestStates
  BY DEF RequestsTyped
<1>2. req[a].rows \in Seq(RowsToInsert)
  BY <1>1 DEF RequestStates
<1>3. \A n \in DOMAIN req[a].rows : req[a].rows[n] \in RowsToInsert
  BY <1>2
<1> QED BY <1>1, <1>2, <1>3 DEF RequestStates, RowsToInsert, IdAt, RequestsTyped

(* A request that begins.                                                  *)
LEMMA RunKeepsRequests ==
    ASSUME RequestsInv, NEW a \in Requests, Due(a), Run(a),
           Keyed(a) => /\ KeyOf(a) # Absent /\ keys[KeyOf(a)] = Absent
                       /\ \A b \in Requests : Running(b) => ~OfKey(b, KeyOf(a))
    PROVE  RequestsInv' /\ Grows
<1> USE DEF RequestsInv
<1>1. work' = work /\ keys' = keys /\ outbox' = outbox /\ nextId' = nextId /\ mishaps' = mishaps
  BY DEF Run
<1>2. Requests' = Requests /\ Keys' = Keys
      /\ \A b \in Requests : /\ Keyed(b)' = Keyed(b) /\ KeyOf(b)' = KeyOf(b) /\ Events(b)' = Events(b)
                             /\ RowsOf(b)' = RowsOf(b)
  BY <1>1 DEF Requests, Keys, Keyed, KeyOf, Events, RowsOf
<1>3. /\ Rows(Events(a)) \in Seq(Messages) /\ req \in [Requests -> RequestStates] /\ req[a].step = "idle"
      /\ work \in Workloads
  BY RequestFacts DEF RequestsTyped, Due
<1>4. req[a].rows = <<>> /\ RowsOf(a) = {}
  BY <1>3 DEF LeftInv, OrderInv, Running
<1>5. /\ req'[a].step = "running" /\ req'[a].todo = Rows(Events(a)) /\ req'[a].rows = <<>>
      /\ req'[a].answer = req[a].answer /\ \A b \in Requests \ {a} : req'[b] = req[b]
  BY <1>3, <1>4 DEF Run, RequestStates
<1>6. req' \in [Requests -> RequestStates]
  BY <1>3 DEF Run, RequestStates
<1>7. RequestsTyped'
  BY <1>1, <1>2, <1>6 DEF RequestsTyped, OutboxRows, Requests
<1>8. IdsInv' /\ LeftInv'
  <2>1. \A b \in Requests : req'[b].rows = req[b].rows
    BY <1>4, <1>5
  <2>2. ASSUME NEW b \in Requests
        PROVE  IF Running(b)' THEN Len(req'[b].rows) + Len(req'[b].todo) = Len(Rows(Events(b)))
               ELSE req'[b].rows = <<>>
    <3>1. CASE b = a
      <4>1. Len(Rows(Events(a))) \in Nat
        BY <1>3
      <4>2. req'[b].rows = <<>> /\ req'[b].todo = Rows(Events(a)) /\ Running(b)' /\ Len(<<>>) = 0
        BY <1>5, <3>1 DEF Running
      <4> QED BY <3>1, <4>1, <4>2
    <3>2. CASE b # a
      <4>1. req'[b] = req[b] /\ Running(b)' = Running(b)
        BY <1>5, <3>2 DEF Running
      <4> QED BY <4>1 DEF LeftInv
    <3> QED BY <3>1, <3>2
  <2>3. LeftInv'
    BY <2>2, <1>2 DEF LeftInv
  <2>4. \A b : \A n : req'[b].rows = req[b].rows => IdAt(b, n)' = IdAt(b, n)
    BY DEF IdAt
  <2>5. IdsInv'
    BY <2>1, <2>4, <1>1, <1>2 DEF IdsInv
  <2> QED BY <2>3, <2>5
<1>9. OrderInv'
  <2>1. \A b \in Requests : req'[b].rows = req[b].rows
    BY <1>4, <1>5
  <2>2. \A b \in Requests : RowsOf(b) # {} => req'[b].step = "answered"
    BY <1>4, <1>5 DEF OrderInv
  <2>3. \A b \in Requests : \A c \in work.requests[b].after : req'[b].step # "idle" => RowsOf(c) # {}
    BY <1>5 DEF OrderInv, Due
  <2>4. \A b \in Requests : work.requests[b].after \subseteq Requests
    BY <1>3, RequestFacts
  <2> QED BY <2>1, <2>2, <2>3, <2>4, <1>1, <1>2 DEF OrderInv, IdAt
<1>10. KeysInv'
  <2>1. \A b \in Requests : Told(b)' = Told(b)
    BY <1>5 DEF Told
  <2>2. \A b \in Requests : Running(b)' = (Running(b) \/ b = a)
    BY <1>5 DEF Running
  <2>3. \A b \in Requests : req'[b].answer = req[b].answer
    BY <1>5
  <2>4. \A b \in Requests : req[b].step = "answered" => req'[b].step = "answered"
    BY <1>3, <1>5
  <2>5. \A b \in Requests : Keyed(b) /\ (Running(b)' \/ Told(b) \/ RowsOf(b) # {}) => KeyOf(b) # Absent
    BY <2>2 DEF KeysInv
  <2>6. ASSUME NEW b \in Requests, NEW c \in Requests, NEW k \in Keys, OfKey(b, k), OfKey(c, k)
        PROVE  /\ Running(b)' /\ Running(c)' => b = c
               /\ RowsOf(b) # {} /\ RowsOf(c) # {} => b = c
    BY <2>2, <2>6 DEF KeysInv, OfKey
  <2>7. ASSUME NEW b \in Requests, NEW k \in Keys, OfKey(b, k)
        PROVE  /\ Running(b)' => keys[k] = Absent
               /\ RowsOf(b) # {} => keys[k] # Absent
               /\ Told(b) => keys[k] = [hash |-> Events(b), answer |-> req'[b].answer]
    <3>1. Running(b)' => keys[k] = Absent
      <4>1. CASE b = a
        BY <4>1, <2>7 DEF OfKey
      <4>2. CASE b # a
        BY <4>2, <2>2, <2>7 DEF KeysInv
      <4> QED BY <4>1, <4>2
    <3>2. RowsOf(b) # {} => keys[k] # Absent
      BY <2>7 DEF KeysInv
    <3>3. Told(b) => keys[k] = [hash |-> Events(b), answer |-> req[b].answer]
      BY <2>7 DEF KeysInv
    <3> QED BY <3>1, <3>2, <3>3, <2>3
  <2>8. \A k \in Keys : keys[k] # Absent /\ keys[k].answer = "done" =>
          \E b \in Requests : /\ OfKey(b, k) /\ req'[b].step = "answered"
                              /\ Cardinality(RowsOf(b)) = Len(Rows(keys[k].hash))
    BY <2>4 DEF KeysInv
  <2>9. \A b \in Requests : \A k \in Keys : OfKey(b, k)' = OfKey(b, k)
    BY <1>2 DEF OfKey
  <2> HIDE DEF RequestsInv
  <2> QED BY <2>1, <2>5, <2>6, <2>7, <2>8, <2>9, <1>1, <1>2 DEF KeysInv
<1>11. Grows
  BY <1>1 DEF Grows
<1> QED BY <1>7, <1>8, <1>9, <1>10, <1>11

(* A request that is answered without a commit.                            *)
LEMMA AnswerKeepsRequests ==
    ASSUME RequestsInv, NEW a \in Requests, NEW answer \in Answers, Due(a) \/ Running(a), Answer(a, answer),
           UNCHANGED <<work, keys, outbox, nextId>>, mishaps' \in Nat,
           Keyed(a) /\ answer \in {"done", "refused"} =>
              KeyOf(a) # Absent /\ keys[KeyOf(a)] = [hash |-> Events(a), answer |-> answer]
    PROVE  RequestsInv' /\ Grows
<1> USE DEF RequestsInv
<1>2. Requests' = Requests /\ Keys' = Keys
      /\ \A b \in Requests : /\ Keyed(b)' = Keyed(b) /\ KeyOf(b)' = KeyOf(b) /\ Events(b)' = Events(b)
                             /\ RowsOf(b)' = RowsOf(b)
  BY DEF Requests, Keys, Keyed, KeyOf, Events, RowsOf
<1>3. req \in [Requests -> RequestStates] /\ work \in Workloads
  BY DEF RequestsTyped
<1>4. RowsOf(a) = {} /\ req[a].step # "answered"
  BY <1>3 DEF OrderInv, Running, Due
<1> DEFINE r == [Idle EXCEPT !.step = "answered", !.answer = answer]
<1>5. r \in RequestStates /\ r.step = "answered" /\ r.answer = answer /\ r.rows = <<>>
  <2>1. <<>> \in Seq(Messages) /\ <<>> \in Seq(RowsToInsert)
    OBVIOUS
  <2>2. Idle \in RequestStates /\ Idle.rows = <<>>
    BY <2>1 DEF Idle, RequestStates
  <2> QED BY <2>2 DEF RequestStates
<1>6. req' = [req EXCEPT ![a] = r]
  BY DEF Answer
<1> HIDE DEF r
<1>7. req'[a] = r /\ \A b \in Requests \ {a} : req'[b] = req[b]
  BY <1>3, <1>5, <1>6
<1>8. RequestsTyped'
  <2>1. req' \in [Requests -> RequestStates]
    BY <1>3, <1>5, <1>6
  <2> QED BY <2>1, <1>2 DEF RequestsTyped, OutboxRows, Requests
<1>9. IdsInv'
  <2>1. DOMAIN req'[a].rows = {}
    BY <1>5, <1>7
  <2>2. \A b \in Requests : \A n \in DOMAIN req'[b].rows :
           b # a /\ n \in DOMAIN req[b].rows /\ IdAt(b, n)' = IdAt(b, n) /\ req'[b].rows = req[b].rows
    BY <2>1, <1>7 DEF IdAt
  <2> QED BY <2>2, <1>2 DEF IdsInv
<1>10. LeftInv'
  <2>1. \A b \in Requests \ {a} : Running(b)' = Running(b)
    BY <1>7 DEF Running
  <2>2. ~Running(a)' /\ req'[a].rows = <<>>
    BY <1>5, <1>7 DEF Running
  <2> QED BY <2>1, <2>2, <1>2, <1>7 DEF LeftInv
<1>11. OrderInv'
  <2>1. \A b \in Requests : RowsOf(b) # {} => req'[b].step = "answered"
    BY <1>5, <1>7 DEF OrderInv
  <2>2. ASSUME NEW b \in Requests, NEW c \in work.requests[b].after, req'[b].step # "idle"
        PROVE  RowsOf(c) # {}
    <3>1. CASE b = a
      BY <3>1 DEF OrderInv, Due, Running
    <3>2. CASE b # a
      BY <3>2, <2>2, <1>7 DEF OrderInv
    <3> QED BY <3>1, <3>2
  <2>3. \A b \in Requests : \A n \in DOMAIN req'[b].rows : n \in DOMAIN req[b].rows /\ IdAt(b, n)' = IdAt(b, n)
    BY <1>5, <1>7 DEF IdAt
  <2>4. \A b \in Requests : work.requests[b].after \subseteq Requests
    BY <1>3, RequestFacts
  <2> QED BY <2>1, <2>2, <2>3, <2>4, <1>2 DEF OrderInv
<1>12. KeysInv'
  <2>1. \A b \in Requests \ {a} : /\ Running(b)' = Running(b) /\ Told(b)' = Told(b)
                                  /\ req'[b].answer = req[b].answer /\ req'[b].step = req[b].step
    BY <1>7 DEF Running, Told
  <2>2. ~Running(a)' /\ (Told(a)' = (answer \in {"done", "refused"})) /\ req'[a].answer = answer
        /\ req'[a].step = "answered"
    BY <1>5, <1>7 DEF Running, Told
  <2>3. \A b \in Requests : Keyed(b) /\ (Running(b)' \/ Told(b)' \/ RowsOf(b) # {}) => KeyOf(b) # Absent
    BY <2>1, <2>2 DEF KeysInv
  <2>4. ASSUME NEW b \in Requests, NEW c \in Requests, NEW k \in Keys, OfKey(b, k), OfKey(c, k)
        PROVE  /\ Running(b)' /\ Running(c)' => b = c
               /\ RowsOf(b) # {} /\ RowsOf(c) # {} => b = c
    BY <2>1, <2>2, <2>4 DEF KeysInv
  <2>5. ASSUME NEW b \in Requests, NEW k \in Keys, OfKey(b, k)
        PROVE  /\ Running(b)' => keys[k] = Absent
               /\ RowsOf(b) # {} => keys[k] # Absent
               /\ Told(b)' => keys[k] = [hash |-> Events(b), answer |-> req'[b].answer]
    <3>1. CASE b = a
      BY <3>1, <2>2, <2>5, <1>4 DEF OfKey
    <3>2. CASE b # a
      BY <3>2, <2>1, <2>5 DEF KeysInv
    <3> QED BY <3>1, <3>2
  <2>6. \A k \in Keys : keys[k] # Absent /\ keys[k].answer = "done" =>
          \E b \in Requests : /\ OfKey(b, k) /\ req'[b].step = "answered"
                              /\ Cardinality(RowsOf(b)) = Len(Rows(keys[k].hash))
    <3>1. \A b \in Requests : req[b].step = "answered" => req'[b].step = "answered"
      BY <2>1, <1>4
    <3> QED BY <3>1 DEF KeysInv
  <2>7. \A b \in Requests : \A k \in Keys : OfKey(b, k)' = OfKey(b, k)
    BY <1>2 DEF OfKey
  <2> HIDE DEF RequestsInv
  <2> QED BY <2>3, <2>4, <2>5, <2>6, <2>7, <1>2 DEF KeysInv
<1>13. Grows
  BY DEF Grows
<1> QED BY <1>8, <1>9, <1>10, <1>11, <1>12, <1>13

(* A request that inserts a row.                                           *)
LEMMA InsertKeepsRequests ==
    ASSUME RequestsInv, NEW a \in Requests, Insert(a)
    PROVE  RequestsInv' /\ Grows
<1> USE DEF RequestsInv
<1>1. work' = work /\ keys' = keys /\ outbox' = outbox /\ nextId' = nextId + 1 /\ mishaps' = mishaps
  BY DEF Insert
<1>2. Requests' = Requests /\ Keys' = Keys
      /\ \A b \in Requests : /\ Keyed(b)' = Keyed(b) /\ KeyOf(b)' = KeyOf(b) /\ Events(b)' = Events(b)
                             /\ RowsOf(b)' = RowsOf(b)
  BY <1>1 DEF Requests, Keys, Keyed, KeyOf, Events, RowsOf
<1>3. /\ req \in [Requests -> RequestStates] /\ work \in Workloads /\ nextId \in Nat \ {0}
      /\ DOMAIN outbox \subseteq 1 .. nextId - 1
  BY DEF RequestsTyped
<1>4. req[a].todo \in Seq(Messages) /\ req[a].rows \in Seq(RowsToInsert) /\ req[a].todo # <<>> /\ Running(a)
  BY RequestTyped DEF Insert
<1> DEFINE row == [id |-> nextId, msg |-> Head(req[a].todo)]
           L == Len(req[a].rows)
<1>5. Head(req[a].todo) \in Messages /\ Tail(req[a].todo) \in Seq(Messages)
      /\ Len(Tail(req[a].todo)) = Len(req[a].todo) - 1 /\ L \in Nat /\ Len(req[a].todo) \in Nat
  BY <1>4
<1>6. row \in RowsToInsert
  BY <1>3, <1>5 DEF RowsToInsert
<1>7. /\ Append(req[a].rows, row) \in Seq(RowsToInsert)
      /\ DOMAIN Append(req[a].rows, row) = 1 .. L + 1
      /\ Len(Append(req[a].rows, row)) = L + 1
      /\ Append(req[a].rows, row)[L + 1] = row
      /\ \A n \in 1 .. L : Append(req[a].rows, row)[n] = req[a].rows[n]
  BY <1>4, <1>5, <1>6
<1> DEFINE rows == Append(req[a].rows, row)
           todo == Tail(req[a].todo)
           r == [req[a] EXCEPT !.todo = todo, !.rows = rows]
<1>17. req' = [req EXCEPT ![a] = r]
  BY <1>3 DEF Insert
<1>18. r \in RequestStates /\ r.step = req[a].step /\ r.todo = todo /\ r.answer = req[a].answer /\ r.rows = rows
  <2>1. rows \in Seq(RowsToInsert) /\ todo \in Seq(Messages) /\ req[a] \in RequestStates
    BY <1>3, <1>5, <1>7
  <2> HIDE DEF rows, todo
  <2> QED BY <2>1 DEF RequestStates
<1> HIDE DEF r
<1>8. /\ req'[a].step = req[a].step /\ req'[a].todo = Tail(req[a].todo) /\ req'[a].answer = req[a].answer
      /\ req'[a].rows = Append(req[a].rows, row)
      /\ \A b \in Requests \ {a} : req'[b] = req[b]
  BY <1>3, <1>17, <1>18
<1> HIDE DEF rows, todo
<1>9. RequestsTyped'
  <2>3. req' \in [Requests -> RequestStates]
    BY <1>3, <1>17, <1>18
  <2>4. nextId' \in Nat \ {0} /\ DOMAIN outbox \subseteq 1 .. nextId' - 1
    BY <1>1, <1>3
  <2> QED BY <2>3, <2>4, <1>1, <1>2 DEF RequestsTyped, OutboxRows, Requests
<1> HIDE DEF row
<1>23. PICK K : K = L + 1
  OBVIOUS
<1>10. /\ \A b \in Requests \ {a} : \A n : IdAt(b, n)' = IdAt(b, n) /\ DOMAIN req'[b].rows = DOMAIN req[b].rows
       /\ \A n \in 1 .. L : IdAt(a, n)' = IdAt(a, n)
       /\ IdAt(a, K)' = nextId
       /\ DOMAIN req'[a].rows = 1 .. K /\ DOMAIN req[a].rows = 1 .. L
  <2>1. row.id = nextId
    BY DEF row
  <2>2. DOMAIN req[a].rows = 1 .. L
    BY <1>4
  <2>3. \A b \in Requests \ {a} : \A n : IdAt(b, n)' = IdAt(b, n) /\ DOMAIN req'[b].rows = DOMAIN req[b].rows
    BY <1>8 DEF IdAt
  <2>4. DOMAIN req'[a].rows = 1 .. K /\ req'[a].rows[K] = row
        /\ \A n \in 1 .. L : req'[a].rows[n] = req[a].rows[n]
    BY <1>7, <1>8, <1>23 DEF rows
  <2> HIDE DEF L
  <2> QED BY <2>1, <2>2, <2>3, <2>4 DEF IdAt
<1>19. L \in Nat /\ K \in Nat /\ K \in 1 .. K /\ (\A n \in 1 .. K : n = K \/ n \in 1 .. L)
       /\ \A n \in 1 .. K : n < K => n \in 1 .. L
  BY <1>5, <1>23
<1>20. L + Len(req[a].todo) = Len(Rows(Events(a)))
  BY <1>4 DEF LeftInv
<1>21. Len(req'[a].rows) = L + 1 /\ Len(req'[a].todo) = Len(req[a].todo) - 1
  BY <1>5, <1>7, <1>8 DEF rows, todo
<1> HIDE DEF L
<1>11. \A b \in Requests : \A n \in DOMAIN req[b].rows : IdAt(b, n) \in Nat /\ IdAt(b, n) < nextId
  BY RequestTyped DEF IdsInv
<1>12. IdsInv'
  <2> SUFFICES ASSUME NEW b \in Requests, NEW n \in DOMAIN req'[b].rows
               PROVE  /\ IdAt(b, n)' < nextId' /\ IdAt(b, n)' \notin DOMAIN outbox
                      /\ \A m \in DOMAIN req'[b].rows : m < n => IdAt(b, m)' < IdAt(b, n)'
                      /\ \A c \in Requests \ {b} : \A m \in DOMAIN req'[c].rows : IdAt(c, m)' # IdAt(b, n)'
    BY <1>1, <1>2 DEF IdsInv
  <2>1. CASE b = a /\ n = K
    <3>1. IdAt(b, n)' = nextId /\ nextId \notin DOMAIN outbox /\ nextId < nextId'
      BY <2>1, <1>10, <1>1, <1>3
    <3>2. \A m \in DOMAIN req'[b].rows : m < n => IdAt(b, m)' < nextId
      BY <2>1, <1>19, <1>10, <1>11
    <3>3. \A c \in Requests \ {b} : \A m \in DOMAIN req'[c].rows : IdAt(c, m)' # nextId
      BY <2>1, <1>10, <1>11, <1>3
    <3> QED BY <3>1, <3>2, <3>3
  <2>2. CASE ~(b = a /\ n = K)
    <3>1. n \in DOMAIN req[b].rows /\ IdAt(b, n)' = IdAt(b, n)
      BY <2>2, <1>19, <1>10
    <3>2. IdAt(b, n) < nextId' /\ IdAt(b, n) \notin DOMAIN outbox
      BY <3>1, <1>1, <1>3, <1>11 DEF IdsInv
    <3>3. ASSUME NEW m \in DOMAIN req'[b].rows, m < n PROVE IdAt(b, m)' < IdAt(b, n)
      <4>1. m \in DOMAIN req[b].rows /\ IdAt(b, m)' = IdAt(b, m)
        <5>1. b = a => m < K /\ m \in 1 .. K
          BY <3>1, <3>3, <1>19, <1>10
        <5> QED BY <5>1, <1>19, <1>10
      <4> QED BY <4>1, <3>1, <3>3 DEF IdsInv
    <3>4. ASSUME NEW c \in Requests \ {b}, NEW m \in DOMAIN req'[c].rows PROVE IdAt(c, m)' # IdAt(b, n)
      <4>1. CASE c = a /\ m = K
        BY <4>1, <3>1, <1>10, <1>11, <1>3
      <4>2. CASE ~(c = a /\ m = K)
        <5>1. m \in DOMAIN req[c].rows /\ IdAt(c, m)' = IdAt(c, m)
          BY <4>2, <1>19, <1>10
        <5> QED BY <5>1, <3>1 DEF IdsInv
      <4> QED BY <4>1, <4>2
    <3> QED BY <3>1, <3>2, <3>3, <3>4
  <2> QED BY <2>1, <2>2
<1>13. LeftInv'
  <2>1. \A b \in Requests : Running(b)' = Running(b)
    BY <1>8 DEF Running

  <2>3. ASSUME NEW b \in Requests
        PROVE  IF Running(b) THEN Len(req'[b].rows) + Len(req'[b].todo) = Len(Rows(Events(b)))
               ELSE req'[b].rows = <<>>
    <3>1. CASE b = a
      <4>1. Running(a)
        BY <1>4
      <4>2. Len(req[a].todo) \in Nat /\ L \in Nat
        BY <1>4, <1>19
      <4>3. Len(req'[a].rows) + Len(req'[a].todo) = Len(Rows(Events(a)))
        <5>1. \A l, n \in Nat : (l + 1) + (n - 1) = l + n
          OBVIOUS
        <5>2. (L + 1) + (Len(req[a].todo) - 1) = L + Len(req[a].todo)
          BY ONLY <4>2, <5>1
        <5>3. Len(req'[a].rows) = L + 1
          BY <1>21
        <5>4. Len(req'[a].todo) = Len(req[a].todo) - 1
          BY <1>21
        <5> QED BY ONLY <5>2, <5>3, <5>4, <1>20
      <4> QED BY <3>1, <4>1, <4>3
    <3>2. CASE b # a
      BY <3>2, <1>8 DEF LeftInv
    <3> QED BY <3>1, <3>2
  <2> QED BY <2>1, <2>3, <1>2 DEF LeftInv
<1>14. \A b \in Requests : req'[b].step = req[b].step /\ req'[b].answer = req[b].answer
  BY <1>8
<1>15. OrderInv'
  <2>1. \A b \in Requests : work.requests[b].after \subseteq Requests
    BY <1>3, RequestFacts
  <2>2. ASSUME NEW b \in Requests, NEW c \in work.requests[b].after, NEW i \in RowsOf(c),
               NEW n \in DOMAIN req'[b].rows
        PROVE  i < IdAt(b, n)'
    <3>1. CASE b = a /\ n = K
      <4>1. i \in DOMAIN outbox
        BY DEF RowsOf
      <4> QED BY <4>1, <3>1, <1>3, <1>10
    <3>2. CASE ~(b = a /\ n = K)
      <4>1. n \in DOMAIN req[b].rows /\ IdAt(b, n)' = IdAt(b, n)
        BY <3>2, <1>19, <1>10
      <4> QED BY <4>1 DEF OrderInv
    <3> QED BY <3>1, <3>2
  <2> QED BY <2>1, <2>2, <1>14, <1>2, <1>1 DEF OrderInv
<1>16. KeysInv'
  <2>1. \A b \in Requests : /\ Running(b)' = Running(b) /\ Told(b)' = Told(b)
                            /\ \A k \in Keys : OfKey(b, k)' = OfKey(b, k)
    BY <1>14, <1>2 DEF Running, Told, OfKey
  <2> QED BY <2>1, <1>1, <1>2, <1>14 DEF KeysInv
<1>22. Grows
  BY <1>1 DEF Grows
<1> QED BY <1>9, <1>12, <1>13, <1>15, <1>16, <1>22

Inserted(a) == {IdAt(a, n) : n \in DOMAIN req[a].rows}

(* At its commit what a request has inserted becomes visible as it was     *)
(* inserted, and only that.                                                *)
LEMMA ShowRowsFacts ==
    ASSUME RequestsInv, NEW a \in Requests, ShowRows(a)
    PROVE  /\ DOMAIN outbox' = DOMAIN outbox \cup Inserted(a)
           /\ Inserted(a) \cap DOMAIN outbox = {} /\ Inserted(a) \subseteq 1 .. nextId - 1
           /\ \A i \in DOMAIN outbox : outbox'[i] = outbox[i]
           /\ \A i \in Inserted(a) : /\ outbox'[i] \in OutboxRows /\ outbox'[i].by = a
                                     /\ ~outbox'[i].published /\ outbox'[i].attempts = 0
           /\ IsFiniteSet(Inserted(a)) /\ Cardinality(Inserted(a)) = Len(req[a].rows)
           /\ outbox' = [i \in DOMAIN outbox' |-> outbox'[i]]
<1> DEFINE rows == req[a].rows
           new == {rows[n].id : n \in DOMAIN rows}
           MsgOf(i) == (CHOOSE x \in {rows[n] : n \in DOMAIN rows} : x.id = i).msg
           Row(i) == [msg |-> MsgOf(i), by |-> a, published |-> FALSE, attempts |-> 0]
           row == [i \in new |-> Row(i)]
<1>1. new = Inserted(a)
  BY DEF Inserted, IdAt
<1>2. outbox' = [i \in DOMAIN outbox \cup DOMAIN row |-> IF i \in DOMAIN row THEN row[i] ELSE outbox[i]]
  BY DEF ShowRows
<1>3. DOMAIN row = new /\ \A i \in new : row[i] = Row(i)
  OBVIOUS
<1>4. \A i \in new : MsgOf(i) \in Messages
  <2> SUFFICES ASSUME NEW i \in new PROVE MsgOf(i) \in Messages
    OBVIOUS
  <2>1. \E x \in {rows[n] : n \in DOMAIN rows} : x.id = i
    OBVIOUS
  <2> DEFINE x == CHOOSE x \in {rows[n] : n \in DOMAIN rows} : x.id = i
  <2>2. x \in {rows[n] : n \in DOMAIN rows}
    BY <2>1
  <2> HIDE DEF x
  <2>3. x.msg \in Messages
    BY <2>2, RequestTyped DEF RequestsInv
  <2> QED BY <2>3 DEF x
<1> HIDE DEF MsgOf
<1>5. \A i \in new : Row(i) \in OutboxRows /\ Row(i).by = a /\ ~Row(i).published /\ Row(i).attempts = 0
  BY <1>4 DEF OutboxRows
<1> HIDE DEF Row, row
<1>6. DOMAIN outbox' = DOMAIN outbox \cup new /\ \A i \in new : outbox'[i] = Row(i)
  BY <1>2, <1>3
<1>7. new \cap DOMAIN outbox = {}
  BY <1>1 DEF RequestsInv, IdsInv, Inserted
<1>8. \A i \in DOMAIN outbox : outbox'[i] = outbox[i]
  BY <1>2, <1>3, <1>7
<1>9. \A n \in DOMAIN rows : IdAt(a, n) \in Nat \ {0} /\ IdAt(a, n) < nextId
  BY RequestTyped DEF RequestsInv, IdsInv
<1>10. Inserted(a) \subseteq 1 .. nextId - 1
  BY <1>9 DEF Inserted, RequestsInv, RequestsTyped
<1>11. IsFiniteSet(Inserted(a)) /\ Cardinality(Inserted(a)) = Len(rows)
  <2> DEFINE f == [n \in 1 .. Len(rows) |-> IdAt(a, n)]
  <2>1. DOMAIN rows = 1 .. Len(rows) /\ Len(rows) \in Nat
    BY RequestTyped DEF RequestsInv
  <2>2. f \in Surjection(1 .. Len(rows), Inserted(a))
    BY <2>1 DEF Surjection, Inserted
  <2>3. \A m, n \in 1 .. Len(rows) : IdAt(a, m) = IdAt(a, n) => m = n
    <3> SUFFICES ASSUME NEW m \in 1 .. Len(rows), NEW n \in 1 .. Len(rows), IdAt(a, m) = IdAt(a, n), m # n
                 PROVE  FALSE
      OBVIOUS
    <3>1. m < n \/ n < m
      BY <2>1
    <3>2. IdAt(a, m) < IdAt(a, n) \/ IdAt(a, n) < IdAt(a, m)
      BY <3>1, <2>1 DEF RequestsInv, IdsInv
    <3> QED BY <3>2, <1>9, <2>1
  <2>4. f \in Injection(1 .. Len(rows), Inserted(a))
    BY <2>2, <2>3 DEF Injection, IsInjective, Surjection
  <2>5. IsFiniteSet(1 .. Len(rows)) /\ Cardinality(1 .. Len(rows)) = Len(rows)
    BY <2>1, FS_Interval
  <2> HIDE DEF f
  <2> QED BY <2>2, <2>4, <2>5, FS_Surjection
<1>12. outbox' = [i \in DOMAIN outbox' |-> outbox'[i]]
  BY <1>2
<1> QED BY <1>1, <1>5, <1>6, <1>7, <1>8, <1>10, <1>11, <1>12

(* A commit with the outcome it stores under the key, whatever the caller  *)
(* is told of it.                                                          *)
LEMMA CommitKeepsRequests ==
    ASSUME RequestsInv, NEW a \in Requests, NEW outcome \in {"done", "refused"},
           NEW answer \in {outcome, "error"}, Running(a), outcome = "done" => req[a].todo = <<>>,
           CommitTx(a, outcome), Answer(a, answer), UNCHANGED <<work, nextId>>, mishaps' \in Nat
    PROVE  RequestsInv' /\ Grows
<1> USE DEF RequestsInv
<1>1. ShowRows(a) /\ RecordOutcome(a, outcome)
  BY DEF CommitTx
<1>2. Requests' = Requests /\ Keys' = Keys
      /\ \A b \in Requests : Keyed(b)' = Keyed(b) /\ KeyOf(b)' = KeyOf(b) /\ Events(b)' = Events(b)
  BY DEF Requests, Keys, Keyed, KeyOf, Events
<1>3. /\ req \in [Requests -> RequestStates] /\ work \in Workloads /\ nextId \in Nat \ {0}
      /\ DOMAIN outbox \subseteq 1 .. nextId - 1 /\ outbox \in [DOMAIN outbox -> OutboxRows]
      /\ keys \in [Keys -> Outcomes \cup {Absent}]
  BY DEF RequestsTyped
<1>4. RowsOf(a) = {} /\ req[a].step = "running"
  BY <1>3 DEF OrderInv, Running
<1>5. RowsOf(a)' = Inserted(a) /\ \A b \in Requests \ {a} : RowsOf(b)' = RowsOf(b)
  <2> DEFINE new == Inserted(a)
  <2>1. /\ DOMAIN outbox' = DOMAIN outbox \cup new /\ new \cap DOMAIN outbox = {}
        /\ \A i \in DOMAIN outbox : outbox'[i] = outbox[i]
        /\ \A i \in new : outbox'[i].by = a
    BY <1>1, ShowRowsFacts
  <2>2. \A i \in DOMAIN outbox : outbox[i].by # a
    BY <1>4 DEF RowsOf
  <2> HIDE DEF new, RequestsInv
  <2>3. RowsOf(a)' = new
    <3>1. RowsOf(a)' = {i \in DOMAIN outbox' : outbox'[i].by = a}
      BY DEF RowsOf
    <3> QED BY <2>1, <2>2, <3>1
  <2>4. ASSUME NEW b \in Requests \ {a} PROVE RowsOf(b)' = RowsOf(b)
    <3>1. RowsOf(b)' = {i \in DOMAIN outbox' : outbox'[i].by = b}
      BY DEF RowsOf
    <3> QED BY <2>1, <3>1 DEF RowsOf
  <2> QED BY <2>3, <2>4 DEF new
<1> DEFINE r == [Idle EXCEPT !.step = "answered", !.answer = answer]
<1>6. r \in RequestStates /\ r.step = "answered" /\ r.answer = answer /\ r.rows = <<>>
  <2>1. <<>> \in Seq(Messages) /\ <<>> \in Seq(RowsToInsert)
    OBVIOUS
  <2>2. Idle \in RequestStates /\ Idle.rows = <<>>
    BY <2>1 DEF Idle, RequestStates
  <2>3. answer \in Answers
    BY DEF Answers
  <2> QED BY <2>2, <2>3 DEF RequestStates
<1>7. req' = [req EXCEPT ![a] = r]
  BY DEF Answer
<1> HIDE DEF r
<1>8. req'[a] = r /\ \A b \in Requests \ {a} : req'[b] = req[b]
  BY <1>3, <1>6, <1>7
<1> DEFINE row == [hash |-> Events(a), answer |-> outcome]
<1>9. /\ Keyed(a) => KeyOf(a) \in Keys /\ keys' = [keys EXCEPT ![KeyOf(a)] = row]
      /\ ~Keyed(a) => keys' = keys
      /\ Keyed(a) \in BOOLEAN
  <2>1. Keyed(a) => KeyOf(a) \in Keys
    BY DEF KeysInv, Keys
  <2>2. Keyed(a) \in BOOLEAN
    BY <1>3, RequestFacts
  <2> QED BY <1>1, <2>1, <2>2 DEF RecordOutcome
<1>10. row \in Outcomes /\ row.hash = Events(a) /\ row.answer = outcome /\ row # Absent
  BY <1>3, RequestFacts, AbsentAssumption DEF Outcomes
<1> HIDE DEF row
<1>11. RequestsTyped'
  <2>1. req' \in [Requests -> RequestStates]
    BY <1>3, <1>6, <1>7
  <2>2. keys' \in [Keys -> Outcomes \cup {Absent}]
    BY <1>3, <1>9, <1>10
  <2>3. \A i \in DOMAIN outbox' : outbox'[i] \in OutboxRows
    BY <1>1, <1>3, ShowRowsFacts
  <2>4. outbox' = [i \in DOMAIN outbox' |-> outbox'[i]]
    BY <1>1, ShowRowsFacts
  <2>5. outbox' \in [DOMAIN outbox' -> OutboxRows]
    BY <2>3, <2>4
  <2>6. DOMAIN outbox' \subseteq 1 .. nextId - 1
    BY <1>1, <1>3, ShowRowsFacts
  <2> QED BY <2>1, <2>2, <2>5, <2>6, <1>2, <1>3 DEF RequestsTyped, OutboxRows, Requests
<1>12. \A b \in Requests : \A n \in DOMAIN req'[b].rows :
          b # a /\ n \in DOMAIN req[b].rows /\ IdAt(b, n)' = IdAt(b, n) /\ req'[b].rows = req[b].rows
  BY <1>6, <1>8 DEF IdAt
<1>13. IdsInv'
  <2>1. \A b \in Requests \ {a} : \A n \in DOMAIN req[b].rows : IdAt(b, n) \notin Inserted(a)
    BY DEF IdsInv, Inserted
  <2>2. ASSUME NEW b \in Requests, NEW n \in DOMAIN req'[b].rows PROVE IdAt(b, n) \notin DOMAIN outbox'
    <3>1. b # a /\ n \in DOMAIN req[b].rows
      BY <1>12
    <3>2. IdAt(b, n) \notin Inserted(a) /\ IdAt(b, n) \notin DOMAIN outbox
      BY <2>1, <3>1 DEF IdsInv
    <3>3. DOMAIN outbox' = DOMAIN outbox \cup Inserted(a)
      BY <1>1, ShowRowsFacts
    <3> QED BY <3>2, <3>3
  <2> QED BY <2>2, <1>2, <1>12 DEF IdsInv
<1>14. LeftInv'
  <2>1. \A b \in Requests \ {a} : Running(b)' = Running(b)
    BY <1>8 DEF Running
  <2>2. ~Running(a)' /\ req'[a].rows = <<>>
    BY <1>6, <1>8 DEF Running
  <2> QED BY <2>1, <2>2, <1>2, <1>8 DEF LeftInv
<1>15. \A b \in Requests : \A c \in work.requests[b].after : c \in Requests
  BY <1>3, RequestFacts
<1>16. \A b \in Requests : a \in work.requests[b].after =>
          b # a /\ req[b].step = "idle" /\ RowsOf(b) = {} /\ req[b].rows = <<>>
  <2> SUFFICES ASSUME NEW b \in Requests, a \in work.requests[b].after
               PROVE  b # a /\ req[b].step = "idle" /\ RowsOf(b) = {} /\ req[b].rows = <<>>
    OBVIOUS
  <2>1. req[b].step = "idle"
    BY <1>4 DEF OrderInv
  <2> QED BY <2>1, <1>4 DEF OrderInv, LeftInv, Running
<1>17. OrderInv'
  <2>1. \A b \in Requests : RowsOf(b)' # {} => req'[b].step = "answered"
    BY <1>5, <1>6, <1>8 DEF OrderInv
  <2>2. ASSUME NEW b \in Requests, NEW c \in work.requests[b].after
        PROVE  /\ req'[b].step # "idle" => RowsOf(c)' # {}
               /\ \A i \in RowsOf(c)' : /\ \A j \in RowsOf(b)' : i < j
                                        /\ \A n \in DOMAIN req'[b].rows : i < IdAt(b, n)'
    <3>1. CASE c = a
      <4>1. b # a /\ req'[b].step = "idle" /\ RowsOf(b)' = {} /\ req'[b].rows = <<>>
        BY <3>1, <1>5, <1>8, <1>16
      <4> QED BY <4>1
    <3>2. CASE c # a /\ b = a
      <4>1. RowsOf(c)' = RowsOf(c) /\ RowsOf(c) # {} /\ RowsOf(b)' = Inserted(a)
        BY <3>2, <1>4, <1>5, <1>15 DEF OrderInv
      <4>2. \A i \in RowsOf(c) : \A j \in Inserted(a) : i < j
        BY <3>2 DEF OrderInv, Inserted
      <4> QED BY <4>1, <4>2, <3>2, <1>12
    <3>3. CASE c # a /\ b # a
      BY <3>3, <1>5, <1>8, <1>12, <1>15 DEF OrderInv
    <3> QED BY <3>1, <3>2, <3>3
  <2> QED BY <2>1, <2>2, <1>2 DEF OrderInv
<1>18. KeysInv'
  <2>1. \A b \in Requests : \A k \in Keys : OfKey(b, k)' = OfKey(b, k)
    BY <1>2 DEF OfKey
  <2>2. \A b \in Requests \ {a} : /\ Running(b)' = Running(b) /\ Told(b)' = Told(b)
                                  /\ req'[b].answer = req[b].answer /\ req'[b].step = req[b].step
    BY <1>8 DEF Running, Told
  <2>3. ~Running(a)' /\ (Told(a)' => answer = outcome) /\ req'[a].answer = answer /\ req'[a].step = "answered"
    BY <1>6, <1>8 DEF Running, Told
  <2>4. \A k \in Keys : IF OfKey(a, k) THEN keys'[k] = row /\ keys[k] = Absent ELSE keys'[k] = keys[k]
    BY <1>3, <1>9 DEF OfKey, KeysInv
  <2>5. \A b \in Requests \ {a} : \A k \in Keys : OfKey(a, k) /\ OfKey(b, k) =>
           ~Running(b) /\ RowsOf(b) = {} /\ ~Told(b)
    <3> SUFFICES ASSUME NEW b \in Requests \ {a}, NEW k \in Keys, OfKey(a, k), OfKey(b, k)
                 PROVE  ~Running(b) /\ RowsOf(b) = {} /\ ~Told(b)
      OBVIOUS
    <3>1. keys[k] = Absent
      BY <2>4
    <3>2. ~Running(b)
      BY DEF KeysInv
    <3>3. RowsOf(b) = {}
      BY <3>1 DEF KeysInv
    <3>4. ~Told(b)
      <4> SUFFICES ASSUME Told(b) PROVE FALSE
        OBVIOUS
      <4>1. keys[k] = [hash |-> Events(b), answer |-> req[b].answer]
        BY DEF KeysInv
      <4>2. [hash |-> Events(b), answer |-> req[b].answer] \in Outcomes
        BY <1>3, RequestFacts DEF Outcomes, Told
      <4> QED BY <3>1, <4>1, <4>2, AbsentAssumption
    <3> QED BY <3>2, <3>3, <3>4
  <2>6. \A b \in Requests : Keyed(b) /\ (Running(b)' \/ Told(b)' \/ RowsOf(b)' # {}) => KeyOf(b) # Absent
    <3>1. Keyed(a) => KeyOf(a) # Absent
      BY DEF KeysInv
    <3> QED BY <3>1, <2>2, <1>5 DEF KeysInv
  <2>7. ASSUME NEW b \in Requests, NEW c \in Requests, NEW k \in Keys, OfKey(b, k), OfKey(c, k)
        PROVE  /\ Running(b)' /\ Running(c)' => b = c
               /\ RowsOf(b)' # {} /\ RowsOf(c)' # {} => b = c
    <3>1. CASE b = a \/ c = a
      BY <3>1, <2>2, <2>3, <2>5, <2>7, <1>5
    <3>2. CASE b # a /\ c # a
      BY <3>2, <2>2, <2>7, <1>5 DEF KeysInv
    <3> QED BY <3>1, <3>2
  <2>8. ASSUME NEW b \in Requests, NEW k \in Keys, OfKey(b, k)
        PROVE  /\ Running(b)' => keys'[k] = Absent
               /\ RowsOf(b)' # {} => keys'[k] # Absent
               /\ Told(b)' => keys'[k] = [hash |-> Events(b), answer |-> req'[b].answer]
    <3>1. CASE b = a
      BY <3>1, <2>3, <2>4, <2>8, <1>10 DEF row
    <3>2. CASE b # a /\ OfKey(a, k)
      BY <3>2, <2>2, <2>5, <2>8, <1>5
    <3>3. CASE b # a /\ ~OfKey(a, k)
      BY <3>3, <2>2, <2>4, <2>8, <1>5 DEF KeysInv
    <3> QED BY <3>1, <3>2, <3>3
  <2>9. ASSUME NEW k \in Keys, keys'[k] # Absent, keys'[k].answer = "done"
        PROVE  \E b \in Requests : /\ OfKey(b, k) /\ req'[b].step = "answered"
                                   /\ Cardinality(RowsOf(b)') = Len(Rows(keys'[k].hash))
    <3>1. CASE OfKey(a, k)
      <4>1. keys'[k].hash = Events(a) /\ outcome = "done"
        BY <3>1, <2>4, <2>9, <1>10
      <4>2. req[a].todo = <<>> /\ Len(req[a].rows) \in Nat
        BY <4>1, RequestTyped
      <4>5. Len(req[a].rows) + Len(req[a].todo) = Len(Rows(Events(a)))
        BY DEF LeftInv
      <4>6. Len(req[a].todo) = 0
        BY <4>2
      <4>3. Len(req[a].rows) = Len(Rows(Events(a)))
        BY <4>2, <4>5, <4>6
      <4>4. Cardinality(RowsOf(a)') = Len(Rows(Events(a)))
        BY <4>3, <1>1, <1>5, ShowRowsFacts
      <4> QED BY <3>1, <4>1, <4>4, <2>3
    <3>2. CASE ~OfKey(a, k)
      <4>1. PICK b \in Requests : /\ OfKey(b, k) /\ req[b].step = "answered"
                                  /\ Cardinality(RowsOf(b)) = Len(Rows(keys[k].hash))
        BY <3>2, <2>4, <2>9 DEF KeysInv
      <4>2. b # a /\ keys'[k] = keys[k]
        BY <3>2, <4>1, <2>4
      <4> QED BY <4>1, <4>2, <2>2, <1>5
    <3> QED BY <3>1, <3>2
  <2> HIDE DEF RequestsInv
  <2> QED BY <2>1, <2>6, <2>7, <2>8, <2>9, <1>2 DEF KeysInv
<1>19. Grows
  <2>1. \A i \in DOMAIN outbox' \ DOMAIN outbox : outbox'[i].by = a /\ ~outbox'[i].published /\ outbox'[i].attempts = 0
    BY <1>1, ShowRowsFacts
  <2>2. ASSUME NEW j \in DOMAIN outbox PROVE a # outbox[j].by /\ a \notin work.requests[outbox[j].by].after
    <3>1. outbox[j].by \in Requests /\ j \in RowsOf(outbox[j].by)
      BY <1>3 DEF OutboxRows, RowsOf
    <3> QED BY <3>1, <1>4, <1>16
  <2> QED BY <2>1, <2>2, <1>1, ShowRowsFacts DEF Grows
<1> QED BY <1>11, <1>13, <1>14, <1>17, <1>18, <1>19

(* Every step of a request.                                                *)
LEMMA RequestStep ==
    ASSUME RequestsInv, RequestNext
    PROVE  RequestsInv' /\ Grows /\ work' = work
<1>1. PICK a \in Requests : \/ Start(a) \/ RequireKey(a) \/ Claim(a) \/ Replay(a)
                            \/ Insert(a) \/ Respond(a) \/ Refuse(a) \/ Abort(a) \/ CommitUnknown(a)
  BY DEF RequestNext
<1>2. work \in Workloads /\ mishaps \in Nat /\ keys \in [Keys -> Outcomes \cup {Absent}]
  BY DEF RequestsInv, RequestsTyped
<1>3. CASE Start(a)
  <2>1. Due(a) /\ Run(a) /\ ~Keyed(a)
    BY <1>3 DEF Start
  <2>2. work' = work
    BY <2>1 DEF Run
  <2> QED BY <2>1, <2>2, RunKeepsRequests
<1>4. CASE RequireKey(a)
  <2>1. Due(a) /\ Answer(a, "key required") /\ UNCHANGED <<work, keys, outbox, nextId>> /\ mishaps' \in Nat
    BY <1>2, <1>4 DEF RequireKey
  <2>2. "key required" \in Answers /\ "key required" \notin {"done", "refused"}
    BY DEF Answers
  <2> QED BY <2>1, <2>2, AnswerKeepsRequests
<1>5. CASE Claim(a)
  <2>1. Due(a) /\ Run(a) /\ KeyOf(a) # Absent /\ keys[KeyOf(a)] = Absent /\ ~Claimed(KeyOf(a))
    BY <1>5 DEF Claim
  <2>2. work' = work
    BY <2>1 DEF Run
  <2>3. \A b \in Requests : Running(b) => ~OfKey(b, KeyOf(a))
    BY <2>1 DEF Claimed, OfKey
  <2> QED BY <2>1, <2>2, <2>3, RunKeepsRequests
<1>6. CASE Replay(a)
  <2> DEFINE row == keys[KeyOf(a)]
             answer == IF row.hash # Events(a) THEN "key reused" ELSE row.answer
  <2>1. Due(a) /\ KeyOf(a) # Absent /\ row # Absent /\ Answer(a, answer)
    BY <1>6 DEF Replay
  <2>2. UNCHANGED <<work, keys, outbox, nextId>> /\ mishaps' \in Nat
    BY <1>2, <1>6 DEF Replay
  <2>3. row \in Outcomes
    <3>1. KeyOf(a) \in Keys
      BY <2>1 DEF Keys
    <3> QED BY <2>1, <3>1, <1>2
  <2>4. row.answer \in {"done", "refused"} /\ row = [hash |-> row.hash, answer |-> row.answer]
    BY <2>3 DEF Outcomes
  <2>5. answer \in Answers
    BY <2>4 DEF Answers
  <2>6. answer \in {"done", "refused"} => row = [hash |-> Events(a), answer |-> answer]
    BY <2>4
  <2> HIDE DEF answer
  <2> QED BY <2>1, <2>2, <2>5, <2>6, AnswerKeepsRequests
<1>7. CASE Insert(a)
  <2>1. work' = work
    BY <1>7 DEF Insert
  <2> QED BY <2>1, <1>7, InsertKeepsRequests
<1>8. CASE Respond(a)
  <2>1. /\ Running(a) /\ req[a].todo = <<>> /\ CommitTx(a, "done") /\ Answer(a, "done")
        /\ UNCHANGED <<work, nextId>> /\ mishaps' \in Nat
    BY <1>2, <1>8 DEF Respond
  <2> QED BY <2>1, CommitKeepsRequests
<1>9. CASE Refuse(a)
  <2>1. Running(a) /\ Answer(a, "refused") /\ UNCHANGED <<work, nextId>> /\ mishaps' \in Nat
    BY <1>2, <1>9 DEF Refuse
  <2>2. CASE Keyed(a)
    <3>1. CommitTx(a, "refused")
      BY <1>9, <2>2 DEF Refuse
    <3> QED BY <2>1, <3>1, CommitKeepsRequests
  <2>3. CASE ~Keyed(a)
    <3>1. UNCHANGED <<keys, outbox>>
      BY <1>9, <2>3 DEF Refuse
    <3>2. "refused" \in Answers
      BY DEF Answers
    <3> QED BY <2>1, <2>3, <3>1, <3>2, AnswerKeepsRequests
  <2> QED BY <2>2, <2>3
<1>10. CASE Abort(a)
  <2>1. Running(a) /\ Answer(a, "error") /\ UNCHANGED <<work, keys, outbox, nextId>> /\ mishaps' \in Nat
    BY <1>2, <1>10 DEF Abort, Mishap
  <2>2. "error" \in Answers /\ "error" \notin {"done", "refused"}
    BY DEF Answers
  <2> QED BY <2>1, <2>2, AnswerKeepsRequests
<1>11. CASE CommitUnknown(a)
  <2>1. /\ Running(a) /\ req[a].todo = <<>> /\ CommitTx(a, "done") /\ Answer(a, "error")
        /\ UNCHANGED <<work, nextId>> /\ mishaps' \in Nat
    BY <1>2, <1>11 DEF CommitUnknown, Mishap
  <2> QED BY <2>1, CommitKeepsRequests
<1> QED BY <1>1, <1>3, <1>4, <1>5, <1>6, <1>7, <1>8, <1>9, <1>10, <1>11

-----------------------------------------------------------------------------
(* Steps of requests: what relays and consumers rely on *)

RelaysInv == RelaysTyped /\ PassesInv /\ LogInv /\ ClaimsInOrder /\ OneRelayKeepsOrder

(* New rows disturb no relay.                                              *)
LEMMA GrowthKeepsRelays ==
    ASSUME RequestsInv, RequestsInv', RelaysInv, Grows, UNCHANGED <<work, pass, log>>
    PROVE  RelaysInv'
<1> USE DEF RelaysInv
<1>1. Relays' = Relays /\ Requests' = Requests /\ \A r \in Relays : LockedBy(r)' = LockedBy(r)
  BY DEF Relays, Requests, LockedBy
<1>2. \A i : Sent(i)' = Sent(i)
  BY DEF Sent
<1>3. RelaysTyped'
  BY <1>1 DEF RelaysTyped
<1>4. DOMAIN outbox \subseteq DOMAIN outbox' /\ \A i \in DOMAIN outbox : outbox'[i] = outbox[i]
  BY DEF Grows
<1>5. \A i \in DOMAIN outbox' \ DOMAIN outbox : ~outbox'[i].published /\ outbox'[i].attempts = 0
  BY DEF Grows
<1>6. \A i \in DOMAIN outbox : Exhausted(i)' = Exhausted(i)
  BY <1>4 DEF Exhausted
<1>7. work \in Workloads /\ work.maxAttempts \in Nat
  BY RelaysAssumption DEF RequestsInv, RequestsTyped
<1>8. PassesInv'
  <2>1. \A r \in Relays :
          /\ pass[r].open \/ LockedBy(r) = {}
          /\ pass[r].todo \cap pass[r].sent = {}
          /\ LockedBy(r) \subseteq DOMAIN outbox'
          /\ \A o \in Relays \ {r} : LockedBy(r) \cap LockedBy(o) = {}
          /\ \A i \in LockedBy(r) : ~outbox'[i].published /\ ~Exhausted(i)'
          /\ \A i \in pass[r].sent : Sent(i)
    BY <1>4, <1>6 DEF PassesInv
  <2>2. work.maxAttempts > 0 => \A i \in DOMAIN outbox' : outbox'[i].attempts <= work.maxAttempts
    <3> SUFFICES ASSUME work.maxAttempts > 0, NEW i \in DOMAIN outbox'
                 PROVE  outbox'[i].attempts <= work.maxAttempts
      OBVIOUS
    <3>1. CASE i \in DOMAIN outbox
      BY <3>1, <1>4 DEF PassesInv
    <3>2. CASE i \notin DOMAIN outbox
      BY <3>2, <1>5, <1>7
    <3> QED BY <3>1, <3>2
  <2>3. \A i \in DOMAIN outbox' : outbox'[i].published => Sent(i)
    BY <1>4, <1>5 DEF PassesInv, NothingLost
  <2> QED BY <2>1, <2>2, <2>3, <1>1, <1>2 DEF PassesInv, NothingLost
<1>9. LogInv'
  BY <1>4 DEF LogInv
<1>10. \A j \in DOMAIN outbox : \A i \in DOMAIN outbox' : Later(i, j)' => i \in DOMAIN outbox /\ Later(i, j)
  <2> SUFFICES ASSUME NEW j \in DOMAIN outbox, NEW i \in DOMAIN outbox', Later(i, j)'
               PROVE  i \in DOMAIN outbox /\ Later(i, j)
    OBVIOUS
  <2>1. outbox'[i].by = outbox[j].by \/ outbox'[i].by \in work.requests[outbox[j].by].after
    BY <1>4 DEF Later
  <2>2. i \in DOMAIN outbox
    BY <2>1 DEF Grows
  <2> QED BY <2>2, <1>4 DEF Later
<1>11. ClaimsInOrder'
  <2>1. Locked' = Locked
    BY <1>1 DEF Locked
  <2>2. Locked \subseteq DOMAIN outbox
    BY DEF Locked, PassesInv
  <2> QED BY <2>1, <2>2, <1>1, <1>4, <1>10 DEF ClaimsInOrder
<1>12. OneRelayKeepsOrder'
  <2> SUFFICES ASSUME Cardinality(Relays) = 1, work.maxAttempts = 0 PROVE InKeyOrder'
    BY <1>1 DEF OneRelayKeepsOrder
  <2>1. InKeyOrder
    BY DEF OneRelayKeepsOrder
  <2> SUFFICES ASSUME NEW i \in DOMAIN outbox', NEW j \in DOMAIN outbox', Later(i, j)',
                      NEW tp \in DOMAIN log, NEW n \in FirstAt(j, log[tp])
               PROVE  \E m \in FirstAt(i, log[tp]) : m < n
    BY DEF InKeyOrder, FirstAt
  <2>2. n \in DOMAIN log[tp] /\ log[tp][n].id = j
    BY DEF FirstAt
  <2>3. j \in Nat /\ j >= 1
    BY DEF RequestsInv, RequestsTyped
  <2>4. j \in DOMAIN outbox
    <3>1. \A h \in DOMAIN work.history : work.history[h].id < 1
      BY <1>7, HistoryFacts
    <3> QED BY <2>2, <2>3, <3>1 DEF LogInv
  <2>5. i \in DOMAIN outbox /\ Later(i, j)
    BY <2>4, <1>10
  <2> QED BY <2>1, <2>4, <2>5 DEF InKeyOrder
<1> QED BY <1>3, <1>8, <1>9, <1>11, <1>12

-----------------------------------------------------------------------------
(* Steps of relays *)

(* A row keeps what it tells and of whom.                                  *)
RowsKept ==
    /\ DOMAIN outbox' = DOMAIN outbox
    /\ \A i \in DOMAIN outbox : outbox'[i].msg = outbox[i].msg /\ outbox'[i].by = outbox[i].by

(* That is all requests ask of a relay.                                    *)
LEMMA RelayKeepsRequests ==
    ASSUME RequestsInv, RowsKept, UNCHANGED <<work, keys, nextId, req>>, mishaps' \in Nat,
           outbox' \in [DOMAIN outbox' -> OutboxRows]
    PROVE  RequestsInv'
<1> USE DEF RequestsInv, RowsKept
<1>1. Requests' = Requests /\ Keys' = Keys
      /\ \A b \in Requests : /\ Keyed(b)' = Keyed(b) /\ KeyOf(b)' = KeyOf(b) /\ Events(b)' = Events(b)
                             /\ Running(b)' = Running(b) /\ Told(b)' = Told(b)
                             /\ \A k : OfKey(b, k)' = OfKey(b, k)
  BY DEF Requests, Keys, Keyed, KeyOf, Events, Running, Told, OfKey
<1>2. \A b : \A n : IdAt(b, n)' = IdAt(b, n)
  BY DEF IdAt
<1>3. \A b : RowsOf(b)' = RowsOf(b)
  BY DEF RowsOf
<1>4. RequestsTyped'
  <2>1. OutboxRows' = OutboxRows
    BY <1>1 DEF OutboxRows
  <2>2. outbox' \in [DOMAIN outbox -> OutboxRows]
    BY <2>1
  <2> QED BY <1>1, <2>1, <2>2 DEF RequestsTyped
<1>5. IdsInv'
  BY <1>1, <1>2 DEF IdsInv
<1>6. LeftInv'
  BY <1>1 DEF LeftInv
<1>7. OrderInv'
  <2>1. work \in Workloads
    BY DEF RequestsTyped
  <2>2. \A b \in Requests : work.requests[b].after \subseteq Requests
    BY <2>1, RequestFacts
  <2> QED BY <1>1, <1>2, <1>3, <2>2 DEF OrderInv
<1>8. KeysInv'
  BY <1>1, <1>3 DEF KeysInv
<1> QED BY <1>4, <1>5, <1>6, <1>7, <1>8

(* What the log has stored stays where it is.                              *)
LogGrows ==
    /\ DOMAIN log' = DOMAIN log
    /\ \A tp \in DOMAIN log : /\ Len(log[tp]) <= Len(log'[tp])
                              /\ \A n \in 1 .. Len(log[tp]) : log'[tp][n] = log[tp][n]

(* The message of a claimed row is stored at the end of its partition.     *)
LEMMA StoredFacts ==
    ASSUME RequestsInv, RelaysInv, NEW i \in DOMAIN outbox, Stored(i)
    PROVE  \E tp \in DOMAIN log : \E L \in Nat : \E K \in Nat :
              /\ tp = <<outbox[i].msg.topic, PartitionOf[outbox[i].msg.key]>>
              /\ L = Len(log[tp]) /\ K = L + 1
              /\ log' \in [Topics \X Partitions -> Seq(Entries)]
              /\ DOMAIN log[tp] = 1 .. L /\ DOMAIN log'[tp] = 1 .. K
              /\ log'[tp][K] = [id |-> i, msg |-> outbox[i].msg]
              /\ \A n \in 1 .. L : log'[tp][n] = log[tp][n]
              /\ \A n \in 1 .. K : n = K \/ n \in 1 .. L
              /\ \A u \in DOMAIN log \ {tp} : log'[u] = log[u]
              /\ DOMAIN log' = DOMAIN log
<1> DEFINE m == outbox[i].msg
           tp == <<m.topic, PartitionOf[m.key]>>
           entry == [id |-> i, msg |-> m]
           L == Len(log[tp])
<1>1. m \in Messages /\ i \in Int
  BY DEF RequestsInv, RequestsTyped, OutboxRows
<1>2. log \in [Topics \X Partitions -> Seq(Entries)]
  BY DEF RelaysInv, RelaysTyped
<1>3. tp \in Topics \X Partitions
  BY <1>1, PartitionTyped
<1>4. entry \in Entries
  BY <1>1 DEF Entries
<1>5. log' = [log EXCEPT ![tp] = Append(@, entry)]
  BY DEF Stored
<1>6. log[tp] \in Seq(Entries)
  BY <1>2, <1>3
<1> HIDE DEF m, tp, entry
<1>7. /\ Append(log[tp], entry) \in Seq(Entries) /\ L \in Nat /\ DOMAIN log[tp] = 1 .. L
      /\ DOMAIN Append(log[tp], entry) = 1 .. L + 1
      /\ Append(log[tp], entry)[L + 1] = entry
      /\ \A n \in 1 .. L : Append(log[tp], entry)[n] = log[tp][n]
  BY <1>4, <1>6
<1>8. log'[tp] = Append(log[tp], entry) /\ tp \in DOMAIN log /\ DOMAIN log' = DOMAIN log
      /\ \A u \in DOMAIN log \ {tp} : log'[u] = log[u]
  BY <1>2, <1>3, <1>5
<1>9. log' \in [Topics \X Partitions -> Seq(Entries)]
  BY <1>2, <1>3, <1>5, <1>7
<1> HIDE DEF L
<1>10. PICK K \in Nat : K = L + 1
  BY <1>7
<1>11. \A n \in 1 .. K : n = K \/ n \in 1 .. L
  BY <1>7, <1>10
<1>12. L = Len(log[tp]) /\ entry = [id |-> i, msg |-> outbox[i].msg]
       /\ tp = <<outbox[i].msg.topic, PartitionOf[outbox[i].msg.key]>>
  BY DEF L, tp, entry, m
<1>13. tp \in DOMAIN log /\ L \in Nat /\ K \in Nat
  BY <1>7, <1>8
<1>14. PICK x : x = tp
  OBVIOUS
<1>15. PICK l : l = L
  OBVIOUS
<1>16. x \in DOMAIN log /\ l \in Nat
  BY <1>13, <1>14, <1>15
<1> USE <1>16
<1> WITNESS x \in DOMAIN log
<1> WITNESS l \in Nat
<1> WITNESS K \in Nat
<1> QED BY <1>7, <1>8, <1>9, <1>10, <1>11, <1>12, <1>14, <1>15

(* Marking rows changes nothing of what has been stored, nor of its order. *)
LEMMA MarksKeepLog ==
    ASSUME RequestsInv, RelaysInv, RowsKept, UNCHANGED <<work, log>>
    PROVE  /\ LogGrows /\ log' \in [Topics \X Partitions -> Seq(Entries)]
           /\ LogInv' /\ OneRelayKeepsOrder'
           /\ \A k : Sent(k)' = Sent(k)
<1> USE DEF RelaysInv, RowsKept
<1>1. Relays' = Relays
  BY DEF Relays
<1>2. log \in [Topics \X Partitions -> Seq(Entries)]
  BY DEF RelaysTyped
<1>3. \A tp \in DOMAIN log : Len(log[tp]) \in Nat
  BY <1>2
<1>4. LogGrows
  BY <1>3 DEF LogGrows
<1>5. LogInv'
  BY DEF LogInv
<1>6. \A i, j \in DOMAIN outbox : Later(i, j)' = Later(i, j)
  BY DEF Later
<1>7. OneRelayKeepsOrder'
  BY <1>1, <1>6 DEF OneRelayKeepsOrder, InKeyOrder
<1>8. \A k : Sent(k)' = Sent(k)
  BY DEF Sent
<1> QED BY <1>2, <1>4, <1>5, <1>7, <1>8

(* A message that has been sent is first seen somewhere.                   *)
LEMMA FirstExists ==
    ASSUME NEW i, NEW entries, NEW L \in Nat, DOMAIN entries = 1 .. L, NEW n \in 1 .. L, entries[n].id = i
    PROVE  \E m \in FirstAt(i, entries) : m \in 1 .. L
<1> DEFINE S == {m \in 1 .. L : entries[m].id = i}
<1>1. S \in SUBSET Nat /\ n \in S
  OBVIOUS
<1>2. PICK m \in S : \A k \in S : m <= k
  BY <1>1, LeastNatural
<1>3. \A k \in 1 .. m - 1 : entries[k].id # i
  BY <1>2
<1> QED BY <1>2, <1>3 DEF FirstAt

(* The relay stores the oldest row it has left.  With one relay the rows   *)
(* that come before it for its key are in the log already.                 *)
LEMMA StoreKeepsLog ==
    ASSUME RequestsInv, RelaysInv, RowsKept, work' = work,
           NEW r \in Relays, pass[r].todo # {}, NEW i, i = Min(pass[r].todo), Stored(i)
    PROVE  /\ LogGrows /\ log' \in [Topics \X Partitions -> Seq(Entries)]
           /\ LogInv' /\ OneRelayKeepsOrder'
           /\ \A k : Sent(k) => Sent(k)'
           /\ Sent(i)'
<1>16. RelaysTyped /\ PassesInv /\ LogInv /\ ClaimsInOrder /\ OneRelayKeepsOrder
  BY DEF RelaysInv
<1>17. DOMAIN outbox' = DOMAIN outbox /\ \A k \in DOMAIN outbox : outbox'[k].msg = outbox[k].msg /\ outbox'[k].by = outbox[k].by
  BY DEF RowsKept
<1>1. pass[r].todo \subseteq Nat /\ pass[r].todo \subseteq DOMAIN outbox /\ work \in Workloads
  BY <1>16 DEF RelaysTyped, Passes, PassesInv, LockedBy, RequestsInv, RequestsTyped
<1>2. i \in pass[r].todo /\ \A k \in pass[r].todo : i <= k
  BY <1>1, MinIsLeast
<1>3. i \in DOMAIN outbox
  BY <1>1, <1>2
<1>4. PICK tp \in DOMAIN log, L \in Nat, K \in Nat :
              /\ tp = <<outbox[i].msg.topic, PartitionOf[outbox[i].msg.key]>>
              /\ L = Len(log[tp]) /\ K = L + 1
              /\ log' \in [Topics \X Partitions -> Seq(Entries)]
              /\ DOMAIN log[tp] = 1 .. L /\ DOMAIN log'[tp] = 1 .. K
              /\ log'[tp][K] = [id |-> i, msg |-> outbox[i].msg]
              /\ \A n \in 1 .. L : log'[tp][n] = log[tp][n]
              /\ \A n \in 1 .. K : n = K \/ n \in 1 .. L
              /\ \A u \in DOMAIN log \ {tp} : log'[u] = log[u]
              /\ DOMAIN log' = DOMAIN log
  BY <1>3, StoredFacts
<1>5. log \in [Topics \X Partitions -> Seq(Entries)]
  BY <1>16 DEF RelaysTyped
<1>6. \A u \in DOMAIN log : Len(log[u]) \in Nat /\ DOMAIN log[u] = 1 .. Len(log[u])
  BY <1>5
<1>18. /\ tp = <<outbox[i].msg.topic, PartitionOf[outbox[i].msg.key]>> /\ tp \in DOMAIN log
       /\ log'[tp][K] = [id |-> i, msg |-> outbox[i].msg]
  BY <1>4
<1>19. /\ L = Len(log[tp]) /\ DOMAIN log[tp] = 1 .. L /\ DOMAIN log'[tp] = 1 .. K
       /\ L \in Nat /\ K \in Nat /\ L <= K /\ L < K /\ K \in 1 .. K
       /\ \A n \in 1 .. L : log'[tp][n] = log[tp][n] /\ n \in 1 .. K
       /\ \A n \in 1 .. K : n = K \/ n \in 1 .. L
  <2>1. L = Len(log[tp]) /\ DOMAIN log[tp] = 1 .. L /\ DOMAIN log'[tp] = 1 .. K /\ K = L + 1
    BY <1>4
  <2>2. (\A n \in 1 .. L : log'[tp][n] = log[tp][n]) /\ \A n \in 1 .. K : n = K \/ n \in 1 .. L
    BY <1>4
  <2>3. L <= K /\ L < K /\ K \in 1 .. K /\ \A n \in 1 .. L : n \in 1 .. K
    BY <2>1
  <2> QED BY <2>1, <2>2, <2>3
<1>20. DOMAIN log' = DOMAIN log /\ \A u \in DOMAIN log \ {tp} : log'[u] = log[u]
  BY <1>4
<1>21. log' \in [Topics \X Partitions -> Seq(Entries)]
  BY <1>4
<1>7. Len(log'[tp]) = K
  <2>1. log'[tp] \in Seq(Entries)
    BY <1>5, <1>18, <1>21
  <2> QED BY <2>1, <1>19
<1>8. LogGrows
  <2> SUFFICES ASSUME NEW u \in DOMAIN log
               PROVE  Len(log[u]) <= Len(log'[u]) /\ \A n \in 1 .. Len(log[u]) : log'[u][n] = log[u][n]
    BY <1>20 DEF LogGrows
  <2>1. CASE u = tp
    BY <2>1, <1>19, <1>7
  <2>2. CASE u # tp
    BY <2>2, <1>20, <1>6
  <2> QED BY <2>1, <2>2
<1>9. \A u \in DOMAIN log : \A n \in DOMAIN log[u] : n \in DOMAIN log'[u] /\ log'[u][n] = log[u][n]
  BY <1>19, <1>20
<1>10. \A u \in DOMAIN log' : \A n \in DOMAIN log'[u] :
          u \in DOMAIN log /\ ((u = tp /\ n = K) \/ n \in DOMAIN log[u])
  BY <1>19, <1>20
<1>11. K \in DOMAIN log'[tp] /\ log'[tp][K].id = i /\ log'[tp][K].msg = outbox[i].msg
  <2>1. K \in DOMAIN log'[tp]
    BY <1>19
  <2>2. log'[tp][K] = [id |-> i, msg |-> outbox[i].msg]
    BY <1>18
  <2> QED BY <2>1, <2>2
<1>12. LogInv'
  <2> SUFFICES ASSUME NEW u \in DOMAIN log', NEW n \in DOMAIN log'[u]
               PROVE  \/ u[1] = "analytics" /\ \E h \in DOMAIN work.history : log'[u][n] = work.history[h]
                      \/ /\ log'[u][n].id \in DOMAIN outbox'
                         /\ log'[u][n].msg = outbox'[log'[u][n].id].msg
                         /\ u = <<log'[u][n].msg.topic, PartitionOf[log'[u][n].msg.key]>>
    BY DEF LogInv
  <2>1. CASE u = tp /\ n = K
    BY <2>1, <1>3, <1>18, <1>11, <1>17
  <2>2. CASE ~(u = tp /\ n = K)
    <3>1. n \in DOMAIN log[u] /\ log'[u][n] = log[u][n] /\ u \in DOMAIN log
      BY <2>2, <1>9, <1>10
    <3> QED BY <3>1, <1>16, <1>17 DEF LogInv
  <2> QED BY <2>1, <2>2
<1>13. (\A k : Sent(k) => Sent(k)') /\ Sent(i)'
  <2>1. ASSUME NEW k, Sent(k) PROVE Sent(k)'
    BY <2>1, <1>20, <1>9 DEF Sent
  <2>2. tp \in DOMAIN log' /\ K \in DOMAIN log'[tp] /\ log'[tp][K].id = i
    BY <1>18, <1>20, <1>11
  <2>3. Sent(i)'
    BY <2>2 DEF Sent
  <2> QED BY <2>1, <2>3
<1>14. \A k, j \in DOMAIN outbox : Later(k, j)' = Later(k, j)
  BY <1>17 DEF Later
<1>15. OneRelayKeepsOrder'
  <2> SUFFICES ASSUME Cardinality(Relays) = 1, work.maxAttempts = 0,
                      NEW k \in DOMAIN outbox, NEW j \in DOMAIN outbox, Later(k, j),
                      NEW u \in DOMAIN log', NEW n \in FirstAt(j, log'[u])
               PROVE  \E m \in FirstAt(k, log'[u]) : m < n
    BY <1>14, <1>17 DEF OneRelayKeepsOrder, InKeyOrder, Relays
  <2>1. InKeyOrder
    BY <1>16 DEF OneRelayKeepsOrder
  <2>2. n \in DOMAIN log'[u] /\ log'[u][n].id = j /\ \A m \in 1 .. n - 1 : log'[u][m].id # j
    BY DEF FirstAt
  <2>3. u \in DOMAIN log /\ ((u = tp /\ n = K) \/ n \in DOMAIN log[u])
    BY <2>2, <1>10
  <2>4. \A m \in FirstAt(k, log[u]) : m \in FirstAt(k, log'[u])
    <3> SUFFICES ASSUME NEW m \in FirstAt(k, log[u]) PROVE m \in FirstAt(k, log'[u])
      OBVIOUS
    <3>1. m \in DOMAIN log[u] /\ log[u][m].id = k /\ \A h \in 1 .. m - 1 : log[u][h].id # k
      BY DEF FirstAt
    <3>2. \A h \in 1 .. m - 1 : h \in DOMAIN log[u]
      BY <3>1, <2>3, <1>6
    <3>3. m \in DOMAIN log'[u] /\ log'[u][m].id = k /\ \A h \in 1 .. m - 1 : log'[u][h].id # k
      BY <3>1, <3>2, <2>3, <1>9
    <3> QED BY <3>3 DEF FirstAt
  <2>5. CASE n \in DOMAIN log[u]
    <3>1. \A h \in 1 .. n - 1 : h \in DOMAIN log[u]
      BY <2>3, <2>5, <1>6
    <3>2. n \in FirstAt(j, log[u])
      BY <3>1, <2>2, <2>3, <2>5, <1>9 DEF FirstAt
    <3>3. PICK m \in FirstAt(k, log[u]) : m < n
      BY <3>2, <2>1, <2>3 DEF InKeyOrder
    <3> QED BY <3>3, <2>4
  <2>6. CASE u = tp /\ n = K
    <3>1. j = i
      BY <2>2, <2>6, <1>11
    <3>2. Sent(k)
      <4>1. i \in Locked
        BY <1>2 DEF Locked, LockedBy
      <4>2. outbox[k].published \/ k \in Locked
        BY <4>1, <3>1, <1>16 DEF ClaimsInOrder
      <4>3. CASE outbox[k].published
        BY <4>3, <1>16 DEF PassesInv, NothingLost
      <4>4. CASE k \in Locked
        <5>1. PICK o \in Relays : k \in LockedBy(o)
          BY <4>4 DEF Locked
        <5>2. CASE k \in pass[o].sent
          BY <5>2, <1>16 DEF PassesInv
        <5>3. CASE k \in pass[o].todo
          <6>1. o = r
            <7>1. IsFiniteSet(Relays)
              BY <1>1, RelaysAssumption DEF Relays
            <7> QED BY <7>1, FS_Singleton
          <6>2. i <= k /\ i \in Nat /\ k \in Nat
            BY <6>1, <5>3, <1>1, <1>2
          <6>3. k < i
            BY <3>1, <1>3 DEF Later, RequestsInv, OrderInv, RowsOf, RequestsTyped, OutboxRows
          <6> QED BY <6>2, <6>3
        <5> QED BY <5>1, <5>2, <5>3 DEF LockedBy
      <4> QED BY <4>2, <4>3, <4>4
    <3>3. PICK v \in DOMAIN log : \E h \in DOMAIN log[v] : log[v][h].id = k
      BY <3>2 DEF Sent
    <3>4. PICK h \in DOMAIN log[v] : log[v][h].id = k
      BY <3>3
    <3>5. k \in Nat /\ k >= 1
      BY DEF RequestsInv, RequestsTyped
    <3>6. \A g \in DOMAIN work.history : work.history[g].id < 1
      BY <1>1, HistoryFacts
    <3>7. v = <<outbox[k].msg.topic, PartitionOf[outbox[k].msg.key]>>
      BY <3>4, <3>5, <3>6, <1>16 DEF LogInv
    <3>8. v = tp
      BY <3>1, <3>7, <1>18 DEF Later
    <3>9. \E m \in FirstAt(k, log[tp]) : m \in 1 .. L
      BY <3>4, <3>8, <1>19, FirstExists
    <3>10. PICK m \in FirstAt(k, log[tp]) : m \in 1 .. L
      BY <3>9
    <3>11. m < n
      BY <3>10, <2>6, <1>19
    <3> QED BY <3>10, <3>11, <2>4, <2>6
  <2> QED BY <2>3, <2>5, <2>6
<1> QED BY <1>21, <1>8, <1>12, <1>13, <1>15

(* A pass that ends marks the rows it has sent and gives all of its rows   *)
(* back.                                                                   *)
LEMMA CommitMarksFacts ==
    ASSUME RequestsInv, RelaysInv, NEW r \in Relays, NEW failed, failed \subseteq pass[r].todo,
           CommitMarks(r, failed)
    PROVE  /\ RowsKept /\ outbox' \in [DOMAIN outbox' -> OutboxRows]
           /\ pass' \in [Relays -> Passes] /\ pass'[r] = NoPass /\ \A o \in Relays \ {r} : pass'[o] = pass[o]
           /\ \A i \in DOMAIN outbox :
                 /\ outbox'[i].published = (outbox[i].published \/ i \in pass[r].sent)
                 /\ outbox'[i].attempts = IF i \in failed THEN outbox[i].attempts + 1 ELSE outbox[i].attempts
<1> DEFINE Row(i) == [outbox[i] EXCEPT !.published = @ \/ i \in pass[r].sent,
                                       !.attempts = IF i \in failed THEN @ + 1 ELSE @]
<1>1. outbox \in [DOMAIN outbox -> OutboxRows] /\ pass \in [Relays -> Passes]
  BY DEF RequestsInv, RequestsTyped, RelaysInv, RelaysTyped
<1>2. outbox' = [i \in DOMAIN outbox |-> Row(i)] /\ pass' = [pass EXCEPT ![r] = NoPass]
  BY DEF CommitMarks
<1>3. ASSUME NEW i \in DOMAIN outbox
      PROVE  /\ Row(i) \in OutboxRows /\ Row(i).msg = outbox[i].msg /\ Row(i).by = outbox[i].by
             /\ Row(i).published = (outbox[i].published \/ i \in pass[r].sent)
             /\ Row(i).attempts = IF i \in failed THEN outbox[i].attempts + 1 ELSE outbox[i].attempts
  <2> DEFINE p == outbox[i].published \/ i \in pass[r].sent
             n == IF i \in failed THEN outbox[i].attempts + 1 ELSE outbox[i].attempts
             x == [outbox[i] EXCEPT !.published = p, !.attempts = n]
  <2>1. outbox[i] \in OutboxRows
    BY <1>1
  <2>2. p \in BOOLEAN /\ n \in Nat /\ Row(i) = x
    BY <2>1 DEF OutboxRows
  <2> HIDE DEF p, n
  <2>3. x \in OutboxRows /\ x.msg = outbox[i].msg /\ x.by = outbox[i].by /\ x.published = p /\ x.attempts = n
    BY <2>1, <2>2 DEF OutboxRows
  <2> HIDE DEF x, Row
  <2>4. Row(i) \in OutboxRows /\ Row(i).msg = outbox[i].msg /\ Row(i).by = outbox[i].by
        /\ Row(i).published = p /\ Row(i).attempts = n
    BY <2>2, <2>3
  <2> QED BY <2>4 DEF p, n
<1>4. DOMAIN outbox' = DOMAIN outbox /\ \A i \in DOMAIN outbox : outbox'[i] = Row(i)
  BY <1>2
<1> HIDE DEF Row
<1>5. outbox' \in [DOMAIN outbox' -> OutboxRows]
  BY <1>2, <1>3, <1>4
<1>6. NoPass \in Passes
  BY DEF NoPass, Passes
<1> QED BY <1>1, <1>2, <1>3, <1>4, <1>5, <1>6 DEF RowsKept

(* What is left then is as it should be for the other passes.              *)
LEMMA CommitMarksKeepsPasses ==
    ASSUME RequestsInv, RelaysInv, NEW r \in Relays, NEW failed, failed \subseteq pass[r].todo,
           CommitMarks(r, failed), work' = work, \A k : Sent(k) => Sent(k)'
    PROVE  PassesInv' /\ ClaimsInOrder'
<1>1. /\ RowsKept /\ outbox' \in [DOMAIN outbox' -> OutboxRows]
      /\ pass' \in [Relays -> Passes] /\ pass'[r] = NoPass /\ \A o \in Relays \ {r} : pass'[o] = pass[o]
      /\ \A i \in DOMAIN outbox :
                 /\ outbox'[i].published = (outbox[i].published \/ i \in pass[r].sent)
                 /\ outbox'[i].attempts = IF i \in failed THEN outbox[i].attempts + 1 ELSE outbox[i].attempts
  BY CommitMarksFacts
<1>2. PassesInv /\ work \in Workloads /\ outbox \in [DOMAIN outbox -> OutboxRows]
  BY DEF RelaysInv, RequestsInv, RequestsTyped
<1>3. Relays' = Relays /\ work.maxAttempts \in Nat /\ IsFiniteSet(Relays)
  BY <1>2, RelaysAssumption DEF Relays
<1>4. pass'[r].todo = {} /\ pass'[r].sent = {} /\ LockedBy(r)' = {}
      /\ \A o \in Relays \ {r} : LockedBy(o)' = LockedBy(o)
  BY <1>1 DEF NoPass, LockedBy
<1>5. DOMAIN outbox' = DOMAIN outbox
  BY <1>1 DEF RowsKept
<1>6. \A i \in DOMAIN outbox : outbox[i].attempts \in Nat
  BY <1>2 DEF OutboxRows
<1>7. PassesInv'
  <2>1. ASSUME NEW o \in Relays
        PROVE  /\ pass'[o].open \/ LockedBy(o)' = {}
               /\ pass'[o].todo \cap pass'[o].sent = {}
               /\ LockedBy(o)' \subseteq DOMAIN outbox'
               /\ \A q \in Relays \ {o} : LockedBy(o)' \cap LockedBy(q)' = {}
               /\ \A i \in LockedBy(o)' : ~outbox'[i].published /\ ~Exhausted(i)'
               /\ \A i \in pass'[o].sent : Sent(i)'
    <3>1. CASE o = r
      BY <3>1, <1>4
    <3>2. CASE o # r
      <4>1. pass'[o] = pass[o] /\ LockedBy(o)' = LockedBy(o) /\ LockedBy(o) \cap LockedBy(r) = {}
        BY <3>2, <1>1, <1>2, <1>4 DEF PassesInv
      <4>2. \A q \in Relays \ {o} : LockedBy(o)' \cap LockedBy(q)' = {}
        BY <4>1, <1>2, <1>4 DEF PassesInv
      <4>3. ASSUME NEW i \in LockedBy(o) PROVE ~outbox'[i].published /\ ~Exhausted(i)'
        <5>1. i \in DOMAIN outbox /\ ~outbox[i].published /\ ~Exhausted(i)
          BY <1>2 DEF PassesInv
        <5>2. i \notin pass[r].sent /\ i \notin failed
          BY <4>1 DEF LockedBy
        <5> QED BY <5>1, <5>2, <1>1 DEF Exhausted
      <4> QED BY <4>1, <4>2, <4>3, <1>2, <1>5 DEF PassesInv
    <3> QED BY <3>1, <3>2
  <2>2. ASSUME work.maxAttempts > 0, NEW i \in DOMAIN outbox PROVE outbox'[i].attempts <= work.maxAttempts
    <3>1. CASE i \in failed
      <4>1. ~Exhausted(i)
        BY <3>1, <1>2 DEF PassesInv, LockedBy
      <4> QED BY <4>1, <2>2, <3>1, <1>1, <1>3, <1>6 DEF Exhausted
    <3>2. CASE i \notin failed
      BY <3>2, <2>2, <1>1, <1>2 DEF PassesInv
    <3> QED BY <3>1, <3>2
  <2>3. ASSUME NEW i \in DOMAIN outbox, outbox'[i].published PROVE Sent(i)'
    <3>1. outbox[i].published \/ i \in pass[r].sent
      BY <2>3, <1>1
    <3>2. Sent(i)
      BY <3>1, <1>2 DEF PassesInv, NothingLost
    <3> QED BY <3>2
  <2> QED BY <2>1, <2>2, <2>3, <1>3, <1>5 DEF PassesInv, NothingLost
<1>8. ClaimsInOrder'
  <2> SUFFICES ASSUME Cardinality(Relays) = 1 PROVE Locked' = {}
    BY <1>3 DEF ClaimsInOrder
  <2>1. \A o \in Relays : o = r
    BY <1>3, FS_Singleton
  <2> QED BY <2>1, <1>3, <1>4 DEF Locked
<1> QED BY <1>7, <1>8

(* A pass claims the oldest rows it finds: all earlier rows of their keys  *)
(* are published or claimed with them.                                     *)
LEMMA ClaimKeepsRelays ==
    ASSUME RequestsInv, RelaysInv, NEW r \in Relays, ClaimBatch(r)
    PROVE  RelaysInv'
<1> DEFINE C == Claimable(r)
<1>1. pass' = [pass EXCEPT ![r] = [open |-> TRUE, todo |-> Batch(C), sent |-> {}]]
      /\ UNCHANGED <<work, keys, outbox, nextId, req, mishaps, log>>
  BY DEF ClaimBatch, requestVars
<1>2. RelaysTyped /\ PassesInv /\ LogInv /\ ClaimsInOrder /\ OneRelayKeepsOrder
  BY DEF RelaysInv
<1>3. /\ pass \in [Relays -> Passes] /\ work \in Workloads /\ outbox \in [DOMAIN outbox -> OutboxRows]
      /\ nextId \in Nat /\ DOMAIN outbox \subseteq 1 .. nextId - 1
  BY <1>2 DEF RelaysTyped, RequestsInv, RequestsTyped
<1>4. Batch(C) \subseteq C /\ C \subseteq DOMAIN outbox
      /\ \A i \in C : ~outbox[i].published /\ ~Exhausted(i) /\ \A o \in Relays \ {r} : i \notin LockedBy(o)
  BY DEF Batch, Claimable
<1>5. /\ pass' \in [Relays -> Passes] /\ \A o \in Relays \ {r} : pass'[o] = pass[o]
      /\ pass'[r].open /\ pass'[r].todo = Batch(C) /\ pass'[r].sent = {}
  <2>1. Batch(C) \subseteq Nat
    BY <1>3, <1>4
  <2> QED BY <2>1, <1>1, <1>3 DEF Passes
<1>6. LockedBy(r)' = Batch(C) /\ \A o \in Relays \ {r} : LockedBy(o)' = LockedBy(o)
  BY <1>5 DEF LockedBy
<1>7. Relays' = Relays /\ IsFiniteSet(Relays) /\ work.maxAttempts \in Nat /\ work.batchSize \in Nat
  BY <1>1, <1>3, RelaysAssumption DEF Relays
<1>8. \A i : Sent(i)' = Sent(i) /\ Exhausted(i)' = Exhausted(i)
  BY <1>1 DEF Sent, Exhausted
<1> HIDE DEF C
<1>9. PassesInv'
  <2>1. ASSUME NEW o \in Relays
        PROVE  /\ pass'[o].open \/ LockedBy(o)' = {}
               /\ pass'[o].todo \cap pass'[o].sent = {}
               /\ LockedBy(o)' \subseteq DOMAIN outbox
               /\ \A q \in Relays \ {o} : LockedBy(o)' \cap LockedBy(q)' = {}
               /\ \A i \in LockedBy(o)' : ~outbox[i].published /\ ~Exhausted(i)
               /\ \A i \in pass'[o].sent : Sent(i)
    <3>1. CASE o = r
      <4>1. \A q \in Relays \ {o} : LockedBy(o)' \cap LockedBy(q)' = {}
        BY <3>1, <1>4, <1>6
      <4> QED BY <4>1, <3>1, <1>4, <1>5, <1>6
    <3>2. CASE o # r
      <4>1. \A q \in Relays \ {o} : LockedBy(o)' \cap LockedBy(q)' = {}
        BY <3>2, <1>2, <1>4, <1>6 DEF PassesInv
      <4>2. pass'[o] = pass[o] /\ LockedBy(o)' = LockedBy(o)
        BY <3>2, <1>5, <1>6
      <4> QED BY <4>1, <4>2, <1>2 DEF PassesInv
    <3> QED BY <3>1, <3>2
  <2> QED BY <2>1, <1>1, <1>2, <1>7, <1>8 DEF PassesInv, NothingLost
<1>10. ClaimsInOrder'
  <2> SUFFICES ASSUME Cardinality(Relays) = 1, work.maxAttempts = 0,
                      NEW i \in DOMAIN outbox, NEW j \in DOMAIN outbox, Later(i, j), j \in Locked',
                      ~outbox[i].published
               PROVE  i \in Locked'
    <3>1. \A i, j : Later(i, j)' = Later(i, j)
      BY <1>1 DEF Later
    <3> QED BY <3>1, <1>1, <1>7 DEF ClaimsInOrder
  <2>1. \A o \in Relays : o = r
    BY <1>7, FS_Singleton
  <2>2. Locked' = Batch(C)
    BY <2>1, <1>6, <1>7 DEF Locked
  <2>3. i \in C
    BY <2>1 DEF C, Claimable, Exhausted
  <2>4. i < j
    BY DEF Later, RequestsInv, OrderInv, RowsOf, RequestsTyped, OutboxRows
  <2> DEFINE Before(k) == {l \in C : l < k}
  <2>5. IsFiniteSet(1 .. nextId - 1)
    <3>1. PICK K \in Int : K = nextId - 1
      BY <1>3
    <3>2. IsFiniteSet(1 .. K)
      BY FS_Interval
    <3> QED BY <3>1, <3>2
  <2>6. IsFiniteSet(Before(j)) /\ Before(i) \subseteq Before(j)
    <3>1. Before(j) \subseteq 1 .. nextId - 1
      BY <1>3, <1>4
    <3>2. \A l \in C : l < i => l < j
      BY <2>4, <1>3, <1>4
    <3> QED BY <3>1, <3>2, <2>5, FS_Subset
  <2>7. Cardinality(Before(i)) <= Cardinality(Before(j))
        /\ Cardinality(Before(i)) \in Nat /\ Cardinality(Before(j)) \in Nat
    <3> HIDE DEF Before
    <3> QED BY <2>6, FS_Subset, FS_CardinalityType
  <2>8. Cardinality(Before(j)) < work.batchSize
    BY <2>2 DEF Batch
  <2>9. Cardinality(Before(i)) < work.batchSize
    <3> HIDE DEF Before
    <3> QED BY <2>7, <2>8, <1>7
  <2> QED BY <2>2, <2>3, <2>9 DEF Batch
<1>11. OneRelayKeepsOrder' /\ LogInv'
  <2>1. RowsKept
    BY <1>1 DEF RowsKept
  <2> QED BY <2>1, <1>1, MarksKeepLog
<1>12. RelaysTyped'
  <2>1. log' \in [Topics \X Partitions -> Seq(Entries)]
    BY <1>1, <1>2 DEF RelaysTyped
  <2> QED BY <2>1, <1>5, <1>7 DEF RelaysTyped
<1> QED BY <1>9, <1>10, <1>11, <1>12 DEF RelaysInv

(* Every step of a relay.                                                  *)
LEMMA RelayStep ==
    ASSUME RequestsInv, RelaysInv, RelayNext
    PROVE  RequestsInv' /\ RelaysInv' /\ LogGrows /\ work' = work
<1>1. PICK r \in Relays : ClaimBatch(r) \/ Send(r) \/ SendFails(r) \/ FinishPass(r) \/ Interrupted(r)
  BY DEF RelayNext
<1>2. RelaysTyped /\ PassesInv /\ LogInv /\ ClaimsInOrder /\ OneRelayKeepsOrder
  BY DEF RelaysInv
<1>3. /\ pass \in [Relays -> Passes] /\ log \in [Topics \X Partitions -> Seq(Entries)]
      /\ outbox \in [DOMAIN outbox -> OutboxRows] /\ mishaps \in Nat
  BY <1>2 DEF RelaysTyped, RequestsInv, RequestsTyped
<1>4. pass[r].todo \subseteq Nat /\ pass[r].sent \subseteq Nat /\ pass[r].todo \subseteq DOMAIN outbox
  BY <1>2, <1>3 DEF Passes, PassesInv, LockedBy
<1>5. pass[r].todo # {} => Min(pass[r].todo) \in pass[r].todo
  BY <1>4, MinIsLeast
<1>6. work' = work => Relays' = Relays
  BY DEF Relays
<1>7. UNCHANGED outbox => RowsKept /\ outbox' \in [DOMAIN outbox' -> OutboxRows]
  BY <1>3 DEF RowsKept
<1>8. CASE ClaimBatch(r)
  <2>1. UNCHANGED <<work, keys, outbox, nextId, req, mishaps, log>>
    BY <1>8 DEF ClaimBatch, requestVars
  <2>2. RequestsInv'
    BY <2>1, <1>3, <1>7, RelayKeepsRequests
  <2>3. LogGrows
    BY <2>1, <1>7, MarksKeepLog
  <2> QED BY <2>1, <2>2, <2>3, <1>8, ClaimKeepsRelays
<1>9. CASE Send(r)
  <2>0. PICK i : i = Min(pass[r].todo)
    OBVIOUS
  <2> DEFINE todo == pass[r].todo
             sent == pass[r].sent
             p == [pass[r] EXCEPT !.todo = todo \ {i}, !.sent = sent \cup {i}]
  <2>1. UNCHANGED <<work, keys, outbox, nextId, req, mishaps>> /\ todo # {} /\ Stored(i)
    BY <2>0, <1>9 DEF Send, requestVars
  <2>2. pass' = [pass EXCEPT ![r] = p]
    BY <2>0, <1>3, <1>9 DEF Send
  <2>3. i \in todo
    BY <2>0, <2>1, <1>5
  <2>4. p \in Passes /\ p.open = pass[r].open /\ p.todo = todo \ {i} /\ p.sent = sent \cup {i}
    <3>1. pass[r] \in Passes /\ i \in Nat
      BY <1>3, <1>4, <2>3
    <3> QED BY <3>1 DEF Passes
  <2> HIDE DEF p
  <2>5. pass' \in [Relays -> Passes] /\ pass'[r] = p /\ \A o \in Relays \ {r} : pass'[o] = pass[o]
    BY <1>3, <2>2, <2>4
  <2>6. RequestsInv'
    BY <2>1, <1>3, <1>7, RelayKeepsRequests
  <2>7. /\ LogGrows /\ log' \in [Topics \X Partitions -> Seq(Entries)]
        /\ LogInv' /\ OneRelayKeepsOrder'
        /\ \A k : Sent(k) => Sent(k)'
        /\ Sent(i)'
    BY <2>0, <2>1, <1>7, StoreKeepsLog
  <2>8. \A o \in Relays : LockedBy(o)' = LockedBy(o)
    <3>1. LockedBy(r)' = LockedBy(r)
      BY <2>3, <2>4, <2>5 DEF LockedBy
    <3> QED BY <3>1, <2>5 DEF LockedBy
  <2>9. \A k : Exhausted(k)' = Exhausted(k)
    BY <2>1 DEF Exhausted
  <2>10. PassesInv'
    <3>1. ASSUME NEW o \in Relays
          PROVE  /\ pass'[o].open \/ LockedBy(o) = {}
                 /\ pass'[o].todo \cap pass'[o].sent = {}
                 /\ \A k \in pass'[o].sent : Sent(k)'
      <4>1. CASE o = r
        <5>1. pass[r].open \/ LockedBy(r) = {}
          BY <1>2 DEF PassesInv
        <5>2. todo \cap sent = {} /\ \A k \in sent : Sent(k)
          BY <1>2 DEF PassesInv
        <5> HIDE DEF todo, sent
        <5> QED BY <4>1, <5>1, <5>2, <2>4, <2>5, <2>7
      <4>2. CASE o # r
        BY <4>2, <1>2, <2>5, <2>7 DEF PassesInv
      <4> QED BY <4>1, <4>2
    <3> QED BY <3>1, <1>2, <1>6, <2>1, <2>7, <2>8, <2>9 DEF PassesInv, NothingLost
  <2>11. ClaimsInOrder'
    <3>1. Locked' = Locked
      BY <2>1, <2>8, <1>6 DEF Locked
    <3>2. \A k, j : Later(k, j)' = Later(k, j)
      BY <2>1 DEF Later
    <3> QED BY <3>1, <3>2, <1>2, <1>6, <2>1 DEF ClaimsInOrder
  <2>12. RelaysTyped'
    BY <2>1, <2>5, <2>7, <1>6 DEF RelaysTyped
  <2> QED BY <2>1, <2>6, <2>7, <2>10, <2>11, <2>12 DEF RelaysInv
<1>10. CASE SendFails(r)
  <2> DEFINE i == Min(pass[r].todo)
  <2>1. /\ UNCHANGED <<work, keys, nextId, req>> /\ pass[r].todo # {} /\ CommitMarks(r, {i})
        /\ Stored(i) \/ log' = log
    BY <1>10 DEF SendFails
  <2>2. mishaps' \in Nat
    BY <1>3, <1>10 DEF SendFails, Mishap
  <2>3. {i} \subseteq pass[r].todo
    BY <2>1, <1>5
  <2>4. RowsKept /\ outbox' \in [DOMAIN outbox' -> OutboxRows] /\ pass' \in [Relays -> Passes]
    BY <2>1, <2>3, CommitMarksFacts
  <2>5. RequestsInv'
    BY <2>1, <2>2, <2>4, RelayKeepsRequests
  <2>6. /\ LogGrows /\ log' \in [Topics \X Partitions -> Seq(Entries)]
        /\ LogInv' /\ OneRelayKeepsOrder'
        /\ \A k : Sent(k) => Sent(k)'
    <3>1. CASE Stored(i)
      BY <3>1, <2>1, <2>4, StoreKeepsLog
    <3>2. CASE log' = log
      BY <3>2, <2>1, <2>4, MarksKeepLog
    <3> QED BY <2>1, <3>1, <3>2
  <2>7. PassesInv' /\ ClaimsInOrder'
    BY <2>1, <2>3, <2>6, CommitMarksKeepsPasses
  <2>8. RelaysTyped'
    BY <2>1, <2>4, <2>6, <1>6 DEF RelaysTyped
  <2> QED BY <2>1, <2>5, <2>6, <2>7, <2>8 DEF RelaysInv
<1>11. CASE FinishPass(r)
  <2>1. UNCHANGED <<work, keys, nextId, req, mishaps, log>> /\ CommitMarks(r, {}) /\ {} \subseteq pass[r].todo
    BY <1>11 DEF FinishPass
  <2>2. RowsKept /\ outbox' \in [DOMAIN outbox' -> OutboxRows] /\ pass' \in [Relays -> Passes]
    BY <2>1, CommitMarksFacts
  <2>3. RequestsInv'
    BY <2>1, <2>2, <1>3, RelayKeepsRequests
  <2>4. /\ LogGrows /\ log' \in [Topics \X Partitions -> Seq(Entries)]
        /\ LogInv' /\ OneRelayKeepsOrder'
        /\ \A k : Sent(k)' = Sent(k)
    BY <2>1, <2>2, MarksKeepLog
  <2>5. PassesInv' /\ ClaimsInOrder'
    BY <2>1, <2>4, CommitMarksKeepsPasses
  <2>6. RelaysTyped'
    BY <2>1, <2>2, <2>4, <1>6 DEF RelaysTyped
  <2> QED BY <2>1, <2>3, <2>4, <2>5, <2>6 DEF RelaysInv
<1>12. CASE Interrupted(r)
  <2>1. UNCHANGED <<work, keys, outbox, nextId, req, log>> /\ pass' = [pass EXCEPT ![r] = NoPass]
        /\ mishaps' \in Nat
    BY <1>3, <1>12 DEF Interrupted, Mishap
  <2>2. RequestsInv'
    BY <2>1, <1>7, RelayKeepsRequests
  <2>3. LogGrows /\ LogInv' /\ OneRelayKeepsOrder' /\ log' \in [Topics \X Partitions -> Seq(Entries)]
    BY <2>1, <1>7, MarksKeepLog
  <2>4. NoPass \in Passes
    BY DEF NoPass, Passes
  <2>5. pass' \in [Relays -> Passes] /\ pass'[r] = NoPass /\ \A o \in Relays \ {r} : pass'[o] = pass[o]
    BY <1>3, <2>1, <2>4
  <2>6. pass'[r].todo = {} /\ pass'[r].sent = {} /\ LockedBy(r)' = {}
        /\ \A o \in Relays \ {r} : LockedBy(o)' = LockedBy(o)
    BY <2>5 DEF NoPass, LockedBy
  <2>7. \A k : Sent(k)' = Sent(k) /\ Exhausted(k)' = Exhausted(k)
    BY <2>1 DEF Sent, Exhausted
  <2>8. PassesInv'
    <3>1. ASSUME NEW o \in Relays
          PROVE  /\ pass'[o].open \/ LockedBy(o)' = {}
                 /\ pass'[o].todo \cap pass'[o].sent = {}
                 /\ LockedBy(o)' \subseteq DOMAIN outbox
                 /\ \A q \in Relays \ {o} : LockedBy(o)' \cap LockedBy(q)' = {}
                 /\ \A k \in LockedBy(o)' : ~outbox[k].published /\ ~Exhausted(k)
                 /\ \A k \in pass'[o].sent : Sent(k)
      <4>1. CASE o = r
        BY <4>1, <2>6
      <4>2. CASE o # r
        <5>1. \A q \in Relays \ {o} : LockedBy(o)' \cap LockedBy(q)' = {}
          BY <4>2, <1>2, <2>6 DEF PassesInv
        <5>2. pass'[o] = pass[o] /\ LockedBy(o)' = LockedBy(o)
          BY <4>2, <2>5, <2>6
        <5> QED BY <5>1, <5>2, <1>2 DEF PassesInv
      <4> QED BY <4>1, <4>2
    <3> QED BY <3>1, <1>2, <1>6, <2>1, <2>7 DEF PassesInv, NothingLost
  <2>9. ClaimsInOrder'
    <3> SUFFICES ASSUME Cardinality(Relays) = 1 PROVE Locked' = {}
      BY <2>1, <1>6 DEF ClaimsInOrder
    <3>1. IsFiniteSet(Relays)
      BY RelaysAssumption DEF Relays, RequestsInv, RequestsTyped
    <3>2. \A o \in Relays : o = r
      BY <3>1, FS_Singleton
    <3> QED BY <3>2, <2>1, <2>6, <1>6 DEF Locked
  <2>10. RelaysTyped'
    BY <2>1, <2>3, <2>5, <1>6 DEF RelaysTyped
  <2> QED BY <2>1, <2>2, <2>3, <2>8, <2>9, <2>10 DEF RelaysInv
<1> QED BY <1>1, <1>8, <1>9, <1>10, <1>11, <1>12

(* A relay changes what a row is marked with, never what it tells.         *)
LEMMA RelayRows ==
    ASSUME RequestsInv, RelaysInv, RelayNext
    PROVE  RowsKept
<1>1. PICK r \in Relays : ClaimBatch(r) \/ Send(r) \/ SendFails(r) \/ FinishPass(r) \/ Interrupted(r)
  BY DEF RelayNext
<1>2. CASE ClaimBatch(r) \/ Send(r) \/ Interrupted(r)
  BY <1>2 DEF ClaimBatch, Send, Interrupted, requestVars, RowsKept
<1>3. CASE SendFails(r)
  <2>1. pass[r].todo # {} /\ pass[r].todo \subseteq Nat
    BY <1>3 DEF SendFails, RelaysInv, RelaysTyped, Passes
  <2>2. {Min(pass[r].todo)} \subseteq pass[r].todo
    BY <2>1, MinIsLeast
  <2>3. CommitMarks(r, {Min(pass[r].todo)})
    BY <1>3 DEF SendFails
  <2> QED BY <2>2, <2>3, CommitMarksFacts
<1>4. CASE FinishPass(r)
  <2>1. CommitMarks(r, {}) /\ {} \subseteq pass[r].todo
    BY <1>4 DEF FinishPass
  <2> QED BY <2>1, CommitMarksFacts
<1> QED BY <1>1, <1>2, <1>3, <1>4

-----------------------------------------------------------------------------
(* Steps of consumers *)

(* What has been read, message by message.                                 *)
LEMMA ReadIs == \A id :
    id \in Read <=> \E p \in Partitions : \E n \in 1 .. cursor[p] :
                        Analytics(p)[n].id = id /\ Counts(Analytics(p)[n].msg)
BY DEF Read, ReadFrom

(* The messages of a partition.                                            *)
LEMMA AnalyticsFacts ==
    ASSUME RelaysTyped, NEW p \in Partitions
    PROVE  /\ <<"analytics", p>> \in DOMAIN log /\ Analytics(p) \in Seq(Entries)
           /\ Len(Analytics(p)) \in Nat /\ DOMAIN Analytics(p) = 1 .. Len(Analytics(p))
           /\ \A n \in 1 .. Len(Analytics(p)) : /\ Analytics(p)[n] \in Entries /\ Analytics(p)[n].id \in Int
                                                /\ Analytics(p)[n].msg \in Messages
<1>1. <<"analytics", p>> \in Topics \X Partitions /\ DOMAIN log = Topics \X Partitions
  BY DEF Topics, RelaysTyped
<1>2. Analytics(p) \in Seq(Entries)
  BY <1>1 DEF RelaysTyped, Analytics
<1>3. \A n \in 1 .. Len(Analytics(p)) : Analytics(p)[n] \in Entries
  BY <1>2
<1>4. Len(Analytics(p)) \in Nat /\ DOMAIN Analytics(p) = 1 .. Len(Analytics(p))
  BY <1>2
<1>5. \A n \in 1 .. Len(Analytics(p)) : Analytics(p)[n].id \in Int /\ Analytics(p)[n].msg \in Messages
  BY <1>3 DEF Entries
<1> QED BY <1>1, <1>2, <1>3, <1>4, <1>5

(* An id stands for one message, wherever it is stored and how often.      *)
LEMMA SameMessage ==
    ASSUME RequestsInv, RelaysInv, NEW p \in Partitions, NEW q \in Partitions,
           NEW n \in 1 .. Len(Analytics(p)), NEW m \in 1 .. Len(Analytics(q)),
           Analytics(p)[n].id = Analytics(q)[m].id
    PROVE  Analytics(p)[n].msg = Analytics(q)[m].msg
<1>1. RelaysTyped /\ LogInv /\ work \in Workloads
  BY DEF RelaysInv, RequestsInv, RequestsTyped
<1>2. <<"analytics", p>> \in DOMAIN log /\ <<"analytics", q>> \in DOMAIN log
      /\ n \in DOMAIN Analytics(p) /\ m \in DOMAIN Analytics(q)
  BY <1>1, AnalyticsFacts
<1> DEFINE Old(x) == \E h \in DOMAIN work.history : x = work.history[h]
           OfRow(x) == x.id \in DOMAIN outbox /\ x.msg = outbox[x.id].msg
<1>3. Old(Analytics(p)[n]) \/ OfRow(Analytics(p)[n])
  BY <1>1, <1>2 DEF LogInv, Analytics
<1>4. Old(Analytics(q)[m]) \/ OfRow(Analytics(q)[m])
  BY <1>1, <1>2 DEF LogInv, Analytics
<1>5. \A x : Old(x) => x.id < 1
  BY <1>1, HistoryFacts
<1>6. \A x : OfRow(x) => x.id \in Nat /\ ~(x.id < 1)
  <2>1. \A i \in DOMAIN outbox : i \in Nat /\ ~(i < 1)
    BY DEF RequestsInv, RequestsTyped
  <2> QED BY <2>1
<1>7. \A x, y : Old(x) /\ Old(y) /\ x.id = y.id => x.msg = y.msg
  BY <1>1, HistoryFacts
<1>8. \A x, y : OfRow(x) /\ OfRow(y) /\ x.id = y.id => x.msg = y.msg
  OBVIOUS
<1> HIDE DEF Old, OfRow
<1> QED BY <1>3, <1>4, <1>5, <1>6, <1>7, <1>8

(* The message a consumer is busy with.                                    *)
LEMMA AtHand ==
    ASSUME RequestsInv, RelaysInv, ProjectorTyped, ProjectorInv,
           NEW c \in Consumers, handler[c].step \in {"decode", "apply"}
    PROVE  /\ Entry(c) \in Entries /\ Entry(c).id \in Int /\ Entry(c).msg \in Messages
           /\ Known(Entry(c).id)
           /\ Entry(c).id \in Read <=> Counts(Entry(c).msg)
<1>1. RelaysTyped
  BY DEF RelaysInv
<1>2. PICK p \in Partitions : \E n \in 1 .. cursor[p] : Entry(c) = Analytics(p)[n]
  BY DEF ProjectorInv
<1>3. PICK n \in 1 .. cursor[p] : Entry(c) = Analytics(p)[n]
  BY <1>2
<1>4. ASSUME NEW q \in Partitions, NEW m \in 1 .. cursor[q] PROVE m \in 1 .. Len(Analytics(q))
  <2>1. cursor[q] <= Len(Analytics(q)) /\ Len(Analytics(q)) \in Nat /\ cursor[q] \in Nat
    BY <1>1, AnalyticsFacts DEF ProjectorInv, ProjectorTyped
  <2> QED BY <2>1
<1>5. n \in 1 .. Len(Analytics(p))
  BY <1>4
<1>6. Entry(c) \in Entries /\ Entry(c).id \in Int /\ Entry(c).msg \in Messages
  BY <1>1, <1>3, <1>5, AnalyticsFacts
<1>7. Known(Entry(c).id)
  BY <1>3 DEF Known
<1>8. ASSUME Entry(c).id \in Read PROVE Counts(Entry(c).msg)
  <2>1. PICK q \in Partitions : \E m \in 1 .. cursor[q] :
                        Analytics(q)[m].id = Entry(c).id /\ Counts(Analytics(q)[m].msg)
    BY <1>8, ReadIs
  <2>2. PICK m \in 1 .. cursor[q] : Analytics(q)[m].id = Entry(c).id /\ Counts(Analytics(q)[m].msg)
    BY <2>1
  <2>3. m \in 1 .. Len(Analytics(q))
    BY <1>4
  <2>4. Analytics(p)[n].msg = Analytics(q)[m].msg
    BY <2>2, <2>3, <1>3, <1>5, SameMessage
  <2> QED BY <2>2, <2>4, <1>3
<1>9. Counts(Entry(c).msg) => Entry(c).id \in Read
  BY <1>3, ReadIs
<1> QED BY <1>6, <1>7, <1>8, <1>9

(* No more lost than before ...                                            *)
LEMMA NoMoreLost ==
    ASSUME NEW S, IsFiniteSet(S), NEW t \in Nat, Cardinality(S) <= t, NEW T, T \subseteq S
    PROVE  IsFiniteSet(T) /\ Cardinality(T) <= t
BY FS_Subset, FS_CardinalityType

(* ... or one more.                                                        *)
LEMMA OneMoreLost ==
    ASSUME NEW S, IsFiniteSet(S), NEW t \in Nat, Cardinality(S) <= t, NEW x, NEW T, T \subseteq S \cup {x},
           NEW u, u = t + 1
    PROVE  IsFiniteSet(T) /\ Cardinality(T) <= u
<1>1. IsFiniteSet(S \cup {x}) /\ Cardinality(S) \in Nat /\ Cardinality(S \cup {x}) \in Nat
      /\ (Cardinality(S \cup {x}) = Cardinality(S) \/ Cardinality(S \cup {x}) = Cardinality(S) + 1)
  BY FS_AddElement, FS_CardinalityType
<1>2. Cardinality(S \cup {x}) <= u /\ u \in Nat
  BY <1>1
<1> QED BY <1>1, <1>2, NoMoreLost

(* More messages in Kafka change nothing for the consumers.                *)
LEMMA LogGrowthKeepsProjector ==
    ASSUME RelaysTyped, ProjectorTyped, ProjectorInv, LogGrows, log' \in [Topics \X Partitions -> Seq(Entries)],
           UNCHANGED <<work, projectorVars>>
    PROVE  ProjectorTyped' /\ ProjectorInv'
<1>1. UNCHANGED <<work, cursor, handler, consumed, processed, rollup, trouble>> /\ Consumers' = Consumers
  BY DEF projectorVars, Consumers
<1>2. ASSUME NEW p \in Partitions
      PROVE  /\ cursor[p] <= Len(Analytics(p)')
             /\ \A n \in 1 .. cursor[p] : Analytics(p)'[n] = Analytics(p)[n]
  <2>1. Len(Analytics(p)) <= Len(Analytics(p)')
        /\ \A n \in 1 .. Len(Analytics(p)) : Analytics(p)'[n] = Analytics(p)[n]
    BY AnalyticsFacts DEF LogGrows, Analytics
  <2>2. cursor[p] <= Len(Analytics(p)) /\ cursor[p] \in Nat /\ Len(Analytics(p)) \in Nat
    BY AnalyticsFacts DEF ProjectorInv, ProjectorTyped
  <2>3. Len(Analytics(p)') \in Nat
    <3>1. <<"analytics", p>> \in Topics \X Partitions
      BY DEF Topics
    <3>2. Analytics(p)' \in Seq(Entries)
      BY <3>1 DEF Analytics
    <3> QED BY <3>2
  <2> QED BY <2>1, <2>2, <2>3
<1>3. \A id : Known(id)' = Known(id)
  BY <1>1, <1>2 DEF Known
<1>4. \A c : Entry(c)' = Entry(c)
  BY <1>1 DEF Entry
<1>5. \A id : Live(id)' = Live(id)
  BY <1>1, <1>4 DEF Live
<1>6. Read' = Read
  <2>1. \A p \in Partitions : ReadFrom(p)' = ReadFrom(p)
    BY <1>1, <1>2 DEF ReadFrom
  <2> QED BY <2>1 DEF Read
<1>7. Lost' = Lost
  BY <1>1, <1>5, <1>6 DEF Lost
<1>8. ProjectorTyped'
  BY <1>1 DEF ProjectorTyped
<1>9. ProjectorInv'
  <2>1. \A p \in Partitions : cursor'[p] <= Len(Analytics(p)')
    BY <1>1, <1>2
  <2>2. \A c \in Consumers : IF handler[c].step \in {"decode", "apply"}
                             THEN \E p \in Partitions : \E n \in 1 .. cursor[p] : Entry(c) = Analytics(p)'[n]
                             ELSE Entry(c) = Absent
    BY <1>2 DEF ProjectorInv
  <2>3. \A c \in Consumers : handler[c].step = "apply" =>
          Entry(c).msg.cloudEvent /\ Projects(Entry(c).msg) /\ Entry(c).id \in consumed
    BY DEF ProjectorInv
  <2>4. (\A id \in consumed : Known(id)') /\ (\A x \in processed : Known(x.id)')
    BY <1>3 DEF ProjectorInv
  <2>5. IsFiniteSet(Lost') /\ Cardinality(Lost') <= trouble
    BY <1>7 DEF ProjectorInv
  <2> QED BY <1>1, <1>4, <2>1, <2>2, <2>3, <2>4, <2>5 DEF ProjectorInv
<1> QED BY <1>8, <1>9

(* A consumer that is done with its message, counted or not, and the       *)
(* failure, if any, that made it give the message up.                      *)
LEMMA ReturnKeepsProjector ==
    ASSUME RequestsInv, RelaysInv, ProjectorTyped, ProjectorInv, UNCHANGED <<work, log, cursor>>,
           NEW c \in Consumers, handler[c].step \in {"decode", "apply"}, Return(c),
           NEW e, e = Entry(c),
           consumed \subseteq consumed', consumed' \subseteq consumed \cup {e.id},
           processed \subseteq processed', processed' \subseteq processed \cup {[id |-> e.id, at |-> e.msg.at]},
           \/ trouble' = trouble + 1
           \/ /\ trouble' = trouble
              /\ \/ ~Counts(e.msg)
                 \/ e.id \in consumed /\ handler[c].step = "decode" /\ consumed' = consumed
                 \/ \E x \in processed' : x.id = e.id
    PROVE  ProjectorInv'
<1>1. /\ handler \in [Consumers -> Handlers] /\ trouble \in Nat /\ Consumers' = Consumers
      /\ Poll.step = "poll" /\ Poll.at = Absent
  BY DEF ProjectorTyped, Consumers, Poll
<1>2. handler'[c] = Poll /\ \A d \in Consumers \ {c} : handler'[d] = handler[d]
  BY <1>1 DEF Return
<1>3. Entry(c)' = Absent /\ \A d \in Consumers \ {c} : Entry(d)' = Entry(d)
  BY <1>1, <1>2 DEF Entry
<1>4. Known(e.id) /\ (e.id \in Read <=> Counts(e.msg))
  BY AtHand
<1>5. /\ \A p : Analytics(p)' = Analytics(p)
      /\ \A id : Known(id)' = Known(id)
      /\ Read' = Read
  BY DEF Analytics, Known, Read, ReadFrom
<1>6. ASSUME NEW id, Live(id), id # e.id PROVE Live(id)'
  <2>1. PICK d \in Consumers : /\ handler[d].step \in {"decode", "apply"} /\ Entry(d).id = id
                               /\ handler[d].step = "apply" \/ id \notin consumed
    BY <1>6 DEF Live
  <2>2. d # c
    BY <2>1, <1>6
  <2>3. /\ handler'[d].step \in {"decode", "apply"} /\ Entry(d)'.id = id
        /\ handler'[d].step = "apply" \/ id \notin consumed'
    BY <2>1, <2>2, <1>2, <1>3, <1>6
  <2> QED BY <2>3, <1>1 DEF Live
<1>7. Lost' \subseteq Lost \cup {e.id}
  BY <1>5, <1>6 DEF Lost
<1>8. IsFiniteSet(Lost) /\ Cardinality(Lost) <= trouble
  BY DEF ProjectorInv
<1>9. IsFiniteSet(Lost') /\ Cardinality(Lost') <= trouble'
  <2>1. CASE trouble' = trouble + 1
    BY <2>1, <1>1, <1>7, <1>8, OneMoreLost
  <2>2. CASE trouble' = trouble /\ ~Counts(e.msg)
    <3>1. e.id \notin Lost'
      BY <2>2, <1>4, <1>5 DEF Lost
    <3>2. Lost' \subseteq Lost
      BY <3>1, <1>7
    <3> QED BY <3>2, <2>2, <1>1, <1>8, NoMoreLost
  <2>3. CASE trouble' = trouble /\ \E x \in processed' : x.id = e.id
    <3>1. e.id \notin Lost'
      BY <2>3 DEF Lost
    <3>2. Lost' \subseteq Lost
      BY <3>1, <1>7
    <3> QED BY <3>2, <2>3, <1>1, <1>8, NoMoreLost
  <2>4. CASE trouble' = trouble /\ e.id \in consumed /\ handler[c].step = "decode" /\ consumed' = consumed
    <3>1. ASSUME Live(e.id) PROVE Live(e.id)'
      <4>1. PICK d \in Consumers : /\ handler[d].step \in {"decode", "apply"} /\ Entry(d).id = e.id
                                   /\ handler[d].step = "apply" \/ e.id \notin consumed
        BY <3>1 DEF Live
      <4>2. d # c
        BY <4>1, <2>4
      <4>3. /\ handler'[d].step \in {"decode", "apply"} /\ Entry(d)'.id = e.id
            /\ handler'[d].step = "apply" \/ e.id \notin consumed'
        BY <4>1, <4>2, <1>2, <1>3, <2>4
      <4> QED BY <4>3, <1>1 DEF Live
    <3>2. e.id \in Lost' => e.id \in Lost
      BY <3>1, <1>5 DEF Lost
    <3>3. Lost' \subseteq Lost
      BY <3>2, <1>7
    <3> QED BY <3>3, <2>4, <1>1, <1>8, NoMoreLost
  <2> QED BY <2>1, <2>2, <2>3, <2>4
<1>10. \A d \in Consumers :
          IF handler'[d].step \in {"decode", "apply"}
          THEN \E p \in Partitions : \E n \in 1 .. cursor[p] : Entry(d)' = Analytics(p)[n]
          ELSE Entry(d)' = Absent
  <2> SUFFICES ASSUME NEW d \in Consumers
               PROVE  IF handler'[d].step \in {"decode", "apply"}
                      THEN \E p \in Partitions : \E n \in 1 .. cursor[p] : Entry(d)' = Analytics(p)[n]
                      ELSE Entry(d)' = Absent
    OBVIOUS
  <2>1. CASE d = c
    BY <2>1, <1>1, <1>2, <1>3
  <2>2. CASE d # c
    BY <2>2, <1>2, <1>3 DEF ProjectorInv
  <2> QED BY <2>1, <2>2
<1>11. \A d \in Consumers : handler'[d].step = "apply" =>
          Entry(d)'.msg.cloudEvent /\ Projects(Entry(d)'.msg) /\ Entry(d)'.id \in consumed'
  BY <1>1, <1>2, <1>3 DEF ProjectorInv
<1>12. (\A id \in consumed' : Known(id)) /\ (\A x \in processed' : Known(x.id))
  BY <1>4 DEF ProjectorInv
<1>13. \A p \in Partitions : cursor'[p] <= Len(Analytics(p)')
  BY <1>5 DEF ProjectorInv
<1> QED BY <1>1, <1>5, <1>9, <1>10, <1>11, <1>12, <1>13 DEF ProjectorInv

(* A consumer that records that it is to count its message: whoever else   *)
(* is busy with the same one, this consumer will.                          *)
LEMMA MarkKeepsProjector ==
    ASSUME RequestsInv, RelaysInv, ProjectorTyped, ProjectorInv, UNCHANGED <<work, log>>,
           NEW c \in Consumers, MarkProcessed(c)
    PROVE  ProjectorTyped' /\ ProjectorInv'
<1>1. /\ handler[c].step = "decode" /\ Entry(c).msg.cloudEvent /\ Projects(Entry(c).msg)
      /\ handler' = [handler EXCEPT ![c].step = "apply"]
      /\ consumed' = consumed \cup {Entry(c).id}
      /\ UNCHANGED <<cursor, processed, rollup, trouble>>
  BY DEF MarkProcessed, Expected, Handling
<1>2. handler \in [Consumers -> Handlers] /\ trouble \in Nat /\ Consumers' = Consumers
  BY DEF ProjectorTyped, Consumers
<1>3. /\ handler' \in [Consumers -> Handlers] /\ handler'[c].step = "apply" /\ handler'[c].at = handler[c].at
      /\ \A d \in Consumers \ {c} : handler'[d] = handler[d]
  BY <1>1, <1>2 DEF Handlers
<1>4. \A d \in Consumers : Entry(d)' = Entry(d)
  BY <1>3 DEF Entry
<1>5. Entry(c).id \in Int /\ Known(Entry(c).id)
  BY <1>1, AtHand
<1>6. /\ \A p : Analytics(p)' = Analytics(p)
      /\ \A id : Known(id)' = Known(id)
      /\ Read' = Read
  BY <1>1 DEF Analytics, Known, Read, ReadFrom
<1>7. ProjectorTyped'
  BY <1>1, <1>2, <1>3, <1>5 DEF ProjectorTyped
<1>8. ASSUME NEW id, Live(id) PROVE Live(id)'
  <2>1. CASE id = Entry(c).id
    BY <2>1, <1>2, <1>3, <1>4 DEF Live
  <2>2. CASE id # Entry(c).id
    <3>1. PICK d \in Consumers : /\ handler[d].step \in {"decode", "apply"} /\ Entry(d).id = id
                                 /\ handler[d].step = "apply" \/ id \notin consumed
      BY <1>8 DEF Live
    <3>2. /\ handler'[d].step \in {"decode", "apply"} /\ Entry(d)'.id = id
          /\ handler'[d].step = "apply" \/ id \notin consumed'
      BY <3>1, <2>2, <1>1, <1>3, <1>4
    <3> QED BY <3>2, <1>2 DEF Live
  <2> QED BY <2>1, <2>2
<1>9. Lost' \subseteq Lost
  BY <1>1, <1>6, <1>8 DEF Lost
<1>10. IsFiniteSet(Lost') /\ Cardinality(Lost') <= trouble
  BY <1>2, <1>9, NoMoreLost DEF ProjectorInv
<1>11. \A d \in Consumers :
          IF handler'[d].step \in {"decode", "apply"}
          THEN \E p \in Partitions : \E n \in 1 .. cursor[p] : Entry(d) = Analytics(p)[n]
          ELSE Entry(d) = Absent
  <2> SUFFICES ASSUME NEW d \in Consumers
               PROVE  IF handler'[d].step \in {"decode", "apply"}
                      THEN \E p \in Partitions : \E n \in 1 .. cursor[p] : Entry(d) = Analytics(p)[n]
                      ELSE Entry(d) = Absent
    OBVIOUS
  <2>1. handler'[d].step \in {"decode", "apply"} <=> handler[d].step \in {"decode", "apply"}
    BY <1>1, <1>3
  <2> QED BY <2>1 DEF ProjectorInv
<1>12. \A d \in Consumers : handler'[d].step = "apply" =>
          Entry(d).msg.cloudEvent /\ Projects(Entry(d).msg) /\ Entry(d).id \in consumed'
  BY <1>1, <1>3 DEF ProjectorInv
<1>13. (\A id \in consumed' : Known(id)) /\ (\A x \in processed : Known(x.id))
  BY <1>1, <1>5 DEF ProjectorInv
<1>14. \A p \in Partitions : cursor[p] <= Len(Analytics(p))
  BY DEF ProjectorInv
<1> QED BY <1>1, <1>2, <1>4, <1>6, <1>7, <1>10, <1>11, <1>12, <1>13, <1>14 DEF ProjectorInv

(* A consumer that reads: what it now has at hand is not lost, unless it   *)
(* stopped on it, or the message was read and given up before.             *)
LEMMA ReadKeepsProjector ==
    ASSUME RequestsInv, RelaysInv, ProjectorTyped, ProjectorInv, UNCHANGED <<work, log, consumed, processed, rollup>>,
           NEW c \in Consumers, handler[c].step = "poll", NEW p \in Partitions, cursor[p] < Len(Analytics(p)),
           NEW n \in {0, 1}, cursor' = [cursor EXCEPT ![p] = @ + n],
           NEW e, e = Analytics(p)[cursor[p] + 1],
           NEW h, handler' = [handler EXCEPT ![c] = h],
           \/ n = 1 /\ h = [step |-> "decode", at |-> e] /\ trouble' = trouble
           \/ h = [step |-> "stopped", at |-> Absent] /\ trouble' = trouble + 1
    PROVE  ProjectorTyped' /\ ProjectorInv'
<1>1. /\ handler \in [Consumers -> Handlers] /\ trouble \in Nat /\ Consumers' = Consumers
      /\ cursor \in [Partitions -> Nat] /\ RelaysTyped
  BY DEF ProjectorTyped, Consumers, RelaysInv
<1>2. PICK K \in Nat : K = cursor[p] + 1
  BY <1>1
<1>3. Len(Analytics(p)) \in Nat /\ K \in 1 .. Len(Analytics(p)) /\ cursor[p] \in Nat /\ e = Analytics(p)[K]
  BY <1>1, <1>2, AnalyticsFacts
<1>4. e \in Entries /\ e.id \in Int /\ e.msg \in Messages
  BY <1>1, <1>3, AnalyticsFacts
<1>5. h \in Handlers /\ (h.step = "decode" \/ h.step = "stopped") /\ (h.step = "decode" => h.at = e)
      /\ (h.step # "decode" => h.at = Absent)
  BY <1>4 DEF Handlers
<1>6. handler'[c] = h /\ (\A d \in Consumers \ {c} : handler'[d] = handler[d]) /\ handler' \in [Consumers -> Handlers]
  BY <1>1, <1>5
<1>7. Entry(c)' = h.at /\ \A d \in Consumers \ {c} : Entry(d)' = Entry(d)
  BY <1>6 DEF Entry
<1>8. /\ cursor' \in [Partitions -> Nat] /\ cursor'[p] = cursor[p] + n
      /\ \A q \in Partitions \ {p} : cursor'[q] = cursor[q]
  BY <1>1
<1>9. \A q \in Partitions : \A m \in 1 .. cursor[q] : m \in 1 .. cursor'[q]
  <2> SUFFICES ASSUME NEW q \in Partitions, NEW m \in 1 .. cursor[q] PROVE m \in 1 .. cursor'[q]
    OBVIOUS
  <2>1. CASE q = p
    BY <2>1, <1>3, <1>8
  <2>2. CASE q # p
    BY <2>2, <1>8
  <2> QED BY <2>1, <2>2
<1>10. \A q \in Partitions : \A m \in 1 .. cursor'[q] : m \in 1 .. cursor[q] \/ (q = p /\ m = K)
  <2> SUFFICES ASSUME NEW q \in Partitions, NEW m \in 1 .. cursor'[q]
               PROVE  m \in 1 .. cursor[q] \/ (q = p /\ m = K)
    OBVIOUS
  <2>1. CASE q = p
    BY <2>1, <1>2, <1>3, <1>8
  <2>2. CASE q # p
    BY <2>2, <1>8
  <2> QED BY <2>1, <2>2
<1>11. \A q \in Partitions : cursor[q] \in Nat /\ cursor[q] <= Len(Analytics(q)) /\ Len(Analytics(q)) \in Nat
  BY <1>1, AnalyticsFacts DEF ProjectorInv
<1>12. \A q \in Partitions : cursor'[q] \in Nat /\ cursor'[q] <= Len(Analytics(q))
  <2> SUFFICES ASSUME NEW q \in Partitions PROVE cursor'[q] \in Nat /\ cursor'[q] <= Len(Analytics(q))
    OBVIOUS
  <2>1. CASE q = p
    BY <2>1, <1>3, <1>8
  <2>2. CASE q # p
    BY <2>2, <1>8, <1>11
  <2> QED BY <2>1, <2>2
<1>13. \A q : Analytics(q)' = Analytics(q)
  BY DEF Analytics
<1>14. \A id : Known(id) => Known(id)'
  BY <1>9, <1>13 DEF Known
<1>15. \A id : id \in Read' <=> \E q \in Partitions : \E m \in 1 .. cursor'[q] :
                        Analytics(q)[m].id = id /\ Counts(Analytics(q)[m].msg)
  BY <1>13 DEF Read, ReadFrom
<1>16. \A id : id \in Read' => id \in Read \/ id = e.id
  BY <1>3, <1>10, <1>15, ReadIs
<1>17. ASSUME Known(e.id), e.id \in Read' PROVE e.id \in Read
  <2>1. PICK q \in Partitions : \E m \in 1 .. cursor[q] : Analytics(q)[m].id = e.id
    BY <1>17 DEF Known
  <2>2. PICK m \in 1 .. cursor[q] : Analytics(q)[m].id = e.id
    BY <2>1
  <2>3. PICK u \in Partitions : \E l \in 1 .. cursor'[u] : Analytics(u)[l].id = e.id /\ Counts(Analytics(u)[l].msg)
    BY <1>17, <1>15
  <2>4. PICK l \in 1 .. cursor'[u] : Analytics(u)[l].id = e.id /\ Counts(Analytics(u)[l].msg)
    BY <2>3
  <2>5. m \in 1 .. Len(Analytics(q)) /\ l \in 1 .. Len(Analytics(u))
    BY <1>11, <1>12
  <2>6. Analytics(q)[m].msg = Analytics(u)[l].msg
    BY <2>2, <2>4, <2>5, SameMessage
  <2> QED BY <2>2, <2>4, <2>6, ReadIs
<1>18. ASSUME NEW id, Live(id) PROVE Live(id)'
  <2>1. PICK d \in Consumers : /\ handler[d].step \in {"decode", "apply"} /\ Entry(d).id = id
                               /\ handler[d].step = "apply" \/ id \notin consumed
    BY <1>18 DEF Live
  <2>2. d # c
    BY <2>1
  <2> QED BY <2>1, <2>2, <1>1, <1>6, <1>7 DEF Live
<1>19. Lost' \subseteq Lost \cup {e.id}
  BY <1>16, <1>18 DEF Lost
<1>20. IsFiniteSet(Lost) /\ Cardinality(Lost) <= trouble
  BY DEF ProjectorInv
<1>21. IsFiniteSet(Lost') /\ Cardinality(Lost') <= trouble'
  <2>1. CASE trouble' = trouble + 1
    BY <2>1, <1>1, <1>19, <1>20, OneMoreLost
  <2>2. CASE h = [step |-> "decode", at |-> e] /\ trouble' = trouble
    <3>1. ASSUME e.id \in Lost' PROVE e.id \in Lost
      <4>1. ~Live(e.id)' /\ e.id \in Read' /\ \A x \in processed : x.id # e.id
        BY <3>1 DEF Lost
      <4>2. e.id \in consumed
        <5>1. handler'[c].step = "decode" /\ Entry(c)'.id = e.id
          BY <2>2, <1>6, <1>7
        <5> QED BY <4>1, <5>1, <1>1 DEF Live
      <4>3. e.id \in Read
        BY <4>1, <4>2, <1>17 DEF ProjectorInv
      <4>4. ~Live(e.id)
        BY <4>1, <1>18
      <4> QED BY <4>1, <4>3, <4>4 DEF Lost
    <3>2. Lost' \subseteq Lost
      BY <3>1, <1>19
    <3> QED BY <3>2, <2>2, <1>1, <1>20, NoMoreLost
  <2> QED BY <2>1, <2>2
<1>22. ProjectorTyped'
  <2>1. trouble' \in Nat
    BY <1>1
  <2> QED BY <2>1, <1>1, <1>6, <1>8 DEF ProjectorTyped
<1>23. \A d \in Consumers :
          IF handler'[d].step \in {"decode", "apply"}
          THEN \E q \in Partitions : \E m \in 1 .. cursor'[q] : Entry(d)' = Analytics(q)[m]
          ELSE Entry(d)' = Absent
  <2> SUFFICES ASSUME NEW d \in Consumers
               PROVE  IF handler'[d].step \in {"decode", "apply"}
                      THEN \E q \in Partitions : \E m \in 1 .. cursor'[q] : Entry(d)' = Analytics(q)[m]
                      ELSE Entry(d)' = Absent
    OBVIOUS
  <2>1. CASE d = c /\ h.step = "decode"
    <3>1. K \in 1 .. cursor'[p]
      BY <2>1, <1>2, <1>3, <1>8
    <3> QED BY <3>1, <2>1, <1>3, <1>5, <1>6, <1>7
  <2>2. CASE d = c /\ h.step # "decode"
    BY <2>2, <1>5, <1>6, <1>7
  <2>3. CASE d # c
    BY <2>3, <1>6, <1>7, <1>9 DEF ProjectorInv
  <2> QED BY <2>1, <2>2, <2>3
<1>24. \A d \in Consumers : handler'[d].step = "apply" =>
          Entry(d)'.msg.cloudEvent /\ Projects(Entry(d)'.msg) /\ Entry(d)'.id \in consumed
  BY <1>5, <1>6, <1>7 DEF ProjectorInv
<1>25. (\A id \in consumed : Known(id)') /\ (\A x \in processed : Known(x.id)')
  BY <1>14 DEF ProjectorInv
<1> QED BY <1>1, <1>12, <1>13, <1>21, <1>22, <1>23, <1>24, <1>25 DEF ProjectorInv

(* Counting adds a bag with a positive amount in an hour.                  *)
LEMMA ApplyDeltaFacts ==
    ASSUME ProjectorTyped, NEW e \in Entries, e.msg.readable, ApplyDelta(e)
    PROVE  /\ processed \subseteq processed' /\ processed' \subseteq processed \cup {[id |-> e.id, at |-> e.msg.at]}
           /\ processed' \subseteq [id : Int, at : Nat] /\ IsFiniteSet(processed')
           /\ \E x \in processed' : x.id = e.id
           /\ IsABag(rollup') /\ \A c \in DOMAIN rollup' : c.hour \in Int
<1>1. e.id \in Int /\ e.msg \in Messages
  BY DEF Entries
<1>2. e.msg.at \in Nat /\ Delta(e.msg) > 0 /\ e.msg.qty \in Nat
  BY <1>1 DEF Messages
<1>3. processed \subseteq [id : Int, at : Nat] /\ IsFiniteSet(processed)
      /\ IsABag(rollup) /\ \A c \in DOMAIN rollup : c.hour \in Int
  BY DEF ProjectorTyped
<1>4. CASE \E x \in processed : x.id = e.id
  BY <1>3, <1>4 DEF ApplyDelta
<1>5. CASE ~\E x \in processed : x.id = e.id
  <2> DEFINE x == [id |-> e.id, at |-> e.msg.at]
  <2>1. processed' = processed \cup {x} /\ rollup' = rollup (+) Effect(e.msg)
    BY <1>5 DEF ApplyDelta
  <2>2. x \in [id : Int, at : Nat] /\ x.id = e.id
    BY <1>1, <1>2
  <2>3. IsFiniteSet(processed')
    BY <2>1, <1>3, FS_AddElement
  <2> DEFINE cell == Cell(e.msg)
             n == Delta(e.msg)
  <2>4. cell.hour \in Int
    BY <1>2, TicksAssumption DEF Cell, HourBucket
  <2>5. n \in Nat /\ n > 0
    BY <1>2 DEF Delta
  <2> HIDE DEF x, cell, n
  <2>6. Effect(e.msg) = [c \in {cell} |-> n]
    BY DEF Effect, cell, n
  <2>7. IsABag(rollup')
    BY <2>1, <2>5, <2>6, <1>3 DEF IsABag, (+)
  <2>8. DOMAIN rollup' = DOMAIN rollup \cup {cell}
    BY <2>1, <2>6 DEF (+)
  <2> QED BY <2>1, <2>2, <2>3, <2>4, <2>7, <2>8, <1>3 DEF x
<1> QED BY <1>4, <1>5

(* Every step of a consumer.                                               *)
LEMMA ProjectorStep ==
    ASSUME RequestsInv, RelaysInv, ProjectorTyped, ProjectorInv, ProjectorNext, UNCHANGED <<requestVars, relayVars>>
    PROVE  ProjectorTyped' /\ ProjectorInv'
<1>1. PICK c \in Consumers :
         \/ \E p \in DOMAIN cursor : ReadMessage(c, p) \/ ReadFails(c, p)
         \/ Ignore(c) \/ MarkProcessed(c) \/ Duplicate(c) \/ Apply(c)
         \/ MarkFails(c) \/ ApplyFails(c) \/ Crash(c)
  BY DEF ProjectorNext, Handle
<1>2. work' = work /\ log' = log
  BY DEF requestVars, relayVars
<1>3. /\ handler \in [Consumers -> Handlers] /\ trouble \in Nat /\ Consumers' = Consumers
      /\ DOMAIN cursor = Partitions
  BY <1>2 DEF ProjectorTyped, Consumers
<1>4. ASSUME Return(c) PROVE handler' \in [Consumers -> Handlers]
  <2>1. Poll \in Handlers
    BY DEF Poll, Handlers
  <2> QED BY <1>3, <1>4, <2>1 DEF Return
<1>5. handler[c].step \in {"decode", "apply"} => /\ Entry(c) \in Entries /\ Entry(c).id \in Int
                                                 /\ Entry(c).msg \in Messages
                                                 /\ Entry(c).id \in Read <=> Counts(Entry(c).msg)
  BY AtHand
<1>6. PICK e : e = Entry(c)
  OBVIOUS
<1>7. CASE \E p \in DOMAIN cursor : ReadMessage(c, p)
  <2>1. PICK p \in Partitions : ReadMessage(c, p)
    BY <1>3, <1>7
  <2>2. PICK g : g = Analytics(p)[cursor[p] + 1]
    OBVIOUS
  <2>3. PICK h : h = [step |-> "decode", at |-> g]
    OBVIOUS
  <2>4. /\ handler[c].step = "poll" /\ cursor[p] < Len(Analytics(p))
        /\ cursor' = [cursor EXCEPT ![p] = @ + 1]
        /\ handler' = [handler EXCEPT ![c] = h]
        /\ UNCHANGED <<consumed, processed, rollup>> /\ trouble' = trouble
    BY <2>1, <2>2, <2>3 DEF ReadMessage, Handling
  <2> QED BY <2>2, <2>3, <2>4, <1>2, ReadKeepsProjector
<1>8. CASE \E p \in DOMAIN cursor : ReadFails(c, p)
  <2>1. PICK p \in Partitions : ReadFails(c, p)
    BY <1>3, <1>8
  <2>2. PICK g : g = Analytics(p)[cursor[p] + 1]
    OBVIOUS
  <2>3. PICK h : h = [step |-> "stopped", at |-> Absent]
    OBVIOUS
  <2>4. /\ handler[c].step = "poll" /\ cursor[p] < Len(Analytics(p))
        /\ handler' = [handler EXCEPT ![c] = h]
        /\ UNCHANGED <<consumed, processed, rollup>> /\ trouble' = trouble + 1
    BY <2>1, <2>3 DEF ReadFails, Handling, Trouble
  <2>5. PICK n \in {0, 1} : cursor' = [cursor EXCEPT ![p] = @ + n]
    BY <2>1 DEF ReadFails
  <2> QED BY <2>2, <2>3, <2>4, <2>5, <1>2, ReadKeepsProjector
<1>9. CASE Ignore(c)
  <2>1. /\ handler[c].step = "decode" /\ Return(c) /\ ~Counts(e.msg)
        /\ UNCHANGED <<cursor, consumed, processed, rollup, trouble>>
    BY <1>6, <1>9 DEF Ignore, Handling, Counts
  <2>2. ProjectorInv'
    BY <2>1, <1>2, <1>6, ReturnKeepsProjector
  <2> QED BY <2>1, <2>2, <1>3, <1>4 DEF ProjectorTyped
<1>10. CASE MarkProcessed(c)
  BY <1>2, <1>10, MarkKeepsProjector
<1>11. CASE Duplicate(c)
  <2>1. /\ handler[c].step = "decode" /\ Return(c) /\ e.id \in consumed
        /\ UNCHANGED <<cursor, consumed, processed, rollup, trouble>>
    BY <1>6, <1>11 DEF Duplicate, Expected, Handling
  <2>2. ProjectorInv'
    BY <2>1, <1>2, <1>6, ReturnKeepsProjector
  <2> QED BY <2>1, <2>2, <1>3, <1>4 DEF ProjectorTyped
<1>12. CASE Apply(c)
  <2>1. handler[c].step = "apply" /\ Return(c) /\ UNCHANGED <<cursor, consumed, trouble>>
    BY <1>12 DEF Apply, Handling
  <2>2. CASE e.msg.readable
    <3>1. ApplyDelta(e) /\ e \in Entries
      BY <1>5, <1>6, <1>12, <2>1, <2>2 DEF Apply
    <3>2. /\ processed \subseteq processed' /\ processed' \subseteq processed \cup {[id |-> e.id, at |-> e.msg.at]}
          /\ processed' \subseteq [id : Int, at : Nat] /\ IsFiniteSet(processed')
          /\ \E x \in processed' : x.id = e.id
          /\ IsABag(rollup') /\ \A cell \in DOMAIN rollup' : cell.hour \in Int
      BY <2>2, <3>1, ApplyDeltaFacts
    <3>3. ProjectorInv'
      BY <2>1, <3>2, <1>2, <1>6, ReturnKeepsProjector
    <3> QED BY <2>1, <3>2, <3>3, <1>3, <1>4 DEF ProjectorTyped
  <2>3. CASE ~e.msg.readable
    <3>1. UNCHANGED <<processed, rollup>> /\ ~Counts(e.msg)
      BY <1>6, <1>12, <2>3 DEF Apply, Counts
    <3>2. ProjectorInv'
      BY <2>1, <3>1, <1>2, <1>6, ReturnKeepsProjector
    <3> QED BY <2>1, <3>1, <3>2, <1>3, <1>4 DEF ProjectorTyped
  <2> QED BY <2>2, <2>3
<1>13. CASE MarkFails(c)
  <2>1. /\ handler[c].step = "decode" /\ Return(c) /\ UNCHANGED <<cursor, processed, rollup>>
        /\ trouble' = trouble + 1 /\ consumed' \in {consumed, consumed \cup {e.id}}
    BY <1>6, <1>13 DEF MarkFails, Expected, Handling, Trouble
  <2>2. ProjectorInv'
    BY <2>1, <1>2, <1>6, ReturnKeepsProjector
  <2>3. consumed' \subseteq Int /\ trouble' \in Nat
    <3>1. e.id \in Int /\ trouble' \in Nat
      BY <2>1, <1>3, <1>5, <1>6
    <3>2. consumed' = consumed \/ consumed' = consumed \cup {e.id}
      BY <2>1
    <3>3. consumed \subseteq Int
      BY DEF ProjectorTyped
    <3> QED BY <3>1, <3>2, <3>3
  <2> QED BY <2>1, <2>2, <2>3, <1>3, <1>4 DEF ProjectorTyped
<1>14. CASE ApplyFails(c)
  <2>1. /\ handler[c].step = "apply" /\ Return(c) /\ UNCHANGED <<cursor, consumed>>
        /\ trouble' = trouble + 1 /\ e.msg.readable /\ e \in Entries /\ trouble' \in Nat
        /\ ApplyDelta(e) \/ UNCHANGED <<processed, rollup>>
    BY <1>3, <1>5, <1>6, <1>14 DEF ApplyFails, Handling, Trouble
  <2>2. /\ processed \subseteq processed' /\ processed' \subseteq processed \cup {[id |-> e.id, at |-> e.msg.at]}
        /\ processed' \subseteq [id : Int, at : Nat] /\ IsFiniteSet(processed')
        /\ IsABag(rollup') /\ \A cell \in DOMAIN rollup' : cell.hour \in Int
    <3>1. CASE ApplyDelta(e)
      BY <2>1, <3>1, ApplyDeltaFacts
    <3>2. CASE UNCHANGED <<processed, rollup>>
      BY <3>2 DEF ProjectorTyped
    <3> QED BY <2>1, <3>1, <3>2
  <2>3. ProjectorInv'
    BY <2>1, <2>2, <1>2, <1>6, ReturnKeepsProjector
  <2> QED BY <2>1, <2>2, <2>3, <1>3, <1>4 DEF ProjectorTyped
<1>15. CASE Crash(c)
  <2>1. /\ handler[c].step \in {"decode", "apply"} /\ Return(c) /\ UNCHANGED <<cursor, consumed, processed, rollup>>
        /\ trouble' = trouble + 1 /\ trouble' \in Nat
    BY <1>3, <1>15 DEF Crash, Trouble
  <2>2. ProjectorInv'
    BY <2>1, <1>2, <1>6, ReturnKeepsProjector
  <2> QED BY <2>1, <2>2, <1>3, <1>4 DEF ProjectorTyped
<1> QED BY <1>1, <1>7, <1>8, <1>9, <1>10, <1>11, <1>12, <1>13, <1>14, <1>15

-----------------------------------------------------------------------------
(* The invariant *)

(* Every step keeps the invariant.                                         *)
LEMMA StepInvariant == IInv /\ [Next]_vars => IInv'
<1> SUFFICES ASSUME IInv, [Next]_vars PROVE IInv'
  OBVIOUS
<1>1. RequestsInv /\ RelaysInv /\ ProjectorTyped /\ ProjectorInv
  BY DEF IInv, RequestsInv, RelaysInv
<1>2. RelaysTyped /\ mishaps \in Nat /\ outbox \in [DOMAIN outbox -> OutboxRows]
      /\ log \in [Topics \X Partitions -> Seq(Entries)]
  BY <1>1 DEF RelaysInv, RelaysTyped, RequestsInv, RequestsTyped
<1>3. SUFFICES RequestsInv' /\ RelaysInv' /\ ProjectorTyped' /\ ProjectorInv'
  BY DEF IInv, RequestsInv, RelaysInv
<1>4. ASSUME outbox' = outbox PROVE RowsKept /\ Grows /\ outbox' \in [DOMAIN outbox' -> OutboxRows]
  BY <1>2, <1>4 DEF RowsKept, Grows
<1>5. ASSUME UNCHANGED requestVars PROVE RequestsInv'
  <2>1. UNCHANGED <<work, keys, outbox, nextId, req, mishaps>>
    BY <1>5 DEF requestVars
  <2> QED BY <2>1, <1>1, <1>2, <1>4, RelayKeepsRequests
<1>6. ASSUME UNCHANGED <<requestVars, relayVars>> PROVE RequestsInv' /\ RelaysInv' /\ LogGrows /\ work' = work /\ log' = log
  <2>1. UNCHANGED <<work, outbox, pass, log>>
    BY <1>6 DEF requestVars, relayVars
  <2> QED BY <2>1, <1>1, <1>4, <1>5, <1>6, GrowthKeepsRelays, MarksKeepLog
<1>7. CASE RequestNext /\ UNCHANGED <<relayVars, projectorVars>>
  <2>1. RequestsInv' /\ Grows /\ work' = work
    BY <1>1, <1>7, RequestStep
  <2>2. UNCHANGED <<pass, log>> /\ UNCHANGED projectorVars
    BY <1>7 DEF relayVars
  <2>3. RelaysInv'
    BY <2>1, <2>2, <1>1, GrowthKeepsRelays
  <2>4. LogGrows
    <3>1. \A tp \in DOMAIN log : Len(log[tp]) \in Nat
      BY <1>2
    <3> QED BY <3>1, <2>2 DEF LogGrows
  <2>5. ProjectorTyped' /\ ProjectorInv'
    BY <2>1, <2>2, <2>4, <1>1, <1>2, LogGrowthKeepsProjector
  <2> QED BY <2>1, <2>3, <2>5
<1>8. CASE RelayNext /\ UNCHANGED projectorVars
  <2>1. RequestsInv' /\ RelaysInv' /\ LogGrows /\ work' = work
    BY <1>1, <1>8, RelayStep
  <2>2. log' \in [Topics \X Partitions -> Seq(Entries)]
    BY <2>1 DEF RelaysInv, RelaysTyped
  <2>3. ProjectorTyped' /\ ProjectorInv'
    BY <2>1, <2>2, <1>1, <1>2, <1>8, LogGrowthKeepsProjector
  <2> QED BY <2>1, <2>3
<1>9. CASE ProjectorNext /\ UNCHANGED <<requestVars, relayVars>>
  BY <1>1, <1>6, <1>9, ProjectorStep
<1>10. CASE UNCHANGED vars
  <2>1. UNCHANGED <<requestVars, relayVars>> /\ UNCHANGED projectorVars
    BY <1>10 DEF vars
  <2> QED BY <2>1, <1>1, <1>2, <1>6, LogGrowthKeepsProjector
<1> QED BY <1>7, <1>8, <1>9, <1>10 DEF Next

(* The invariant holds in every state of every behaviour, for all          *)
(* workloads, histories, relays and consumers.                             *)
THEOREM InvariantHolds == Spec => []IInv
BY InitInvariant, StepInvariant, PTL DEF Spec

-----------------------------------------------------------------------------
(* Consequences *)

(* The type invariant: in particular no row is sent more often than the    *)
(* relay may try, and no offset lies beyond the end of its partition.      *)
THEOREM TypesHold == Spec => []TypeOK
<1>1. IInv => TypeOK
  <2> SUFFICES ASSUME IInv PROVE TypeOK
    OBVIOUS
  <2>1. RequestsTyped /\ RelaysTyped /\ ProjectorTyped /\ PassesInv /\ ProjectorInv
    BY DEF IInv
  <2>2. \A k \in Keys : keys[k] = Absent \/ keys[k].answer \in {"done", "refused"}
    BY <2>1 DEF RequestsTyped, Outcomes
  <2>3. \A i \in DOMAIN outbox : outbox[i].by \in Requests /\ outbox[i].attempts \in Nat
    BY <2>1 DEF RequestsTyped, OutboxRows
  <2>4. \A a \in Requests : req[a].step \in {"idle", "running", "answered"}
    BY <2>1, RequestTyped
  <2>5. \A p \in Partitions : cursor[p] \in 0 .. Len(Analytics(p))
    <3>1. ASSUME NEW p \in Partitions PROVE cursor[p] \in 0 .. Len(Analytics(p))
      <4>1. Len(Analytics(p)) \in Nat /\ cursor[p] \in Nat /\ cursor[p] <= Len(Analytics(p))
        BY <2>1, AnalyticsFacts DEF ProjectorTyped, ProjectorInv
      <4> QED BY <4>1
    <3> QED BY <3>1
  <2>6. \A c \in Consumers : handler[c].step \in {"poll", "decode", "apply", "stopped"}
    BY <2>1 DEF ProjectorTyped, Handlers
  <2> QED BY <2>1, <2>2, <2>3, <2>4, <2>5, <2>6 DEF TypeOK, RequestsTyped, PassesInv, ProjectorTyped
<1> QED BY <1>1, InvariantHolds, PTL

(* However often a request is sent with one idempotency key, at most one   *)
(* attempt takes effect, and once an attempt was told so one has.          *)
THEOREM OneEffectHolds == Spec => []OneEffectPerKey
<1>1. IInv => OneEffectPerKey
  <2> SUFFICES ASSUME IInv, NEW k \in Keys
               PROVE  /\ \A a, b \in Requests : OfKey(a, k) /\ OfKey(b, k) /\ RowsOf(a) # {} /\ RowsOf(b) # {} => a = b
                      /\ \A a \in Requests : OfKey(a, k) /\ req[a].answer = "done" =>
                            \E b \in Requests : OfKey(b, k) /\ Cardinality(RowsOf(b)) = Len(Rows(Events(a)))
    BY DEF OneEffectPerKey, OfKey
  <2>1. KeysInv /\ work \in Workloads
    BY DEF IInv, RequestsTyped
  <2>2. ASSUME NEW a \in Requests, OfKey(a, k), req[a].answer = "done"
        PROVE  \E b \in Requests : OfKey(b, k) /\ Cardinality(RowsOf(b)) = Len(Rows(Events(a)))
    <3>1. keys[k] = [hash |-> Events(a), answer |-> "done"]
      BY <2>1, <2>2 DEF KeysInv, Told
    <3>2. keys[k] # Absent
      <4>1. [hash |-> Events(a), answer |-> "done"] \in Outcomes
        BY <2>1, RequestFacts DEF Outcomes
      <4> QED BY <3>1, <4>1, AbsentAssumption
    <3>3. keys[k].answer = "done" /\ keys[k].hash = Events(a)
      BY <3>1
    <3> QED BY <2>1, <3>2, <3>3 DEF KeysInv
  <2> QED BY <2>1, <2>2 DEF KeysInv
<1> QED BY <1>1, InvariantHolds, PTL

(* Attempts with one key and one body never get different outcomes.        *)
THEOREM SameOutcomeHolds == Spec => []SameOutcome
<1>1. IInv => SameOutcome
  <2> SUFFICES ASSUME IInv, NEW a \in Requests, NEW b \in Requests, Keyed(a), Keyed(b), KeyOf(a) = KeyOf(b),
                      {req[a].answer, req[b].answer} \subseteq {"done", "refused"}
               PROVE  req[a].answer = req[b].answer
    BY DEF SameOutcome
  <2>1. Told(a) /\ Told(b)
    BY DEF Told
  <2>2. KeyOf(a) \in Keys
    BY <2>1 DEF IInv, KeysInv, Keys
  <2>3. keys[KeyOf(a)] = [hash |-> Events(a), answer |-> req[a].answer]
        /\ keys[KeyOf(a)] = [hash |-> Events(b), answer |-> req[b].answer]
    BY <2>1, <2>2 DEF IInv, KeysInv, OfKey
  <2> QED BY <2>3
<1> QED BY <1>1, InvariantHolds, PTL

(* The relay marks a row as published only if Kafka has its message,       *)
(* however many relays run and whatever pass fails or is cut off.          *)
THEOREM NothingLostHolds == Spec => []NothingLost
<1>1. IInv => NothingLost
  BY DEF IInv, PassesInv
<1> QED BY <1>1, InvariantHolds, PTL

(* With one relay that gives up no row, the events of a key are first seen *)
(* in the order they happened in.                                          *)
THEOREM OrderHolds == Spec => []OneRelayKeepsOrder
<1>1. IInv => OneRelayKeepsOrder
  BY DEF IInv
<1> QED BY <1>1, InvariantHolds, PTL

(* Every message that was read and given up is paid for by a failure.      *)
THEOREM OneLossHolds == Spec => []OneLossPerTrouble
<1>1. IInv => OneLossPerTrouble
  <2> SUFFICES ASSUME IInv PROVE OneLossPerTrouble
    OBVIOUS
  <2>1. RequestsInv /\ RelaysInv /\ ProjectorTyped /\ ProjectorInv
    BY DEF IInv, RequestsInv, RelaysInv
  <2>2. DOMAIN cursor = Partitions
    BY <2>1 DEF ProjectorTyped
  <2>3. Uncounted = {id \in Read : /\ \A x \in processed : x.id # id
                                   /\ \A c \in Consumers : handler[c].at = Absent \/ Entry(c).id # id}
    BY <2>2 DEF Uncounted, Read, ReadFrom, Counts
  <2>4. ASSUME NEW id \in Uncounted PROVE ~Live(id)
    <3> SUFFICES ASSUME NEW c \in Consumers, handler[c].step \in {"decode", "apply"}, Entry(c).id = id
                 PROVE  FALSE
      BY DEF Live
    <3>1. Entry(c) # Absent
      BY <2>1, AtHand, NoEntryAssumption
    <3> QED BY <3>1, <2>3 DEF Entry
  <2>5. Uncounted \subseteq Lost
    BY <2>3, <2>4 DEF Lost
  <2> QED BY <2>1, <2>5, NoMoreLost DEF ProjectorInv, ProjectorTyped, OneLossPerTrouble
<1> QED BY <1>1, InvariantHolds, PTL

(* A report over two adjoining windows is the report over both.            *)
THEOREM WindowsHold == Spec => []WindowsAddUp
<1>1. IInv => WindowsAddUp
  <2> DEFINE Q(s, t) == [from |-> s, to |-> t, sku |-> Unspecified, bin |-> Unspecified]
             D(s, t) == {c \in DOMAIN rollup : Selected(c, Q(s, t))}
             Over(s, t) == Query(rollup, Q(s, t))
  <2> SUFFICES ASSUME IInv, NEW from \in Times, NEW mid \in Times, NEW to \in Times, from <= mid, mid <= to
               PROVE  Over(from, to) = Over(from, mid) (+) Over(mid, to)
    BY DEF WindowsAddUp
  <2>1. from \in Nat /\ mid \in Nat /\ to \in Nat
    BY HistoryAssumption DEF Times, IInv, RequestsTyped
  <2>2. IsABag(rollup) /\ \A c \in DOMAIN rollup : c.hour \in Int
    BY DEF IInv, ProjectorTyped
  <2>3. \A c \in DOMAIN rollup : rollup[c] \in Nat
    BY <2>2 DEF IsABag
  <2>4. \A s, t : Over(s, t) = [c \in D(s, t) |-> rollup[c]]
    BY DEF Query, BagToSet
  <2>5. \A s, t : \A c \in DOMAIN rollup : c \in D(s, t) <=> s <= c.hour /\ c.hour < t
    BY DEF Selected
  <2> HIDE DEF D, Over
  <2>6. D(from, to) = D(from, mid) \cup D(mid, to) /\ D(from, mid) \cap D(mid, to) = {}
        /\ D(from, to) \subseteq DOMAIN rollup
    BY <2>1, <2>2, <2>5 DEF D
  <2>7. Over(from, mid) (+) Over(mid, to) = [c \in D(from, to) |-> rollup[c]]
    BY <2>3, <2>4, <2>6 DEF (+)
  <2> QED BY <2>4, <2>7
<1> QED BY <1>1, InvariantHolds, PTL

(* What has been counted stays counted, in the workload it was.            *)
LEMMA CountedStays ==
    ASSUME IInv, [Next]_vars
    PROVE  processed \subseteq processed' /\ work' = work
<1>1. CASE RequestNext /\ UNCHANGED <<relayVars, projectorVars>>
  BY <1>1, RequestStep DEF IInv, RequestsInv, projectorVars
<1>2. CASE RelayNext /\ UNCHANGED projectorVars
  BY <1>2, RelayStep DEF IInv, RequestsInv, RelaysInv, projectorVars
<1>3. CASE ProjectorNext /\ UNCHANGED <<requestVars, relayVars>>
  <2>1. work' = work
    BY <1>3 DEF requestVars
  <2>2. PICK c \in Consumers :
         \/ \E p \in DOMAIN cursor : ReadMessage(c, p) \/ ReadFails(c, p)
         \/ Ignore(c) \/ MarkProcessed(c) \/ Duplicate(c) \/ Apply(c)
         \/ MarkFails(c) \/ ApplyFails(c) \/ Crash(c)
    BY <1>3 DEF ProjectorNext, Handle
  <2>3. UNCHANGED processed \/ ApplyDelta(Entry(c))
    BY <2>2 DEF ReadMessage, ReadFails, Ignore, MarkProcessed, Duplicate, Apply, MarkFails, ApplyFails, Crash
  <2>4. processed \subseteq processed'
    BY <2>3 DEF ApplyDelta
  <2> QED BY <2>1, <2>4
<1>4. CASE UNCHANGED vars
  BY <1>4 DEF vars, requestVars, projectorVars
<1> QED BY <1>1, <1>2, <1>3, <1>4 DEF Next

(* Counting an event, however late it arrives, never makes the report look *)
(* older: the latest of more times is no earlier.                          *)
THEOREM FreshnessHolds == Spec => NeverLooksOlder
<1>1. IInv /\ [Next]_vars => [processed' # processed /\ processed # {} =>
                                FreshnessLag(work.until)' <= FreshnessLag(work.until)]_projectorVars
  <2> SUFFICES ASSUME IInv, [Next]_vars, processed # {}
               PROVE  FreshnessLag(work.until)' <= FreshnessLag(work.until)
    OBVIOUS
  <2>1. processed \subseteq processed' /\ work' = work /\ IInv'
    BY CountedStays, StepInvariant
  <2> DEFINE T == {x.at : x \in processed}
             now == work.until
  <2>2. PICK U : U = {x.at : x \in processed'}
    OBVIOUS
  <2>3. PICK S : S = T
    OBVIOUS
  <2>4. now \in Nat
    BY HistoryAssumption DEF IInv, RequestsTyped
  <2>5. S \in SUBSET Nat /\ S # {} /\ IsFiniteSet(S)
    <3>1. processed \subseteq [id : Int, at : Nat] /\ IsFiniteSet(processed)
      BY DEF IInv, ProjectorTyped
    <3> DEFINE f == [x \in processed |-> x.at]
    <3>2. f \in Surjection(processed, S)
      BY <2>3 DEF Surjection
    <3>3. IsFiniteSet(S)
      BY <3>1, <3>2, FS_Surjection
    <3> QED BY <3>1, <3>3, <2>3
  <2>6. U \in SUBSET Nat /\ IsFiniteSet(U)
    <3>1. processed' \subseteq [id : Int, at : Nat] /\ IsFiniteSet(processed')
      BY <2>1 DEF IInv, ProjectorTyped
    <3> DEFINE g == [x \in processed' |-> x.at]
    <3>2. g \in Surjection(processed', U)
      BY <2>2 DEF Surjection
    <3>3. IsFiniteSet(U)
      BY <3>1, <3>2, FS_Surjection
    <3> QED BY <3>1, <3>3, <2>2
  <2>7. S \subseteq U
    BY <2>1, <2>2, <2>3
  <2>8. U # {} /\ processed' # {}
    BY <2>1, <2>5, <2>7
  <2>9. Max(S) \in Nat /\ Max(U) \in Nat /\ Max(U) >= Max(S)
    <3>1. Max(S) \in S /\ Max(U) \in U /\ \A y \in U : Max(U) >= y
      BY <2>5, <2>6, <2>8, MaxIsGreatest
    <3> QED BY <3>1, <2>5, <2>6, <2>7
  <2>10. FreshnessLag(now) = IF now < Max(S) THEN 0 ELSE now - Max(S)
    BY <2>3 DEF FreshnessLag
  <2>11. FreshnessLag(now)' = IF now < Max(U) THEN 0 ELSE now - Max(U)
    BY <2>1, <2>2, <2>8 DEF FreshnessLag
  <2> QED BY <2>4, <2>9, <2>10, <2>11
<1> QED BY <1>1, InvariantHolds, PTL DEF Spec, NeverLooksOlder

-----------------------------------------------------------------------------
(* The abstract report *)

CountedFacts == {e \in Facts : \E x \in processed : x.id = e.id}

(* No row of the outbox has the id of a message an earlier release sent,   *)
(* and there is one fact to an id.                                         *)
LEMMA FactsFacts ==
    ASSUME RequestsInv
    PROVE  /\ \A i \in DOMAIN outbox : i \in Nat /\ ~(i < 1)
           /\ \A n \in DOMAIN work.history : work.history[n].id < 1
           /\ \A e, f \in Facts : e.id = f.id => e = f
<1>1. \A i \in DOMAIN outbox : i \in Nat /\ ~(i < 1)
  BY DEF RequestsInv, RequestsTyped
<1>2. \A n \in DOMAIN work.history :
         /\ work.history[n].id < 1
         /\ \A m \in DOMAIN work.history : work.history[m].id = work.history[n].id => work.history[m] = work.history[n]
  BY HistoryFacts DEF RequestsInv, RequestsTyped
<1> DEFINE Row(e) == \E i \in DOMAIN outbox : e = [id |-> i, msg |-> outbox[i].msg]
           Old(e) == \E n \in DOMAIN work.history : e = work.history[n]
<1>3. \A e \in Facts : Row(e) \/ Old(e)
  BY DEF Facts
<1>4. \A e : Row(e) => e.id \in DOMAIN outbox /\ e = [id |-> e.id, msg |-> outbox[e.id].msg]
  OBVIOUS
<1>5. \A e : Old(e) => e.id < 1
  BY <1>2
<1>6. \A e, f : Old(e) /\ Old(f) /\ e.id = f.id => e = f
  BY <1>2
<1> HIDE DEF Row, Old
<1>7. ASSUME NEW e \in Facts, NEW f \in Facts, e.id = f.id PROVE e = f
  <2>1. CASE Row(e) /\ Row(f)
    BY <2>1, <1>4, <1>7
  <2>2. CASE Old(e) /\ Old(f)
    BY <2>2, <1>6, <1>7
  <2> QED BY <2>1, <2>2, <1>1, <1>3, <1>4, <1>5, <1>7
<1> QED BY <1>1, <1>2, <1>7

(* Initially nothing is counted.                                           *)
LEMMA InitReport == Init => Ledger!LedgerInit
<1> SUFFICES ASSUME Init PROVE Ledger!LedgerInit
  OBVIOUS
<1>1. processed = {} /\ rollup = EmptyBag
  BY DEF Init
<1>2. {e \in Facts : \E x \in processed : x.id = e.id} = {}
  BY <1>1
<1>3. rollup = Ledger!EmptyBag
  BY <1>1 DEF EmptyBag, SetToBag, Ledger!EmptyBag, Ledger!SetToBag
<1> QED BY <1>2, <1>3 DEF Ledger!LedgerInit

(* A request that commits tells its events; they are not counted yet, for  *)
(* what has been counted was read from Kafka.                              *)
LEMMA RequestTells ==
    ASSUME IInv, IInv', RequestNext, UNCHANGED <<relayVars, projectorVars>>
    PROVE  Facts \subseteq Facts' /\ CountedFacts' = CountedFacts /\ UNCHANGED <<processed, rollup>>
<1>1. RequestsInv /\ RelaysInv /\ ProjectorInv /\ LogInv /\ RequestsInv'
  BY DEF IInv, RequestsInv, RelaysInv
<1>2. Grows /\ work' = work
  BY <1>1, RequestStep
<1>3. UNCHANGED <<processed, rollup>>
  BY DEF projectorVars
<1>4. /\ DOMAIN outbox \subseteq DOMAIN outbox'
      /\ \A i \in DOMAIN outbox : outbox'[i] = outbox[i]
  BY <1>2 DEF Grows
<1>5. Facts \subseteq Facts'
  BY <1>2, <1>4 DEF Facts
<1>6. \A e \in Facts' : e \in Facts \/ (e.id \in DOMAIN outbox' /\ e.id \notin DOMAIN outbox)
  <2> SUFFICES ASSUME NEW e \in Facts', e \notin Facts PROVE e.id \in DOMAIN outbox' /\ e.id \notin DOMAIN outbox
    OBVIOUS
  <2>1. PICK i \in DOMAIN outbox' : outbox'[i].msg.topic = "analytics" /\ e = [id |-> i, msg |-> outbox'[i].msg]
    BY <1>2 DEF Facts
  <2>2. i \notin DOMAIN outbox
    BY <2>1, <1>4 DEF Facts
  <2> QED BY <2>1, <2>2
<1>7. ASSUME NEW x \in processed, x.id \in DOMAIN outbox' PROVE x.id \in DOMAIN outbox
  <2>1. PICK p \in Partitions : \E n \in 1 .. cursor[p] : Analytics(p)[n].id = x.id
    BY <1>1 DEF ProjectorInv, Known
  <2>2. PICK n \in 1 .. cursor[p] : Analytics(p)[n].id = x.id
    BY <2>1
  <2>3. <<"analytics", p>> \in DOMAIN log /\ n \in DOMAIN Analytics(p)
    <3>1. cursor[p] \in Nat /\ cursor[p] <= Len(Analytics(p))
      BY <1>1 DEF ProjectorInv, IInv, ProjectorTyped
    <3> QED BY <3>1, AnalyticsFacts DEF IInv
  <2>4. x.id \in Nat /\ ~(x.id < 1)
    BY <1>1, <1>7 DEF RequestsInv, RequestsTyped
  <2>5. \A h \in DOMAIN work.history : work.history[h].id < 1
    BY <1>1, FactsFacts
  <2> QED BY <2>2, <2>3, <2>4, <2>5, <1>1 DEF LogInv, Analytics
<1>8. CountedFacts' = CountedFacts
  BY <1>3, <1>5, <1>6, <1>7 DEF CountedFacts
<1> QED BY <1>3, <1>5, <1>8

(* Marking a row as published changes no fact.                             *)
LEMMA MarksKeepFacts ==
    ASSUME RowsKept, work' = work
    PROVE  Facts' = Facts
BY DEF RowsKept, Facts

(* A message at hand is a fact.                                            *)
LEMMA HandledIsFact ==
    ASSUME IInv, NEW c \in Consumers, handler[c].step \in {"decode", "apply"}
    PROVE  \E f \in Facts : f.id = Entry(c).id /\ f.msg = Entry(c).msg
<1>1. RequestsInv /\ RelaysInv /\ RelaysTyped /\ LogInv /\ ProjectorTyped /\ ProjectorInv
  BY DEF IInv, RequestsInv, RelaysInv
<1>2. PICK p \in Partitions : \E n \in 1 .. cursor[p] : Entry(c) = Analytics(p)[n]
  BY <1>1 DEF ProjectorInv
<1>3. PICK n \in 1 .. cursor[p] : Entry(c) = Analytics(p)[n]
  BY <1>2
<1>4. <<"analytics", p>> \in DOMAIN log /\ n \in DOMAIN Analytics(p)
  <2>1. cursor[p] \in Nat /\ cursor[p] <= Len(Analytics(p))
    BY <1>1 DEF ProjectorInv, ProjectorTyped
  <2> QED BY <2>1, <1>1, AnalyticsFacts
<1> DEFINE e == Entry(c)
<1>5. \/ \E h \in DOMAIN work.history : e = work.history[h]
      \/ /\ e.id \in DOMAIN outbox /\ e.msg = outbox[e.id].msg
         /\ <<"analytics", p>> = <<e.msg.topic, PartitionOf[e.msg.key]>>
  BY <1>1, <1>3, <1>4 DEF LogInv, Analytics
<1>6. CASE \E h \in DOMAIN work.history : e = work.history[h]
  BY <1>6 DEF Facts
<1>7. CASE e.id \in DOMAIN outbox /\ e.msg = outbox[e.id].msg /\ e.msg.topic = "analytics"
  <2>1. [id |-> e.id, msg |-> outbox[e.id].msg] \in Facts
    BY <1>7 DEF Facts
  <2> QED BY <2>1, <1>7
<1> QED BY <1>5, <1>6, <1>7

(* A consumer counts a fact it has not counted, or nothing.                *)
LEMMA ConsumerCounts ==
    ASSUME IInv, ProjectorNext, UNCHANGED <<requestVars, relayVars>>
    PROVE  /\ Facts' = Facts
           /\ \/ CountedFacts' = CountedFacts /\ rollup' = rollup
              \/ \E f \in Facts \ CountedFacts : /\ CountedFacts' = CountedFacts \cup {f}
                                                 /\ rollup' = rollup (+) Effect(f.msg)
<1>1. RequestsInv
  BY DEF IInv, RequestsInv
<1>2. Facts' = Facts
  BY DEF requestVars, Facts
<1>3. PICK c \in Consumers :
         \/ \E p \in DOMAIN cursor : ReadMessage(c, p) \/ ReadFails(c, p)
         \/ Ignore(c) \/ MarkProcessed(c) \/ Duplicate(c) \/ Apply(c)
         \/ MarkFails(c) \/ ApplyFails(c) \/ Crash(c)
  BY DEF ProjectorNext, Handle
<1>4. UNCHANGED <<processed, rollup>> \/ (handler[c].step = "apply" /\ ApplyDelta(Entry(c)))
  BY <1>3 DEF ReadMessage, ReadFails, Ignore, MarkProcessed, Duplicate, Apply, MarkFails, ApplyFails, Crash, Handling
<1>5. CASE UNCHANGED <<processed, rollup>>
  BY <1>2, <1>5 DEF CountedFacts
<1>6. CASE handler[c].step = "apply" /\ ApplyDelta(Entry(c)) /\ ~UNCHANGED <<processed, rollup>>
  <2>1. /\ \A x \in processed : x.id # Entry(c).id
        /\ processed' = processed \cup {[id |-> Entry(c).id, at |-> Entry(c).msg.at]}
        /\ rollup' = rollup (+) Effect(Entry(c).msg)
    BY <1>6 DEF ApplyDelta
  <2>2. PICK f \in Facts : f.id = Entry(c).id /\ f.msg = Entry(c).msg
    BY <1>6, HandledIsFact
  <2>3. f \notin CountedFacts
    BY <2>1, <2>2 DEF CountedFacts
  <2>4. \A e \in Facts : e.id = f.id => e = f
    BY <1>1, FactsFacts
  <2>5. PICK y : y = [id |-> Entry(c).id, at |-> Entry(c).msg.at]
    OBVIOUS
  <2>6. y.id = f.id /\ processed' = processed \cup {y}
    BY <2>1, <2>2, <2>5
  <2>7. CountedFacts' = CountedFacts \cup {f}
    BY <2>4, <2>6, <1>2 DEF CountedFacts
  <2> QED BY <2>1, <2>2, <2>3, <2>7, <1>2
<1> QED BY <1>2, <1>4, <1>5, <1>6

(* The rollup moves like the report of the abstract ledger: requests tell, *)
(* consumers count, and no other step is seen.                             *)
THEOREM ReportImplemented == Spec => ImplementsReport
<1>1. Init => Ledger!LedgerInit
  BY InitReport
<1>2. IInv /\ IInv' /\ [Next]_vars => [Ledger!Tell \/ Ledger!Count]_(Ledger!ledgerVars)
  <2> SUFFICES ASSUME IInv, IInv', [Next]_vars
               PROVE  Ledger!Tell \/ Ledger!Count \/ UNCHANGED Ledger!ledgerVars
    OBVIOUS
  <2>1. CASE RequestNext /\ UNCHANGED <<relayVars, projectorVars>>
    BY <2>1, RequestTells DEF Ledger!Tell, CountedFacts
  <2>2. CASE RelayNext /\ UNCHANGED projectorVars
    <3>1. RowsKept /\ work' = work
      BY <2>2, RelayStep, RelayRows DEF IInv, RequestsInv, RelaysInv
    <3>2. Facts' = Facts /\ UNCHANGED <<processed, rollup>>
      BY <3>1, <2>2, MarksKeepFacts DEF projectorVars
    <3> QED BY <3>2 DEF Ledger!ledgerVars
  <2>3. CASE ProjectorNext /\ UNCHANGED <<requestVars, relayVars>>
    <3>1. Facts' = Facts
      BY <2>3, ConsumerCounts
    <3>2. CASE CountedFacts' = CountedFacts /\ rollup' = rollup
      BY <3>1, <3>2 DEF Ledger!ledgerVars, CountedFacts
    <3>3. CASE \E f \in Facts \ CountedFacts : /\ CountedFacts' = CountedFacts \cup {f}
                                               /\ rollup' = rollup (+) Effect(f.msg)
      <4>1. PICK f \in Facts \ CountedFacts : /\ CountedFacts' = CountedFacts \cup {f}
                                              /\ rollup' = rollup (+) Effect(f.msg)
        BY <3>3
      <4>2. rollup' = Ledger!(+)(rollup, Effect(f.msg))
        BY <4>1 DEF (+), Ledger!(+)
      <4> QED BY <4>1, <4>2, <3>1 DEF Ledger!Count, CountedFacts
    <3> QED BY <2>3, ConsumerCounts, <3>2, <3>3
  <2>4. CASE UNCHANGED vars
    BY <2>4 DEF vars, requestVars, projectorVars, Facts, Ledger!ledgerVars
  <2> QED BY <2>1, <2>2, <2>3, <2>4 DEF Next
<1> QED BY <1>1, <1>2, InvariantHolds, PTL DEF Spec, ImplementsReport, Ledger!LedgerSpec

=============================================================================
