----------------------------- MODULE PodProofs -----------------------------
(***************************************************************************)
(* Proofs that IInv is an invariant of Pod, and of what follows from it.   *)
(***************************************************************************)
EXTENDS PodInvariant, NumberLemmas, SequenceTheorems

-----------------------------------------------------------------------------
(* Product rules *)

(* The matrix built from pairs is the table documented beside it.          *)
LEMMA MatrixIsTheTable ==
    ASSUME NEW m, NEW n
    PROVE  Incompatible(m, n) = (m \in DOTClasses /\ n \in DOTClasses /\ n \in DerivedTable[m])
<1>1. CASE m \notin DOTClasses \/ n \notin DOTClasses
  BY <1>1 DEF Incompatible
<1>2. CASE m \in DOTClasses /\ n \in DOTClasses
  <2>1. m \in 1 .. 9 /\ n \in 1 .. 9
    BY <1>2 DEF DOTClasses
  <2>2. ClassIncompatibility[<<m, n>>] = (<<m, n>> \in IncompatiblePairs \/ <<n, m>> \in IncompatiblePairs)
    BY <1>2 DEF ClassIncompatibility
  <2>3. Incompatible(m, n) = ClassIncompatibility[<<m, n>>]
    <3>1. m # 0 /\ n # 0
      BY <2>1
    <3>2. ClassIncompatibility[<<m, n>>] \in BOOLEAN
      BY <2>2
    <3> HIDE DEF ClassIncompatibility
    <3> QED BY <1>2, <3>1, <3>2 DEF Incompatible, Unspecified
  <2>4. (<<m, n>> \in IncompatiblePairs \/ <<n, m>> \in IncompatiblePairs) = (n \in DerivedTable[m])
    BY <2>1 DEF IncompatiblePairs, DerivedTable
  <2> QED BY <1>2, <2>2, <2>3, <2>4
<1> QED BY <1>1, <1>2

(* Being kept apart is mutual.                                             *)
LEMMA IncompatibleIsMutual ==
    ASSUME NEW m, NEW n
    PROVE  Incompatible(m, n) = Incompatible(n, m)
<1>1. CASE m \notin DOTClasses \/ n \notin DOTClasses
  BY <1>1 DEF Incompatible
<1>2. CASE m \in DOTClasses /\ n \in DOTClasses
  <2>1. ClassIncompatibility[<<m, n>>] = ClassIncompatibility[<<n, m>>]
    BY <1>2 DEF ClassIncompatibility
  <2> QED BY <2>1 DEF Incompatible
<1> QED BY <1>1, <1>2

(* What the aggregate accepts becomes a classification.                    *)
LEMMA AcceptedIsClassification ==
    ASSUME NEW c, Accepts(c)
    PROVE  NewClassification(c) \in Classifications
BY DEF Accepts, NewClassification, Classifications

-----------------------------------------------------------------------------
(* The types *)

PodOnly ==
    \/ StepFails \/ GiveUp \/ Misconfigured \/ RunMigrations \/ Ping \/ Replayed \/ ReplayTimesOut
    \/ SetNotReady \/ ListenFails \/ Shutdown \/ Kill \/ Relay

(* The steps of the process itself change nothing else.                    *)
LEMMA PodOnlyFrame ==
    ASSUME PodOnly
    PROVE  UNCHANGED <<plan, news, requestVars, cacheVars, layoutVars>>
BY DEF PodOnly, StepFails, GiveUp, Misconfigured, RunMigrations, Ping, Replayed, ReplayTimesOut, SetNotReady,
       ListenFails, Shutdown, Kill, Relay, CloseListener, Drained, DrainWindowEnds, LookupStopped,
       LookupWindowEnds, RelayStopped, RelayWindowEnds, ClosePool, PoolClosed, Flushed, FlushWindowEnds, StopOf

(* The names of phases and windows.                                        *)
LEMMA PhaseNames ==
    {"migrate", "ping", "dial", "replay", "serving", "not ready", "drain", "stop lookup", "stop relay",
     "close pool", "flush", "exited", "killed"} \subseteq Phases
BY DEF Phases

LEMMA WindowNames == {"replay", "listen", "requests", "lookup", "relay", "flush"} \subseteq Windows
BY DEF Windows

(* Entering a phase changes the phase and the count of attempts.           *)
LEMMA ToPhase ==
    ASSUME pod \in Processes, NEW p \in Phases
    PROVE  /\ To(p) \in Processes
           /\ To(p).phase = p /\ To(p).listening = pod.listening /\ To(p).pool = pod.pool
           /\ To(p).relay = pod.relay /\ To(p).reader = pod.reader
           /\ To(p).cancelled = pod.cancelled /\ To(p).hurried = pod.hurried
<1>0. 1 \in 1 .. 5
  OBVIOUS
<1>1. To(p) \in Processes
  BY <1>0 DEF Processes, To, BootRetries
<1>2. To(p).phase = p /\ To(p).listening = pod.listening /\ To(p).pool = pod.pool
      /\ To(p).relay = pod.relay
  BY DEF Processes, To
<1>3. To(p).reader = pod.reader /\ To(p).cancelled = pod.cancelled /\ To(p).hurried = pod.hurried
  BY DEF Processes, To
<1> QED BY <1>1, <1>2, <1>3

(* The process keeps its type.                                             *)
LEMMA ProcessTyped ==
    ASSUME pod \in Processes, PodOnly \/ Dial
    PROVE  pod' \in Processes
<1> DEFINE Good == {"migrate", "ping", "dial", "replay", "serving", "not ready", "drain", "stop lookup",
                    "stop relay", "close pool", "flush", "exited", "killed"}
<1>0. \A phase \in Good : phase \in Phases /\ To(phase) \in Processes
  BY PhaseNames, ToPhase
<1>00. {"replay", "listen", "requests", "lookup", "relay", "flush"} \subseteq Windows
  BY WindowNames
<1>1. CASE StepFails
  BY <1>1 DEF StepFails, Processes, BootRetries
<1>2. CASE GiveUp \/ Misconfigured
  <2>1. To("exited") \in Processes /\ To("stop relay") \in Processes /\ To("flush") \in Processes
    BY <1>0
  <2> QED BY <1>2, <2>1 DEF GiveUp, Misconfigured, Processes
<1>3. CASE RunMigrations
  <2>1. To("ping") \in Processes
    BY <1>0
  <2> QED BY <1>3, <2>1 DEF RunMigrations, Processes
<1>4. CASE Ping
  <2>1. To("dial") \in Processes /\ "serving" \in Phases
    BY <1>0
  <2> QED BY <1>4, <2>1 DEF Ping, Serving, Processes
<1>5. CASE Replayed
  <2>1. "serving" \in Phases
    BY <1>0
  <2> QED BY <1>5, <2>1 DEF Replayed, Serving, Processes
<1>6. CASE ReplayTimesOut
  <2>1. To("stop relay") \in Processes
    BY <1>0
  <2> QED BY <1>00, <1>6, <2>1 DEF ReplayTimesOut, Processes
<1>7. CASE SetNotReady \/ Kill \/ Flushed \/ RelayStopped
  <2>1. To("not ready") \in Processes /\ To("killed") \in Processes /\ To("exited") \in Processes
        /\ To("close pool") \in Processes
    BY <1>0
  <2> QED BY <1>7, <2>1 DEF SetNotReady, Kill, Flushed, RelayStopped, StopOf
<1>8. CASE Dial
  <2>1. To("replay") \in Processes
    BY <1>0
  <2> QED BY <1>8, <2>1 DEF Dial, Processes
<1>9. CASE ListenFails
  <2>1. To("stop relay") \in Processes
    BY <1>0
  <2> QED BY <1>00, <1>9, <2>1 DEF ListenFails, StopOf, Processes
<1>10. CASE CloseListener
  <2>1. To("drain") \in Processes
    BY <1>0
  <2> QED BY <1>10, <2>1 DEF CloseListener, StopOf, Processes
<1>11. CASE Drained \/ DrainWindowEnds
  <2>1. To("stop lookup") \in Processes
    BY <1>0
  <2> QED BY <1>00, <1>11, <2>1 DEF Drained, DrainWindowEnds, StopOf, Processes
<1>12. CASE LookupStopped \/ LookupWindowEnds
  <2>1. To("stop relay") \in Processes
    BY <1>0
  <2>2. PICK w \in SUBSET Windows : CloseLookup(w)
    BY <1>00, <1>12 DEF LookupStopped, LookupWindowEnds, StopOf
  <2> QED BY <2>1, <2>2 DEF CloseLookup, Processes
<1>13. CASE RelayWindowEnds \/ ClosePool \/ PoolClosed \/ FlushWindowEnds
  <2>1. To("close pool") \in Processes /\ To("flush") \in Processes /\ To("exited") \in Processes
    BY <1>0
  <2>2. CASE RelayWindowEnds
    BY <1>00, <2>1, <2>2 DEF RelayWindowEnds, StopOf, Processes
  <2>3. CASE ClosePool
    BY <2>3 DEF ClosePool, StopOf, Processes
  <2>4. CASE PoolClosed
    BY <2>1, <2>4 DEF PoolClosed, StopOf, Processes
  <2>5. CASE FlushWindowEnds
    BY <1>00, <2>1, <2>5 DEF FlushWindowEnds, StopOf, Processes
  <2> QED BY <1>13, <2>2, <2>3, <2>4, <2>5
<1>14. CASE Relay
  BY <1>14 DEF Relay, Processes
<1> QED
  BY <1>1, <1>2, <1>3, <1>4, <1>5, <1>6, <1>7, <1>8, <1>9, <1>10, <1>11, <1>12, <1>13, <1>14 DEF PodOnly, Shutdown

(* What the plan's assumption says of the plan of a behaviour.             *)
LEMMA PlanFacts ==
    ASSUME plan \in Plans
    PROVE  /\ IsFiniteSet(Requests)
           /\ \A a \in Requests : Op(a) \in {"stow", "classify"} /\ Sku(a) \in Skus /\ Bin(a) \in Bins
BY PlansAssumption DEF Requests, Op, Sku, Bin, Skus, Bins

-----------------------------------------------------------------------------
(* The breaker *)

Counts ==
    /\ breaker.failures + Cardinality(Current) <= breaker.requests
    /\ breaker.state = "half-open" => breaker.requests <= MaxRequests

(* What every step of the client keeps.                                    *)
LayoutKept == LayoutTyped' /\ Counts'

(* The requests under way are finitely many.                               *)
LEMMA CurrentFinite ==
    ASSUME plan \in Plans
    PROVE  IsFiniteSet(Current) /\ Cardinality(Current) \in Nat
BY PlanFacts, FS_Subset, FS_CardinalityType DEF Current

(* A new generation counts nothing.                                        *)
LEMMA NewGenerationKeeps ==
    ASSUME plan \in Plans, LayoutTyped, Counts, UNCHANGED plan,
           NEW state \in {"closed", "open", "half-open"}, NEW done, NewGeneration(state, done)
    PROVE  /\ LayoutKept
           /\ \A q \in Requests : calls'[q].attempts = IF q \in done THEN 0 ELSE calls[q].attempts
<1>1. Requests' = Requests
  BY DEF Requests
<1>2. calls' \in [Requests -> Calls]
  BY <1>1 DEF LayoutTyped, NewGeneration, Calls, NoCall
<1>3. \A q \in Requests : ~calls'[q].current
  BY <1>1 DEF LayoutTyped, NewGeneration, Calls, NoCall
<1>4. \A q \in Requests : calls'[q].attempts = IF q \in done THEN 0 ELSE calls[q].attempts
  BY <1>1 DEF LayoutTyped, NewGeneration, Calls, NoCall
<1>5. Current' = {}
  BY <1>1, <1>3 DEF Current
<1>6. Cardinality(Current') = 0
  BY <1>5, FS_EmptySet
<1>7. breaker' \in Breakers
  <2>1. 0 \in 0 .. MaxCounted
    BY CountAssumption
  <2> QED BY <2>1 DEF NewGeneration, Breakers
<1>8. breaker'.requests = 0 /\ breaker'.failures = 0 /\ breaker'.state = state
  BY DEF NewGeneration
<1>9. Counts'
  <2>1. breaker'.failures + Cardinality(Current') <= breaker'.requests
    BY <1>6, <1>8
  <2> QED BY <1>8, <2>1 DEF Counts, MaxRequests
<1> QED BY <1>1, <1>2, <1>4, <1>7, <1>8, <1>9 DEF LayoutKept, LayoutTyped

(* A call that ends is no longer counted as under way.                     *)
LEMMA CountedKeeps ==
    ASSUME plan \in Plans, LayoutTyped, UNCHANGED plan,
           NEW q \in Requests, NEW b \in Breakers, Counted(b, q),
           b.failures + Cardinality(Current \ {q}) <= b.requests,
           b.state = breaker.state, Counts,
           b.state = "half-open" => b.requests <= MaxRequests
    PROVE  /\ LayoutKept /\ calls'[q].attempts = 0
           /\ \A o \in Requests \ {q} : calls'[o].attempts = calls[o].attempts
<1>1. Requests' = Requests
  BY DEF Requests
<1>2. calls' = [calls EXCEPT ![q] = NoCall] /\ breaker' = b
  BY DEF Counted
<1>3. calls' \in [Requests -> Calls]
  BY <1>1, <1>2 DEF LayoutTyped, Calls, NoCall
<1>4. Current' = Current \ {q}
  BY <1>1, <1>2 DEF Current, LayoutTyped, NoCall
<1>5. Counts'
  BY <1>2, <1>4 DEF Counts
<1>6. calls'[q].attempts = 0 /\ \A o \in Requests \ {q} : calls'[o].attempts = calls[o].attempts
  BY <1>2 DEF LayoutTyped, NoCall
<1> QED BY <1>1, <1>2, <1>3, <1>5, <1>6 DEF LayoutKept, LayoutTyped

(* However a call ends.                                                    *)
LEMMA AfterRequestKeeps ==
    ASSUME plan \in Plans, LayoutTyped, Counts, UNCHANGED plan,
           NEW q \in Requests, NEW outcome \in {"success", "failure", "excluded"}, AfterRequest(q, outcome)
    PROVE  /\ LayoutKept /\ calls'[q].attempts = 0
           /\ \A o \in Requests \ {q} : calls'[o].attempts = calls[o].attempts
<1>1. Cardinality(Current) \in Nat /\ IsFiniteSet(Current)
  BY CurrentFinite
<1>2. Cardinality(Current \ {q}) = IF calls[q].current THEN Cardinality(Current) - 1 ELSE Cardinality(Current)
  BY <1>1, FS_RemoveElement DEF Current
<1>3. breaker \in Breakers /\ breaker.requests \in 0 .. MaxCounted /\ breaker.failures \in Nat
      /\ breaker.inARow \in Nat /\ MaxCounted \in Nat
  BY CountAssumption DEF LayoutTyped, Breakers
<1>4. Cardinality(Current \ {q}) \in Nat
  BY <1>1, FS_RemoveElement, FS_CardinalityType
<1>5. CASE ~calls[q].current
  BY <1>2, <1>3, <1>5, CountedKeeps DEF AfterRequest, Counts
<1>6. CASE calls[q].current /\ outcome = "success" /\ breaker.state = "half-open"
  <2>1. NewGeneration("closed", {q})
    BY <1>6 DEF AfterRequest, OnSuccess
  <2> QED BY <2>1, NewGenerationKeeps
<1>7. CASE calls[q].current /\ outcome = "success" /\ breaker.state # "half-open"
  <2> DEFINE b == [breaker EXCEPT !.inARow = 0]
  <2>1. Counted(b, q)
    BY <1>7 DEF AfterRequest, OnSuccess
  <2>2. b \in Breakers
    BY <1>3 DEF Breakers
  <2>3. b.failures = breaker.failures /\ b.requests = breaker.requests /\ b.state = breaker.state
    BY <1>3 DEF Breakers
  <2>4. b.failures + Cardinality(Current \ {q}) <= b.requests
    BY <1>1, <1>2, <1>3, <2>3 DEF Counts
  <2> HIDE DEF b
  <2> QED BY <1>7, <2>1, <2>2, <2>3, <2>4, CountedKeeps
<1>8. CASE calls[q].current /\ outcome = "failure"
  <2> DEFINE b == [breaker EXCEPT !.failures = @ + 1, !.inARow = @ + 1]
  <2>1. CASE NewGeneration("open", {q})
    BY <2>1, NewGenerationKeeps
  <2>2. CASE breaker.state # "half-open" /\ Counted(b, q)
    <3>0. breaker.failures + 1 \in Nat /\ breaker.inARow + 1 \in Nat
      BY <1>3
    <3>1. b \in Breakers
      BY <1>3, <3>0 DEF Breakers
    <3>2. b.failures = breaker.failures + 1 /\ b.requests = breaker.requests /\ b.state = breaker.state
      BY <1>3 DEF Breakers
    <3>3. b.failures + Cardinality(Current \ {q}) <= b.requests
      BY <1>1, <1>2, <1>3, <1>8, <3>2 DEF Counts
    <3> HIDE DEF b
    <3> QED BY <2>2, <3>1, <3>2, <3>3, CountedKeeps
  <2> QED BY <1>8, <2>1, <2>2 DEF AfterRequest, OnFailure
<1>9. CASE calls[q].current /\ outcome = "excluded"
  <2>1. PICK n \in {0, 1} : Counted([breaker EXCEPT !.requests = @ - n], q)
    BY <1>9 DEF AfterRequest, OnExclusion
  <2> DEFINE b == [breaker EXCEPT !.requests = @ - n]
  <2>2. breaker.failures + Cardinality(Current \ {q}) <= breaker.requests - n
    BY <1>1, <1>2, <1>3, <1>9, <2>1 DEF Counts
  <2>3. breaker.requests - n \in 0 .. MaxCounted
    BY <1>3, <1>4, <2>1, <2>2
  <2>4. b \in Breakers
    BY <1>3, <2>3 DEF Breakers
  <2>5. b.failures = breaker.failures /\ b.requests = breaker.requests - n /\ b.state = breaker.state
    BY <1>3 DEF Breakers
  <2>6. b.state = "half-open" => b.requests <= MaxRequests
    BY <1>3, <2>1, <2>5 DEF Counts, MaxRequests
  <2> HIDE DEF b
  <2>7. Counted(b, q)
    BY <2>1 DEF b
  <2> QED BY <2>2, <2>4, <2>5, <2>6, <2>7, CountedKeeps
<1> QED BY <1>5, <1>6, <1>7, <1>8, <1>9

(* A call that is admitted is counted.                                     *)
LEMMA BeginCallKeeps ==
    ASSUME plan \in Plans, LayoutTyped, Counts, UNCHANGED plan, NEW q \in Requests, BeginCall(q)
    PROVE  LayoutKept /\ \A o \in Requests \ {q} : calls'[o].attempts = calls[o].attempts
<1>1. Requests' = Requests
  BY DEF Requests
<1>2. Cardinality(Current) \in Nat /\ IsFiniteSet(Current)
  BY CurrentFinite
<1>3. breaker \in Breakers /\ breaker.requests \in 0 .. MaxCounted /\ breaker.failures \in Nat
      /\ MaxCounted \in Nat \ {0}
  BY CountAssumption DEF LayoutTyped, Breakers
<1>4. breaker.requests + 1 \in 0 .. MaxCounted
      /\ (breaker.state = "half-open" => breaker.requests + 1 <= MaxRequests)
  BY <1>3 DEF BeginCall, Admits, MaxRequests
<1>5. breaker' \in Breakers /\ breaker'.requests = breaker.requests + 1 /\ breaker'.state = breaker.state
      /\ breaker'.failures = breaker.failures
  BY <1>3, <1>4 DEF BeginCall, Breakers
<1>6. calls' \in [Requests -> Calls]
  BY <1>1 DEF BeginCall, LayoutTyped, Calls
<1>7. Current' = Current \cup {q}
  BY <1>1 DEF Current, BeginCall, LayoutTyped
<1>8. Cardinality(Current') \in Nat /\ Cardinality(Current') <= Cardinality(Current) + 1
  BY <1>2, <1>7, FS_AddElement
<1>9. Counts'
  BY <1>2, <1>3, <1>4, <1>5, <1>8 DEF Counts
<1>10. \A o \in Requests \ {q} : calls'[o].attempts = calls[o].attempts
  BY DEF BeginCall, LayoutTyped
<1> QED BY <1>1, <1>5, <1>6, <1>9, <1>10 DEF LayoutKept, LayoutTyped

(* Another attempt changes no count.                                       *)
LEMMA RetryKeeps ==
    ASSUME plan \in Plans, LayoutTyped, Counts, UNCHANGED plan, NEW q \in Requests, Retry(q)
    PROVE  LayoutKept /\ \A o \in Requests \ {q} : calls'[o].attempts = calls[o].attempts
<1>1. Requests' = Requests
  BY DEF Requests
<1>2. calls' \in [Requests -> Calls]
  BY <1>1 DEF Retry, LayoutTyped, Calls
<1>3. \A o \in Requests : calls'[o].current = calls[o].current
  BY DEF Retry, LayoutTyped, Calls
<1>4. Current' = Current
  BY <1>1, <1>3 DEF Current
<1>5. UNCHANGED breaker /\ \A o \in Requests \ {q} : calls'[o].attempts = calls[o].attempts
  BY DEF Retry, LayoutTyped
<1> QED BY <1>1, <1>2, <1>4, <1>5 DEF LayoutKept, LayoutTyped, Counts

(* The breaker's clock.                                                    *)
LEMMA BreakerStepKeeps ==
    ASSUME plan \in Plans, LayoutTyped, Counts, Breaker
    PROVE  LayoutKept /\ \A q \in Requests : calls'[q].attempts = calls[q].attempts
<1>1. UNCHANGED plan
  BY DEF Breaker
<1>2. CASE NewGeneration("closed", {})
  BY <1>1, <1>2, NewGenerationKeeps
<1>3. CASE breaker.state = "open" /\ NewGeneration("half-open", {})
  BY <1>1, <1>3, NewGenerationKeeps
<1> QED BY <1>2, <1>3 DEF Breaker, IntervalEnds, CooldownEnds

-----------------------------------------------------------------------------
(* Requests *)

StageNames == {"idle", "finding", "placing", "looking", "calling", "segregating", "saving", "classifying", "done"}

(* Only a's record has changed, and is at stage s.                         *)
Moved(a, s) ==
    /\ req' \in [Requests -> RequestStates]
    /\ req'[a].stage = s
    /\ \A o \in Requests \ {a} : req'[o] = req[o]

(* A request goes to a stage with what it has read.                        *)
LEMMA GoesMoves ==
    ASSUME req \in [Requests -> RequestStates], NEW a \in Requests, NEW s \in StageNames, Goes(a, s)
    PROVE  Moved(a, s) /\ req'[a].version = req[a].version /\ req'[a].class = req[a].class
<1> DEFINE row == [req[a] EXCEPT !.stage = s, !.conn = FALSE]
<1>1. s \in Stages
  BY DEF Stages, StageNames, Querying
<1>2. req' = [req EXCEPT ![a] = row]
  BY DEF Goes, RequestStates
<1>3. row \in RequestStates
  BY <1>1 DEF RequestStates
<1>4. row.stage = s /\ row.version = req[a].version /\ row.class = req[a].class
  BY DEF RequestStates
<1> HIDE DEF row
<1> QED BY <1>2, <1>3, <1>4 DEF Moved

(* A request ends with nothing in hand.                                    *)
LEMMA EndsMoves ==
    ASSUME req \in [Requests -> RequestStates], NEW a \in Requests, Ends(a)
    PROVE  Moved(a, "done") /\ req'[a].version = 0
<1> DEFINE row == [NoRow EXCEPT !.stage = "done"]
<1>1. "done" \in Stages
  BY DEF Stages
<1>2. row \in RequestStates /\ row.stage = "done" /\ row.version = 0
  BY <1>1 DEF RequestStates, NoRow
<1>3. req' = [req EXCEPT ![a] = row]
  BY DEF Ends
<1> HIDE DEF row
<1> QED BY <1>2, <1>3 DEF Moved

(* The rest of the checks lets a stow go on or ends it.                    *)
LEMMA PlacedMoves ==
    ASSUME req \in [Requests -> RequestStates], NEW a \in Requests, NEW attrs, Placed(a, attrs)
    PROVE  \/ /\ Moved(a, "segregating") /\ Fits(req[a].class, attrs)
              /\ req'[a].version = req[a].version /\ req'[a].class = req[a].class
           \/ Moved(a, "done") /\ req'[a].version = 0
<1>1. CASE Fits(req[a].class, attrs) /\ Goes(a, "segregating")
  BY <1>1, GoesMoves DEF StageNames
<1>2. CASE Ends(a)
  BY <1>2, EndsMoves
<1> QED BY <1>1, <1>2 DEF Placed

RequestStep(a) == Receive(a) \/ Again(a) \/ Handle(a)

(* What a step of a request leaves alone.                                  *)
LEMMA RequestFrame ==
    ASSUME NEW a, RequestStep(a)
    PROVE  Alive /\ UNCHANGED <<plan, pod, news, cacheVars>>
BY DEF RequestStep, Receive, Again, Handle, Acquire, Statement, FindBin, ClassifyProduct, FindBySKU, LookUp,
       FallBack, CallLayout, CallEnds, Segregate, Save, QueryFails, At, Queries, Around

(* A connection is all that is taken.                                      *)
LEMMA AcquireMoves ==
    ASSUME req \in [Requests -> RequestStates], NEW a \in Requests, Acquire(a)
    PROVE  Moved(a, req[a].stage) /\ req'[a].version = req[a].version /\ req'[a].class = req[a].class
<1> DEFINE row == [req[a] EXCEPT !.conn = TRUE]
<1>1. req' = [req EXCEPT ![a] = row]
  BY DEF Acquire
<1>2. row \in RequestStates /\ row.stage = req[a].stage /\ row.version = req[a].version
      /\ row.class = req[a].class
  BY DEF RequestStates
<1> HIDE DEF row
<1> QED BY <1>1, <1>2 DEF Moved

(* Reading the bin: the version goes with the request.                     *)
LEMMA FindBinMoves ==
    ASSUME Typed, NEW a \in Requests, FindBin(a)
    PROVE  Moved(a, "placing") /\ req'[a].version = binVersion[Bin(a)]
<1> DEFINE row == [req[a] EXCEPT !.stage = "placing", !.conn = FALSE, !.version = binVersion[Bin(a)]]
<1>1. "placing" \in Stages /\ binVersion[Bin(a)] \in Nat
  BY PlanFacts DEF Stages, Querying, Typed, RequestsTyped
<1>2. row \in RequestStates
  BY <1>1 DEF Typed, RequestsTyped, RequestStates
<1>3. req[a] \in RequestStates
  BY DEF Typed, RequestsTyped
<1>4. req' = [req EXCEPT ![a] = row]
  BY <1>3 DEF FindBin, Typed, RequestsTyped, RequestStates
<1>5. req'[a].stage = "placing" /\ req'[a].version = binVersion[Bin(a)]
  BY <1>3, <1>4 DEF Typed, RequestsTyped, RequestStates
<1> QED BY <1>2, <1>4, <1>5 DEF Moved, Typed, RequestsTyped

(* Reading the classification: it goes with the request.                   *)
LEMMA FindBySKUMoves ==
    ASSUME Typed, NEW a \in Requests, FindBySKU(a)
    PROVE  /\ Moved(a, IF Restricted(classes[Sku(a)]) THEN "looking" ELSE "segregating")
           /\ req'[a].class = classes[Sku(a)] /\ req'[a].version = req[a].version
<1> DEFINE s == IF Restricted(classes[Sku(a)]) THEN "looking" ELSE "segregating"
           c == classes[Sku(a)]
<1>1. s \in Stages /\ c \in Classifications \cup {Absent}
  BY PlanFacts DEF Stages, Querying, Typed, RequestsTyped
<1>2. req[a] \in RequestStates /\ req \in [Requests -> RequestStates]
  BY DEF Typed, RequestsTyped
<1>3. req' = [req EXCEPT ![a].class = c, ![a].conn = FALSE, ![a].stage = s]
  BY DEF FindBySKU
<1> HIDE DEF s, c
<1>4. req' = [req EXCEPT ![a] = [req[a] EXCEPT !.class = c, !.conn = FALSE, !.stage = s]]
  BY <1>2, <1>3 DEF RequestStates
<1>5. [req[a] EXCEPT !.class = c, !.conn = FALSE, !.stage = s] \in RequestStates
  BY <1>1, <1>2 DEF RequestStates
<1>6. req'[a].stage = s /\ req'[a].class = c /\ req'[a].version = req[a].version
  BY <1>2, <1>4 DEF RequestStates
<1>7. Moved(a, s)
  BY <1>2, <1>4, <1>5, <1>6 DEF Moved
<1> QED BY <1>6, <1>7 DEF s, c

(* A step of a request touches the record of no other.                     *)
LEMMA RequestStepMoves ==
    ASSUME Typed, NEW a \in Requests, RequestStep(a)
    PROVE  req' \in [Requests -> RequestStates] /\ \A o \in Requests \ {a} : req'[o] = req[o]
<1>0. req \in [Requests -> RequestStates]
  BY DEF Typed, RequestsTyped
<1>1. CASE FindBin(a)
  BY <1>1, FindBinMoves DEF Moved
<1>2. CASE FindBySKU(a)
  BY <1>2, FindBySKUMoves DEF Moved
<1>3. CASE \E attrs : Placed(a, attrs)
  BY <1>0, <1>3, PlacedMoves DEF Moved
<1>4. CASE Ends(a)
  BY <1>0, <1>4, EndsMoves DEF Moved
<1>5. CASE \E s \in StageNames : Goes(a, s)
  BY <1>0, <1>5, GoesMoves DEF Moved
<1>6. CASE req' = [req EXCEPT ![a] = NoRow]
  <2>1. NoRow \in RequestStates
    BY DEF NoRow, RequestStates, Stages
  <2> QED BY <1>0, <1>6, <2>1
<1>7. CASE UNCHANGED req
  BY <1>0, <1>7
<1>8. CASE LookUp(a) \/ FallBack(a)
  BY <1>3, <1>8 DEF LookUp, FallBack
<1>9. CASE CallLayout(a)
  BY <1>5, <1>9 DEF CallLayout, StageNames
<1>10. CASE CallEnds(a)
  BY <1>3, <1>4, <1>7, <1>10 DEF CallEnds
<1>11. CASE Segregate(a)
  BY <1>4, <1>5, <1>11 DEF Segregate, StageNames
<1>12. CASE Save(a) \/ QueryFails(a) \/ ClassifyProduct(a)
  BY <1>4, <1>12 DEF Save, QueryFails, ClassifyProduct
<1>13. CASE Again(a)
  BY <1>6, <1>13 DEF Again
<1>14. CASE Receive(a)
  BY <1>5, <1>14 DEF Receive, StageNames
<1>15. CASE Acquire(a)
  BY <1>0, <1>15, AcquireMoves DEF Moved
<1> QED
  BY <1>1, <1>2, <1>8, <1>9, <1>10, <1>11, <1>12, <1>13, <1>14, <1>15 DEF RequestStep, Handle, Statement

(* Only a save changes the bins, only a classification the classes, and    *)
(* only the breaker's fallback what was let pass.                          *)
LEMMA RequestStepStores ==
    ASSUME NEW a, RequestStep(a)
    PROVE  /\ Save(a) \/ UNCHANGED <<binVersion, contents>>
           /\ ClassifyProduct(a) \/ UNCHANGED classes
           /\ unasked' = unasked \/ unasked' = unasked \cup {<<Sku(a), Bin(a)>>}
BY DEF RequestStep, Receive, Again, Handle, Acquire, Statement, FindBin, ClassifyProduct, FindBySKU, LookUp,
       FallBack, CallLayout, CallEnds, Segregate, Save, QueryFails, Stored

(* A save puts the SKU into the bin at the next version, or does nothing.  *)
LEMMA SaveStores ==
    ASSUME Typed, NEW a \in Requests, Save(a)
    PROVE  /\ UNCHANGED classes
           /\ \/ UNCHANGED <<binVersion, contents>>
              \/ /\ binVersion[Bin(a)] = req[a].version
                 /\ contents' = contents \cup {<<Sku(a), Bin(a)>>}
                 /\ binVersion' \in [Bins -> Nat] /\ binVersion'[Bin(a)] = binVersion[Bin(a)] + 1
                 /\ \A b \in Bins \ {Bin(a)} : binVersion'[b] = binVersion[b]
<1>1. binVersion \in [Bins -> Nat] /\ Bin(a) \in Bins
  BY PlanFacts DEF Typed, RequestsTyped
<1>2. UNCHANGED classes
  BY DEF Save
<1>3. CASE UNCHANGED <<binVersion, contents>>
  BY <1>2, <1>3
<1>4. CASE /\ binVersion[Bin(a)] = req[a].version /\ contents' = contents \cup {<<Sku(a), Bin(a)>>}
           /\ binVersion' = [binVersion EXCEPT ![Bin(a)] = @ + 1]
  BY <1>1, <1>2, <1>4
<1> QED BY <1>3, <1>4 DEF Save

(* A classification changes one SKU's class.                               *)
LEMMA ClassifyStores ==
    ASSUME Typed, NEW a \in Requests, ClassifyProduct(a)
    PROVE  /\ classes' \in [Skus -> Classifications \cup {Absent}]
           /\ \A s \in Skus \ {Sku(a)} : classes'[s] = classes[s]
           /\ UNCHANGED <<binVersion, contents>>
<1>1. classes \in [Skus -> Classifications \cup {Absent}] /\ Sku(a) \in Skus
  BY PlanFacts DEF Typed, RequestsTyped
<1> DEFINE c == plan.requests[a].class
<1>2. UNCHANGED <<binVersion, contents>>
      /\ classes' = IF Accepts(c) THEN [classes EXCEPT ![Sku(a)] = NewClassification(c)] ELSE classes
  BY DEF ClassifyProduct
<1>3. Accepts(c) => NewClassification(c) \in Classifications
  BY AcceptedIsClassification
<1> HIDE DEF c
<1> QED BY <1>1, <1>2, <1>3

(* The tables keep their types.                                            *)
LEMMA RequestStepTyped ==
    ASSUME Typed, NEW a \in Requests, RequestStep(a)
    PROVE  RequestsTyped'
<1>1. Requests' = Requests /\ Skus' = Skus
  BY RequestFrame DEF Requests, Skus
<1>2. req' \in [Requests -> RequestStates]
  BY RequestStepMoves
<1>3. classes' \in [Skus -> Classifications \cup {Absent}]
  BY RequestStepStores, ClassifyStores DEF Typed, RequestsTyped
<1>4. binVersion' \in [Bins -> Nat] /\ contents' \subseteq Skus \X Bins
  <2>1. binVersion \in [Bins -> Nat] /\ contents \subseteq Skus \X Bins
    BY DEF Typed, RequestsTyped
  <2>2. Sku(a) \in Skus /\ Bin(a) \in Bins
    BY PlanFacts DEF Typed
  <2>3. CASE UNCHANGED <<binVersion, contents>>
    BY <2>1, <2>3
  <2>4. CASE binVersion' \in [Bins -> Nat] /\ contents' = contents \cup {<<Sku(a), Bin(a)>>}
    BY <2>1, <2>2, <2>4
  <2> QED BY <2>3, <2>4, RequestStepStores, SaveStores
<1>5. unasked' \subseteq Skus \X Bins
  <2>1. Sku(a) \in Skus /\ Bin(a) \in Bins
    BY PlanFacts DEF Typed
  <2> QED BY <2>1, RequestStepStores DEF Typed, RequestsTyped
<1> QED BY <1>1, <1>2, <1>3, <1>4, <1>5 DEF RequestsTyped

(* Which steps of a request reach the breaker, and what they keep of it.   *)
LEMMA RequestStepLayout ==
    ASSUME Typed, Counts, NEW a \in Requests, RequestStep(a)
    PROVE  /\ LayoutKept
           /\ \A o \in Requests \ {a} : calls'[o].attempts = calls[o].attempts
           /\ \/ CallLayout(a) /\ BeginCall(a)
              \/ At(a, "calling") /\ Retry(a) /\ UNCHANGED req
              \/ At(a, "calling") /\ calls'[a].attempts = 0
              \/ ~At(a, "calling") /\ UNCHANGED layoutVars
<1>1. plan \in Plans /\ LayoutTyped /\ UNCHANGED plan
  BY RequestFrame DEF Typed
<1>2. CASE CallLayout(a)
  BY <1>1, <1>2, BeginCallKeeps DEF CallLayout
<1>3. CASE CallEnds(a)
  <2>1. CASE Retry(a) /\ UNCHANGED req
    BY <1>1, <1>3, <2>1, RetryKeeps DEF CallEnds
  <2>2. CASE \E outcome \in {"success", "failure", "excluded"} : AfterRequest(a, outcome)
    BY <1>1, <1>3, <2>2, AfterRequestKeeps DEF CallEnds
  <2> QED BY <1>3, <2>1, <2>2 DEF CallEnds, Answered, Failed, Cancelled
<1>4. CASE ~At(a, "calling") /\ UNCHANGED layoutVars
  <2>1. Requests' = Requests
    BY <1>1 DEF Requests
  <2>2. LayoutKept
    BY <1>1, <1>4, <2>1 DEF LayoutKept, LayoutTyped, Counts, Current, layoutVars
  <2> QED BY <1>4, <2>2 DEF layoutVars
<1>5. RequestStep(a) => CallLayout(a) \/ CallEnds(a) \/ (~At(a, "calling") /\ UNCHANGED layoutVars)
  BY DEF RequestStep, Receive, Again, Handle, Acquire, Statement, FindBin, ClassifyProduct, FindBySKU, LookUp,
         FallBack, Segregate, Save, QueryFails, At, Queries, Querying, Around
<1> QED BY <1>2, <1>3, <1>4, <1>5

-----------------------------------------------------------------------------
(* The last message about a key *)

About(entries, types, key, n) == {i \in 1 .. n : entries[i].type \in types /\ entries[i].key = key}

(* The last of some positions is one of them.                              *)
LEMMA LatestIsLast ==
    ASSUME NEW entries, NEW types, NEW key, NEW n \in Nat
    PROVE  LET about == About(entries, types, key, n)
           IN  /\ about = {} => Latest(entries, types, key, n) = Absent
               /\ about # {} => /\ Latest(entries, types, key, n) = entries[Max(about)]
                                /\ Max(about) \in about /\ \A i \in about : i <= Max(about)
<1> DEFINE about == About(entries, types, key, n)
<1>1. about \in SUBSET Nat /\ about \in SUBSET (1 .. n)
  BY DEF About
<1>2. IsFiniteSet(about)
  BY <1>1, FS_Interval, FS_Subset
<1>3. about # {} => Max(about) \in about /\ \A i \in about : i <= Max(about)
  <2>1. SUFFICES ASSUME about # {} PROVE Max(about) \in about /\ \A i \in about : Max(about) >= i
    <3> HIDE DEF about
    <3> QED BY <1>1, <2>1
  <2> HIDE DEF about
  <2> QED BY <1>1, <1>2, <2>1, MaxIsGreatest
<1> QED BY <1>3 DEF Latest, About

(* Nothing has been said in no messages.                                   *)
LEMMA LatestOfNone ==
    ASSUME NEW entries, NEW types, NEW key
    PROVE  Latest(entries, types, key, 0) = Absent
BY DEF Latest

(* The last message counts if it is about the key, else the one before.    *)
LEMMA LatestNext ==
    ASSUME NEW entries, NEW types, NEW key, NEW n \in Nat \ {0}
    PROVE  Latest(entries, types, key, n) =
              IF entries[n].type \in types /\ entries[n].key = key
              THEN entries[n] ELSE Latest(entries, types, key, n - 1)
<1> DEFINE upTo == About(entries, types, key, n)
<1>1. CASE entries[n].type \in types /\ entries[n].key = key
  <2>1. n \in upTo
    BY <1>1 DEF About
  <2>2. \A i \in upTo : i <= n /\ i \in Nat
    BY DEF About
  <2>3. Max(upTo) \in upTo /\ n <= Max(upTo) /\ Latest(entries, types, key, n) = entries[Max(upTo)]
    BY <2>1, LatestIsLast
  <2>4. Max(upTo) = n
    BY <2>2, <2>3
  <2> QED BY <1>1, <2>3, <2>4
<1>2. CASE ~(entries[n].type \in types /\ entries[n].key = key)
  <2>1. \A i : i \in 1 .. n <=> i \in 1 .. n - 1 \/ i = n
    OBVIOUS
  <2>2. {i \in 1 .. n : entries[i].type \in types /\ entries[i].key = key}
        = {i \in 1 .. n - 1 : entries[i].type \in types /\ entries[i].key = key}
    BY <1>2, <2>1
  <2> QED BY <1>2, <2>2 DEF Latest
<1> QED BY <1>1, <1>2

(* What was said stays said when the topic grows.                          *)
LEMMA LatestKept ==
    ASSUME NEW entries, NEW more, NEW types, NEW key, NEW n \in Nat, \A i \in 1 .. n : more[i] = entries[i]
    PROVE  Latest(more, types, key, n) = Latest(entries, types, key, n)
<1> DEFINE about == About(entries, types, key, n)
<1>1. About(more, types, key, n) = about
  BY DEF About
<1>2. about # {} => Max(about) \in 1 .. n
  <2>1. about # {} => Max(about) \in about
    BY LatestIsLast
  <2>2. about \subseteq 1 .. n
    BY DEF About
  <2> QED BY <2>1, <2>2
<1>3. CASE about = {}
  BY <1>1, <1>3, LatestIsLast
<1>4. CASE about # {}
  <2>1. Latest(more, types, key, n) = more[Max(about)]
    BY <1>1, <1>4, LatestIsLast
  <2>2. Latest(entries, types, key, n) = entries[Max(about)]
    BY <1>4, LatestIsLast
  <2> QED BY <1>2, <1>4, <2>1, <2>2
<1> QED BY <1>3, <1>4

-----------------------------------------------------------------------------
(* The cache *)

(* Two maps agree at a key.                                                *)
SameAt(f, g, k) == (k \in DOMAIN f <=> k \in DOMAIN g) /\ (k \in DOMAIN f => f[k] = g[k])

LEMMA MapUpdates ==
    ASSUME NEW f, NEW k, NEW v
    PROVE  /\ k \in DOMAIN With(f, k, v) /\ With(f, k, v)[k] = v
           /\ k \notin DOMAIN Without(f, k)
           /\ \A x : x # k => SameAt(With(f, k, v), f, x) /\ SameAt(Without(f, k), f, x)
BY DEF With, Without, SameAt

(* The message a step applies.                                             *)
NextIn(p) == feed[p][offset[p] + 1]

LEMMA NextIsMessage ==
    ASSUME TopicTyped, CacheTyped, NEW p \in Partitions, Apply(p)
    PROVE  /\ NextIn(p) \in Messages /\ PartitionOf[NextIn(p).key] = p /\ NextIn(p) # Absent
           /\ Publishable(NextIn(p))
           /\ offset[p] \in Nat /\ offset[p] + 1 <= Len(feed[p]) /\ Len(feed[p]) \in Nat
<1>1. feed[p] \in Seq(Messages) /\ offset[p] \in Nat /\ Len(feed[p]) \in Nat
  BY DEF TopicTyped, CacheTyped
<1>2. offset[p] < Len(feed[p])
  BY DEF Apply
<1>3. offset[p] + 1 \in DOMAIN feed[p]
  BY <1>1, <1>2
<1>4. NextIn(p) \in Messages
  BY <1>1, <1>3 DEF NextIn
<1>5. Publishable(NextIn(p)) /\ PartitionOf[NextIn(p).key] = p
  BY <1>3 DEF TopicTyped, NextIn
<1> QED BY <1>1, <1>2, <1>4, <1>5, AbsentAssumption

(* What applying message m does to the two maps.                           *)
Applied(m) ==
    /\ m.type = "ZoneRegistered" =>
          m.key \in DOMAIN zones' /\ zones'[m.key] = SlotAttributes(m.hazmat, m.temperature)
    /\ m.type = "LocationSlotRegistered" => m.key \in DOMAIN slots' /\ slots'[m.key] = ZoneIn(m)
    /\ m.type = "LocationSlotDecommissioned" => m.key \notin DOMAIN slots'
    /\ \A k : ~(m.type = "ZoneRegistered" /\ m.key = k) => SameAt(zones', zones, k)
    /\ \A k : ~(m.type \in SlotEvents /\ m.key = k) => SameAt(slots', slots, k)

LEMMA ApplyMaps ==
    ASSUME NEW p \in Partitions, Apply(p)
    PROVE  Applied(NextIn(p))
<1>0. ASSUME NEW m
      PROVE  /\ m.type = "ZoneRegistered" /\ ApplyZoneRegistered(m) => Applied(m)
             /\ m.type = "LocationSlotRegistered" /\ ApplySlotRegistered(m) => Applied(m)
             /\ m.type = "LocationSlotDecommissioned" /\ ApplySlotDecommissioned(m) => Applied(m)
             /\ m.type \notin SlotEvents \cup {"ZoneRegistered"} /\ UNCHANGED <<zones, slots>> => Applied(m)
  <2>1. \A k : SameAt(zones, zones, k) /\ SameAt(slots, slots, k)
    BY DEF SameAt
  <2>2. ASSUME m.type = "ZoneRegistered", ApplyZoneRegistered(m) PROVE Applied(m)
    <3> DEFINE v == SlotAttributes(m.hazmat, m.temperature)
    <3>1. zones' = With(zones, m.key, v) /\ slots' = slots
      BY <2>2 DEF ApplyZoneRegistered
    <3> HIDE DEF v
    <3>2. m.key \in DOMAIN zones' /\ zones'[m.key] = v /\ \A k : k # m.key => SameAt(zones', zones, k)
      BY <3>1, MapUpdates
    <3> QED BY <2>1, <2>2, <3>1, <3>2 DEF Applied, SlotEvents, v
  <2>3. ASSUME m.type = "LocationSlotRegistered", ApplySlotRegistered(m) PROVE Applied(m)
    <3> DEFINE v == ZoneIn(m)
    <3>1. slots' = With(slots, m.key, v) /\ zones' = zones
      BY <2>3 DEF ApplySlotRegistered
    <3> HIDE DEF v
    <3>2. m.key \in DOMAIN slots' /\ slots'[m.key] = v /\ \A k : k # m.key => SameAt(slots', slots, k)
      BY <3>1, MapUpdates
    <3> QED BY <2>1, <2>3, <3>1, <3>2 DEF Applied, SlotEvents, v
  <2>4. ASSUME m.type = "LocationSlotDecommissioned", ApplySlotDecommissioned(m) PROVE Applied(m)
    <3>1. slots' = Without(slots, m.key) /\ zones' = zones
      BY <2>4 DEF ApplySlotDecommissioned
    <3>2. m.key \notin DOMAIN slots' /\ \A k : k # m.key => SameAt(slots', slots, k)
      BY <3>1, MapUpdates
    <3> QED BY <2>1, <2>4, <3>1, <3>2 DEF Applied, SlotEvents
  <2>5. ASSUME m.type \notin SlotEvents \cup {"ZoneRegistered"}, UNCHANGED <<zones, slots>> PROVE Applied(m)
    BY <2>1, <2>5 DEF Applied, SlotEvents
  <2> QED BY <2>2, <2>3, <2>4, <2>5
<1>1. LET m == NextIn(p) IN
         \/ m.type = "ZoneRegistered" /\ ApplyZoneRegistered(m)
         \/ m.type = "LocationSlotRegistered" /\ ApplySlotRegistered(m)
         \/ m.type = "LocationSlotDecommissioned" /\ ApplySlotDecommissioned(m)
         \/ m.type \notin SlotEvents \cup {"ZoneRegistered"} /\ UNCHANGED <<zones, slots>>
  BY DEF Apply, NextIn, SlotEvents
<1> QED BY <1>0, <1>1

(* What a consume step does to offsets and loop.                           *)
LEMMA ApplyMoves ==
    ASSUME CacheTyped, NEW p \in Partitions, Apply(p)
    PROVE  /\ offset' \in [Partitions -> Nat] /\ offset'[p] = offset[p] + 1
           /\ \A q \in Partitions \ {p} : offset'[q] = offset[q]
           /\ consumer' \in Consumers /\ consumer'.at = p /\ consumer'.loop \in {"rejected", "applied"}
           /\ consumer'.rejoined = consumer.rejoined
           /\ UNCHANGED <<feed, startedAt, target, ready>>
<1>1. offset \in [Partitions -> Nat] /\ offset' = [offset EXCEPT ![p] = @ + 1]
      /\ UNCHANGED <<feed, startedAt, target, ready>> /\ consumer \in Consumers
  BY DEF CacheTyped, Apply
<1>2. PICK l \in {"rejected", "applied"} : consumer' = [consumer EXCEPT !.at = p, !.loop = l]
  BY DEF Apply
<1>3. consumer' \in Consumers /\ consumer'.at = p /\ consumer'.loop = l
      /\ consumer'.rejoined = consumer.rejoined
  BY <1>1, <1>2 DEF Consumers
<1> QED BY <1>1, <1>2, <1>3

(* What one more message of its partition does to what was last said of a  *)
(* key.                                                                    *)
LEMMA LatestApplied ==
    ASSUME NEW p, offset[p] \in Nat, NEW types, NEW key, NEW i, i = offset[p] + 1
    PROVE  Latest(feed[p], types, key, i) =
              IF NextIn(p).type \in types /\ NextIn(p).key = key
              THEN NextIn(p) ELSE Latest(feed[p], types, key, offset[p])
BY LatestNext DEF NextIn

(* Where a key's partition stands after the step.                          *)
LEMMA HeardAfterApply ==
    ASSUME TopicTyped, CacheTyped, NEW p \in Partitions, Apply(p), NEW k \in Names, NEW n \in Heard(k)
    PROVE  /\ PartitionOf[k] = p => offset[p] + 1 \in Nat /\ \A i : i = offset[p] + 1 => i \in Heard(k)'
           /\ PartitionOf[k] # p \/ n # offset[p] => n \in Heard(k)'
<1> DEFINE q == PartitionOf[k]
<1>1. q \in Partitions /\ Len(feed[q]) \in Nat /\ offset[q] \in Nat
  BY DEF TopicTyped, CacheTyped, Partitions, Names
<1>2. n \in Nat /\ offset[q] <= n /\ n <= Len(feed[q]) /\ (consumer.rejoined \/ n = offset[q])
  BY <1>1 DEF Heard
<1>3. UNCHANGED feed /\ consumer'.rejoined = consumer.rejoined
      /\ offset'[q] = IF q = p THEN offset[q] + 1 ELSE offset[q]
  BY <1>1, ApplyMoves
<1>4. q = p => offset[p] + 1 <= Len(feed[p])
  BY NextIsMessage
<1> QED BY <1>1, <1>2, <1>3, <1>4 DEF Heard

(* A zone is cached as of the offset it has been read to.                  *)
LEMMA ApplyKeepsZones ==
    ASSUME TopicTyped, CacheTyped, CacheInv, NEW p \in Partitions, Apply(p), NEW k \in Names
    PROVE  \E n \in Heard(k)' : ZoneAsOf(k, n)'
<1> DEFINE m == NextIn(p)
           q == PartitionOf[k]
<1>1. PICK n \in Heard(k) : ZoneAsOf(k, n)
  BY DEF CacheInv
<1>2. UNCHANGED feed /\ offset[p] \in Nat /\ m # Absent /\ PartitionOf[m.key] = p
  BY ApplyMoves, NextIsMessage
<1>3. PICK i : i = offset[p] + 1
  OBVIOUS
<1>4. Latest(feed[p], ZoneEvents, k, i) =
         IF m.type \in ZoneEvents /\ m.key = k THEN m ELSE Latest(feed[p], ZoneEvents, k, offset[p])
  BY <1>2, <1>3, LatestApplied
<1>5. Applied(m)
  BY ApplyMaps
<1> HIDE DEF m
<1>6. CASE m.type \in ZoneEvents /\ m.key = k
  <2>1. i \in Heard(k)'
    BY <1>2, <1>3, <1>6, HeardAfterApply
  <2>2. ZoneAsOf(k, i)'
    BY <1>2, <1>4, <1>5, <1>6 DEF ZoneAsOf, Applied, ZoneEvents
  <2> QED BY <2>1, <2>2
<1>7. CASE ~(m.type \in ZoneEvents /\ m.key = k)
  <2>1. SameAt(zones', zones, k)
    BY <1>5, <1>7 DEF Applied, ZoneEvents
  <2>2. ASSUME NEW j, Latest(feed[q], ZoneEvents, k, j) = Latest(feed[q], ZoneEvents, k, n)
        PROVE  ZoneAsOf(k, j)'
    BY <1>1, <1>2, <2>1, <2>2 DEF ZoneAsOf, SameAt
  <2>3. CASE q = p /\ n = offset[p]
    <3>1. i \in Heard(k)'
      BY <1>3, <2>3, HeardAfterApply
    <3> QED BY <1>4, <1>7, <2>2, <2>3, <3>1
  <2>4. CASE q # p \/ n # offset[p]
    <3>1. n \in Heard(k)'
      BY <2>4, HeardAfterApply
    <3> QED BY <1>1, <2>2, <3>1
  <2> QED BY <2>3, <2>4
<1> QED BY <1>6, <1>7

(* So is a slot.                                                           *)
LEMMA ApplyKeepsSlots ==
    ASSUME TopicTyped, CacheTyped, CacheInv, NEW p \in Partitions, Apply(p), NEW k \in Names
    PROVE  \E n \in Heard(k)' : SlotAsOf(k, n)'
<1> DEFINE m == NextIn(p)
           q == PartitionOf[k]
<1>1. PICK n \in Heard(k) : SlotAsOf(k, n)
  BY DEF CacheInv
<1>2. UNCHANGED feed /\ offset[p] \in Nat /\ m # Absent /\ PartitionOf[m.key] = p
  BY ApplyMoves, NextIsMessage
<1>3. PICK i : i = offset[p] + 1
  OBVIOUS
<1>4. Latest(feed[p], SlotEvents, k, i) =
         IF m.type \in SlotEvents /\ m.key = k THEN m ELSE Latest(feed[p], SlotEvents, k, offset[p])
  BY <1>2, <1>3, LatestApplied
<1>5. Applied(m)
  BY ApplyMaps
<1> HIDE DEF m
<1>6. CASE m.type \in SlotEvents /\ m.key = k
  <2>1. i \in Heard(k)'
    BY <1>2, <1>3, <1>6, HeardAfterApply
  <2>2. SlotAsOf(k, i)'
    BY <1>2, <1>4, <1>5, <1>6 DEF SlotAsOf, Applied, SlotEvents
  <2> QED BY <2>1, <2>2
<1>7. CASE ~(m.type \in SlotEvents /\ m.key = k)
  <2>1. SameAt(slots', slots, k)
    BY <1>5, <1>7 DEF Applied
  <2>2. ASSUME NEW j, Latest(feed[q], SlotEvents, k, j) = Latest(feed[q], SlotEvents, k, n)
        PROVE  SlotAsOf(k, j)'
    BY <1>1, <1>2, <2>1, <2>2 DEF SlotAsOf, SameAt
  <2>3. CASE q = p /\ n = offset[p]
    <3>1. i \in Heard(k)'
      BY <1>3, <2>3, HeardAfterApply
    <3> QED BY <1>4, <1>7, <2>2, <2>3, <3>1
  <2>4. CASE q # p \/ n # offset[p]
    <3>1. n \in Heard(k)'
      BY <2>4, HeardAfterApply
    <3> QED BY <1>1, <2>2, <3>1
  <2> QED BY <2>3, <2>4
<1> QED BY <1>6, <1>7

CacheState == TopicTyped /\ CacheTyped /\ CacheInv /\ ReplayInv

(* A step that keeps the topic, the maps and the offsets keeps the cache   *)
(* as of them.                                                             *)
LEMMA CacheFrame ==
    ASSUME CacheInv, UNCHANGED <<feed, startedAt, offset, zones, slots>>, consumer'.rejoined = consumer.rejoined
    PROVE  CacheInv'
<1>1. ASSUME NEW k \in Names, NEW n PROVE (ZoneAsOf(k, n) => ZoneAsOf(k, n)') /\ (SlotAsOf(k, n) => SlotAsOf(k, n)')
  BY DEF ZoneAsOf, SlotAsOf
<1>2. ASSUME NEW k \in Names PROVE Heard(k)' = Heard(k)
  BY DEF Heard
<1>3. \A k \in Names : \E n \in Heard(k)' : ZoneAsOf(k, n)'
  BY <1>1, <1>2 DEF CacheInv
<1>4. \A k \in Names : \E n \in Heard(k)' : SlotAsOf(k, n)'
  BY <1>1, <1>2 DEF CacheInv
<1> QED BY <1>3, <1>4 DEF CacheInv

(* Applying a message.                                                     *)
LEMMA ApplyKeeps ==
    ASSUME CacheState, UNCHANGED news, NEW p \in Partitions, Apply(p)
    PROVE  CacheState'
<1> USE DEF CacheState
<1>1. TopicTyped' /\ CacheTyped'
  BY ApplyMoves DEF TopicTyped, CacheTyped
<1>2. \A k \in Names : (\E n \in Heard(k)' : ZoneAsOf(k, n)') /\ (\E n \in Heard(k)' : SlotAsOf(k, n)')
  BY ApplyKeepsZones, ApplyKeepsSlots
<1>3. \A q \in Partitions : offset'[q] <= Len(feed'[q]) /\ startedAt'[q] <= Len(feed'[q])
  BY ApplyMoves, NextIsMessage DEF CacheInv
<1>4. CacheInv'
  BY <1>2, <1>3 DEF CacheInv
<1>5. \A q \in Partitions : offset'[q] >= offset[q] /\ offset[q] \in Nat /\ offset'[q] \in Nat
                            /\ startedAt[q] \in Nat
  BY ApplyMoves DEF CacheTyped
<1>6. ReplayInv'
  BY <1>5, ApplyMoves DEF ReplayInv
<1> QED BY <1>1, <1>4, <1>6

(* A partition the last message of which has been applied is waited for no *)
(* longer.                                                                 *)
LEMMA ObserveKeeps ==
    ASSUME CacheState, UNCHANGED news, Observe
    PROVE  CacheState'
<1> USE DEF CacheState
<1>1. UNCHANGED <<feed, startedAt, offset, zones, slots>> /\ consumer.at \in Partitions
  BY DEF Observe, CacheTyped
<1>2. consumer' = [consumer EXCEPT !.loop = "reading", !.at = 0] /\ consumer \in Consumers
  BY DEF Observe, CacheTyped
<1>3. consumer' \in Consumers /\ consumer'.rejoined = consumer.rejoined /\ consumer'.loop = "reading"
  BY <1>2 DEF Consumers
<1>4. \/ UNCHANGED target
      \/ target' = Without(target, consumer.at) /\ offset[consumer.at] >= target[consumer.at]
         /\ consumer.at \in DOMAIN target
  BY DEF Observe
<1>5. ready' = (ready \/ DOMAIN target' = {})
  BY DEF Observe
<1>6. TopicTyped' /\ CacheTyped'
  <2>1. ready' \in BOOLEAN
    BY <1>5 DEF CacheTyped
  <2> QED BY <1>1, <1>3, <2>1 DEF TopicTyped, CacheTyped
<1>7. CacheInv'
  BY <1>1, <1>3, CacheFrame
<1>8. ReplayInv'
  <2>1. CASE UNCHANGED target
    BY <1>1, <1>3, <1>5, <2>1 DEF ReplayInv
  <2>2. CASE /\ target' = Without(target, consumer.at) /\ offset[consumer.at] >= target[consumer.at]
             /\ consumer.at \in DOMAIN target
    <3>1. DOMAIN target' = DOMAIN target \ {consumer.at}
          /\ \A q \in DOMAIN target' : target'[q] = target[q]
      BY <2>2 DEF Without
    <3>2. offset[consumer.at] >= startedAt[consumer.at]
      BY <2>2 DEF ReplayInv
    <3> QED BY <1>1, <1>3, <1>5, <3>1, <3>2 DEF ReplayInv
  <2> QED BY <1>4, <2>1, <2>2
<1> QED BY <1>6, <1>7, <1>8

(* The other steps of the loop read nothing, or read again.                *)
LEMMA LoopKeeps ==
    ASSUME CacheState, UNCHANGED news, DeadLetter \/ StopReading
    PROVE  CacheState'
<1> USE DEF CacheState
<1>1. UNCHANGED <<feed, replica>> /\ consumer \in Consumers
  BY DEF DeadLetter, StopReading, CacheTyped
<1>2. consumer' \in Consumers /\ consumer'.rejoined = consumer.rejoined /\ consumer'.at = consumer.at
  BY <1>1 DEF DeadLetter, StopReading, Consumers
<1>3. consumer'.loop \in {"rejected", "applied"} => consumer'.at \in Partitions
  BY <1>1, <1>2 DEF DeadLetter, StopReading, CacheTyped, Consumers
<1>4. CacheInv'
  BY <1>1, <1>2, CacheFrame DEF replica
<1> QED BY <1>1, <1>2, <1>3, <1>4 DEF replica, TopicTyped, CacheTyped, ReplayInv

LEMMA RejoinKeeps ==
    ASSUME CacheState, UNCHANGED news, Rejoin
    PROVE  CacheState'
<1> USE DEF CacheState
<1>1. UNCHANGED <<feed, startedAt, target, zones, slots, ready>>
  BY DEF Rejoin
<1>2. offset' \in [Partitions -> Nat] /\ \A p \in Partitions : offset'[p] <= offset[p]
  <2>1. PICK at : /\ at \in [Partitions -> 0 .. Max(Range(offset))]
                  /\ \A p \in Partitions : at[p] <= offset[p]
                  /\ offset' = at
    BY DEF Rejoin
  <2>2. \A n : 0 .. n \subseteq Nat
    OBVIOUS
  <2>3. at \in [Partitions -> Nat]
    BY <2>1, <2>2
  <2> QED BY <2>1, <2>3
<1>3. consumer' \in Consumers /\ consumer'.rejoined /\ consumer'.loop = "reading"
  BY DEF Rejoin, CacheTyped, Consumers
<1>4. \A p \in Partitions : offset[p] \in Nat /\ offset'[p] \in Nat /\ Len(feed[p]) \in Nat
  BY <1>2 DEF CacheTyped, TopicTyped
<1>5. ASSUME NEW k \in Names, NEW n \in Heard(k)
      PROVE  n \in Heard(k)'
  <2>1. PartitionOf[k] \in Partitions
    BY DEF Partitions, Names
  <2> QED BY <1>1, <1>2, <1>3, <1>4, <2>1 DEF Heard
<1>6. ASSUME NEW k \in Names, NEW n PROVE (ZoneAsOf(k, n) => ZoneAsOf(k, n)') /\ (SlotAsOf(k, n) => SlotAsOf(k, n)')
  BY <1>1 DEF ZoneAsOf, SlotAsOf
<1>7. \A p \in Partitions : offset'[p] <= Len(feed'[p]) /\ startedAt'[p] <= Len(feed'[p])
  BY <1>1, <1>2, <1>4 DEF CacheInv
<1>8. \A k \in Names : (\E n \in Heard(k)' : ZoneAsOf(k, n)') /\ (\E n \in Heard(k)' : SlotAsOf(k, n)')
  BY <1>5, <1>6 DEF CacheInv
<1>9. CacheInv'
  BY <1>7, <1>8 DEF CacheInv
<1>10. ReplayInv'
  BY <1>1, <1>3 DEF ReplayInv
<1> QED BY <1>1, <1>2, <1>3, <1>9, <1>10 DEF TopicTyped, CacheTyped

(* A new consumer starts with nothing read and nothing cached.             *)
LEMMA NewConsumerKeeps ==
    ASSUME CacheState, UNCHANGED news, NewConsumer
    PROVE  CacheState'
<1> USE DEF CacheState
<1>1. UNCHANGED feed /\ \A p \in Partitions : Lengths[p] = Len(feed[p]) /\ Len(feed[p]) \in Nat
  BY DEF NewConsumer, Lengths, TopicTyped
<1>2. startedAt' \in [Partitions -> Nat] /\ \A p \in Partitions : startedAt'[p] = Len(feed[p])
  BY <1>1 DEF NewConsumer, Lengths
<1>3. offset' \in [Partitions -> Nat] /\ \A p \in Partitions : offset'[p] = 0
  BY DEF NewConsumer
<1>4. DOMAIN zones' = {} /\ DOMAIN slots' = {}
  BY DEF NewConsumer
<1>5. consumer' \in Consumers /\ consumer'.loop = "reading" /\ consumer'.rejoined = FALSE
  BY DEF NewConsumer, Off, Consumers
<1>6. ready' = (\A p \in Partitions : Lengths[p] = 0)
  BY DEF NewConsumer
<1>7. DOMAIN target' = {p \in Partitions : Lengths[p] > 0} /\ \A p \in DOMAIN target' : target'[p] = Lengths[p]
  BY DEF NewConsumer
<1>8. TopicTyped' /\ CacheTyped'
  BY <1>1, <1>2, <1>3, <1>5, <1>6 DEF TopicTyped, CacheTyped
<1>9. ASSUME NEW k \in Names PROVE 0 \in Heard(k)' /\ ZoneAsOf(k, 0)' /\ SlotAsOf(k, 0)'
  <2>1. PartitionOf[k] \in Partitions
    BY DEF Partitions, Names
  <2>2. 0 \in Heard(k)'
    BY <1>1, <1>3, <2>1 DEF Heard
  <2>3. ZoneAsOf(k, 0)' /\ SlotAsOf(k, 0)'
    BY <1>4, LatestOfNone DEF ZoneAsOf, SlotAsOf
  <2> QED BY <2>2, <2>3
<1>10. \A p \in Partitions : offset'[p] <= Len(feed'[p]) /\ startedAt'[p] <= Len(feed'[p])
  BY <1>1, <1>2, <1>3
<1>11. CacheInv'
  BY <1>9, <1>10 DEF CacheInv
<1>12. ReplayInv'
  BY <1>1, <1>2, <1>3, <1>6, <1>7 DEF ReplayInv
<1> QED BY <1>8, <1>11, <1>12

(* The topic only grows.                                                   *)
Grows == \A p \in Partitions :
    /\ Len(feed[p]) \in Nat /\ Len(feed'[p]) \in Nat /\ Len(feed[p]) <= Len(feed'[p])
    /\ \A i \in 1 .. Len(feed[p]) : feed'[p][i] = feed[p][i]

(* One message is appended to its partition.                               *)
LEMMA PublishGrows ==
    ASSUME TopicTyped, Publish
    PROVE  TopicTyped' /\ Grows /\ UNCHANGED <<replica, consumer>>
<1> DEFINE m == Head(news)
           q == PartitionOf[m.key]
<1>1. news # <<>> /\ news \in Seq(Messages) /\ news' = Tail(news)
      /\ feed' = [feed EXCEPT ![q] = Append(@, m)] /\ UNCHANGED <<replica, consumer>>
  BY DEF Publish, Published, TopicTyped
<1>2. 1 \in DOMAIN news /\ m = news[1]
  BY <1>1
<1>3. m \in Messages /\ Publishable(m)
  BY <1>1, <1>2 DEF TopicTyped
<1>4. q \in Partitions
  BY <1>3 DEF Partitions, Messages, Names
<1>5. news' \in Seq(Messages) /\ \A n \in DOMAIN news' : Publishable(news'[n])
  <2>1. Tail(news) \in Seq(Messages) /\ Len(Tail(news)) = Len(news) - 1
        /\ \A n \in 1 .. Len(Tail(news)) : Tail(news)[n] = news[n + 1]
    BY <1>1, HeadTailProperties
  <2>2. \A n \in DOMAIN Tail(news) : n + 1 \in DOMAIN news
    BY <1>1, <2>1
  <2> QED BY <1>1, <2>1, <2>2 DEF TopicTyped
<1> HIDE DEF m
<1>6. feed \in [Partitions -> Seq(Messages)]
  BY DEF TopicTyped
<1>7. ASSUME NEW p \in Partitions
      PROVE  /\ feed'[p] \in Seq(Messages)
             /\ Len(feed[p]) \in Nat /\ Len(feed'[p]) \in Nat /\ Len(feed[p]) <= Len(feed'[p])
             /\ \A i \in 1 .. Len(feed[p]) : feed'[p][i] = feed[p][i]
             /\ \A n \in DOMAIN feed'[p] : Publishable(feed'[p][n]) /\ PartitionOf[feed'[p][n].key] = p
  <2>1. CASE p = q
    <3>1. feed'[p] = Append(feed[p], m)
      BY <1>1, <1>6, <2>1
    <3>2. /\ Append(feed[p], m) \in Seq(Messages) /\ Len(Append(feed[p], m)) = Len(feed[p]) + 1
          /\ \A i \in 1 .. Len(feed[p]) : Append(feed[p], m)[i] = feed[p][i]
          /\ Append(feed[p], m)[Len(feed[p]) + 1] = m
      BY <1>3, <1>6, AppendProperties
    <3>3. Len(feed[p]) \in Nat
      BY <1>6
    <3>4. \A n \in DOMAIN feed'[p] : n \in 1 .. Len(feed[p]) \/ n = Len(feed[p]) + 1
      BY <3>1, <3>2, <3>3
    <3>5. \A n \in 1 .. Len(feed[p]) : Publishable(feed[p][n]) /\ PartitionOf[feed[p][n].key] = p
      BY <1>6 DEF TopicTyped
    <3>6. \A n \in DOMAIN feed'[p] : Publishable(feed'[p][n]) /\ PartitionOf[feed'[p][n].key] = p
      BY <1>3, <2>1, <3>1, <3>2, <3>4, <3>5
    <3> QED BY <3>1, <3>2, <3>3, <3>6
  <2>2. CASE p # q
    <3>1. feed'[p] = feed[p]
      BY <1>1, <1>6, <2>2
    <3> QED BY <1>6, <3>1 DEF TopicTyped
  <2> QED BY <2>1, <2>2
<1>8. feed' \in [Partitions -> Seq(Messages)]
  BY <1>1, <1>4, <1>6, <1>7
<1>9. TopicTyped'
  BY <1>5, <1>7, <1>8 DEF TopicTyped
<1> QED BY <1>1, <1>7, <1>9 DEF Grows

(* What was read and cached is not changed by what is published.           *)
LEMMA PublishKeeps ==
    ASSUME CacheState, Publish
    PROVE  CacheState'
<1> USE DEF CacheState
<1>1. TopicTyped' /\ Grows /\ UNCHANGED <<replica, consumer>>
  BY PublishGrows
<1>2. CacheTyped' /\ ReplayInv'
  BY <1>1 DEF replica, CacheTyped, ReplayInv
<1>3. \A p \in Partitions : offset[p] \in Nat /\ startedAt[p] \in Nat
  BY DEF CacheTyped
<1>4. ASSUME NEW k \in Names, NEW n \in Heard(k)
      PROVE  /\ n \in Heard(k)'
             /\ ZoneAsOf(k, n) => ZoneAsOf(k, n)'
             /\ SlotAsOf(k, n) => SlotAsOf(k, n)'
  <2> DEFINE q == PartitionOf[k]
  <2>1. q \in Partitions
    BY DEF Partitions, Names
  <2>2. n \in Nat /\ n <= Len(feed[q]) /\ n \in Heard(k)'
    BY <1>1, <1>3, <2>1 DEF Grows, Heard, replica
  <2>3. \A i \in 1 .. n : feed'[q][i] = feed[q][i]
    BY <1>1, <2>1, <2>2 DEF Grows
  <2>4. \A types : Latest(feed'[q], types, k, n) = Latest(feed[q], types, k, n)
    BY <2>2, <2>3, LatestKept
  <2> QED BY <1>1, <2>2, <2>4 DEF ZoneAsOf, SlotAsOf, replica
<1>5. \A k \in Names : (\E n \in Heard(k)' : ZoneAsOf(k, n)') /\ (\E n \in Heard(k)' : SlotAsOf(k, n)')
  BY <1>4 DEF CacheInv
<1>6. \A p \in Partitions : offset'[p] <= Len(feed'[p]) /\ startedAt'[p] <= Len(feed'[p])
  BY <1>1, <1>3 DEF Grows, replica, CacheInv
<1> QED BY <1>1, <1>2, <1>5, <1>6 DEF CacheInv

(* Any step that leaves the cache and the topic alone.                     *)
LEMMA CacheUntouched ==
    ASSUME CacheState, UNCHANGED <<news, cacheVars>>
    PROVE  CacheState'
<1>1. UNCHANGED <<news, feed, startedAt, target, offset, zones, slots, ready, consumer>>
  BY DEF cacheVars
<1>2. CacheInv'
  BY <1>1, CacheFrame DEF CacheState
<1> QED BY <1>1, <1>2 DEF CacheState, TopicTyped, CacheTyped, ReplayInv

(* What the consume loop keeps.                                            *)
LEMMA ConsumeKeeps ==
    ASSUME CacheState, Consume
    PROVE  /\ CacheState' /\ UNCHANGED <<plan, pod, news, feed, startedAt, requestVars, layoutVars>>
           /\ consumer.loop \notin {"off", "stopped"}
           /\ (ready => ready') /\ (consumer.rejoined => consumer'.rejoined)
<1>1. UNCHANGED <<plan, pod, news, requestVars, layoutVars>>
  BY DEF Consume
<1>2. CASE \E p \in Partitions : Apply(p)
  <2>1. consumer.loop = "reading"
    BY <1>2 DEF Apply
  <2> QED BY <1>1, <1>2, <2>1, ApplyKeeps, ApplyMoves DEF CacheState
<1>3. CASE Observe
  <2>1. consumer.loop = "applied" /\ (ready => ready') /\ UNCHANGED <<feed, startedAt>>
        /\ consumer'.rejoined = consumer.rejoined
    BY <1>3 DEF Observe, CacheState, CacheTyped, Consumers
  <2> QED BY <1>1, <1>3, <2>1, ObserveKeeps
<1>4. CASE DeadLetter \/ StopReading
  <2>1. consumer.loop \in {"rejected", "reading"} /\ UNCHANGED <<feed, startedAt, ready>>
        /\ consumer'.rejoined = consumer.rejoined
    BY <1>4 DEF DeadLetter, StopReading, replica, CacheState, CacheTyped, Consumers
  <2> QED BY <1>1, <1>4, <2>1, LoopKeeps
<1>5. CASE Rejoin
  <2>1. consumer.loop = "reading" /\ UNCHANGED <<feed, startedAt, ready>> /\ ~consumer.rejoined
    BY <1>5 DEF Rejoin
  <2> QED BY <1>1, <1>5, <2>1, RejoinKeeps
<1> QED BY <1>2, <1>3, <1>4, <1>5 DEF Consume

-----------------------------------------------------------------------------
(* The life of the process *)

Becomes(phase, listening, pool, relay, reader, hurried) ==
    /\ pod'.phase = phase /\ pod'.listening = listening /\ pod'.pool = pool
    /\ pod'.relay = relay /\ pod'.reader = reader /\ pod'.hurried = hurried

Let(phase) == Becomes(phase, pod.listening, pod.pool, pod.relay, pod.reader, pod.hurried)

(* How each step of a start changes the process.                           *)
LEMMA StartMoves ==
    ASSUME pod \in Processes
    PROVE  /\ StepFails => pod.phase \in {"migrate", "ping", "dial"} /\ Let(pod.phase)
           /\ GiveUp =>
                 \/ pod.phase = "migrate" /\ Let("flush")
                 \/ pod.phase = "ping"
                    /\ Becomes("flush", pod.listening, "closed", pod.relay, pod.reader, pod.hurried)
                 \/ pod.phase = "dial" /\ Let("stop relay")
           /\ Misconfigured =>
                 \/ pod.phase = "migrate" /\ (Let("exited") \/ Let("flush"))
                 \/ pod.phase = "dial" /\ Let("stop relay")
           /\ RunMigrations => pod.phase = "migrate"
                 /\ Becomes("ping", pod.listening, "open", pod.relay, pod.reader, pod.hurried)
           /\ Ping => /\ pod.phase = "ping"
                      /\ \E relay \in {"passing", "off"} :
                            \/ /\ plan.mode = "kafka"
                               /\ Becomes("dial", pod.listening, pod.pool, relay, pod.reader, pod.hurried)
                            \/ /\ plan.mode # "kafka"
                               /\ Becomes("serving", TRUE, pod.pool, relay, pod.reader, pod.hurried)
           /\ Dial => pod.phase = "dial"
                 /\ Becomes("replay", pod.listening, pod.pool, pod.relay, "open", pod.hurried)
           /\ Replayed => pod.phase = "replay" /\ ready
                 /\ Becomes("serving", TRUE, pod.pool, pod.relay, pod.reader, pod.hurried)
           /\ ReplayTimesOut => pod.phase = "replay"
                 /\ Becomes("stop relay", pod.listening, pod.pool, pod.relay, "closed",
                            pod.hurried \cup {"replay"})
<1> USE DEF Becomes, Let
<1>0. /\ To("exited") \in Processes /\ To("stop relay") \in Processes /\ To("ping") \in Processes
      /\ To("dial") \in Processes /\ To("replay") \in Processes /\ To("flush") \in Processes
  BY PhaseNames, ToPhase
<1>00. ASSUME NEW phase \in {"exited", "stop relay", "ping", "dial", "replay", "flush"}
       PROVE  /\ To(phase).phase = phase /\ To(phase).listening = pod.listening /\ To(phase).pool = pod.pool
              /\ To(phase).relay = pod.relay /\ To(phase).reader = pod.reader
              /\ To(phase).hurried = pod.hurried
  <2>1. phase \in Phases
    BY PhaseNames
  <2> QED BY <2>1, ToPhase
<1>1. ASSUME StepFails PROVE pod.phase \in {"migrate", "ping", "dial"} /\ Let(pod.phase)
  BY <1>1 DEF StepFails, Processes
<1>2. ASSUME GiveUp
      PROVE  \/ pod.phase = "migrate" /\ Let("flush")
             \/ pod.phase = "ping"
                /\ Becomes("flush", pod.listening, "closed", pod.relay, pod.reader, pod.hurried)
             \/ pod.phase = "dial" /\ Let("stop relay")
  <2>1. CASE pod.phase = "migrate" /\ pod' = To("flush")
    BY <1>00, <2>1
  <2>2. CASE pod.phase = "ping" /\ pod' = [To("flush") EXCEPT !.pool = "closed"]
    BY <1>0, <1>00, <2>2 DEF Processes
  <2>3. CASE pod.phase = "dial" /\ pod' = [To("stop relay") EXCEPT !.cancelled = TRUE]
    BY <1>0, <1>00, <2>3 DEF Processes
  <2> QED BY <1>2, <2>1, <2>2, <2>3 DEF GiveUp
<1>8. ASSUME Misconfigured
      PROVE  \/ pod.phase = "migrate" /\ (Let("exited") \/ Let("flush"))
             \/ pod.phase = "dial" /\ Let("stop relay")
  <2>1. CASE pod.phase = "migrate" /\ \E next \in {"exited", "flush"} : pod' = To(next)
    BY <1>00, <2>1
  <2>2. CASE pod.phase = "dial" /\ pod' = [To("stop relay") EXCEPT !.cancelled = TRUE]
    BY <1>0, <1>00, <2>2 DEF Processes
  <2> QED BY <1>8, <2>1, <2>2 DEF Misconfigured
<1>3. ASSUME RunMigrations
      PROVE  pod.phase = "migrate" /\ Becomes("ping", pod.listening, "open", pod.relay, pod.reader, pod.hurried)
  BY <1>0, <1>00, <1>3 DEF RunMigrations, Processes
<1>4. ASSUME Ping
      PROVE  /\ pod.phase = "ping"
             /\ \E relay \in {"passing", "off"} :
                   \/ /\ plan.mode = "kafka"
                      /\ Becomes("dial", pod.listening, pod.pool, relay, pod.reader, pod.hurried)
                   \/ /\ plan.mode # "kafka"
                      /\ Becomes("serving", TRUE, pod.pool, relay, pod.reader, pod.hurried)
  <2>1. PICK relay \in {"passing", "off"} :
           pod' = IF plan.mode = "kafka" THEN [To("dial") EXCEPT !.relay = relay]
                  ELSE Serving([To("dial") EXCEPT !.relay = relay])
    BY <1>4 DEF Ping
  <2> DEFINE p == [To("dial") EXCEPT !.relay = relay]
  <2>2. /\ p.phase = "dial" /\ p.listening = pod.listening /\ p.pool = pod.pool
        /\ p.relay = relay /\ p.reader = pod.reader /\ p.hurried = pod.hurried /\ p \in Processes
    BY <1>0, <1>00 DEF Processes
  <2>3. pod.phase = "ping" /\ pod' = IF plan.mode = "kafka" THEN p ELSE Serving(p)
    BY <1>4, <2>1 DEF Ping
  <2> HIDE DEF p
  <2>4. CASE plan.mode = "kafka"
    BY <2>2, <2>3, <2>4
  <2>5. CASE plan.mode # "kafka"
    BY <2>2, <2>3, <2>5 DEF Serving, Processes
  <2> QED BY <2>4, <2>5
<1>5. ASSUME Dial
      PROVE  pod.phase = "dial" /\ Becomes("replay", pod.listening, pod.pool, pod.relay, "open", pod.hurried)
  BY <1>0, <1>00, <1>5 DEF Dial, Processes
<1>6. ASSUME Replayed
      PROVE  pod.phase = "replay" /\ ready
             /\ Becomes("serving", TRUE, pod.pool, pod.relay, pod.reader, pod.hurried)
  BY <1>6 DEF Replayed, Serving, Processes
<1>7. ASSUME ReplayTimesOut
      PROVE  pod.phase = "replay"
             /\ Becomes("stop relay", pod.listening, pod.pool, pod.relay, "closed", pod.hurried \cup {"replay"})
  BY <1>0, <1>00, <1>7 DEF ReplayTimesOut, Processes
<1> QED BY <1>1, <1>2, <1>3, <1>4, <1>5, <1>6, <1>7, <1>8

(* How each step of a stop changes the process.                            *)
LEMMA StopMoves ==
    ASSUME pod \in Processes
    PROVE  /\ SetNotReady => pod.phase = "serving" /\ Let("not ready")
           /\ ListenFails => pod.phase = "serving"
                 /\ \E reader \in {"none", "closed"} :
                       Becomes("stop relay", FALSE, pod.pool, pod.relay, reader, pod.hurried \cup {"listen"})
           /\ CloseListener => pod.phase = "not ready"
                 /\ Becomes("drain", FALSE, pod.pool, pod.relay, pod.reader, pod.hurried)
           /\ Drained => pod.phase = "drain" /\ (\A a \in Requests : ~InFlight(a)) /\ Let("stop lookup")
           /\ DrainWindowEnds => pod.phase = "drain"
                 /\ Becomes("stop lookup", pod.listening, pod.pool, pod.relay, pod.reader,
                            pod.hurried \cup {"requests"})
           /\ LookupStopped => pod.phase = "stop lookup" /\ consumer.loop \in {"off", "stopped"}
                 /\ \E reader \in {"none", "closed"} :
                       Becomes("stop relay", pod.listening, pod.pool, pod.relay, reader, pod.hurried \cup {})
           /\ LookupWindowEnds => pod.phase = "stop lookup"
                 /\ \E reader \in {"none", "closed"} :
                       Becomes("stop relay", pod.listening, pod.pool, pod.relay, reader,
                               pod.hurried \cup {"lookup"})
           /\ RelayStopped => pod.phase = "stop relay" /\ pod.relay \in {"off", "stopped"} /\ Let("close pool")
           /\ RelayWindowEnds => pod.phase = "stop relay"
                 /\ Becomes("close pool", pod.listening, pod.pool, pod.relay, pod.reader,
                            pod.hurried \cup {"relay"})
           /\ ClosePool => pod.phase = "close pool"
                 /\ Becomes("close pool", pod.listening, "closing", pod.relay, pod.reader, pod.hurried)
           /\ PoolClosed => pod.phase = "close pool"
                 /\ Becomes("flush", pod.listening, "closed", pod.relay, pod.reader, pod.hurried)
           /\ Flushed => pod.phase = "flush" /\ Let("exited")
           /\ FlushWindowEnds => pod.phase = "flush"
                 /\ Becomes("exited", pod.listening, pod.pool, pod.relay, pod.reader, pod.hurried \cup {"flush"})
           /\ Kill => Let("killed")
           /\ Relay => /\ pod.relay \in {"waiting", "passing"}
                       /\ \E relay \in {"waiting", "passing", "stopped"} :
                             Becomes(pod.phase, pod.listening, pod.pool, relay, pod.reader, pod.hurried)
<1> USE DEF Becomes, Let, StopOf
<1>0. /\ To("not ready") \in Processes /\ To("stop relay") \in Processes /\ To("drain") \in Processes
      /\ To("stop lookup") \in Processes /\ To("close pool") \in Processes /\ To("flush") \in Processes
      /\ To("exited") \in Processes
  BY PhaseNames, ToPhase
<1>00. ASSUME NEW phase \in {"not ready", "stop relay", "drain", "stop lookup", "close pool", "flush",
                             "exited", "killed"}
       PROVE  /\ To(phase).phase = phase /\ To(phase).listening = pod.listening /\ To(phase).pool = pod.pool
              /\ To(phase).relay = pod.relay /\ To(phase).reader = pod.reader
              /\ To(phase).hurried = pod.hurried
  <2>1. phase \in Phases
    BY PhaseNames
  <2> QED BY <2>1, ToPhase
<1>000. pod.reader \in {"none", "open", "closed"}
  BY DEF Processes
<1>1. ASSUME SetNotReady PROVE pod.phase = "serving" /\ Let("not ready")
  BY <1>00, <1>1 DEF SetNotReady
<1>2. ASSUME ListenFails
      PROVE  pod.phase = "serving"
             /\ \E reader \in {"none", "closed"} :
                   Becomes("stop relay", FALSE, pod.pool, pod.relay, reader, pod.hurried \cup {"listen"})
  <2> PICK old : old = To("stop relay")
    OBVIOUS
  <2>1. /\ pod.phase = "serving"
        /\ pod' = [old EXCEPT !.listening = FALSE, !.cancelled = TRUE,
                     !.reader = IF old.reader = "open" THEN "closed" ELSE old.reader,
                     !.hurried = old.hurried \cup {"listen"}]
    BY <1>2 DEF ListenFails
  <2>2. old \in Processes
    BY <1>0
  <2>3. /\ old.phase = "stop relay" /\ old.pool = pod.pool /\ old.relay = pod.relay
        /\ old.reader = pod.reader /\ old.hurried = pod.hurried
    BY <1>00
  <2>4. /\ pod'.phase = old.phase /\ pod'.listening = FALSE /\ pod'.pool = old.pool
        /\ pod'.relay = old.relay /\ pod'.hurried = old.hurried \cup {"listen"}
        /\ pod'.reader = IF old.reader = "open" THEN "closed" ELSE old.reader
    BY <2>1, <2>2 DEF Processes
  <2>5. pod'.reader \in {"none", "closed"}
    BY <1>000, <2>3, <2>4
  <2> QED BY <2>1, <2>3, <2>4, <2>5
<1>3. ASSUME CloseListener
      PROVE  pod.phase = "not ready" /\ Becomes("drain", FALSE, pod.pool, pod.relay, pod.reader, pod.hurried)
  BY <1>0, <1>00, <1>3 DEF CloseListener, Processes
<1>4. ASSUME Drained
      PROVE  pod.phase = "drain" /\ (\A a \in Requests : ~InFlight(a)) /\ Let("stop lookup")
  BY <1>0, <1>00, <1>4 DEF Drained, Processes
<1>5. ASSUME DrainWindowEnds
      PROVE  pod.phase = "drain"
             /\ Becomes("stop lookup", pod.listening, pod.pool, pod.relay, pod.reader, pod.hurried \cup {"requests"})
  BY <1>0, <1>00, <1>5 DEF DrainWindowEnds, Processes
<1>6. ASSUME NEW w, CloseLookup(w)
      PROVE  \E reader \in {"none", "closed"} :
                Becomes("stop relay", pod.listening, pod.pool, pod.relay, reader, pod.hurried \cup w)
  BY <1>0, <1>00, <1>000, <1>6 DEF CloseLookup, Processes
<1>7. ASSUME LookupStopped
      PROVE  pod.phase = "stop lookup" /\ consumer.loop \in {"off", "stopped"} /\ CloseLookup({})
  BY <1>7 DEF LookupStopped
<1>8. ASSUME LookupWindowEnds PROVE pod.phase = "stop lookup" /\ CloseLookup({"lookup"})
  BY <1>8 DEF LookupWindowEnds
<1>9. ASSUME RelayStopped
      PROVE  pod.phase = "stop relay" /\ pod.relay \in {"off", "stopped"} /\ Let("close pool")
  BY <1>00, <1>9 DEF RelayStopped
<1>10. ASSUME RelayWindowEnds
       PROVE  pod.phase = "stop relay"
              /\ Becomes("close pool", pod.listening, pod.pool, pod.relay, pod.reader, pod.hurried \cup {"relay"})
  BY <1>0, <1>00, <1>10 DEF RelayWindowEnds, Processes
<1>11. ASSUME ClosePool
       PROVE  pod.phase = "close pool"
              /\ Becomes("close pool", pod.listening, "closing", pod.relay, pod.reader, pod.hurried)
  BY <1>11 DEF ClosePool, Processes
<1>12. ASSUME Flushed PROVE pod.phase = "flush" /\ Let("exited")
  BY <1>00, <1>12 DEF Flushed
<1>15. ASSUME PoolClosed
       PROVE  pod.phase = "close pool"
              /\ Becomes("flush", pod.listening, "closed", pod.relay, pod.reader, pod.hurried)
  BY <1>0, <1>00, <1>15 DEF PoolClosed, Processes
<1>16. ASSUME FlushWindowEnds
       PROVE  pod.phase = "flush"
              /\ Becomes("exited", pod.listening, pod.pool, pod.relay, pod.reader, pod.hurried \cup {"flush"})
  BY <1>0, <1>00, <1>16 DEF FlushWindowEnds, Processes
<1>13. ASSUME Kill PROVE Let("killed")
  BY <1>00, <1>13 DEF Kill
<1>14. ASSUME Relay
       PROVE  /\ pod.relay \in {"waiting", "passing"}
              /\ \E relay \in {"waiting", "passing", "stopped"} :
                    Becomes(pod.phase, pod.listening, pod.pool, relay, pod.reader, pod.hurried)
  BY <1>14 DEF Relay, Processes
<1> HIDE DEF Becomes, Let, StopOf
<1> QED
  BY <1>1, <1>2, <1>3, <1>4, <1>5, <1>6, <1>7, <1>8, <1>9, <1>10, <1>11, <1>12, <1>13, <1>14, <1>15, <1>16

(* Whether requests are under way is seen in their records.                *)
LEMMA QuietFrame ==
    ASSUME UNCHANGED <<plan, req>>
    PROVE  Quiet' = Quiet /\ Untouched' = Untouched
BY DEF Quiet, Untouched, InFlight, Requests

LEMMA UntouchedIsQuiet ==
    ASSUME Untouched
    PROVE  Quiet
BY DEF Quiet, Untouched, InFlight

(* A process that starts.                                                  *)
LEMMA StartKeepsProcess ==
    ASSUME pod \in Processes, StartInv, StopInv,
           StepFails \/ GiveUp \/ Misconfigured \/ RunMigrations \/ Ping \/ Dial \/ Replayed \/ ReplayTimesOut
    PROVE  StartInv' /\ StopInv'
<1>1. UNCHANGED <<plan, req, contents>>
  BY DEF StepFails, GiveUp, Misconfigured, RunMigrations, Ping, Dial, Replayed, ReplayTimesOut, requestVars
<1>2. Quiet' = Quiet /\ Untouched' = Untouched /\ (Untouched => Quiet)
  BY <1>1, QuietFrame, UntouchedIsQuiet
<1>3. ~Dial => UNCHANGED <<consumer, ready>>
  BY DEF StepFails, GiveUp, Misconfigured, RunMigrations, Ping, Replayed, ReplayTimesOut, cacheVars
<1>4. pod.phase \in {"migrate", "ping", "dial", "replay"} => ~Closed /\ ~pod.listening /\ contents = {} /\ Untouched
  BY DEF StartInv, StopInv, Booting, Closed
<1>5. CASE StepFails
  BY <1>1, <1>2, <1>3, <1>4, <1>5, StartMoves DEF StartInv, StopInv, Booting, Closed, Becomes, Let, Dial, StepFails
<1>6. CASE GiveUp \/ Misconfigured
  <2>1. Off.loop = "off" /\ UNCHANGED <<consumer, ready>>
    BY <1>6 DEF Off, GiveUp, Misconfigured, cacheVars
  <2>2. CASE pod.phase = "migrate" /\ (Let("exited") \/ Let("flush"))
    BY <1>1, <1>2, <1>4, <2>1, <2>2 DEF StartInv, StopInv, Booting, Closed, Becomes, Let
  <2>3. CASE pod.phase = "ping"
             /\ Becomes("flush", pod.listening, "closed", pod.relay, pod.reader, pod.hurried)
    BY <1>1, <1>2, <1>4, <2>1, <2>3 DEF StartInv, StopInv, Booting, Closed, Becomes
  <2>4. CASE pod.phase = "dial" /\ Let("stop relay")
    BY <1>1, <1>2, <1>4, <2>1, <2>4 DEF StartInv, StopInv, Booting, Closed, Becomes, Let
  <2> QED BY <1>6, <2>2, <2>3, <2>4, StartMoves
<1>7. CASE RunMigrations
  BY <1>1, <1>2, <1>3, <1>4, <1>7, StartMoves DEF StartInv, StopInv, Booting, Closed, Becomes
<1>8. CASE Ping
  BY <1>1, <1>2, <1>3, <1>4, <1>8, StartMoves DEF StartInv, StopInv, Booting, Closed, Becomes
<1>9. CASE Dial
  BY <1>1, <1>2, <1>4, <1>9, StartMoves DEF StartInv, StopInv, Booting, Closed, Becomes
<1>10. CASE Replayed
  BY <1>1, <1>2, <1>3, <1>4, <1>10, StartMoves DEF StartInv, StopInv, Booting, Closed, Becomes
<1>11. CASE ReplayTimesOut
  BY <1>1, <1>2, <1>3, <1>4, <1>11, StartMoves DEF StartInv, StopInv, Booting, Closed, Becomes
<1> QED BY <1>5, <1>6, <1>7, <1>8, <1>9, <1>10, <1>11

(* A process that stops, and its relay.                                    *)
LEMMA StopKeepsProcess ==
    ASSUME pod \in Processes, StartInv, StopInv,
           SetNotReady \/ ListenFails \/ Shutdown \/ Kill \/ Relay
    PROVE  StartInv' /\ StopInv'
<1>1. UNCHANGED <<plan, req, contents, consumer, ready>>
  BY PodOnlyFrame DEF PodOnly, requestVars, cacheVars
<1>2. Quiet' = Quiet /\ Untouched' = Untouched /\ (Untouched => Quiet)
  BY <1>1, QuietFrame, UntouchedIsQuiet
<1> USE DEF StartInv, StopInv, Booting, Closed
<1>3. CASE SetNotReady
  BY <1>1, <1>2, <1>3, StopMoves DEF Becomes, Let
<1>4. CASE ListenFails
  BY <1>1, <1>2, <1>4, StopMoves DEF Becomes, Let
<1>5. CASE CloseListener
  BY <1>1, <1>2, <1>5, StopMoves DEF Becomes, Let
<1>6. CASE Drained
  <2>1. Quiet
    BY <1>6, StopMoves DEF Quiet
  <2> QED BY <1>1, <1>2, <1>6, <2>1, StopMoves DEF Becomes, Let
<1>7. CASE DrainWindowEnds
  BY <1>1, <1>2, <1>7, StopMoves DEF Becomes, Let
<1>8. CASE LookupStopped
  BY <1>1, <1>2, <1>8, StopMoves DEF Becomes, Let
<1>9. CASE LookupWindowEnds
  BY <1>1, <1>2, <1>9, StopMoves DEF Becomes, Let
<1>10. CASE RelayStopped
  BY <1>1, <1>2, <1>10, StopMoves DEF Becomes, Let
<1>11. CASE RelayWindowEnds
  BY <1>1, <1>2, <1>11, StopMoves DEF Becomes, Let
<1>12. CASE ClosePool \/ PoolClosed
  BY <1>1, <1>2, <1>12, StopMoves DEF Becomes, Let
<1>13. CASE Flushed \/ FlushWindowEnds
  BY <1>1, <1>2, <1>13, StopMoves DEF Becomes, Let
<1>14. CASE Kill
  BY <1>1, <1>2, <1>14, StopMoves DEF Becomes, Let
<1>15. CASE Relay
  BY <1>1, <1>2, <1>15, StopMoves DEF Becomes, Let
<1> QED BY <1>3, <1>4, <1>5, <1>6, <1>7, <1>8, <1>9, <1>10, <1>11, <1>12, <1>13, <1>14, <1>15 DEF Shutdown

(* The consume loop runs in a process that has a consumer, and not after   *)
(* it has been stopped.                                                    *)
LEMMA ConsumeKeepsProcess ==
    ASSUME CacheState, StartInv, StopInv, Consume
    PROVE  StartInv' /\ StopInv'
<1>1. /\ UNCHANGED <<plan, pod, req, contents>> /\ consumer.loop \notin {"off", "stopped"} /\ (ready => ready')
  BY ConsumeKeeps DEF requestVars
<1>2. Quiet' = Quiet /\ Untouched' = Untouched
  BY <1>1, QuietFrame
<1>3. consumer # Off
  BY <1>1 DEF Off
<1>4. StartInv'
  BY <1>1, <1>2, <1>3 DEF StartInv, Booting
<1>5. StopInv'
  BY <1>1, <1>2 DEF StopInv, Closed
<1> QED BY <1>4, <1>5

(* Only a listening process starts requests, and only those under way go   *)
(* on.                                                                     *)
LEMMA RequestKeepsProcess ==
    ASSUME Typed, StartInv, StopInv, NEW a \in Requests, RequestStep(a)
    PROVE  StartInv' /\ StopInv' /\ (plan.mode = "kafka" => ready)
<1>1. UNCHANGED <<plan, pod, consumer, ready>>
  BY RequestFrame DEF cacheVars
<1>2. pod.listening \/ InFlight(a)
  BY DEF RequestStep, Receive, Again, Handle, Acquire, Statement, FindBin, ClassifyProduct, FindBySKU, LookUp,
         FallBack, CallLayout, CallEnds, Segregate, Save, QueryFails, At, Queries, Querying, InFlight
<1>3. InFlight(a) => ~Quiet
  BY DEF Quiet
<1>4. ~Quiet => ~Untouched
  BY UntouchedIsQuiet
<1>5. ~Booting
  BY <1>2, <1>3, <1>4 DEF StartInv, Booting
<1>6. plan.mode = "kafka" => ready
  BY <1>2, <1>3, <1>4 DEF StartInv
<1>7. StartInv'
  BY <1>1, <1>5, <1>6 DEF StartInv, Booting
<1>8. pod.hurried = {} => ~(Closed \/ pod.phase \in {"stop lookup", "stop relay", "close pool", "flush"})
  BY <1>2, <1>3 DEF StartInv, StopInv
<1>9. StopInv'
  BY <1>1, <1>8 DEF StopInv, Closed
<1> QED BY <1>6, <1>7, <1>9

-----------------------------------------------------------------------------
(* Calls *)

CallsInv == \A a \in Requests : Calling(a) => req[a].stage = "calling"

(* A step of a request that does not begin or go on with its call ends it. *)
LEMMA RequestKeepsCalls ==
    ASSUME Typed, Counts, CallsInv, NEW a \in Requests, RequestStep(a)
    PROVE  CallsInv'
<1>1. UNCHANGED plan /\ Requests' = Requests
  BY RequestFrame DEF Requests
<1>2. \A o \in Requests \ {a} : req'[o] = req[o] /\ calls'[o].attempts = calls[o].attempts
  BY RequestStepMoves, RequestStepLayout
<1>3. ASSUME NEW o \in Requests \ {a} PROVE Calling(o)' => req'[o].stage = "calling"
  BY <1>2 DEF Calling, CallsInv
<1>4. Calling(a)' => req'[a].stage = "calling"
  <2>1. CASE CallLayout(a)
    <3>1. Goes(a, "calling") /\ req \in [Requests -> RequestStates]
      BY <2>1 DEF CallLayout, Typed, RequestsTyped
    <3> QED BY <3>1, GoesMoves DEF StageNames, Moved
  <2>2. CASE At(a, "calling") /\ UNCHANGED req
    BY <2>2 DEF At
  <2>3. CASE calls'[a].attempts = 0
    BY <2>3 DEF Calling
  <2>4. CASE ~At(a, "calling") /\ UNCHANGED layoutVars
    <3>1. Alive
      BY RequestFrame
    <3>2. ~Calling(a)
      BY <2>4, <3>1 DEF At, CallsInv
    <3> QED BY <2>4, <3>2 DEF Calling, layoutVars
  <2> QED BY <2>1, <2>2, <2>3, <2>4, RequestStepLayout
<1> QED BY <1>1, <1>3, <1>4 DEF CallsInv

-----------------------------------------------------------------------------
(* What facility-layout has said *)

(* The partitions are finitely many.                                       *)
LEMMA PartitionsFinite == IsFiniteSet(Partitions)
<1> DEFINE f == [k \in Names |-> PartitionOf[k]]
<1>1. f \in [Names -> Partitions]
  BY DEF Partitions, Names
<1>2. \A p \in Partitions : \E k \in Names : f[k] = p
  BY DEF Partitions, Names
<1>3. f \in Surjection(Names, Partitions)
  BY <1>1, <1>2 DEF Surjection
<1> HIDE DEF f
<1> QED BY <1>3, NamesAssumption, FS_Surjection DEF Names

(* A cut lies between two lengths of the topic.                            *)
LEMMA CutsOf ==
    ASSUME NEW entries, \A p \in Partitions : Len(entries[p]) \in Nat, NEW from, NEW cut
    PROVE  cut \in {c \in [Partitions -> 0 .. Max({Len(entries[p]) : p \in Partitions})] :
                       \A p \in Partitions : from[p] <= c[p] /\ c[p] <= Len(entries[p])}
           <=> /\ cut \in [Partitions -> Nat]
               /\ \A p \in Partitions : from[p] <= cut[p] /\ cut[p] <= Len(entries[p])
<1> DEFINE L == {Len(entries[p]) : p \in Partitions}
           f == [p \in Partitions |-> Len(entries[p])]
<1>2. L \in SUBSET Nat
  OBVIOUS
<1>3. IsFiniteSet(L)
  <2>1. f \in Surjection(Partitions, L)
    BY DEF Surjection
  <2> HIDE DEF L, f
  <2> QED BY <2>1, PartitionsFinite, FS_Surjection
<1>4. ASSUME NEW p \in Partitions PROVE Max(L) \in Nat /\ Len(entries[p]) <= Max(L)
  <2>1. Len(entries[p]) \in L
    OBVIOUS
  <2> HIDE DEF L
  <2>2. Max(L) \in L /\ Max(L) >= Len(entries[p])
    BY <1>2, <1>3, <2>1, MaxIsGreatest
  <2>3. Max(L) \in Nat /\ Len(entries[p]) \in Nat
    BY <1>2, <2>1, <2>2
  <2> QED BY <2>2, <2>3
<1>5. \A n : 0 .. n \subseteq Nat
  OBVIOUS
<1> HIDE DEF L
<1>6. cut \in [Partitions -> 0 .. Max(L)] => cut \in [Partitions -> Nat]
  BY <1>5
<1>7. ASSUME cut \in [Partitions -> Nat], \A p \in Partitions : cut[p] <= Len(entries[p])
      PROVE  cut \in [Partitions -> 0 .. Max(L)]
  <2>1. \A p \in Partitions : cut[p] \in 0 .. Max(L)
    BY <1>4, <1>7
  <2> QED BY <1>7, <2>1
<1> QED BY <1>6, <1>7 DEF L

(* A cut since the start lies between what was there then and what is.     *)
LEMMA CutsAre ==
    ASSUME TopicTyped, NEW cut
    PROVE  cut \in CutsSinceStart <=>
              /\ cut \in [Partitions -> Nat]
              /\ \A p \in Partitions : startedAt[p] <= cut[p] /\ cut[p] <= Len(feed[p])
<1>1. \A p \in Partitions : Len(feed[p]) \in Nat
  BY DEF TopicTyped
<1> QED BY <1>1, CutsOf DEF CutsSinceStart

(* What was last said is a message about the key.                          *)
LEMMA LatestIsPublished ==
    ASSUME TopicTyped, NEW k \in Names, NEW n \in Nat, n <= Len(feed[PartitionOf[k]]), NEW types
    PROVE  LET m == Latest(feed[PartitionOf[k]], types, k, n)
           IN  m # Absent => m \in Messages /\ Publishable(m) /\ m.type \in types /\ m.key = k
<1> DEFINE p == PartitionOf[k]
           about == About(feed[p], types, k, n)
<1>1. p \in Partitions
  BY DEF Partitions, Names
<1>2. CASE about = {}
  BY <1>2, LatestIsLast
<1>3. CASE about # {}
  <2>1. Max(about) \in about /\ Latest(feed[p], types, k, n) = feed[p][Max(about)]
    BY <1>3, LatestIsLast
  <2>2. PICK i \in 1 .. n : i = Max(about) /\ feed[p][i].type \in types /\ feed[p][i].key = k
    BY <2>1 DEF About
  <2>3. i \in DOMAIN feed[p] /\ feed[p] \in Seq(Messages)
    BY <1>1 DEF TopicTyped
  <2>4. feed[p][i] \in Messages /\ Publishable(feed[p][i])
    BY <1>1, <2>3 DEF TopicTyped
  <2> QED BY <2>1, <2>2, <2>4
<1> QED BY <1>2, <1>3

(* A slot names a zone with a partition of its own.                        *)
LEMMA ZoneOfSlot ==
    ASSUME NEW m \in Messages, Publishable(m), m.type = "LocationSlotRegistered"
    PROVE  ZoneIn(m) \in Names
BY NamesAssumption DEF Publishable, Messages, ZoneIn, Names

(* The view of a code, told by what was last said of it and of its zone.   *)
LEMMA ViewIs ==
    ASSUME NEW code, NEW cut
    PROVE  View(code, cut) =
              LET s == Latest(feed[PartitionOf[code]], SlotEvents, code, cut[PartitionOf[code]])
                  z == Latest(feed[PartitionOf[ZoneIn(s)]], ZoneEvents, ZoneIn(s), cut[PartitionOf[ZoneIn(s)]])
              IN  IF s = Absent \/ s.type = "LocationSlotDecommissioned" \/ z = Absent THEN UnknownSlot
                  ELSE SlotAttributes(z.hazmat, z.temperature)
<1>1. \A types, k : LastOf(types, k, cut) = Latest(feed[PartitionOf[k]], types, k, cut[PartitionOf[k]])
  BY DEF LastOf, Latest
<1> QED BY <1>1 DEF View, SlotEvents, ZoneEvents

(* Once the maps are as of a cut, a lookup tells what was said up to it.   *)
LEMMA LookupAtCut ==
    ASSUME TopicTyped, NEW cut \in [Partitions -> Nat], \A p \in Partitions : cut[p] <= Len(feed[p]),
           \A k \in Names : ZoneAsOf(k, cut[PartitionOf[k]]) /\ SlotAsOf(k, cut[PartitionOf[k]]),
           NEW b \in Bins
    PROVE  GetSlotAttributes(b) = View(b, cut)
<1> DEFINE s == Latest(feed[PartitionOf[b]], SlotEvents, b, cut[PartitionOf[b]])
           zone == ZoneIn(s)
           z == Latest(feed[PartitionOf[zone]], ZoneEvents, zone, cut[PartitionOf[zone]])
<1>1. b \in Names /\ \A k \in Names : PartitionOf[k] \in Partitions
  BY NamesAssumption DEF Bins, Names, Partitions
<1>2. View(b, cut) = IF s = Absent \/ s.type = "LocationSlotDecommissioned" \/ z = Absent THEN UnknownSlot
                     ELSE SlotAttributes(z.hazmat, z.temperature)
  BY ViewIs
<1>3. SlotAsOf(b, cut[PartitionOf[b]])
  BY <1>1
<1>4. CASE s = Absent \/ s.type = "LocationSlotDecommissioned"
  <2>1. b \notin DOMAIN slots
    BY <1>3, <1>4 DEF SlotAsOf
  <2> QED BY <1>2, <1>4, <2>1 DEF GetSlotAttributes
<1>5. CASE ~(s = Absent \/ s.type = "LocationSlotDecommissioned")
  <2>1. b \in DOMAIN slots /\ slots[b] = zone
    BY <1>3, <1>5 DEF SlotAsOf
  <2>2. s \in Messages /\ Publishable(s) /\ s.type \in SlotEvents
    BY <1>1, <1>5, LatestIsPublished
  <2>3. zone \in Names
    BY <1>5, <2>2, ZoneOfSlot DEF SlotEvents
  <2>4. ZoneAsOf(zone, cut[PartitionOf[zone]])
    BY <2>3
  <2> HIDE DEF s, zone
  <2>5. IF z = Absent THEN zone \notin DOMAIN zones
        ELSE zone \in DOMAIN zones /\ zones[zone] = SlotAttributes(z.hazmat, z.temperature)
    BY <2>4 DEF ZoneAsOf
  <2> QED BY <1>2, <1>5, <2>1, <2>5 DEF GetSlotAttributes
<1> QED BY <1>4, <1>5

(* What was said up to a cut stays said when the topic grows.              *)
LEMMA ViewKept ==
    ASSUME TopicTyped, Grows, NEW cut \in [Partitions -> Nat], \A p \in Partitions : cut[p] <= Len(feed[p]),
           NEW b \in Bins
    PROVE  View(b, cut)' = View(b, cut)
<1> DEFINE s == Latest(feed[PartitionOf[b]], SlotEvents, b, cut[PartitionOf[b]])
           zone == ZoneIn(s)
<1>1. b \in Names /\ \A k \in Names : PartitionOf[k] \in Partitions
  BY NamesAssumption DEF Bins, Names, Partitions
<1>2. ASSUME NEW k \in Names, NEW types
      PROVE  Latest(feed'[PartitionOf[k]], types, k, cut[PartitionOf[k]])
             = Latest(feed[PartitionOf[k]], types, k, cut[PartitionOf[k]])
  <2>1. PICK n \in Nat : n = cut[PartitionOf[k]]
    BY <1>1
  <2>2. \A i \in 1 .. n : feed'[PartitionOf[k]][i] = feed[PartitionOf[k]][i]
    BY <1>1, <2>1 DEF Grows
  <2> QED BY <2>1, <2>2, LatestKept
<1>3. View(b, cut)' =
         LET t == Latest(feed'[PartitionOf[b]], SlotEvents, b, cut[PartitionOf[b]])
             z == Latest(feed'[PartitionOf[ZoneIn(t)]], ZoneEvents, ZoneIn(t), cut[PartitionOf[ZoneIn(t)]])
         IN  IF t = Absent \/ t.type = "LocationSlotDecommissioned" \/ z = Absent THEN UnknownSlot
             ELSE SlotAttributes(z.hazmat, z.temperature)
  <2>1. \A types, k : LastOf(types, k, cut)' = Latest(feed'[PartitionOf[k]], types, k, cut[PartitionOf[k]])
    BY DEF LastOf, Latest
  <2> QED BY <2>1 DEF View, SlotEvents, ZoneEvents
<1>4. Latest(feed'[PartitionOf[b]], SlotEvents, b, cut[PartitionOf[b]]) = s
  BY <1>1, <1>2
<1>5. CASE s = Absent \/ s.type = "LocationSlotDecommissioned"
  BY <1>3, <1>4, <1>5, ViewIs
<1>6. CASE ~(s = Absent \/ s.type = "LocationSlotDecommissioned")
  <2>1. s \in Messages /\ Publishable(s) /\ s.type \in SlotEvents
    BY <1>1, <1>6, LatestIsPublished
  <2>2. zone \in Names
    BY <1>6, <2>1, ZoneOfSlot DEF SlotEvents
  <2>3. Latest(feed'[PartitionOf[zone]], ZoneEvents, zone, cut[PartitionOf[zone]])
        = Latest(feed[PartitionOf[zone]], ZoneEvents, zone, cut[PartitionOf[zone]])
    BY <1>2, <2>2
  <2> QED BY <1>3, <1>4, <1>6, <2>3, ViewIs
<1> QED BY <1>5, <1>6

-----------------------------------------------------------------------------
(* Placements *)

(* What no step but the creation of a consumer undoes.                     *)
Steady ==
    /\ Grows /\ UNCHANGED <<plan, startedAt>>
    /\ (consumer.rejoined => consumer'.rejoined) /\ unasked \subseteq unasked'

(* A bin that suits a SKU goes on suiting it.                              *)
LEMMA SuitsKept ==
    ASSUME TopicTyped, CacheTyped, TopicTyped', CacheTyped', Steady,
           NEW s \in Skus, NEW b \in Bins, classes'[s] = classes[s], Suits(s, b)
    PROVE  Suits(s, b)'
<1>1. UNCHANGED plan
  BY DEF Steady
<1>2. plan.mode = "http" => <<s, b>> \in unasked' \/ Fits(classes'[s], plan.layout[b])
  BY DEF Suits, Steady
<1>3. ASSUME plan.mode = "kafka"
      PROVE  consumer'.rejoined \/ \E cut \in CutsSinceStart' : Fits(classes'[s], View(b, cut)')
  <2>1. CASE consumer.rejoined
    BY <2>1 DEF Steady
  <2>2. CASE \E cut \in CutsSinceStart : Fits(classes[s], View(b, cut))
    <3>1. PICK cut \in CutsSinceStart : Fits(classes[s], View(b, cut))
      BY <2>2
    <3>2. cut \in [Partitions -> Nat] /\ \A p \in Partitions : startedAt[p] <= cut[p] /\ cut[p] <= Len(feed[p])
      BY CutsAre
    <3>3. View(b, cut)' = View(b, cut)
      BY <3>2, ViewKept DEF Steady
    <3>4. \A p \in Partitions : startedAt'[p] <= cut[p] /\ cut[p] <= Len(feed'[p])
      <4> SUFFICES ASSUME NEW p \in Partitions PROVE startedAt'[p] <= cut[p] /\ cut[p] <= Len(feed'[p])
        OBVIOUS
      <4>1. cut[p] \in Nat /\ Len(feed[p]) \in Nat /\ Len(feed'[p]) \in Nat /\ Len(feed[p]) <= Len(feed'[p])
        BY <3>2 DEF Steady, Grows
      <4> QED BY <3>2, <4>1 DEF Steady
    <3>5. cut \in CutsSinceStart'
      <4>1. cut \in CutsSinceStart' <=>
               /\ cut \in [Partitions -> Nat]
               /\ \A p \in Partitions : startedAt'[p] <= cut[p] /\ cut[p] <= Len(feed'[p])
        <5>1. \A p \in Partitions : Len(feed'[p]) \in Nat
          BY DEF TopicTyped
        <5> QED BY <5>1, CutsOf DEF CutsSinceStart
      <4> QED BY <3>2, <3>4, <4>1
    <3> QED BY <3>1, <3>3, <3>5
  <2> QED BY <1>3, <2>1, <2>2 DEF Suits
<1> QED BY <1>1, <1>2, <1>3 DEF Suits

(* All that has been published is a cut, and so is what has been read.     *)
LEMMA CutsThereAre ==
    ASSUME CacheState
    PROVE  /\ Lengths \in CutsSinceStart
           /\ ready /\ ~consumer.rejoined => offset \in CutsSinceStart
<1> USE DEF CacheState
<1>1. \A p \in Partitions : Len(feed[p]) \in Nat /\ startedAt[p] <= Len(feed[p]) /\ offset[p] <= Len(feed[p])
  BY DEF TopicTyped, CacheInv
<1>2. Lengths \in CutsSinceStart
  <2>1. Lengths \in [Partitions -> Nat] /\ \A p \in Partitions : Lengths[p] = Len(feed[p])
    BY <1>1 DEF Lengths
  <2>2. \A p \in Partitions : startedAt[p] <= Lengths[p] /\ Lengths[p] <= Len(feed[p])
    BY <1>1, <2>1
  <2> QED BY <2>1, <2>2, CutsAre
<1>3. ready /\ ~consumer.rejoined => offset \in CutsSinceStart
  <2>1. offset \in [Partitions -> Nat] /\ startedAt \in [Partitions -> Nat]
    BY DEF CacheTyped
  <2>2. ready /\ ~consumer.rejoined => \A p \in Partitions : startedAt[p] <= offset[p]
    BY <2>1 DEF ReplayInv
  <2> QED BY <1>1, <2>1, <2>2, CutsAre
<1> QED BY <1>2, <1>3

(* While nothing is read twice, a lookup tells what has been read.         *)
LEMMA LookupIsView ==
    ASSUME CacheState, ~consumer.rejoined, NEW b \in Bins
    PROVE  GetSlotAttributes(b) = View(b, offset)
<1>1. offset \in [Partitions -> Nat] /\ \A p \in Partitions : offset[p] <= Len(feed[p])
  BY DEF CacheState, CacheTyped, CacheInv
<1>2. \A k \in Names : \A n \in Heard(k) : n = offset[PartitionOf[k]]
  BY DEF Heard
<1>3. \A k \in Names : ZoneAsOf(k, offset[PartitionOf[k]]) /\ SlotAsOf(k, offset[PartitionOf[k]])
  BY <1>2 DEF CacheState, CacheInv
<1> QED BY <1>1, <1>3, LookupAtCut DEF CacheState

(* From which stage to which a step takes a request.                       *)
LEMMA StageMoves ==
    ASSUME Typed, NEW a \in Requests, RequestStep(a)
    PROVE  \/ Receive(a) /\ req'[a].stage = IF Op(a) = "stow" THEN "finding" ELSE "classifying"
           \/ Acquire(a) /\ req[a].stage \in Querying /\ req'[a].stage = req[a].stage
           \/ UNCHANGED req /\ InFlight(a)
           \/ InFlight(a) /\ req'[a].stage = "done"
           \/ Op(a) = "stow" /\ req'[a].stage = "idle"
           \/ CallLayout(a) /\ req[a].stage = "looking" /\ req'[a].stage = "calling"
           \/ /\ req[a].stage \in {"finding", "placing", "looking", "calling", "segregating"}
              /\ req'[a].stage \in {"placing", "looking", "segregating", "saving"}
<1>0. req \in [Requests -> RequestStates]
  BY DEF Typed, RequestsTyped
<1>1. CASE Receive(a)
  <2>1. PICK s \in StageNames : s = (IF Op(a) = "stow" THEN "finding" ELSE "classifying") /\ Goes(a, s)
    BY <1>1 DEF Receive, StageNames
  <2> QED BY <1>0, <1>1, <2>1, GoesMoves DEF Moved
<1>2. CASE Acquire(a)
  BY <1>0, <1>2, AcquireMoves DEF Acquire, Moved
<1>3. CASE InFlight(a) /\ UNCHANGED req
  BY <1>3
<1>4. CASE InFlight(a) /\ Ends(a)
  BY <1>0, <1>4, EndsMoves DEF Moved
<1>5. CASE Again(a)
  BY <1>0, <1>5 DEF Again, NoRow
<1>6. CASE CallLayout(a)
  BY <1>0, <1>6, GoesMoves DEF CallLayout, At, Moved, StageNames
<1>7. CASE FindBin(a)
  BY <1>7, FindBinMoves DEF FindBin, Queries, At, Moved
<1>8. CASE FindBySKU(a)
  BY <1>8, FindBySKUMoves DEF FindBySKU, Queries, At, Moved
<1>9. CASE req[a].stage \in {"looking", "calling"} /\ \E attrs : Placed(a, attrs)
  BY <1>0, <1>9, PlacedMoves DEF Moved, InFlight
<1>10. CASE req[a].stage = "segregating" /\ Goes(a, "saving")
  BY <1>0, <1>10, GoesMoves DEF Moved, StageNames
<1>11. CASE LookUp(a) \/ FallBack(a)
  BY <1>9, <1>11 DEF LookUp, FallBack, At
<1>12. CASE CallEnds(a)
  BY <1>3, <1>4, <1>9, <1>12 DEF CallEnds, At, InFlight
<1>13. CASE Segregate(a)
  BY <1>4, <1>10, <1>13 DEF Segregate, Queries, At, InFlight
<1>14. CASE Save(a) \/ ClassifyProduct(a) \/ QueryFails(a)
  BY <1>4, <1>14 DEF Save, ClassifyProduct, QueryFails, Queries, Querying, At, InFlight
<1> QED
  BY <1>1, <1>2, <1>5, <1>6, <1>7, <1>8, <1>11, <1>12, <1>13, <1>14 DEF RequestStep, Handle, Statement

(* A classification marks its SKU for good.                                *)
LEMMA RequestReclassifies ==
    ASSUME Typed, OnlyStows, NEW a \in Requests, RequestStep(a)
    PROVE  /\ Reclassified \subseteq Reclassified'
           /\ \A s \in Skus \ Reclassified' : classes'[s] = classes[s]
           /\ OnlyStows'
<1>1. UNCHANGED plan /\ Requests' = Requests /\ \A o \in Requests \ {a} : req'[o] = req[o]
  BY RequestFrame, RequestStepMoves DEF Requests
<1>2. /\ ClassifyProduct(a) => Op(a) = "classify" /\ req'[a].stage = "done"
      /\ ~(Op(a) = "classify" /\ req[a].stage = "done")
  <2>1. ASSUME ClassifyProduct(a) PROVE Op(a) = "classify" /\ req'[a].stage = "done"
    <3>1. Ends(a) /\ req \in [Requests -> RequestStates] /\ req[a].stage = "classifying" /\ plan \in Plans
      BY <2>1 DEF ClassifyProduct, Queries, At, Typed, RequestsTyped
    <3>2. Op(a) # "stow" /\ Op(a) \in {"stow", "classify"}
      BY <3>1, PlanFacts DEF OnlyStows, InFlight
    <3> QED BY <3>1, <3>2, EndsMoves DEF Moved
  <2>2. ASSUME Op(a) = "classify", req[a].stage = "done" PROVE FALSE
    BY <2>2 DEF RequestStep, Receive, Again, Handle, Acquire, Statement, FindBin, ClassifyProduct, FindBySKU,
                LookUp, FallBack, CallLayout, CallEnds, Segregate, Save, QueryFails, At, Queries, Querying
  <2> QED BY <2>1, <2>2
<1>3. Reclassified \subseteq Reclassified'
  BY <1>1, <1>2 DEF Reclassified, Sku, Op
<1>4. ASSUME NEW s \in Skus, s \notin Reclassified' PROVE classes'[s] = classes[s]
  <2>1. CASE ClassifyProduct(a)
    <3>1. Sku(a) \in Reclassified'
      BY <1>1, <1>2, <2>1 DEF Reclassified, Sku, Op
    <3> QED BY <1>4, <2>1, <3>1, ClassifyStores
  <2>2. CASE UNCHANGED classes
    BY <2>2
  <2> QED BY <2>1, <2>2, RequestStepStores
<1>5. req'[a].stage = "calling" => plan.mode = "http"
  <2>1. CallLayout(a) => plan.mode = "http"
    BY DEF CallLayout
  <2>2. req[a].stage = "calling" => plan.mode = "http"
    BY DEF OnlyStows
  <2> QED BY <2>1, <2>2, StageMoves DEF Querying
<1>6. req'[a].stage \notin {"idle", "done"} => (req'[a].stage = "classifying") = (Op(a) # "stow")
  <2>1. InFlight(a) => (req[a].stage = "classifying") = (Op(a) # "stow")
    BY DEF OnlyStows
  <2> QED BY <2>1, StageMoves DEF Querying, InFlight
<1>7. OnlyStows'
  BY <1>1, <1>5, <1>6 DEF OnlyStows, InFlight, Op
<1> QED BY <1>3, <1>4, <1>7

(* What a request has read of its SKU it goes on with.                     *)
LEMMA RequestReads ==
    ASSUME Typed, OnlyStows, ClassRead, NEW a \in Requests, RequestStep(a)
    PROVE  ClassRead'
<1>1. UNCHANGED plan /\ Requests' = Requests /\ \A o \in Requests \ {a} : req'[o] = req[o]
  BY RequestFrame, RequestStepMoves DEF Requests
<1>2. Reclassified \subseteq Reclassified' /\ \A s \in Skus \ Reclassified' : classes'[s] = classes[s]
  BY RequestReclassifies
<1>3. \A o \in Requests : Sku(o) \in Skus
  BY PlanFacts DEF Typed
<1>4. ASSUME NEW o \in Requests \ {a}, Sku(o) \notin Reclassified', req'[o].stage \in {"looking", "calling"}
      PROVE  req'[o].class = classes'[Sku(o)]
  BY <1>1, <1>2, <1>3, <1>4 DEF ClassRead, Unchanged
<1>5. ASSUME Sku(a) \notin Reclassified', req'[a].stage \in {"looking", "calling"}
      PROVE  req'[a].class = classes'[Sku(a)]
  <2>0. req \in [Requests -> RequestStates] /\ classes'[Sku(a)] = classes[Sku(a)] /\ Sku(a) \notin Reclassified
    BY <1>2, <1>3, <1>5 DEF Typed, RequestsTyped
  <2>1. CASE FindBySKU(a)
    BY <2>0, <2>1, FindBySKUMoves
  <2>2. CASE CallLayout(a)
    <3>1. Goes(a, "calling") /\ req[a].stage = "looking"
      BY <2>2 DEF CallLayout, At
    <3>2. req'[a].class = req[a].class
      BY <2>0, <3>1, GoesMoves DEF StageNames
    <3> QED BY <2>0, <3>1, <3>2 DEF ClassRead, Unchanged
  <2>3. CASE At(a, "calling") /\ UNCHANGED req
    BY <2>0, <2>3 DEF ClassRead, Unchanged, At
  <2>4. CASE \E attrs : Placed(a, attrs)
    BY <1>5, <2>0, <2>4, PlacedMoves DEF Moved
  <2>5. CASE Ends(a)
    BY <1>5, <2>0, <2>5, EndsMoves DEF Moved
  <2>6. CASE Goes(a, "saving")
    BY <1>5, <2>0, <2>6, GoesMoves DEF Moved, StageNames
  <2>7. CASE FindBin(a)
    BY <1>5, <2>7, FindBinMoves DEF Moved
  <2>8. CASE Again(a)
    BY <1>5, <2>0, <2>8 DEF Again, NoRow
  <2>9. CASE ClassifyProduct(a) \/ QueryFails(a) \/ Save(a)
    BY <2>5, <2>9 DEF ClassifyProduct, QueryFails, Save
  <2>10. CASE LookUp(a) \/ FallBack(a)
    BY <2>4, <2>10 DEF LookUp, FallBack
  <2>11. CASE CallEnds(a)
    BY <2>3, <2>4, <2>5, <2>11 DEF CallEnds
  <2>12. CASE Segregate(a)
    BY <2>5, <2>6, <2>12 DEF Segregate
  <2>13. CASE Receive(a) \/ Acquire(a)
    <3>1. req'[a].stage \notin {"looking", "calling"}
      <4>1. CASE Receive(a)
        BY <2>0, <4>1, GoesMoves DEF Receive, Moved, StageNames
      <4>2. CASE Acquire(a)
        BY <2>0, <4>2, AcquireMoves DEF Acquire, Moved, Querying
      <4> QED BY <2>13, <4>1, <4>2
    <3> QED BY <1>5, <3>1
  <2> QED
    BY <2>1, <2>2, <2>7, <2>8, <2>9, <2>10, <2>11, <2>12, <2>13 DEF RequestStep, Handle, Statement
<1> QED BY <1>1, <1>4, <1>5 DEF ClassRead, Unchanged, Sku

(* What the breaker has let pass by the end of the step.                   *)
Excused(s, b) == plan.mode = "http" /\ <<s, b>> \in unasked'

(* A bin a stow may go on to has been found to suit its SKU, or the breaker *)
(* has let the stow pass.                                                  *)
LEMMA RequestChecks ==
    ASSUME Typed, CacheState, Counts, OnlyStows, ClassRead, Checked, NEW a \in Requests, RequestStep(a),
           plan.mode = "kafka" => ready,
           Unchanged(a), classes'[Sku(a)] = classes[Sku(a)], req'[a].stage \in {"segregating", "saving"}
    PROVE  Suits(Sku(a), Bin(a)) \/ Excused(Sku(a), Bin(a))
<1>1. req \in [Requests -> RequestStates] /\ Sku(a) \in Skus /\ Bin(a) \in Bins
  BY PlanFacts DEF Typed, RequestsTyped
<1>2. ASSUME NEW attrs, Placed(a, attrs) PROVE Fits(req[a].class, attrs)
  <2>1. ~Moved(a, "done")
    BY DEF Moved
  <2> QED BY <1>1, <1>2, <2>1, PlacedMoves
<1>3. CASE FindBySKU(a)
  <2>1. ~Restricted(classes[Sku(a)])
    BY <1>3, FindBySKUMoves DEF Moved
  <2>2. \A attrs : Fits(classes[Sku(a)], attrs)
    BY <2>1 DEF Fits
  <2> QED BY <2>2, CutsThereAre DEF Suits
<1>4. CASE LookUp(a)
  <2>1. req[a].class = classes[Sku(a)]
    BY <1>4 DEF LookUp, At, ClassRead
  <2>2. CASE plan.mode = "kafka" /\ Placed(a, GetSlotAttributes(Bin(a)))
    <3>1. Fits(classes[Sku(a)], GetSlotAttributes(Bin(a)))
      BY <1>2, <2>1, <2>2
    <3>2. consumer.rejoined \/ (offset \in CutsSinceStart /\ GetSlotAttributes(Bin(a)) = View(Bin(a), offset))
      BY <1>1, <2>2, CutsThereAre, LookupIsView
    <3> QED BY <2>2, <3>1, <3>2 DEF Suits
  <2>3. CASE plan.mode = "permissive"
    BY <2>3 DEF Suits
  <2> QED BY <1>4, <2>2, <2>3 DEF LookUp
<1>5. CASE CallEnds(a)
  <2>1. req[a].class = classes[Sku(a)] /\ req[a].stage = "calling"
    BY <1>5 DEF CallEnds, At, ClassRead
  <2>2. CASE Placed(a, plan.layout[Bin(a)])
    <3>1. Fits(classes[Sku(a)], plan.layout[Bin(a)])
      BY <1>2, <2>1, <2>2
    <3>2. plan.mode = "http"
      BY <2>1 DEF OnlyStows
    <3> QED BY <3>1, <3>2 DEF Suits
  <2>3. CASE Ends(a)
    BY <1>1, <2>3, EndsMoves DEF Moved
  <2>4. CASE UNCHANGED req
    BY <2>1, <2>4
  <2> QED BY <1>5, <2>2, <2>3, <2>4 DEF CallEnds
<1>6. CASE Segregate(a)
  BY <1>6 DEF Segregate, Queries, At, Checked
<1>7. CASE CallLayout(a)
  BY <1>1, <1>7, GoesMoves DEF CallLayout, Moved, StageNames
<1>8. CASE Ends(a)
  BY <1>1, <1>8, EndsMoves DEF Moved
<1>9. CASE Save(a) \/ QueryFails(a) \/ ClassifyProduct(a)
  BY <1>8, <1>9 DEF Save, QueryFails, ClassifyProduct
<1>10. CASE FindBin(a)
  BY <1>10, FindBinMoves DEF Moved
<1>11. CASE Again(a)
  BY <1>1, <1>11 DEF Again, NoRow
<1>12. CASE FallBack(a)
  BY <1>12 DEF FallBack, Excused
<1>13. CASE Receive(a)
  BY <1>1, <1>13, GoesMoves DEF Receive, Moved, StageNames
<1>14. CASE Acquire(a)
  BY <1>1, <1>14, AcquireMoves DEF Moved, Checked
<1> QED
  BY <1>3, <1>4, <1>5, <1>6, <1>7, <1>9, <1>10, <1>11, <1>12, <1>13, <1>14 DEF RequestStep, Handle, Statement

(* A step that leaves the topic alone lets it grow.                        *)
LEMMA TopicGrows ==
    ASSUME TopicTyped, UNCHANGED feed
    PROVE  Grows
BY DEF TopicTyped, Grows

(* A step of a request keeps what was decided, and what it puts into a bin *)
(* was checked.                                                            *)
LEMMA RequestKeepsPlacement ==
    ASSUME IInv, NEW a \in Requests, RequestStep(a)
    PROVE  PlacementInv'
<1>1. /\ Typed /\ CacheState /\ Counts /\ CallsInv /\ StartInv /\ StopInv
      /\ OnlyStows /\ ClassRead /\ Checked /\ PlacedByTheBook
  BY DEF IInv, Typed, CacheState, BreakerInv, Counts, CallsInv, PlacementInv
<1>2. UNCHANGED <<plan, news, feed, startedAt, offset, ready, consumer>> /\ Requests' = Requests /\ Skus' = Skus
      /\ UNCHANGED cacheVars
  BY RequestFrame DEF cacheVars, Requests, Skus
<1>3. TopicTyped /\ CacheTyped /\ TopicTyped' /\ CacheTyped'
  BY <1>1, <1>2, CacheUntouched DEF CacheState
<1>4. Steady
  BY <1>1, <1>2, <1>3, TopicGrows, RequestStepStores DEF Steady
<1>5. /\ Reclassified \subseteq Reclassified' /\ OnlyStows'
      /\ \A s \in Skus \ Reclassified' : classes'[s] = classes[s]
  BY <1>1, RequestReclassifies
<1>6. \A o \in Requests : Sku(o) \in Skus /\ Bin(o) \in Bins /\ Sku(o)' = Sku(o) /\ Bin(o)' = Bin(o)
  BY <1>1, <1>2, PlanFacts DEF Typed, Sku, Bin
<1>7. ClassRead'
  BY <1>1, RequestReads
<1>8. ASSUME NEW s \in Skus, s \notin Reclassified', NEW b \in Bins, Suits(s, b) \/ Excused(s, b)
      PROVE  Suits(s, b)'
  <2>1. CASE Suits(s, b)
    BY <1>3, <1>4, <1>5, <1>8, <2>1, SuitsKept
  <2>2. CASE Excused(s, b)
    BY <1>2, <2>2 DEF Suits, Excused
  <2> QED BY <1>8, <2>1, <2>2
<1>9. plan.mode = "kafka" => ready
  BY <1>1, RequestKeepsProcess
<1>10. Checked'
  <2>1. ASSUME NEW o \in Requests, req'[o].stage \in {"segregating", "saving"}, Sku(o) \notin Reclassified'
        PROVE  Suits(Sku(o), Bin(o)) \/ Excused(Sku(o), Bin(o))
    <3>1. Sku(o) \notin Reclassified /\ classes'[Sku(o)] = classes[Sku(o)]
      BY <1>5, <1>6, <2>1
    <3>2. CASE o = a
      BY <1>1, <1>9, <2>1, <3>1, <3>2, RequestChecks DEF Unchanged
    <3>3. CASE o # a
      <4>1. req'[o] = req[o]
        BY <1>1, <3>3, RequestStepMoves
      <4> QED BY <1>1, <2>1, <3>1, <4>1 DEF Checked, Unchanged
    <3> QED BY <3>2, <3>3
  <2>2. ASSUME NEW o \in Requests, req'[o].stage \in {"segregating", "saving"}, Sku(o) \notin Reclassified'
        PROVE  Suits(Sku(o), Bin(o))'
    <3>1. PICK s \in Skus, b \in Bins : s = Sku(o) /\ b = Bin(o)
      BY <1>6
    <3>2. Suits(s, b)'
      BY <1>8, <2>1, <2>2, <3>1
    <3> QED BY <1>6, <3>1, <3>2 DEF Suits
  <2> QED BY <1>2, <1>6, <2>2 DEF Checked, Unchanged
<1>11. PlacedByTheBook'
  <2>1. ASSUME NEW s \in Skus, s \notin Reclassified', NEW b \in Bins, <<s, b>> \in contents'
        PROVE  Suits(s, b)
    <3>1. s \notin Reclassified
      BY <1>5, <2>1
    <3>2. CASE <<s, b>> \in contents
      BY <1>1, <3>1, <3>2 DEF PlacedByTheBook
    <3>3. CASE Save(a) /\ <<s, b>> = <<Sku(a), Bin(a)>>
      <4>1. req[a].stage = "saving" /\ s = Sku(a) /\ b = Bin(a)
        BY <3>3 DEF Save, Queries, At
      <4> QED BY <1>1, <3>1, <4>1 DEF Checked, Unchanged
    <3>4. Save(a) \/ contents' = contents
      BY RequestStepStores
    <3>5. Save(a) => contents' = contents \/ contents' = contents \cup {<<Sku(a), Bin(a)>>}
      BY <1>1, SaveStores
    <3> QED BY <2>1, <3>2, <3>3, <3>4, <3>5
  <2>2. \A s \in Skus \ Reclassified', b \in Bins : <<s, b>> \in contents' => Suits(s, b)'
    BY <1>8, <2>1
  <2> QED BY <1>2, <2>2 DEF PlacedByTheBook
<1> QED BY <1>5, <1>7, <1>10, <1>11 DEF PlacementInv

(* Any other step but the creation of a consumer keeps what was decided.   *)
LEMMA OthersKeepPlacement ==
    ASSUME IInv, CacheTyped', TopicTyped', UNCHANGED requestVars, Steady
    PROVE  PlacementInv'
<1>1. UNCHANGED <<plan, req, contents, classes>> /\ Requests' = Requests /\ Skus' = Skus
      /\ Reclassified' = Reclassified
  BY DEF requestVars, Requests, Skus, Reclassified, Sku, Op, Steady
<1>2. TopicTyped /\ CacheTyped /\ OnlyStows /\ ClassRead /\ Checked /\ PlacedByTheBook /\ plan \in Plans
  BY DEF IInv, Typed, PlacementInv
<1>3. \A o \in Requests : Sku(o) \in Skus /\ Bin(o) \in Bins /\ Sku(o)' = Sku(o) /\ Bin(o)' = Bin(o)
  BY <1>1, <1>2, PlanFacts DEF Sku, Bin
<1>4. ASSUME NEW s \in Skus, NEW b \in Bins, Suits(s, b) PROVE Suits(s, b)'
  BY <1>1, <1>2, <1>4, SuitsKept
<1>5. OnlyStows' /\ ClassRead'
  BY <1>1, <1>2 DEF OnlyStows, ClassRead, InFlight, Op, Unchanged, Sku
<1>6. Checked'
  <2>1. ASSUME NEW o \in Requests, req[o].stage \in {"segregating", "saving"}, Sku(o) \notin Reclassified
        PROVE  Suits(Sku(o), Bin(o))'
    <3>1. PICK s \in Skus, b \in Bins : s = Sku(o) /\ b = Bin(o)
      BY <1>3
    <3>2. Suits(s, b)'
      BY <1>2, <1>4, <2>1, <3>1 DEF Checked, Unchanged
    <3> QED BY <1>3, <3>1, <3>2 DEF Suits
  <2> QED BY <1>1, <1>3, <2>1 DEF Checked, Unchanged
<1>7. PlacedByTheBook'
  BY <1>1, <1>2, <1>4 DEF PlacedByTheBook
<1> QED BY <1>5, <1>6, <1>7 DEF PlacementInv

(* A consumer is created before anything has been answered.                *)
LEMMA DialKeepsPlacement ==
    ASSUME StartInv, SegregationInv, Dial
    PROVE  PlacementInv' /\ SegregationInv'
<1>1. contents = {} /\ Untouched /\ UNCHANGED <<plan, req, contents, binVersion>>
  BY DEF StartInv, Dial, Booting, requestVars
<1>2. \A o \in Requests' : req'[o].stage = "idle"
  BY <1>1 DEF Untouched, Requests
<1>3. PlacementInv'
  BY <1>1, <1>2 DEF PlacementInv, OnlyStows, ClassRead, Checked, PlacedByTheBook, InFlight
<1>4. SegregationInv'
  BY <1>1, <1>2 DEF SegregationInv, SegregatedUnlessReclassified, Requests, Bin
<1> QED BY <1>3, <1>4

-----------------------------------------------------------------------------
(* Segregation *)

VersionsInv == \A a \in Requests : req[a].version <= binVersion[Bin(a)]
CleanBins == \A a \in Requests :
    req[a].stage = "saving" /\ req[a].version = binVersion[Bin(a)] /\ Unchanged(a) =>
       \A t \in Skus \ Reclassified : t # Sku(a) /\ <<t, Bin(a)>> \in contents => ~KeptApart(Sku(a), t)

(* What the table keeps apart is what the matrix built from pairs forbids, *)
(* and mutual.                                                             *)
LEMMA KeptApartIs ==
    ASSUME NEW s, NEW t
    PROVE  /\ KeptApart(s, t) = Incompatible(DOTClassOf(classes[s]), DOTClassOf(classes[t]))
           /\ KeptApart(s, t) <=> KeptApart(t, s)
<1>1. \A x, y : KeptApart(x, y) = Incompatible(DOTClassOf(classes[x]), DOTClassOf(classes[y]))
  BY MatrixIsTheTable DEF KeptApart
<1>2. KeptApart(s, t) = KeptApart(t, s)
  BY <1>1, IncompatibleIsMutual
<1> QED BY <1>1, <1>2

(* The versions of bins only grow.                                         *)
LEMMA RequestKeepsVersions ==
    ASSUME Typed, VersionsInv, NEW a \in Requests, RequestStep(a)
    PROVE  /\ VersionsInv'
           /\ \A b \in Bins : binVersion[b] <= binVersion'[b] /\ binVersion[b] \in Nat /\ binVersion'[b] \in Nat
<1>1. UNCHANGED plan /\ Requests' = Requests /\ \A o \in Requests \ {a} : req'[o] = req[o]
  BY RequestFrame, RequestStepMoves DEF Requests
<1>2. binVersion \in [Bins -> Nat] /\ req \in [Requests -> RequestStates] /\ \A o \in Requests : Bin(o) \in Bins
  BY PlanFacts DEF Typed, RequestsTyped
<1>3. \A b \in Bins : binVersion[b] <= binVersion'[b] /\ binVersion[b] \in Nat /\ binVersion'[b] \in Nat
  <2>1. CASE UNCHANGED binVersion
    BY <1>2, <2>1
  <2>2. CASE Save(a) /\ ~UNCHANGED binVersion
    BY <1>2, <2>2, SaveStores
  <2> QED BY <2>1, <2>2, RequestStepStores
<1>4. \A o \in Requests : req[o].version \in Nat
  BY <1>2 DEF RequestStates
<1>5. ASSUME NEW o \in Requests \ {a}
      PROVE  req'[o].version <= binVersion'[Bin(o)]
  BY <1>1, <1>2, <1>3, <1>4, <1>5 DEF VersionsInv
<1>6. req'[a].version <= binVersion'[Bin(a)]
  <2>1. CASE FindBin(a)
    BY <1>2, <1>3, <2>1, FindBinMoves
  <2>2. CASE req'[a].version = req[a].version
    BY <1>2, <1>3, <1>4, <2>2 DEF VersionsInv
  <2>3. CASE FindBySKU(a)
    BY <2>2, <2>3, FindBySKUMoves
  <2>4. CASE req'[a].version = 0
    BY <1>2, <1>3, <2>4
  <2>5. CASE Ends(a)
    BY <1>2, <2>4, <2>5, EndsMoves
  <2>6. CASE \E attrs : Placed(a, attrs)
    BY <1>2, <2>2, <2>4, <2>6, PlacedMoves
  <2>7. CASE \E s \in StageNames : Goes(a, s)
    BY <1>2, <2>2, <2>7, GoesMoves
  <2>8. CASE Again(a)
    BY <1>2, <2>4, <2>8 DEF Again, NoRow
  <2>9. CASE LookUp(a) \/ FallBack(a)
    BY <2>6, <2>9 DEF LookUp, FallBack
  <2>10. CASE CallLayout(a) \/ Receive(a)
    BY <2>7, <2>10 DEF CallLayout, Receive, StageNames
  <2>11. CASE CallEnds(a)
    BY <2>2, <2>5, <2>6, <2>11 DEF CallEnds
  <2>12. CASE Segregate(a)
    BY <2>5, <2>7, <2>12 DEF Segregate, StageNames
  <2>13. CASE Save(a) \/ QueryFails(a) \/ ClassifyProduct(a)
    BY <2>5, <2>13 DEF Save, QueryFails, ClassifyProduct
  <2>14. CASE Acquire(a)
    BY <1>2, <2>2, <2>14, AcquireMoves
  <2> QED
    BY <2>1, <2>3, <2>8, <2>9, <2>10, <2>11, <2>12, <2>13, <2>14 DEF RequestStep, Handle, Statement
<1>7. VersionsInv'
  BY <1>1, <1>5, <1>6 DEF VersionsInv, Bin
<1> QED BY <1>3, <1>7

(* A bin still at the version read has not been saved since, so what was   *)
(* checked is what the save finds.                                         *)
LEMMA RequestKeepsSegregation ==
    ASSUME Typed, OnlyStows, SegregationInv, NEW a \in Requests, RequestStep(a)
    PROVE  SegregationInv'
<1>0. VersionsInv /\ CleanBins /\ SegregatedUnlessReclassified
  BY DEF SegregationInv, VersionsInv, CleanBins
<1>1. UNCHANGED plan /\ Requests' = Requests /\ Skus' = Skus /\ \A o \in Requests \ {a} : req'[o] = req[o]
  BY RequestFrame, RequestStepMoves DEF Requests, Skus
<1>2. VersionsInv' /\ \A b \in Bins : binVersion[b] <= binVersion'[b] /\ binVersion[b] \in Nat /\ binVersion'[b] \in Nat
  BY <1>0, RequestKeepsVersions
<1>3. Reclassified \subseteq Reclassified' /\ \A s \in Skus \ Reclassified' : classes'[s] = classes[s]
  BY RequestReclassifies
<1>4. \A o \in Requests : Sku(o) \in Skus /\ Bin(o) \in Bins /\ Sku(o)' = Sku(o) /\ Bin(o)' = Bin(o)
  BY <1>1, PlanFacts DEF Typed, Sku, Bin
<1>5. ASSUME NEW s \in Skus, s \notin Reclassified', NEW t \in Skus, t \notin Reclassified'
      PROVE  KeptApart(s, t)' = KeptApart(s, t)
  <2>1. classes'[s] = classes[s] /\ classes'[t] = classes[t]
    BY <1>3, <1>5
  <2> QED BY <2>1 DEF KeptApart
<1>6. req \in [Requests -> RequestStates] /\ \A o \in Requests : req[o].version \in Nat
  BY DEF Typed, RequestsTyped, RequestStates
<1>7. CASE ~Save(a)
  <2>0. UNCHANGED <<binVersion, contents>>
    BY <1>7, RequestStepStores
  <2>1. ASSUME NEW o \in Requests, req'[o].stage = "saving", req'[o].version = binVersion[Bin(o)],
               Sku(o) \notin Reclassified',
               NEW t \in Skus, t \notin Reclassified', t # Sku(o), <<t, Bin(o)>> \in contents
        PROVE  ~KeptApart(Sku(o), t)
    <3>1. Sku(o) \notin Reclassified /\ t \notin Reclassified
      BY <1>3, <2>1
    <3>2. CASE req'[o].stage = req[o].stage /\ req'[o].version = req[o].version
      BY <1>0, <2>1, <3>1, <3>2 DEF CleanBins, Unchanged
    <3>3. CASE o = a /\ Segregate(a)
      <4>1. ~Ends(a)
        BY <1>6, <2>1, <3>3, EndsMoves DEF Moved
      <4>2. ~Incompatible(DOTClassOf(classes[Sku(a)]), DOTClassOf(classes[t]))
        BY <2>1, <3>3, <4>1 DEF Segregate
      <4> QED BY <3>3, <4>2, KeptApartIs
    <3>4. CASE o = a /\ ~Segregate(a)
      <4>1. CASE Ends(a)
        BY <1>6, <2>1, <3>4, <4>1, EndsMoves DEF Moved
      <4>2. CASE \E attrs : Placed(a, attrs)
        BY <1>6, <2>1, <3>4, <4>2, PlacedMoves DEF Moved
      <4>3. CASE \E s \in StageNames \ {"saving"} : Goes(a, s)
        BY <1>6, <2>1, <3>4, <4>3, GoesMoves DEF Moved
      <4>4. CASE FindBin(a) \/ FindBySKU(a)
        BY <2>1, <3>4, <4>4, FindBinMoves, FindBySKUMoves DEF Moved
      <4>5. CASE Again(a)
        BY <1>6, <2>1, <3>4, <4>5 DEF Again, NoRow
      <4>6. CASE QueryFails(a) \/ ClassifyProduct(a) \/ LookUp(a) \/ FallBack(a)
        BY <3>4, <4>1, <4>2, <4>6 DEF QueryFails, ClassifyProduct, LookUp, FallBack
      <4>7. CASE CallLayout(a) \/ Receive(a)
        BY <4>3, <4>7 DEF CallLayout, Receive, StageNames
      <4>8. CASE Acquire(a)
        BY <1>6, <3>2, <3>4, <4>8, AcquireMoves DEF Moved
      <4>9. CASE CallEnds(a)
        BY <3>2, <3>4, <4>1, <4>2, <4>9 DEF CallEnds
      <4> QED
        BY <1>7, <3>4, <4>4, <4>5, <4>6, <4>7, <4>8, <4>9 DEF RequestStep, Handle, Statement
    <3> QED BY <1>1, <3>2, <3>3, <3>4
  <2>2. ASSUME NEW s \in Skus, s \notin Reclassified', NEW t \in Skus, t \notin Reclassified', NEW b \in Bins,
               s # t, <<s, b>> \in contents, <<t, b>> \in contents
        PROVE  ~KeptApart(s, t)
    BY <1>0, <1>3, <2>2 DEF SegregatedUnlessReclassified
  <2>3. ASSUME NEW o \in Requests, req'[o].stage = "saving", req'[o].version = binVersion'[Bin(o)],
               Sku(o) \notin Reclassified',
               NEW t \in Skus, t \notin Reclassified', t # Sku(o), <<t, Bin(o)>> \in contents'
        PROVE  ~KeptApart(Sku(o), t)'
    <3>1. PICK s \in Skus : s = Sku(o)
      BY <1>4
    <3>2. ~KeptApart(s, t)'
      BY <1>5, <2>0, <2>1, <2>3, <3>1
    <3> QED BY <1>4, <3>1, <3>2 DEF KeptApart
  <2>4. CleanBins'
    BY <1>1, <1>4, <2>3 DEF CleanBins, Unchanged
  <2>5. SegregatedUnlessReclassified'
    BY <1>1, <1>5, <2>0, <2>2 DEF SegregatedUnlessReclassified
  <2> QED BY <1>2, <2>4, <2>5 DEF SegregationInv, VersionsInv, CleanBins
<1>8. CASE Save(a)
  <2>0. Moved(a, "done") /\ req[a].stage = "saving"
    BY <1>6, <1>8, EndsMoves DEF Save, Queries, At
  <2>1. UNCHANGED classes
    BY <1>8, SaveStores
  <2>2. CASE UNCHANGED <<binVersion, contents>>
    <3>1. ASSUME NEW o \in Requests, req'[o].stage = "saving", req'[o].version = binVersion[Bin(o)],
                 Sku(o) \notin Reclassified',
                 NEW t \in Skus, t \notin Reclassified', t # Sku(o), <<t, Bin(o)>> \in contents
          PROVE  ~KeptApart(Sku(o), t)
      <4>1. o # a /\ req'[o] = req[o]
        BY <2>0, <3>1 DEF Moved
      <4> QED BY <1>0, <1>3, <3>1, <4>1 DEF CleanBins, Unchanged
    <3>2. CleanBins'
      BY <1>1, <1>4, <2>1, <2>2, <3>1 DEF CleanBins, Unchanged, KeptApart
    <3>3. SegregatedUnlessReclassified'
      BY <1>0, <1>1, <1>3, <2>1, <2>2 DEF SegregatedUnlessReclassified, KeptApart
    <3> QED BY <1>2, <3>2, <3>3 DEF SegregationInv, VersionsInv, CleanBins
  <2>3. CASE /\ binVersion[Bin(a)] = req[a].version
             /\ contents' = contents \cup {<<Sku(a), Bin(a)>>}
             /\ binVersion' \in [Bins -> Nat] /\ binVersion'[Bin(a)] = binVersion[Bin(a)] + 1
             /\ \A b \in Bins \ {Bin(a)} : binVersion'[b] = binVersion[b]
    <3>1. ASSUME NEW o \in Requests, req'[o].stage = "saving", req'[o].version = binVersion'[Bin(o)],
                 Sku(o) \notin Reclassified',
                 NEW t \in Skus, t \notin Reclassified', t # Sku(o), <<t, Bin(o)>> \in contents'
          PROVE  ~KeptApart(Sku(o), t)
      <4>1. o # a /\ req'[o] = req[o]
        BY <2>0, <3>1 DEF Moved
      <4>2. req[o].version <= binVersion[Bin(o)]
        BY <1>0, <3>1, <4>1 DEF VersionsInv
      <4>3. Bin(o) # Bin(a)
        BY <1>2, <1>4, <1>6, <2>3, <3>1, <4>1, <4>2
      <4>4. req[o].version = binVersion[Bin(o)] /\ <<t, Bin(o)>> \in contents
        BY <1>4, <2>3, <3>1, <4>1, <4>3
      <4> QED BY <1>0, <1>3, <3>1, <4>1, <4>4 DEF CleanBins, Unchanged
    <3>2. ASSUME NEW s \in Skus, s \notin Reclassified', NEW t \in Skus, t \notin Reclassified', NEW b \in Bins,
                 s # t, <<s, b>> \in contents', <<t, b>> \in contents'
          PROVE  ~KeptApart(s, t)
      <4>0. s \notin Reclassified /\ t \notin Reclassified
        BY <1>3, <3>2
      <4>1. CASE <<s, b>> \in contents /\ <<t, b>> \in contents
        BY <1>0, <3>2, <4>0, <4>1 DEF SegregatedUnlessReclassified
      <4>2. CASE s = Sku(a) /\ b = Bin(a) /\ <<t, b>> \in contents
        BY <1>0, <2>0, <2>3, <3>2, <4>0, <4>2 DEF CleanBins, Unchanged
      <4>3. CASE t = Sku(a) /\ b = Bin(a) /\ <<s, b>> \in contents
        <5>1. ~KeptApart(t, s)
          BY <1>0, <2>0, <2>3, <3>2, <4>0, <4>3 DEF CleanBins, Unchanged
        <5> QED BY <5>1, KeptApartIs
      <4> QED BY <2>3, <3>2, <4>1, <4>2, <4>3
    <3>3. CleanBins'
      BY <1>1, <1>4, <2>1, <3>1 DEF CleanBins, Unchanged, KeptApart
    <3>4. SegregatedUnlessReclassified'
      BY <1>1, <2>1, <3>2 DEF SegregatedUnlessReclassified, KeptApart
    <3> QED BY <1>2, <3>3, <3>4 DEF SegregationInv, VersionsInv, CleanBins
  <2> QED BY <1>8, <2>2, <2>3, SaveStores
<1> QED BY <1>7, <1>8

-----------------------------------------------------------------------------
(* The invariant *)

(* Initially the topic holds what was published before, and nothing else   *)
(* has happened.                                                           *)
LEMMA InitHolds ==
    ASSUME Init
    PROVE  IInv
<1> USE DEF Init
<1>1. plan \in Plans /\ \A a \in Requests : Sku(a) \in Skus /\ Bin(a) \in Bins
  BY PlanFacts
<1>2. pod \in Processes
  <2>1. "migrate" \in Phases
    BY PhaseNames
  <2>2. 1 \in 1 .. 5
    OBVIOUS
  <2> QED BY <2>1, <2>2 DEF Processes, BootRetries
<1>3. \A a \in Requests : req[a].stage = "idle" /\ req[a] = NoRow
  BY DEF NoRow
<1>4. RequestsTyped
  <2>1. NoRow \in RequestStates
    BY DEF NoRow, RequestStates, Stages
  <2>2. req \in [Requests -> RequestStates]
    BY <2>1
  <2>3. classes \in [Skus -> Classifications \cup {Absent}]
    BY <1>1, PlansAssumption DEF Skus
  <2> QED BY <2>2, <2>3 DEF RequestsTyped
<1>5. TopicTyped
  <2>1. feed \in [Partitions -> Seq(Messages)]
        /\ \A q \in Partitions : \A n \in DOMAIN feed[q] :
              Publishable(feed[q][n]) /\ PartitionOf[feed[q][n].key] = q
    BY <1>1, PlansAssumption
  <2>2. news \in Seq(Messages) /\ \A n \in DOMAIN news : Publishable(news[n])
    BY <1>1, PlansAssumption
  <2> QED BY <2>1, <2>2 DEF TopicTyped
<1>6. CacheTyped
  BY DEF CacheTyped, Off, Consumers
<1>7. breaker = [state |-> "closed", requests |-> 0, failures |-> 0, inARow |-> 0]
      /\ calls = [q \in Requests |-> NoCall]
  BY DEF LayoutInit
<1>8. LayoutTyped
  <2>1. 0 \in 0 .. MaxCounted
    BY CountAssumption
  <2> QED BY <1>7, <2>1 DEF LayoutTyped, Breakers, Calls, NoCall
<1>9. BreakerInv
  <2>1. Current = {}
    BY <1>7 DEF Current, NoCall
  <2>2. Cardinality(Current) = 0
    BY <2>1, FS_EmptySet
  <2>3. \A a \in Requests : ~Calling(a)
    BY <1>7 DEF Calling, NoCall
  <2> QED BY <1>7, <2>2, <2>3 DEF BreakerInv
<1>10. CacheInv
  <2>1. \A p \in Partitions : offset[p] = 0 /\ startedAt[p] = 0 /\ Len(feed[p]) \in Nat
    BY <1>5 DEF TopicTyped
  <2>2. ASSUME NEW k \in Names PROVE 0 \in Heard(k) /\ ZoneAsOf(k, 0) /\ SlotAsOf(k, 0)
    <3>1. PartitionOf[k] \in Partitions
      BY DEF Partitions, Names
    <3>2. 0 \in Heard(k)
      BY <2>1, <3>1 DEF Heard
    <3>3. k \notin DOMAIN zones /\ k \notin DOMAIN slots
      OBVIOUS
    <3> QED BY <3>2, <3>3, LatestOfNone DEF ZoneAsOf, SlotAsOf
  <2> QED BY <2>1, <2>2 DEF CacheInv
<1>11. ReplayInv
  BY DEF ReplayInv
<1>12. StartInv /\ StopInv
  BY <1>3 DEF StartInv, StopInv, Booting, Untouched, Closed, Quiet, InFlight
<1>13. PlacementInv
  BY <1>3 DEF PlacementInv, OnlyStows, ClassRead, Checked, PlacedByTheBook, InFlight
<1>14. SegregationInv
  <2>1. \A a \in Requests : req[a].version = 0 /\ binVersion[Bin(a)] = 0
    BY <1>1, <1>3 DEF NoRow
  <2> QED BY <1>3, <2>1 DEF SegregationInv, SegregatedUnlessReclassified
<1> QED
  BY <1>1, <1>2, <1>4, <1>5, <1>6, <1>8, <1>9, <1>10, <1>11, <1>12, <1>13, <1>14 DEF IInv, Typed

(* The parts of the invariant that no step but those of requests touches.  *)
LEMMA RequestsUntouched ==
    ASSUME IInv, UNCHANGED <<plan, requestVars>>
    PROVE  RequestsTyped' /\ SegregationInv'
<1>1. UNCHANGED <<plan, req, binVersion, contents, classes, unasked>> /\ Requests' = Requests /\ Skus' = Skus
      /\ Reclassified' = Reclassified
  BY DEF requestVars, Requests, Skus, Reclassified, Sku, Op
<1>2. RequestsTyped'
  BY <1>1 DEF IInv, Typed, RequestsTyped
<1>3. SegregationInv'
  BY <1>1 DEF IInv, SegregationInv, SegregatedUnlessReclassified, Bin, Sku, Unchanged, KeptApart
<1> QED BY <1>2, <1>3

LEMMA BreakerUntouched ==
    ASSUME IInv, UNCHANGED <<plan, req, layoutVars>>
    PROVE  LayoutTyped' /\ BreakerInv'
<1>1. UNCHANGED <<plan, req, breaker, calls>> /\ Requests' = Requests
  BY DEF layoutVars, Requests
<1> QED BY <1>1 DEF IInv, Typed, LayoutTyped, BreakerInv, Current, Calling

(* The named parts make up the invariant.                                  *)
LEMMA Parts ==
    /\ IInv <=> /\ plan \in Plans /\ pod \in Processes /\ RequestsTyped /\ LayoutTyped /\ BreakerInv
                /\ CacheState /\ StartInv /\ StopInv /\ PlacementInv /\ SegregationInv
    /\ BreakerInv <=> Counts /\ CallsInv
BY DEF IInv, Typed, CacheState, BreakerInv, Counts, CallsInv

(* A step of the process itself.                                           *)
LEMMA ProcessKeeps ==
    ASSUME IInv, PodOnly
    PROVE  IInv'
<1>1. UNCHANGED <<plan, news, requestVars, cacheVars, layoutVars>>
  BY PodOnlyFrame
<1>2. UNCHANGED <<plan, req, feed, startedAt, consumer>>
  BY <1>1 DEF requestVars, cacheVars
<1>3. pod' \in Processes
  BY ProcessTyped, Parts
<1>4. CacheState'
  BY <1>1, CacheUntouched, Parts
<1>5. LayoutTyped' /\ BreakerInv'
  BY <1>1, <1>2, BreakerUntouched
<1>6. RequestsTyped' /\ SegregationInv'
  BY <1>1, RequestsUntouched
<1>7. StartInv' /\ StopInv'
  BY StartKeepsProcess, StopKeepsProcess, Parts DEF PodOnly
<1>8. TopicTyped /\ TopicTyped' /\ CacheTyped'
  BY <1>4, Parts DEF CacheState
<1>9. Steady
  BY <1>1, <1>2, <1>8, TopicGrows DEF Steady, requestVars
<1>10. PlacementInv'
  BY <1>1, <1>8, <1>9, OthersKeepPlacement
<1>11. plan' \in Plans
  BY <1>1, Parts
<1>12. plan' \in Plans /\ pod' \in Processes /\ RequestsTyped' /\ LayoutTyped' /\ BreakerInv'
       /\ CacheState' /\ StartInv' /\ StopInv' /\ PlacementInv' /\ SegregationInv'
  BY <1>3, <1>4, <1>5, <1>6, <1>7, <1>10, <1>11
<1> HIDE DEF Typed, CacheState, BreakerInv
<1> QED BY <1>12 DEF IInv, Typed, CacheState

(* The creation of the consumer.                                           *)
LEMMA DialKeeps ==
    ASSUME IInv, Dial
    PROVE  IInv'
<1>1. UNCHANGED <<plan, news, requestVars, layoutVars, req>> /\ NewConsumer
  BY DEF Dial, requestVars
<1>2. pod' \in Processes
  BY ProcessTyped, Parts
<1>3. CacheState'
  BY <1>1, NewConsumerKeeps, Parts
<1>4. LayoutTyped' /\ BreakerInv'
  BY <1>1, BreakerUntouched
<1>5. RequestsTyped'
  BY <1>1, RequestsUntouched
<1>6. StartInv' /\ StopInv'
  BY StartKeepsProcess, Parts
<1>7. PlacementInv' /\ SegregationInv'
  BY DialKeepsPlacement, Parts
<1>8. plan' \in Plans
  BY <1>1, Parts
<1> QED BY <1>2, <1>3, <1>4, <1>5, <1>6, <1>7, <1>8 DEF IInv, Typed, CacheState

(* Reading the topic, and what is added to it.                             *)
LEMMA FeedKeeps ==
    ASSUME IInv, Consume \/ Publish
    PROVE  IInv'
<1>1. UNCHANGED <<plan, pod, requestVars, layoutVars, req, contents>>
  BY DEF Consume, Publish, requestVars
<1>2. CacheState /\ CacheState' /\ TopicTyped /\ CacheTyped /\ TopicTyped' /\ CacheTyped'
  <2>1. CacheState'
    BY ConsumeKeeps, PublishKeeps, Parts
  <2> QED BY <2>1, Parts DEF CacheState
<1>3. LayoutTyped' /\ BreakerInv'
  BY <1>1, BreakerUntouched
<1>4. RequestsTyped' /\ SegregationInv'
  BY <1>1, RequestsUntouched
<1>5. Steady /\ StartInv' /\ StopInv'
  <2>1. CASE Consume
    <3>1. UNCHANGED <<feed, startedAt>> /\ (consumer.rejoined => consumer'.rejoined)
      BY <1>2, <2>1, ConsumeKeeps
    <3>2. Grows
      BY <1>2, <3>1, TopicGrows
    <3> QED BY <1>1, <1>2, <2>1, <3>1, <3>2, ConsumeKeepsProcess, Parts DEF Steady, requestVars
  <2>2. CASE Publish
    <3>1. Grows /\ UNCHANGED <<startedAt, consumer, ready>>
      BY <1>2, <2>2, PublishGrows DEF replica
    <3>2. Quiet' = Quiet /\ Untouched' = Untouched
      BY <1>1, QuietFrame
    <3>3. StartInv' /\ StopInv'
      BY <1>1, <3>1, <3>2, Parts DEF StartInv, StopInv, Booting, Closed
    <3> QED BY <1>1, <3>1, <3>3 DEF Steady, requestVars
  <2> QED BY <2>1, <2>2
<1>6. PlacementInv'
  BY <1>1, <1>2, <1>5, OthersKeepPlacement
<1>7. plan' \in Plans /\ pod' \in Processes
  BY <1>1, Parts
<1> QED BY <1>2, <1>3, <1>4, <1>5, <1>6, <1>7 DEF IInv, Typed, CacheState

(* The breaker's clock.                                                    *)
LEMMA ClockKeeps ==
    ASSUME IInv, Breaker
    PROVE  IInv'
<1>1. UNCHANGED <<plan, pod, news, requestVars, cacheVars, req, contents, feed, startedAt, consumer, ready>>
  BY DEF Breaker, requestVars, cacheVars
<1>2. LayoutKept /\ \A q \in Requests : calls'[q].attempts = calls[q].attempts
  BY BreakerStepKeeps, Parts
<1>3. CacheState' /\ TopicTyped /\ TopicTyped' /\ CacheTyped'
  <2>1. CacheState'
    BY <1>1, CacheUntouched, Parts
  <2> QED BY <2>1, Parts DEF CacheState
<1>4. CallsInv'
  <2>1. Requests' = Requests
    BY <1>1 DEF Requests
  <2> QED BY <1>1, <1>2, <2>1, Parts DEF CallsInv, Calling
<1>5. LayoutTyped' /\ BreakerInv'
  BY <1>2, <1>4 DEF LayoutKept, BreakerInv, Counts, CallsInv
<1>6. RequestsTyped' /\ SegregationInv'
  BY <1>1, RequestsUntouched
<1>7. Quiet' = Quiet /\ Untouched' = Untouched
  BY <1>1, QuietFrame
<1>8. StartInv' /\ StopInv'
  BY <1>1, <1>7, Parts DEF StartInv, StopInv, Booting, Closed
<1>9. Steady
  BY <1>1, <1>3, TopicGrows DEF Steady, requestVars
<1>10. PlacementInv'
  BY <1>1, <1>3, <1>9, OthersKeepPlacement
<1>11. plan' \in Plans /\ pod' \in Processes
  BY <1>1, Parts
<1> QED BY <1>3, <1>5, <1>6, <1>8, <1>10, <1>11 DEF IInv, Typed, CacheState

(* A step of a request.                                                    *)
LEMMA RequestKeeps ==
    ASSUME IInv, NEW a \in Requests, RequestStep(a)
    PROVE  IInv'
<1>0. Typed /\ CacheState /\ Counts /\ CallsInv /\ StartInv /\ StopInv /\ OnlyStows /\ SegregationInv
  BY Parts DEF IInv, PlacementInv
<1>1. UNCHANGED <<plan, pod, news, cacheVars>>
  BY RequestFrame
<1>2. CacheState'
  BY <1>0, <1>1, CacheUntouched
<1>3. LayoutKept /\ CallsInv'
  BY <1>0, RequestStepLayout, RequestKeepsCalls
<1>4. LayoutTyped' /\ BreakerInv'
  BY <1>3 DEF LayoutKept, BreakerInv, Counts, CallsInv
<1>5. RequestsTyped' /\ SegregationInv' /\ PlacementInv' /\ StartInv' /\ StopInv'
  BY <1>0, RequestStepTyped, RequestKeepsSegregation, RequestKeepsPlacement, RequestKeepsProcess
<1>6. plan' \in Plans /\ pod' \in Processes
  BY <1>1, Parts
<1> QED BY <1>2, <1>4, <1>5, <1>6 DEF IInv, Typed, CacheState

(* Every step keeps the invariant.                                         *)
LEMMA NextKeeps ==
    ASSUME IInv, [Next]_vars
    PROVE  IInv'
<1>1. CASE Next
  <2>1. PodOnly \/ Dial \/ Consume \/ Publish \/ Breaker \/ \E a \in Requests : RequestStep(a)
    BY <1>1 DEF Next, Starting, PodOnly, RequestStep
  <2> QED BY <2>1, ProcessKeeps, DialKeeps, FeedKeeps, ClockKeeps, RequestKeeps
<1>2. CASE UNCHANGED vars
  <2>1. UNCHANGED <<plan, pod, news, requestVars, cacheVars, layoutVars, req, contents, feed, startedAt, consumer, ready>>
    BY <1>2 DEF vars, requestVars, cacheVars
  <2>2. CacheState' /\ TopicTyped /\ TopicTyped' /\ CacheTyped'
    <3>1. CacheState'
      BY <2>1, CacheUntouched, Parts
    <3> QED BY <3>1, Parts DEF CacheState
  <2>3. LayoutTyped' /\ BreakerInv'
    BY <2>1, BreakerUntouched
  <2>4. RequestsTyped' /\ SegregationInv'
    BY <2>1, RequestsUntouched
  <2>5. Quiet' = Quiet /\ Untouched' = Untouched
    BY <2>1, QuietFrame
  <2>6. StartInv' /\ StopInv'
    BY <2>1, <2>5, Parts DEF StartInv, StopInv, Booting, Closed
  <2>7. Steady
    BY <2>1, <2>2, TopicGrows DEF Steady, requestVars
  <2>8. PlacementInv'
    BY <2>1, <2>2, <2>7, OthersKeepPlacement
  <2>9. plan' \in Plans /\ pod' \in Processes
    BY <2>1, Parts
  <2> QED BY <2>2, <2>3, <2>4, <2>6, <2>8, <2>9 DEF IInv, Typed, CacheState
<1> QED BY <1>1, <1>2

-----------------------------------------------------------------------------
(* The results *)

(* Every reachable state satisfies the invariant, whatever is planned,     *)
(* published, classified, and in whatever order.                           *)
THEOREM InvariantHolds == Spec => []IInv
<1>1. Init => IInv
  BY InitHolds
<1>2. IInv /\ [Next]_vars => IInv'
  BY NextKeeps
<1> QED BY <1>1, <1>2, PTL DEF Spec

(* The types: attempts, windows, counts, offsets.                          *)
THEOREM TypesHold == Spec => []TypeOK
<1>1. IInv => TypeOK
  <2> SUFFICES ASSUME IInv PROVE TypeOK
    OBVIOUS
  <2>1. plan \in Plans /\ pod.tries \in 1 .. BootRetries
        /\ \A a \in Requests : Calling(a) => req[a].stage = "calling"
    BY DEF IInv, Typed, Processes, BreakerInv
  <2>2. pod.hurried \subseteq {"replay", "listen", "requests", "lookup", "relay", "flush"}
    BY DEF IInv, Typed, Processes, Windows
  <2>3. breaker.requests \in 0 .. MaxCounted /\ breaker.failures \in Nat
    BY DEF IInv, Typed, LayoutTyped, Breakers
  <2>4. breaker.failures \in 0 .. breaker.requests
    <3>1. Cardinality(Current) \in Nat
      BY <2>1, CurrentFinite
    <3>2. breaker.requests \in Nat
      BY <2>3, CountAssumption
    <3> QED BY <2>3, <3>1, <3>2 DEF IInv, BreakerInv
  <2>5. \A p \in Partitions : offset[p] \in 0 .. Len(feed[p])
    BY DEF IInv, Typed, CacheTyped, TopicTyped, CacheInv
  <2>6. DOMAIN target \subseteq Partitions /\ contents \subseteq Skus \X Bins
    BY DEF IInv, ReplayInv, Typed, RequestsTyped
  <2> QED BY <2>1, <2>2, <2>3, <2>4, <2>5, <2>6 DEF TypeOK
<1> QED BY <1>1, InvariantHolds, PTL

(* A half-open breaker has at most one call under way, however calls,      *)
(* failures, cancellations and the clock interleave.                       *)
THEOREM OneProbeHolds == Spec => []OneProbe
<1>1. IInv => OneProbe
  <2> SUFFICES ASSUME IInv, breaker.state = "half-open"
               PROVE  Cardinality({q \in DOMAIN calls : calls[q].current}) <= 1
    BY DEF OneProbe
  <2>1. {q \in DOMAIN calls : calls[q].current} = Current
    BY DEF IInv, Typed, LayoutTyped, Current
  <2>2. Cardinality(Current) \in Nat /\ breaker.failures \in Nat
    BY CurrentFinite DEF IInv, Typed, LayoutTyped, Breakers
  <2>3. breaker.requests <= 1 /\ breaker.requests \in Nat
    BY CountAssumption DEF IInv, BreakerInv, MaxRequests, Typed, LayoutTyped, Breakers
  <2>4. breaker.failures + Cardinality(Current) <= breaker.requests
    BY DEF IInv, BreakerInv
  <2>5. Cardinality(Current) <= 1
    BY <2>2, <2>3, <2>4
  <2> QED BY <2>1, <2>5
<1> QED BY <1>1, InvariantHolds, PTL

(* When no window has run out, nobody uses the pool or the reader when     *)
(* the pool is told to close.                                              *)
THEOREM CleanStopHolds == Spec => []CleanStop
<1>1. IInv => CleanStop
  BY DEF IInv, StopInv, Closed, Quiet, CleanStop
<1> QED BY <1>1, InvariantHolds, PTL

(* No request is answered from less than was published at the start, and   *)
(* every answer is what had been said up to some cut.                      *)
THEOREM KnownAtStartHolds == Spec => []KnownAtStart
<1>1. IInv => KnownAtStart
  <2> SUFFICES ASSUME IInv, plan.mode = "kafka", pod.listening, ~consumer.rejoined
               PROVE  /\ \A p \in Partitions : offset[p] >= startedAt[p]
                      /\ \A b \in Bins : GetSlotAttributes(b) = View(b, offset)
    BY DEF KnownAtStart
  <2>1. CacheState /\ ready
    BY Parts DEF IInv, StartInv
  <2>2. \A p \in Partitions : offset[p] >= startedAt[p]
    BY <2>1 DEF CacheState, ReplayInv
  <2> QED BY <2>1, <2>2, LookupIsView
<1> QED BY <1>1, InvariantHolds, PTL

(* In whatever order the partitions are read, and even after messages were *)
(* read twice, a consumer that has read everything answers as              *)
(* facility-layout would.                                                  *)
THEOREM CaughtUpHolds == Spec => []CaughtUpIsRight
<1>1. IInv => CaughtUpIsRight
  <2> SUFFICES ASSUME IInv, offset = Lengths, NEW code \in DOMAIN ZoneOfCode
               PROVE  GetSlotAttributes(code) = View(code, Lengths)
    BY DEF CaughtUpIsRight
  <2>1. CacheState
    BY Parts
  <2>2. \A p \in Partitions : Len(feed[p]) \in Nat /\ Lengths[p] = Len(feed[p]) /\ offset[p] = Len(feed[p])
    BY <2>1 DEF CacheState, TopicTyped, Lengths
  <2>3. Lengths \in [Partitions -> Nat] /\ \A p \in Partitions : Lengths[p] <= Len(feed[p])
    BY <2>2 DEF Lengths
  <2>4. ASSUME NEW k \in Names PROVE PartitionOf[k] \in Partitions
    BY DEF Partitions, Names
  <2>5. ASSUME NEW k \in Names, NEW n \in Heard(k) PROVE n = Lengths[PartitionOf[k]]
    BY <2>2, <2>4, <2>5 DEF Heard
  <2>6. \A k \in Names : ZoneAsOf(k, Lengths[PartitionOf[k]]) /\ SlotAsOf(k, Lengths[PartitionOf[k]])
    BY <2>1, <2>5 DEF CacheState, CacheInv
  <2>7. code \in Bins /\ TopicTyped
    BY <2>1 DEF Bins, CacheState
  <2> QED BY <2>3, <2>6, <2>7, LookupAtCut
<1> QED BY <1>1, InvariantHolds, PTL

(* A hazmat or temperature-sensitive SKU lies only in bins that suit it as *)
(* far as the process could know, but for what the breaker let pass to     *)
(* that bin unasked.                                                       *)
THEOREM PlacedByTheBookHolds == Spec => []PlacedByTheBook
<1>1. IInv => PlacedByTheBook
  BY DEF IInv, PlacementInv
<1> QED BY <1>1, InvariantHolds, PTL

(* Two SKUs the table keeps apart come to lie in one bin only by a later   *)
(* classification, however stows into the bin interleave.                  *)
THEOREM SegregationHolds == Spec => []SegregatedUnlessReclassified
<1>1. IInv => SegregatedUnlessReclassified
  BY DEF IInv, SegregationInv
<1> QED BY <1>1, InvariantHolds, PTL

(* The matrix built from pairs is the table documented beside it, for      *)
(* whatever is classified; whether that table is right is not said.        *)
THEOREM MatrixHolds == Spec => []MatrixIsTable
<1>1. MatrixIsTable
  BY MatrixIsTheTable DEF MatrixIsTable, KeptApart
<1> QED BY <1>1, PTL

=============================================================================
