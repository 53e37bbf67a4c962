-------------------------------- MODULE Pod --------------------------------
(***************************************************************************)
(* One process of cmd/inventory from start to exit: it migrates the        *)
(* schema, opens the pool, starts the outbox relay, fills its view of      *)
(* facility-layout, serves stow and classify requests, and on a signal     *)
(* stops all of that in order.  What a relay pass sends is in OutboxRelay, *)
(* and what a stow does to quantities in the Inventory modules.            *)
(***************************************************************************)
EXTENDS FacilityCache, LayoutClient

CONSTANTS
    Plans,      \* the configurations, workloads and events to run with
    MaxSaves    \* bound: a request is repeated until its bin was saved that often

VARIABLES
    plan,       \* the one of this behaviour
    pod,        \* the process: its phase and what it holds open
    news,       \* what facility-layout is still going to publish
    req,        \* per request: its stage, whether it holds a connection, what it has read
    binVersion, \* version of each bin's row
    contents,   \* which SKU lies in which bin
    classes,    \* product_classifications
    unasked     \* which SKU the open breaker has let pass to which bin

(* What facility-layout may publish: each key has one partition, and a     *)
(* slot is published under its location code.                              *)
Publishable(m) == m \in Messages /\ (m.type = "LocationSlotRegistered" => m.key \in DOMAIN ZoneOfCode)

ASSUME PlansAssumption == \A p \in Plans :
    /\ IsFiniteSet(DOMAIN p.requests)
    /\ \A a \in DOMAIN p.requests :
          /\ p.requests[a].op \in {"stow", "classify"}
          /\ p.requests[a].sku \in DOMAIN p.classes /\ p.requests[a].bin \in DOMAIN ZoneOfCode
    /\ p.classes \in [DOMAIN p.classes -> Classifications \cup {Absent}]
    /\ p.history \in [Partitions -> Seq(Messages)]
    /\ \A q \in Partitions : \A n \in DOMAIN p.history[q] :
          Publishable(p.history[q][n]) /\ PartitionOf[p.history[q][n].key] = q
    /\ p.news \in Seq(Messages) /\ \A n \in DOMAIN p.news : Publishable(p.news[n])

podVars     == <<pod>>
requestVars == <<req, binVersion, contents, classes, unasked>>
vars == <<plan, pod, news, requestVars, cacheVars, layoutVars>>

Requests == DOMAIN plan.requests
Skus == DOMAIN plan.classes
Bins == DOMAIN ZoneOfCode
Op(a)  == plan.requests[a].op
Sku(a) == plan.requests[a].sku
Bin(a) == plan.requests[a].bin

InFlight(a) == req[a].stage \notin {"idle", "done"}
Alive == pod.phase \notin {"exited", "killed"}
(* What this behaviour includes of all that may befall a process.          *)
May(event) == event \in plan.events

Booting == pod.phase \in {"migrate", "ping", "dial", "replay"}

-----------------------------------------------------------------------------
(* Start.  Each of the first three steps is tried BootRetries times.       *)

BootRetries == 5

To(phase) == [pod EXCEPT !.phase = phase, !.tries = 1]

(* Mutant: one attempt too many.                                           *)
StepFailsOnceMore ==
    /\ May("start") /\ pod.phase \in {"migrate", "ping", "dial"} /\ pod.tries <= BootRetries
    /\ pod' = [pod EXCEPT !.tries = @ + 1]
    /\ UNCHANGED <<plan, news, requestVars, cacheVars, layoutVars>>

StepFails ==
    /\ May("start") /\ pod.phase \in {"migrate", "ping", "dial"} /\ pod.tries < BootRetries
    /\ pod' = [pod EXCEPT !.tries = @ + 1]
    /\ UNCHANGED <<plan, news, requestVars, cacheVars, layoutVars>>

(* After the adapters are built, a start that fails closes them.           *)
GiveUp ==
    /\ pod.tries = BootRetries
    /\ \/ pod.phase = "migrate" /\ pod' = To("flush")
       \/ pod.phase = "ping" /\ pod' = [To("flush") EXCEPT !.pool = "closed"]
       \/ pod.phase = "dial" /\ pod' = [To("stop relay") EXCEPT !.cancelled = TRUE]
    /\ UNCHANGED <<plan, news, requestVars, cacheVars, layoutVars>>

(* What is not retried: telemetry that cannot be set up or a bad database  *)
(* URL; metrics that cannot be registered or no brokers to dial.           *)
Misconfigured ==
    /\ May("config")
    /\ \/ pod.phase = "migrate" /\ \E next \in {"exited", "flush"} : pod' = To(next)
       \/ pod.phase = "dial" /\ pod' = [To("stop relay") EXCEPT !.cancelled = TRUE]
    /\ UNCHANGED <<plan, news, requestVars, cacheVars, layoutVars>>

RunMigrations ==
    /\ pod.phase = "migrate"
    /\ pod' = [To("ping") EXCEPT !.pool = "open"]
    /\ UNCHANGED <<plan, news, requestVars, cacheVars, layoutVars>>

Serving(p) == [p EXCEPT !.phase = "serving", !.listening = TRUE]

Ping ==
    /\ pod.phase = "ping"
    /\ LET p == [To("dial") EXCEPT !.relay = IF plan.relay THEN "passing" ELSE "off"]
       IN  pod' = IF plan.mode = "kafka" THEN p ELSE Serving(p)
    /\ UNCHANGED <<plan, news, requestVars, cacheVars, layoutVars>>

Dial ==
    /\ pod.phase = "dial"
    /\ NewConsumer
    /\ pod' = [To("replay") EXCEPT !.reader = "open"]
    /\ UNCHANGED <<plan, news, requestVars, layoutVars>>

Replayed ==
    /\ pod.phase = "replay" /\ ready
    /\ pod' = Serving(pod)
    /\ UNCHANGED <<plan, news, requestVars, cacheVars, layoutVars>>

(* Mutant: the wait has no deadline.                                       *)
ReplayNeverTimesOut == FALSE /\ UNCHANGED vars

(* When both have happened, either wins.                                   *)
ReplayTimesOut ==
    /\ pod.phase = "replay"
    /\ pod' = [To("stop relay") EXCEPT !.cancelled = TRUE, !.reader = "closed",
                                       !.hurried = @ \cup {"replay"}]
    /\ UNCHANGED <<plan, news, requestVars, cacheVars, layoutVars>>

-----------------------------------------------------------------------------
(* Background work *)

Consume ==
    /\ Alive /\ UNCHANGED <<plan, pod, news, requestVars, layoutVars>>
    /\ \/ pod.reader = "open" /\ \E p \in Partitions : Apply(p)
       \/ DeadLetter
       \/ Observe
       \/ pod.reader = "open" /\ May("reader") /\ Rejoin
       \/ (May("reader") \/ pod.cancelled \/ pod.reader = "closed") /\ StopReading

Publish ==
    /\ news # <<>>
    /\ Published(Head(news)) /\ news' = Tail(news)
    /\ UNCHANGED <<plan, pod, requestVars, layoutVars>>

(* The relay passes, waits for the next tick, and ends after a pass or a   *)
(* wait once it has been told to stop.                                     *)
Stopping == pod.phase \in {"stop relay", "close pool", "flush"}

Relay ==
    /\ Alive
    /\ \/ /\ pod.relay = "waiting" /\ ~Stopping
          /\ pod' = [pod EXCEPT !.relay = "passing"]
       \/ /\ pod.relay = "passing"
          /\ pod' = [pod EXCEPT !.relay = IF Stopping THEN "stopped" ELSE "waiting"]
       \/ /\ pod.relay = "waiting" /\ Stopping
          /\ pod' = [pod EXCEPT !.relay = "stopped"]
    /\ UNCHANGED <<plan, news, requestVars, cacheVars, layoutVars>>

Breaker ==
    /\ Alive /\ (IntervalEnds \/ CooldownEnds)
    /\ UNCHANGED <<plan, pod, news, requestVars, cacheVars>>

-----------------------------------------------------------------------------
(* Requests.  Each of their statements, and the save's transaction, takes  *)
(* a connection from the pool and gives it back.                           *)

NoRow == [stage |-> "idle", conn |-> FALSE, version |-> 0, class |-> Absent]
At(a, stage) == Alive /\ req[a].stage = stage
Goes(a, stage) == req' = [req EXCEPT ![a].stage = stage, ![a].conn = FALSE]
Ends(a) == req' = [req EXCEPT ![a] = [NoRow EXCEPT !.stage = "done"]]
Stored == <<binVersion, contents, classes, unasked>>
Around == <<plan, pod, news, cacheVars>>

Querying == {"finding", "placing", "segregating", "saving", "classifying"}
Queries(a, stage) == At(a, stage) /\ req[a].conn

Receive(a) ==
    /\ At(a, "idle") /\ pod.listening
    /\ Goes(a, IF Op(a) = "stow" THEN "finding" ELSE "classifying")
    /\ UNCHANGED <<Stored, Around, layoutVars>>

Acquire(a) ==
    /\ Alive /\ req[a].stage \in Querying /\ ~req[a].conn /\ pod.pool = "open"
    /\ req' = [req EXCEPT ![a].conn = TRUE]
    /\ UNCHANGED <<Stored, Around, layoutVars>>

(* The bin is read with its version.                                       *)
FindBin(a) ==
    /\ Queries(a, "finding")
    /\ req' = [req EXCEPT ![a].stage = "placing", ![a].conn = FALSE, ![a].version = binVersion[Bin(a)]]
    /\ UNCHANGED <<Stored, Around, layoutVars>>

(* Mutant: only hazmat has its location looked up.                         *)
FindBySKUHazmatOnly(a) ==
    /\ Queries(a, "placing")
    /\ req' = [req EXCEPT ![a].class = classes[Sku(a)], ![a].conn = FALSE,
                          ![a].stage = IF classes[Sku(a)] # Absent /\ IsHazmat(classes[Sku(a)])
                                       THEN "looking" ELSE "segregating"]
    /\ UNCHANGED <<Stored, Around, layoutVars>>

FindBySKU(a) ==
    /\ Queries(a, "placing")
    /\ req' = [req EXCEPT ![a].class = classes[Sku(a)], ![a].conn = FALSE,
                          ![a].stage = IF Restricted(classes[Sku(a)]) THEN "looking" ELSE "segregating"]
    /\ UNCHANGED <<Stored, Around, layoutVars>>

(* The rest of checkPlacement, given the attributes of the bin.            *)
Placed(a, attrs) == IF Fits(req[a].class, attrs) THEN Goes(a, "segregating") ELSE Ends(a)

(* Without a call: the cache or the permissive lookup.                     *)
LookUp(a) ==
    /\ At(a, "looking")
    /\ \/ plan.mode = "kafka" /\ Placed(a, GetSlotAttributes(Bin(a)))
       \/ plan.mode = "permissive" /\ Placed(a, UnknownSlot)
    /\ UNCHANGED <<Stored, Around, layoutVars>>

(* The breaker refuses the call and falls back to the permissive lookup.   *)
FallBack(a) ==
    /\ At(a, "looking") /\ plan.mode = "http" /\ Rejects
    /\ Placed(a, UnknownSlot)
    /\ unasked' = unasked \cup {<<Sku(a), Bin(a)>>}
    /\ UNCHANGED <<binVersion, contents, classes, Around, layoutVars>>

CallLayout(a) ==
    /\ At(a, "looking") /\ plan.mode = "http"
    /\ BeginCall(a) /\ Goes(a, "calling")
    /\ UNCHANGED <<Stored, Around>>

(* A call that fails refuses the stow, which only restricted SKUs get to.  *)
CallEnds(a) ==
    /\ At(a, "calling")
    /\ \/ Answered(a) /\ Placed(a, plan.layout[Bin(a)])
       \/ May("layout") /\ Failed(a) /\ Ends(a)
       \/ May("cancel") /\ Cancelled(a) /\ Ends(a)
       \/ May("layout") /\ Retry(a) /\ UNCHANGED req
    /\ UNCHANGED <<Stored, Around>>

(* The classifications of the SKU and of those already in the bin.         *)
Segregate(a) ==
    /\ Queries(a, "segregating")
    /\ LET others == {s \in Skus \ {Sku(a)} : <<s, Bin(a)>> \in contents}
           clash  == \E s \in others : Incompatible(DOTClassOf(classes[Sku(a)]), DOTClassOf(classes[s]))
       IN  IF clash THEN Ends(a) ELSE Goes(a, "saving")
    /\ UNCHANGED <<Stored, Around, layoutVars>>

(* Mutant: the bin is saved whatever its version.                          *)
SaveUnchecked(a) ==
    /\ Queries(a, "saving")
    /\ Ends(a)
    /\ contents' = contents \cup {<<Sku(a), Bin(a)>>}
    /\ binVersion' = [binVersion EXCEPT ![Bin(a)] = @ + 1]
    /\ UNCHANGED <<classes, unasked, Around, layoutVars>>

(* Mutant: a stow that lost the race leaves its transaction open.          *)
SaveLeavesOpen(a) ==
    /\ Queries(a, "saving")
    /\ IF binVersion[Bin(a)] = req[a].version
       THEN /\ Ends(a)
            /\ contents' = contents \cup {<<Sku(a), Bin(a)>>}
            /\ binVersion' = [binVersion EXCEPT ![Bin(a)] = @ + 1]
       ELSE /\ req' = [req EXCEPT ![a].stage = "done"]
            /\ UNCHANGED <<contents, binVersion>>
    /\ UNCHANGED <<classes, unasked, Around, layoutVars>>

(* Refused if another request has saved the bin since it was read.         *)
Save(a) ==
    /\ Queries(a, "saving")
    /\ Ends(a)
    /\ IF binVersion[Bin(a)] = req[a].version
       THEN /\ contents' = contents \cup {<<Sku(a), Bin(a)>>}
            /\ binVersion' = [binVersion EXCEPT ![Bin(a)] = @ + 1]
       ELSE UNCHANGED <<contents, binVersion>>
    /\ UNCHANGED <<classes, unasked, Around, layoutVars>>

(* Nothing looks at the bins the SKU already lies in.                      *)
ClassifyProduct(a) ==
    /\ Queries(a, "classifying")
    /\ Ends(a)
    /\ LET c == plan.requests[a].class
       IN  classes' = IF Accepts(c) THEN [classes EXCEPT ![Sku(a)] = NewClassification(c)] ELSE classes
    /\ UNCHANGED <<binVersion, contents, unasked, Around, layoutVars>>

(* A statement fails, or there is no connection to be had for it because   *)
(* the pool was closed under the request.                                  *)
QueryFails(a) ==
    /\ Alive /\ req[a].stage \in Querying
    /\ May("queries") \/ (~req[a].conn /\ pod.pool # "open")
    /\ Ends(a)
    /\ UNCHANGED <<Stored, Around, layoutVars>>

(* The same stow is sent again.                                            *)
Again(a) ==
    /\ At(a, "done") /\ Op(a) = "stow" /\ May("again") /\ pod.listening
    /\ binVersion[Bin(a)] < MaxSaves
    /\ req' = [req EXCEPT ![a] = NoRow]
    /\ UNCHANGED <<Stored, Around, layoutVars>>

Statement(a) ==
    FindBin(a) \/ FindBySKU(a) \/ Segregate(a) \/ Save(a) \/ ClassifyProduct(a) \/ QueryFails(a)

Handle(a) == Acquire(a) \/ Statement(a) \/ LookUp(a) \/ FallBack(a) \/ CallLayout(a) \/ CallEnds(a)

-----------------------------------------------------------------------------
(* Shutdown.  Each wait but that of the pool has a window; "hurried" names *)
(* those that ran out.                                                     *)

StopOf(step) == step /\ UNCHANGED <<plan, news, requestVars, cacheVars, layoutVars>>

SetNotReady == StopOf(
    /\ pod.phase = "serving" /\ May("signal")
    /\ pod' = To("not ready"))

(* The listener has failed: the cache goes at once, requests are not       *)
(* waited for.                                                             *)
ListenFails == StopOf(
    /\ pod.phase = "serving" /\ May("listen")
    /\ pod' = [To("stop relay") EXCEPT !.listening = FALSE, !.cancelled = TRUE,
                 !.reader = IF @ = "open" THEN "closed" ELSE @, !.hurried = @ \cup {"listen"}])

(* Mutant: the listener is closed without waiting for requests.            *)
CloseServer == StopOf(
    /\ pod.phase = "not ready"
    /\ pod' = [To("stop lookup") EXCEPT !.listening = FALSE, !.cancelled = TRUE])

CloseListener == StopOf(
    /\ pod.phase = "not ready"
    /\ pod' = [To("drain") EXCEPT !.listening = FALSE])

Drained == StopOf(
    /\ pod.phase = "drain" /\ \A a \in Requests : ~InFlight(a)
    /\ pod' = [To("stop lookup") EXCEPT !.cancelled = TRUE])

DrainWindowEnds == StopOf(
    /\ pod.phase = "drain" /\ \E a \in Requests : InFlight(a)
    /\ pod' = [To("stop lookup") EXCEPT !.cancelled = TRUE, !.hurried = @ \cup {"requests"}])

CloseLookup(hurried) == pod' =
    [To("stop relay") EXCEPT !.reader = IF @ = "open" THEN "closed" ELSE @, !.hurried = @ \cup hurried]

LookupStopped == StopOf(
    /\ pod.phase = "stop lookup" /\ consumer.loop \in {"off", "stopped"}
    /\ CloseLookup({}))

LookupWindowEnds == StopOf(
    /\ pod.phase = "stop lookup" /\ consumer.loop \notin {"off", "stopped"}
    /\ CloseLookup({"lookup"}))

RelayStopped == StopOf(
    /\ pod.phase = "stop relay" /\ pod.relay \in {"off", "stopped"}
    /\ pod' = To("close pool"))

RelayWindowEnds == StopOf(
    /\ pod.phase = "stop relay" /\ pod.relay \notin {"off", "stopped"}
    /\ pod' = [To("close pool") EXCEPT !.hurried = @ \cup {"relay"}])

(* From here on the pool gives out no connection.                          *)
ClosePool == StopOf(
    /\ pod.phase = "close pool" /\ pod.pool = "open"
    /\ pod' = [pod EXCEPT !.pool = "closing"])

(* Close returns when every connection was given back, the one of a relay  *)
(* pass and those of requests that were left running, however long it is.  *)
PoolClosed == StopOf(
    /\ pod.phase = "close pool" /\ pod.pool = "closing"
    /\ pod.relay # "passing" /\ \A a \in Requests : ~req[a].conn
    /\ pod' = [To("flush") EXCEPT !.pool = "closed"])

Flushed == StopOf(pod.phase = "flush" /\ pod' = To("exited"))

FlushWindowEnds == StopOf(
    /\ pod.phase = "flush"
    /\ pod' = [To("exited") EXCEPT !.hurried = @ \cup {"flush"}])

(* A crash, a second signal, or the end of the grace period.               *)
Kill == StopOf(Alive /\ May("kill") /\ pod' = To("killed"))

-----------------------------------------------------------------------------
Init ==
    /\ plan \in Plans
    /\ pod = [phase |-> "migrate", tries |-> 1, listening |-> FALSE, pool |-> "none", relay |-> "off",
              reader |-> "none", cancelled |-> FALSE, hurried |-> {}]
    /\ news = plan.news
    /\ req = [a \in Requests |-> NoRow]
    /\ classes = plan.classes
    /\ binVersion = [b \in Bins |-> 0] /\ contents = {} /\ unasked = {}
    /\ feed = plan.history
    /\ startedAt = [p \in Partitions |-> 0] /\ target = <<>>
    /\ offset = startedAt /\ zones = <<>> /\ slots = <<>> /\ ready = FALSE /\ consumer = Off
    /\ LayoutInit(Requests)

Starting ==
    StepFails \/ GiveUp \/ Misconfigured \/ RunMigrations \/ Ping \/ Dial \/ Replayed \/ ReplayTimesOut
Shutdown ==
    \/ CloseListener \/ Drained \/ DrainWindowEnds \/ LookupStopped \/ LookupWindowEnds
    \/ RelayStopped \/ RelayWindowEnds \/ ClosePool \/ PoolClosed \/ Flushed \/ FlushWindowEnds

Next ==
    \/ Starting \/ SetNotReady \/ ListenFails \/ Shutdown \/ Kill
    \/ Consume \/ Publish \/ Relay \/ Breaker
    \/ \E a \in Requests : Receive(a) \/ Again(a) \/ Handle(a)

Spec == Init /\ [][Next]_vars

(* Postgres ends a statement that takes too long (statement_timeout), so   *)
(* a connection is given back, as long as the database can be reached.     *)
StatementEnds == \E a \in Requests : req[a].conn /\ Statement(a)

(* The main goroutine goes on, and a relay pass comes to an end: its       *)
(* queries carry the cancelled context.  A request may hang anywhere but   *)
(* in a statement.                                                         *)
FairSpec == Spec /\ WF_vars(Starting) /\ WF_vars(Shutdown) /\ WF_vars(Relay) /\ WF_vars(StatementEnds)

-----------------------------------------------------------------------------
(* Correctness *)

TypeOK ==
    /\ plan \in Plans
    /\ pod.tries \in 1 .. BootRetries
    /\ pod.hurried \subseteq {"replay", "listen", "requests", "lookup", "relay", "flush"}
    /\ \A a \in Requests : Calling(a) => req[a].stage = "calling"
    /\ breaker.requests \in 0 .. MaxCounted /\ breaker.failures \in 0 .. breaker.requests
    /\ \A p \in Partitions : offset[p] \in 0 .. Len(feed[p])
    /\ DOMAIN target \subseteq Partitions
    /\ contents \subseteq Skus \X Bins

(* No request is answered from less than what facility-layout had          *)
(* published when the process started, and what is answered is what it     *)
(* had said up to some point since.  Rejoining the group suspends this.    *)
KnownAtStart == plan.mode = "kafka" /\ pod.listening /\ ~consumer.rejoined =>
    /\ \A p \in Partitions : offset[p] >= startedAt[p]
    /\ \A b \in Bins : GetSlotAttributes(b) = View(b, offset)

Reclassified == {Sku(a) : a \in {a \in Requests : Op(a) = "classify" /\ req[a].stage = "done"}}

(* A hazmat or temperature-sensitive SKU that has not been reclassified    *)
(* lies only in bins that suit it: as facility-layout told it at some time *)
(* since the start, or, when asked directly, as it is.  Excepted is only   *)
(* what the open breaker has let pass to that bin unasked, as ADR 0020 has *)
(* it and ADR 0009 forbids; a call that fails refuses the stow, the other  *)
(* way round.                                                              *)
Suits(s, b) ==
    /\ plan.mode = "kafka" => consumer.rejoined \/ \E cut \in CutsSinceStart : Fits(classes[s], View(b, cut))
    /\ plan.mode = "http"  => <<s, b>> \in unasked \/ Fits(classes[s], plan.layout[b])

PlacedByTheBook == \A s \in Skus \ Reclassified, b \in Bins : <<s, b>> \in contents => Suits(s, b)

(* What the derived table of the regulation keeps apart, for two SKUs as    *)
(* they are classified.                                                    *)
KeptApart(s, t) ==
    LET m == DOTClassOf(classes[s])
        n == DOTClassOf(classes[t])
    IN  m \in DOTClasses /\ n \in DOTClasses /\ n \in DerivedTable[m]

(* Two SKUs the table keeps apart lie in one bin only if one of them was   *)
(* classified while the service was running.                               *)
SegregatedUnlessReclassified == \A s, t \in Skus \ Reclassified, b \in Bins :
    s # t /\ {<<s, b>>, <<t, b>>} \subseteq contents => ~KeptApart(s, t)

(* The symmetric matrix the code builds from the upper triangle of pairs   *)
(* is the table documented beside it, both ways, for whatever SKUs are     *)
(* classified as.  Whether that table is the right one is not said here:   *)
(* it permits an oxidizer beside a flammable solid, which ADR 0010 calls   *)
(* a fire-safety violation.                                                *)
MatrixIsTable == \A s, t \in Skus :
    Incompatible(DOTClassOf(classes[s]), DOTClassOf(classes[t])) = KeptApart(s, t)

(* If no window ran out, nobody is left using the pool or the reader when  *)
(* the pool is told to close: its Close then has nothing to wait for.      *)
CleanStop == pod.pool \in {"closing", "closed"} /\ pod.hurried = {} =>
    /\ \A a \in Requests : ~InFlight(a)
    /\ pod.relay \in {"off", "stopped"} /\ consumer.loop \in {"off", "stopped"}
    /\ pod.reader # "open"

(* A start leads to a serving process or to an exit, whatever fails.       *)
BootEnds == Booting ~> (pod.phase = "serving" \/ ~Alive)

(* A stop leads to an exit, whatever request, reader or exporter hangs.    *)
(* All waits have a window but that of the pool's Close for requests that  *)
(* were left running; it ends because each of them gets no further than    *)
(* the statement it is in, which the database ends.  With a database that  *)
(* does not answer at all the code waits until it is killed.               *)
StopEnds == (Alive /\ ~Booting /\ pod.phase # "serving") ~> ~Alive
=============================================================================
