# Verification of inventory-storage

TLA+ models, TLC runs and TLAPS proofs for the Go service in `src/`: a
hexagonal inventory service over Postgres (`cmd/inventory`), an MCP server over
the same tables (`cmd/mcp`), an analytics projector (`cmd/inventory-projector`)
and a service for its reports (`cmd/inventory-reports`).

Contents: [1 the system](#1-the-system), [2 modules](#2-the-modules),
[3 runs](#3-the-runs), [4 proofs](#4-the-proofs),
[5 disagreements found](#5-disagreements-between-code-and-documentation),
[6 what is not modelled](#6-what-is-not-modelled), [7 the plan](#7-the-plan).

## 1. The system

| component | state | operations | how it interacts |
|---|---|---|---|
| `domain/stock` StockUnit | quantity, reserved, state, bin, version | NewStockUnit, Reserve, ReleaseReservation, Pick, MarkUnlocated, Usable | rows of `stock_units` |
| `domain/location` Bin | capacity, occupied, version | NewBin, Occupy, Release, Resize | rows of `bins` |
| `domain/reservation` Reservation | allocations, status, expiresAt, version | New, Confirm, Revoke, Expire, IsExpired | rows of `reservations` |
| `domain/product` | classification of a SKU | New, Incompatible | read by StowStock |
| use cases | none | ReserveStock, RevokeReservation, ConfirmPick, GetReservationsByDemandRef, StowStock, RegisterBin, RunCycleCount, ReceiveStock, ClassifyProduct, queries | load aggregates, call them, save them, publish events, inside `UnitOfWork.Execute` |
| `outbound/postgres` | the tables, the outbox | version-guarded `Save`, finders, `UnitOfWork` | READ COMMITTED transactions; a nested `Execute` joins the transaction of the context |
| idempotency middleware | `idempotency_keys` | claim, run, cache, replay | opens a transaction around `POST /stock/receive` and `POST /reservations` and commits it with every response that is not a panic |
| outbox publisher and relay | `outbox_events` | insert with the use case; claim with `FOR UPDATE SKIP LOCKED`, send, mark | sends to Kafka; several replicas may run it |
| analytics consumer and projector | `analytics_consumed_events`, `analytics_processed_events`, `flow_accuracy_rollup` | mark, claim, roll up | reads Kafka; its reports are read-only queries |
| facility cache, layout client, breaker | slots and zones, breaker counters | replay to a watermark, look up, trip, probe | answers StowStock's placement check |
| `cmd/mcp` | none | `revoke_reservation` and read tools | use cases **without** a unit of work; events are only logged |
| start and shutdown | readiness | boot retry, ordered stop | wiring of the above |

What is hard in it:

* **Interleaving.** Nothing is locked by a read. Every write is guarded by the
  version that was loaded, and takes its row's lock until the transaction ends;
  several rows are written per request, in different orders by different use
  cases (a stow writes bin then unit, a pick unit then bin), so requests wait
  for each other and can deadlock.
* **How far a transaction reaches.** The same use case runs in its own unit of
  work, inside the middleware's transaction, which commits 4xx answers too, or
  with none at all (MCP).
* **Lazy expiry.** There is no sweeper; a reservation expires in the first
  lookup that finds it due, inside somebody else's request.
* **Copies.** StowStock and RunCycleCount read outside the transaction they
  write in.
* **Delivery.** Outbox rows become visible out of order, are sent at least
  once, by several relays; the projector commits its offset before it has
  applied the event.
* **A view of somebody else's data.** The facility cache is rebuilt from several
  partitions at every start, in any order, and answers while it changes; the
  HTTP client retries, gives up, and stops asking.
* **Start and stop.** Each wait has a window but the last one, for the pool to get
  its connections back, and whatever a window cuts off goes on running while what
  it uses is closed.

What makes each component correct: the reserved quantity of a unit is what
ACTIVE reservations hold; nothing is promised twice or beyond what is on hand;
a reservation is resolved once; a bin's occupancy is the sum of its contents
and fits; incompatible SKUs never share a bin; the outbox tells exactly what
was committed; every request is answered; a retried request has one effect and
one outcome; every committed event reaches Kafka, per key in order, and the
report at most once; nothing is placed before the view of facility-layout is
complete, nor against it; a half-open breaker is probed by one call; a start
ends in a serving process or an exit, and a stop in an exit that leaves nobody
using what was closed.

## 2. The modules

Three compositions. The first is about stock:

```
StockDomain            aggregates and their methods
   |
RequestTx              tables, transactions, Save, outbox insert, crash, deadlock, clock
   |           \
ReservationUseCases   PlacementUseCases
   \           /
 Inventory             all requests together; the properties; the refinement
   |        \
InventoryInvariant     HoldLedger (the abstract specification, by INSTANCE)
   |        \
   |         StockInvariant      what the rows mean to each other
   |        /      |
   |       /    HoldsInvariant   what is reserved against what is held
   |      /     |      |     \
InventoryProofs |      |      MCInventory (databases, request mixes, bounds)
          \     |      |
         StockProofs   |
                 \     |
                 HoldsProofs
```

the second about what is told of it:

```
EventCatalog           encoding, projection and report query of every event
   |
KeyedRequests          idempotency keys, requests as the outbox rows they insert
   |
OutboxRelay            relays over outbox_events, the Kafka log
   |
Projector              consumers, marks, claims, rollup, reports
   |
Delivery               all together; the refinement to ReportLedger
   |
DeliveryInvariant      the inductive invariant
   |         \
DeliveryProofs    MCDelivery     theorems; workloads and bounds
```

and the third about one process:

```
ProductRules           classifications, placement, segregation matrix
   |            \
FacilityCache   LayoutClient     the two ways to know a location
   \            /
    Pod                start, serving, shutdown; stows and classifications
     |
   PodInvariant        the inductive invariant
     |       \
   PodProofs    MCPod  theorems; configurations and bounds
```

**NumberLemmas** holds the few facts about intervals, least elements and
cardinalities that several proofs cite.

### 2.1 Stock

**StockDomain** holds the three aggregates as records. A Go method that may
fail is a predicate (`CanPick`) and a row (`Pick`). The version is part of the
row; no domain method touches it.

**RequestTx** models a request as a *session* with a program counter `pc`, the
request and what is left of it (`job`), and the aggregates it has in memory
(`loaded`). `db` and `outbox` are what is committed; `writes[s]` and
`pending[s]` are what the open transaction of `s` has written. `Scope(op)` says
how far the transaction reaches: `own`, `joined` or `none`. `Save` is the
`INSERT ... ON CONFLICT (id) DO UPDATE ... WHERE version = ...` of the three
repositories: it waits for row locks, compares the version and increments it.
`Fail` is an error answer, which rolls back an own transaction and *commits* a
joined one. `Crash` (connection lost, process killed) and `DeadlockVictim`
(Postgres ends a cycle of waits) roll back.

**ReservationUseCases** and **PlacementUseCases** have one action per statement
that another request can interleave with. What the Go code does in memory
between two statements is part of the later one's action. For example
`ConfirmPick.Execute` is `FindByID`, (`NotDue` | `ExpireIfDue` ...), `Decide`, then per
allocation `LoadUnit`, `SaveUnit`, `LoadBin`, `SaveBin`, then
`SaveReservation` with its event, and `CommitScope`. After a lazy expiry the
same request goes on (`CommitScope` returns to `due`).

**Inventory** lets any number of sessions step, states the properties, and maps
the committed tables to **HoldLedger**, the abstract specification: an atomic
ledger in which a hold appears, ends by being returned or taken, and stock on
hand only moves with holds that are taken and with stock that arrives.

**InventoryInvariant** is the inductive invariant of types, versions and control,
**StockInvariant** those of what the rows mean to each other, **HoldsInvariant** that of
conservation between units and reservations; **InventoryProofs**, **StockProofs** and
**HoldsProofs** have the theorems; **MCInventory** has the finite databases and
request mixes.

The configuration modelled is the durable one (`src/README.md:249`): `DATABASE_URL`
set and `EVENT_PUBLISHER=kafka`, so events go to the outbox in the transaction of
the use case.

Abstractions: identifiers are values of small sets, and a new identifier is any
unused one; SQL is what it does to rows; the answer of the placement lookup is
free (`RefusePlacement` may always happen); a SKU's hazard class does not
change (in 2.3 it does); ReserveStock's `FindBySKU` returns its rows in any order (there is no
`ORDER BY`), the other loops go by id or by what was loaded; each session serves
one request and stops, which is why the runs say `CHECK_DEADLOCK FALSE`: a state
in which every request is answered is a legitimate end. That no request hangs is
checked as the liveness property `EveryRequestAnswered`.

### 2.2 Delivery

**EventCatalog** is the pure part: `Encoded` is the sequence of outbox rows of a
domain event (integration message first, then the analytics one), with topic,
key and payload as `publisher.go` and `analytics_publisher.go` build them; `Cell`,
`Delta` and `Effect` say which counter of which hour's row an event moves
(`postgres_projection.go`); `Query` is the report's WHERE clause. Time is in ticks,
`TicksPerHour` to the hour.

**KeyedRequests** has a request as the list of events it publishes. A keyed one
goes through `RequireIdempotencyKey`: `Claim` inserts the key and waits for a
transaction that holds it (`Claimed`), `Replay` answers from the stored row or
refuses another body, `Respond` and `Refuse` store the answer and commit it with
the rows, `Abort` rolls everything back, `CommitUnknown` commits but answers an
error. `Insert` draws the row's id and `ShowRows`, at the commit, makes it visible:
ids can be passed. Requests without a key (stow, pick, revoke, count) run in
their own unit of work. What they do to stock is in 2.1.

**OutboxRelay** has a pass per replica: `ClaimBatch` (ORDER BY id LIMIT n FOR UPDATE
SKIP LOCKED), `Send` row by row, `SendFails` (stored or not) which records the
attempt and ends the pass, `FinishPass`, which commits the marks, `Interrupted`,
which loses them.

**Projector** has a consumer's loop: `ReadMessage` commits the offset, `Ignore`
drops what is no CloudEvent or of no known type, `MarkProcessed` or `Duplicate`,
then `Apply`, whose transaction claims the id and adds to the rollup. `ReadFails`
ends the loop for good, `MarkFails`, `ApplyFails` and `Crash` lose the message at
hand. A partition may pass to another consumer between any two reads.
`FreshnessLag` is the report's.

**ReportLedger** is the abstract specification: an event that was told is counted
at most once, with its own effect. `Delivery` maps the outbox, the table of
processed ids and the rollup to it.

### 2.3 One process

**ProductRules** is the pure part: what `product.New` accepts, which attributes a
bin must have (`Fits`), which DOT classes may share a bin.

**FacilityCache** is the consumer of facility-layout's topic: two maps filled from
partitions read in any order, a watermark per partition taken when the consumer
is created, `Observe` which ticks partitions off until the cache is ready, dead
letters, and a rejoin of the group that resumes from an earlier offset.
`View(code, cut)` is the reference: what facility-layout had said of a location
up to a cut through its partitions.

**LayoutClient** is the HTTP alternative: a call of up to three attempts, counted
once by a breaker with the settings of `resilience/breaker.go`. The state machine
of gobreaker is external; whether a cancelled call still counts as a request is
left open, so both are explored.

**Pod** is one process: `migrate`, `ping` and `dial` with their five attempts, `replay`
until ready or out of time, `serving`, and the steps of the stop (`not ready`,
`drain`, `stop lookup`, `stop relay`, `close pool`, `flush`). Each is left when what it
waits for is done or its window is over, and `hurried` names the windows that ran
out. The exception is `close pool`: pgxpool's Close has no window. The pool is
`closing` and gives out no connection, and it is `closed` when every connection
is back, that of a relay pass and those of requests the drain window or a failed
listener left running. A start that fails after the adapters were built goes
through the rest of the same steps, as the deferred calls of `run` do;
`Misconfigured` are the failures that are not retried (telemetry, the database
URL, metrics, brokers).

Stow requests read the bin's version, the classification, the location and the
occupants' classes, and save the bin if its version has not moved; classify
requests replace a classification. Each statement of a request, and the
transaction of its save, takes a connection (`Acquire`) and gives it back. A
request may hang anywhere but in a statement. `FallBack` is the open breaker's
answer, and `unasked` records which SKU it has let pass to which bin. What a
relay pass sends is in 2.2, what a stow does to quantities in 2.1: here a relay is
passing or waiting, and a bin is a version and a set of SKUs.

Abstractions of 2.2 and 2.3: messages are records with the fields somebody
reads; `cloudEvent`, `readable` and `malformed` stand for what decoding rejects;
a plan or workload, chosen by `Init`, fixes the configuration, the requests and
which failures may happen in a behaviour; the check of one bin's occupants'
classes is one read.

## 3. The runs

### 3.1 Stock (`MCInventory`)

| run | who races | from | what it shows |
|---|---|---|---|
| `resolve` | revoke, confirm pick, lookup with expiry | two reservations sharing a unit; clock passes the expiry; the picker may crash | `TypeOK`; `ReservedIsHeld`: reserved is exactly what ACTIVE reservations hold; `OutboxMatches`: one terminal event per resolved reservation, none otherwise, with its inductive form `EventsInv`; `ImplementsLedger` |
| `reserve` | two reservations and one of revoke, confirm, count | one unit partly held, one free | `HoldsBacked` with its inductive form `HoldsInv`, `ImplementsLedger`, and under fairness `EveryRequestAnswered` |
| `placement` | two stows (or a stow and a count) and one of register, confirm | no bin, an empty bin, a bin with room | `BinLedger`, `Segregated` for two incompatible SKUs, and `ShelvesInv`, from which both are proved |
| `entry_points` | reserve or lookup, MCP revoke (may crash), one of confirm, revoke, count | two reservations sharing a unit; clock passes the expiry | `ReservedOnHand` (with its inductive form `OnHandInv`), `StoreInv`, `ResolvedOnce` hold although the MCP revoke has no unit of work |
| `stranded_draw`, `stale_expiry`, `mcp_revoke`, `lost_found`, `created_twice` | two requests each | | violations, see section 5 |

Bounds, and why they are enough. Three sessions are the least with which two
requests conflict while a third changes what both read; the deadlocks the code
can meet are cycles of two. Two units let a request be half-way through its
writes, and two reservations on one unit make a wrong release visible as
somebody else's loss. Three reservation identifiers leave room for one new
reservation beside the two in the database (`entry_points`), or two beside one
(`reserve`). Quantities of 1 and 2 give exact, partial and excessive requests.
`Horizon` 1 and `Timeout` 1 put one reading of the clock on each side of every
initial reservation's expiry. `Crashable` names one session: a crash rolls
back, and the others see only its absence. Databases are what a few requests
can have left, versions included. `stale_expiry` starts where two reservations
share one unit, because a double release is only a visible loss when somebody
else holds the rest.

`HoldsBacked` is checked in `reserve` without expiring reservations and
`ReservedIsHeld` in `resolve` without `reserve` requests: the violation runs show
that the joined transaction breaks both, so they are stated where the code can
keep them. The hypotheses of the theorems in 4.1 are the same two: `resolve` has no
`reserve` request (`NoReserve`), `reserve` no expiry within its horizon (`LongLived`).

Fairness. `FairSpec` has weak fairness for each session's own steps once its
request is received: the goroutine is scheduled, a lock is granted when its
holder ends, and Postgres ends deadlocks (`deadlock_timeout`). There is none
for `Tick`, `Crash` or the arrival of requests.

### 3.2 Delivery (`MCDelivery`)

`delivery` chooses one of five workloads: `Retries` (a reservation that may be
refused, its retry, its key reused for another body, a request without a key),
`LifeCycle` (a reservation and its later revocation), `Shelf` (a stow and a pick, on
a topic with a flat envelope, an unknown type and an unreadable payload of
earlier releases), `Replicas` (two relays, two consumers, two receipts of one
hour) and `GivenUp` (a cycle count whose second row Kafka never takes, two attempts
at most). It checks

* `OneEffectPerKey`, `SameOutcome`: whatever became of earlier attempts, the rows of
  at most one are in the outbox, an attempt that was told "done" has its rows
  there, and two attempts with one body never get different outcomes;
* `NothingLost`: a row is marked published only when its message is in Kafka;
* `OneRelayKeepsOrder`: one relay keeps each key's order through refused sends,
  lost acknowledgements and cut-off passes (ids drawn early included, since a
  later fact's request only starts when the earlier one is committed);
* `ImplementsReport`: the rollup moves like `ReportLedger`, so no duplicate is
  counted and no counter is overwritten;
* `OneLossPerTrouble`: what is read and never counted is at most one message for
  each failure of the projector;
* `WindowsAddUp`, `NeverLooksOlder`: adjoining report windows add up to their union,
  and counting a late event never increases the freshness lag;
* `IInv`: the inductive invariant of section 4.2;
* `EveryRowArrives` (liveness): a committed row reaches Kafka and, on the analytics
  topic, the report. Excepted are rows given up and a projector that was in
  trouble, because its loop does not come back.

Bounds: one failure of a request or relay and one of the projector, batches of
two rows, two ticks to the hour. One failure shows every single point at which
an operation can be cut off; two rows in a batch are the least that can be half
sent; `MaxRow` 6 covers every id a workload can draw.

Fairness: servers, relays and consumers that can do something eventually do
(`Serve`, `Drain`, `Handle`: goroutines and pollers); nothing that fails has to
happen, and a refused row is tried again because the relay polls.

`overtaken` is the disagreement of section 5.

### 3.3 One process (`MCPod`)

`pod` chooses one of these plans: `Cached` (cache mode; a zone loses its hazmat
rating and a location moves while two stows are under way; the reader may fail
or rejoin), `FreshTopic` (cache mode with an empty topic; every failure of start,
configuration, queries and listener, signal and kill), `Asked` (HTTP mode; a failing
facility-layout, callers that go away, and two requests repeated until served),
`Chemicals` (permissive mode; three stows into one bin, a reclassification, and a
signal that stops the process with any of it under way), `Misfit` (a classification
that is refused, failing queries and a signal) and `Pairs` (two stows into one bin, one
plan for every two hazard classes). It checks

* `KnownAtStart`: while the listener is open, nothing is answered from less than
  what facility-layout had published when the process started, and each answer
  is the view at what was read. A rejoined reader is excepted;
* `CaughtUpIsRight`: whatever the order of the partitions, a reader that has read
  everything answers as facility-layout would, after a rejoin too;
* `PlacedByTheBook`: a restricted SKU lies only in a bin that suited it by what
  facility-layout said at some time since the start (cache), or by its answer
  (HTTP), unless the open breaker let this SKU pass to this bin unasked. That a
  breaker was once open excuses nothing else;
* `SegregatedUnlessReclassified`: SKUs the table documented in `segregation.go` keeps
  apart never share a bin unless one was reclassified; the bin's version catches
  stows that race;
* `MatrixIsTable`: the matrix the code builds from the upper triangle of pairs is
  that table, both ways and for every two classes. It does not say that the
  table is the right one: both permit class 4 beside class 5 (section 5);
* `OneProbe`: a half-open breaker has one counted call under way, calls begun
  before the trip notwithstanding;
* `CleanStop`: if no window ran out, no request, relay pass or reader is left when
  the pool is told to close, so that its Close has nothing to wait for;
* `IInv`: the inductive invariant of section 4.3;
* `BootEnds`, `StopEnds` (liveness): a start ends in serving or in an exit, a stop in
  an exit.

Bounds: two zones, two locations, two partitions, up to three messages each;
`MaxCounted` 11 lets a generation of the breaker reach both trip conditions (five in
a row, more than half of ten); `MaxSaves` 1 stops repeating requests once their bin
was saved. The plans keep apart what does not interact, as the cache and the
breaker, which no configuration has together.

Fairness: the steps of `run` itself (`Starting`, `Shutdown`), the relay's passes,
whose queries carry the cancelled context, and `StatementEnds`: a statement that
holds a connection ends, because every connection is opened with
`statement_timeout = '5s'` (`pool.go:42`, `pool.go:74`). None for the rest of a request,
for consumers or for signals. So most steps of a stop end by their windows,
whatever hangs, and the wait for the pool ends because requests that were left
running get no further than the statement they are in: a closing pool gives them
no other connection. The timeout is the database's. If the database cannot be
reached at all, the code waits in pool.Close until it is killed, and `StopEnds` says
nothing. The process may end, so `CHECK_DEADLOCK FALSE`.

### 3.4 Mutants

Every property has a mutant in `PROJECT.json`: an operator that changes a mapped
definition as a plausible bug would (no version guard, a transaction never ended, no rollback, an
event published outside the transaction, a missing status check...), under
which TLC finds the property violated. These operators stand beside the
definitions they change, marked `Mutant:`; no specification uses them.

## 4. The proofs

Each composition has a module with its inductive invariant and one with its
theorems. The invariant of each is first checked by TLC, in the runs of section
3 (`StoreInv` and `OnHandInv` in `entry_points`, `EventsInv` in `resolve`, `HoldsInv` in
`reserve`, `ShelvesInv` in `placement`, `IInv` in `delivery` and `pod`). All theorems hold for every value of the
constants that satisfies the named assumptions, which TLC evaluates in every run.

### 4.1 Stock

`InventoryProofs` proves, for any set of sessions, rows, operations per session,
databases to start from, amounts and bounds:

| theorem | property | meaning |
|---|---|---|
| `InvariantHolds` | | `Spec => []IInv`, the inductive invariant |
| `TypesKept` | `TypeOK` | no interleaving, rollback or crash leaves a row of the wrong kind or a negative quantity |
| `VersionsAreSound` | `StoreInv` | a version tells one content of a row, for the committed row, for open transactions and for copies in memory |
| `ResolutionIsFinal` | `ResolvedOnce` | a resolved reservation never changes status again, whoever races |

Assumptions (named in the modules that declare the constants, evaluated by TLC):
identifier sets are disjoint and units finite (`RowsAssumption`), databases are
typed tables and the id order is strict (`SessionsAssumption`), amounts,
portions and capacities are natural numbers, `Crashable` is a set of sessions.

`TypeOK` alone is not inductive: `Quantity.Sub` stays above zero only because what
is subtracted was checked against the row in memory, and `ResolvedOnce` needs that
a stale copy cannot pass the version guard. `IInv` adds two layers:

* `StoreInv`: `Exclusive` (one open transaction per written row), `Newer` (what it
  has written is newer than the committed row), `Snapshot` (a loaded row is no
  newer than the one its session would see, and equal to it when the versions
  agree) and `WritesActive` (a reservation is rewritten only while it is ACTIVE
  in the committed table);
* `Control(s)`: what the next statement of a session relies on (the reservation
  being resolved was ACTIVE when loaded, the unit in hand allows the pick or
  release, ...), and `TxClosed(s)`: outside a transaction nothing is pending.

The proof has a lemma for each way the store changes (`SaveKeepsStore`,
`CommitKeepsStore`, `RollbackKeepsStore`, `ReadKeepsStore`), one that a session's
step leaves the facts of the others alone (`StepKeepsInvariant`), and one lemma
per action. `ResolvedOnce` follows because a committed reservation changes only
by a commit of a row covered by `WritesActive`, or by a direct Save whose guard
`Snapshot` turns into "the row is still the ACTIVE one I loaded".

`StockProofs` proves what the rows mean to each other, on top of `IInv`:

| theorem | property | inductive invariant | meaning |
|---|---|---|---|
| `ReservedIsOnHand` | `ReservedOnHand` | `OnHandInv` | in any mix of requests, the joined and the unscoped ones included, no unit has more reserved than is on hand |
| `EndingsAreTold` | `OutboxMatches` | `EventsInv` | if `Transactional`: the outbox has exactly the one event of a reservation's end, and none before |
| `ClassesStayApart` | `Segregated` | `SegregationInv` | no two SKUs that conflict are ever committed to one bin |
| `BinsBalance` | `BinLedger` | `ShelvesInv` | the occupancy of a committed bin is the sum of its contents and fits |

It assumes in addition that the service starts on tables it could have left
behind (`DatabasesAssumption`: bins balance, fit and are segregated, no more is
reserved than is on hand, and the reservations are ACTIVE, since the outbox
starts empty). `Transactional` says no session is asked for `mcp_revoke`, whose
events are only logged: with it the statement is false.

The inductive invariants are theorems of their own (`CopiesAreSound`,
`EventsGoWithRows`, `BooksAreKept` for `ShelvesInv`), as runs check them.

The proof of a step is in two parts. `StepShape` reduces every action of a request
to what it does to the tables: `ReadsOnly`, `Ends` (the transaction commits or rolls
back), or one written row (`PicksUnit`, `ReleasesBin`, `Created`, `StowsUnit`, ...), each with
the facts of `IInv` it rests on. Each invariant then has one lemma per shape.

* `OnHandInv` is about every copy of a unit: the committed one, those that open
  transactions have written, those in memory, and the draw that is planned on one.
* `EventsInv` matches the open transaction's events with the rows it has written, so
  that a commit carries the match over and a rollback drops both.
* `SegregationInv` follows a stow: what its check found still holds as long as the
  bin's version is the one it loaded (`StowInv`), so either its guarded Save fails or
  nothing has come into the bin; from then on it holds the bin's lock, and without
  the bin nobody adds a unit (`AddingInv`).
* `BooksInv` says how far a bin is ahead of its contents in the view of the
  transaction that has written it: by what is in hand, the quantity being stowed or
  the pick whose bin comes next. A transaction that has not written a bin has
  changed no quantity in it. Sums over a table's units are counted piece by piece
  (`AmountSplit`, `AmountSame`), because the prover knows cardinalities but no folds.

`HoldsProofs` proves conservation between units and reservations, and the
refinement; their inductive invariant `HoldsInv` is the theorem `TransactionsInStep`:

| theorem | property | if | meaning |
|---|---|---|---|
| `HoldsAreBacked` | `HoldsBacked` | `Transactional`, `[]Unhurried` | each ACTIVE reservation keeps reserved what it holds |
| `NothingIsOversold` | `Ledger!NothingOversold` | the same | all that is held of a unit together is on hand |
| `LedgerImplemented` | `ImplementsLedger` | the same | each commit is one step of `HoldLedger`, or is not seen |
| `HoldsAreExact` | `ReservedIsHeld` | `Transactional`, `NoReserve`, `StartsExact` | what is reserved is just what is held |
| `NothingIsHurried` | `[]Unhurried` | `NoReserve` or `LongLived` | when the second condition above is met |

The conditions are what the code needs, and each has a run of section 5 that
shows what happens without it:

* `Transactional`: no session is asked for `mcp_revoke`, which gives units back
  and resolves its reservation in separate commits (run `mcp_revoke`).
* `[]Unhurried`: no ReserveStock is in the middle of expiring a reservation. Its
  transaction is the middleware's and commits a second release together with the
  409 (run `stale_expiry`). It is a condition on the behaviour, not on a step: the
  other entry points may expire reservations as they like. `NothingIsHurried` gives
  two ways in which a whole service meets it: nobody reserves, or the clock does
  not reach the end of a reservation's life (`Horizon` <= `Timeout`, the initial ones
  included), which is the usual case of a reservation confirmed or revoked in time.
* Exactness asks for no ReserveStock at all, since a draw committed with an error
  stays reserved and is held by nobody (run `stranded_draw`), and for tables that
  are exact to begin with. Holds stay backed all the same, which is why
  `HoldsBacked` and not `ReservedIsHeld` is the first theorem.

`HoldsAssumption` says in addition that reservation identifiers are finitely many
and that what is held in the tables the service starts on is reserved there.

`Backed`, the committed tables' part of `HoldsInv`, is not inductive: between the
release of a unit and the end of its reservation the open transaction sees less
reserved than is held, and what its commit does depends on everything it has
written so far. `HoldsTx` describes that, statement by statement:

* `UnitShifted`: a unit the transaction has written differs from the committed
  one by the share of the reservation in hand, returned, picked or drawn; a unit
  it adds is wholly free. The committed unit cannot have moved meanwhile, because
  the lock is held (`Exclusive`).
* `ResvShifted`: the reservation it has written is the one in hand with its new
  status, or a new ACTIVE one that holds just what was drawn.
* `InStep`: exactly those units of the plan are written that are no longer on the
  list `todo`, and the reservation only when that list is empty. So a commit that
  resolves a reservation has given back all of it, and one that creates it has
  drawn all of it (`GreedyDraws`), while a commit in between is that of an error
  answer, which only strands a draw.

`HoldsShape` sorts the actions by what they do to that description (a request
starts, proceeds, stops, or writes one row), with one lemma for each;
`HoldsAlone` says a step leaves the open transactions of the others alone. A commit
is `CommitResolves`, `CommitCreates` or `CommitAside`, where sums over the holders of
a unit gain or lose one term (`HeldMore`). The steps of the refinement follow from the
same three: `GiveBack` and `TakeOffHand` for a resolution, `Hold` for a creation, with
`OnHandInv` for the guard that what is drawn was free, `PutOnHand` for stock that is
stowed, with `AddingInv`, and a stutter for all others.

### 4.2 Delivery

`DeliveryProofs` proves, for any workloads, requests, keys, histories, numbers of
relays, consumers and partitions, batch sizes, limits on attempts and numbers of
failures:

| theorem | property | meaning |
|---|---|---|
| `InvariantHolds` | `IInv` | the inductive invariant |
| `TypesHold` | `TypeOK` | kinds, and: no row is tried more often than the relay may, no offset runs past its partition |
| `OneEffectHolds` | `OneEffectPerKey` | one key, one effect, whatever is retried, rolled back or left unanswered |
| `SameOutcomeHolds` | `SameOutcome` | one key and body, one outcome |
| `NothingLostHolds` | `NothingLost` | what is marked published is in Kafka |
| `OrderHolds` | `OneRelayKeepsOrder` | one relay that gives up no row keeps each key's order |
| `OneLossHolds` | `OneLossPerTrouble` | events read and not counted are no more than the projector's troubles |
| `WindowsHold` | `WindowsAddUp` | adjoining report windows add up |
| `FreshnessHolds` | `NeverLooksOlder` | a late event does not make the report look older |
| `ReportImplemented` | `ImplementsReport` | the refinement to `ReportLedger`, step by step |

Assumptions: names are strings (`NamesAssumption`), an hour has at least one tick
(`TicksAssumption`), requests publish domain events and depend on requests of their
workload (`RequestsAssumption`), `Absent` is no answer, outcome or message
(`AbsentAssumption`, `NoEntryAssumption`), relays are finitely many, claim at least one
row at a time and every name has a partition (`RelaysAssumption`), what was in the
topic before has ids below those of the outbox (`HistoryAssumption`).

The invariant follows the way of an event:

* *Requests.* `IdsInv`: what a running request has inserted has ids of its own, in
  order, that nobody sees yet; `LeftInv`: with what it has left to insert it makes
  exactly its events; `OrderInv`: a request begins after what it depends on has
  taken effect, so its ids are later.
* *Keys.* `KeysInv`: a key is claimed by one running request at most; until it has
  an outcome nothing of it has taken effect; afterwards every attempt was told
  that outcome, and if it is "done" the rows of exactly one attempt are there.
  `OneEffectPerKey` alone is not inductive: it says nothing of a request that has
  claimed a key and not yet committed.
* *Relays.* `PassesInv`: passes hold disjoint rows that are neither published nor
  given up, and what a pass calls sent is in Kafka, which makes its commit safe;
  `ClaimsInOrder`: the only relay holds no row without the earlier ones of its
  key, from which the order in Kafka follows although ids become visible out of
  order; `LogInv`: what Kafka has is a row of the outbox, in its key's partition,
  or was there before.
* *Projector.* `ProjectorInv`: what a consumer has at hand was read from below an
  offset, what is marked was read, and the set `Lost` of events that were read, are
  not counted and that nobody will count any more is no larger than `trouble`.
  `OneLossPerTrouble` is about `Uncounted`, which shrinks and grows while messages
  are at hand; `Lost` only grows, by one, where a consumer fails.

The refinement has one step per action: requests tell, `ApplyDelta` counts, all
others stutter; that the counted event was told and not yet counted comes from
`LogInv` and `ProjectorInv`.

### 4.3 One process

`PodProofs` proves, for any plans, zones, locations, SKUs, requests, partitions and
messages:

| theorem | property | meaning |
|---|---|---|
| `InvariantHolds` | `IInv` | the inductive invariant |
| `TypesHold` | `TypeOK` | phases, requests, cache, breaker and bins keep their kinds |
| `OneProbeHolds` | `OneProbe` | a half-open breaker has one counted call under way |
| `CleanStopHolds` | `CleanStop` | an unhurried stop tells the pool to close when nobody is left to use it |
| `KnownAtStartHolds` | `KnownAtStart` | nothing is answered from less than was published at the start |
| `CaughtUpHolds` | `CaughtUpIsRight` | a reader that has caught up is right, after a rejoin too |
| `PlacedByTheBookHolds` | `PlacedByTheBook` | a restricted SKU lies only where facility-layout would have it, or where the breaker let it pass unasked |
| `SegregationHolds` | `SegregatedUnlessReclassified` | SKUs the table keeps apart share no bin unless one was reclassified |
| `MatrixHolds` | `MatrixIsTable` | the matrix of pairs is the table documented beside it; whether that table is right is not said |

Assumptions: names are finitely many and have partitions (`NamesAssumption`), a
plan's messages are in the partitions of their keys, its requests stow or
classify SKUs it knows, at bins it knows (`PlansAssumption`), `Absent` is no message
(`AbsentAssumption`), the bound `MaxCounted` is positive (`CountAssumption`).

The invariant has a part per concern. `BreakerInv` counts: failures and calls
under way are no more than the requests of the generation. `CacheInv` says of
*each zone and slot* that it is cached as some prefix of its partition tells it,
the prefix read so far unless the reader has rejoined; the two maps together
need not be a view of any one moment, which is why `KnownAtStart` and
`CaughtUpIsRight` are not inductive. `ReplayInv`: a partition no longer waited for has
been replayed. `StartInv` and `StopInv` say what runs in which phase. `PlacementInv`
follows a stow: what it has read of its SKU still holds, and what it has decided
was allowed by a view since the start, by facility-layout's answer, or is recorded
as let pass unasked. `SegregationInv` is the optimistic argument:
a bin still at the version a stow has read has the contents it has checked.

Two corrections of the model came out of the proofs. A repeated request was
allowed to be a classification, after which the reclassified SKU was
reclassified back and dropped out of the exception of
`SegregatedUnlessReclassified` while its bin kept the mix: the invariant was not
inductive for plans with such requests. `Again` repeats stows, which is what it is
there for, and a plan that classifies twice has two requests. And the matrix is
built over ordered pairs, as the code's map is, not over sets of two.

### 4.4 What is only model-checked

The liveness properties `EveryRequestAnswered`, `EveryRowArrives`, `BootEnds` and
`StopEnds`: fairness and ENABLED are beyond the prover. Every safety invariant,
action property and refinement that a passing run checks has a theorem. The
violations of section 5 are statements of the documentation that the code does not
keep, and are left to TLC's counterexamples.

## 5. Disagreements between code and documentation

Each is a run TLC ends with a counterexample.

* `stranded_draw`. ReserveStock fails half-way with a conflict; the idempotency
  middleware commits the 409 together with the draw already saved. The comment
  of `reserve_stock.go:156` says a later failure never leaves a partial draw.
* `stale_expiry`. The lazy expiry inside ReserveStock finds its reservation
  already expired by another request, after it has released the units; the 409
  commits the second release (`reservation_expiry.go:20` says it cannot).
* `mcp_revoke`. The MCP revocation has no unit of work: a lost race leaves units
  released that another reservation still holds (`tools.go:30` calls it safe by
  construction).
* `lost_found`. `Pick` accepts an UNLOCATED unit and leaves it PICKED, which is
  usable again (`usable-inventory.md:45`: a lost unit must never be promised).
* `created_twice`. The second registration of a new bin matches version 1 of the
  row the first has just inserted; both report BinCreated (`register_bin.go:17`).
* `overtaken`. Two replicas of `cmd/inventory` drain one outbox; SKIP LOCKED lets the
  second send a reservation's revocation before the first has sent the
  reservation (`publisher.go:119`: a consumer never observes them out of order;
  `outbox_relay.go:44`: per-key ordering is never violated). With one replica the
  order holds (`OneRelayKeepsOrder`).
Met while modelling and contained in the models, but without a run of their own:

* *A stow while facility-layout cannot be asked.* Two ADRs contradict each other, and
  the code does what each of them forbids.
  While the breaker is open (`breaker.go:112`) its fallback knows nothing of any
  location, and a hazmat SKU is stowed into any bin. ADR 0009 (line 144): "a hazmat
  item cannot be stowed blind when the safety check itself is unavailable".
  While the breaker is closed, a call that fails is an error (`breaker.go:115-125`), and
  `stow_stock.go:130` refuses the stow of a restricted SKU. ADR 0020 (line 94): "a
  missing or failed lookup must never block a stow"; `breaker.go:9-12` calls its
  fallback the one there already was for a transport error, and there is none.
  The code follows ADR 0009 until the breaker trips and ADR 0020 from then on.
  `PlacedByTheBook` holds the code to ADR 0009 except for what the open breaker has
  let pass, stow by stow; the plan `Asked` has both cases.
* *Class 5 beside class 4.* ADR 0010 (lines 21-24) calls an oxidizer in one bin with a
  flammable solid "a real fire-safety violation" which the feature is there to
  notice. Neither the pairs of `segregation.go` (142-144) nor the table above them
  (102-103, and the note at 120) keep the two apart. `MatrixIsTable` and
  `SegregatedUnlessReclassified` say that pairs and table agree and are kept; what
  the table permits, this pair included, they permit too (the plan of `Pairs` with
  classes 4 and 5 ends with both in one bin).
* *One commit per pass.* A relay pass commits its marks once, at its end or at the
  first row that fails (`outbox_relay.go:181`, `193`). Cut off in between it loses all of
  them, and every row it had sent is sent again. ADR 0017 (line 145) says each
  success is committed immediately, and `outbox_relay.go:42` that the rows before the
  failing one "are already committed". Order and delivery are not touched, only
  the number of repeats.
* *The stop is longer than its grace period.* Its windows are 10 s for requests
  (`main.go:265`), 10 s for the cache's consumer (`276`), 10 s for the relay (`407`) and 5 s
  for the telemetry (`77`): 35 s, the wait for the pool not counted. ADR 0020 (lines
  246-250) and `values.yaml:229` count one of the two drain windows and grant 30. The
  models have no clock; `Kill` may come at any step.

* `analytics_consumer.go:69` promises each event exactly once; a failure between the
  offset commit, the mark and the rollup loses it. `OneLossPerTrouble` states what
  the code does keep.
* `bootretry/retry.go:31` speaks of about 31 seconds of retries; five attempts have
  four pauses, 1+2+4+8 = 15 seconds.
* The comment at `facilitycache/consumer.go:482` says a repeated event re-applies
  harmlessly. After a rejoin older events overwrite newer ones until the reader
  has caught up; `CaughtUpIsRight` holds, `KnownAtStart` is suspended.

## 6. What is not modelled

`PROJECT.json` lists every component with its status. Not modelled and not
planned: HTTP decoding and formatting, telemetry, the in-memory adapters (maps
without versions or transactions, for development) and the mode without
`DATABASE_URL` that uses them, the read-only queries and the MCP read tools,
prompts and resources: they change no state, or only format it. Of the reports
service the parameters and the wiring are left out. The boot sequences of
`cmd/inventory-projector`, `cmd/inventory-reports` and `cmd/mcp` repeat that of
`cmd/inventory`. Between the relay and the pool a stop closes the relay's sink and
the Kafka writers (kafka-go, with waits of its own), which is left out: nobody uses
them by then unless the relay's window ran out. The size of the pool (`MaxConns`)
is left out too: a request that has to wait for a connection is one that hangs
before its statement. Routing of traffic by Kubernetes is outside: a request may arrive
as long as the listener is open, which includes the time after readiness was
withdrawn. Expiry of idempotency keys does not exist in the code.

## 7. The plan

Everything of the plan that can be modelled is, and every safety property the
passing runs check is proved. What is left to TLC is liveness, for the reason in
4.4.
