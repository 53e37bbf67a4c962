---------------------------- MODULE KeyedRequests ----------------------------
(***************************************************************************)
(* Requests that publish events, as the outbox sees them: each runs in one *)
(* transaction that inserts its outbox rows and commits or not as a whole. *)
(*                                                                         *)
(* POST /stock/receive and POST /reservations are behind the idempotency   *)
(* middleware, which claims the caller's key in the same transaction,      *)
(* stores the response under the key and answers only after the commit.    *)
(* Two requests with one key are a request and its retry, sent after a     *)
(* timeout while the first may still be running.  The other operations     *)
(* carry no key and run in the unit of work of their use case.             *)
(*                                                                         *)
(* What the use cases do to stock is in the Inventory modules: a request   *)
(* here is the events it publishes, in order, and the answer it gets.      *)
(***************************************************************************)
EXTENDS EventCatalog

CONSTANTS
    Workloads,  \* the requests and bounds a behaviour may be given
    Absent      \* no key, no row, no answer yet

Answers == {"key required", "key reused", "done", "refused", "error"}
Outcomes == [hash : Seq(DomainEvents), answer : {"done", "refused"}]

ASSUME RequestsAssumption == \A w \in Workloads :
    /\ w.mishaps \in Nat
    /\ \A a \in DOMAIN w.requests :
          /\ w.requests[a].keyed \in BOOLEAN
          /\ w.requests[a].events \in Seq(DomainEvents)
          /\ w.requests[a].after \subseteq DOMAIN w.requests

ASSUME AbsentAssumption == Absent \notin Answers /\ Absent \notin Outcomes

VARIABLES
    work,       \* the workload of this behaviour, chosen by Init
    keys,       \* idempotency_keys: the committed row of each key
    outbox,     \* outbox_events: the committed rows by id
    nextId,     \* the id sequence of outbox_events
    req,        \* per request: its step, what it has left to insert, its rows
    mishaps     \* failures of requests and relays so far

requestVars == <<work, keys, outbox, nextId, req, mishaps>>

Requests == DOMAIN work.requests
Keyed(a) == work.requests[a].keyed
KeyOf(a) == work.requests[a].key
Events(a) == work.requests[a].events
Keys == {KeyOf(a) : a \in Requests} \ {Absent}

(* Bound: the failures of requests and relays in one behaviour.            *)
Mishap == mishaps < work.mishaps /\ mishaps' = mishaps + 1

(* The rows a sequence of events is encoded as.                            *)
Rows(events) ==
    LET upTo[i \in 0 .. Len(events)] ==
            IF i = 0 THEN <<>> ELSE upTo[i - 1] \o Encoded(events[i])
    IN  upTo[Len(events)]

RowsOf(a) == {i \in DOMAIN outbox : outbox[i].by = a}

Idle == [step |-> "idle", todo |-> <<>>, rows |-> <<>>, answer |-> Absent]
Running(a) == req[a].step = "running"

(* The caller sends a once it has seen what a depends on take effect.      *)
Due(a) ==
    /\ req[a].step = "idle"
    /\ \A b \in work.requests[a].after : RowsOf(b) # {}

Run(a) ==
    /\ req' = [req EXCEPT ![a] = [@ EXCEPT !.step = "running", !.todo = Rows(Events(a))]]
    /\ UNCHANGED <<work, keys, outbox, nextId, mishaps>>

Answer(a, answer) == req' = [req EXCEPT ![a] = [Idle EXCEPT !.step = "answered", !.answer = answer]]

-----------------------------------------------------------------------------
(* Before the handler *)

Start(a) == Due(a) /\ ~Keyed(a) /\ Run(a)

RequireKey(a) ==
    /\ Due(a) /\ Keyed(a) /\ KeyOf(a) = Absent
    /\ Answer(a, "key required")
    /\ UNCHANGED <<work, keys, outbox, nextId, mishaps>>

(* INSERT ... ON CONFLICT DO NOTHING waits while another open transaction  *)
(* has inserted the key.                                                   *)
Claimed(k) == \E b \in Requests : Running(b) /\ Keyed(b) /\ KeyOf(b) = k

(* Mutant: the insert does not wait for the transaction that holds the key. *)
ClaimAnyway(a) ==
    /\ Due(a) /\ Keyed(a) /\ KeyOf(a) # Absent
    /\ keys[KeyOf(a)] = Absent
    /\ Run(a)

Claim(a) ==
    /\ Due(a) /\ Keyed(a) /\ KeyOf(a) # Absent
    /\ ~Claimed(KeyOf(a)) /\ keys[KeyOf(a)] = Absent
    /\ Run(a)

(* The hash covers the body; a stored response is sent as it was.          *)
Replay(a) ==
    /\ Due(a) /\ Keyed(a) /\ KeyOf(a) # Absent
    /\ ~Claimed(KeyOf(a)) /\ keys[KeyOf(a)] # Absent
    /\ LET row == keys[KeyOf(a)]
       IN  Answer(a, IF row.hash # Events(a) THEN "key reused" ELSE row.answer)
    /\ UNCHANGED <<work, keys, outbox, nextId, mishaps>>

-----------------------------------------------------------------------------
(* The handler and the commit *)

(* Mutant: the id is not drawn from the sequence.                          *)
InsertAtSameId(a) ==
    /\ Running(a) /\ req[a].todo # <<>>
    /\ req' = [req EXCEPT ![a].todo = Tail(@),
                          ![a].rows = Append(@, [id |-> nextId, msg |-> Head(req[a].todo)])]
    /\ UNCHANGED <<work, keys, outbox, nextId, mishaps>>

Insert(a) ==
    /\ Running(a) /\ req[a].todo # <<>>
    /\ req' = [req EXCEPT ![a].todo = Tail(@),
                          ![a].rows = Append(@, [id |-> nextId, msg |-> Head(req[a].todo)])]
    /\ nextId' = nextId + 1
    /\ UNCHANGED <<work, keys, outbox, mishaps>>

(* The inserted rows become visible, and with them the outcome of the key. *)
ShowRows(a) ==
    LET row == [i \in {req[a].rows[n].id : n \in DOMAIN req[a].rows} |->
                   [msg |-> (CHOOSE x \in {req[a].rows[n] : n \in DOMAIN req[a].rows} : x.id = i).msg,
                    by |-> a, published |-> FALSE, attempts |-> 0]]
    IN  outbox' = [i \in DOMAIN outbox \cup DOMAIN row |->
                     IF i \in DOMAIN row THEN row[i] ELSE outbox[i]]

(* Mutant: the outcome is not stored under the key.                        *)
RecordNothing(a, answer) == keys' = keys

RecordOutcome(a, answer) ==
    keys' = IF Keyed(a)
            THEN [keys EXCEPT ![KeyOf(a)] = [hash |-> Events(a), answer |-> answer]] ELSE keys

CommitTx(a, answer) == ShowRows(a) /\ RecordOutcome(a, answer)

Respond(a) ==
    /\ Running(a) /\ req[a].todo = <<>>
    /\ CommitTx(a, "done")
    /\ Answer(a, "done")
    /\ UNCHANGED <<work, nextId, mishaps>>

(* The use case returns an error before its last event.  Behind the        *)
(* middleware that is a response like any other: it is stored, and what    *)
(* was inserted before it commits with it.                                 *)
Refuse(a) ==
    /\ Running(a) /\ work.requests[a].mayRefuse
    /\ \E n \in 0 .. Len(Events(a)) - 1 : Len(req[a].rows) = Len(Rows(SubSeq(Events(a), 1, n)))
    /\ IF Keyed(a) THEN CommitTx(a, "refused") ELSE UNCHANGED <<keys, outbox>>
    /\ Answer(a, "refused")
    /\ UNCHANGED <<work, nextId, mishaps>>

(* A panic, a failed statement, a cancelled request or the end of the      *)
(* process: nothing of the transaction stays but the ids it has drawn.     *)
Abort(a) ==
    /\ Running(a)
    /\ Mishap
    /\ Answer(a, "error")
    /\ UNCHANGED <<work, keys, outbox, nextId>>

(* The commit took effect but its acknowledgement was lost: the client is  *)
(* told of an internal error.                                              *)
CommitUnknown(a) ==
    /\ Running(a) /\ req[a].todo = <<>>
    /\ Mishap
    /\ CommitTx(a, "done")
    /\ Answer(a, "error")
    /\ UNCHANGED <<work, nextId>>

RequestInit ==
    /\ work \in Workloads
    /\ keys = [k \in Keys |-> Absent]
    /\ outbox = <<>>
    /\ nextId = 1
    /\ req = [a \in Requests |-> Idle]
    /\ mishaps = 0

RequestNext == \E a \in Requests :
    \/ Start(a) \/ RequireKey(a) \/ Claim(a) \/ Replay(a)
    \/ Insert(a) \/ Respond(a) \/ Refuse(a) \/ Abort(a) \/ CommitUnknown(a)

(* What a server does for the requests it has received, failures apart.    *)
Serve == \E a \in Requests :
    Start(a) \/ RequireKey(a) \/ Claim(a) \/ Replay(a) \/ Insert(a) \/ Respond(a)

-----------------------------------------------------------------------------
(* Correctness *)

(* However often a keyed request is sent, and whatever became of the       *)
(* earlier attempts, the rows of at most one attempt are in the outbox,    *)
(* and once any attempt was told it is done they are all there.            *)
OneEffectPerKey == \A k \in Keys :
    LET of(a) == Keyed(a) /\ KeyOf(a) = k
    IN  /\ \A a, b \in Requests : of(a) /\ of(b) /\ RowsOf(a) # {} /\ RowsOf(b) # {} => a = b
        /\ \A a \in Requests : of(a) /\ req[a].answer = "done" =>
              \E b \in Requests : of(b) /\ Cardinality(RowsOf(b)) = Len(Rows(Events(a)))

(* Two attempts with one key and one body never get different outcomes,    *)
(* an error excepted, which tells the caller nothing.                      *)
SameOutcome == \A a, b \in Requests :
    /\ Keyed(a) /\ Keyed(b) /\ KeyOf(a) = KeyOf(b) /\ Events(a) = Events(b)
    /\ {req[a].answer, req[b].answer} \subseteq {"done", "refused"}
    => req[a].answer = req[b].answer
=============================================================================
