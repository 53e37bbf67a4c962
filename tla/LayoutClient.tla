---------------------------- MODULE LayoutClient ----------------------------
(***************************************************************************)
(* Asking facility-layout over HTTP about a location: up to three attempts *)
(* that count as one call of the circuit breaker.  The breaker itself is   *)
(* the gobreaker library with the settings of this service.                *)
(***************************************************************************)
EXTENDS ProductRules

CONSTANT MaxCounted     \* bound on the calls counted in one generation

ASSUME CountAssumption == MaxCounted \in Nat \ {0}

VARIABLES
    breaker,    \* its state and its counts since the generation began
    calls       \* per caller: the attempts of its call in progress

layoutVars == <<breaker, calls>>

MaxRetryAttempts == 3
MaxRequests == 1
ConsecutiveLimit == 5
MinRequestVolume == 10

NoCall == [attempts |-> 0, current |-> FALSE]
Calling(q) == calls[q].attempts > 0

LayoutInit(callers) ==
    /\ breaker = [state |-> "closed", requests |-> 0, failures |-> 0, inARow |-> 0]
    /\ calls = [q \in callers |-> NoCall]

-----------------------------------------------------------------------------
(* The breaker                                                             *)

(* Mutant: in the half-open state everyone may try.                        *)
AdmitsAll == breaker.state # "open" /\ breaker.requests < MaxCounted

Admits ==
    \/ breaker.state = "closed" /\ breaker.requests < MaxCounted
    \/ breaker.state = "half-open" /\ breaker.requests < MaxRequests

Rejects ==
    \/ breaker.state = "open"
    \/ breaker.state = "half-open" /\ breaker.requests >= MaxRequests

ReadyToTrip(b) ==
    \/ b.inARow >= ConsecutiveLimit
    \/ b.requests >= MinRequestVolume /\ 2 * b.failures > b.requests

(* Counts start afresh, and the calls in progress are no longer counted.   *)
NewGeneration(state, done) ==
    /\ breaker' = [state |-> state, requests |-> 0, failures |-> 0, inARow |-> 0]
    /\ calls' = [q \in DOMAIN calls |-> IF q \in done THEN NoCall ELSE [calls[q] EXCEPT !.current = FALSE]]

Counted(b, q) == breaker' = b /\ calls' = [calls EXCEPT ![q] = NoCall]

OnSuccess(q) ==
    IF breaker.state = "half-open" THEN NewGeneration("closed", {q})
    ELSE Counted([breaker EXCEPT !.inARow = 0], q)

OnFailure(q) ==
    LET b == [breaker EXCEPT !.failures = @ + 1, !.inARow = @ + 1]
    IN  IF breaker.state = "half-open" \/ ReadyToTrip(b) THEN NewGeneration("open", {q}) ELSE Counted(b, q)

(* A call its caller has cancelled is neither; whether it still counts as  *)
(* a request is left open.                                                 *)
OnExclusion(q) == \E n \in {0, 1} : Counted([breaker EXCEPT !.requests = @ - n], q)

AfterRequest(q, outcome) ==
    IF ~calls[q].current THEN Counted(breaker, q)
    ELSE CASE outcome = "success" -> OnSuccess(q)
           [] outcome = "failure" -> OnFailure(q)
           [] outcome = "excluded" -> OnExclusion(q)

(* The interval over which a closed breaker counts has ended.              *)
IntervalEnds ==
    /\ breaker.state = "closed" /\ breaker.requests > 0
    /\ NewGeneration("closed", {})

CooldownEnds ==
    /\ breaker.state = "open"
    /\ NewGeneration("half-open", {})

-----------------------------------------------------------------------------
(* A call *)

BeginCall(q) ==
    /\ Admits
    /\ breaker' = [breaker EXCEPT !.requests = @ + 1]
    /\ calls' = [calls EXCEPT ![q] = [attempts |-> 1, current |-> TRUE]]

(* A transport error, a body that cannot be read or a status other than    *)
(* 200 and 404: the next attempt follows after a backoff.                  *)
Retry(q) ==
    /\ Calling(q) /\ calls[q].attempts < MaxRetryAttempts
    /\ calls' = [calls EXCEPT ![q].attempts = @ + 1]
    /\ UNCHANGED breaker

(* An answer: the location's attributes, or that it is not modelled.       *)
Answered(q) == Calling(q) /\ AfterRequest(q, "success")

(* The last attempt has failed, or the deadline has come before it.        *)
Failed(q) == Calling(q) /\ AfterRequest(q, "failure")

Cancelled(q) == Calling(q) /\ AfterRequest(q, "excluded")

-----------------------------------------------------------------------------
(* A half-open breaker has at most one call under way to find out with.    *)
OneProbe == breaker.state = "half-open" => Cardinality({q \in DOMAIN calls : calls[q].current}) <= 1
=============================================================================
