--------------------------- MODULE RetryingClient ---------------------------
(***************************************************************************)
(* RetryingClient::execute (src/network/retry.rs): dispatches a request    *)
(* through an executor and replays it while the outcome and the request    *)
(* allow it.  The executor and the server behind it are the environment.   *)
(***************************************************************************)
EXTENDS Backoff, Sequences

CONSTANTS Policies,  \* the RetryPolicy values the builder may have made
          Asks,      \* the delays a server may ask for in Retry-After
          MaxTime    \* bound on the clock, for TLC; see Tick

\* network: connect errors and timeouts are retried; replay: so are methods
\* that are not idempotent; watched: a CancellationToken is attached.
PolicyType == [attempts: 1..MaxWord, network: BOOLEAN, replay: BOOLEAN,
               base: Nat, max: Nat, jitter: BOOLEAN, watched: BOOLEAN]

ASSUME PoliciesType == Policies \subseteq PolicyType
ASSUME AsksType == Asks \subseteq Nat

\* cloneable: try_clone succeeds, the body is not a stream.
Requests == [idempotent: BOOLEAN, cloneable: BOOLEAN]

\* Why reqwest fails, and the two kinds of errors made of it.
Failures == {"connect", "timeout", "other"}
Classify(e) == IF e \in {"connect", "timeout"} THEN "network" ELSE "http"

\* What a dispatch may come to.  "status" is a response whose status is one of
\* retry_statuses, with the integer of its Retry-After header if it has one;
\* "good" is any other response.
Outcomes == [kind: {"good"} \cup {Classify(e) : e \in Failures}, after: {{}}]
              \cup [kind: {"status"}, after: {{}} \cup {{s} : s \in Asks}]

VARIABLES policy, request,
          pc,         \* where execute() is
          now,        \* the clock
          cancelled,  \* the CancellationToken
          attempt,    \* dispatches so far
          until,      \* deadline of the sleep
          seen,       \* every outcome so far; the last one is `last`
          result      \* "returned": execute() returned `last`; or "unwound"

\* History variables: the instant of the last outcome, where execute() was when
\* the token fired, and the dispatches made after that.
VARIABLES answeredAt, cancelPc, late

vars == <<policy, request, pc, now, cancelled, attempt, until, seen, result,
          answeredAt, cancelPc, late>>

Fired == policy.watched /\ cancelled

Init ==
  /\ policy \in Policies /\ request \in Requests
  /\ pc = "start" /\ now = 0 /\ cancelled \in BOOLEAN
  /\ attempt = 0 /\ until = 0 /\ seen = <<>> /\ result = "none"
  /\ answeredAt = 0 /\ late = 0
  /\ cancelPc = IF cancelled THEN "start" ELSE "none"

-----------------------------------------------------------------------------
(* Variants with a bug the code does not have; Spec does not use them.       *)

\* A policy that replays a request whatever its method.
RetryAnyMethod(o) == o.kind = "status" \/ (o.kind = "network" /\ policy.network)
\* The server's delay is only a hint for the backoff.
DelaysWithoutHeader(o) == Delays(policy.base, policy.max, attempt, policy.jitter)
\* The backoff is a plain sleep.
WakeAnyway ==
  /\ pc = "sleeping" /\ now >= until /\ pc' = "start" /\ UNCHANGED result
  /\ UNCHANGED <<policy, request, now, cancelled, attempt, until, seen, answeredAt,
                 cancelPc, late>>
\* Errors leave the loop at once, as they do under the operator `?`.
AgainUnlessError(o) ==
  /\ request.idempotent \/ policy.replay
  /\ o.kind = "status" /\ attempt # policy.attempts /\ request.cloneable

-----------------------------------------------------------------------------
(* execute. *)

\* should_retry
ShouldRetry(o) ==
  /\ request.idempotent \/ policy.replay
  /\ o.kind = "status" \/ (o.kind = "network" /\ policy.network)

Last == attempt = policy.attempts

\* The conditions under which the loop comes to its next dispatch.
Again(o) == ~Last /\ ShouldRetry(o) /\ request.cloneable

\* compute_delay: the server's delay goes before the backoff, capped and without
\* jitter.
DelaysAfter(o) ==
  IF o.after # {} THEN {MinOf(s, policy.max) : s \in o.after}
  ELSE Delays(policy.base, policy.max, attempt, policy.jitter)

\* inner.execute(..), the first one before the loop.
Dispatch ==
  /\ pc = "start" /\ pc' = "sent"
  /\ attempt' = attempt + 1
  /\ late' = IF cancelled THEN late + 1 ELSE late
  /\ UNCHANGED <<policy, request, now, cancelled, until, seen, result, answeredAt, cancelPc>>

Observe(o) == seen' = Append(seen, o) /\ answeredAt' = now

Return(o) ==
  /\ pc = "sent" /\ ~Again(o)
  /\ Observe(o)
  /\ pc' = "done" /\ result' = "returned"
  /\ UNCHANGED <<policy, request, now, cancelled, attempt, until, cancelPc, late>>

\* A zero delay goes straight to the next dispatch.
BackOff(o) ==
  /\ pc = "sent" /\ Again(o)
  /\ Observe(o)
  /\ \E d \in DelaysAfter(o) : /\ until' = now + d
                               /\ pc' = IF d = 0 THEN "start" ELSE "sleeping"
  /\ UNCHANGED <<policy, request, now, cancelled, attempt, result, cancelPc, late>>

\* The executor is awaited inline: its panic unwinds execute().
ExecutorPanics ==
  /\ pc = "sent" /\ pc' = "done" /\ result' = "unwound"
  /\ UNCHANGED <<policy, request, now, cancelled, attempt, until, seen, answeredAt,
                 cancelPc, late>>

\* sleep_or_cancel: the token wins when both are ready.
Wake ==
  /\ pc = "sleeping"
  /\ \/ Fired /\ pc' = "done" /\ result' = "returned"
     \/ ~Fired /\ now >= until /\ pc' = "start" /\ UNCHANGED result
  /\ UNCHANGED <<policy, request, now, cancelled, attempt, until, seen, answeredAt,
                 cancelPc, late>>

-----------------------------------------------------------------------------
(* The environment. *)

Cancel ==
  /\ ~cancelled /\ cancelled' = TRUE /\ cancelPc' = pc
  /\ UNCHANGED <<policy, request, pc, now, attempt, until, seen, result, answeredAt, late>>

Tick ==
  /\ now < MaxTime /\ now' = now + 1
  /\ UNCHANGED <<policy, request, pc, cancelled, attempt, until, seen, result,
                 answeredAt, cancelPc, late>>

Answer == \E o \in Outcomes : Return(o) \/ BackOff(o)

Next == Dispatch \/ Answer \/ ExecutorPanics \/ Wake \/ Cancel \/ Tick

\* The caller's task is polled, and the executor answers: nothing in execute()
\* stops a dispatch that hangs.  Nothing says that time passes.
Fairness == WF_vars(Dispatch \/ Answer \/ Wake)

Spec == Init /\ [][Next]_vars /\ Fairness
-----------------------------------------------------------------------------
(* Properties. *)

\* Types, and the budget of dispatches (network/retry.rs:81, 229).
TypeOK ==
  /\ policy \in Policies /\ request \in Requests
  /\ pc \in {"start", "sent", "sleeping", "done"}
  /\ now \in Nat /\ cancelled \in BOOLEAN /\ until \in Nat /\ answeredAt \in Nat
  /\ attempt \in 0..policy.attempts
  /\ seen \in Seq(Outcomes)
  /\ Len(seen) = IF pc = "sent" \/ result = "unwound" THEN attempt - 1 ELSE attempt
  /\ result \in {"none", "returned", "unwound"}
  /\ late \in 0..attempt

\* No dispatch beyond the budget, and one only of a request that must not be
\* replayed, whatever comes back (lines 127-136, 166-168): its method is not
\* idempotent and the policy does not opt in, or its body cannot be cloned.
DispatchesBounded ==
  /\ attempt <= policy.attempts
  /\ (~request.idempotent /\ ~policy.replay) \/ ~request.cloneable => attempt <= 1

\* execute() returns the first outcome that is not retryable or the last one of
\* its budget (lines 215-221); it stops short of both only for a body that
\* cannot be cloned or a token that fired.
OutcomeExplained ==
  /\ \A i \in 1..Len(seen) : i < Len(seen) => ShouldRetry(seen[i])
  /\ result = "returned" =>
       \/ ~ShouldRetry(seen[Len(seen)]) \/ Last
       \/ ~request.cloneable \/ Fired

\* A replay leaves the server the time it asked for, up to the policy's cap and
\* whatever the jitter (lines 144-156, 275-280).
HonoursServer ==
  [][pc = "start" /\ pc' = "sent" /\ seen # <<>> =>
       \A s \in seen[Len(seen)].after : now - answeredAt >= MinOf(s, policy.max)]_vars

\* No dispatch is made after the token fired (lines 192-196), but for the one
\* that execute() was about to make, as long as no delay is zero: neither one
\* of the policy nor one the server asked for.
AlwaysSleeps ==
  /\ ~policy.jitter /\ policy.base > 0 /\ policy.max > 0
  /\ \A i \in 1..Len(seen) : 0 \notin seen[i].after
NoLateDispatch ==
  policy.watched /\ AlwaysSleeps => late = 0 \/ (late = 1 /\ cancelPc = "start")

\* Once an attached token fires execute() returns without waiting out a delay,
\* however long the server asked for, provided the executor answers.
CancelStops == Fired ~> pc = "done"
=============================================================================
