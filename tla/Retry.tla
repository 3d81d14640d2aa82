------------------------------- MODULE Retry -------------------------------
(***************************************************************************)
(* Retry::run_if (src/concurrency/retry.rs): up to max_attempts calls of   *)
(* op, with an interruptible sleep between two of them.  The predicate     *)
(* should_retry is part of the outcome of an attempt: an error is          *)
(* "retryable" when the predicate accepts it and "fatal" when it does not. *)
(***************************************************************************)
EXTENDS Backoff, Sequences

CONSTANTS Policies,  \* the Retry values the builder may have made
          MaxTime    \* bound on the clock, for TLC; see Tick

\* watched: a CancellationToken is attached.
PolicyType == [attempts: 1..MaxWord, base: Nat, max: Nat, jitter: BOOLEAN, watched: BOOLEAN]

ASSUME PoliciesType == Policies \subseteq PolicyType

VARIABLES policy,     \* self
          pc,         \* where run_if() is
          now,        \* the clock
          cancelled,  \* the CancellationToken
          attempt,    \* the attempt that runs, or ran last
          until,      \* deadline of the backoff sleep
          result      \* what run_if() returned; "unwound": op panicked

\* History variables: the errors so far, where run_if() was when the token
\* fired, and how many attempts began after that.
VARIABLES errors, cancelPc, late

vars == <<policy, pc, now, cancelled, attempt, until, result,
          errors, cancelPc, late>>

Fired == policy.watched /\ cancelled     \* self.cancelled()

Init ==
  /\ policy \in Policies
  /\ pc = "enter" /\ now = 0 /\ cancelled \in BOOLEAN
  /\ attempt = 0 /\ until = 0 /\ result = "none"
  /\ errors = <<>> /\ late = 0
  /\ cancelPc = IF cancelled THEN "enter" ELSE "none"

Return(r) == pc' = "done" /\ result' = r

-----------------------------------------------------------------------------
(* Variants with a bug the code does not have; Spec does not use them.       *)

\* The backoff is a plain sleep.
SleepThrough ==
  /\ pc = "sleeping" /\ now >= until /\ pc' = "start" /\ UNCHANGED result
  /\ UNCHANGED <<policy, now, cancelled, attempt, until, errors, cancelPc, late>>
\* Every error is wrapped, whatever the predicate says.
RefuseWrapped ==
  /\ pc = "call"
  /\ Return("exhausted")
  /\ errors' = Append(errors, "fatal")
  /\ UNCHANGED <<policy, now, cancelled, attempt, until, cancelPc, late>>
\* The token is not read before the first attempt.
EnterBlindly ==
  /\ pc = "enter" /\ pc' = "start" /\ UNCHANGED result
  /\ UNCHANGED <<policy, now, cancelled, attempt, until, errors, cancelPc, late>>

-----------------------------------------------------------------------------
(* run_if. *)

Last == attempt = policy.attempts

\* What compute_delay may return after this attempt.
BackoffDelays == Delays(policy.base, policy.max, attempt, policy.jitter)

Enter ==
  /\ pc = "enter"
  /\ IF Fired THEN Return("exhausted") ELSE pc' = "start" /\ UNCHANGED result
  /\ UNCHANGED <<policy, now, cancelled, attempt, until, errors, cancelPc, late>>

\* op(attempt), the last one after the loop.
Call ==
  /\ pc = "start" /\ pc' = "call"
  /\ attempt' = attempt + 1
  /\ late' = IF cancelled THEN late + 1 ELSE late
  /\ UNCHANGED <<policy, now, cancelled, until, result, errors, cancelPc>>

Succeed ==
  /\ pc = "call" /\ Return("ok")
  /\ UNCHANGED <<policy, now, cancelled, attempt, until, errors, cancelPc, late>>

\* op is awaited inline: its panic unwinds run_if.
OpPanics ==
  /\ pc = "call" /\ Return("unwound")
  /\ UNCHANGED <<policy, now, cancelled, attempt, until, errors, cancelPc, late>>

\* A non-retryable error is returned unchanged, in the loop and after it.
Refuse ==
  /\ pc = "call"
  /\ Return("report")
  /\ errors' = Append(errors, "fatal")
  /\ UNCHANGED <<policy, now, cancelled, attempt, until, cancelPc, late>>

Exhaust ==
  /\ pc = "call" /\ Last
  /\ Return("exhausted")
  /\ errors' = Append(errors, "retryable")
  /\ UNCHANGED <<policy, now, cancelled, attempt, until, cancelPc, late>>

\* A zero delay goes straight to the next attempt.
BackOff ==
  /\ pc = "call" /\ ~Last
  /\ errors' = Append(errors, "retryable")
  /\ \E d \in BackoffDelays : /\ until' = now + d
                              /\ pc' = IF d = 0 THEN "start" ELSE "sleeping"
  /\ UNCHANGED <<policy, now, cancelled, attempt, result, cancelPc, late>>

\* sleep_or_cancel: the token wins when both are ready.
Wake ==
  /\ pc = "sleeping"
  /\ \/ Fired /\ Return("exhausted")
     \/ ~Fired /\ now >= until /\ pc' = "start" /\ UNCHANGED result
  /\ UNCHANGED <<policy, now, cancelled, attempt, until, errors, cancelPc, late>>

-----------------------------------------------------------------------------
(* The environment. *)

Cancel ==
  /\ ~cancelled /\ cancelled' = TRUE /\ cancelPc' = pc
  /\ UNCHANGED <<policy, pc, now, attempt, until, result, errors, late>>

Tick ==
  /\ now < MaxTime /\ now' = now + 1
  /\ UNCHANGED <<policy, pc, cancelled, attempt, until, result, errors,
                 cancelPc, late>>

Op == Succeed \/ OpPanics \/ Refuse \/ Exhaust \/ BackOff

Next == Enter \/ Call \/ Op \/ Wake \/ Cancel \/ Tick

\* The caller's task is polled whenever it is ready, and op returns: nothing in
\* run_if stops an op that hangs.  Nothing says that time passes.
Fairness == WF_vars(Enter \/ Call \/ Op \/ Wake)

Spec == Init /\ [][Next]_vars /\ Fairness
-----------------------------------------------------------------------------
(* Properties. *)

\* Types, and the budget: op is called at most max_attempts times, with the
\* attempt numbers 1, 2, ... (lines 97-98, 200, 224).
TypeOK ==
  /\ policy \in Policies
  /\ pc \in {"enter", "start", "call", "sleeping", "done"}
  /\ now \in Nat /\ cancelled \in BOOLEAN /\ until \in Nat
  /\ attempt \in 0..policy.attempts
  /\ errors \in Seq({"retryable", "fatal"})
  /\ Len(errors) = IF pc = "call" \/ result \in {"ok", "unwound"} THEN attempt - 1 ELSE attempt
  /\ result \in {"none", "ok", "report", "exhausted", "unwound"}
  /\ late \in 0..attempt

\* run_if never retries what the predicate refused, and says truthfully why it
\* stopped (lines 154-159): RetryExhausted means that the whole budget failed on
\* retryable errors, or that the token fired and every error so far was one.
ResultExplained ==
  /\ \A i \in 1..Len(errors) : errors[i] = "fatal" => i = Len(errors) /\ result = "report"
  /\ result = "report" => errors # <<>> /\ errors[Len(errors)] = "fatal"
  /\ result = "exhausted" => Fired \/ Len(errors) = policy.attempts

\* No attempt begins after the token fired (lines 126-130, 189-193), but for the
\* one that run_if was about to make, as long as no delay is zero.
AlwaysSleeps == ~policy.jitter /\ policy.base > 0 /\ policy.max > 0
NoLateAttempt ==
  policy.watched /\ AlwaysSleeps => late = 0 \/ (late = 1 /\ cancelPc = "start")

\* Once an attached token fires run_if returns without waiting for any timer,
\* provided op returns.
CancelStops == Fired ~> pc = "done"
=============================================================================
