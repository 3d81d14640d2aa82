---------------------------- MODULE RetryProofs ----------------------------
(* Safety of Retry for every policy and any clock. *)
EXTENDS Retry, BackoffProofs

\* What is known while run_if runs.
Progress ==
  /\ pc = "call" => attempt > 0
  /\ pc \in {"enter", "start", "sleeping"} => attempt < policy.attempts
  /\ pc # "done" => result = "none" /\ \A i \in 1..Len(errors) : errors[i] = "retryable"
  /\ cancelled = FALSE => late = 0

IInv == TypeOK /\ Progress /\ ResultExplained

LEMMA PolicyFacts ==
  ASSUME TypeOK
  PROVE  /\ policy.attempts \in 1..MaxWord /\ policy.attempts \in Nat
         /\ policy.base \in Nat /\ policy.max \in Nat /\ policy.jitter \in BOOLEAN
         /\ attempt \in Nat /\ late \in Nat /\ Len(errors) \in Nat
<1>1. policy \in PolicyType /\ MaxWord \in Nat
  BY PoliciesType, MaxWordPositive DEF TypeOK
<1>2. policy.attempts \in 1..MaxWord /\ policy.attempts \in Nat
  BY <1>1 DEF PolicyType
<1>. QED  BY <1>1, <1>2 DEF TypeOK, PolicyType

LEMMA InitIInv == Init => IInv
<1>. SUFFICES ASSUME Init PROVE IInv
  OBVIOUS
<1>1. policy \in PolicyType
  BY PoliciesType DEF Init
<1>2. policy.attempts \in Nat /\ policy.attempts > 0
  BY <1>1, MaxWordPositive DEF PolicyType
<1>3. errors \in Seq({"retryable", "fatal"}) /\ Len(errors) = 0
  BY DEF Init
<1>4. TypeOK
  BY <1>2, <1>3 DEF Init, TypeOK
<1>. QED  BY <1>2, <1>3, <1>4 DEF Init, IInv, Progress, ResultExplained

\* The steps that end no attempt with an error.
LEMMA QuietStep ==
  ASSUME IInv, UNCHANGED <<policy, errors, until>>, TypeOK',
         cancelled => cancelled',
         pc' = "call" => attempt' > 0,
         pc' \in {"enter", "start", "sleeping"} => attempt' < policy.attempts,
         pc' # "done" => pc # "done" /\ result' = result,
         result' \in {"report", "exhausted"} => \/ result' = result
                                                \/ result' = "exhausted" /\ Fired',
         result = "report" => result' = "report",
         cancelled' = FALSE => late' = 0
  PROVE  IInv'
<1>1. Progress'
  BY DEF IInv, Progress
<1>2. ResultExplained'
  BY DEF IInv, ResultExplained, Fired
<1>. QED  BY <1>1, <1>2 DEF IInv

\* The steps that record an error of the attempt.
LEMMA ErrorStep ==
  ASSUME IInv, NEW e \in {"retryable", "fatal"}, pc = "call", errors' = Append(errors, e),
         UNCHANGED <<policy, now, cancelled, attempt, late, cancelPc>>,
         \/ e = "fatal" /\ pc' = "done" /\ result' = "report" /\ UNCHANGED until
         \/ e = "retryable" /\ Last /\ pc' = "done" /\ result' = "exhausted" /\ UNCHANGED until
         \/ e = "retryable" /\ ~Last /\ pc' \in {"start", "sleeping"}
            /\ result' = result /\ until' \in Nat
  PROVE  IInv'
<1>1. /\ policy.attempts \in Nat /\ attempt \in Nat /\ Len(errors) \in Nat
      /\ errors \in Seq({"retryable", "fatal"}) /\ attempt <= policy.attempts /\ TypeOK
      /\ Len(errors) = attempt - 1 /\ attempt > 0 /\ result = "none"
      /\ \A i \in 1..Len(errors) : errors[i] = "retryable"
  BY PolicyFacts DEF IInv, Progress, TypeOK
<1>2. /\ errors' \in Seq({"retryable", "fatal"}) /\ Len(errors') = attempt
      /\ errors'[Len(errors')] = e
      /\ \A i \in 1..Len(errors') : i = Len(errors') \/ errors'[i] = "retryable"
  BY <1>1
<1>3. attempt' < policy.attempts \/ Last
  BY <1>1 DEF Last
<1>4. TypeOK'
  BY <1>1, <1>2 DEF TypeOK
<1>5. Progress'
  BY <1>1, <1>2, <1>3 DEF Progress, IInv
<1>6. ResultExplained'
  BY <1>1, <1>2 DEF ResultExplained, Last, Fired
<1>. QED  BY <1>4, <1>5, <1>6 DEF IInv

LEMMA IInvStep ==
  ASSUME IInv, [Next]_vars
  PROVE  IInv'
<1>. TypeOK /\ Progress
  BY DEF IInv
<1>0. /\ policy.attempts \in Nat /\ attempt \in Nat /\ attempt <= policy.attempts
      /\ late \in Nat /\ late <= attempt
  BY PolicyFacts DEF TypeOK
<1>1. CASE Enter
  <2>1. TypeOK'
    BY <1>1 DEF Enter, Return, TypeOK, Progress
  <2>. QED  BY <1>1, <2>1, QuietStep DEF Enter, Return, Progress, Fired
<1>2. CASE Call
  <2>1. attempt' = attempt + 1 /\ attempt < policy.attempts /\ result = "none"
        /\ late' \in 0..attempt'
    BY <1>0, <1>2 DEF Call, Progress
  <2>2. TypeOK'
    BY <1>0, <1>2, <2>1 DEF Call, TypeOK
  <2>3. /\ UNCHANGED <<policy, errors, until, cancelled, result>>
        /\ pc # "done" /\ pc' = "call" /\ attempt' > 0
    BY <1>0, <1>2, <2>1 DEF Call
  <2>4. cancelled' = FALSE => late' = 0
    BY <1>2 DEF Call, Progress
  <2>. QED  BY <2>1, <2>2, <2>3, <2>4, QuietStep
<1>3. CASE Succeed \/ OpPanics
  <2>1. TypeOK'
    BY <1>3 DEF Succeed, OpPanics, Return, TypeOK
  <2>2. /\ UNCHANGED <<policy, errors, until, cancelled, late>>
        /\ pc' = "done" /\ result = "none" /\ result' \in {"ok", "unwound"}
    BY <1>3 DEF Succeed, OpPanics, Return, Progress
  <2>3. cancelled' = FALSE => late' = 0
    BY <2>2 DEF Progress
  <2>. QED  BY <2>1, <2>2, <2>3, QuietStep
<1>4. CASE Refuse
  <2>1. /\ pc = "call" /\ errors' = Append(errors, "fatal")
        /\ pc' = "done" /\ result' = "report"
        /\ UNCHANGED <<policy, now, cancelled, attempt, until, cancelPc, late>>
    BY <1>4 DEF Refuse, Return
  <2>. QED  BY <2>1, ErrorStep
<1>5. CASE Exhaust
  <2>1. /\ pc = "call" /\ errors' = Append(errors, "retryable")
        /\ pc' = "done" /\ result' = "exhausted"
        /\ UNCHANGED <<policy, now, cancelled, attempt, until, cancelPc, late>>
        /\ Last
    BY <1>5 DEF Exhaust, Return
  <2>. QED  BY <2>1, ErrorStep
<1>6. CASE BackOff
  <2>1. PICK d \in BackoffDelays : until' = now + d /\ pc' \in {"start", "sleeping"}
    BY <1>6 DEF BackOff
  <2>2. d \in Nat
    BY PolicyFacts, DelayBounds DEF BackoffDelays
  <2>3. until' \in Nat
    BY <2>1, <2>2 DEF TypeOK
  <2>. QED  BY <1>6, <2>1, <2>3, ErrorStep DEF BackOff
<1>7. CASE Wake
  <2>1. TypeOK'
    BY <1>7 DEF Wake, Return, TypeOK, Progress
  <2>. QED  BY <1>7, <2>1, QuietStep DEF Wake, Return, Progress, Fired
<1>8. CASE Cancel
  <2>1. TypeOK'
    BY <1>8 DEF Cancel, TypeOK
  <2>. QED  BY <1>8, <2>1, QuietStep DEF Cancel, Progress
<1>9. CASE Tick
  <2>1. TypeOK'
    BY <1>9 DEF Tick, TypeOK
  <2>. QED  BY <1>9, <2>1, QuietStep DEF Tick, Progress
<1>10. CASE UNCHANGED vars
  <2>1. TypeOK'
    BY <1>10 DEF vars, TypeOK
  <2>. QED  BY <1>10, <2>1, QuietStep DEF vars, Progress
<1>. QED
  BY <1>1, <1>2, <1>3, <1>4, <1>5, <1>6, <1>7, <1>8, <1>9, <1>10 DEF Next, Op

\* The inductive invariant holds in every state.
THEOREM Invariance == Spec => []IInv
<1>. QED  BY InitIInv, IInvStep, PTL DEF Spec

\* Types, and the budget of attempts (retry.rs:97-98).
THEOREM TypeCorrect == Spec => []TypeOK
<1>1. IInv => TypeOK  BY DEF IInv
<1>. QED  BY <1>1, Invariance, PTL

\* What run_if returns is what happened (retry.rs:154-159): nothing refused is
\* retried, and RetryExhausted means a spent budget or a cancellation.
THEOREM ResultsAreExplained == Spec => []ResultExplained
<1>1. IInv => ResultExplained  BY DEF IInv
<1>. QED  BY <1>1, Invariance, PTL

-----------------------------------------------------------------------------
(* Cancellation. *)

LateInv ==
  policy.watched /\ AlwaysSleeps =>
    /\ cancelled /\ pc = "start" => late = 0 /\ cancelPc = "start"
    /\ late = 0 \/ (late = 1 /\ cancelPc = "start")

LEMMA LateStep ==
  ASSUME TypeOK, Progress, LateInv, [Next]_vars
  PROVE  LateInv'
<1>. SUFFICES ASSUME policy'.watched, AlwaysSleeps'  PROVE LateInv'
  BY DEF LateInv
<1>0. policy' = policy /\ AlwaysSleeps /\ policy.watched
  BY DEF Next, Op, Enter, Call, Succeed, OpPanics, Refuse, Exhaust, BackOff, Wake, Cancel,
         Tick, vars, AlwaysSleeps
<1>1. CASE Enter
  BY <1>0, <1>1 DEF Enter, Return, LateInv, Fired
<1>2. CASE Call
  BY <1>0, <1>2 DEF Call, LateInv, Progress
<1>3. CASE Succeed \/ OpPanics \/ Refuse \/ Exhaust
  BY <1>0, <1>3 DEF Succeed, OpPanics, Refuse, Exhaust, Return, LateInv
<1>4. CASE BackOff
  <2>1. PICK d \in BackoffDelays : pc' = IF d = 0 THEN "start" ELSE "sleeping"
    BY <1>4 DEF BackOff
  <2>2. d \in Nat /\ MinOf(policy.base, policy.max) <= d
    BY <1>0, PolicyFacts, DelayBounds DEF BackoffDelays, AlwaysSleeps
  <2>3. d # 0
    BY <1>0, <2>2, PolicyFacts DEF MinOf, AlwaysSleeps
  <2>. QED  BY <1>0, <1>4, <2>1, <2>3 DEF BackOff, LateInv
<1>5. CASE Wake
  BY <1>0, <1>5 DEF Wake, Return, LateInv, Fired, Progress
<1>6. CASE Cancel
  BY <1>0, <1>6 DEF Cancel, LateInv, Progress, TypeOK
<1>7. CASE Tick \/ UNCHANGED vars
  BY <1>0, <1>7 DEF Tick, vars, LateInv
<1>. QED
  BY <1>1, <1>2, <1>3, <1>4, <1>5, <1>6, <1>7 DEF Next, Op

\* With a watched token and no zero delay, the attempt that was about to begin
\* when the token fired is the last one (retry.rs:189-217).
THEOREM NoLateAttempts == Spec => []NoLateAttempt
<1>1. Init => LateInv
  BY DEF Init, LateInv
<1>2. IInv => TypeOK /\ Progress
  BY DEF IInv
<1>3. LateInv => NoLateAttempt
  BY DEF LateInv, NoLateAttempt
<1>. QED  BY <1>1, <1>2, <1>3, LateStep, Invariance, PTL DEF Spec
=============================================================================
