------------------------ MODULE RetryingClientProofs ------------------------
(* Safety of RetryingClient for every policy, request and server. *)
EXTENDS RetryingClient, BackoffProofs

\* What is known of a call under way: it has dispatches left, and everything it
\* saw so far was worth another one.
Progress ==
  /\ pc = "sent" => attempt > 0
  /\ pc \in {"start", "sleeping"} => attempt < policy.attempts
  /\ pc # "done" => result = "none"
  /\ pc \in {"start", "sent", "sleeping"} => \A i \in 1..Len(seen) : ShouldRetry(seen[i])
  /\ attempt > 1 \/ (pc \in {"start", "sleeping"} /\ attempt > 0)
       => request.cloneable /\ (request.idempotent \/ policy.replay)
  /\ ~cancelled => late = 0

IInv == TypeOK /\ Progress /\ OutcomeExplained

LEMMA PolicyFacts ==
  ASSUME TypeOK
  PROVE  /\ policy.attempts \in 1..MaxWord /\ policy.attempts \in Nat
         /\ policy.base \in Nat /\ policy.max \in Nat /\ policy.jitter \in BOOLEAN
         /\ attempt \in Nat /\ late \in Nat /\ Len(seen) \in Nat
<1>1. policy \in PolicyType /\ MaxWord \in Nat
  BY PoliciesType, MaxWordPositive DEF TypeOK
<1>2. policy.attempts \in 1..MaxWord /\ policy.attempts \in Nat
  BY <1>1 DEF PolicyType
<1>. QED  BY <1>1, <1>2 DEF TypeOK, PolicyType

LEMMA LastIsIn ==
  ASSUME NEW S, NEW q \in Seq(S), q # <<>>
  PROVE  q[Len(q)] \in S
OBVIOUS

\* A server's delays are natural numbers.
LEMMA AsksAreDelays ==
  ASSUME NEW o \in Outcomes, NEW s \in o.after
  PROVE  s \in Nat
BY AsksType DEF Outcomes

\* compute_delay: within the cap, and no less than what the server asked for.
LEMMA DelaysAfterBounds ==
  ASSUME TypeOK, NEW o \in Outcomes, NEW d \in DelaysAfter(o)
  PROVE  /\ d \in Nat /\ d <= policy.max
         /\ \A s \in o.after : MinOf(s, policy.max) <= d
         /\ o.after = {} /\ ~policy.jitter => MinOf(policy.base, policy.max) <= d
<1>1. CASE o.after # {}
  <2>1. PICK s \in o.after : d = MinOf(s, policy.max)
    BY <1>1 DEF DelaysAfter
  <2>2. \A r \in o.after : r = s
    BY DEF Outcomes
  <2>3. s \in Nat /\ policy.max \in Nat
    BY AsksAreDelays, PolicyFacts
  <2>4. MinOf(s, policy.max) \in Nat /\ MinOf(s, policy.max) <= policy.max
    BY <2>3 DEF MinOf
  <2>. QED  BY <1>1, <2>1, <2>2, <2>4
<1>2. CASE o.after = {}
  <2>1. d \in Delays(policy.base, policy.max, attempt, policy.jitter)
    BY <1>2 DEF DelaysAfter
  <2>. QED  BY <1>2, <2>1, PolicyFacts, DelayBounds
<1>. QED  BY <1>1, <1>2

-----------------------------------------------------------------------------
LEMMA InitIInv == Init => IInv
<1>. SUFFICES ASSUME Init PROVE IInv
  OBVIOUS
<1>1. policy \in PolicyType
  BY PoliciesType DEF Init
<1>2. policy.attempts \in Nat /\ policy.attempts > 0
  BY <1>1, MaxWordPositive DEF PolicyType
<1>3. seen \in Seq(Outcomes) /\ Len(seen) = 0
  BY DEF Init
<1>4. TypeOK
  BY <1>2, <1>3 DEF Init, TypeOK
<1>. QED  BY <1>2, <1>3, <1>4 DEF Init, IInv, Progress, OutcomeExplained

\* What an outcome does to the list of outcomes.
LEMMA Observed ==
  ASSUME TypeOK, Progress, pc = "sent", NEW o \in Outcomes, Observe(o)
  PROVE  /\ seen' \in Seq(Outcomes) /\ Len(seen') = attempt /\ seen'[Len(seen')] = o
         /\ \A i \in 1..Len(seen') : i < Len(seen') => ShouldRetry(seen'[i])
         /\ answeredAt' = now /\ attempt > 0
<1>1. /\ seen \in Seq(Outcomes) /\ Len(seen) = attempt - 1 /\ attempt > 0
      /\ attempt \in Nat /\ seen' = Append(seen, o) /\ answeredAt' = now
  BY PolicyFacts DEF TypeOK, Progress, Observe
<1>2. \A i \in 1..Len(seen) : ShouldRetry(seen[i])
  BY DEF Progress
<1>3. /\ seen' \in Seq(Outcomes) /\ Len(seen') = attempt /\ seen'[Len(seen')] = o
      /\ \A i \in 1..Len(seen') : i < Len(seen') => i \in 1..Len(seen) /\ seen'[i] = seen[i]
  BY <1>1
<1>. QED  BY <1>1, <1>2, <1>3

LEMMA ReturnStep ==
  ASSUME IInv, NEW o \in Outcomes, Return(o)
  PROVE  IInv'
<1>. TypeOK /\ Progress
  BY DEF IInv
<1>1. /\ pc = "sent" /\ ~Again(o) /\ Observe(o) /\ pc' = "done" /\ result' = "returned"
      /\ UNCHANGED <<policy, request, now, cancelled, attempt, until, cancelPc, late>>
  BY DEF Return
<1>2. /\ seen' \in Seq(Outcomes) /\ Len(seen') = attempt /\ seen'[Len(seen')] = o
      /\ \A i \in 1..Len(seen') : i < Len(seen') => ShouldRetry(seen'[i])
      /\ answeredAt' = now
  BY <1>1, Observed
<1>3. TypeOK'
  BY <1>1, <1>2 DEF TypeOK
<1>4. Progress'
  BY <1>1 DEF Progress
<1>5. OutcomeExplained'
  BY <1>1, <1>2 DEF OutcomeExplained, Again, ShouldRetry, Last
<1>. QED  BY <1>3, <1>4, <1>5 DEF IInv

LEMMA BackOffStep ==
  ASSUME IInv, NEW o \in Outcomes, BackOff(o)
  PROVE  IInv'
<1>. TypeOK /\ Progress
  BY DEF IInv
<1>1. /\ pc = "sent" /\ Again(o) /\ Observe(o) /\ pc' \in {"start", "sleeping"}
      /\ UNCHANGED <<policy, request, now, cancelled, attempt, result, cancelPc, late>>
  BY DEF BackOff
<1>2. PICK d \in DelaysAfter(o) : until' = now + d
  BY DEF BackOff
<1>3. until' \in Nat
  BY <1>2, DelaysAfterBounds DEF TypeOK
<1>4. /\ seen' \in Seq(Outcomes) /\ Len(seen') = attempt /\ seen'[Len(seen')] = o
      /\ \A i \in 1..Len(seen') : i < Len(seen') => ShouldRetry(seen'[i])
      /\ answeredAt' = now /\ attempt > 0
  BY <1>1, Observed
<1>5. /\ attempt \in Nat /\ policy.attempts \in Nat /\ attempt < policy.attempts
      /\ result = "none"
  BY <1>1, PolicyFacts DEF TypeOK, Progress, Again, Last
<1>6. (\A i \in 1..Len(seen) : ShouldRetry(seen[i]))'
  <2>1. ASSUME NEW i \in 1..Len(seen')  PROVE ShouldRetry(seen'[i])
    BY <1>1, <1>4, <1>5 DEF Again
  <2>. QED  BY <1>1, <2>1 DEF ShouldRetry
<1>7. request.cloneable /\ (request.idempotent \/ policy.replay)
  BY <1>1 DEF Again, ShouldRetry
<1>8. TypeOK'
  BY <1>1, <1>3, <1>4, <1>5 DEF TypeOK
<1>9. Progress'
  BY <1>1, <1>5, <1>6, <1>7 DEF Progress
<1>10. OutcomeExplained'
  BY <1>1, <1>5, <1>6 DEF OutcomeExplained
<1>. QED  BY <1>8, <1>9, <1>10 DEF IInv

\* The steps that see no outcome.
LEMMA QuietStep ==
  ASSUME IInv, UNCHANGED <<policy, request, seen, answeredAt>>, TypeOK', Progress',
         attempt' = attempt \/ pc # "done",
         result' = "returned" => result = "returned" \/ Fired',
         Fired => Fired'
  PROVE  IInv'
<1>1. OutcomeExplained'
  <2>1. (\A i \in 1..Len(seen) : i < Len(seen) => ShouldRetry(seen[i]))'
    BY DEF IInv, OutcomeExplained, ShouldRetry
  <2>2. ASSUME result' = "returned", ~Fired'
        PROVE  (~ShouldRetry(seen[Len(seen)]) \/ Last \/ ~request.cloneable)'
    <3>1. result = "returned" /\ ~Fired /\ attempt' = attempt
      BY <2>2 DEF IInv, Progress
    <3>. QED  BY <3>1 DEF IInv, OutcomeExplained, ShouldRetry, Last
  <2>. QED  BY <2>1, <2>2 DEF OutcomeExplained
<1>. QED  BY <1>1 DEF IInv

LEMMA IInvStep ==
  ASSUME IInv, [Next]_vars
  PROVE  IInv'
<1>. TypeOK /\ Progress
  BY DEF IInv
<1>0. /\ policy.attempts \in Nat /\ attempt \in Nat /\ attempt <= policy.attempts
      /\ late \in Nat /\ late <= attempt
  BY PolicyFacts DEF TypeOK
<1>1. CASE Dispatch
  <2>1. /\ attempt' = attempt + 1 /\ attempt < policy.attempts /\ pc' = "sent" /\ pc = "start"
        /\ late' \in 0..attempt' /\ (~cancelled => late' = 0)
        /\ UNCHANGED <<policy, request, now, cancelled, until, seen, result, answeredAt>>
    BY <1>0, <1>1 DEF Dispatch, Progress
  <2>2. TypeOK'
    BY <1>0, <2>1 DEF TypeOK, Progress
  <2>3. (\A i \in 1..Len(seen) : ShouldRetry(seen[i]))'
    BY <2>1 DEF Progress, ShouldRetry
  <2>4. Progress'
    BY <1>0, <2>1, <2>3 DEF Progress
  <2>. QED  BY <2>1, <2>2, <2>4, QuietStep DEF Fired, TypeOK, Progress
<1>2. CASE Answer
  BY <1>2, ReturnStep, BackOffStep DEF Answer
<1>3. CASE ExecutorPanics
  <2>1. TypeOK' /\ Progress'
    BY <1>3 DEF ExecutorPanics, TypeOK, Progress
  <2>. QED  BY <1>3, <2>1, QuietStep DEF ExecutorPanics, Fired
<1>4. CASE Wake
  <2>1. TypeOK'
    BY <1>4 DEF Wake, TypeOK, Progress
  <2>2. (\A i \in 1..Len(seen) : ShouldRetry(seen[i]))'
    BY <1>4 DEF Wake, Progress, ShouldRetry
  <2>3. Progress'
    BY <1>4, <2>2 DEF Wake, Progress
  <2>. QED  BY <1>4, <2>1, <2>3, QuietStep DEF Wake, Fired
<1>5. CASE Cancel \/ Tick \/ UNCHANGED vars
  <2>1. TypeOK'
    <3>. now \in Nat /\ cancelled \in BOOLEAN
      BY DEF TypeOK
    <3>1. now' \in Nat /\ cancelled' \in BOOLEAN
      <4>1. now' \in {now, now + 1}
        BY <1>5 DEF Cancel, Tick, vars
      <4>2. cancelled' \in BOOLEAN
        <5>1. CASE Cancel  BY <5>1 DEF Cancel
        <5>2. CASE Tick  BY <5>2 DEF Tick
        <5>3. CASE UNCHANGED vars  BY <5>3 DEF vars
        <5>. QED  BY <1>5, <5>1, <5>2, <5>3
      <4>3. now' \in Nat
        BY <4>1
      <4>. QED  BY <4>2, <4>3
    <3>2. UNCHANGED <<policy, request, pc, attempt, until, seen, result, answeredAt, late>>
      BY <1>5 DEF Cancel, Tick, vars
    <3>. QED  BY <3>1, <3>2 DEF TypeOK
  <2>2. Progress'
    BY <1>5 DEF Cancel, Tick, vars, Progress, ShouldRetry
  <2>3. /\ UNCHANGED <<policy, request, pc, seen, result, answeredAt, attempt>>
        /\ cancelled => cancelled'
    BY <1>5 DEF Cancel, Tick, vars
  <2>. QED  BY <2>1, <2>2, <2>3, QuietStep DEF Fired
<1>. QED  BY <1>1, <1>2, <1>3, <1>4, <1>5 DEF Next

\* The inductive invariant holds in every state.
THEOREM Invariance == Spec => []IInv
<1>. QED  BY InitIInv, IInvStep, PTL DEF Spec

\* Types, and the budget of dispatches (network/retry.rs:229).
THEOREM TypeCorrect == Spec => []TypeOK
<1>1. IInv => TypeOK  BY DEF IInv
<1>. QED  BY <1>1, Invariance, PTL

\* No request is dispatched more often than the budget allows, and one that must
\* not be replayed once at most, whatever comes back
\* (network/retry.rs:233-235, 258-260).
THEOREM DispatchesAreBounded == Spec => []DispatchesBounded
<1>1. IInv => DispatchesBounded
  <2>. SUFFICES ASSUME IInv PROVE DispatchesBounded
    OBVIOUS
  <2>1. attempt \in Nat /\ attempt <= policy.attempts
    BY PolicyFacts DEF IInv, TypeOK
  <2>. QED  BY <2>1 DEF IInv, Progress, DispatchesBounded
<1>. QED  BY <1>1, Invariance, PTL

\* execute() stops at the first outcome that is not retryable, and before it only
\* for the budget, the body or the token (network/retry.rs:215-247).
THEOREM OutcomesAreExplained == Spec => []OutcomeExplained
<1>1. IInv => OutcomeExplained  BY DEF IInv
<1>. QED  BY <1>1, Invariance, PTL

-----------------------------------------------------------------------------
(* What the server asked for. *)

\* What the last response asked for, up to the cap, is over at the instant t.
Over(t) == seen # <<>> =>
             \A s \in seen[Len(seen)].after : t - answeredAt >= MinOf(s, policy.max)

PaceInv == /\ answeredAt <= now
           /\ pc = "start" => Over(now)
           /\ pc = "sleeping" => Over(until)

LEMMA PaceStep ==
  ASSUME IInv, IInv', PaceInv, [Next]_vars
  PROVE  PaceInv'
<1>. TypeOK /\ Progress /\ TypeOK'
  BY DEF IInv
<1>0. now \in Nat /\ until \in Nat /\ answeredAt \in Nat /\ policy.max \in Nat
  BY PolicyFacts DEF TypeOK
<1>1. CASE Dispatch \/ ExecutorPanics \/ Cancel \/ UNCHANGED vars
  <2>1. UNCHANGED <<now, until, seen, answeredAt, policy>> /\ pc' \in {pc, "sent", "done"}
    BY <1>1 DEF Dispatch, ExecutorPanics, Cancel, vars
  <2>. QED  BY <2>1 DEF PaceInv, Over
<1>2. ASSUME NEW o \in Outcomes, Return(o)  PROVE PaceInv'
  BY <1>0, <1>2 DEF Return, Observe, PaceInv
<1>3. ASSUME NEW o \in Outcomes, BackOff(o)  PROVE PaceInv'
  <2>1. PICK d \in DelaysAfter(o) : until' = now + d /\ pc' = IF d = 0 THEN "start" ELSE "sleeping"
    BY <1>3 DEF BackOff
  <2>2. /\ seen'[Len(seen')] = o /\ answeredAt' = now
        /\ pc = "sent" /\ UNCHANGED <<policy, now>>
    BY <1>3, Observed DEF BackOff
  <2>3. d \in Nat /\ \A s \in o.after : MinOf(s, policy.max) <= d
    BY <2>1, DelaysAfterBounds
  <2>4. ASSUME NEW s \in o.after
        PROVE  /\ until' - answeredAt' >= MinOf(s, policy.max)
               /\ d = 0 => now - answeredAt' >= MinOf(s, policy.max)
    <3>1. s \in Nat
      BY AsksAreDelays
    <3>2. MinOf(s, policy.max) \in Nat /\ MinOf(s, policy.max) <= d
      BY <1>0, <2>3, <3>1 DEF MinOf
    <3>. QED  BY <1>0, <2>1, <2>2, <2>3, <3>2
  <2>5. Over(until)' /\ (d = 0 => Over(now)')
    BY <2>2, <2>4 DEF Over
  <2>. QED  BY <1>0, <2>1, <2>2, <2>5 DEF PaceInv
<1>4. CASE Wake
  <2>1. UNCHANGED <<now, until, seen, answeredAt, policy>>
    BY <1>4 DEF Wake
  <2>2. pc' = "done" \/ (pc = "sleeping" /\ pc' = "start" /\ now >= until)
    BY <1>4 DEF Wake
  <2>3. pc' = "start" => Over(now)
    <3>. SUFFICES ASSUME pc' = "start", seen # <<>>, NEW s \in seen[Len(seen)].after
                  PROVE  now - answeredAt >= MinOf(s, policy.max)
      BY DEF Over
    <3>1. until - answeredAt >= MinOf(s, policy.max) /\ now >= until
      BY <2>2 DEF PaceInv, Over
    <3>2. seen[Len(seen)] \in Outcomes
      <4>1. seen \in Seq(Outcomes)
        BY DEF TypeOK
      <4>. QED  BY <4>1, LastIsIn
    <3>3. s \in Nat
      BY <3>2, AsksAreDelays
    <3>4. MinOf(s, policy.max) \in Nat
      BY <1>0, <3>3 DEF MinOf
    <3>. QED  BY <1>0, <3>1, <3>4
  <2>. QED  BY <2>1, <2>2, <2>3 DEF PaceInv, Over
<1>5. CASE Tick
  <2>1. now' = now + 1 /\ UNCHANGED <<pc, until, seen, answeredAt, policy>>
    BY <1>5 DEF Tick
  <2>2. Over(now) => Over(now')
    <3>. SUFFICES ASSUME Over(now), seen # <<>>, NEW s \in seen[Len(seen)].after
                  PROVE  now' - answeredAt >= MinOf(s, policy.max)
      BY DEF Over
    <3>1. now - answeredAt >= MinOf(s, policy.max)
      BY DEF Over
    <3>2. seen[Len(seen)] \in Outcomes
      <4>1. seen \in Seq(Outcomes)
        BY DEF TypeOK
      <4>. QED  BY <4>1, LastIsIn
    <3>3. s \in Nat
      BY <3>2, AsksAreDelays
    <3>4. MinOf(s, policy.max) \in Nat
      BY <1>0, <3>3 DEF MinOf
    <3>5. \A m \in Nat : now - answeredAt >= m => (now + 1) - answeredAt >= m
      BY <1>0
    <3>. QED  BY <2>1, <3>1, <3>4, <3>5
  <2>3. Over(now)' = Over(now') /\ Over(until)' = Over(until)
    BY <2>1 DEF Over
  <2>. QED  BY <1>0, <2>1, <2>2, <2>3 DEF PaceInv
<1>. QED  BY <1>1, <1>2, <1>3, <1>4, <1>5 DEF Next, Answer

\* No replay reaches the server before the time it asked for is over, up to the
\* cap and whatever the jitter (network/retry.rs:270-280).
THEOREM ServerIsHonoured == Spec => HonoursServer
<1>1. Init => PaceInv
  BY DEF Init, PaceInv, Over
<1>2. PaceInv => (pc = "start" /\ pc' = "sent" /\ seen # <<>> =>
         \A s \in seen[Len(seen)].after : now - answeredAt >= MinOf(s, policy.max))
  BY DEF PaceInv, Over
<1>3. Spec => []PaceInv
  BY <1>1, PaceStep, Invariance, PTL DEF Spec
<1>. QED  BY <1>2, <1>3, PTL DEF Spec, HonoursServer

-----------------------------------------------------------------------------
(* Cancellation. *)

LateInv ==
  policy.watched /\ AlwaysSleeps =>
    /\ cancelled /\ pc = "start" => late = 0 /\ cancelPc = "start"
    /\ late = 0 \/ (late = 1 /\ cancelPc = "start")

LEMMA LateStep ==
  ASSUME IInv, IInv', LateInv, [Next]_vars
  PROVE  LateInv'
<1>. SUFFICES ASSUME policy'.watched, AlwaysSleeps'  PROVE LateInv'
  BY DEF LateInv
<1>. TypeOK /\ Progress
  BY DEF IInv
<1>1. ASSUME NEW o \in Outcomes, BackOff(o)  PROVE LateInv'
  <2>1. PICK d \in DelaysAfter(o) : pc' = IF d = 0 THEN "start" ELSE "sleeping"
    BY <1>1 DEF BackOff
  <2>2. /\ UNCHANGED <<policy, late, cancelPc, cancelled>>
        /\ seen' = Append(seen, o) /\ pc = "sent"
    BY <1>1 DEF BackOff, Observe
  <2>3. /\ ~policy.jitter /\ policy.base > 0 /\ policy.max > 0
        /\ \A i \in 1..Len(seen') : 0 \notin seen'[i].after
    BY <2>2 DEF AlwaysSleeps
  <2>4. /\ seen \in Seq(Outcomes) /\ Len(seen') = Len(seen) + 1 /\ Len(seen) \in Nat
        /\ seen'[Len(seen')] = o /\ \A i \in 1..Len(seen) : seen'[i] = seen[i]
    BY <2>2 DEF TypeOK
  <2>5. AlwaysSleeps
    BY <2>3, <2>4 DEF AlwaysSleeps
  <2>6. 0 \notin o.after
    BY <2>3, <2>4
  <2>7. d # 0
    <3>1. /\ d \in Nat /\ \A s \in o.after : MinOf(s, policy.max) <= d
          /\ o.after = {} => MinOf(policy.base, policy.max) <= d
      BY <2>1, <2>3, DelaysAfterBounds
    <3>2. \A s \in o.after : s \in Nat /\ s # 0
      BY <2>6, AsksAreDelays
    <3>. QED  BY <2>3, <3>1, <3>2, PolicyFacts DEF MinOf
  <2>. QED  BY <2>1, <2>2, <2>5, <2>7 DEF LateInv
<1>2. ASSUME NEW o \in Outcomes, Return(o)  PROVE LateInv'
  <2>1. /\ UNCHANGED <<policy, late, cancelPc>> /\ pc' = "done"
        /\ seen' = Append(seen, o) /\ seen \in Seq(Outcomes)
    BY <1>2 DEF Return, Observe, TypeOK
  <2>2. Len(seen') = Len(seen) + 1 /\ \A i \in 1..Len(seen) : seen'[i] = seen[i]
    BY <2>1
  <2>3. AlwaysSleeps
    BY <2>1, <2>2, PolicyFacts DEF AlwaysSleeps
  <2>. QED  BY <2>1, <2>3 DEF LateInv
<1>3. CASE UNCHANGED <<policy, seen>>
  <2>1. AlwaysSleeps /\ policy.watched
    BY <1>3 DEF AlwaysSleeps
  <2>2. CASE Dispatch
    BY <2>1, <2>2 DEF Dispatch, LateInv, Progress
  <2>3. CASE ExecutorPanics
    BY <2>1, <2>3 DEF ExecutorPanics, LateInv
  <2>4. CASE Wake
    BY <2>1, <2>4 DEF Wake, LateInv, Fired, Progress
  <2>5. CASE Cancel
    BY <2>1, <2>5 DEF Cancel, LateInv, Progress
  <2>6. CASE Tick \/ UNCHANGED vars
    BY <2>1, <2>6 DEF Tick, vars, LateInv
  <2>7. CASE Answer
    BY <1>1, <1>2, <2>7 DEF Answer
  <2>. QED  BY <2>2, <2>3, <2>4, <2>5, <2>6, <2>7 DEF Next
<1>4. CASE Answer
  BY <1>1, <1>2, <1>4 DEF Answer
<1>. QED
  BY <1>3, <1>4 DEF Next, Dispatch, ExecutorPanics, Wake, Cancel, Tick, vars

\* With a watched token and no zero delay, the dispatch that was about to be made
\* when the token fired is the last one (network/retry.rs:192-196, 238-242).
THEOREM NoLateDispatches == Spec => []NoLateDispatch
<1>1. Init => LateInv
  BY DEF Init, LateInv
<1>2. LateInv => NoLateDispatch
  BY DEF LateInv, NoLateDispatch
<1>. QED  BY <1>1, <1>2, LateStep, Invariance, PTL DEF Spec
=============================================================================
