----------------------------- MODULE Supervisor -----------------------------
(***************************************************************************)
(* Supervisor::run (src/concurrency/supervisor.rs): a loop that spawns a   *)
(* task, joins it and restarts it within a budget of restarts per window,  *)
(* sleeping between restarts.  One action per stretch of the loop between  *)
(* two awaits or two readings of the token.                                *)
(***************************************************************************)
EXTENDS Backoff, Sequences

CONSTANTS Policies,  \* the Supervisor values the builder may have made
          MaxTime    \* bound on the clock, for TLC; see Tick

(* A policy: cap = 0 is max_restarts = None, windowed = FALSE is            *)
(* restart_window = None.                                                   *)
PolicyType == [cap: Nat, windowed: BOOLEAN, window: Nat, base: Nat, max: Nat,
               jitter: BOOLEAN, onOk: BOOLEAN, onPanic: BOOLEAN]

ASSUME PoliciesType == Policies \subseteq PolicyType

VARIABLES policy,       \* self
          pc,           \* where run() is
          now,          \* the clock
          cancelled,    \* the CancellationToken
          history,      \* restart_history, oldest first
          consecutive, startedAt, outcome,
          until,        \* deadline of the backoff sleep
          result        \* what run() returned; "unwound": it panicked

\* History variables: the instants of every spawn and of every restart that
\* passed the budget check, and where run() was when the token fired.
VARIABLES starts, grants, cancelPc

vars == <<policy, pc, now, cancelled, history, consecutive, startedAt, outcome,
          until, result, starts, grants, cancelPc>>

Init ==
  /\ policy \in Policies
  /\ pc = "top" /\ now = 0 /\ cancelled = FALSE
  /\ history = <<>> /\ consecutive = 0 /\ startedAt = 0 /\ outcome = "none"
  /\ until = 0 /\ result = "none"
  /\ starts = <<>> /\ grants = <<>> /\ cancelPc = "none"

Return(r) == pc' = "done" /\ result' = r

-----------------------------------------------------------------------------
(* The rolling history. *)

Expired(t) == policy.windowed /\ now - t > policy.window

PruneNothing(h) == h   \* bug: old restarts are never forgotten

\* pop_front until the front is inside the window; the newest entry always is.
Prune(h) ==
  IF \A i \in 1..Len(h) : ~Expired(h[i]) THEN h
  ELSE LET first == CHOOSE i \in 1..Len(h) :
                      ~Expired(h[i]) /\ \A j \in 1..(i-1) : Expired(h[j])
       IN  SubSeq(h, first, Len(h))

\* push_back(now), then prune.
Recorded == Prune(Append(history, now))

OverBudgetByOne == policy.cap > 0 /\ Len(Recorded) > policy.cap + 1   \* bug: off by one
OverBudget == policy.cap > 0 /\ Len(Recorded) > policy.cap

StreakNeverResets == Bump(consecutive)   \* bug: a healthy run is not noticed

\* The consecutive counter after this exit: reset by a healthy run, then bumped.
Streak == Bump(IF now - startedAt >= policy.max THEN 0 ELSE consecutive)

Restartable == \/ outcome = "err"
               \/ outcome = "ok" /\ policy.onOk
               \/ outcome = "panic" /\ policy.onPanic

-----------------------------------------------------------------------------
(* Variants of steps of the loop with a bug the code does not have; Spec does *)
(* not use them.  They show what each property would notice.                  *)

\* The token is not read at the top of the loop.
CheckNothing ==
  /\ pc = "top" /\ pc' = "spawn" /\ UNCHANGED result
  /\ UNCHANGED <<policy, now, cancelled, history, consecutive, startedAt, outcome,
                 until, starts, grants, cancelPc>>
\* The token is not read after the join.
JoinBlindly ==
  /\ pc = "exited" /\ pc' = "joined" /\ UNCHANGED result
  /\ UNCHANGED <<policy, now, cancelled, history, consecutive, startedAt, outcome,
                 until, starts, grants, cancelPc>>
\* The backoff ends before its deadline.
WakeEarly ==
  /\ pc = "sleeping"
  /\ IF cancelled THEN Return("ok") ELSE pc' = "top" /\ UNCHANGED result
  /\ UNCHANGED <<policy, now, cancelled, history, consecutive, startedAt, outcome,
                 until, starts, grants, cancelPc>>
\* The backoff is a plain sleep.
SleepThrough ==
  /\ pc = "sleeping" /\ now >= until /\ pc' = "top" /\ UNCHANGED result
  /\ UNCHANGED <<policy, now, cancelled, history, consecutive, startedAt, outcome,
                 until, starts, grants, cancelPc>>

-----------------------------------------------------------------------------
(* The loop. *)

CheckToken ==
  /\ pc = "top"
  /\ IF cancelled THEN Return("ok") ELSE pc' = "spawn" /\ UNCHANGED result
  /\ UNCHANGED <<policy, now, cancelled, history, consecutive, startedAt, outcome,
                 until, starts, grants, cancelPc>>

SpawnTask ==
  /\ pc = "spawn"
  /\ pc' = "running" /\ startedAt' = now
  /\ starts' = Append(starts, now)
  /\ UNCHANGED <<policy, now, cancelled, history, consecutive, outcome, until, result,
                 grants, cancelPc>>

\* The factory runs on the supervisor's own task: its panic is not contained.
FactoryPanics ==
  /\ pc = "spawn"
  /\ Return("unwound")
  /\ UNCHANGED <<policy, now, cancelled, history, consecutive, startedAt, outcome,
                 until, starts, grants, cancelPc>>

\* "aborted": a JoinError that is no panic, as when the runtime shuts down.
TaskEnds ==
  /\ pc = "running"
  /\ pc' = "exited"
  /\ outcome' \in {"ok", "err", "panic", "aborted"}
  /\ UNCHANGED <<policy, now, cancelled, history, consecutive, startedAt, until,
                 result, starts, grants, cancelPc>>

Join ==
  /\ pc = "exited"
  /\ IF cancelled THEN Return("ok") ELSE pc' = "joined" /\ UNCHANGED result
  /\ UNCHANGED <<policy, now, cancelled, history, consecutive, startedAt, outcome,
                 until, starts, grants, cancelPc>>

\* The outcome ends the supervision, whatever the budget.
Refuse ==
  /\ pc = "joined" /\ ~Restartable
  /\ Return(IF outcome = "ok" THEN "ok" ELSE "concurrency")
  /\ UNCHANGED <<policy, now, cancelled, history, consecutive, startedAt, outcome,
                 until, starts, grants, cancelPc>>

Exhaust ==
  /\ pc = "joined" /\ Restartable /\ OverBudget
  /\ Return("exhausted") /\ history' = Recorded
  /\ UNCHANGED <<policy, now, cancelled, consecutive, startedAt, outcome, until,
                 starts, grants, cancelPc>>

\* A zero delay goes straight to the top of the loop.
Restart ==
  /\ pc = "joined" /\ Restartable /\ ~OverBudget
  /\ history' = Recorded /\ consecutive' = Streak
  /\ \E d \in Delays(policy.base, policy.max, Streak, policy.jitter) :
       /\ until' = now + d
       /\ pc' = IF d = 0 THEN "top" ELSE "sleeping"
  /\ grants' = Append(grants, now)
  /\ UNCHANGED <<policy, now, cancelled, startedAt, outcome, result, starts, cancelPc>>

\* sleep_or_cancel: the token wins when both are ready.
Wake ==
  /\ pc = "sleeping"
  /\ \/ cancelled /\ Return("ok")
     \/ ~cancelled /\ now >= until /\ pc' = "top" /\ UNCHANGED result
  /\ UNCHANGED <<policy, now, cancelled, history, consecutive, startedAt, outcome,
                 until, starts, grants, cancelPc>>

-----------------------------------------------------------------------------
(* The environment. *)

Cancel ==
  /\ ~cancelled
  /\ cancelled' = TRUE /\ cancelPc' = pc
  /\ UNCHANGED <<policy, pc, now, history, consecutive, startedAt, outcome, until,
                 result, starts, grants>>

Tick ==
  /\ now < MaxTime
  /\ now' = now + 1
  /\ UNCHANGED <<policy, pc, cancelled, history, consecutive, startedAt, outcome,
                 until, result, starts, grants, cancelPc>>

Loop == \/ CheckToken \/ SpawnTask \/ FactoryPanics \/ Join
        \/ Refuse \/ Exhaust \/ Restart \/ Wake

Next == Loop \/ TaskEnds \/ Cancel \/ Tick

\* The supervisor's task is polled whenever it is ready, and the supervised
\* task watches the token it was handed.  Nothing says that time passes.
Fairness == WF_vars(Loop) /\ WF_vars(cancelled /\ TaskEnds)

Spec == Init /\ [][Next]_vars /\ Fairness
-----------------------------------------------------------------------------
(* Properties. *)

\* With a cap the history holds at most cap entries, one more at giving up.
HistoryBounded ==
  policy.cap > 0 =>
    Len(history) <= policy.cap + (IF result = "exhausted" THEN 1 ELSE 0)

\* Types, and the memory of the supervisor (restart_history, lines 194, 285-292).
TypeOK ==
  /\ policy \in Policies
  /\ pc \in {"top", "spawn", "running", "exited", "joined", "sleeping", "done"}
  /\ now \in Nat /\ cancelled \in BOOLEAN
  /\ history \in Seq(Nat) /\ grants \in Seq(Nat) /\ starts \in Seq(Nat)
  /\ consecutive \in 0..MaxWord /\ startedAt \in Nat /\ until \in Nat
  /\ outcome \in {"none", "ok", "err", "panic", "aborted"}
  /\ result \in {"none", "ok", "concurrency", "exhausted", "unwound"}
  /\ HistoryBounded

\* The restart budget (supervisor.rs:107-110): no cap + 1 restarts, anywhere in
\* a run, are granted within one window, or at all when there is no window.
Budget ==
  policy.cap > 0 =>
    \A i \in 1..(Len(grants) - policy.cap) :
      policy.windowed /\ grants[i + policy.cap] - grants[i] > policy.window

\* The supervisor does not give up early: when it returns RetryExhausted, the
\* last cap restarts and this exit all fell inside one window (lines 118-121).
GiveUpJustified ==
  result = "exhausted" =>
    LET n == Len(grants) IN
    /\ policy.cap > 0 /\ n >= policy.cap
    /\ policy.windowed =>
         history[Len(history)] - grants[n - policy.cap + 1] <= policy.window

\* The budget is neither exceeded nor withheld (supervisor.rs:277-303).
BudgetIsExact == Budget /\ GiveUpJustified

\* The streak of short runs that led to the last grant, read off the instants
\* alone: it begins with the first run or with the last healthy one.
Healthy(i) == grants[i] - starts[i] >= policy.max
BeginsStreak(i) ==
  (i = 1 \/ Healthy(i)) /\ \A j \in (i+1)..Len(grants) : ~Healthy(j)
CrashStreak ==
  LET first == CHOOSE i \in 1..Len(grants) : BeginsStreak(i)
  IN  Len(grants) - first + 1

\* What a streak multiplies the base by: 2^(streak-1), as far as it fits a word.
Multiplier(streak) == IF streak <= Width THEN 2^(streak - 1) ELSE MaxWord

\* The backoff grows with the streak and with nothing else: the sleep before a
\* restart is base * 2^(streak-1) capped at max (lines 129-130, 198-201), or
\* less under jitter.  It never falls back, however long the streak.
BackoffFollowsStreak ==
  pc = "sleeping" =>
    LET full == MinOf(policy.base * Multiplier(CrashStreak), policy.max)
        slept == until - grants[Len(grants)]
    IN  slept <= full /\ (~policy.jitter => slept = full)

\* A crash loop does not spin: without jitter no instance starts sooner than
\* the shortest backoff after the previous exit (lines 5-6).
PacedStarts ==
  [][pc = "spawn" /\ pc' = "running" /\ grants # <<>> /\ ~policy.jitter
       => now - grants[Len(grants)] >= MinOf(policy.base, policy.max)]_vars

\* An instance starts after the token fired only when it fired between the
\* check at the top of the loop and the spawn (lines 206-215).
NoStartAfterCancel ==
  [][pc = "spawn" /\ pc' = "running" /\ cancelled => cancelPc = "spawn"]_vars

\* After the token fired run() returns Ok, unless it fired after the check that
\* follows the join (line 217), or the factory panicked.
CancelWins ==
  result \in {"concurrency", "exhausted"} /\ cancelled => cancelPc \in {"joined", "done"}

\* Once the token fires run() returns without waiting for any timer, provided
\* the supervised task watches the token (lines 20-22, 320-322).
CancelStops == cancelled ~> pc = "done"
=============================================================================
