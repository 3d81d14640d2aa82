------------------------------ MODULE Shutdown ------------------------------
(***************************************************************************)
(* ShutdownController (src/concurrency/shutdown.rs): a cancellation token  *)
(* and a task tracker shared by every clone of the controller.             *)
(*                                                                         *)
(* A task is a reusable slot: the same slot may be spawned again after its *)
(* previous task ended, so a run may spawn any number of tasks.  task[t]   *)
(* is where the tracked future is:                                         *)
(*   "idle"      no task          "spawned"  tracked, not yet polled       *)
(*   "running"   polled           "leaving"  it has called token.cancel()  *)
(*   "detached"  a critical wrapper was aborted, its inner task runs on    *)
(*   "aborted"   no task: the last critical wrapper here was aborted       *)
(* body[k] is the inner task of a critical wrapper, which the tracker does *)
(* not see: "none", "running" or the outcome its JoinHandle reports.       *)
(***************************************************************************)
CONSTANTS Plain,     \* slots of tasks given to spawn()
          Critical,  \* slots of tasks given to spawn_critical()
          Listener,  \* slots of tasks of trigger_on_signal()
          Callers,   \* concurrent callers of shutdown()
          Stubborn,  \* slots whose task does not watch the token
          Late,      \* slots whose spawner does not watch the token
          Generous   \* callers whose timeout is never reached

Tasks == Plain \cup Critical \cup Listener

ASSUME KindsAreDisjoint ==
  /\ Plain \cap Critical = {}
  /\ Plain \cap Listener = {}
  /\ Critical \cap Listener = {}

VARIABLES cancelled,  \* the CancellationToken
          closed,     \* the TaskTracker was closed
          task, body,
          call,       \* call[c]: where c's call of shutdown() is
          drained,    \* drained[c]: c's wait future was notified
          pending     \* pending[c]: tasks tracked when c called shutdown()
                      \* and still tracked; a history variable

vars == <<cancelled, closed, task, body, call, drained, pending>>

Failures == {"err", "panic", "aborted"}   \* outcomes that cancel the token
Outcomes == {"ok"} \cup Failures

\* What TaskTracker::len() counts: the futures not yet dropped.
Tracked == {t \in Tasks : task[t] \in {"spawned", "running", "leaving"}}

\* Types; and an inner task runs under a tracked wrapper, or its handle was aborted.
TypeOK ==
  /\ cancelled \in BOOLEAN /\ closed \in BOOLEAN
  /\ task \in [Tasks -> {"idle", "spawned", "running", "leaving", "detached", "aborted"}]
  /\ \A p \in Plain : task[p] \in {"idle", "running"}
  /\ \A l \in Listener : task[l] \notin {"detached", "aborted"}
  /\ body \in [Critical -> {"none", "running"} \cup Outcomes]
  /\ \A k \in Critical : body[k] # "none" => k \in Tracked \/ task[k] = "detached"
  /\ call \in [Callers -> {"idle", "cancelled", "closed", "waiting", "ok", "timedout"}]
  /\ drained \in [Callers -> BOOLEAN]
  /\ pending \in [Callers -> SUBSET Tasks]

Init ==
  /\ cancelled = FALSE /\ closed = FALSE
  /\ task = [t \in Tasks |-> "idle"]
  /\ body = [k \in Critical |-> "none"]
  /\ call = [c \in Callers |-> "idle"]
  /\ drained = [c \in Callers |-> FALSE]
  /\ pending = [c \in Callers |-> {}]

\* Dropping a tracked future takes it off the tracker; the last one off a
\* closed tracker notifies every wait future that exists at that moment.
DropTracked(t, to) ==
  /\ task' = [task EXCEPT ![t] = to]
  /\ pending' = [c \in Callers |-> pending[c] \ {t}]
  /\ drained' = [c \in Callers |->
       drained[c] \/ (call[c] = "waiting" /\ closed /\ Tracked = {t})]
  /\ UNCHANGED <<cancelled, closed, call>>

-----------------------------------------------------------------------------
(* Variants of the steps below with a bug the code does not have.  Spec does *)
(* not use them: they show which bug each property would notice.             *)

\* shutdown() does not close the tracker.
SkipClose(c) ==
  /\ call[c] = "cancelled"
  /\ call' = [call EXCEPT ![c] = "closed"]
  /\ UNCHANGED <<cancelled, closed, task, body, drained, pending>>

\* The wrapper ends without telling anyone that its inner task failed.
LoseFailure(k) ==
  /\ task[k] = "running" /\ body[k] \in Failures
  /\ DropTracked(k, "idle")
  /\ body' = [body EXCEPT ![k] = "none"]
\* The wrapper only reacts to an error value, and stays when there is a panic.
JoinErrOnly(k) ==
  /\ task[k] = "running" /\ body[k] = "err"
  /\ task' = [task EXCEPT ![k] = "leaving"]
  /\ cancelled' = TRUE
  /\ UNCHANGED <<closed, body, call, drained, pending>>
\* The wrapper does not await its inner task.
JoinEarly(k) ==
  /\ task[k] = "running" /\ body[k] \in {"running", "ok"}
  /\ DropTracked(k, "idle") /\ UNCHANGED body
\* The deadline is reported as success.
OkAtDeadline(c) ==
  /\ call[c] = "waiting"
  /\ call' = [call EXCEPT ![c] = "ok"]
  /\ UNCHANGED <<cancelled, closed, task, body, drained, pending>>

-----------------------------------------------------------------------------
(* Tasks. *)

\* tracker.spawn does not look at `closed`: a task may join a closed tracker.
Spawn(t) ==
  /\ task[t] \in {"idle", "aborted"} /\ (t \in Late \/ ~cancelled)
  /\ task' = [task EXCEPT ![t] = IF t \in Plain THEN "running" ELSE "spawned"]
  /\ UNCHANGED <<cancelled, closed, body, call, drained, pending>>

\* A plain task ends, in any way: its outcome stays in its JoinHandle.
FinishPlain(t) ==
  /\ task[t] = "running"
  /\ DropTracked(t, "idle")
  /\ UNCHANGED body

\* First poll of a critical wrapper: the nested tokio::spawn.
StartBody(k) ==
  /\ task[k] = "spawned"
  /\ task' = [task EXCEPT ![k] = "running"]
  /\ body' = [body EXCEPT ![k] = "running"]
  /\ UNCHANGED <<cancelled, closed, call, drained, pending>>

\* The inner task ends; nobody joins the inner task of an aborted wrapper.
FinishBody(k) ==
  /\ body[k] = "running"
  /\ IF task[k] = "detached"
       THEN task' = [task EXCEPT ![k] = "idle"] /\ body' = [body EXCEPT ![k] = "none"]
       ELSE UNCHANGED task /\ \E o \in Outcomes : body' = [body EXCEPT ![k] = o]
  /\ UNCHANGED <<cancelled, closed, call, drained, pending>>

\* The wrapper sees its inner task fail: it cancels the token.
JoinFailed(k) ==
  /\ task[k] = "running" /\ body[k] \in Failures
  /\ task' = [task EXCEPT ![k] = "leaving"]
  /\ cancelled' = TRUE
  /\ UNCHANGED <<closed, body, call, drained, pending>>

\* The wrapper sees its inner task return Ok(()): a clean exit, no cancel.
JoinOk(k) ==
  /\ task[k] = "running" /\ body[k] = "ok"
  /\ DropTracked(k, "idle")
  /\ body' = [body EXCEPT ![k] = "none"]

\* After token.cancel() the wrapper, or the listener, returns.
Leave(t) ==
  /\ task[t] = "leaving"
  /\ DropTracked(t, "idle")
  /\ body' = [k \in Critical |-> IF k = t THEN "none" ELSE body[k]]

\* JoinHandle::abort by the spawner, at an await point of the tracked task.
Abort(t) ==
  /\ t \in Plain \cup Critical /\ task[t] \in {"spawned", "running"}
  /\ IF t \in Critical /\ body[t] = "running"
       THEN DropTracked(t, "detached") /\ UNCHANGED body
       ELSE /\ DropTracked(t, IF t \in Critical THEN "aborted" ELSE "idle")
            /\ body' = [k \in Critical |-> IF k = t THEN "none" ELSE body[k]]

\* First poll of the signal listener: installing a handler may panic, which
\* ends this task and nothing else.
InstallHandlers(l) ==
  /\ task[l] = "spawned"
  /\ task' = [task EXCEPT ![l] = "running"]
  /\ UNCHANGED <<cancelled, closed, body, call, drained, pending>>
InstallPanics(l) ==
  /\ task[l] = "spawned"
  /\ DropTracked(l, "idle")
  /\ UNCHANGED body

\* A signal arrives: the only thing the listener waits for.
Signal(l) ==
  /\ task[l] = "running"
  /\ task' = [task EXCEPT ![l] = "leaving"]
  /\ cancelled' = TRUE
  /\ UNCHANGED <<closed, body, call, drained, pending>>

-----------------------------------------------------------------------------
(* The controller. *)

Trigger ==
  /\ ~cancelled /\ cancelled' = TRUE
  /\ UNCHANGED <<closed, task, body, call, drained, pending>>

\* shutdown() may be called again after it returned.
CancelToken(c) ==
  /\ call[c] \in {"idle", "ok", "timedout"}
  /\ call' = [call EXCEPT ![c] = "cancelled"]
  /\ cancelled' = TRUE
  /\ pending' = [pending EXCEPT ![c] = Tracked]
  /\ drained' = [drained EXCEPT ![c] = FALSE]
  /\ UNCHANGED <<closed, task, body>>

CloseTracker(c) ==
  /\ call[c] = "cancelled"
  /\ call' = [call EXCEPT ![c] = "closed"]
  /\ closed' = TRUE
  /\ UNCHANGED <<cancelled, task, body, drained, pending>>

\* tracker.wait(): the future is complete at once on a closed, empty tracker.
Wait(c) ==
  /\ call[c] = "closed"
  /\ call' = [call EXCEPT ![c] = "waiting"]
  /\ drained' = [drained EXCEPT ![c] = closed /\ Tracked = {}]
  /\ UNCHANGED <<cancelled, closed, task, body, pending>>

WaitIsReady(c) == drained[c] \/ (closed /\ Tracked = {})

\* timeout() polls the wait future before its own deadline.
ReturnOk(c) ==
  /\ call[c] = "waiting" /\ WaitIsReady(c)
  /\ call' = [call EXCEPT ![c] = "ok"]
  /\ UNCHANGED <<cancelled, closed, task, body, drained, pending>>

ReturnTimeout(c) ==
  /\ call[c] = "waiting" /\ ~WaitIsReady(c) /\ c \notin Generous
  /\ call' = [call EXCEPT ![c] = "timedout"]
  /\ UNCHANGED <<cancelled, closed, task, body, drained, pending>>

-----------------------------------------------------------------------------
Poll(t) ==   \* the steps of a task's own future that nothing can hold back
  \/ t \in Critical /\ (StartBody(t) \/ JoinOk(t) \/ JoinFailed(t))
  \/ t \in Listener /\ (InstallHandlers(t) \/ InstallPanics(t))
  \/ Leave(t)

Finish(t) == IF t \in Critical THEN FinishBody(t) ELSE t \in Plain /\ FinishPlain(t)

Shut(c) == \/ CloseTracker(c) \/ Wait(c) \/ ReturnOk(c) \/ ReturnTimeout(c)

Next ==
  \/ \E t \in Tasks : Spawn(t) \/ Poll(t) \/ Finish(t) \/ Abort(t)
  \/ \E l \in Listener : Signal(l)
  \/ Trigger
  \/ \E c \in Callers : CancelToken(c) \/ Shut(c)

\* The runtime polls every task that is ready and every timer fires; a task
\* that watches the token ends once it is cancelled.  No signal need come.
Fairness ==
  /\ \A t \in Tasks : WF_vars(Poll(t))
  /\ \A t \in (Plain \cup Critical) \ Stubborn : WF_vars(cancelled /\ Finish(t))
  /\ \A c \in Callers : WF_vars(Shut(c))

Spec == Init /\ [][Next]_vars /\ Fairness
-----------------------------------------------------------------------------
(* Properties. *)

Cooperative == (Plain \cup Critical) \ (Stubborn \cup Late)

\* shutdown() returns Ok only after every task that was tracked when it was
\* called has been dropped (shutdown.rs:230, "every tracked task finished").
OkOwesNothing == \A c \in Callers : call[c] = "ok" => pending[c] = {}

\* A call that is still waiting waits for a task: it has closed the tracker and
\* some future is tracked, so it never sits out its timeout over an empty
\* tracker (shutdown.rs:243-245: close() is required for termination).
WaitsForSomeTask ==
  \A c \in Callers : call[c] = "waiting" /\ ~drained[c] => closed /\ Tracked # {}

\* A critical task that fails never leaves the tracker before the token is
\* cancelled, unless its own handle was aborted: whoever sees shutdown() return
\* also sees the cancellation (shutdown.rs:175-197).
FailureCancelsFirst ==
  [][\A k \in Critical :
       body[k] \in Failures /\ k \in Tracked /\ k \notin Tracked'
         => cancelled \/ task'[k] = "aborted"]_vars

\* The failure of a critical task does not stay unseen (shutdown.rs:173): the
\* token is cancelled, or somebody aborted the handle.
FailureIsSeen ==
  \A k \in Critical : body[k] \in Failures ~> cancelled \/ task[k] = "aborted"

\* After the token is cancelled the tasks that watch it are gone for good.
CancellationDrains == cancelled ~> [](Tracked \cap Cooperative = {})

\* So one failure ends everything that watches the token, and nothing has to be
\* asked of the caller (shutdown.rs:137-150).
FailureDrains == FailureIsSeen /\ CancellationDrains

\* shutdown() with a finite timeout returns, whatever the tasks do.
ShutdownReturns ==
  \A c \in Callers \ Generous : call[c] = "cancelled" ~> call[c] \in {"ok", "timedout"}

\* With a timeout that is long enough shutdown() succeeds, provided the tasks
\* that do not watch the token leave the tracker together again and again.
\* One such moment is enough, even if a late task is spawned right after it.
GenerousShutdownSucceeds ==
  []<>(Tracked \subseteq Cooperative)
    => \A c \in Generous : call[c] = "cancelled" ~> call[c] = "ok"

\* Every call of shutdown() has its answer (shutdown.rs:237-255): the finite
\* deadline fires, and the end of the last task is not missed before it.
ShutdownAnswers == ShutdownReturns /\ GenerousShutdownSucceeds

\* The controller implements the abstract drain: tracked futures are the work.
Answer == [c \in Callers |->
  IF call[c] \in {"cancelled", "closed", "waiting"} THEN "waiting" ELSE call[c]]
Drain == INSTANCE GracefulDrain WITH
  Work <- Tasks, active <- Tracked, stopping <- cancelled, owed <- pending, answer <- Answer
DrainSpec == Drain!Spec
=============================================================================
