--------------------------- MODULE ShutdownProofs ---------------------------
(***************************************************************************)
(* Safety of Shutdown for any sets of tasks and callers: the inductive     *)
(* invariant, the invariants it gives, the action property about critical  *)
(* tasks, and the step simulation of GracefulDrain.                        *)
(***************************************************************************)
EXTENDS Shutdown, TLAPS

\* pending[c] is a part of the tracker, so an empty tracker settles every call;
\* a notified wait future has nothing left to wait for; a call that got past
\* close() finds the tracker closed, and waits only while it holds a task.
IInv ==
  /\ TypeOK
  /\ \A c \in Callers : pending[c] \subseteq Tracked
  /\ \A c \in Callers : drained[c] \/ call[c] = "ok" => pending[c] = {}
  /\ \A c \in Callers : call[c] \in {"closed", "waiting"} => closed
  /\ \A c \in Callers : call[c] = "waiting" /\ ~drained[c] => Tracked # {}

\* Every step on a task either leaves the rest of the task table alone or is
\* one of these two: a task joins the tracker, or it is dropped from it.
Joins(t) == /\ Tracked' = Tracked \cup {t}
            /\ UNCHANGED <<cancelled, closed, call, drained, pending>>
Stays == /\ Tracked' = Tracked
         /\ cancelled' \in {cancelled, TRUE}
         /\ UNCHANGED <<closed, call, drained, pending>>

-----------------------------------------------------------------------------
(* What the steps do to the set of tracked tasks. *)

\* tracker.spawn adds exactly the new task (shutdown.rs:134).
LEMMA SpawnTracks ==
  ASSUME TypeOK, NEW t \in Tasks, Spawn(t)
  PROVE  Joins(t)
BY DEF Spawn, Joins, Tracked, TypeOK

\* A dropped future leaves the tracker and nothing else does.
LEMMA DropUntracks ==
  ASSUME TypeOK, NEW t \in Tasks, NEW to \in {"idle", "detached", "aborted"}, DropTracked(t, to)
  PROVE  Tracked' = Tracked \ {t}
BY DEF DropTracked, Tracked, TypeOK

\* The steps that move a task without dropping it.
LEMMA OthersStay ==
  ASSUME TypeOK, NEW t \in Tasks,
         \/ t \in Critical /\ (StartBody(t) \/ FinishBody(t) \/ JoinFailed(t))
         \/ t \in Listener /\ (InstallHandlers(t) \/ Signal(t))
  PROVE  Stays
<1>1. CASE t \in Critical /\ StartBody(t)
  BY <1>1 DEF StartBody, Stays, Tracked, TypeOK
<1>2. CASE t \in Critical /\ FinishBody(t)
  BY <1>2 DEF FinishBody, Stays, Tracked, TypeOK
<1>3. CASE t \in Critical /\ JoinFailed(t)
  BY <1>3 DEF JoinFailed, Stays, Tracked, TypeOK
<1>4. CASE t \in Listener /\ InstallHandlers(t)
  BY <1>4 DEF InstallHandlers, Stays, Tracked, TypeOK
<1>5. CASE t \in Listener /\ Signal(t)
  BY <1>5 DEF Signal, Stays, Tracked, TypeOK
<1>. QED  BY <1>1, <1>2, <1>3, <1>4, <1>5

\* The steps in which a tracked future is dropped.
Drops(t) == \/ t \in Plain /\ FinishPlain(t)
            \/ t \in Critical /\ JoinOk(t)
            \/ t \in Listener /\ InstallPanics(t)
            \/ Leave(t)
            \/ Abort(t)

LEMMA DropsAreDrops ==
  ASSUME NEW t \in Tasks, Drops(t)
  PROVE  /\ \E to \in {"idle", "detached", "aborted"} : DropTracked(t, to)
         /\ task[t] \in {"spawned", "running", "leaving"}
<1>1. CASE t \in Plain /\ FinishPlain(t)  BY <1>1 DEF FinishPlain
<1>2. CASE t \in Critical /\ JoinOk(t)  BY <1>2 DEF JoinOk
<1>3. CASE t \in Listener /\ InstallPanics(t)  BY <1>3 DEF InstallPanics
<1>4. CASE Leave(t)  BY <1>4 DEF Leave
<1>5. CASE Abort(t)  BY <1>5 DEF Abort
<1>. QED  BY <1>1, <1>2, <1>3, <1>4, <1>5 DEF Drops

-----------------------------------------------------------------------------
\* The kinds of a step: the case split of every proof below.
LEMMA Steps ==
  ASSUME Next
  PROVE  \/ \E t \in Tasks : Spawn(t)
         \/ \E t \in Tasks : Drops(t)
         \/ \E t \in Tasks :
              \/ t \in Critical /\ (StartBody(t) \/ FinishBody(t) \/ JoinFailed(t))
              \/ t \in Listener /\ (InstallHandlers(t) \/ Signal(t))
         \/ Trigger
         \/ \E c \in Callers : \/ CancelToken(c) \/ CloseTracker(c) \/ Wait(c)
                               \/ ReturnOk(c) \/ ReturnTimeout(c)
<1>1. ASSUME NEW t \in Tasks, Poll(t)
      PROVE  \/ Drops(t)
             \/ t \in Critical /\ (StartBody(t) \/ JoinFailed(t))
             \/ t \in Listener /\ InstallHandlers(t)
  BY <1>1 DEF Poll, Drops
<1>2. ASSUME NEW t \in Tasks, Finish(t)
      PROVE  Drops(t) \/ (t \in Critical /\ FinishBody(t))
  BY <1>2 DEF Finish, Drops
<1>3. ASSUME NEW t \in Tasks, Abort(t)  PROVE  Drops(t)
  BY <1>3 DEF Drops
<1>4. Listener \subseteq Tasks
  BY DEF Tasks
<1>. QED  BY <1>1, <1>2, <1>3, <1>4 DEF Next, Shut

-----------------------------------------------------------------------------
\* Type correctness (TypeOK of the run `shutdown`) for any tasks and callers.
LEMMA TypeStep ==
  ASSUME TypeOK, [Next]_vars
  PROVE  TypeOK'
<1>. USE KindsAreDisjoint
<1>1. ASSUME NEW t \in Tasks, Spawn(t)  PROVE TypeOK'
  BY <1>1 DEF TypeOK, Tracked, Spawn, Tasks
<1>2. ASSUME NEW t \in Tasks, Drops(t)  PROVE TypeOK'
  <2>1. CASE t \in Plain /\ FinishPlain(t)
    BY <2>1 DEF TypeOK, Tracked, FinishPlain, DropTracked, Tasks
  <2>2. CASE t \in Critical /\ JoinOk(t)
    BY <2>2 DEF TypeOK, Tracked, JoinOk, DropTracked, Tasks
  <2>3. CASE t \in Listener /\ InstallPanics(t)
    BY <2>3 DEF TypeOK, Tracked, InstallPanics, DropTracked, Tasks
  <2>4. CASE Leave(t)
    BY <2>4 DEF TypeOK, Tracked, Leave, DropTracked, Tasks
  <2>5. CASE Abort(t)
    BY <2>5 DEF TypeOK, Tracked, Abort, DropTracked, Tasks
  <2>. QED  BY <1>2, <2>1, <2>2, <2>3, <2>4, <2>5 DEF Drops
<1>3. ASSUME NEW t \in Critical, StartBody(t) \/ FinishBody(t) \/ JoinFailed(t)
      PROVE  TypeOK'
  <2>. t \in Tasks /\ t \notin Plain /\ t \notin Listener
    BY DEF Tasks
  <2>1. CASE StartBody(t)
    BY <2>1 DEF TypeOK, Tracked, StartBody
  <2>2. CASE FinishBody(t) /\ task[t] = "detached"
    <3>1. /\ task' = [task EXCEPT ![t] = "idle"] /\ body' = [body EXCEPT ![t] = "none"]
          /\ UNCHANGED <<cancelled, closed, call, drained, pending>>
      BY <2>2 DEF FinishBody
    <3>. QED  BY <2>2, <3>1 DEF TypeOK, Tracked
  <2>3. CASE FinishBody(t) /\ task[t] # "detached"
    <3>1. PICK o \in Outcomes : body' = [body EXCEPT ![t] = o]
      BY <2>3 DEF FinishBody
    <3>. QED  BY <2>3, <3>1 DEF TypeOK, Tracked, FinishBody
  <2>4. CASE JoinFailed(t)
    BY <2>4 DEF TypeOK, Tracked, JoinFailed
  <2>. QED  BY <1>3, <2>1, <2>2, <2>3, <2>4
<1>4. ASSUME NEW t \in Listener, InstallHandlers(t) \/ Signal(t)  PROVE TypeOK'
  BY <1>4 DEF TypeOK, Tracked, InstallHandlers, Signal, Tasks
<1>5. CASE Trigger
  BY <1>5 DEF TypeOK, Tracked, Trigger
<1>6. ASSUME NEW c \in Callers,
             CancelToken(c) \/ CloseTracker(c) \/ Wait(c) \/ ReturnOk(c) \/ ReturnTimeout(c)
      PROVE  TypeOK'
  <2>1. CASE CancelToken(c)
    BY <2>1 DEF TypeOK, Tracked, CancelToken
  <2>2. CASE CloseTracker(c)
    BY <2>2 DEF TypeOK, Tracked, CloseTracker
  <2>3. CASE Wait(c)
    BY <2>3 DEF TypeOK, Tracked, Wait
  <2>4. CASE ReturnOk(c) \/ ReturnTimeout(c)
    BY <2>4 DEF TypeOK, Tracked, ReturnOk, ReturnTimeout
  <2>. QED  BY <1>6, <2>1, <2>2, <2>3, <2>4
<1>7. CASE UNCHANGED vars
  BY <1>7 DEF TypeOK, Tracked, vars
<1>. QED  BY <1>1, <1>2, <1>3, <1>4, <1>5, <1>6, <1>7, Steps

LEMMA InitIInv == Init => IInv
<1>. SUFFICES ASSUME Init PROVE IInv
  OBVIOUS
<1>1. TypeOK
  BY DEF Init, TypeOK, Tasks
<1>2. \A c \in Callers : pending[c] = {} /\ ~drained[c] /\ call[c] = "idle"
  BY DEF Init
<1>. QED  BY <1>1, <1>2 DEF IInv

LEMMA IInvStep ==
  ASSUME IInv, [Next]_vars
  PROVE  IInv'
<1>1. TypeOK /\ TypeOK'
  BY TypeStep DEF IInv
<1>2. ASSUME NEW t \in Tasks, Spawn(t)  PROVE IInv'
  <2>1. Joins(t)
    BY <1>1, <1>2, SpawnTracks
  <2>. QED  BY <1>1, <2>1 DEF IInv, Joins
<1>3. ASSUME NEW t \in Tasks, Drops(t)  PROVE IInv'
  <2>1. PICK to \in {"idle", "detached", "aborted"} : DropTracked(t, to)
    BY <1>3, DropsAreDrops
  <2>2. Tracked' = Tracked \ {t} /\ t \in Tracked
    BY <1>1, <1>3, <2>1, DropUntracks, DropsAreDrops DEF Tracked
  <2>3. \A c \in Callers : pending'[c] = pending[c] \ {t}
    BY <2>1 DEF DropTracked
  <2>4. \A c \in Callers :
          drained'[c] = (drained[c] \/ (call[c] = "waiting" /\ closed /\ Tracked = {t}))
    BY <2>1 DEF DropTracked
  <2>5. call' = call /\ closed' = closed
    BY <2>1 DEF DropTracked
  <2>6. \A c \in Callers : pending'[c] \subseteq Tracked'
    BY <2>2, <2>3 DEF IInv
  <2>7. \A c \in Callers : drained'[c] \/ call'[c] = "ok" => pending'[c] = {}
    BY <2>3, <2>4, <2>5 DEF IInv
  <2>8. \A c \in Callers : call'[c] = "waiting" /\ ~drained'[c] => Tracked' # {}
    BY <2>2, <2>4, <2>5 DEF IInv
  <2>. QED  BY <1>1, <2>5, <2>6, <2>7, <2>8 DEF IInv
<1>4. ASSUME Stays  PROVE IInv'
  BY <1>1, <1>4 DEF IInv, Stays
<1>5. ASSUME NEW c \in Callers, CancelToken(c)  PROVE IInv'
  <2>1. Tracked' = Tracked
    BY <1>5 DEF CancelToken, Tracked
  <2>. QED  BY <1>1, <1>5, <2>1 DEF IInv, TypeOK, CancelToken
<1>6. ASSUME NEW c \in Callers, CloseTracker(c)  PROVE IInv'
  <2>1. Tracked' = Tracked
    BY <1>6 DEF CloseTracker, Tracked
  <2>. QED  BY <1>1, <1>6, <2>1 DEF IInv, TypeOK, CloseTracker
<1>7. ASSUME NEW c \in Callers, Wait(c)  PROVE IInv'
  <2>1. Tracked' = Tracked
    BY <1>7 DEF Wait, Tracked
  <2>. QED  BY <1>1, <1>7, <2>1 DEF IInv, TypeOK, Wait
<1>8. ASSUME NEW c \in Callers, ReturnOk(c) \/ ReturnTimeout(c)  PROVE IInv'
  <2>1. Tracked' = Tracked
    BY <1>8 DEF ReturnOk, ReturnTimeout, Tracked
  <2>. QED  BY <1>1, <1>8, <2>1 DEF IInv, TypeOK, ReturnOk, ReturnTimeout, WaitIsReady
<1>9. CASE Trigger \/ UNCHANGED vars
  <2>1. Stays
    BY <1>9 DEF Trigger, vars, Stays, Tracked
  <2>. QED  BY <1>4, <2>1
<1>. QED  BY <1>1, <1>2, <1>3, <1>4, <1>5, <1>6, <1>7, <1>8, <1>9, Steps, OthersStay

\* The inductive invariant holds in every state.
THEOREM Invariance == Spec => []IInv
<1>. QED  BY InitIInv, IInvStep, PTL DEF Spec

\* The tables keep their types, and an inner task runs under a tracked wrapper,
\* unless the wrapper's own handle was aborted (shutdown.rs:172-199).
THEOREM TypeCorrect == Spec => []TypeOK
<1>1. IInv => TypeOK  BY DEF IInv
<1>. QED  BY <1>1, Invariance, PTL

\* shutdown() returning Ok means that every task tracked when it was called is
\* gone (shutdown.rs:230), for any number of tasks, callers and repeated calls.
THEOREM OkDrainsEarlierTasks == Spec => []OkOwesNothing
<1>1. IInv => OkOwesNothing  BY DEF IInv, OkOwesNothing
<1>. QED  BY <1>1, Invariance, PTL

\* No call waits out its timeout over an empty tracker (shutdown.rs:243-246).
THEOREM WaitsOnlyForTasks == Spec => []WaitsForSomeTask
<1>1. IInv => WaitsForSomeTask  BY DEF IInv, WaitsForSomeTask
<1>. QED  BY <1>1, Invariance, PTL
-----------------------------------------------------------------------------
\* What a wrapper or a listener does last: it has cancelled the token.
LeavingCancelled == \A t \in Tasks : task[t] = "leaving" => cancelled

LEMMA LeavingStep ==
  ASSUME TypeOK, LeavingCancelled, [Next]_vars
  PROVE  LeavingCancelled'
<1>1. ASSUME NEW t \in Tasks, Spawn(t)  PROVE LeavingCancelled'
  BY <1>1 DEF TypeOK, LeavingCancelled, Spawn
<1>2. ASSUME NEW t \in Tasks, Drops(t)  PROVE LeavingCancelled'
  <2>1. PICK to \in {"idle", "detached", "aborted"} : DropTracked(t, to)
    BY <1>2, DropsAreDrops
  <2>. QED  BY <2>1 DEF TypeOK, LeavingCancelled, DropTracked
<1>3. ASSUME NEW t \in Tasks, StartBody(t) \/ FinishBody(t) \/ InstallHandlers(t)
      PROVE  LeavingCancelled'
  BY <1>3 DEF TypeOK, LeavingCancelled, StartBody, FinishBody, InstallHandlers
<1>4. ASSUME NEW t \in Tasks, JoinFailed(t) \/ Signal(t)  PROVE LeavingCancelled'
  BY <1>4 DEF LeavingCancelled, JoinFailed, Signal
<1>5. ASSUME NEW c \in Callers,
             CancelToken(c) \/ CloseTracker(c) \/ Wait(c) \/ ReturnOk(c) \/ ReturnTimeout(c)
      PROVE  LeavingCancelled'
  BY <1>5 DEF LeavingCancelled, CancelToken, CloseTracker, Wait, ReturnOk, ReturnTimeout
<1>6. CASE Trigger \/ UNCHANGED vars
  BY <1>6 DEF LeavingCancelled, Trigger, vars
<1>. QED  BY <1>1, <1>2, <1>3, <1>4, <1>5, <1>6, Steps

\* A failed critical task cancels the token before it leaves the tracker,
\* unless its handle was aborted (shutdown.rs:175-197).
THEOREM CriticalFailureCancelsFirst == Spec => FailureCancelsFirst
<1>1. Init => LeavingCancelled
  BY DEF Init, LeavingCancelled
<1>2. ASSUME TypeOK, LeavingCancelled, [Next]_vars,
             NEW k \in Critical, body[k] \in Failures, k \in Tracked, k \notin Tracked'
      PROVE  cancelled \/ task'[k] = "aborted"
  <2>1. PICK t \in Tasks : Drops(t)
    <3>1. ASSUME NEW t \in Tasks, Spawn(t)  PROVE FALSE
      BY <1>2, <3>1, SpawnTracks DEF Joins
    <3>2. ASSUME Stays  PROVE FALSE
      BY <1>2, <3>2 DEF Stays
    <3>3. CASE \/ Trigger \/ UNCHANGED vars
               \/ \E c \in Callers : \/ CancelToken(c) \/ CloseTracker(c) \/ Wait(c)
                                     \/ ReturnOk(c) \/ ReturnTimeout(c)
      BY <1>2, <3>3
         DEF Tracked, Trigger, vars, CancelToken, CloseTracker, Wait, ReturnOk, ReturnTimeout
    <3>. QED  BY <1>2, <3>1, <3>2, <3>3, Steps, OthersStay
  <2>2. t = k
    BY <1>2, <2>1, DropsAreDrops, DropUntracks
  <2>3. t \notin Plain /\ t \notin Listener
    BY <2>2, KindsAreDisjoint
  <2>4. CASE Leave(t)
    BY <1>2, <2>4 DEF Leave, LeavingCancelled
  <2>5. CASE t \in Critical /\ JoinOk(t)
    BY <1>2, <2>2, <2>5 DEF JoinOk, Failures
  <2>6. CASE Abort(t)
    <3>1. body[t] # "running"
      BY <1>2, <2>2 DEF Failures
    <3>2. t \in Critical /\ DropTracked(t, "aborted")
      BY <1>2, <2>2, <2>6, <3>1 DEF Abort
    <3>. QED  BY <1>2, <2>2, <3>2 DEF DropTracked, TypeOK
  <2>. QED  BY <2>1, <2>2, <2>3, <2>4, <2>5, <2>6 DEF Drops
<1>3. TypeOK /\ LeavingCancelled /\ [Next]_vars
        => [\A k \in Critical :
              body[k] \in Failures /\ k \in Tracked /\ k \notin Tracked'
                => cancelled \/ task'[k] = "aborted"]_vars
  BY <1>2
<1>4. Spec => []LeavingCancelled
  BY <1>1, TypeCorrect, LeavingStep, PTL DEF Spec
<1>. QED  BY <1>3, <1>4, TypeCorrect, PTL DEF Spec, FailureCancelsFirst

-----------------------------------------------------------------------------
(* Refinement: every step is a step of GracefulDrain or leaves it alone. *)

LEMMA DrainInit == Init => Drain!Init
<1>. SUFFICES ASSUME Init PROVE Drain!Init
  OBVIOUS
<1>1. Tracked = {}
  BY DEF Init, Tracked
<1>2. Answer = [c \in Callers |-> "idle"]
  BY DEF Init, Answer
<1>. QED  BY <1>1, <1>2 DEF Init, Drain!Init

LEMMA DrainStep ==
  ASSUME IInv, [Next]_vars
  PROVE  [Drain!Next]_(Drain!vars)
<1>. USE DEF Drain!Next, Drain!vars
<1>1. TypeOK
  BY DEF IInv
<1>2. ASSUME NEW t \in Tasks, Spawn(t)  PROVE [Drain!Next]_(Drain!vars)
  <2>1. Joins(t) /\ t \notin Tracked
    BY <1>1, <1>2, SpawnTracks DEF Spawn, Tracked
  <2>2. Drain!StartWork(t)
    BY <2>1 DEF Drain!StartWork, Joins, Answer
  <2>. QED  BY <2>2
<1>3. ASSUME NEW t \in Tasks, Drops(t)  PROVE [Drain!Next]_(Drain!vars)
  <2>1. PICK to \in {"idle", "detached", "aborted"} : DropTracked(t, to)
    BY <1>3, DropsAreDrops
  <2>2. Tracked' = Tracked \ {t} /\ t \in Tracked
    BY <1>1, <1>3, <2>1, DropUntracks, DropsAreDrops DEF Tracked
  <2>3. Drain!FinishWork(t)
    BY <2>1, <2>2 DEF Drain!FinishWork, DropTracked, Answer
  <2>. QED  BY <2>3
<1>4. ASSUME Stays  PROVE [Drain!Next]_(Drain!vars)
  <2>1. UNCHANGED <<Tracked, pending, Answer>>
    BY <1>4 DEF Stays, Answer
  <2>. QED  BY <1>4, <2>1 DEF Stays, Drain!Stop
<1>5. ASSUME NEW c \in Callers, CancelToken(c)  PROVE [Drain!Next]_(Drain!vars)
  <2>1. Tracked' = Tracked
    BY <1>5 DEF CancelToken, Tracked
  <2>2. Answer' = [Answer EXCEPT ![c] = "waiting"] /\ Answer[c] # "waiting"
    BY <1>1, <1>5 DEF TypeOK, CancelToken, Answer
  <2>3. Drain!Request(c)
    BY <1>5, <2>1, <2>2 DEF Drain!Request, CancelToken
  <2>. QED  BY <2>3
<1>6. ASSUME NEW c \in Callers, CloseTracker(c) \/ Wait(c)
      PROVE  [Drain!Next]_(Drain!vars)
  <2>1. Tracked' = Tracked /\ Answer' = Answer
    BY <1>1, <1>6 DEF TypeOK, CloseTracker, Wait, Tracked, Answer
  <2>. QED  BY <1>6, <2>1 DEF CloseTracker, Wait
<1>7. ASSUME NEW c \in Callers, ReturnOk(c)  PROVE [Drain!Next]_(Drain!vars)
  <2>1. Tracked' = Tracked
    BY <1>7 DEF ReturnOk, Tracked
  <2>2. Answer' = [Answer EXCEPT ![c] = "ok"] /\ Answer[c] = "waiting"
    BY <1>1, <1>7 DEF TypeOK, ReturnOk, Answer
  <2>3. pending[c] = {}
    BY <1>7 DEF IInv, ReturnOk, WaitIsReady
  <2>4. Drain!Succeed(c)
    BY <1>7, <2>1, <2>2, <2>3 DEF Drain!Succeed, ReturnOk
  <2>. QED  BY <2>4
<1>8. ASSUME NEW c \in Callers, ReturnTimeout(c)  PROVE [Drain!Next]_(Drain!vars)
  <2>1. Tracked' = Tracked
    BY <1>8 DEF ReturnTimeout, Tracked
  <2>2. Answer' = [Answer EXCEPT ![c] = "timedout"] /\ Answer[c] = "waiting"
    BY <1>1, <1>8 DEF TypeOK, ReturnTimeout, Answer
  <2>3. Drain!GiveUp(c)
    BY <1>8, <2>1, <2>2 DEF Drain!GiveUp, ReturnTimeout
  <2>. QED  BY <2>3
<1>9. CASE Trigger \/ UNCHANGED vars
  <2>1. Stays
    BY <1>9 DEF Trigger, vars, Stays, Tracked
  <2>. QED  BY <1>4, <2>1
<1>. QED
  BY <1>1, <1>2, <1>3, <1>4, <1>5, <1>6, <1>7, <1>8, <1>9, Steps, OthersStay

\* The controller implements GracefulDrain (DrainSpec of the run `shutdown`).
THEOREM ImplementsDrain == Spec => DrainSpec
<1>. QED  BY DrainInit, DrainStep, Invariance, PTL DEF Spec, DrainSpec, Drain!Spec
=============================================================================
