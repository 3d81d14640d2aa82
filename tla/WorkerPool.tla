----------------------------- MODULE WorkerPool -----------------------------
(***************************************************************************)
(* WorkerPool (src/concurrency/worker_pool.rs): a semaphore of Cap permits *)
(* and a JoinSet of the spawned tasks.  submit borrows the pool mutably,   *)
(* so one caller is inside it at a time; the tasks run beside it, and the  *)
(* future of a suspended submit or join may be dropped.                    *)
(***************************************************************************)
EXTENDS FiniteSets, Naturals

CONSTANTS Jobs,      \* the jobs that may be submitted, each once
          Endless,   \* those whose handler never returns
          Cap,       \* max_concurrent
          Threads    \* threads of the runtime that poll tasks

ASSUME CapIsPositive == Cap \in Nat \ {0}     \* a NonZeroUsize
ASSUME ThreadsArePositive == Threads \in Nat \ {0}
ASSUME JobsAreFinite == IsFiniteSet(Jobs) /\ Endless \subseteq Jobs

VARIABLES pc,        \* where the owner of the pool is
          arg,       \* the jobs inside submit: none or one
          task,      \* state of each job's task
          permits,   \* permits in the semaphore
          joins      \* the JoinSet

vars == <<pc, arg, task, permits, joins>>

Init == /\ pc = "idle" /\ arg = {}
        /\ task = [j \in Jobs |-> "outside"]
        /\ permits = Cap /\ joins = {}

In(state) == {j \in Jobs : task[j] = state}

\* A task is "releasing" once its permit is dropped and until its JoinHandle is
\* notified: its poll is not over, so it occupies a thread.
Finished == joins \cap In("finished")

-----------------------------------------------------------------------------
(* Variants with a bug the code does not have; Spec does not use them.       *)

\* submit does not reap.
SubmitUnreaped(j) ==
  /\ pc = "idle" /\ task[j] = "outside"
  /\ pc' = "acquire" /\ arg' = {j} /\ UNCHANGED <<task, permits, joins>>
\* The permit is returned at the end of the task, which a panic skips.
ReleaseUnlessPanic(j) ==
  /\ task[j] = "spawned" /\ j \notin Endless /\ Cardinality(In("releasing")) < Threads
  /\ task' = [task EXCEPT ![j] = "releasing"]
  /\ UNCHANGED <<pc, arg, permits, joins>>
\* The permit returns to the semaphore without waking the waiter.
ReleaseUnheard(j) ==
  /\ task[j] = "spawned" /\ j \notin Endless /\ Cardinality(In("releasing")) < Threads
  /\ task' = [task EXCEPT ![j] = "releasing"]
  /\ permits' = permits + 1 /\ UNCHANGED <<pc, arg, joins>>
\* The permit is dropped before the handler is awaited.
SpawnReleased ==
  /\ pc \in {"spawn", "handed"}
  /\ \E j \in arg : task' = [task EXCEPT ![j] = "spawned"]
  /\ joins' = joins \cup arg /\ pc' = "idle" /\ arg' = {} /\ permits' = permits + 1
\* join returns at the first task that it joins.
JoinFirst ==
  /\ pc = "joining" /\ Finished # {}
  /\ \E j \in Finished : joins' = joins \ {j} /\ task' = [task EXCEPT ![j] = "reaped"]
  /\ pc' = "joined" /\ UNCHANGED <<arg, permits>>
\* join counts the jobs passed to submit, lost ones too.
JoinCountsSubmitted ==
  /\ pc = "joining" /\ \A j \in Jobs : task[j] \in {"outside", "reaped"}
  /\ pc' = "joined" /\ UNCHANGED <<arg, task, permits, joins>>

-----------------------------------------------------------------------------
(* submit. *)

\* The reaping loop, up to the try_join_next that finds nothing.
Submit(j) ==
  /\ pc = "idle" /\ task[j] = "outside"
  /\ joins' = joins \ Finished
  /\ task' = [k \in Jobs |-> IF k \in Finished THEN "reaped" ELSE task[k]]
  /\ pc' = "acquire" /\ arg' = {j} /\ UNCHANGED permits

Acquire ==
  /\ pc = "acquire" /\ permits > 0
  /\ permits' = permits - 1 /\ pc' = "spawn"
  /\ UNCHANGED <<arg, task, joins>>

Suspend ==
  /\ pc = "acquire" /\ permits = 0
  /\ pc' = "waiting" /\ UNCHANGED <<arg, task, permits, joins>>

SpawnTask ==
  /\ pc \in {"spawn", "handed"}
  /\ \E j \in arg : task' = [task EXCEPT ![j] = "spawned"]
  /\ joins' = joins \cup arg
  /\ pc' = "idle" /\ arg' = {} /\ UNCHANGED permits

\* The future of a suspended submit is dropped, and its job with it; a permit
\* it was already handed goes back to the semaphore.
DropSubmit ==
  /\ pc \in {"waiting", "handed"}
  /\ task' = [j \in Jobs |-> IF j \in arg THEN "lost" ELSE task[j]]
  /\ permits' = IF pc = "handed" THEN permits + 1 ELSE permits
  /\ pc' = "idle" /\ arg' = {} /\ UNCHANGED joins

-----------------------------------------------------------------------------
(* The tasks. *)

\* The handler returned or panicked, and its permit is dropped: it goes to the
\* suspended submit, if there is one.
Release(j) ==
  /\ task[j] = "spawned" /\ j \notin Endless /\ Cardinality(In("releasing")) < Threads
  /\ task' = [task EXCEPT ![j] = "releasing"]
  /\ IF pc = "waiting" THEN pc' = "handed" /\ UNCHANGED permits
                       ELSE permits' = permits + 1 /\ UNCHANGED pc
  /\ UNCHANGED <<arg, joins>>

Complete(j) ==
  /\ task[j] = "releasing"
  /\ task' = [task EXCEPT ![j] = "finished"]
  /\ UNCHANGED <<pc, arg, permits, joins>>

\* The task was aborted with its JoinSet and reached an await.
Abort(j) ==
  /\ pc = "dropped" /\ task[j] = "spawned"
  /\ task' = [task EXCEPT ![j] = "aborted"]
  /\ permits' = permits + 1 /\ UNCHANGED <<pc, arg, joins>>

-----------------------------------------------------------------------------
(* join, and dropping the pool. *)

Join == pc = "idle" /\ pc' = "joining" /\ UNCHANGED <<arg, task, permits, joins>>

JoinNext ==
  /\ pc = "joining"
  /\ \E j \in Finished : joins' = joins \ {j} /\ task' = [task EXCEPT ![j] = "reaped"]
  /\ UNCHANGED <<pc, arg, permits>>

JoinReturns ==
  /\ pc = "joining" /\ joins = {}
  /\ pc' = "joined" /\ UNCHANGED <<arg, task, permits, joins>>

\* The pool goes out of scope, alone or with the future of join.
DropPool ==
  /\ pc \in {"idle", "joining"}
  /\ pc' = "dropped" /\ joins' = {} /\ UNCHANGED <<arg, task, permits>>

Owner == Acquire \/ Suspend \/ SpawnTask \/ JoinNext \/ JoinReturns
TaskStep(j) == Release(j) \/ Complete(j)

Next == \/ Owner \/ Join \/ DropPool \/ DropSubmit
        \/ \E j \in Jobs : Submit(j) \/ TaskStep(j) \/ Abort(j)

\* The owner and the tasks are polled when they are ready; nobody has to submit,
\* to join or to drop anything.
Fairness == WF_vars(Owner) /\ \A j \in Jobs : WF_vars(TaskStep(j))

Spec == Init /\ [][Next]_vars /\ Fairness
-----------------------------------------------------------------------------
(* Properties. *)

PCs == {"idle", "acquire", "waiting", "handed", "spawn", "joining", "joined", "dropped"}
TaskStates == {"outside", "spawned", "releasing", "finished", "reaped", "lost", "aborted"}

\* Types; submit holds its job exactly while it runs, and active() counts every
\* task that has not been reaped (lines 113-121).
TypeOK ==
  /\ pc \in PCs /\ arg \in SUBSET Jobs
  /\ pc \in {"acquire", "waiting", "handed", "spawn"} <=> arg # {}
  /\ task \in [Jobs -> TaskStates] /\ permits \in 0..Cap
  /\ joins = IF pc = "dropped" THEN {} ELSE In("spawned") \cup In("releasing") \cup In("finished")

\* No permit is lost or made, whatever future is dropped and whatever handler
\* panics: each is in the semaphore, with a task, or with the one submit that
\* is about to spawn (lines 91-105).
PermitsConserved ==
  permits + Cardinality(In("spawned")) + (IF pc \in {"spawn", "handed"} THEN 1 ELSE 0) = Cap

\* The JoinSet does not grow with the number of jobs (lines 86-89): it exceeds
\* the cap by the tasks whose poll is not over and by one finished task.
JoinSetBounded == Cardinality(joins) <= Cap + Threads + 1

\* No wakeup is lost: a suspended submit waits for as many running jobs as there
\* are permits, also after a submit before it was dropped (lines 91-105).
WaitsOnlyWhenFull == pc = "waiting" => Cardinality(In("spawned")) = Cap

\* submit resumes once a slot frees up (lines 83-84): handlers that never return
\* hold it back only when they fill the pool.
SubmitResumes ==
  Cardinality(Endless) < Cap => (pc \in {"acquire", "waiting", "handed", "spawn"} ~> pc = "idle")

\* join waits for nothing but handlers that never return (lines 108-111).
JoinEnds ==
  pc = "joining" ~> pc \in {"joined", "dropped"} \/ \E j \in Endless : task[j] = "spawned"

\* The pool implements the bounded pool: a job is admitted when it is spawned
\* and has ended when its permit is dropped.
Phase(s) == CASE s = "spawned" -> "admitted"
              [] s \in {"releasing", "finished", "reaped"} -> "ended"
              [] s = "aborted" -> "aborted"
              [] OTHER -> "outside"

Pool == INSTANCE BoundedPool WITH
          phase <- [j \in Jobs |-> Phase(task[j])],
          pool <- CASE pc = "joined" -> "joined" [] pc = "dropped" -> "gone" [] OTHER -> "open"

PoolSpec == Pool!Spec
=============================================================================
