-------------------------- MODULE WorkerPoolProofs --------------------------
(***************************************************************************)
(* Safety of WorkerPool for any number of jobs, permits and threads, by    *)
(* counting: each permit has one place, so what is spawned and not yet     *)
(* released is at most Cap; what is released and not yet finished occupies *)
(* a thread; and submit has just reaped everything else.                   *)
(***************************************************************************)
EXTENDS WorkerPool, FiniteSetTheorems, TLAPS

Submitting == pc \in {"acquire", "waiting", "handed", "spawn"}
Granted == IF pc \in {"spawn", "handed"} THEN 1 ELSE 0

IInv ==
  /\ TypeOK
  /\ arg \subseteq In("outside")
  /\ \A j, k \in arg : j = k
  /\ PermitsConserved
  /\ Cardinality(In("releasing")) <= Threads
  /\ Submitting => Cardinality(joins) <= Cap + Threads
  /\ JoinSetBounded

\* Sets of jobs are finite and can be counted.
LEMMA Countable ==
  ASSUME NEW S \in SUBSET Jobs
  PROVE  IsFiniteSet(S) /\ Cardinality(S) \in Nat
<1>. QED  BY JobsAreFinite, FS_Subset, FS_CardinalityType

\* How a change of one task's state moves it between the sets In(_).
LEMMA Moved ==
  ASSUME task \in [Jobs -> TaskStates], NEW j \in Jobs, NEW s, NEW t,
         task' = [task EXCEPT ![j] = s]
  PROVE  In(t)' = IF t = s THEN In(t) \cup {j} ELSE In(t) \ {j}
<1>. QED  BY DEF In

\* Adding a new member to a set of jobs, and removing one.
LEMMA Count ==
  ASSUME NEW S \in SUBSET Jobs, NEW j \in Jobs
  PROVE  /\ Cardinality(S) \in Nat
         /\ j \notin S => Cardinality(S \cup {j}) = Cardinality(S) + 1
         /\ j \notin S => S \ {j} = S
         /\ j \in S => Cardinality(S \ {j}) = Cardinality(S) - 1
         /\ Cardinality(S \ {j}) <= Cardinality(S)
<1>1. IsFiniteSet(S) /\ Cardinality(S) \in Nat
  BY Countable
<1>2. /\ Cardinality(S \cup {j}) = IF j \in S THEN Cardinality(S) ELSE Cardinality(S)+1
      /\ Cardinality(S \ {j}) = IF j \in S THEN Cardinality(S)-1 ELSE Cardinality(S)
  BY <1>1, FS_AddElement, FS_RemoveElement
<1>. QED  BY <1>1, <1>2

\* After the reaping loop the JoinSet holds tasks with a permit or a thread.
LEMMA ReapedJoinSet ==
  ASSUME IInv, NEW S, S \subseteq In("spawned") \cup In("releasing")
  PROVE  Cardinality(S) <= Cap + Threads
<1>. DEFINE A == In("spawned")
            B == In("releasing")
<1>1. A \in SUBSET Jobs /\ B \in SUBSET Jobs /\ A \cup B \in SUBSET Jobs /\ A \cap B = {}
  BY DEF In
<1>2. /\ IsFiniteSet(A) /\ IsFiniteSet(B) /\ IsFiniteSet(A \cup B)
      /\ Cardinality(A) \in Nat /\ Cardinality(B) \in Nat
  BY <1>1, Countable
<1>3. Cardinality(A \cup B) = Cardinality(A) + Cardinality(B) - Cardinality(A \cap B)
  BY <1>2, FS_Union
<1>4. Cardinality(A \cap B) = 0
  BY <1>1, FS_EmptySet
<1>5. S \in SUBSET (A \cup B)
  OBVIOUS
<1>6. Cardinality(S) <= Cardinality(A \cup B) /\ IsFiniteSet(S)
  BY <1>2, <1>5, FS_Subset
<1>7. Cardinality(S) \in Nat
  BY <1>6, FS_CardinalityType
<1>8. Cap \in Nat /\ Threads \in Nat /\ permits \in Nat
  BY CapIsPositive, ThreadsArePositive DEF IInv, TypeOK
<1>9. Cardinality(A) <= Cap /\ Cardinality(B) <= Threads
  BY <1>2, <1>8 DEF IInv, PermitsConserved
<1>. HIDE DEF A, B
<1>. QED  BY <1>2, <1>3, <1>4, <1>6, <1>7, <1>8, <1>9

-----------------------------------------------------------------------------
LEMMA InitIInv == Init => IInv
<1>. SUFFICES ASSUME Init PROVE IInv
  OBVIOUS
<1>1. /\ In("outside") = Jobs /\ In("spawned") = {} /\ In("releasing") = {}
      /\ In("finished") = {}
  BY DEF Init, In
<1>2. Cardinality({}) = 0
  BY FS_EmptySet
<1>3. Cap \in Nat /\ Threads \in Nat
  BY CapIsPositive, ThreadsArePositive
<1>4. TypeOK
  BY <1>1, <1>3 DEF Init, TypeOK, PCs, TaskStates
<1>. QED  BY <1>1, <1>2, <1>3, <1>4 DEF Init, IInv, PermitsConserved, JoinSetBounded, Submitting

\* The steps of the owner that touch no task.
LEMMA OwnerStep ==
  ASSUME IInv, Acquire \/ Suspend \/ Join \/ JoinReturns
  PROVE  IInv'
<1>1. /\ UNCHANGED <<task, joins, arg>> /\ pc' \in PCs
      /\ pc # "dropped" /\ pc' # "dropped"
      /\ Submitting' <=> Submitting
  BY DEF Acquire, Suspend, Join, JoinReturns, PCs, Submitting
<1>2. \A s : In(s)' = In(s)
  BY <1>1 DEF In
<1>3. Cardinality(In("spawned")) \in Nat /\ Cap \in Nat
  <2>1. In("spawned") \in SUBSET Jobs
    BY DEF In
  <2>. QED  BY <2>1, Countable, CapIsPositive
<1>4. PermitsConserved' /\ permits' \in 0..Cap
  <2>1. permits \in 0..Cap /\ PermitsConserved
    BY DEF IInv, TypeOK
  <2>2. CASE Acquire
    BY <1>2, <1>3, <2>1, <2>2 DEF Acquire, PermitsConserved
  <2>3. CASE Suspend \/ Join \/ JoinReturns
    BY <1>2, <2>1, <2>3 DEF Suspend, Join, JoinReturns, PermitsConserved
  <2>. QED  BY <2>2, <2>3
<1>5. TypeOK'
  BY <1>1, <1>2, <1>4 DEF IInv, TypeOK, Submitting
<1>. QED  BY <1>1, <1>2, <1>4, <1>5 DEF IInv, JoinSetBounded

LEMMA SubmitStep ==
  ASSUME IInv, NEW j \in Jobs, Submit(j)
  PROVE  IInv'
<1>. USE DEF IInv
<1>1. /\ pc = "idle" /\ task[j] = "outside" /\ pc' = "acquire" /\ arg' = {j}
      /\ UNCHANGED permits /\ joins' = joins \ Finished
      /\ task' = [k \in Jobs |-> IF k \in Finished THEN "reaped" ELSE task[k]]
  BY DEF Submit
<1>2. /\ joins = In("spawned") \cup In("releasing") \cup In("finished")
      /\ Finished = In("finished") /\ task \in [Jobs -> TaskStates]
  BY <1>1 DEF TypeOK, Finished
<1>3. /\ In("spawned")' = In("spawned") /\ In("releasing")' = In("releasing")
      /\ In("finished")' = {} /\ In("outside")' = In("outside")
  BY <1>1, <1>2 DEF In
<1>4. joins' = In("spawned") \cup In("releasing")
  BY <1>1, <1>2 DEF In
<1>5. task' \in [Jobs -> TaskStates]
  BY <1>1, <1>2 DEF TaskStates
<1>6. TypeOK'
  BY <1>1, <1>3, <1>4, <1>5 DEF TypeOK, PCs
<1>7. Cardinality(joins') <= Cap + Threads
  BY <1>4, ReapedJoinSet
<1>8. Cardinality(joins') \in Nat /\ Cap \in Nat /\ Threads \in Nat
  <2>1. joins' \in SUBSET Jobs
    BY <1>4 DEF In
  <2>. QED  BY <2>1, Countable, CapIsPositive, ThreadsArePositive
<1>9. PermitsConserved'
  BY <1>1, <1>3 DEF PermitsConserved
<1>10. arg' \subseteq In("outside")'
  BY <1>1, <1>3 DEF In
<1>. QED  BY <1>1, <1>3, <1>6, <1>7, <1>8, <1>9, <1>10 DEF JoinSetBounded

LEMMA SpawnStep ==
  ASSUME IInv, SpawnTask
  PROVE  IInv'
<1>. USE DEF IInv
<1>1. PICK j \in arg : task' = [task EXCEPT ![j] = "spawned"]
  BY DEF SpawnTask
<1>2. /\ pc \in {"spawn", "handed"} /\ pc' = "idle" /\ arg' = {}
      /\ joins' = joins \cup arg /\ UNCHANGED permits
  BY DEF SpawnTask
<1>3. arg = {j} /\ j \in Jobs /\ task[j] = "outside" /\ task \in [Jobs -> TaskStates]
  BY <1>1 DEF TypeOK, In
<1>4. \A t : In(t)' = IF t = "spawned" THEN In(t) \cup {j} ELSE In(t) \ {j}
  BY <1>1, <1>3, Moved
<1>5. \A t : t # "outside" => j \notin In(t)
  BY <1>3 DEF In
<1>6. /\ In("spawned")' = In("spawned") \cup {j} /\ In("releasing")' = In("releasing")
      /\ In("finished")' = In("finished")
  BY <1>4, <1>5
<1>7. joins = In("spawned") \cup In("releasing") \cup In("finished") /\ j \notin joins
  BY <1>2, <1>5 DEF TypeOK
<1>8. joins' = In("spawned")' \cup In("releasing")' \cup In("finished")'
  BY <1>2, <1>3, <1>6, <1>7
<1>9. joins \in SUBSET Jobs /\ In("spawned") \in SUBSET Jobs
  BY <1>7 DEF In
<1>10. /\ Cardinality(joins \cup {j}) = Cardinality(joins) + 1
       /\ Cardinality(In("spawned") \cup {j}) = Cardinality(In("spawned")) + 1
       /\ Cardinality(joins) \in Nat /\ Cardinality(In("spawned")) \in Nat
  <2>1. j \in Jobs /\ j \notin joins /\ j \notin In("spawned")
    BY <1>3, <1>5, <1>7
  <2>. QED  BY <1>9, <2>1, Count
<1>11. Cap \in Nat /\ Threads \in Nat /\ permits \in Nat
  BY CapIsPositive, ThreadsArePositive DEF TypeOK
<1>12. PermitsConserved'
  <2>1. permits + Cardinality(In("spawned")) + 1 = Cap
    BY <1>2 DEF PermitsConserved
  <2>2. Cardinality(In("spawned")') = Cardinality(In("spawned")) + 1
    BY <1>6, <1>10
  <2>. QED  BY <1>2, <1>10, <1>11, <2>1, <2>2 DEF PermitsConserved
<1>13. JoinSetBounded'
  BY <1>2, <1>3, <1>10, <1>11 DEF JoinSetBounded, Submitting
<1>14. TypeOK'
  BY <1>1, <1>2, <1>3, <1>8 DEF TypeOK, PCs, TaskStates
<1>15. /\ arg' \subseteq In("outside")' /\ \A k, l \in arg' : k = l
       /\ ~Submitting' /\ Cardinality(In("releasing"))' <= Threads
  BY <1>2, <1>6 DEF Submitting
<1>. QED  BY <1>12, <1>13, <1>14, <1>15

LEMMA DropSubmitStep ==
  ASSUME IInv, DropSubmit
  PROVE  IInv'
<1>. USE DEF IInv
<1>1. /\ pc \in {"waiting", "handed"} /\ pc' = "idle" /\ arg' = {} /\ UNCHANGED joins
      /\ task' = [j \in Jobs |-> IF j \in arg THEN "lost" ELSE task[j]]
      /\ permits' = IF pc = "handed" THEN permits + 1 ELSE permits
  BY DEF DropSubmit
<1>2. arg \subseteq In("outside") /\ task \in [Jobs -> TaskStates]
  BY DEF TypeOK
<1>3. /\ In("spawned")' = In("spawned") /\ In("releasing")' = In("releasing")
      /\ In("finished")' = In("finished")
  BY <1>1, <1>2 DEF In
<1>4. Cardinality(In("spawned")) \in Nat /\ Cap \in Nat
  <2>1. In("spawned") \in SUBSET Jobs
    BY DEF In
  <2>. QED  BY <2>1, Countable, CapIsPositive
<1>5. PermitsConserved' /\ permits' \in 0..Cap
  BY <1>1, <1>3, <1>4 DEF PermitsConserved, TypeOK
<1>6. task' \in [Jobs -> TaskStates]
  BY <1>1, <1>2 DEF TaskStates
<1>7. TypeOK'
  BY <1>1, <1>3, <1>5, <1>6 DEF TypeOK, PCs
<1>. QED  BY <1>1, <1>3, <1>5, <1>7 DEF JoinSetBounded, Submitting

LEMMA ReleaseStep ==
  ASSUME IInv, NEW j \in Jobs, Release(j) \/ Abort(j)
  PROVE  IInv'
<1>. USE DEF IInv
<1>1. PICK r \in {"releasing", "aborted"} :
        /\ task' = [task EXCEPT ![j] = r]
        /\ r = "releasing" => Cardinality(In("releasing")) < Threads
        /\ r = "aborted" => pc = "dropped"
  BY DEF Release, Abort
<1>2. /\ task[j] = "spawned" /\ UNCHANGED <<arg, joins>>
      /\ \/ pc = "waiting" /\ pc' = "handed" /\ UNCHANGED permits
         \/ permits' = permits + 1 /\ UNCHANGED pc
  BY DEF Release, Abort
<1>3. task \in [Jobs -> TaskStates]
  BY DEF TypeOK
<1>4. \A t : In(t)' = IF t = r THEN In(t) \cup {j} ELSE In(t) \ {j}
  BY <1>1, <1>3, Moved
<1>5. j \in In("spawned") /\ \A t : t # "spawned" => j \notin In(t)
  BY <1>2 DEF In
<1>6. /\ In("spawned")' = In("spawned") \ {j}
      /\ In("finished")' = In("finished") /\ arg' \subseteq In("outside")'
  BY <1>1, <1>2, <1>4, <1>5
<1>7. In("releasing")' = IF r = "releasing" THEN In("releasing") \cup {j} ELSE In("releasing")
  BY <1>1, <1>4, <1>5
<1>8. In("spawned") \in SUBSET Jobs /\ In("releasing") \in SUBSET Jobs
  BY DEF In
<1>9. /\ Cardinality(In("spawned") \ {j}) = Cardinality(In("spawned")) - 1
      /\ Cardinality(In("releasing") \cup {j}) = Cardinality(In("releasing")) + 1
      /\ Cardinality(In("spawned")) \in Nat /\ Cardinality(In("releasing")) \in Nat
  BY <1>5, <1>8, Count
<1>10. Cardinality(In("spawned") \ {j}) \in Nat
  BY <1>8, Countable
<1>11. Cap \in Nat /\ Threads \in Nat /\ permits \in 0..Cap
  BY CapIsPositive, ThreadsArePositive DEF TypeOK
<1>12. PermitsConserved' /\ permits' \in 0..Cap
  <2>. DEFINE count == Cardinality(In("spawned"))
  <2>1. count' = count - 1 /\ count \in Nat /\ count' \in Nat
    BY <1>6, <1>9, <1>10
  <2>2. permits + count + (IF pc \in {"spawn", "handed"} THEN 1 ELSE 0) = Cap
    BY DEF PermitsConserved
  <2>3. permits' + count' + (IF pc' \in {"spawn", "handed"} THEN 1 ELSE 0) = Cap
    BY <1>2, <1>11, <2>1, <2>2
  <2>4. permits' \in 0..Cap
    BY <1>2, <1>11, <2>1, <2>2, <2>3
  <2>. QED  BY <2>3, <2>4 DEF PermitsConserved
<1>13. Cardinality(In("releasing")') <= Threads
  BY <1>1, <1>7, <1>9, <1>11
<1>14. joins' = IF pc' = "dropped" THEN {}
                ELSE In("spawned")' \cup In("releasing")' \cup In("finished")'
  BY <1>1, <1>2, <1>5, <1>6, <1>7 DEF TypeOK
<1>15. task' \in [Jobs -> TaskStates]
  BY <1>1, <1>3 DEF TaskStates
<1>16. TypeOK'
  BY <1>2, <1>12, <1>14, <1>15 DEF TypeOK, PCs
<1>17. JoinSetBounded' /\ (Submitting' => Cardinality(joins)' <= Cap + Threads)
  BY <1>2 DEF JoinSetBounded, Submitting
<1>18. \A k, l \in arg' : k = l
  BY <1>2
<1>. QED  BY <1>6, <1>12, <1>13, <1>16, <1>17, <1>18

LEMMA CompleteStep ==
  ASSUME IInv, NEW j \in Jobs, Complete(j)
  PROVE  IInv'
<1>. USE DEF IInv
<1>1. /\ task[j] = "releasing" /\ task' = [task EXCEPT ![j] = "finished"]
      /\ UNCHANGED <<pc, arg, permits, joins>>
  BY DEF Complete
<1>2. task \in [Jobs -> TaskStates]
  BY DEF TypeOK
<1>3. \A t : In(t)' = IF t = "finished" THEN In(t) \cup {j} ELSE In(t) \ {j}
  BY <1>1, <1>2, Moved
<1>4. j \in In("releasing") /\ \A t : t # "releasing" => j \notin In(t)
  BY <1>1 DEF In
<1>5. /\ In("spawned")' = In("spawned") /\ In("releasing")' = In("releasing") \ {j}
      /\ In("finished")' = In("finished") \cup {j} /\ arg' \subseteq In("outside")'
  BY <1>1, <1>3, <1>4
<1>6. Cardinality(In("releasing")') <= Threads
  <2>1. In("releasing") \in SUBSET Jobs /\ In("releasing") \ {j} \in SUBSET Jobs
    BY DEF In
  <2>2. Cardinality(In("releasing") \ {j}) <= Cardinality(In("releasing"))
    BY <2>1, Count
  <2>3. Cardinality(In("releasing") \ {j}) \in Nat /\ Cardinality(In("releasing")) \in Nat
    BY <2>1, Countable
  <2>. QED  BY <1>5, <2>2, <2>3, ThreadsArePositive
<1>7. task' \in [Jobs -> TaskStates]
  BY <1>1, <1>2 DEF TaskStates
<1>8. joins' = IF pc' = "dropped" THEN {}
               ELSE In("spawned")' \cup In("releasing")' \cup In("finished")'
  <2>1. joins = IF pc = "dropped" THEN {}
                ELSE In("spawned") \cup In("releasing") \cup In("finished")
    BY DEF TypeOK
  <2>. QED  BY <1>1, <1>4, <1>5, <2>1
<1>9. TypeOK'
  BY <1>1, <1>7, <1>8 DEF TypeOK
<1>. QED  BY <1>1, <1>5, <1>6, <1>9 DEF JoinSetBounded, Submitting, PermitsConserved

LEMMA JoinNextStep ==
  ASSUME IInv, JoinNext
  PROVE  IInv'
<1>. USE DEF IInv
<1>1. PICK j \in Finished : joins' = joins \ {j} /\ task' = [task EXCEPT ![j] = "reaped"]
  BY DEF JoinNext
<1>2. pc = "joining" /\ UNCHANGED <<pc, arg, permits>>
  BY DEF JoinNext
<1>3. j \in Jobs /\ j \in joins /\ task[j] = "finished" /\ task \in [Jobs -> TaskStates]
  BY <1>1 DEF TypeOK, Finished, In
<1>4. \A t : In(t)' = IF t = "reaped" THEN In(t) \cup {j} ELSE In(t) \ {j}
  BY <1>1, <1>3, Moved
<1>5. \A t : t # "finished" => j \notin In(t)
  BY <1>3 DEF In
<1>6. /\ In("spawned")' = In("spawned") /\ In("releasing")' = In("releasing")
      /\ In("finished")' = In("finished") \ {j} /\ arg' \subseteq In("outside")'
  BY <1>2, <1>4, <1>5
<1>7. joins \in SUBSET Jobs
  BY <1>2 DEF TypeOK, In
<1>8. Cardinality(joins \ {j}) = Cardinality(joins) - 1 /\ Cardinality(joins) \in Nat
  BY <1>3, <1>7, Count
<1>9. JoinSetBounded'
  BY <1>1, <1>8, CapIsPositive, ThreadsArePositive DEF JoinSetBounded
<1>10. joins' = In("spawned")' \cup In("releasing")' \cup In("finished")'
  BY <1>1, <1>2, <1>5, <1>6 DEF TypeOK
<1>11. task' \in [Jobs -> TaskStates]
  BY <1>1, <1>3 DEF TaskStates
<1>12. TypeOK'
  BY <1>2, <1>10, <1>11 DEF TypeOK
<1>. QED  BY <1>2, <1>6, <1>9, <1>12 DEF Submitting, PermitsConserved

LEMMA DropPoolStep ==
  ASSUME IInv, DropPool
  PROVE  IInv'
<1>1. /\ pc \in {"idle", "joining"} /\ pc' = "dropped" /\ joins' = {}
      /\ UNCHANGED <<arg, task, permits>>
  BY DEF DropPool
<1>2. \A s : In(s)' = In(s)
  BY <1>1 DEF In
<1>3. Cardinality({}) = 0
  BY FS_EmptySet
<1>4. TypeOK'
  BY <1>1, <1>2 DEF IInv, TypeOK, PCs
<1>. QED  BY <1>1, <1>2, <1>3, <1>4, CapIsPositive, ThreadsArePositive
            DEF IInv, Submitting, PermitsConserved, JoinSetBounded

LEMMA StutterStep ==
  ASSUME IInv, UNCHANGED vars
  PROVE  IInv'
<1>1. \A s : In(s)' = In(s)
  BY DEF In, vars
<1>. QED  BY <1>1 DEF IInv, vars, TypeOK, Submitting, PermitsConserved, JoinSetBounded

\* The inductive invariant holds in every state.
THEOREM Invariance == Spec => []IInv
<1>1. IInv /\ [Next]_vars => IInv'
  BY OwnerStep, SubmitStep, SpawnStep, DropSubmitStep, ReleaseStep, CompleteStep,
     JoinNextStep, DropPoolStep, StutterStep DEF Next, Owner, TaskStep
<1>. QED  BY InitIInv, <1>1, PTL DEF Spec

\* Types, and active() counts exactly the tasks that are not reaped.
THEOREM TypeCorrect == Spec => []TypeOK
<1>1. IInv => TypeOK  BY DEF IInv
<1>. QED  BY <1>1, Invariance, PTL

\* No permit is lost or made (worker_pool.rs:91-105): the pool keeps its full
\* concurrency for ever, and never exceeds it.
THEOREM PermitsAreConserved == Spec => []PermitsConserved
<1>1. IInv => PermitsConserved  BY DEF IInv
<1>. QED  BY <1>1, Invariance, PTL

\* The JoinSet does not grow with the number of jobs (worker_pool.rs:86-89).
THEOREM JoinSetStaysBounded == Spec => []JoinSetBounded
<1>1. IInv => JoinSetBounded  BY DEF IInv
<1>. QED  BY <1>1, Invariance, PTL

-----------------------------------------------------------------------------
(* What a suspended submit waits for. *)

NoIdlePermit == pc = "waiting" => permits = 0

LEMMA NoIdlePermitStep ==
  ASSUME NoIdlePermit, [Next]_vars
  PROVE  NoIdlePermit'
<1>1. CASE Owner
  BY <1>1 DEF NoIdlePermit, Owner, Acquire, Suspend, SpawnTask, JoinNext, JoinReturns
<1>2. CASE Join \/ DropPool \/ DropSubmit \/ \E j \in Jobs : Submit(j) \/ Abort(j)
  BY <1>2 DEF NoIdlePermit, Join, DropPool, DropSubmit, Submit, Abort
<1>3. ASSUME NEW j \in Jobs, TaskStep(j)  PROVE NoIdlePermit'
  BY <1>3 DEF NoIdlePermit, TaskStep, Release, Complete
<1>4. CASE UNCHANGED vars
  BY <1>4 DEF NoIdlePermit, vars
<1>. QED  BY <1>1, <1>2, <1>3, <1>4 DEF Next

LEMMA WaitersMeetAFullPool == IInv /\ NoIdlePermit => WaitsOnlyWhenFull
<1>1. In("spawned") \in SUBSET Jobs
  BY DEF In
<1>2. Cardinality(In("spawned")) \in Nat /\ Cap \in Nat
  BY <1>1, Countable, CapIsPositive
<1>. QED  BY <1>2 DEF IInv, NoIdlePermit, PermitsConserved, WaitsOnlyWhenFull

\* No wakeup is lost: a suspended submit waits for as many running jobs as there
\* are permits (worker_pool.rs:91-105).
THEOREM WaitersAreWoken == Spec => []WaitsOnlyWhenFull
<1>1. Init => NoIdlePermit
  BY DEF Init, NoIdlePermit
<1>. QED  BY <1>1, NoIdlePermitStep, WaitersMeetAFullPool, Invariance, PTL DEF Spec

\* One of them ends, unless the endless jobs alone fill the pool: the part of
\* SubmitResumes that needs no fairness (worker_pool.rs:83-84).
THEOREM WaitsForAJobThatEnds ==
  Spec => [](pc = "waiting" /\ Cardinality(Endless) < Cap => \E j \in In("spawned") : j \notin Endless)
<1>1. ASSUME WaitsOnlyWhenFull, pc = "waiting", Cardinality(Endless) < Cap,
             In("spawned") \subseteq Endless
      PROVE  FALSE
  <2>1. IsFiniteSet(Endless) /\ Cardinality(Endless) \in Nat /\ Cap \in Nat
    BY Countable, JobsAreFinite, CapIsPositive
  <2>2. Cardinality(In("spawned")) <= Cardinality(Endless)
    BY <1>1, <2>1, FS_Subset
  <2>3. Cardinality(In("spawned")) = Cap
    BY <1>1 DEF WaitsOnlyWhenFull
  <2>. QED  BY <1>1, <2>1, <2>2, <2>3
<1>2. WaitsOnlyWhenFull =>
        (pc = "waiting" /\ Cardinality(Endless) < Cap => \E j \in In("spawned") : j \notin Endless)
  BY <1>1
<1>. QED  BY <1>2, WaitersAreWoken, PTL

-----------------------------------------------------------------------------
(* The refinement. *)

phaseOf == [j \in Jobs |-> Phase(task[j])]
poolOf == CASE pc = "joined" -> "joined" [] pc = "dropped" -> "gone" [] OTHER -> "open"

\* What is under way is what holds a permit.
LEMMA UnderwayIsSpawned ==
  ASSUME task \in [Jobs -> TaskStates]
  PROVE  Pool!Underway = In("spawned")
<1>. QED  BY DEF Pool!Underway, In, Phase, TaskStates

\* Changing the state of one task changes its phase, or nothing.
LEMMA PhaseMoves ==
  ASSUME task \in [Jobs -> TaskStates], NEW j \in Jobs, NEW s,
         task' = [task EXCEPT ![j] = s]
  PROVE  phaseOf' = [phaseOf EXCEPT ![j] = Phase(s)]
<1>. QED  BY DEF phaseOf

LEMMA InitRefines == Init => Pool!Init
<1>. QED  BY DEF Init, Pool!Init, Phase

LEMMA StepRefines ==
  ASSUME IInv, [Next]_vars
  PROVE  [Pool!Next]_Pool!vars
<1>. SUFFICES Pool!Next \/ (phaseOf' = phaseOf /\ poolOf' = poolOf)
  BY DEF Pool!vars, phaseOf, poolOf
<1>1. /\ task \in [Jobs -> TaskStates] /\ PermitsConserved /\ arg \subseteq In("outside")
      /\ permits \in 0..Cap
  BY DEF IInv, TypeOK
<1>2. Pool!Underway = In("spawned")
  BY <1>1, UnderwayIsSpawned
<1>3. ASSUME NEW j \in Jobs, Submit(j)  PROVE phaseOf' = phaseOf /\ poolOf' = poolOf
  <2>1. \A k \in Finished : task[k] = "finished"
    BY DEF Finished, In
  <2>2. \A k \in Jobs : Phase(task'[k]) = Phase(task[k])
    BY <1>3, <2>1 DEF Submit, Phase
  <2>. QED  BY <1>3, <2>2 DEF Submit, phaseOf, poolOf
<1>4. CASE Acquire \/ Suspend \/ Join
  BY <1>4 DEF Acquire, Suspend, Join, phaseOf, poolOf
<1>5. CASE SpawnTask
  <2>1. PICK j \in arg : task' = [task EXCEPT ![j] = "spawned"]
    BY <1>5 DEF SpawnTask
  <2>2. j \in Jobs /\ task[j] = "outside"
    BY <1>1, <2>1 DEF In
  <2>3. Cardinality(Pool!Underway) < Cap
    <3>1. permits + Cardinality(In("spawned")) + 1 = Cap
      BY <1>1, <1>5 DEF SpawnTask, PermitsConserved
    <3>2. In("spawned") \in SUBSET Jobs
      BY DEF In
    <3>. QED  BY <1>1, <1>2, <3>1, <3>2, Countable, CapIsPositive
  <2>4. poolOf = "open" /\ poolOf' = poolOf
    BY <1>5 DEF SpawnTask, poolOf
  <2>5. phaseOf[j] = "outside" /\ phaseOf' = [phaseOf EXCEPT ![j] = "admitted"]
    BY <1>1, <2>1, <2>2, PhaseMoves DEF phaseOf, Phase
  <2>6. Pool!Admit(j)
    <3>1. Pool!Cardinality(Pool!Underway) < Cap
      BY <2>3 DEF Pool!Cardinality, Cardinality
    <3>. QED  BY <2>4, <2>5, <3>1 DEF Pool!Admit, phaseOf, poolOf
  <2>. QED  BY <2>2, <2>6 DEF Pool!Next
<1>6. CASE DropSubmit
  <2>1. \A k \in Jobs : Phase(task'[k]) = Phase(task[k])
    BY <1>1, <1>6 DEF DropSubmit, Phase, In
  <2>. QED  BY <1>6, <2>1 DEF DropSubmit, phaseOf, poolOf
<1>7. ASSUME NEW j \in Jobs, Release(j)  PROVE Pool!Next
  <2>1. phaseOf[j] = "admitted" /\ phaseOf' = [phaseOf EXCEPT ![j] = "ended"]
    BY <1>1, <1>7, PhaseMoves DEF Release, phaseOf, Phase
  <2>2. poolOf' = poolOf
    BY <1>7 DEF Release, poolOf
  <2>3. Pool!End(j)
    BY <2>1, <2>2 DEF Pool!End, phaseOf, poolOf
  <2>. QED  BY <2>3 DEF Pool!Next
<1>8. ASSUME NEW j \in Jobs, Complete(j)  PROVE phaseOf' = phaseOf /\ poolOf' = poolOf
  <2>1. \A k \in Jobs : Phase(task'[k]) = Phase(task[k])
    BY <1>1, <1>8 DEF Complete, Phase
  <2>. QED  BY <1>8, <2>1 DEF Complete, phaseOf, poolOf
<1>9. ASSUME NEW j \in Jobs, Abort(j)  PROVE Pool!Next
  <2>1. phaseOf[j] = "admitted" /\ phaseOf' = [phaseOf EXCEPT ![j] = "aborted"]
    BY <1>1, <1>9, PhaseMoves DEF Abort, phaseOf, Phase
  <2>2. poolOf' = poolOf /\ poolOf = "gone"
    BY <1>9 DEF Abort, poolOf
  <2>3. Pool!CutShort(j)
    BY <2>1, <2>2 DEF Pool!CutShort, phaseOf, poolOf
  <2>. QED  BY <2>3 DEF Pool!Next
<1>10. CASE JoinNext
  <2>1. PICK j \in Finished : task' = [task EXCEPT ![j] = "reaped"]
    BY <1>10 DEF JoinNext
  <2>2. \A k \in Jobs : Phase(task'[k]) = Phase(task[k])
    BY <1>1, <2>1 DEF Finished, In, Phase
  <2>. QED  BY <1>10, <2>2 DEF JoinNext, phaseOf, poolOf
<1>11. CASE JoinReturns
  <2>1. In("spawned") = {}
    <3>1. pc = "joining" /\ joins = {}
      BY <1>11 DEF JoinReturns
    <3>2. joins = In("spawned") \cup In("releasing") \cup In("finished")
      BY <3>1 DEF IInv, TypeOK
    <3>. QED  BY <3>1, <3>2
  <2>2. poolOf = "open" /\ poolOf' = "joined" /\ phaseOf' = phaseOf
    BY <1>11 DEF JoinReturns, poolOf, phaseOf
  <2>3. Pool!Join
    BY <1>2, <2>1, <2>2 DEF Pool!Join, phaseOf, poolOf
  <2>. QED  BY <2>3 DEF Pool!Next
<1>12. CASE DropPool
  <2>1. poolOf = "open" /\ poolOf' = "gone" /\ phaseOf' = phaseOf
    BY <1>12 DEF DropPool, poolOf, phaseOf
  <2>2. Pool!Discard
    BY <2>1 DEF Pool!Discard, phaseOf, poolOf
  <2>. QED  BY <2>2 DEF Pool!Next
<1>13. CASE UNCHANGED vars
  BY <1>13 DEF vars, phaseOf, poolOf
<1>. QED
  BY <1>3, <1>4, <1>5, <1>6, <1>7, <1>8, <1>9, <1>10, <1>11, <1>12, <1>13
     DEF Next, Owner, TaskStep

\* The pool implements the bounded pool: at most Cap jobs are under way, and
\* join returns only when each of them ended by itself (worker_pool.rs:83-111).
THEOREM ImplementsPool == Spec => PoolSpec
<1>. QED
  BY InitRefines, StepRefines, Invariance, PTL DEF Spec, PoolSpec, Pool!Spec
=============================================================================
