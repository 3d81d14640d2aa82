--------------------------- MODULE GracefulDrain ---------------------------
(***************************************************************************)
(* What a caller of ShutdownController::shutdown relies on, with no        *)
(* token, tracker or wrapper task in sight.  Work items start and finish;  *)
(* a request to stop remembers the work in progress when it was made, and  *)
(* is answered "ok" only when all of that work has ended, or "timedout".   *)
(* Starting work after the stop is allowed: the code does not forbid it.   *)
(***************************************************************************)
CONSTANTS Work, Callers

VARIABLES active,    \* work items in progress
          stopping,  \* somebody asked for a stop
          owed,      \* owed[c]: work c's request still has to see the end of
          answer     \* answer[c]: state of c's request

vars == <<active, stopping, owed, answer>>

Init == /\ active = {}
        /\ stopping = FALSE
        /\ owed = [c \in Callers |-> {}]
        /\ answer = [c \in Callers |-> "idle"]

StartWork(w) == /\ w \notin active
                /\ active' = active \cup {w}
                /\ UNCHANGED <<stopping, owed, answer>>

FinishWork(w) == /\ w \in active
                 /\ active' = active \ {w}
                 /\ owed' = [c \in Callers |-> owed[c] \ {w}]
                 /\ UNCHANGED <<stopping, answer>>

Stop == /\ stopping' = TRUE
        /\ UNCHANGED <<active, owed, answer>>

Request(c) == /\ answer[c] # "waiting"
              /\ stopping' = TRUE
              /\ owed' = [owed EXCEPT ![c] = active]
              /\ answer' = [answer EXCEPT ![c] = "waiting"]
              /\ UNCHANGED active

Succeed(c) == /\ answer[c] = "waiting" /\ owed[c] = {}
              /\ answer' = [answer EXCEPT ![c] = "ok"]
              /\ UNCHANGED <<active, stopping, owed>>

GiveUp(c) == /\ answer[c] = "waiting"
             /\ answer' = [answer EXCEPT ![c] = "timedout"]
             /\ UNCHANGED <<active, stopping, owed>>

Next == \/ \E w \in Work : StartWork(w) \/ FinishWork(w)
        \/ Stop
        \/ \E c \in Callers : Request(c) \/ Succeed(c) \/ GiveUp(c)

Spec == Init /\ [][Next]_vars
=============================================================================
