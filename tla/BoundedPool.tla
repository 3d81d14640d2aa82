----------------------------- MODULE BoundedPool -----------------------------
(***************************************************************************)
(* What a bounded pool promises: no more than Cap admitted jobs are under  *)
(* way, and join returns when each admitted job has ended by itself.       *)
(***************************************************************************)
EXTENDS FiniteSets, Naturals

CONSTANTS Jobs, Cap

VARIABLES phase,   \* where each job is
          pool     \* "open", then "joined" or "gone"

vars == <<phase, pool>>

Underway == {j \in Jobs : phase[j] = "admitted"}

Init == phase = [j \in Jobs |-> "outside"] /\ pool = "open"

Admit(j) ==
  /\ pool = "open" /\ phase[j] = "outside" /\ Cardinality(Underway) < Cap
  /\ phase' = [phase EXCEPT ![j] = "admitted"] /\ UNCHANGED pool

End(j) ==
  /\ phase[j] = "admitted"
  /\ phase' = [phase EXCEPT ![j] = "ended"] /\ UNCHANGED pool

\* join: nothing is under way, and nothing was cut short.
Join == pool = "open" /\ Underway = {} /\ pool' = "joined" /\ UNCHANGED phase

\* The pool is dropped; what is under way may be cut short.
Discard == pool = "open" /\ pool' = "gone" /\ UNCHANGED phase

CutShort(j) ==
  /\ pool = "gone" /\ phase[j] = "admitted"
  /\ phase' = [phase EXCEPT ![j] = "aborted"] /\ UNCHANGED pool

Next == (\E j \in Jobs : Admit(j) \/ End(j) \/ CutShort(j)) \/ Join \/ Discard

Spec == Init /\ [][Next]_vars
=============================================================================
