----------------------------- MODULE MCThrottle -----------------------------
(* Throttle for TLC.  The callers are interchangeable, and no property here  *)
(* is one of liveness, so a state stands for its permutations.               *)
EXTENDS Throttle, TLC

Symmetry == Permutations(Tasks)
=============================================================================
