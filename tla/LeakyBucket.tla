---------------------------- MODULE LeakyBucket ----------------------------
(***************************************************************************)
(* What a rate limiter promises: each bucket drains one unit per tick and  *)
(* never holds more than `burst` cells of `period` units.  There is no     *)
(* store to clean up, no clock to read and nobody to wait.                 *)
(***************************************************************************)
EXTENDS Integers

CONSTANT Buckets

VARIABLES quota,  \* quota[b]: period and burst
          level   \* level[b]: what is left of the cells poured into b

vars == <<quota, level>>

Init == level = [b \in Buckets |-> 0]

Pour(b) ==
  /\ level[b] + quota[b].period <= quota[b].burst * quota[b].period
  /\ level' = [level EXCEPT ![b] = @ + quota[b].period]
  /\ UNCHANGED quota

Drain ==
  /\ level' = [b \in Buckets |-> IF level[b] = 0 THEN 0 ELSE level[b] - 1]
  /\ UNCHANGED quota

Next == Drain \/ \E b \in Buckets : Pour(b)

Spec == Init /\ [][Next]_vars
=============================================================================
