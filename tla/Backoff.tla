------------------------------ MODULE Backoff ------------------------------
(***************************************************************************)
(* The crate's backoff arithmetic (src/backoff.rs): how long to wait before *)
(* attempt number `attempt` + 1.  Durations are natural numbers of the      *)
(* clock's unit.  Duration::saturating_mul needs no bound of its own: the   *)
(* product is capped at `max` at once, and `max` is itself a Duration.      *)
(***************************************************************************)
EXTENDS Naturals

CONSTANT Width   \* bits of the u32 that holds attempt counts and the factor

ASSUME WidthIsPositive == Width \in Nat \ {0}

\* Arithmetic the proofs rest on: the provers know nothing of `^` but its type.
ASSUME PowersOfTwo ==
  /\ \A n \in 0..Width : 2^n \in Nat /\ n < 2^n
  /\ \A n \in 1..Width : 2^n = 2 * 2^(n - 1)

MaxWord == 2^Width - 1

MinOf(a, b) == IF a <= b THEN a ELSE b

\* u32::saturating_add(1)
Bump(n) == IF n = MaxWord THEN n ELSE n + 1

\* 1u32.checked_shl(attempt.saturating_sub(1)).unwrap_or(u32::MAX)
Factor(attempt) ==
  LET shift == IF attempt = 0 THEN 0 ELSE attempt - 1
  IN  IF shift < Width THEN 2^shift ELSE MaxWord

Capped(base, max, attempt) == MinOf(base * Factor(attempt), max)

\* full_jitter: source % capped, so `capped` itself is never drawn.
Jittered(capped) == IF capped = 0 THEN {0} ELSE 0 .. capped - 1

\* The durations compute_delay may return.
Delays(base, max, attempt, jitter) ==
  LET capped == Capped(base, max, attempt)
  IN  IF jitter THEN Jittered(capped) ELSE {capped}
=============================================================================
