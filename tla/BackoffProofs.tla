--------------------------- MODULE BackoffProofs ---------------------------
(* What compute_delay returns, for every base, cap and attempt count. *)
EXTENDS Backoff, TLAPS

LEMMA MaxWordPositive == MaxWord \in Nat \ {0}
BY WidthIsPositive, PowersOfTwo DEF MaxWord

LEMMA BumpStaysInWord ==
  ASSUME NEW n \in 0..MaxWord
  PROVE  Bump(n) \in 1..MaxWord
BY MaxWordPositive DEF Bump

\* The factor saturates, it never wraps to zero (backoff.rs:27-33).
LEMMA FactorPositive ==
  ASSUME NEW attempt \in Nat
  PROVE  Factor(attempt) \in Nat \ {0}
<1>. DEFINE shift == IF attempt = 0 THEN 0 ELSE attempt - 1
<1>1. shift \in Nat
  OBVIOUS
<1>2. CASE shift < Width
  <2>1. shift \in 0..Width
    BY <1>1, <1>2, WidthIsPositive
  <2>2. Factor(attempt) = 2^shift
    BY <1>2 DEF Factor
  <2>. QED  BY <2>1, <2>2, PowersOfTwo
<1>3. CASE ~(shift < Width)
  BY <1>3, MaxWordPositive DEF Factor
<1>. QED  BY <1>2, <1>3

\* A positive factor never shortens the base.
LEMMA ProductBound ==
  ASSUME NEW base \in Nat, NEW f \in Nat \ {0}
  PROVE  base * f \in Nat /\ base <= base * f
BY Z3

\* The delay lies between min(base, max) and max (backoff.rs:34-36).
LEMMA CappedBounds ==
  ASSUME NEW base \in Nat, NEW max \in Nat, NEW attempt \in Nat
  PROVE  /\ Capped(base, max, attempt) \in Nat
         /\ Capped(base, max, attempt) <= max
         /\ MinOf(base, max) <= Capped(base, max, attempt)
<1>1. base * Factor(attempt) \in Nat /\ base <= base * Factor(attempt)
  BY FactorPositive, ProductBound
<1>. QED  BY <1>1 DEF Capped, MinOf

\* Jitter only shortens the delay; without it the delay is the capped one.
THEOREM DelayBounds ==
  ASSUME NEW base \in Nat, NEW max \in Nat, NEW attempt \in Nat, NEW jitter \in BOOLEAN,
         NEW d \in Delays(base, max, attempt, jitter)
  PROVE  /\ d \in Nat /\ d <= max
         /\ ~jitter => MinOf(base, max) <= d
<1>1. /\ Capped(base, max, attempt) \in Nat
      /\ Capped(base, max, attempt) <= max
      /\ MinOf(base, max) <= Capped(base, max, attempt)
  BY CappedBounds
<1>2. CASE jitter
  <2>1. d \in Jittered(Capped(base, max, attempt))
    BY <1>2 DEF Delays
  <2>. QED  BY <1>1, <1>2, <2>1 DEF Jittered
<1>3. CASE ~jitter
  BY <1>1, <1>3 DEF Delays
<1>. QED  BY <1>2, <1>3
=============================================================================
