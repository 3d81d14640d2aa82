--------------------------- MODULE MCRateLimiter ---------------------------
(* RateLimiter for TLC: the callers' ways in, and quotas that short texts   *)
(* stand for.  The assumptions check Quota over small inputs.               *)
EXTENDS RateLimiter, Quota, TLC

CONSTANTS c1, c2, c3, c4, k1, k2

\* Two calls of one key, one of another, and one that no limiter sees.
MCPath == c1 :> KeyedThenGlobal(k1) @@ c2 :> KeyedThenGlobal(k1) @@ c3 :> KeyedThenGlobal(k2)
            @@ c4 :> UnrestrictedClient

\* One cell a second, and the same with a burst of two.
Built(n, burst) ==
  UNION {QuotaFromWindow(w, burst) : w \in FromString([number |-> {n}, unit |-> "s"])}
MCQuotas == Built(1, {}) \cup Built(1, {2})

\* README.md:72, a text is no window when it is empty, has a bad suffix or a
\* number that is not positive, and is one otherwise (single bytes only).
ASSUME TextsParse ==
  \A t \in Texts(0..3) :
    t.unit # "wide" =>
      (FromString(t) = {} <=> t = Empty \/ t.number \in {{}, {0}} \/ t.unit = "other")

\* A quota refills in its window what it gives at once, and never comes from a
\* period of zero (network/rate_limit.rs:67-77).
ASSUME QuotasRefill ==
  \A n \in 1..4, burst \in {{}, {1}, {3}} :
    /\ QuotaFromWindow(Custom(0), burst) = {}
    /\ \A q \in QuotaFromWindow(PerMinute(n), {}) : q.burst = n /\ q.burst * q.period = 60 * Second
    /\ \A q \in QuotaFromWindow(Custom(n), burst) : q.period = n /\ q.burst \in burst \cup {1}
=============================================================================
