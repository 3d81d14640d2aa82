------------------------------ MODULE MCRetry ------------------------------
(* Policies of Retry for TLC: a watched one with growing and capped delays,  *)
(* one without a token, jitter, a single attempt, and no backoff at all.     *)
EXTENDS Retry

Default == [attempts |-> 4, base |-> 1, max |-> 3, jitter |-> FALSE, watched |-> TRUE]

MCPolicies ==
  { Default,
    [Default EXCEPT !.watched = FALSE],
    [Default EXCEPT !.jitter = TRUE, !.base = 2],
    [Default EXCEPT !.attempts = 1],
    [Default EXCEPT !.base = 0] }

\* retry.rs:143-144, "Run op until it succeeds, the budget is exhausted, or the
\* cancellation token (if any) fires": at most the attempt that was about to
\* begin begins after an attached token fired.
TokenStopsAttempts == policy.watched => late <= 1
=============================================================================
