-------------------------- MODULE MCRetryingClient --------------------------
(* Policies of RetryingClient for TLC: the defaults with a fixed delay, full *)
(* jitter, no token, both switches turned, and a single attempt.             *)
EXTENDS RetryingClient

Default == [attempts |-> 3, network |-> TRUE, replay |-> FALSE,
            base |-> 1, max |-> 3, jitter |-> FALSE, watched |-> TRUE]

MCPolicies ==
  { Default,
    [Default EXCEPT !.jitter = TRUE, !.base = 2],
    [Default EXCEPT !.watched = FALSE, !.max = 2],
    [Default EXCEPT !.network = FALSE, !.replay = TRUE],
    [Default EXCEPT !.attempts = 1] }
=============================================================================
