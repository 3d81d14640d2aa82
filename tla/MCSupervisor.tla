---------------------------- MODULE MCSupervisor ----------------------------
(* Policies of Supervisor for TLC: a windowed budget, a budget over the      *)
(* whole run, no budget, an empty window with no backoff, and the two        *)
(* switches off.                                                             *)
EXTENDS Supervisor

Default == [cap |-> 2, windowed |-> TRUE, window |-> 3, base |-> 1, max |-> 2,
            jitter |-> FALSE, onOk |-> TRUE, onPanic |-> TRUE]

MCPolicies ==
  { Default,
    [Default EXCEPT !.window = 2, !.max = 3, !.jitter = TRUE],
    [Default EXCEPT !.windowed = FALSE],
    [Default EXCEPT !.cap = 0, !.windowed = FALSE, !.max = 4],
    [Default EXCEPT !.cap = 1, !.window = 0, !.base = 0],
    [Default EXCEPT !.onOk = FALSE, !.onPanic = FALSE] }
=============================================================================
