----------------------------- MODULE MCShutdown -----------------------------
(* Small instances of Shutdown for TLC, and what shutdown.rs says of itself *)
(* and the code does not do.                                                *)
EXTENDS Shutdown


\* shutdown.rs:222, "Close the tracker, so no more tasks can be added to it".
ClosedTrackerAdmitsNoTask == [][closed => Tracked' \subseteq Tracked]_vars

\* shutdown.rs:261-263, "The spawned listener task is itself tracked, so
\* shutdown will wait for it to exit after triggering": with no other task and
\* a timeout that is never reached, shutdown() returns Ok.
ShutdownOutlivesListener ==
  \A c \in Generous : call[c] = "cancelled" ~> call[c] = "ok"
=============================================================================
