------------------------------ MODULE Throttle ------------------------------
(***************************************************************************)
(* Throttle (src/concurrency/throttle.rs): concurrent calls of try_run on  *)
(* one throttle.  The check and the stamp are one critical section; the    *)
(* closure is called after the lock is released and may run for long.      *)
(***************************************************************************)
EXTENDS Integers, Sequences

CONSTANTS Tasks,       \* the callers
          Interval,    \* min_interval
          LastInstant  \* bound on the clock, for TLC; see ThrottleTick

ASSUME IntervalType == Interval \in Nat

VARIABLES last,     \* last_run: no instant or one
          instant,  \* the clock, read while the lock is held
          pc        \* where each caller is

\* History variable: the stamps set since the last reset.
VARIABLE stamps

throttleVars == <<last, instant, pc, stamps>>

ThrottleInit ==
  /\ last = {} /\ instant = 0 /\ stamps = <<>>
  /\ pc = [c \in Tasks |-> "idle"]

-----------------------------------------------------------------------------
(* Variants with a bug the code does not have; no step of ThrottleSpec.      *)

\* A call exactly one interval after the last one is still discarded.
CoolingTooLong == \E t \in last : instant - t <= Interval
\* A discarded call starts the cooldown anew.
StampAlways(c) ==
  /\ pc[c] \in {"idle", "discarded"}
  /\ pc' = [pc EXCEPT ![c] = IF \E t \in last : instant - t < Interval THEN "discarded" ELSE "stamped"]
  /\ last' = {instant}
  /\ stamps' = IF pc'[c] = "stamped" THEN Append(stamps, instant) ELSE stamps
  /\ UNCHANGED instant
\* The stamp is forgotten when the closure ends, as if it marked a run in progress.
FinishForgets(c) ==
  /\ pc[c] = "running" /\ pc' = [pc EXCEPT ![c] = "idle"]
  /\ last' = {} /\ UNCHANGED <<instant, stamps>>

-----------------------------------------------------------------------------
Cooling == \E t \in last : instant - t < Interval

\* The critical section of try_run.
TryRun(c) ==
  /\ pc[c] \in {"idle", "discarded"}
  /\ \/ /\ Cooling
        /\ pc' = [pc EXCEPT ![c] = "discarded"] /\ UNCHANGED <<last, stamps>>
     \/ /\ ~Cooling
        /\ pc' = [pc EXCEPT ![c] = "stamped"]
        /\ last' = {instant} /\ stamps' = Append(stamps, instant)
  /\ UNCHANGED instant

\* f() is called, without the lock.
Call(c) ==
  /\ pc[c] = "stamped" /\ pc' = [pc EXCEPT ![c] = "running"]
  /\ UNCHANGED <<last, instant, stamps>>

\* The closure's future ends, panics or is dropped: the stamp stays.
Finish(c) ==
  /\ pc[c] = "running" /\ pc' = [pc EXCEPT ![c] = "idle"]
  /\ UNCHANGED <<last, instant, stamps>>

Reset == last' = {} /\ stamps' = <<>> /\ UNCHANGED <<instant, pc>>

ThrottleTick == instant < LastInstant /\ instant' = instant + 1 /\ UNCHANGED <<last, pc, stamps>>

ThrottleNext == (\E c \in Tasks : TryRun(c) \/ Call(c) \/ Finish(c)) \/ Reset \/ ThrottleTick

ThrottleSpec == ThrottleInit /\ [][ThrottleNext]_throttleVars
-----------------------------------------------------------------------------
(* Properties. *)

ThrottleTypeOK ==
  /\ instant \in Nat /\ stamps \in Seq(Nat)
  /\ pc \in [Tasks -> {"idle", "discarded", "stamped", "running"}]
  /\ last = IF stamps = <<>> THEN {} ELSE {stamps[Len(stamps)]}

\* Attempts are paced (lines 3-6, 64-67): between two resets any two admitted
\* calls are an interval apart, though their closures may overlap.
Spaced ==
  \A i, j \in 1..Len(stamps) : i < j => stamps[j] - stamps[i] >= Interval

\* A call is discarded only because of an admitted one less than an interval ago
\* (lines 60-62): neither a discarded call nor a reset one counts.
DiscardJustified ==
  [][\A c \in Tasks : pc'[c] = "discarded" /\ pc[c] # "discarded" =>
       \E i \in 1..Len(stamps) : instant - stamps[i] < Interval]_throttleVars
=============================================================================
