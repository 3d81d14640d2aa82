---------------------------- MODULE RateLimiter ----------------------------
(***************************************************************************)
(* RateLimiter and KeyedRateLimiter (src/concurrency/rate_limit.rs) and    *)
(* RateLimitedClient (src/network/client.rs): calls that wait for a cell   *)
(* of one bucket, or of several stacked ones, before they run.  governor's *)
(* buckets are external: GCRA, one theoretical arrival time per bucket.    *)
(***************************************************************************)
EXTENDS Integers, Sequences, FiniteSets

CONSTANTS Callers,  \* one call each; a replay is a call of its own
          Keys,
          Global,   \* the bucket of a limiter without keys
          Path,     \* Path[c]: the buckets that c's call waits for, in order
          Quotas,   \* what quota_from_window may have returned
          MaxTime   \* bound on the clock, for TLC; see Tick

Buckets == Keys \cup {Global}

\* The ways into the limiters: a keyed run whose closure is a global run, the
\* documented order; a global run or a limited client; an unrestricted client.
KeyedThenGlobal(k) == <<k, Global>>
GlobalOnly == <<Global>>
LimitedClient == <<Global>>
UnrestrictedClient == <<>>

ASSUME CallersAreFinite == IsFiniteSet(Callers)
ASSUME PathsVisitOnce ==
  /\ Path \in [Callers -> Seq(Buckets)]
  /\ \A c \in Callers : \A i, j \in 1..Len(Path[c]) : Path[c][i] = Path[c][j] => i = j
ASSUME QuotasType == Quotas \subseteq [period: Nat \ {0}, burst: Nat \ {0}]

VARIABLES quota,    \* quota[b]
          tat,      \* tat[b]: no entry, or the bucket's theoretical arrival time
          now,      \* the clock
          step,     \* step[c]: how many cells c's call has
          wakeAt,   \* wakeAt[c]: its timer, 0 when it has none
          dropped,  \* the calls whose future is gone
          cutoff    \* no sweep of retain_recent, or the clock that it read

\* History variable: granted[b], the instants at which b gave a cell.
VARIABLE granted

vars == <<quota, tat, now, step, wakeAt, dropped, cutoff, granted>>

\* The keys of one limiter have the same quota.
Init ==
  /\ \E perKey, global \in Quotas : quota = [b \in Buckets |-> IF b = Global THEN global ELSE perKey]
  /\ tat = [b \in Buckets |-> {}]
  /\ now = 0 /\ cutoff = {}
  /\ step = [c \in Callers |-> 0] /\ wakeAt = [c \in Callers |-> 0] /\ dropped = {}
  /\ granted = [b \in Buckets |-> <<>>]

-----------------------------------------------------------------------------
(* Variants with a bug the code does not have; Spec does not use them.       *)

\* A keyed run whose closure waits on the key's bucket, not on the global one.
BucketSame(c) == Path[c][1]
\* The sweep drops every key's bucket, those in use too.
ClearAll ==
  /\ cutoff = {} /\ cutoff' = {now}
  /\ tat' = [b \in Buckets |-> IF b \in Keys THEN {} ELSE tat[b]]
  /\ UNCHANGED <<quota, now, step, wakeAt, dropped, granted>>
\* All keys share one bucket.
SharedHome(b) == IF b = Global THEN Global ELSE CHOOSE k \in Keys : TRUE
\* The slot is asked for once, and a refusal is not tried again.
AskOnce(c) == c \notin dropped /\ step[c] < Len(Path[c]) /\ wakeAt[c] = 0

-----------------------------------------------------------------------------
(* One bucket.                                                              *)

\* The bucket that a key's calls wait on.
Home(b) == b

Arrival(b) == IF tat[Home(b)] = {} THEN now ELSE CHOOSE x \in tat[Home(b)] : TRUE

\* The first instant at which b has a cell to give.
Earliest(b) == Arrival(b) - (quota[b].burst - 1) * quota[b].period

MaxOf(x, y) == IF x >= y THEN x ELSE y

-----------------------------------------------------------------------------
(* A call, from its first poll to f().                                      *)

Running(c) == step[c] = Len(Path[c])

Bucket(c) == Path[c][step[c] + 1]

\* wait_for_slot is polled: at once, or when its timer has fired.
Asks(c) == c \notin dropped /\ ~Running(c) /\ now >= wakeAt[c]

\* A cell is taken: the poll goes on to the next bucket, or to f(), which begins
\* with the last cell.
Take(c) ==
  /\ Asks(c) /\ now >= Earliest(Bucket(c))
  /\ LET b == Bucket(c) IN
       /\ tat' = [tat EXCEPT ![Home(b)] = {MaxOf(Arrival(b), now) + quota[b].period}]
       /\ granted' = [granted EXCEPT ![b] = Append(@, now)]
  /\ step' = [step EXCEPT ![c] = @ + 1] /\ wakeAt' = [wakeAt EXCEPT ![c] = 0]
  /\ UNCHANGED <<quota, now, dropped, cutoff>>

\* Or the call sleeps until there may be one, and asks again: nobody holds a
\* place in a queue.
Refuse(c) ==
  /\ Asks(c) /\ now < Earliest(Bucket(c))
  /\ wakeAt' = [wakeAt EXCEPT ![c] = Earliest(Bucket(c))]
  /\ UNCHANGED <<quota, tat, now, step, dropped, cutoff, granted>>

WaitForSlot(c) == Take(c) \/ Refuse(c)

\* The call's future is dropped while it sleeps: the cells it has are spent.
DropCall(c) ==
  /\ c \notin dropped /\ wakeAt[c] > 0
  /\ dropped' = dropped \cup {c} /\ wakeAt' = [wakeAt EXCEPT ![c] = 0]
  /\ UNCHANGED <<quota, tat, now, step, cutoff, granted>>

-----------------------------------------------------------------------------
(* retain_recent reads the clock and then goes over the store, bucket by     *)
(* bucket, while calls go on.  One sweep at a time.                          *)

RetainRecent ==
  /\ cutoff = {} /\ cutoff' = {now}
  /\ UNCHANGED <<quota, tat, now, step, wakeAt, dropped, granted>>

Forget(k) ==
  /\ \E s \in cutoff, x \in tat[k] : x <= s
  /\ tat' = [tat EXCEPT ![k] = {}]
  /\ UNCHANGED <<quota, now, step, wakeAt, dropped, cutoff, granted>>

RetainEnds ==
  /\ cutoff # {} /\ \A k \in Keys, s \in cutoff : \A x \in tat[k] : x > s
  /\ cutoff' = {}
  /\ UNCHANGED <<quota, tat, now, step, wakeAt, dropped, granted>>

\* The clock stops at MaxTime unless somebody sleeps past it.
Tick ==
  /\ now < MaxTime \/ \E c \in Callers : wakeAt[c] > now
  /\ now' = now + 1
  /\ UNCHANGED <<quota, tat, step, wakeAt, dropped, cutoff, granted>>

Next ==
  \/ \E c \in Callers : WaitForSlot(c) \/ DropCall(c)
  \/ RetainRecent \/ RetainEnds \/ Tick
  \/ \E k \in Keys : Forget(k)

\* Waiting calls are polled when their timer fires, and time passes.
Fairness == WF_vars(Tick) /\ \A c \in Callers : WF_vars(WaitForSlot(c))

Spec == Init /\ [][Next]_vars /\ Fairness
-----------------------------------------------------------------------------
(* Properties. *)

\* Every cell ever given went to one call that had come to its turn and counts
\* for it: a dropped wait spends none but those it already had, and a stacked call
\* runs with a cell of each of its buckets (rate_limit.rs:114-127, 176-185).
Paid(c, b) == \E i \in 1..step[c] : Path[c][i] = b
CellsAccounted == \A b \in Buckets : Len(granted[b]) = Cardinality({c \in Callers : Paid(c, b)})

\* Types, and the cells of every call.
TypeOK ==
  /\ quota \in [Buckets -> Quotas] /\ now \in Nat
  /\ tat \in [Buckets -> SUBSET Nat] /\ \A b \in Buckets : \A x, y \in tat[b] : x = y
  /\ cutoff \subseteq 0..now /\ \A r, s \in cutoff : r = s
  /\ step \in [Callers -> Nat] /\ \A c \in Callers : step[c] \in 0..Len(Path[c])
  /\ wakeAt \in [Callers -> Nat] /\ dropped \subseteq Callers
  /\ granted \in [Buckets -> Seq(Nat)]
  /\ CellsAccounted

\* The quota, read off the grants alone: any burst + n successive cells of a
\* bucket take n periods or more, whatever was forgotten and whoever was dropped
\* in between (rate_limit.rs:88-97, network/rate_limit.rs:11-13).
QuotaHolds ==
  \A b \in Buckets : \A i, j \in 1..Len(granted[b]) :
    i <= j => granted[b][j] - granted[b][i] >= (j - i + 1 - quota[b].burst) * quota[b].period

\* Nobody is told to wait for less: a call is refused only when one more cell at
\* this instant would break the quota of its own bucket, so keys do not delay
\* each other (rate_limit.rs:130-133).
WouldBreak(b) ==
  LET n == Len(granted[b]) IN
  \E i \in 1..n : now - granted[b][i] < (n + 2 - i - quota[b].burst) * quota[b].period
RefusalJustified ==
  [][\A c \in Callers : wakeAt'[c] > wakeAt[c] => WouldBreak(Bucket(c))]_vars

\* Whoever waits runs, unless it is dropped: being overtaken puts it off only as
\* often as there are others (rate_limit.rs:106, "until the limiter releases").
EveryCallRuns ==
  \A c \in Callers : (wakeAt[c] > 0 \/ step[c] > 0) ~> (Running(c) \/ c \in dropped)

\* The limiter implements the leaky bucket: a sweep and a refusal change nothing.
Debt(b) == IF \E x \in tat[b] : x > now THEN Arrival(b) - now ELSE 0
Leaky == INSTANCE LeakyBucket WITH level <- [b \in Buckets |-> Debt(b)]
LeakySpec == Leaky!Spec
=============================================================================
