# rust-utils in TLA+

TLA+ modules of the concurrency and networking utilities in `src/`, TLC
configurations that check small instances of them, and TLAPS proofs of the
properties that matter most, for every value of the constants.

    tlc -workers 2 -config Shutdown.cfg MCShutdown.tla     # model-check a run
    tlapm ShutdownProofs.tla                               # check a module's proofs

`PROJECT.json` lists the runs, the theorems, the hazards they answer, and for
every definition the source lines that it stands for. Source paths below are
relative to `src/src/`.

## The system

The crate is a library: its "processes" are the tasks of the applications that
use it, on a tokio runtime. Components meet through a `CancellationToken` that
the application hands around, through tokio's semaphores, join sets and task
trackers, and through the shared backoff arithmetic.

| component | state | operations | meets | hard behaviour |
|---|---|---|---|---|
| `ShutdownController` (`concurrency/shutdown.rs`) | token, tracker | `spawn`, `spawn_critical`, `trigger`, `shutdown`, `trigger_on_signal` | every task, Supervisor, Retry by the token | tasks joining a closed tracker, overlapping calls, failing and aborted wrappers, deadline against completion |
| `Supervisor` (`concurrency/supervisor.rs`) | restart history, streak, clock | `run` and its builder | token, Backoff, a spawned task | rolling window off by one, stale streak, token between any two steps, panics |
| `WorkerPool` (`concurrency/worker_pool.rs`) | semaphore, join set | `submit`, `join`, drop | its tasks | dropped futures, permits under panics, slow reaping, missed wake-ups |
| `Retry` (`concurrency/retry.rs`) | attempt counter | `run`, `run_if` | token, Backoff, the caller's op | cancellation between attempts, last attempt on a path of its own |
| backoff (`backoff.rs`) | none | `compute_delay`, `full_jitter`, `sleep_or_cancel` | Supervisor, Retry, RetryingClient | shift overflow, zero delays |
| `Throttle` (`concurrency/throttle.rs`) | last stamp, mutex | `try_run`, `reset` | concurrent callers | stamp under the lock, closure after it |
| `RateLimiter`, `KeyedRateLimiter` (`concurrency/rate_limit.rs`) | a governor bucket, or one per key | `wait_for_slot`, `run`, `retain_recent` | each other when stacked, the HTTP client | stacked limiters, forgotten buckets, dropped waits, overtaking |
| `RetryingClient` (`network/retry.rs`) | attempt counter | `execute` | an executor, token, Backoff | replays, `Retry-After`, uncloneable bodies |
| HTTP client and quota parser (`network/client.rs`, `network/rate_limit.rs`) | the limiter | `wait_for_slot`, `execute`, `from_string`, `quota_from_window` | RetryingClient | limiter before dispatch, which errors are worth a replay, multi-byte input |
| NATS client (`network/nats/client.rs`) | a subscription, the messages in flight | `serve_request_reply`, `request`, `publish` | the server, handlers, its configuration | bounded concurrency, hanging and panicking handlers, late replies, the end of the stream |
| validation (`network/validation.rs`) | none | depth and size scan | callers | escapes, limits |
| `Secret`, errors, options of a NATS connection | values | builders, formatting | all | none a model shows |

What makes each modelled component correct is stated by its properties, below.
What is hard to test, line by line, is the list of hazards in `PROJECT.json`.

## Modules

| module | what it is |
|---|---|
| `Backoff` | `backoff.rs` as operators; words of `Width` bits for the `u32` |
| `Shutdown` | the controller, its tasks, its callers; `GracefulDrain` is its abstract specification |
| `Supervisor` | `Supervisor::run`, its clock and its token; EXTENDS `Backoff` |
| `WorkerPool` | the pool, its owner and its tasks; `BoundedPool` is its abstract specification |
| `Retry` | `Retry::run_if` and its token; EXTENDS `Backoff` |
| `RetryingClient` | `RetryingClient::execute` over any executor; EXTENDS `Backoff` |
| `Throttle` | concurrent calls of `try_run` and `reset` |
| `RateLimiter` | calls through one limiter or several stacked ones, of HTTP clients too, and `retain_recent`; `LeakyBucket` is its abstract specification |
| `Quota` | texts, windows and quotas as operators |
| `NatsServe` | `serve_request_reply`, `request` and `publish` around a server that delivers at most once |
| `Validation` | `validate_and_parse_json` and its scan, and what a document deserves |
| `MC*` | policies and statements for TLC; the values of the constants are in the `.cfg` |
| `BackoffProofs`, `ShutdownProofs`, `SupervisorProofs`, `WorkerPoolProofs`, `RetryProofs`, `RetryingClientProofs` | the theorems of one module each |
| `PacingProofs` | the theorems of `RateLimiter`, `Throttle` and `Quota` |
| `IngressProofs` | the theorems of `NatsServe` and `Validation` |

Definitions named as variants in a module (`LoseFailure`, `SubmitUnreaped`, ...)
are steps with a bug that the code does not have. The specifications do not use
them; putting one in the place of the real step makes TLC report the property
that `PROJECT.json` pairs it with, which shows that the property is not vacuous.

### Shutdown

`cancelled` and `closed` are the token and the tracker's flag. A task is a slot
that may be spawned again and again, so the number of tasks in a run is not
bounded. A plain task is one tracked future. A critical task is a tracked
wrapper (`task`) that joins an inner task (`body`) which the tracker does not
see: `shutdown.rs:171-200` is `StartBody`, `JoinOk`, `JoinFailed` and `Leave`;
the wrapper cancels the token in one step and leaves the tracker in a later one.
Aborting the handle that `spawn_critical` returns drops the wrapper and detaches
the inner task (`Abort`, states `"detached"` and `"aborted"`). The listener of
`trigger_on_signal` is a tracked task that waits for a signal and nothing else;
its installation may panic (`InstallPanics`), in its own task and not in the
caller of `trigger_on_signal`. `shutdown()` is four steps per call, because the
other threads run between `cancel`, `close`, `wait` and the deadline. The wait
future keeps the notification it was sent (`drained`): the tracker may be empty
for an instant only.

`TaskTracker` and `CancellationToken` are dependencies, modelled from how
`shutdown.rs` uses them (`Tracked`, `DropTracked`, `WaitIsReady`).

`Late` slots may be spawned after the token fired; other spawners watch the
token. `Stubborn` slots never have to end.

### Supervisor

The loop of `run()` is cut where the token is read or something is awaited:
`CheckToken` (205-208), `SpawnTask` or `FactoryPanics` (210-215), `TaskEnds`,
`Join` (217), then one of `Refuse`, `Exhaust` and `Restart` (225-327), and
`Wake` (`backoff.rs:68-81`). Time is a natural number that `Tick` advances. The
budget is compared after the exit was recorded, and an entry exactly one window
old still counts (`>` in line 283), while a run exactly as long as `max_backoff`
is healthy (`>=` in 231; the comment at 199-201 says "longer than", a reading
that the model does not follow). `starts`, `grants` and `cancelPc` are history
variables.

### WorkerPool

`submit` and `join` take `&mut self`, so one call is inside the pool at a time
(`pc`, `arg`); a suspended call is a future that may be dropped. A finished
handler first drops its permit and only later becomes joinable, at the end of
its poll (`"releasing"`): between the two the slot can be taken again while the
task is still in the `JoinSet`. `Threads` bounds how many tasks can be inside
that window. Dropping the pool drops the `JoinSet`, which aborts its tasks.

### Retry

One action per outcome of an attempt. The predicate's verdict is part of the
outcome. `run` is `run_if` with a predicate that accepts every error. The token
is read on entry and in the sleep, and nowhere else.

### RetryingClient

The loop of `execute` is cut at the dispatch, its answer and the sleep. The first
dispatch stands before the loop and so needs no permission; each later one comes
after `Again`, which is the loop's range, `should_retry` and `try_clone` in that
order. A status is kept as retryable (`"status"`) or not (`"good"`), with the
`Retry-After` that only a retryable one can make matter; an `HTTP-date` or a
malformed header is as good as none. `seen` lists every outcome: `execute` keeps
the last only, which is what `result = "returned"` stands for. `cancelled` is the
caller's token; `Fired` adds that the client was given it. `Classify` is how the HTTP
client sorts the failures of reqwest (`network/client.rs:134-148`): a connect error
or a timeout is `"network"`, which a policy may replay, anything else is `"http"`.
The executor may be a `RateLimitedClient`: `"sent"` then holds its wait for a slot
too, which does not watch the token either.

### RateLimiter

A call is the list of buckets that it waits for (`Path`): `KeyedThenGlobal` is the
documented stacking (`rate_limit.rs:16-44`), `LimitedClient` and
`UnrestrictedClient` are the two variants of the HTTP client. `step` counts the
cells a call has; `f` begins in the poll that takes the last one, so `Running` is
a function of `step`. Each replay of a `RetryingClient` waits anew and is a call
of its own here. `wait_for_slot` is `until_ready` of governor, an external loop:
ask, sleep until the bucket may have a cell, ask again (`Take`, `Refuse`). One ask
is atomic, as it is a compare-and-swap loop over one number, `tat`, the instant at
which the bucket is full again. Time is exact: one cell is `period` ticks.
A call is dropped only while it sleeps, the one place where it is suspended.
`RetainRecent` reads the clock; `Forget` and `RetainEnds` go over the store later,
with calls in between. One sweep runs at a time. `shrink_to_fit` changes capacity,
which nothing here can observe.

`Quota` has the parser and the conversion as operators. The quotas of the run come
out of it, and two named assumptions of `MCRateLimiter` check it over small inputs:
which texts are windows, and that a quota refills in its window what it gives at
once. A last character of several bytes is a unit of its own, because `split_at`
panics on it. A rate above 10^9 a second, whose period governor would round to
zero nanoseconds, is left out.

### NatsServe

A server is one call of `serve_request_reply`, a message one call of `request` or
`publish`. `queue` and `stage` follow a message through a server: queued by
async_nats, `"handling"` from the poll that takes it, checks its size, decodes it
and begins the handler, `"replying"` while the answer is published. `InFlight` is
what `for_each_concurrent` counts. The handlers are polled by the task that polls
the call and not spawned: a panic in one (`HandlerPanics`), like dropping the call,
ends them all (`Perish`). The NATS server is external: it gives a message to any of
the plain subscribers and to one member of each queue group at most, or loses it,
and a reply may be lost or come after the requester's timeout. That async_nats
drops messages for a slow consumer is such a loss. `publish` answers before
anything is delivered. Connecting, and the payload itself, are left out; `Fits`
and `Decodes` say what the size limit and serde make of it.

### Validation

One action per arm of the scan, one step per byte. A byte is a quote, a backslash,
an opening or a closing bracket, or anything else: `{` and `[` share a budget in
the code too, and the scan does not match their kinds, which is left to serde
(`Deserialize`, external). `Deserved` says what a document ought to get by looking
at all of it: its literals end at the first quote after an even number of
backslashes, and brackets count outside of literals only.

### Throttle

`TryRun` is the critical section, with the clock read inside it as in line 84;
`Call` and `Finish` follow without the lock. The future may be dropped or panic
while the closure runs: neither touches the stamp nor, as the guard is gone by
then, poisons the mutex. What is spaced are the stamps: a caller preempted between
stamp and closure runs late, so closures may start closer than the interval, and
overlap, as the comment at 64-67 allows.

### Backoff

`Delays` is the set of values that `compute_delay` may return. `Factor` is the
saturating shift, `Jittered` the half-open range that `source % capped` yields.

## Runs

| run | bounds | distinct states | shows |
|---|---|---|---|
| `shutdown` | a task that watches the token, one that is stubborn and late, a critical task, a listener, two callers of which one has no timeout | 8 991 | what `Ok` means, failures, answers, the refinement |
| `shutdown_listener` | as above with one caller and no stubborn task | | violated: see findings |
| `shutdown_late` | one late task | | violated: see findings |
| `supervisor` | six policies, clock to 5, words of 2 bits | 320 490 | budget, backoff, cancellation |
| `worker_pool` | five jobs, one endless, two permits, one thread | 18 838 | permits, reaping, join |
| `retry` | five policies, clock to 8, words of 3 bits, token fired at any point | 19 044 | budget, outcome, cancellation |
| `retry_zero_delay` | the same | | violated: see findings |
| `retrying_client` | five policies, four kinds of requests, servers asking for 0, 2 or 5, clock to 5, words of 3 bits | 140 678 | replays, outcomes, pacing, cancellation |
| `throttle` | four interchangeable callers, interval 2, clock to 6 | 3 010 | spacing, discarded calls |
| `rate_limiter` | two calls of one key, one of another, all stacked on a global limiter, one unrestricted; one cell a second of two ticks with a burst of one or two, for each limiter | 145 853 | quotas, refusals, progress, the refinement |
| `nats` | three messages, two servers of two slots and one, in one group or plain | 460 120 | the limit, answers, the end of the stream, progress |
| `validation` | all documents of up to 7 bytes, one more than the size limit; depth limits 0 and 2 | 553 067 | the verdict |

Why the bounds are enough. *shutdown*: every rule speaks of one call, one task,
or of "some other" task or call; slots are reused, and two calls and two kinds
of tracked task that outlive each other already show every order of `close`,
`wait`, the last departure and a late arrival. *supervisor*: a cap of 2 and a
window of 2 or 3 ticks let entries expire one by one and together before the
clock ends; a doubling streak reaches `max` in two steps, and a third crash in a
row outgrows the word of 2 bits, where the factor saturates; the policies also
cover no window, no cap, a zero window with a zero backoff, jitter, and both
switches off. *worker_pool*: a pool of 2 with 5 jobs fills, empties and reuses
each slot, the bound `Cap + Threads + 1` of the join set is met exactly with
four of them, and one endless job separates the two liveness properties from
trivial ones. *retry*: four attempts reach the cap of the backoff, the policy of
one attempt skips the loop. *retrying_client*: three dispatches are a first, a
middle and a last one; the delays asked for are zero, under the cap of 3 and over
it. *throttle*: the clock holds three intervals, so three stamps in a row, a reset
in any gap, and a caller late by more than an interval. *rate_limiter*: three
calls on a bucket that holds one or two cells queue, overtake each other and are
dropped in any order; all can be refused, the second bucket can be the narrower
one, and a sweep can stand still over every grant. The clock runs on past `MaxTime`
while anybody sleeps. *nats*: with two slots one can be lost to the hanging handler
and the other goes on, with one it cannot; each kind of message meets each kind of
server, twice over without a group. *validation*: six bytes hold an escaped quote
or backslash inside a literal with a bracket on both sides, and three levels.
In the other modules `MaxTime` (`LastInstant` in `Throttle`) only stops the clock; no step waits for
a clock value that a reachable deadline exceeds without the token being an
alternative. Where a deadline lies beyond `MaxTime` the loop sleeps for ever, as
it may in the code as far as these liveness properties are concerned: none
of them relies on time passing. Deadlock is not checked because all these loops
end, or wait for a task that may never end.

### Properties worth reading

* `OkOwesNothing`: `shutdown()` answers `Ok` only when each task that it found
  has gone, though tasks come and go and other calls run beside it.
* `FailureCancelsFirst`, `FailureDrains`: no failed critical task is gone while
  the token is not cancelled, unless somebody aborted its handle; and everything
  that watches the token then goes, for good.
* `ShutdownAnswers`: a call with a finite timeout returns, and without one, one instant with only cooperative tasks tracked is
  enough. A `shutdown` that does not close the tracker fails it.
* `BudgetIsExact`: neither one restart too many in any window of
  a run, nor an early `RetryExhausted`. Both are stated over the instants of the
  restarts and not over `history`, the code's own record of them.
* `BackoffFollowsStreak`: the streak is computed anew from the instants of starts
  and exits, and the sleep from it: `base * 2^(n-1)` as `backoff.rs:15` says, up to
  the word, where the factor stays at its maximum as `backoff.rs:27-30` says.
* `CancelWins`, `NoStartAfterCancel`, `NoLateAttempt`: what may still happen after
  the token fired, with the exact window in which it must have fired.
* `DispatchesBounded`, `OutcomeExplained`: a request that must not be replayed never
  is, and one that may be is replayed within the budget, for as long as the rules say and no longer.
* `HonoursServer`: over every replay of a call, the pause is what the last answer
  asked for, up to the cap, jitter or no jitter.
* `Spaced`, `DiscardJustified`: admitted calls are an interval apart, and one that
  is discarded owes it to an admitted one and not to another discarded one.
* `PermitsConserved`, `JoinSetBounded`: a dropped `submit`, a panic, a slow
  thread neither lose a slot nor let finished tasks pile up.
* `WaitsOnlyWhenFull`: a `submit` stays suspended only while as many jobs run as
  there are permits, however dropped futures and releases interleave: the wake-up
  goes with the permit.
* `QuotaHolds`: over any stretch of a bucket's cells, read off the instants at which
  they were given and not off the bucket, whatever a sweep forgot in between.
* `RefusalJustified`: with `QuotaHolds` it makes the limiter exact. Nobody sleeps
  unless one more cell at this instant would break the quota of its own bucket.
* `EveryCallRuns`: calls hold no place in a queue, and still each one runs, which
  the repository's README promises at line 326 (finitely many calls, see Fairness).
* `OkMeansSettled`, `MessagesSettle`: `serve_request_reply` answers `Ok` over nothing
  unfinished; a hanging handler costs its slot and nothing else.
* `AnswerIsEarned`: through timeouts, late replies and several subscribers, an `Ok`
  goes back to a handler's `Ok`, and silence is the only answer to a failure.
* `VerdictIsRight`: the one-pass scan and the definition over the whole document
  agree, and the scan reads nothing behind the first fault.
* `DrainSpec`, `PoolSpec`, `LeakySpec`: the refinements of `GracefulDrain`,
  `BoundedPool` and `LeakyBucket`. In the last the level of a bucket is what `tat`
  is ahead of the clock, so forgetting a bucket must be invisible.

### Fairness

*Shutdown*: weak fairness of each wrapper and listener step that only needs the
executor, of each call of `shutdown()` (its timer fires), and of the end of a
task that watches the token, once it is cancelled. Not of signals, spawns,
aborts, or of stubborn tasks. *Supervisor*: the loop is polled when it can step;
a supervised task that was handed the token ends once it is cancelled. Time need
not pass. *WorkerPool*: the owner's future and the tasks are polled; handlers of
`Endless` jobs never return; nobody need submit, join or drop. *Retry*: the
caller's future is polled and `op` returns. *RetryingClient*: the caller's future
is polled and the executor answers; a dispatch that hangs outlasts the token.
*Throttle*: none, its properties are safety. *RateLimiter*: time passes, timers fire
and calls are polled; as each call takes its cells once, nobody is overtaken for
ever. With calls that never cease governor promises no such thing, and neither does
the model. *NatsServe*: the serving call is polled, a reply that is ready is
published, handlers end but for those of `Endless` messages. Nothing need be sent or
delivered, and no stream need end. *Validation*: none.

tokio promises to poll what was woken, and each step above is one of a future
whose waker is registered where it waits. The semaphore hands a freed permit to
the waiter (`Release`), so the resumption of `submit` needs no strong fairness.

## Proofs

All proofs are checked to the last leaf by TLAPS for any values of the constants
that satisfy the named assumptions: disjoint kinds of tasks
(`KindsAreDisjoint`), positive capacities (`CapIsPositive`,
`ThreadsArePositive`), finitely many jobs (`JobsAreFinite`), policies of their
type (`PoliciesType`), delays and intervals that are natural numbers (`AsksType`,
`IntervalType`), finitely many calls that visit a bucket once each (`CallersAreFinite`,
`PathsVisitOnce`), quotas with a positive period and burst (`QuotasType`), a second of
at least one tick (`SecondIsPositive`), documents made of bytes (`DocumentsType`),
and `PowersOfTwo`, the arithmetic of `2^n` up to the word width, of which the
provers know nothing (TLC evaluates it on each run).

* **Shutdown** (`ShutdownProofs`). `TypeOK` includes that the inner task of a
  critical wrapper runs under a tracked wrapper unless its handle was aborted.
  `IInv` adds to it: a call's `pending` is
  a part of the tracker, a notified call has nothing pending, a call beyond
  `close()` finds the tracker closed and waits only while it holds a task.
  `OkOwesNothing` alone is not inductive: it needs the notified calls. Steps are
  first grouped by what they do to the tracker (`Drops`, `Joins`, `Stays`), so
  that each invariant has one case per group. `FailureCancelsFirst` rests on a
  second invariant, `LeavingCancelled`. `ImplementsDrain` maps every step to a
  step of `GracefulDrain` or to a stutter.
* **Backoff** (`BackoffProofs`). `DelayBounds`: never more than `max`; without
  jitter never less than the smaller of `base` and `max`, for every attempt.
* **Supervisor** (`SupervisorProofs`). The invariant ties the pruned `history` to
  `grants`: while the loop runs it is exactly the end of the grants, which are in
  order, and every grant missing from it lies more than a window before the last.
  `BudgetIsExact` follows from that and from a lemma on what `Prune` removes.
  `BackoffAlwaysFollows` has an invariant of its own (`StreakInv`): the counter is
  the number of exits since the last healthy run, saturated like the factor that is
  made of it. `CancelWins` and `NoStartAfterCancel` follow from an invariant
  on where the token may have fired given where the loop is; `PacedStarts` from
  one on the deadline of the sleep and `DelayBounds`.
* **WorkerPool** (`WorkerPoolProofs`). Counting arguments over the cardinalities
  of `In("spawned")`, `In("releasing")` and `In("finished")`. `JoinSetBounded` is
  strengthened by two facts: at most `Threads` tasks are `"releasing"`, and inside
  `submit`, which has just reaped, the set holds at most `Cap + Threads`. `ImplementsPool` uses `PermitsConserved` to show that
  a spawn finds fewer than `Cap` jobs under way. `WaitersAreWoken` needs besides it
  that nobody waits beside an idle permit; with it, a suspended `submit` waits for
  some job that is not endless (`WaitsForAJobThatEnds`), which is what `SubmitResumes`
  needs before fairness comes in.
* **Retry** (`RetryProofs`). The budget, the outcome (`ResultsAreExplained`) and
  the attempts after cancellation (`NoLateAttempts`), the last from an invariant
  on `late` and `cancelPc` and from `DelayBounds`: a positive base and cap without
  jitter never give a zero delay.
* **RetryingClient** (`RetryingClientProofs`). `Progress` says of a call under way
  that it has dispatches left and that everything seen was worth another, from
  which `DispatchesAreBounded` and `OutcomesAreExplained` follow. `ServerIsHonoured` needs
  an invariant on the deadline of the sleep relative to the last answer
  (`PaceInv`), `NoLateDispatches` one on `late` and `cancelPc`; both use
  `DelaysAfterBounds`, on what `compute_delay` returns with and without a header.
* **RateLimiter** (`PacingProofs`). `QuotaHolds` says nothing of `tat` and is
  not inductive. `Behind` adds that every cell ever given is paid for: with one
  period each, it and the cells after it end no later than `tat` or, for a forgotten
  bucket, than now. `Backed` adds the converse, that `tat` is paid for by such
  cells, from which `RefusalsAreJustified` follows. `CellsAccounted`, in `TypeOK`,
  is a count over the calls that have a cell of a bucket. `ImplementsLeakyBucket`
  maps a cell given to a pour, a tick to a drain, and all else, the sweep
  included, to a stutter.
* **Throttle** (`PacingProofs`). `Spaced` is inductive with `StampsOrdered`: stamps
  are in order and in the past, so the one that the code keeps speaks for all.
* **Quota** (`PacingProofs`). `QuotasAreSound` discharges, for limiters built from
  texts, what `RateLimiter` assumes of `Quotas`: for a rate of at most one cell per
  tick (a nanosecond in the code) period and burst are positive, and what may be
  taken at once refills within the window.
* **NatsServe** (`IngressProofs`). `TypeOK` and `AnswerIsEarned` are not inductive.
  The invariant adds that a queue holds no message twice (`QueueOnce`), so that
  taking its head takes the message off it; that nobody has a message before it is
  sent (`Unsent`), so that delivering it adds it once; and that a reply under way
  was earned by a handler that was given the message (`Worked`). `WithinLimit`
  counts: `Take` adds one message in flight below the limit, all else adds none.
  `FullServersHaveWork` is the part of `MessagesSettle` without fairness.
* **Validation** (`IngressProofs`). `VerdictIsAlwaysRight` is about documents of
  every length. First, `OpeningsExist`: each document has one division into
  literals, found quote by quote, by a least counterexample in place of an
  induction; no two of them overlap (`LiteralsAreApart`). Then the invariant: the
  byte ahead belongs to a literal exactly if `inside_string`, and is escaped there
  exactly if `escaped` (`Strings`: the flag is the parity of the backslashes right
  before the byte); `current_depth` is what was opened and not closed outside of
  literals (`Nesting`); no fault lies behind (`NothingBehind`). The first fault
  ahead is then where the scan stops.

Model-checked only: everything under fairness (`FailureDrains`, `ShutdownAnswers`,
`CancelStops`, `SubmitResumes`, `JoinEnds`, `EveryCallRuns`, `MessagesSettle`),
because TLAPS does not reason about ENABLED. Every other property of a passing run is
stated by a theorem. `FromString` on texts that are no window is evaluated by TLC
(`TextsParse`). `WaitsForSomeTask` of `Shutdown` and the types of `Retry`,
`RetryingClient` and `Throttle` are the other way round: they are proved, and no run repeats them.

## Findings

Where the code and what it says of itself differ, found while modelling.

1. `shutdown.rs:261-263` says that `shutdown()` waits for the signal listener to
   exit after triggering. The listener waits for a signal and not for the token:
   a `shutdown()` that no signal caused waits for it until its timeout (run
   `shutdown_listener`).
2. `shutdown.rs:222` and 238-239 say that no task can be added to a closed tracker.
   It can, and `shutdown()` then waits for it (run `shutdown_late`).
3. `retry.rs:143-144` says that the token ends the attempts. With a zero delay it
   is not read between them (run `retry_zero_delay`; `backoff.rs:69-71`).
4. `supervisor.rs:185-187` promises the last error in the `RetryExhausted` report;
   the report is built without it (298-302). No run: reports have no chains here.
5. `backoff.rs:16` and 39 promise jitter from `[0, capped]`; `capped` itself is
   never drawn (55). No run: `Jittered` is the half-open range.
6. `network/retry.rs:170-173` says that the token aborts the retry loop the moment
   it fires. With a zero delay, which a server can ask for with `Retry-After: 0`,
   it is not read (238; `backoff.rs:69-71`): the cause of finding 3, met again, so
   `NoLateDispatch` is stated for delays that are not zero.
7. The repository's README says at line 72 that `from_string` returns `None` for a bad
   suffix. A last character of several bytes makes `split_at` panic
   (`network/rate_limit.rs:40`). No run: `FromString` has the panic as an outcome.
8. `network/nats/client.rs:207` says that per-message failures do not abort the loop.
   A panic in a handler does (266-280): it takes the subscription and every message
   in flight with it. No run: the text may mean the failures that it lists, which
   do not.
9. `network/validation.rs:80-81` says that behind an unterminated string the depth is
   non-zero too. It is zero for a bare string. No run: the order of the two checks
   that it argues for is right either way.

## Not modelled

Report chains, attachments, log lines, task names and the number of remaining
tasks in a timeout report (`shutdown.rs:249`, read after the deadline, so it may
count later tasks or be zero). `Secret`: redaction is formatting, and the point of
its constant-time comparison is its timing. The error enumeration, of which the
models keep the variants that callers can tell apart. The options of a NATS
connection, `connect`, `from_async_nats`, `inner` and the installation of the TLS
provider: single calls into async_nats and rustls that change nothing here. What
governor, tokio, async_nats, reqwest and serde_json do inside; the models have what
the code relies on. Overflow of `Duration` (its multiplication saturates and is
capped at once) and of the clock.

## Plan

Done: `Backoff`, `Shutdown` with `GracefulDrain`, `Supervisor`, `WorkerPool` with
`BoundedPool`, `Retry`, `Throttle`, `RetryingClient`, `RateLimiter` with
`LeakyBucket`, `NatsServe` and `Validation`, each with its run and its proofs. Every
safety invariant and action property of a passing run is stated by a theorem,
but for those the section on proofs names.

Left: compositions, that is, supervisors and pools under one shutdown controller,
and a `RetryingClient` over the rate-limited client with the wait for a slot as a
state of its own.
