------------------------------- MODULE Quota -------------------------------
(***************************************************************************)
(* From a textual rate to the quota of a limiter (network/rate_limit.rs).  *)
(* Time is counted in ticks; a quota replenishes one cell every `period`   *)
(* and holds at most `burst` of them.                                      *)
(***************************************************************************)
EXTENDS Integers

CONSTANT Second  \* ticks in a second

ASSUME SecondIsPositive == Second \in Nat \ {0}

\* A text is empty, or a last character behind some text: `number` is what that
\* parses to as a u32, if it does; "wide" is a last character of several bytes.
Units == {"s", "m", "h", "d", "other", "wide"}
Empty == [number |-> {}, unit |-> "none"]
Texts(numbers) == {Empty} \cup [number: {{}} \cup {{n} : n \in numbers}, unit: Units]

PerSecond(n) == [kind |-> "PerSecond", allowed |-> n]
PerMinute(n) == [kind |-> "PerMinute", allowed |-> n]
Custom(p)    == [kind |-> "Custom", period |-> p]

\* RateLimitWindow::from_string: the window, if any.  split_at comes before
\* every other test and panics inside of a character.
FromString(text) ==
  LET positive == {n \in text.number : n > 0} IN
  CASE text.unit = "s" -> {PerSecond(n) : n \in positive}
    [] text.unit = "m" -> {PerMinute(n) : n \in positive}
    [] text.unit = "h" -> {Custom(n * 3600 * Second) : n \in positive}
    [] text.unit = "d" -> {Custom(n * 86400 * Second) : n \in positive}
    [] text.unit = "wide" -> {[kind |-> "panic"]}
    [] text.unit \in {"none", "other"} -> {}

\* governor's quotas: `allowed` cells at once, and over one window.
Spread(window, allowed) == [period |-> window \div allowed, burst |-> allowed]

\* quota_from_window: the quota, or nothing for a period of zero.
QuotaFromWindow(w, burst) ==
  LET base == CASE w.kind = "PerSecond" -> {Spread(Second, w.allowed)}
                [] w.kind = "PerMinute" -> {Spread(60 * Second, w.allowed)}
                [] w.kind = "Custom"    -> {[period |-> p, burst |-> 1] : p \in {w.period} \ {0}}
  IN  IF burst = {} THEN base ELSE {[q EXCEPT !.burst = b] : q \in base, b \in burst}
=============================================================================
