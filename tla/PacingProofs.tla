--------------------------- MODULE PacingProofs ---------------------------
(* Safety of RateLimiter for any callers, keys, quotas and paths, its         *)
(* refinement of LeakyBucket, and safety of Throttle.                         *)
EXTENDS RateLimiter, Throttle, Quota, FiniteSetTheorems, TLAPS

-----------------------------------------------------------------------------
(* Multiples of a period.                                                    *)

LEMMA Multiple == \A k \in Int, p \in Nat : k * p \in Int
OBVIOUS

LEMMA NextMultiple == \A k \in Int, p \in Nat : (k + 1) * p = k * p + p
OBVIOUS

LEMMA MoreMultiples == \A j, k \in Int, p \in Nat : j <= k => j * p <= k * p
OBVIOUS

LEMMA NotPositive == \A k \in Int, p \in Nat : k <= 0 => k * p <= 0
OBVIOUS

LEMMA NotNegative == \A k \in Int, p \in Nat : 0 <= k => 0 <= k * p
OBVIOUS

LEMMA Difference == \A j, k \in Int, p \in Nat : (j - k) * p = j * p - k * p
OBVIOUS

-----------------------------------------------------------------------------
(* The inductive invariant: what the store knows of a bucket speaks for all   *)
(* the cells that it gave, and for none that it did not give.                 *)

Due(b) == MaxOf(Arrival(b), now)

\* One period for each cell since the i-th one, and for that one.
Paying(b, i) == granted[b][i] + (Len(granted[b]) - i + 1) * quota[b].period

Behind == \A b \in Buckets : \A i \in 1..Len(granted[b]) :
            granted[b][i] <= now /\ Paying(b, i) <= Due(b)

Backed == \A b \in Buckets : \A x \in tat[b] : \E i \in 1..Len(granted[b]) : x = Paying(b, i)

IInv == TypeOK /\ Behind /\ Backed /\ QuotaHolds

LEMMA BucketType ==
  ASSUME TypeOK, NEW b \in Buckets
  PROVE  /\ quota[b].period \in Nat /\ quota[b].period >= 1
         /\ quota[b].burst \in Nat /\ quota[b].burst >= 1
         /\ granted[b] \in Seq(Nat) /\ Len(granted[b]) \in Nat
         /\ \A i \in 1..Len(granted[b]) : granted[b][i] \in Nat
BY QuotasType DEF TypeOK

LEMMA ArrivalType ==
  ASSUME TypeOK, NEW b \in Buckets
  PROVE  /\ Arrival(b) \in Nat /\ Due(b) \in Nat /\ Due(b) >= now /\ Due(b) >= Arrival(b)
         /\ Due(b) = now \/ (Due(b) = Arrival(b) /\ tat[b] # {})
         /\ \A x \in tat[b] : Arrival(b) = x
         /\ tat[b] = {} => Arrival(b) = now
BY DEF TypeOK, Arrival, Home, Due, MaxOf

LEMMA PayingType ==
  ASSUME TypeOK, NEW b \in Buckets, NEW i \in 1..Len(granted[b])
  PROVE  Paying(b, i) \in Int
<1>. DEFINE due == (Len(granted[b]) - i + 1) * quota[b].period
<1>1. due \in Int
  BY BucketType, Multiple
<1>2. granted[b][i] \in Int
  BY BucketType
<1>. HIDE DEF due
<1>3. granted[b][i] + due \in Int
  BY <1>1, <1>2
<1>. QED  BY <1>3 DEF Paying, due

\* Nothing was granted, and no bucket became any fuller: a refusal, the end of a
\* call, a sweep, the clock.
LEMMA QuietStep ==
  ASSUME IInv, TypeOK', UNCHANGED <<quota, granted>>, now <= now',
         \A b \in Buckets : /\ Due(b) <= Due(b)'
                           /\ tat'[b] \subseteq tat[b]
  PROVE  IInv'
<1>1. now \in Nat /\ now' \in Nat
  BY DEF IInv, TypeOK
<1>2. Behind'
  <2>. SUFFICES ASSUME NEW b \in Buckets, NEW i \in 1..Len(granted[b])
                PROVE  granted[b][i] <= now' /\ Paying(b, i) <= Due(b)'
    BY DEF Behind, Paying
  <2>1. granted[b][i] <= now /\ Paying(b, i) <= Due(b)
    BY DEF IInv, Behind
  <2>2. /\ Paying(b, i) \in Int /\ granted[b][i] \in Nat /\ Due(b) \in Nat /\ Due(b)' \in Nat
    <3>1. Due(b)' \in Nat
      BY DEF TypeOK, Due, MaxOf, Arrival, Home
    <3>. QED  BY <3>1, BucketType, PayingType, ArrivalType DEF IInv
  <2>. QED  BY <1>1, <2>1, <2>2
<1>3. Backed'
  BY DEF IInv, Backed, Paying
<1>4. QuotaHolds'
  BY DEF IInv, QuotaHolds
<1>. QED  BY <1>2, <1>3, <1>4 DEF IInv

\* A cell is given only when the quota has room for it.
LEMMA RoomForOneMore ==
  ASSUME IInv, NEW b \in Buckets, now >= Earliest(b), NEW i \in 1..Len(granted[b])
  PROVE  now - granted[b][i] >= (Len(granted[b]) + 2 - i - quota[b].burst) * quota[b].period
<1>. DEFINE n == Len(granted[b])
            P == quota[b].period
            B == quota[b].burst
            g == granted[b][i]
<1>1. n \in Nat /\ P \in Nat /\ B \in Nat /\ B >= 1 /\ g \in Nat /\ i \in Int /\ now \in Nat
  BY BucketType DEF IInv, TypeOK
<1>2. g + (n - i + 1) * P <= Due(b)
  BY DEF IInv, Behind, Paying
<1>3. now >= Arrival(b) - (B - 1) * P
  BY DEF Earliest
<1>4. Arrival(b) \in Nat /\ Due(b) \in Nat /\ (Due(b) = now \/ Due(b) = Arrival(b))
  BY ArrivalType DEF IInv
<1>. HIDE DEF n, P, B, g
<1>5. n - i + 1 \in Int /\ B - 1 \in Int /\ n + 2 - i - B \in Int
  BY <1>1
<1>6. /\ (n - i + 1) * P \in Int /\ (B - 1) * P \in Int /\ (n + 2 - i - B) * P \in Int
  BY <1>1, <1>5, Multiple
<1>7. CASE Due(b) = Arrival(b)
  <2>1. (n + 2 - i - B) * P = (n - i + 1) * P - (B - 1) * P
    <3>1. n + 2 - i - B = (n - i + 1) - (B - 1)
      BY <1>1
    <3>2. ((n - i + 1) - (B - 1)) * P = (n - i + 1) * P - (B - 1) * P
      BY <1>1, <1>5, Difference
    <3>. QED  BY <3>1, <3>2
  <2>2. now - g >= (n + 2 - i - B) * P
    BY <1>1, <1>2, <1>3, <1>4, <1>6, <1>7, <2>1
  <2>. QED  BY <2>2 DEF n, P, B, g
<1>8. CASE Due(b) = now
  <2>1. (n + 2 - i - B) * P <= (n - i + 1) * P
    <3>1. n + 2 - i - B <= n - i + 1
      BY <1>1
    <3>. QED  BY <1>1, <1>5, <3>1, MoreMultiples
  <2>2. now - g >= (n + 2 - i - B) * P
    BY <1>1, <1>2, <1>6, <1>8, <2>1
  <2>. QED  BY <2>2 DEF n, P, B, g
<1>. QED  BY <1>4, <1>7, <1>8

-----------------------------------------------------------------------------
(* A cell is given.                                                          *)

\* The bucket that c waits on is one that it has not yet a cell of.
LEMMA NextBucket ==
  ASSUME TypeOK, NEW c \in Callers, ~Running(c)
  PROVE  /\ Bucket(c) \in Buckets /\ ~Paid(c, Bucket(c)) /\ step[c] \in Nat
         /\ step[c] + 1 \in 1..Len(Path[c])
<1>1. /\ step[c] \in 0..Len(Path[c]) /\ Len(Path[c]) \in Nat /\ step[c] # Len(Path[c])
      /\ Path[c] \in Seq(Buckets)
  BY PathsVisitOnce DEF TypeOK, Running
<1>2. step[c] + 1 \in 1..Len(Path[c])
  BY <1>1
<1>3. \A i \in 1..step[c] : Path[c][i] # Bucket(c)
  BY <1>1, <1>2, PathsVisitOnce DEF Bucket
<1>. QED  BY <1>1, <1>2, <1>3 DEF Bucket, Paid

LEMMA TakeType ==
  ASSUME TypeOK, NEW c \in Callers, Take(c)
  PROVE  TypeOK'
<1>. DEFINE b == Bucket(c)
            holders(a) == {d \in Callers : Paid(d, a)}
<1>1. /\ ~Running(c) /\ UNCHANGED <<quota, now, dropped, cutoff>>
      /\ tat' = [tat EXCEPT ![b] = {Due(b) + quota[b].period}]
      /\ granted' = [granted EXCEPT ![b] = Append(@, now)]
      /\ step' = [step EXCEPT ![c] = @ + 1] /\ wakeAt' = [wakeAt EXCEPT ![c] = 0]
  BY DEF Take, Asks, Home, Due
<1>2. b \in Buckets /\ ~Paid(c, b) /\ step[c] \in Nat /\ step[c] + 1 \in 1..Len(Path[c])
  BY <1>1, NextBucket
<1>3. Due(b) + quota[b].period \in Nat
  BY <1>2, ArrivalType, BucketType
<1>4. /\ tat' \in [Buckets -> SUBSET Nat] /\ \A a \in Buckets : \A x, y \in tat'[a] : x = y
  BY <1>1, <1>2, <1>3 DEF TypeOK
<1>5. step' \in [Callers -> Nat] /\ \A d \in Callers : step'[d] \in 0..Len(Path[d])
  BY <1>1, <1>2 DEF TypeOK
<1>6. wakeAt' \in [Callers -> Nat] /\ granted' \in [Buckets -> Seq(Nat)]
  BY <1>1, <1>2 DEF TypeOK
<1>7. CellsAccounted'
  <2>1. \A a \in Buckets : holders(a)' = IF a = b THEN holders(a) \cup {c} ELSE holders(a)
    <3>1. \A d \in Callers : d # c => step'[d] = step[d]
      BY <1>1 DEF TypeOK
    <3>2. step'[c] = step[c] + 1
      BY <1>1 DEF TypeOK
    <3>3. \A i : i \in 1..(step[c] + 1) <=> i \in 1..step[c] \/ i = step[c] + 1
      BY <1>2
    <3>4. \A a \in Buckets : Paid(c, a)' <=> Paid(c, a) \/ a = b
      BY <3>2, <3>3 DEF Paid, Bucket
    <3>5. \A a \in Buckets : \A d \in Callers : d # c => (Paid(d, a)' <=> Paid(d, a))
      BY <3>1 DEF Paid
    <3>. QED  BY <3>4, <3>5
  <2>2. \A a \in Buckets : IsFiniteSet(holders(a))
    BY CallersAreFinite, FS_Subset
  <2>3. c \notin holders(b)
    BY <1>2
  <2>4. Cardinality(holders(b) \cup {c}) = Cardinality(holders(b)) + 1
    BY <1>2, <2>2, <2>3, FS_AddElement
  <2>5. \A a \in Buckets : a # b => granted'[a] = granted[a]
    BY <1>1, <1>2 DEF TypeOK
  <2>6. Len(granted'[b]) = Len(granted[b]) + 1
    BY <1>1, <1>2 DEF TypeOK
  <2>7. \A a \in Buckets : Len(granted[a]) = Cardinality(holders(a))
    BY DEF TypeOK, CellsAccounted
  <2>8. \A a \in Buckets : Len(granted'[a]) = Cardinality(holders(a)')
    BY <1>2, <2>1, <2>4, <2>5, <2>6, <2>7
  <2>. QED  BY <2>8 DEF CellsAccounted
<1>. QED  BY <1>1, <1>4, <1>5, <1>6, <1>7 DEF TypeOK

\* One period more for everybody, and one for the new cell.
LEMMA TakeAdvances ==
  ASSUME IInv, NEW c \in Callers, Take(c), NEW b, b = Bucket(c),
         NEW n, n = Len(granted[b]), NEW P, P = quota[b].period
  PROVE  /\ b \in Buckets /\ n \in Nat /\ P \in Nat
         /\ UNCHANGED <<quota, now>>
         /\ tat'[b] = {Due(b) + P} /\ Due(b)' = Due(b) + P
         /\ Len(granted'[b]) = n + 1 /\ granted'[b][n + 1] = now
         /\ Paying(b, n + 1)' = now + P
         /\ \A i \in 1..n : granted'[b][i] = granted[b][i] /\ Paying(b, i)' = Paying(b, i) + P
         /\ \A a \in Buckets \ {b} : tat'[a] = tat[a] /\ granted'[a] = granted[a]
<1>1. /\ ~Running(c) /\ UNCHANGED <<quota, now>>
      /\ tat' = [tat EXCEPT ![b] = {Due(b) + P}]
      /\ granted' = [granted EXCEPT ![b] = Append(@, now)]
  BY DEF Take, Asks, Home, Due
<1>2. b \in Buckets
  BY <1>1, NextBucket DEF IInv
<1>3. n \in Nat /\ P \in Nat /\ P >= 1 /\ granted[b] \in Seq(Nat) /\ now \in Nat
  BY <1>2, BucketType DEF IInv, TypeOK
<1>4. /\ tat'[b] = {Due(b) + P}
      /\ granted'[b] = Append(granted[b], now)
      /\ \A a \in Buckets \ {b} : tat'[a] = tat[a] /\ granted'[a] = granted[a]
  BY <1>1, <1>2 DEF IInv, TypeOK
<1>5. /\ Len(granted'[b]) = n + 1 /\ granted'[b][n + 1] = now
      /\ \A i \in 1..n : granted'[b][i] = granted[b][i]
  BY <1>3, <1>4
<1>6. Due(b)' = Due(b) + P
  <2>1. Due(b) \in Nat /\ Due(b) >= now
    BY <1>2, ArrivalType DEF IInv
  <2>2. Arrival(b)' = Due(b) + P
    BY <1>4 DEF Arrival, Home
  <2>. QED  BY <1>1, <1>3, <2>1, <2>2 DEF Due, MaxOf
<1>7. Paying(b, n + 1)' = now + P
  <2>1. ((n + 1) - (n + 1) + 1) * P = P
    BY <1>3
  <2>2. Paying(b, n + 1)' = granted'[b][n + 1] + (Len(granted'[b]) - (n + 1) + 1) * quota'[b].period
    BY DEF Paying
  <2>. QED  BY <1>1, <1>5, <2>1, <2>2
<1>8. ASSUME NEW i \in 1..n  PROVE Paying(b, i)' = Paying(b, i) + P
  <2>1. i \in Int /\ n - i + 1 \in Int /\ (n + 1) - i + 1 = (n - i + 1) + 1
    BY <1>3
  <2>2. ((n - i + 1) + 1) * P = (n - i + 1) * P + P /\ (n - i + 1) * P \in Int
    BY <1>3, <2>1, NextMultiple, Multiple
  <2>3. PICK due \in Int : due = (n - i + 1) * P /\ ((n - i + 1) + 1) * P = due + P
    BY <2>2
  <2>4. Paying(b, i)' = granted[b][i] + (due + P) /\ Paying(b, i) = granted[b][i] + due
    BY <1>1, <1>5, <2>1, <2>3 DEF Paying
  <2>5. granted[b][i] \in Int
    BY <1>2, BucketType DEF IInv
  <2>6. \A g \in Int : g + (due + P) = (g + due) + P
    BY <1>3
  <2>. QED  BY <2>4, <2>5, <2>6
<1>. QED  BY <1>1, <1>2, <1>3, <1>4, <1>5, <1>6, <1>7, <1>8

LEMMA TakeStep ==
  ASSUME IInv, NEW c \in Callers, Take(c)
  PROVE  IInv'
<1>1. PICK b : b = Bucket(c)
  OBVIOUS
<1>2. PICK n : n = Len(granted[b])
  OBVIOUS
<1>3. PICK P : P = quota[b].period
  OBVIOUS
<1>4. /\ b \in Buckets /\ n \in Nat /\ P \in Nat
      /\ UNCHANGED <<quota, now>>
      /\ tat'[b] = {Due(b) + P} /\ Due(b)' = Due(b) + P
      /\ Len(granted'[b]) = n + 1 /\ granted'[b][n + 1] = now
      /\ Paying(b, n + 1)' = now + P
      /\ \A i \in 1..n : granted'[b][i] = granted[b][i] /\ Paying(b, i)' = Paying(b, i) + P
      /\ \A a \in Buckets \ {b} : tat'[a] = tat[a] /\ granted'[a] = granted[a]
  BY <1>1, <1>2, <1>3, TakeAdvances
<1>5. \A i \in 1..(n + 1) : i \in 1..n \/ i = n + 1
  BY <1>4
<1>6. \A a \in Buckets \ {b} : /\ Due(a)' = Due(a)
                               /\ \A i : Paying(a, i)' = Paying(a, i)
  <2>. SUFFICES ASSUME NEW a \in Buckets \ {b}
                PROVE  Due(a)' = Due(a) /\ \A i : Paying(a, i)' = Paying(a, i)
    OBVIOUS
  <2>1. UNCHANGED <<quota, now>> /\ tat'[a] = tat[a] /\ granted'[a] = granted[a]
    BY <1>4
  <2>. QED  BY <2>1 DEF Due, Arrival, Home, Paying
<1>7. /\ now \in Nat /\ Due(b) \in Nat /\ now <= Due(b)
      /\ \A i \in 1..n : Paying(b, i) \in Int /\ granted[b][i] <= now /\ Paying(b, i) <= Due(b)
  <2>1. now \in Nat /\ Due(b) \in Nat /\ now <= Due(b)
    BY <1>4, ArrivalType DEF IInv, TypeOK
  <2>2. \A i \in 1..n : Paying(b, i) \in Int
    BY <1>2, <1>4, PayingType DEF IInv
  <2>. QED  BY <1>2, <1>4, <2>1, <2>2 DEF IInv, Behind
<1>8. Behind'
  <2>1. ASSUME NEW a \in Buckets, NEW i \in 1..Len(granted'[a])
        PROVE  granted'[a][i] <= now' /\ Paying(a, i)' <= Due(a)'
    <3>1. CASE a # b
      BY <1>4, <1>6, <2>1, <3>1 DEF IInv, Behind
    <3>2. CASE a = b /\ i \in 1..n
      <4>1. Paying(b, i) \in Int /\ Paying(b, i) <= Due(b) /\ granted[b][i] <= now
        BY <1>7, <3>2
      <4>2. Paying(b, i)' = Paying(b, i) + P /\ Due(b)' = Due(b) + P /\ P \in Nat
        BY <1>4, <3>2
      <4>3. Paying(b, i)' <= Due(b)'
        BY <1>7, <4>1, <4>2
      <4>. QED  BY <1>4, <3>2, <4>1, <4>3
    <3>3. CASE a = b /\ i = n + 1
      BY <1>4, <1>7, <3>3
    <3>. QED  BY <1>4, <1>5, <3>1, <3>2, <3>3
  <2>. QED  BY <2>1 DEF Behind
<1>9. Backed'
  <2>1. ASSUME NEW a \in Buckets \ {b}, NEW x \in tat'[a]
        PROVE  \E i \in 1..Len(granted'[a]) : x = Paying(a, i)'
    BY <1>4, <1>6 DEF IInv, Backed
  <2>2. \E i \in 1..(n + 1) : Due(b) + P = Paying(b, i)'
    <3>1. CASE Due(b) = now
      BY <1>4, <3>1
    <3>2. CASE Due(b) # now
      <4>1. Due(b) \in tat[b]
        BY <1>4, <3>2, ArrivalType DEF IInv
      <4>2. PICK i \in 1..n : Due(b) = Paying(b, i)
        BY <1>2, <1>4, <4>1 DEF IInv, Backed
      <4>. QED  BY <1>4, <4>2
    <3>. QED  BY <3>1, <3>2
  <2>. QED  BY <1>4, <2>1, <2>2 DEF Backed
<1>10. QuotaHolds'
  <2>1. ASSUME NEW a \in Buckets, NEW i \in 1..Len(granted'[a]), NEW j \in 1..Len(granted'[a]), i <= j
        PROVE  granted'[a][j] - granted'[a][i] >= (j - i + 1 - quota'[a].burst) * quota'[a].period
    <3>1. CASE a # b
      BY <1>4, <2>1, <3>1 DEF IInv, QuotaHolds
    <3>2. CASE a = b /\ j \in 1..n
      <4>1. i \in 1..n
        BY <1>4, <1>5, <2>1, <3>2
      <4>. QED  BY <1>2, <1>4, <2>1, <3>2, <4>1 DEF IInv, QuotaHolds
    <3>3. CASE a = b /\ j = n + 1 /\ i \in 1..n
      <4>1. now - granted[b][i] >= (n + 2 - i - quota[b].burst) * P
        BY <1>1, <1>2, <1>3, <1>4, <3>3, RoomForOneMore DEF Take
      <4>2. n + 2 - i - quota[b].burst = j - i + 1 - quota[b].burst
        <5>1. quota[b].burst \in Nat
          BY <1>4, BucketType DEF IInv
        <5>2. n \in Nat /\ i \in 1..n /\ j = n + 1
          BY <1>4, <3>3
        <5>. QED  BY <5>1, <5>2
      <4>3. /\ granted'[a][j] = now /\ granted'[a][i] = granted[b][i]
            /\ quota'[a].burst = quota[b].burst /\ quota'[a].period = P
        BY <1>3, <1>4, <3>3
      <4>. QED  BY <4>1, <4>2, <4>3
    <3>4. CASE a = b /\ j = n + 1 /\ i = n + 1
      <4>1. 1 - quota[b].burst \in Int /\ 1 - quota[b].burst <= 0
        BY <1>4, BucketType DEF IInv
      <4>2. (1 - quota[b].burst) * P <= 0
        BY <1>4, <4>1, NotPositive
      <4>3. j - i + 1 - quota[b].burst = 1 - quota[b].burst
        <5>1. quota[b].burst \in Nat
          BY <1>4, BucketType DEF IInv
        <5>2. n \in Nat /\ i = n + 1 /\ j = n + 1
          BY <1>4, <3>4
        <5>. QED  BY <5>1, <5>2
      <4>. QED  BY <1>3, <1>4, <1>7, <3>4, <4>2, <4>3
    <3>. QED  BY <1>4, <1>5, <3>1, <3>2, <3>3, <3>4
  <2>. QED  BY <2>1 DEF QuotaHolds
<1>. QED  BY <1>8, <1>9, <1>10, TakeType DEF IInv

-----------------------------------------------------------------------------
(* The other steps.                                                          *)

\* Nothing that a bucket is judged by has changed.
LEMMA IdleStep ==
  ASSUME IInv, TypeOK', UNCHANGED <<quota, tat, now, granted>>
  PROVE  IInv'
<1>1. now <= now'
  BY DEF IInv, TypeOK
<1>2. ASSUME NEW b \in Buckets  PROVE Due(b) <= Due(b)' /\ tat'[b] \subseteq tat[b]
  <2>1. Due(b)' = Due(b) /\ Due(b) \in Nat
    BY ArrivalType DEF IInv, Due, Arrival, Home
  <2>. QED  BY <2>1
<1>. QED  BY <1>1, <1>2, QuietStep

LEMMA SameCells ==
  ASSUME CellsAccounted, UNCHANGED <<step, granted>>
  PROVE  CellsAccounted'
BY DEF CellsAccounted, Paid

LEMMA RefuseStep ==
  ASSUME IInv, NEW c \in Callers, Refuse(c)
  PROVE  IInv'
<1>1. Bucket(c) \in Buckets
  BY NextBucket DEF Refuse, Asks, IInv
<1>2. Earliest(Bucket(c)) \in Nat
  <2>1. quota[Bucket(c)].burst - 1 \in Int /\ quota[Bucket(c)].period \in Nat
    BY <1>1, BucketType DEF IInv
  <2>2. PICK d \in Int : d = (quota[Bucket(c)].burst - 1) * quota[Bucket(c)].period
    BY <2>1, Multiple
  <2>3. Arrival(Bucket(c)) \in Nat /\ now \in Nat
    BY <1>1, ArrivalType DEF IInv, TypeOK
  <2>4. Earliest(Bucket(c)) = Arrival(Bucket(c)) - d /\ now < Earliest(Bucket(c))
    BY <2>2 DEF Earliest, Refuse
  <2>. QED  BY <2>3, <2>4
<1>3. TypeOK'
  BY <1>2, SameCells DEF IInv, TypeOK, Refuse
<1>. QED  BY <1>3, IdleStep DEF Refuse

LEMMA DropCallStep ==
  ASSUME IInv, NEW c \in Callers, DropCall(c)
  PROVE  IInv'
<1>1. TypeOK'
  BY SameCells DEF IInv, TypeOK, DropCall
<1>. QED  BY <1>1, IdleStep DEF DropCall

LEMMA SweepStep ==
  ASSUME IInv, RetainRecent \/ RetainEnds \/ UNCHANGED vars
  PROVE  IInv'
<1>1. UNCHANGED <<quota, tat, now, step, wakeAt, dropped, granted>> /\ cutoff' \in {cutoff, {now}, {}}
  BY DEF RetainRecent, RetainEnds, vars
<1>2. cutoff' \subseteq 0..now /\ \A r, s \in cutoff' : r = s
  BY <1>1 DEF IInv, TypeOK
<1>3. TypeOK'
  BY <1>1, <1>2, SameCells DEF IInv, TypeOK
<1>. QED  BY <1>1, <1>3, IdleStep

\* A bucket that is forgotten owes nothing any more: its arrival time has passed.
LEMMA ForgetIsLate ==
  ASSUME IInv, NEW k \in Keys, Forget(k)
  PROVE  /\ UNCHANGED <<quota, now, step, wakeAt, dropped, cutoff, granted>>
         /\ tat' = [tat EXCEPT ![k] = {}] /\ k \in Buckets /\ Due(k) = now
<1>1. PICK s \in cutoff, x \in tat[k] : x <= s
  BY DEF Forget
<1>2. k \in Buckets
  BY DEF Buckets
<1>3. s \in 0..now /\ now \in Nat /\ Arrival(k) = x /\ x \in Nat
  BY <1>1, <1>2, ArrivalType DEF IInv, TypeOK
<1>4. Due(k) = now
  BY <1>1, <1>3 DEF Due, MaxOf
<1>. QED  BY <1>2, <1>4 DEF Forget

LEMMA ForgetStep ==
  ASSUME IInv, NEW k \in Keys, Forget(k)
  PROVE  IInv'
<1>1. /\ UNCHANGED <<quota, now, step, wakeAt, dropped, cutoff, granted>>
      /\ tat' = [tat EXCEPT ![k] = {}] /\ k \in Buckets /\ Due(k) = now
  BY ForgetIsLate
<1>2. TypeOK'
  BY <1>1, SameCells DEF IInv, TypeOK
<1>3. now \in Nat /\ now <= now'
  BY <1>1 DEF IInv, TypeOK
<1>4. ASSUME NEW b \in Buckets  PROVE Due(b) <= Due(b)' /\ tat'[b] \subseteq tat[b]
  <2>1. CASE b = k
    <3>1. tat'[b] = {} /\ Due(b)' = now
      BY <1>1, <2>1 DEF IInv, TypeOK, Due, Arrival, Home, MaxOf
    <3>. QED  BY <1>1, <1>3, <2>1, <3>1
  <2>2. CASE b # k
    <3>1. tat'[b] = tat[b]
      BY <1>1, <2>2 DEF IInv, TypeOK
    <3>2. Due(b)' = Due(b) /\ Due(b) \in Nat
      BY <1>1, <3>1, ArrivalType DEF IInv, Due, Arrival, Home
    <3>. QED  BY <3>1, <3>2
  <2>. QED  BY <2>1, <2>2
<1>. QED  BY <1>1, <1>2, <1>3, <1>4, QuietStep

LEMMA TickStep ==
  ASSUME IInv, Tick
  PROVE  IInv'
<1>1. /\ now' = now + 1 /\ UNCHANGED <<quota, tat, step, wakeAt, dropped, cutoff, granted>>
      /\ now \in Nat
  BY DEF Tick, IInv, TypeOK
<1>2. cutoff' \subseteq 0..now'
  BY <1>1 DEF IInv, TypeOK
<1>3. TypeOK'
  BY <1>1, <1>2, SameCells DEF IInv, TypeOK
<1>4. ASSUME NEW b \in Buckets  PROVE Due(b) <= Due(b)' /\ tat'[b] \subseteq tat[b]
  <2>1. Arrival(b)' = IF tat[b] = {} THEN now + 1 ELSE Arrival(b)
    BY <1>1 DEF Arrival, Home
  <2>2. Arrival(b) \in Nat /\ (tat[b] = {} => Arrival(b) = now)
    BY ArrivalType DEF IInv
  <2>. QED  BY <1>1, <2>1, <2>2 DEF Due, MaxOf
<1>. QED  BY <1>1, <1>3, <1>4, QuietStep

LEMMA InitIInv == Init => IInv
<1>. SUFFICES ASSUME Init  PROVE IInv
  OBVIOUS
<1>1. PICK perKey \in Quotas, global \in Quotas :
        quota = [b \in Buckets |-> IF b = Global THEN global ELSE perKey]
  BY DEF Init
<1>2. \A b \in Buckets : Len(granted[b]) = 0 /\ tat[b] = {}
  BY DEF Init
<1>3. CellsAccounted
  <2>1. \A c \in Callers, b \in Buckets : ~Paid(c, b)
    BY DEF Init, Paid
  <2>2. \A b \in Buckets : {c \in Callers : Paid(c, b)} = {}
    BY <2>1
  <2>. QED  BY <1>2, <2>2, FS_EmptySet DEF CellsAccounted
<1>4. TypeOK
  <2>1. \A c \in Callers : Len(Path[c]) \in Nat
    BY PathsVisitOnce
  <2>. QED  BY <1>1, <1>3, <2>1 DEF Init, TypeOK
<1>. QED  BY <1>2, <1>4 DEF IInv, Behind, Backed, QuotaHolds

\* The inductive invariant holds in every state.
THEOREM Invariance == Spec => []IInv
<1>1. IInv /\ [Next]_vars => IInv'
  BY TakeStep, RefuseStep, DropCallStep, SweepStep, ForgetStep, TickStep DEF Next, WaitForSlot
<1>. QED  BY InitIInv, <1>1, PTL DEF Spec

\* Types, and one cell of each of its buckets for every call that runs.
THEOREM TypeCorrect == Spec => []TypeOK
<1>1. IInv => TypeOK  BY DEF IInv
<1>. QED  BY <1>1, Invariance, PTL

\* The quota holds for the instants at which cells were given, whatever sweeps
\* and dropped waits come in between (rate_limit.rs:88-97, 187-195).
THEOREM QuotaAlwaysHolds == Spec => []QuotaHolds
<1>1. IInv => QuotaHolds  BY DEF IInv
<1>. QED  BY <1>1, Invariance, PTL

-----------------------------------------------------------------------------
(* A refusal is owed to the quota, and to the cells of its own bucket.       *)

LEMMA RefuseIsJustified ==
  ASSUME IInv, NEW c \in Callers, Refuse(c)
  PROVE  WouldBreak(Bucket(c))
<1>1. PICK b : b = Bucket(c)
  OBVIOUS
<1>2. b \in Buckets
  BY <1>1, NextBucket DEF Refuse, Asks, IInv
<1>. DEFINE n == Len(granted[b])
            P == quota[b].period
            B == quota[b].burst
<1>3. n \in Nat /\ P \in Nat /\ B \in Nat /\ B >= 1 /\ now \in Nat /\ Arrival(b) \in Nat
  BY <1>2, BucketType, ArrivalType DEF IInv, TypeOK
<1>4. now < Arrival(b) - (B - 1) * P
  BY <1>1 DEF Refuse, Earliest
<1>5. tat[b] # {}
  <2>1. SUFFICES ASSUME tat[b] = {}  PROVE FALSE
    OBVIOUS
  <2>2. Arrival(b) = now
    BY <1>2, <2>1, ArrivalType DEF IInv
  <2>3. B - 1 \in Int /\ 0 <= B - 1
    BY <1>3
  <2>4. 0 <= (B - 1) * P /\ (B - 1) * P \in Int
    BY <1>3, <2>3, Multiple, NotNegative
  <2>. QED  BY <1>3, <1>4, <2>2, <2>4
<1>6. PICK i \in 1..n : Arrival(b) = granted[b][i] + (n - i + 1) * P
  BY <1>2, <1>5, ArrivalType DEF IInv, Backed, Paying
<1>7. granted[b][i] \in Nat /\ i \in Int
  BY <1>2, BucketType DEF IInv
<1>. HIDE DEF n, P, B
<1>8. (n + 2 - i - B) * P = (n - i + 1) * P - (B - 1) * P
  <2>1. n + 2 - i - B = (n - i + 1) - (B - 1) /\ n - i + 1 \in Int /\ B - 1 \in Int
    BY <1>3, <1>7
  <2>. QED  BY <1>3, <2>1, Difference
<1>9. PICK x \in Int, y \in Int : x = (n - i + 1) * P /\ y = (B - 1) * P
  BY <1>3, <1>7, Multiple
<1>10. now - granted[b][i] < x - y
  BY <1>3, <1>4, <1>6, <1>7, <1>9
<1>11. now - granted[b][i] < (n + 2 - i - B) * P
  BY <1>8, <1>9, <1>10
<1>. QED  BY <1>1, <1>11 DEF WouldBreak, n, P, B

\* A call is refused only when a cell would break the quota of its own bucket:
\* no refusal is owed to another key, or to a bucket that was forgotten.
THEOREM RefusalsAreJustified == Spec => RefusalJustified
<1>1. ASSUME IInv, [Next]_vars
      PROVE  \A c \in Callers : wakeAt'[c] > wakeAt[c] => WouldBreak(Bucket(c))
  <2>. SUFFICES ASSUME NEW c \in Callers, wakeAt'[c] > wakeAt[c]
                PROVE  WouldBreak(Bucket(c))
    OBVIOUS
  <2>1. wakeAt \in [Callers -> Nat]
    BY <1>1 DEF IInv, TypeOK
  <2>2. ASSUME NEW d \in Callers, Refuse(d)  PROVE WouldBreak(Bucket(c))
    <3>1. d = c
      BY <2>1, <2>2 DEF Refuse
    <3>. QED  BY <1>1, <2>2, <3>1, RefuseIsJustified
  <2>3. ASSUME NEW d \in Callers, Take(d) \/ DropCall(d)  PROVE FALSE
    <3>1. wakeAt' = [wakeAt EXCEPT ![d] = 0]
      BY <2>3 DEF Take, DropCall
    <3>. QED  BY <2>1, <3>1
  <2>4. ASSUME wakeAt' = wakeAt  PROVE FALSE
    BY <2>1, <2>4
  <2>5. RetainRecent \/ RetainEnds \/ Tick \/ (\E k \in Keys : Forget(k)) \/ UNCHANGED vars
          => wakeAt' = wakeAt
    BY DEF RetainRecent, RetainEnds, Tick, Forget, vars
  <2>. QED  BY <1>1, <2>2, <2>3, <2>4, <2>5 DEF Next, WaitForSlot
<1>. QED  BY <1>1, Invariance, PTL DEF Spec, RefusalJustified

-----------------------------------------------------------------------------
(* The refinement.                                                           *)

level == [b \in Buckets |-> Debt(b)]

LEMMA DebtOf ==
  ASSUME NEW X \in SUBSET Nat, \A x, y \in X : x = y, NEW t \in Nat,
         NEW A, A = IF X = {} THEN t ELSE CHOOSE x \in X : TRUE
  PROVE  (IF \E x \in X : x > t THEN A - t ELSE 0) = MaxOf(A, t) - t
<1>1. A \in Nat /\ (X = {} => A = t) /\ \A x \in X : A = x
  OBVIOUS
<1>2. CASE \E x \in X : x > t
  BY <1>1, <1>2 DEF MaxOf
<1>3. CASE ~ \E x \in X : x > t
  <2>1. A <= t
    BY <1>1, <1>3
  <2>. QED  BY <1>1, <1>3, <2>1 DEF MaxOf
<1>. QED  BY <1>2, <1>3

LEMMA DebtIs ==
  ASSUME TypeOK, NEW b \in Buckets
  PROVE  Debt(b) = Due(b) - now
<1>1. tat[b] \in SUBSET Nat /\ (\A x, y \in tat[b] : x = y) /\ now \in Nat
  BY DEF TypeOK
<1>. QED  BY <1>1, DebtOf DEF Debt, Due, Arrival, Home

LEMMA DebtIsNext ==
  ASSUME TypeOK', NEW b \in Buckets
  PROVE  Debt(b)' = Due(b)' - now'
<1>1. tat'[b] \in SUBSET Nat /\ (\A x, y \in tat'[b] : x = y) /\ now' \in Nat
  BY DEF TypeOK
<1>. QED  BY <1>1, DebtOf DEF Debt, Due, Arrival, Home

\* A step that no bucket's debt can tell from nothing.
LEMMA SameDebts ==
  ASSUME TypeOK, TypeOK', UNCHANGED <<quota, now>>, \A b \in Buckets : Due(b)' = Due(b)
  PROVE  UNCHANGED <<quota, level>>
<1>1. ASSUME NEW b \in Buckets  PROVE Debt(b)' = Debt(b)
  <2>1. Debt(b) = Due(b) - now
    BY DebtIs
  <2>2. Debt(b)' = Due(b)' - now'
    BY DebtIsNext
  <2>. QED  BY <2>1, <2>2
<1>. QED  BY <1>1 DEF level

LEMMA TakePours ==
  ASSUME IInv, NEW c \in Callers, Take(c)
  PROVE  Leaky!Next
<1>1. PICK b : b = Bucket(c)
  OBVIOUS
<1>2. PICK P : P = quota[b].period
  OBVIOUS
<1>3. /\ b \in Buckets /\ P \in Nat /\ UNCHANGED <<quota, now>> /\ Due(b)' = Due(b) + P
      /\ \A a \in Buckets \ {b} : tat'[a] = tat[a]
  <2>1. PICK n : n = Len(granted[b])
    OBVIOUS
  <2>. QED  BY <1>1, <1>2, <2>1, TakeAdvances
<1>4. TypeOK'
  BY TakeType DEF IInv
<1>5. Debt(b) = Due(b) - now /\ Debt(b)' = Due(b)' - now' /\ Due(b) \in Nat /\ now \in Nat
  <2>1. Debt(b) = Due(b) - now /\ Due(b) \in Nat /\ now \in Nat
    BY <1>3, DebtIs, ArrivalType DEF IInv, TypeOK
  <2>2. Debt(b)' = Due(b)' - now'
    BY <1>3, <1>4, DebtIsNext
  <2>. QED  BY <2>1, <2>2
<1>6. Debt(b)' = Debt(b) + P
  BY <1>3, <1>5
<1>7. ASSUME NEW a \in Buckets \ {b}  PROVE Debt(a)' = Debt(a)
  <2>1. tat'[a] = tat[a] /\ now' = now
    BY <1>3
  <2>. QED  BY <2>1 DEF Debt, Arrival, Home
<1>8. level' = [level EXCEPT ![b] = @ + P]
  BY <1>3, <1>6, <1>7 DEF level
<1>9. Debt(b) + P <= quota[b].burst * P
  <2>1. PICK B : B = quota[b].burst
    OBVIOUS
  <2>2. B \in Nat /\ B >= 1 /\ B - 1 \in Int /\ (B - 1) + 1 = B
    BY <1>3, <2>1, BucketType DEF IInv
  <2>3. PICK x \in Int : x = (B - 1) * P
    BY <1>3, <2>2, Multiple
  <2>4. B * P = x + P /\ 0 <= x
    BY <1>3, <2>2, <2>3, NextMultiple, NotNegative
  <2>5. now >= Arrival(b) - x
    BY <1>1, <1>2, <2>1, <2>3 DEF Take, Earliest
  <2>6. Arrival(b) \in Nat /\ (Due(b) = now \/ Due(b) = Arrival(b))
    BY <1>3, ArrivalType DEF IInv
  <2>7. Debt(b) <= x
    BY <1>5, <2>4, <2>5, <2>6
  <2>. QED  BY <1>3, <1>5, <2>1, <2>4, <2>7
<1>10. Leaky!Pour(b)
  BY <1>2, <1>3, <1>8, <1>9 DEF Leaky!Pour, level
<1>. QED  BY <1>3, <1>10 DEF Leaky!Next

LEMMA TickDrains ==
  ASSUME IInv, Tick
  PROVE  Leaky!Next
<1>1. now' = now + 1 /\ UNCHANGED <<quota, tat>> /\ now \in Nat
  BY DEF Tick, IInv, TypeOK
<1>2. ASSUME NEW b \in Buckets  PROVE Debt(b)' = IF Debt(b) = 0 THEN 0 ELSE Debt(b) - 1
  <2>1. Arrival(b) \in Nat /\ \A x \in tat[b] : Arrival(b) = x /\ x \in Nat
    BY ArrivalType DEF IInv
  <2>2. CASE tat[b] = {}
    BY <1>1, <2>2 DEF Debt
  <2>3. CASE tat[b] # {}
    <3>1. Arrival(b)' = Arrival(b)
      BY <1>1, <2>3 DEF Arrival, Home
    <3>. QED  BY <1>1, <2>1, <2>3, <3>1 DEF Debt
  <2>. QED  BY <2>2, <2>3
<1>3. Leaky!Drain
  BY <1>1, <1>2 DEF Leaky!Drain, level
<1>. QED  BY <1>3 DEF Leaky!Next

LEMMA StepRefines ==
  ASSUME IInv, TypeOK', [Next]_vars
  PROVE  [Leaky!Next]_<<quota, level>>
<1>1. CASE \E c \in Callers : Take(c)
  BY <1>1, TakePours
<1>2. CASE Tick
  BY <1>2, TickDrains
<1>3. CASE \E k \in Keys : Forget(k)
  <2>1. PICK k \in Keys : Forget(k)
    BY <1>3
  <2>2. /\ UNCHANGED <<quota, now>> /\ tat' = [tat EXCEPT ![k] = {}] /\ k \in Buckets /\ Due(k) = now
    BY <2>1, ForgetIsLate
  <2>3. tat \in [Buckets -> SUBSET Nat]
    BY DEF IInv, TypeOK
  <2>4. Due(k)' = now
    BY <2>2, <2>3 DEF Due, Arrival, Home, MaxOf
  <2>5. \A b \in Buckets \ {k} : Due(b)' = Due(b)
    BY <2>2, <2>3 DEF Due, Arrival, Home
  <2>. QED  BY <2>2, <2>4, <2>5, SameDebts DEF IInv
<1>4. CASE \/ (\E c \in Callers : Refuse(c) \/ DropCall(c))
          \/ RetainRecent \/ RetainEnds \/ UNCHANGED vars
  <2>1. UNCHANGED <<quota, tat, now>>
    BY <1>4 DEF Refuse, DropCall, RetainRecent, RetainEnds, vars
  <2>2. \A b \in Buckets : Due(b)' = Due(b)
    BY <2>1 DEF Due, Arrival, Home
  <2>. QED  BY <2>1, <2>2, SameDebts DEF IInv
<1>. QED  BY <1>1, <1>2, <1>3, <1>4 DEF Next, WaitForSlot

LEMMA InitRefines == Init => Leaky!Init
BY DEF Init, Leaky!Init, Debt

\* The limiter is a leaky bucket per key: what it forgets and whom it refuses
\* makes no difference (rate_limit.rs:130-140, 187-195).
THEOREM ImplementsLeakyBucket == Spec => LeakySpec
<1>1. IInv => TypeOK
  BY DEF IInv
<1>. QED
  BY <1>1, InitRefines, StepRefines, Invariance, PTL DEF Spec, LeakySpec, Leaky!Spec, Leaky!vars, level

-----------------------------------------------------------------------------
(* Safety of Throttle for any callers and any interval.                       *)

\* Stamps lie in the past and in order, so the last one speaks for all of them.
StampsOrdered == \A i, j \in 1..Len(stamps) : i <= j => stamps[i] <= stamps[j] /\ stamps[j] <= instant

ThrottleInv == ThrottleTypeOK /\ StampsOrdered /\ Spaced

\* A new stamp, an interval or more after the last one.
LEMMA StampStep ==
  ASSUME ThrottleInv, ~Cooling, last' = {instant}, stamps' = Append(stamps, instant), instant' = instant,
         pc' \in [Tasks -> {"idle", "discarded", "stamped", "running"}]
  PROVE  ThrottleInv'
<1>. DEFINE n == Len(stamps)
<1>1. /\ instant \in Nat /\ n \in Nat /\ Interval \in Nat /\ stamps \in Seq(Nat)
      /\ Len(stamps') = n + 1 /\ stamps' \in Seq(Nat) /\ stamps'[n + 1] = instant
      /\ \A i \in 1..n : stamps'[i] = stamps[i] /\ stamps[i] \in Nat
  BY IntervalType DEF ThrottleInv, ThrottleTypeOK
<1>2. \A i \in 1..n : stamps[i] <= instant /\ instant - stamps[i] >= Interval
  <2>. SUFFICES ASSUME NEW i \in 1..n  PROVE stamps[i] <= instant /\ instant - stamps[i] >= Interval
    OBVIOUS
  <2>1. n \in 1..n /\ i <= n /\ stamps # <<>>
    BY <1>1
  <2>2. stamps[i] <= stamps[n] /\ stamps[n] <= instant
    BY <2>1 DEF ThrottleInv, StampsOrdered
  <2>3. ~(instant - stamps[n] < Interval)
    BY <2>1 DEF ThrottleInv, ThrottleTypeOK, Cooling
  <2>. QED  BY <1>1, <2>1, <2>2, <2>3
<1>3. \A i \in 1..Len(stamps') : i \in 1..n \/ i = n + 1
  BY <1>1
<1>. HIDE DEF n
<1>4. StampsOrdered'
  <2>1. ASSUME NEW i \in 1..Len(stamps'), NEW j \in 1..Len(stamps'), i <= j
        PROVE  stamps'[i] <= stamps'[j] /\ stamps'[j] <= instant
    <3>1. CASE j = n + 1
      BY <1>1, <1>2, <1>3, <3>1
    <3>2. CASE j # n + 1
      <4>1. i \in 1..n /\ j \in 1..n
        BY <1>1, <1>3, <2>1, <3>2
      <4>. QED  BY <1>1, <2>1, <4>1 DEF ThrottleInv, StampsOrdered, n
    <3>. QED  BY <3>1, <3>2
  <2>. QED  BY <2>1 DEF StampsOrdered
<1>5. Spaced'
  <2>1. ASSUME NEW i \in 1..Len(stamps'), NEW j \in 1..Len(stamps'), i < j
        PROVE  stamps'[j] - stamps'[i] >= Interval
    <3>1. i \in 1..n
      BY <1>1, <1>3, <2>1
    <3>2. CASE j = n + 1
      BY <1>1, <1>2, <3>1, <3>2
    <3>3. CASE j # n + 1
      <4>1. j \in 1..n
        BY <1>3, <3>3
      <4>. QED  BY <1>1, <2>1, <3>1, <4>1 DEF ThrottleInv, Spaced, n
    <3>. QED  BY <3>2, <3>3
  <2>. QED  BY <2>1 DEF Spaced
<1>6. ThrottleTypeOK'
  BY <1>1 DEF ThrottleTypeOK
<1>. QED  BY <1>4, <1>5, <1>6 DEF ThrottleInv

\* The steps that set no stamp.
LEMMA NoStampStep ==
  ASSUME ThrottleInv,
         \/ UNCHANGED <<last, stamps>>
         \/ last' = {} /\ stamps' = <<>>,
         instant' \in Nat, instant <= instant',
         pc' \in [Tasks -> {"idle", "discarded", "stamped", "running"}]
  PROVE  ThrottleInv'
<1>1. ThrottleTypeOK'
  <2>1. CASE UNCHANGED <<last, stamps>>
    BY <2>1 DEF ThrottleInv, ThrottleTypeOK
  <2>2. CASE last' = {} /\ stamps' = <<>>
    BY <2>2 DEF ThrottleTypeOK
  <2>. QED  BY <2>1, <2>2
<1>2. StampsOrdered'
  <2>1. CASE UNCHANGED stamps
    <3>1. \A j \in 1..Len(stamps) : stamps[j] \in Nat /\ stamps[j] <= instant /\ instant \in Nat
      BY DEF ThrottleInv, ThrottleTypeOK, StampsOrdered
    <3>2. \A j \in 1..Len(stamps) : stamps[j] <= instant'
      BY <3>1
    <3>. QED  BY <2>1, <3>2 DEF ThrottleInv, StampsOrdered
  <2>2. CASE stamps' = <<>>
    BY <2>2 DEF StampsOrdered
  <2>. QED  BY <2>1, <2>2
<1>3. Spaced'
  BY DEF ThrottleInv, Spaced
<1>. QED  BY <1>1, <1>2, <1>3 DEF ThrottleInv

LEMMA ThrottleStep ==
  ASSUME ThrottleInv, [ThrottleNext]_throttleVars
  PROVE  ThrottleInv'
<1>. /\ instant \in Nat /\ instant <= instant
     /\ pc \in [Tasks -> {"idle", "discarded", "stamped", "running"}]
  BY DEF ThrottleInv, ThrottleTypeOK
<1>1. ASSUME NEW c \in Tasks, TryRun(c)  PROVE ThrottleInv'
  BY <1>1, StampStep, NoStampStep DEF TryRun
<1>2. ASSUME NEW c \in Tasks, Call(c) \/ Finish(c)  PROVE ThrottleInv'
  BY <1>2, NoStampStep DEF Call, Finish
<1>3. CASE Reset
  BY <1>3, NoStampStep DEF Reset
<1>4. CASE ThrottleTick
  <2>1. instant' \in Nat /\ instant <= instant'
    BY <1>4 DEF ThrottleTick
  <2>. QED  BY <1>4, <2>1, NoStampStep DEF ThrottleTick
<1>5. CASE UNCHANGED throttleVars
  BY <1>5, NoStampStep DEF throttleVars
<1>. QED  BY <1>1, <1>2, <1>3, <1>4, <1>5 DEF ThrottleNext

\* Stamps stay in order and an interval apart.
THEOREM ThrottleInvariance == ThrottleSpec => []ThrottleInv
<1>1. ThrottleInit => ThrottleInv
  BY DEF ThrottleInit, ThrottleInv, ThrottleTypeOK, StampsOrdered, Spaced
<1>. QED  BY <1>1, ThrottleStep, PTL DEF ThrottleSpec

\* Between two resets any two admitted calls are an interval apart, whatever the
\* number of callers and however long their closures run (throttle.rs:79-92).
THEOREM AttemptsAreSpaced == ThrottleSpec => []Spaced
<1>1. ThrottleInv => Spaced  BY DEF ThrottleInv
<1>. QED  BY <1>1, ThrottleInvariance, PTL

\* A call is discarded only because of an admitted one less than an interval
\* before it (throttle.rs:85-89).
THEOREM DiscardsAreJustified == ThrottleSpec => DiscardJustified
<1>1. ASSUME ThrottleInv, [ThrottleNext]_throttleVars, NEW c \in Tasks, pc'[c] = "discarded", pc[c] # "discarded"
      PROVE  \E i \in 1..Len(stamps) : instant - stamps[i] < Interval
  <2>1. Cooling
    BY <1>1 DEF ThrottleInv, ThrottleTypeOK, ThrottleNext, TryRun, Call, Finish, Reset, ThrottleTick, throttleVars
  <2>2. stamps # <<>> /\ instant - stamps[Len(stamps)] < Interval /\ Len(stamps) \in Nat
    BY <1>1, <2>1 DEF Cooling, ThrottleInv, ThrottleTypeOK
  <2>3. Len(stamps) \in 1..Len(stamps)
    BY <1>1, <2>2 DEF ThrottleInv, ThrottleTypeOK
  <2>. QED  BY <2>2, <2>3
<1>2. ThrottleInv /\ [ThrottleNext]_throttleVars =>
        [\A c \in Tasks : pc'[c] = "discarded" /\ pc[c] # "discarded" =>
           \E i \in 1..Len(stamps) : instant - stamps[i] < Interval]_throttleVars
  BY <1>1
<1>. QED  BY <1>2, ThrottleInvariance, PTL DEF ThrottleSpec, DiscardJustified

-----------------------------------------------------------------------------
(* Quota: what a limiter is built with.                                       *)

LEMMA Quotient ==
  ASSUME NEW w \in Nat, NEW n \in Nat \ {0}
  PROVE  /\ w \div n \in Nat
         /\ (w \div n) * n <= w /\ w < (w \div n) * n + n
OBVIOUS

\* `allowed` cells at once refill in one window: not later, and not sooner than
\* rounding to a tick makes them.
LEMMA SpreadRefills ==
  ASSUME NEW window \in Nat, NEW allowed \in Nat \ {0}, allowed <= window
  PROVE  /\ Spread(window, allowed).period \in Nat \ {0}
         /\ Spread(window, allowed).burst = allowed
         /\ Spread(window, allowed).period * allowed <= window
         /\ window < Spread(window, allowed).period * allowed + allowed
<1>. DEFINE p == window \div allowed
<1>1. p \in Nat /\ p * allowed <= window /\ window < p * allowed + allowed
  BY Quotient
<1>2. Spread(window, allowed).period = p /\ Spread(window, allowed).burst = allowed
  BY DEF Spread
<1>. HIDE DEF p
<1>3. p # 0
  <2>1. 0 * allowed = 0
    OBVIOUS
  <2>. QED  BY <1>1, <2>1
<1>. QED  BY <1>1, <1>2, <1>3

\* What quota_from_window makes of a text is what RateLimiter assumes of Quotas,
\* while there is a tick for each cell (network/rate_limit.rs:34-64, 82-106).
THEOREM QuotasAreSound ==
  ASSUME NEW text \in Texts(0..Second),
         NEW w \in FromString(text), w.kind # "panic",
         NEW burst \in SUBSET (Nat \ {0}), NEW q \in QuotaFromWindow(w, burst)
  PROVE  /\ q \in [period : Nat \ {0}, burst : Nat \ {0}]
         /\ burst # {} => q.burst \in burst
         /\ burst = {} /\ w.kind = "PerSecond" => q.period * q.burst <= Second
         /\ burst = {} /\ w.kind = "PerMinute" => q.period * q.burst <= 60 * Second
<1>. Second \in Nat \ {0}
  BY SecondIsPositive
<1>1. \A n \in text.number : n \in 0..Second
  BY DEF Texts, Empty
<1>2. text.unit \in {"s", "m", "h", "d"}
  BY DEF Texts, Empty, Units, FromString
<1>3. PICK n \in Nat \ {0} : n <= Second /\ w \in {PerSecond(n), PerMinute(n),
                                                  Custom(n * 3600 * Second), Custom(n * 86400 * Second)}
  BY <1>1, <1>2 DEF FromString
<1>. DEFINE Base == CASE w.kind = "PerSecond" -> {Spread(Second, w.allowed)}
                      [] w.kind = "PerMinute" -> {Spread(60 * Second, w.allowed)}
                      [] w.kind = "Custom"    -> {[period |-> p, burst |-> 1] : p \in {w.period} \ {0}}
<1>4. PICK r \in Base : IF burst = {} THEN q = r ELSE \E b \in burst : q = [r EXCEPT !.burst = b]
  <2>1. QuotaFromWindow(w, burst) =
          IF burst = {} THEN Base ELSE {[r EXCEPT !.burst = b] : r \in Base, b \in burst}
    BY DEF QuotaFromWindow
  <2>. HIDE DEF Base
  <2>2. CASE burst = {}
    BY <2>1, <2>2
  <2>3. CASE burst # {}
    BY <2>1, <2>3
  <2>. QED  BY <2>2, <2>3
<1>5. /\ r \in [period : Nat \ {0}, burst : Nat \ {0}]
      /\ w.kind = "PerSecond" => r.period * r.burst <= Second
      /\ w.kind = "PerMinute" => r.period * r.burst <= 60 * Second
  <2>1. CASE w = PerSecond(n)
    <3>1. w.kind = "PerSecond" /\ r = Spread(Second, n)
      BY <1>4, <2>1 DEF PerSecond
    <3>2. r = [period |-> r.period, burst |-> r.burst]
      BY <3>1 DEF Spread
    <3>. QED  BY <1>3, <3>1, <3>2, SpreadRefills
  <2>2. CASE w = PerMinute(n)
    <3>1. w.kind = "PerMinute" /\ r = Spread(60 * Second, n)
      BY <1>4, <2>2 DEF PerMinute
    <3>2. r = [period |-> r.period, burst |-> r.burst]
      BY <3>1 DEF Spread
    <3>3. 60 * Second \in Nat /\ n <= 60 * Second
      BY <1>3
    <3>. QED  BY <1>3, <3>1, <3>2, <3>3, SpreadRefills
  <2>3. ASSUME NEW k \in {3600, 86400}, w = Custom(n * k * Second)
        PROVE  r \in [period : Nat \ {0}, burst : Nat \ {0}] /\ w.kind = "Custom"
    <3>1. w.kind = "Custom" /\ r = [period |-> n * k * Second, burst |-> 1]
      BY <1>4, <2>3 DEF Custom
    <3>2. n * k * Second \in Nat \ {0}
      <4>1. \A a, b \in Nat \ {0} : a * b \in Nat \ {0}
        OBVIOUS
      <4>2. n * k \in Nat \ {0}
        BY <4>1
      <4>. QED  BY <4>1, <4>2
    <3>. QED  BY <3>1, <3>2
  <2>. QED  BY <1>3, <2>1, <2>2, <2>3
<1>6. CASE burst = {}
  BY <1>4, <1>5, <1>6
<1>7. CASE burst # {}
  <2>1. PICK b \in burst : q = [r EXCEPT !.burst = b]
    BY <1>4, <1>7
  <2>. QED  BY <1>5, <1>7, <2>1
<1>. QED  BY <1>6, <1>7
=============================================================================
