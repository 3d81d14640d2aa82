-------------------------- MODULE SupervisorProofs --------------------------
(***************************************************************************)
(* Safety of Supervisor for every policy and any clock.  The argument: the *)
(* pruned history is always the end of the list of all granted restarts,   *)
(* and every grant that was pruned from it lies more than a window before  *)
(* the last one.  A history of at most cap entries then bounds the grants  *)
(* of every window, and a history of more than cap entries convicts them.  *)
(***************************************************************************)
EXTENDS Supervisor, BackoffProofs, WellFoundedInduction

\* What every step keeps of the grants: they are in order and in the past.
Ordered ==
  /\ \A i \in 1..Len(grants) : grants[i] <= now
  /\ \A i, j \in 1..Len(grants) : i <= j => grants[i] <= grants[j]

\* The history is what is left of the grants after d of them were pruned.
IsEndOfGrants(d) ==
  /\ d \in Nat /\ Len(grants) = d + Len(history)
  /\ \A i \in 1..Len(history) : history[i] = grants[d + i]
  /\ policy.windowed \/ d = 0
  /\ \A j \in 1..d : grants[Len(grants)] - grants[j] > policy.window

Pruned == Len(grants) - Len(history)

Types == /\ policy \in PolicyType
         /\ now \in Nat /\ history \in Seq(Nat) /\ grants \in Seq(Nat)

IInv ==
  /\ Types
  /\ Ordered
  /\ pc # "done" => /\ IsEndOfGrants(Pruned)
                    /\ policy.cap > 0 => Len(history) <= policy.cap
                    /\ result = "none"
  /\ Budget
  /\ GiveUpJustified

-----------------------------------------------------------------------------
(* Pruning. *)

\* A nonempty set of positions has a first one.
LEMMA FirstPosition ==
  ASSUME NEW n \in Nat, NEW S \in SUBSET (1..n), S # {}
  PROVE  \E i \in S : \A j \in S : i <= j
<1>1. S \subseteq Nat
  OBVIOUS
<1>2. PICK i \in S : \A j \in S : ~(<<j, i>> \in OpToRel(<, Nat))
  BY <1>1, NatLessThanWellFounded, WFMin
<1>3. \A j \in S : ~(j < i)
  BY <1>1, <1>2 DEF OpToRel
<1>. QED  BY <1>1, <1>3

\* Of two past instants the later one is the nearer.
LEMMA LaterIsNearer ==
  ASSUME NEW a \in Nat, NEW b \in Nat, NEW t \in Nat, NEW w \in Nat,
         a <= b, b <= t, ~(t - a > w)
  PROVE  ~(t - b > w)
OBVIOUS

\* Pruning a list of past instants in order, the last of which is inside the
\* window, drops an expired beginning and keeps an unexpired end.
LEMMA PruneKeepsTheEnd ==
  ASSUME Types,
         NEW h \in Seq(Nat), h # <<>>, ~Expired(h[Len(h)]),
         \A i \in 1..Len(h) : h[i] <= now,
         \A i, j \in 1..Len(h) : i <= j => h[i] <= h[j]
  PROVE  /\ Prune(h) \in Seq(Nat)
         /\ \E d \in Nat :
              /\ d < Len(h) /\ Len(Prune(h)) = Len(h) - d
              /\ \A i \in 1..Len(Prune(h)) : Prune(h)[i] = h[d + i]
              /\ \A j \in 1..d : Expired(h[j])
              /\ \A j \in (d+1)..Len(h) : ~Expired(h[j])
<1>. Len(h) \in Nat /\ Len(h) > 0 /\ \A i \in 1..Len(h) : h[i] \in Nat
  OBVIOUS
<1>1. CASE \A i \in 1..Len(h) : ~Expired(h[i])
  <2>1. Prune(h) = h
    BY <1>1 DEF Prune
  <2>2. 0 \in Nat /\ 0 < Len(h) /\ \A i \in 1..Len(h) : h[i] = h[0 + i]
    OBVIOUS
  <2>. QED  BY <1>1, <2>1, <2>2
<1>2. CASE ~ \A i \in 1..Len(h) : ~Expired(h[i])
  <2>. DEFINE P(i) == ~Expired(h[i]) /\ \A j \in 1..(i-1) : Expired(h[j])
              first == CHOOSE i \in 1..Len(h) : P(i)
              live == {i \in 1..Len(h) : ~Expired(h[i])}
  <2>1. \E i \in 1..Len(h) : P(i)
    <3>1. PICK i \in live : \A j \in live : i <= j
      <4>1. live \in SUBSET (1..Len(h)) /\ Len(h) \in live
        OBVIOUS
      <4>. QED  BY <4>1, FirstPosition
    <3>2. \A j \in 1..(i-1) : Expired(h[j])
      BY <3>1
    <3>. QED  BY <3>1, <3>2
  <2>2. first \in 1..Len(h) /\ P(first)
    BY <2>1
  <2>3. Prune(h) = SubSeq(h, first, Len(h))
    BY <1>2 DEF Prune
  <2>. HIDE DEF first
  <2>4. /\ Prune(h) \in Seq(Nat)
        /\ Len(Prune(h)) = Len(h) - (first - 1)
        /\ \A i \in 1..Len(Prune(h)) : Prune(h)[i] = h[(first - 1) + i]
    BY <2>2, <2>3
  <2>5. ASSUME NEW j \in ((first-1)+1)..Len(h)  PROVE ~Expired(h[j])
    <3>1. h[first] <= h[j] /\ h[j] <= now
      BY <2>2
    <3>2. h[first] \in Nat /\ h[j] \in Nat /\ now \in Nat /\ policy.window \in Nat
      BY <2>2 DEF Types, PolicyType
    <3>3. CASE policy.windowed
      <4>1. ~(now - h[first] > policy.window)
        BY <2>2, <3>3 DEF Expired
      <4>2. ~(now - h[j] > policy.window)
        BY <3>1, <3>2, <4>1, LaterIsNearer
      <4>. QED  BY <4>2 DEF Expired
    <3>. QED  BY <3>3 DEF Expired
  <2>6. first - 1 \in Nat /\ first - 1 < Len(h)
    BY <2>2
  <2>. QED  BY <2>2, <2>4, <2>5, <2>6
<1>. QED  BY <1>1, <1>2

\* The history that an exit records is the end of the grants and this exit, cut
\* exactly at the window.
LEMMA RecordedIsEnd ==
  ASSUME Types, Ordered, IsEndOfGrants(Pruned)
  PROVE  LET G == Append(grants, now) IN
         /\ Recorded \in Seq(Nat) /\ Recorded # <<>>
         /\ Len(Recorded) <= Len(history) + 1
         /\ \E e \in Nat :
              /\ Len(G) = e + Len(Recorded)
              /\ \A i \in 1..Len(Recorded) : Recorded[i] = G[e + i]
              /\ policy.windowed \/ e = 0
              /\ \A j \in 1..e : now - G[j] > policy.window
              /\ \A j \in (e+1)..Len(G) : ~Expired(G[j])
<1>. DEFINE G == Append(grants, now)
            h == Append(history, now)
            n == Len(grants)
            p == Pruned
<1>. now \in Nat /\ policy.window \in Nat /\ policy.windowed \in BOOLEAN
  BY DEF Types, PolicyType
<1>1. /\ history \in Seq(Nat) /\ grants \in Seq(Nat)
      /\ h \in Seq(Nat) /\ G \in Seq(Nat)
      /\ n \in Nat /\ Len(history) \in Nat
      /\ Len(h) = Len(history) + 1 /\ Len(G) = n + 1
      /\ h[Len(h)] = now /\ G[n + 1] = now
      /\ \A i \in 1..Len(history) : h[i] = history[i]
      /\ \A i \in 1..n : G[i] = grants[i]
  BY DEF Types
<1>2. /\ p \in Nat /\ n = p + Len(history)
      /\ \A i \in 1..Len(history) : history[i] = grants[p + i]
      /\ policy.windowed \/ p = 0
      /\ \A j \in 1..p : grants[n] - grants[j] > policy.window
  BY DEF IsEndOfGrants
<1>3. /\ \A i \in 1..n : grants[i] <= now /\ grants[i] \in Nat
      /\ \A i, j \in 1..n : i <= j => grants[i] <= grants[j]
  <2>1. \A i \in 1..n : grants[i] \in Nat
    BY <1>1
  <2>. QED  BY <2>1 DEF Ordered
<1>. HIDE DEF p, n, h, G
<1>lengths. /\ p \in Nat /\ n \in Nat /\ Len(h) \in Nat /\ Len(G) \in Nat
            /\ n = p + Len(history) /\ Len(h) = Len(history) + 1 /\ Len(G) = n + 1
            /\ Len(history) \in Nat
  BY <1>1, <1>2
<1>4. \A i \in 1..Len(h) : h[i] = G[p + i]
  <2>1. ASSUME NEW i \in 1..Len(h)  PROVE h[i] = G[p + i]
    <3>1. CASE i = Len(h)
      <4>1. p + i = n + 1
        BY <1>1, <1>2, <3>1
      <4>. QED  BY <1>1, <3>1, <4>1
    <3>2. CASE i # Len(h)
      <4>1. i \in 1..Len(history) /\ p + i \in 1..n
        BY <1>1, <1>2, <3>2
      <4>. QED  BY <1>1, <1>2, <4>1
    <3>. QED  BY <3>1, <3>2
  <2>. QED  BY <2>1
<1>5. \A i, j \in 1..Len(G) : i <= j => G[i] <= G[j] /\ G[i] <= now /\ G[i] \in Nat
  <2>1. ASSUME NEW i \in 1..Len(G)  PROVE G[i] <= now /\ G[i] \in Nat
    <3>1. CASE i = n + 1
      BY <1>1, <3>1
    <3>2. CASE i # n + 1
      <4>1. i \in 1..n
        BY <1>1, <3>2
      <4>. QED  BY <1>1, <1>3, <4>1
    <3>. QED  BY <3>1, <3>2
  <2>2. ASSUME NEW i \in 1..Len(G), NEW j \in 1..Len(G), i <= j  PROVE G[i] <= G[j]
    <3>1. CASE j = n + 1
      BY <1>1, <2>1, <3>1
    <3>2. CASE j # n + 1
      <4>1. i \in 1..n /\ j \in 1..n
        BY <1>1, <2>2, <3>2
      <4>. QED  BY <1>1, <1>3, <2>2, <4>1
    <3>. QED  BY <3>1, <3>2
  <2>. QED  BY <2>1, <2>2
<1>6. /\ h # <<>> /\ ~Expired(h[Len(h)])
      /\ \A i \in 1..Len(h) : h[i] <= now
      /\ \A i, j \in 1..Len(h) : i <= j => h[i] <= h[j]
  <2>1. h # <<>>
    BY <1>1
  <2>2. ~Expired(h[Len(h)])
    BY <1>1 DEF Expired
  <2>3. ASSUME NEW i \in 1..Len(h)  PROVE p + i \in 1..Len(G) /\ h[i] = G[p + i]
    <3>1. p + i \in 1..Len(G)
      BY <1>lengths
    <3>. QED  BY <1>4, <3>1
  <2>4. ASSUME NEW i \in 1..Len(h)  PROVE h[i] <= now
    BY <1>5, <2>3
  <2>5. ASSUME NEW i \in 1..Len(h), NEW j \in 1..Len(h), i <= j  PROVE h[i] <= h[j]
    <3>1. p + i <= p + j
      BY <1>2, <2>5
    <3>. QED  BY <1>5, <2>3, <3>1
  <2>. QED  BY <2>1, <2>2, <2>4, <2>5
<1>7. /\ Prune(h) \in Seq(Nat)
      /\ \E d \in Nat :
           /\ d < Len(h) /\ Len(Prune(h)) = Len(h) - d
           /\ \A i \in 1..Len(Prune(h)) : Prune(h)[i] = h[d + i]
           /\ \A j \in 1..d : Expired(h[j])
           /\ \A j \in (d+1)..Len(h) : ~Expired(h[j])
  BY <1>1, <1>6, PruneKeepsTheEnd
<1>8. PICK d \in Nat :
           /\ d < Len(h) /\ Len(Prune(h)) = Len(h) - d
           /\ \A i \in 1..Len(Prune(h)) : Prune(h)[i] = h[d + i]
           /\ \A j \in 1..d : Expired(h[j])
           /\ \A j \in (d+1)..Len(h) : ~Expired(h[j])
  BY <1>7
<1>9. Recorded = Prune(h)
  BY DEF Recorded, h
<1>. DEFINE e == p + d
<1>10. /\ e \in Nat /\ Len(G) = e + Len(Recorded) /\ Recorded # <<>>
       /\ Len(Recorded) <= Len(history) + 1
  <2>1. Len(Recorded) = Len(h) - d /\ Len(Recorded) > 0
    BY <1>1, <1>8, <1>9
  <2>2. Len(Recorded) \in Nat
    BY <1>7, <1>9
  <2>. QED  BY <1>1, <1>2, <2>1, <2>2
<1>11. ASSUME NEW i \in 1..Len(Recorded)  PROVE Recorded[i] = G[e + i]
  <2>1. d + i \in 1..Len(h) /\ p + (d + i) = e + i
    BY <1>1, <1>2, <1>7, <1>8, <1>9
  <2>. QED  BY <1>4, <1>8, <1>9, <2>1
<1>12. policy.windowed \/ e = 0
  <2>1. CASE d = 0
    BY <1>2, <2>1
  <2>2. CASE d # 0
    <3>1. Expired(h[1])
      BY <1>8, <2>2
    <3>. QED  BY <3>1 DEF Expired
  <2>. QED  BY <2>1, <2>2
<1>13. ASSUME NEW j \in 1..e  PROVE now - G[j] > policy.window
  <2>1. CASE j \in 1..p
    <3>1. j \in 1..n /\ n \in 1..n /\ n \in Nat
      BY <1>lengths, <2>1
    <3>2. /\ grants[n] - grants[j] > policy.window /\ grants[n] <= now
          /\ grants[n] \in Nat /\ grants[j] \in Nat /\ G[j] = grants[j]
      BY <1>1, <1>2, <1>3, <2>1, <3>1
    <3>. QED  BY <3>2
  <2>2. CASE j \notin 1..p
    <3>1. j - p \in 1..d /\ p + (j - p) = j /\ j - p \in 1..Len(h)
      BY <1>lengths, <1>8, <2>2
    <3>2. Expired(h[j - p]) /\ h[j - p] = G[j]
      BY <1>4, <1>8, <3>1
    <3>. QED  BY <3>2 DEF Expired
  <2>. QED  BY <2>1, <2>2
<1>14. ASSUME NEW j \in (e+1)..Len(G)  PROVE ~Expired(G[j])
  <2>1. j - p \in (d+1)..Len(h) /\ p + (j - p) = j /\ j - p \in 1..Len(h)
    BY <1>lengths, <1>8
  <2>. QED  BY <1>4, <1>8, <2>1
<1>. HIDE DEF e
<1>15. \E x \in Nat :
              /\ Len(G) = x + Len(Recorded)
              /\ \A i \in 1..Len(Recorded) : Recorded[i] = G[x + i]
              /\ policy.windowed \/ x = 0
              /\ \A j \in 1..x : now - G[j] > policy.window
              /\ \A j \in (x+1)..Len(G) : ~Expired(G[j])
  BY <1>10, <1>11, <1>12, <1>13, <1>14
<1>. QED  BY <1>7, <1>9, <1>10, <1>15 DEF G

-----------------------------------------------------------------------------
(* The inductive invariant. *)

\* Policies are of the type the proofs assume (TypeOK is checked by TLC).
LEMMA InitIInv == Init => IInv
<1>. SUFFICES ASSUME Init PROVE IInv
  OBVIOUS
<1>1. Types /\ Len(grants) = 0 /\ Len(history) = 0 /\ result = "none"
  BY PoliciesType DEF Init, Types
<1>2. policy.cap \in Nat
  BY <1>1 DEF Types, PolicyType
<1>3. IsEndOfGrants(Pruned)
  BY <1>1 DEF IsEndOfGrants, Pruned
<1>4. Budget
  BY <1>1, <1>2 DEF Budget
<1>. QED  BY <1>1, <1>2, <1>3, <1>4 DEF IInv, Ordered, GiveUpJustified

\* The steps that record no exit.
LEMMA QuietStep ==
  ASSUME IInv, UNCHANGED <<policy, history, grants>>, now' \in Nat, now <= now',
         pc' # "done" => pc # "done" /\ result' = result,
         result' = "exhausted" => result = "exhausted"
  PROVE  IInv'
<1>1. Types' /\ Budget' /\ GiveUpJustified'
  BY DEF IInv, Types, Budget, GiveUpJustified
<1>2. Ordered'
  <2>1. \A i \in 1..Len(grants) : grants[i] \in Nat /\ grants[i] <= now /\ now \in Nat
    BY DEF IInv, Types, Ordered
  <2>2. \A i \in 1..Len(grants) : grants[i] <= now'
    BY <2>1
  <2>. QED  BY <2>2 DEF IInv, Ordered
<1>3. pc' # "done" => IsEndOfGrants(Pruned)'
  BY DEF IInv, IsEndOfGrants, Pruned
<1>. QED  BY <1>1, <1>2, <1>3 DEF IInv

\* A granted restart: the window that ends with it holds at most cap grants.
LEMMA RestartStep ==
  ASSUME IInv, Restart
  PROVE  IInv'
<1>. DEFINE G == Append(grants, now)
            n == Len(grants)
<1>1. Types /\ Ordered /\ IsEndOfGrants(Pruned)
  BY DEF IInv, Restart
<1>2. /\ grants' = G /\ history' = Recorded /\ now' = now /\ policy' = policy
      /\ result' = result /\ ~OverBudget /\ pc = "joined"
  BY DEF Restart
<1>3. PICK e \in Nat :
         /\ Len(G) = e + Len(Recorded)
         /\ \A i \in 1..Len(Recorded) : Recorded[i] = G[e + i]
         /\ policy.windowed \/ e = 0
         /\ \A j \in 1..e : now - G[j] > policy.window
  BY <1>1, RecordedIsEnd
<1>4. Recorded \in Seq(Nat) /\ Len(Recorded) \in Nat
  BY <1>1, RecordedIsEnd
<1>5. /\ G \in Seq(Nat) /\ n \in Nat /\ Len(G) = n + 1 /\ G[n + 1] = now
      /\ \A i \in 1..n : G[i] = grants[i] /\ grants[i] \in Nat
      /\ now \in Nat /\ policy.cap \in Nat /\ policy.window \in Nat
  BY <1>1 DEF Types, PolicyType
<1>6. Types'
  BY <1>1, <1>2, <1>4, <1>5 DEF Types
<1>lengths. e \in Nat /\ n \in Nat /\ Len(Recorded) \in Nat /\ n + 1 = e + Len(Recorded)
  BY <1>3, <1>4, <1>5
<1>. HIDE DEF G, n
<1>7. Ordered'
  <2>1. ASSUME NEW i \in 1..Len(G)  PROVE G[i] <= now
    BY <1>1, <1>5 DEF Ordered, n
  <2>2. ASSUME NEW i \in 1..Len(G), NEW j \in 1..Len(G), i <= j  PROVE G[i] <= G[j]
    <3>1. CASE j = n + 1
      BY <1>5, <2>1, <3>1
    <3>2. CASE j # n + 1
      <4>1. i \in 1..n /\ j \in 1..n
        BY <1>5, <2>2, <3>2
      <4>. QED  BY <1>1, <1>5, <2>2, <4>1 DEF Ordered, n
    <3>. QED  BY <3>1, <3>2
  <2>. QED  BY <1>2, <2>1, <2>2 DEF Ordered
<1>8. IsEndOfGrants(Pruned)'
  <2>1. Pruned' = e
    BY <1>2, <1>3, <1>4 DEF Pruned
  <2>. QED  BY <1>2, <1>3, <1>5, <2>1 DEF IsEndOfGrants
<1>9. policy.cap > 0 => Len(Recorded) <= policy.cap
  BY <1>2, <1>4, <1>5 DEF OverBudget
<1>10. Budget'
  <2>1. SUFFICES ASSUME policy.cap > 0, NEW i \in 1..(Len(G) - policy.cap)
                 PROVE  policy.windowed /\ G[i + policy.cap] - G[i] > policy.window
    BY <1>2 DEF Budget
  <2>2. CASE i + policy.cap = n + 1
    <3>. DEFINE c == policy.cap
                r == Len(Recorded)
    <3>0. c \in Nat /\ r <= c /\ i \in Nat /\ i > 0 /\ i + c = n + 1
      <4>1. c \in Nat
        BY <1>5
      <4>. QED  BY <1>9, <2>1, <2>2, <4>1
    <3>. HIDE DEF c, r
    <3>1. i \in 1..e
      BY <1>lengths, <3>0 DEF r
    <3>2. policy.windowed /\ now - G[i] > policy.window
      BY <1>3, <3>1
    <3>. QED  BY <1>5, <2>2, <3>2
  <2>3. CASE i + policy.cap # n + 1
    <3>. DEFINE c == policy.cap
    <3>0. c \in Nat /\ n \in Nat /\ i \in 1..(n + 1 - c) /\ i + c # n + 1
      BY <1>5, <2>3
    <3>. HIDE DEF c
    <3>1. i \in 1..(n - c) /\ i \in 1..n /\ i + c \in 1..n
      BY <3>0
    <3>2. policy.windowed /\ grants[i + c] - grants[i] > policy.window
      BY <2>1, <3>1 DEF IInv, Budget, n, c
    <3>3. G[i + c] = grants[i + c] /\ G[i] = grants[i]
      BY <1>5, <3>1
    <3>. QED  BY <3>2, <3>3 DEF c
  <2>. QED  BY <2>2, <2>3
<1>11. result' = "none"
  BY <1>2 DEF IInv
<1>. QED  BY <1>2, <1>6, <1>7, <1>8, <1>9, <1>10, <1>11 DEF IInv, GiveUpJustified

\* Giving up: the recorded exits that convict the task are all in the window.
LEMMA ExhaustStep ==
  ASSUME IInv, Exhaust
  PROVE  IInv'
<1>. DEFINE G == Append(grants, now)
            n == Len(grants)
<1>1. Types /\ Ordered /\ IsEndOfGrants(Pruned)
  BY DEF IInv, Exhaust
<1>2. /\ history' = Recorded /\ UNCHANGED <<grants, now, policy>>
      /\ pc' = "done" /\ OverBudget
  BY DEF Exhaust, Return
<1>3. PICK e \in Nat :
         /\ Len(G) = e + Len(Recorded)
         /\ \A i \in 1..Len(Recorded) : Recorded[i] = G[e + i]
         /\ \A j \in (e+1)..Len(G) : ~Expired(G[j])
  BY <1>1, RecordedIsEnd
<1>4. Recorded \in Seq(Nat) /\ Len(Recorded) \in Nat
  BY <1>1, RecordedIsEnd
<1>5. /\ n \in Nat /\ Len(G) = n + 1 /\ G[n + 1] = now
      /\ \A i \in 1..n : G[i] = grants[i] /\ grants[i] \in Nat
      /\ now \in Nat /\ policy.cap \in Nat /\ policy.window \in Nat
  BY <1>1 DEF Types, PolicyType
<1>6. Types' /\ Ordered' /\ Budget'
  BY <1>1, <1>2, <1>4 DEF IInv, Types, Ordered, Budget
<1>lengths. /\ e \in Nat /\ n \in Nat /\ Len(Recorded) \in Nat /\ Len(G) = n + 1
            /\ n + 1 = e + Len(Recorded) /\ policy.cap \in Nat
  BY <1>3, <1>4, <1>5
<1>. HIDE DEF G, n
<1>7. GiveUpJustified'
  <2>1. policy.cap > 0 /\ Len(Recorded) > policy.cap
    BY <1>2 DEF OverBudget
  <2>2. n >= policy.cap /\ n - policy.cap + 1 \in (e+1)..Len(G)
        /\ n - policy.cap + 1 \in 1..n
    BY <1>lengths, <2>1
  <2>3. Recorded[Len(Recorded)] = now
    <3>1. Len(Recorded) \in 1..Len(Recorded) /\ e + Len(Recorded) = n + 1
      BY <1>lengths, <2>1
    <3>. QED  BY <1>3, <1>5, <3>1
  <2>4. policy.windowed => now - grants[n - policy.cap + 1] <= policy.window
    <3>1. ~Expired(grants[n - policy.cap + 1])
      BY <1>3, <1>5, <2>2
    <3>2. grants[n - policy.cap + 1] \in Nat
      BY <1>5, <2>2
    <3>. QED  BY <1>5, <3>1, <3>2 DEF Expired
  <2>. QED  BY <1>2, <2>1, <2>2, <2>3, <2>4 DEF GiveUpJustified, n
<1>. QED  BY <1>2, <1>6, <1>7 DEF IInv

LEMMA IInvStep ==
  ASSUME IInv, [Next]_vars
  PROVE  IInv'
<1>1. now \in Nat /\ now <= now
  BY DEF IInv, Types
<1>2. CASE CheckToken
  BY <1>1, <1>2, QuietStep DEF CheckToken, Return
<1>3. CASE SpawnTask
  BY <1>1, <1>3, QuietStep DEF SpawnTask
<1>4. CASE FactoryPanics
  BY <1>1, <1>4, QuietStep DEF FactoryPanics, Return
<1>5. CASE Join
  BY <1>1, <1>5, QuietStep DEF Join, Return
<1>6. CASE Refuse
  BY <1>1, <1>6, QuietStep DEF Refuse, Return
<1>7. CASE Wake
  BY <1>1, <1>7, QuietStep DEF Wake, Return
<1>8. CASE TaskEnds
  BY <1>1, <1>8, QuietStep DEF TaskEnds
<1>9. CASE Cancel
  BY <1>1, <1>9, QuietStep DEF Cancel
<1>10. CASE Tick
  <2>1. now' \in Nat /\ now <= now'
    BY <1>1, <1>10 DEF Tick
  <2>. QED  BY <1>10, <2>1, QuietStep DEF Tick
<1>11. CASE UNCHANGED vars
  BY <1>1, <1>11, QuietStep DEF vars
<1>. QED
  BY <1>2, <1>3, <1>4, <1>5, <1>6, <1>7, <1>8, <1>9, <1>10, <1>11,
     RestartStep, ExhaustStep DEF Next, Loop

\* The inductive invariant holds in every state.
THEOREM Invariance == Spec => []IInv
<1>. QED  BY InitIInv, IInvStep, PTL DEF Spec

\* The restart budget holds over every run, for every policy: no window holds
\* more than cap granted restarts, and RetryExhausted is returned only when cap
\* restarts and this exit all fell inside one window (supervisor.rs:277-303).
THEOREM BudgetIsAlwaysExact == Spec => []BudgetIsExact
<1>1. IInv => BudgetIsExact  BY DEF IInv, BudgetIsExact
<1>. QED  BY <1>1, Invariance, PTL

-----------------------------------------------------------------------------
(* Cancellation. *)

\* Where the token may have fired, seen from where the loop is now.
CancelInv ==
  cancelled => /\ pc = "spawn" => cancelPc = "spawn"
               /\ pc = "joined" => cancelPc = "joined"
               /\ result \in {"concurrency", "exhausted"} => cancelPc \in {"joined", "done"}

LEMMA CancelStep ==
  ASSUME pc # "done" => result = "none", CancelInv, [Next]_vars
  PROVE  CancelInv'
<1>. USE DEF CancelInv
<1>1. CASE CheckToken  BY <1>1 DEF CheckToken, Return
<1>2. CASE SpawnTask  BY <1>2 DEF SpawnTask
<1>3. CASE FactoryPanics  BY <1>3 DEF FactoryPanics, Return
<1>4. CASE Join  BY <1>4 DEF Join, Return
<1>5. CASE Refuse  BY <1>5 DEF Refuse, Return
<1>6. CASE Exhaust  BY <1>6 DEF Exhaust, Return
<1>7. CASE Restart
  <2>1. pc' \in {"top", "sleeping"} /\ UNCHANGED <<cancelled, result, cancelPc>>
    BY <1>7 DEF Restart
  <2>. QED  BY <2>1
<1>8. CASE Wake  BY <1>8 DEF Wake, Return
<1>9. CASE TaskEnds  BY <1>9 DEF TaskEnds
<1>10. CASE Cancel  BY <1>10 DEF Cancel
<1>11. CASE Tick \/ UNCHANGED vars  BY <1>11 DEF Tick, vars
<1>. QED
  BY <1>1, <1>2, <1>3, <1>4, <1>5, <1>6, <1>7, <1>8, <1>9, <1>10, <1>11 DEF Next, Loop

LEMMA CancelInvariance == Spec => [](CancelInv /\ (pc # "done" => result = "none"))
<1>1. Init => CancelInv
  BY DEF Init, CancelInv
<1>2. IInv => (pc # "done" => result = "none")
  BY DEF IInv
<1>3. CancelInv /\ (pc # "done" => result = "none") /\ [Next]_vars => CancelInv'
  BY CancelStep
<1>. QED  BY <1>1, <1>2, <1>3, Invariance, PTL DEF Spec

\* run() reports a failure after the token fired only when it fired after the
\* check that follows the join (supervisor.rs:217).
THEOREM CancelWinsAlways == Spec => []CancelWins
<1>1. CancelInv => CancelWins  BY DEF CancelInv, CancelWins
<1>. QED  BY <1>1, CancelInvariance, PTL

\* An instance starts after the token fired only when it fired between the
\* check at the top of the loop and the spawn (supervisor.rs:206-215).
THEOREM NoLateStart == Spec => NoStartAfterCancel
<1>1. CancelInv => [pc = "spawn" /\ pc' = "running" /\ cancelled => cancelPc = "spawn"]_vars
  BY DEF CancelInv
<1>. QED  BY <1>1, CancelInvariance, PTL DEF NoStartAfterCancel

-----------------------------------------------------------------------------
(* Pacing. *)

\* The earliest instant of the next start, without jitter.
Due == grants[Len(grants)] + MinOf(policy.base, policy.max)

PaceInv ==
  /\ consecutive \in 0..MaxWord /\ until \in Nat
  /\ grants # <<>> /\ ~policy.jitter =>
       /\ pc \in {"top", "spawn"} => now >= Due
       /\ pc = "sleeping" => until >= Due

LEMMA PaceStep ==
  ASSUME Types, Types', PaceInv, [Next]_vars
  PROVE  PaceInv'
<1>. now \in Nat /\ policy.base \in Nat /\ policy.max \in Nat /\ policy.jitter \in BOOLEAN
  BY DEF Types, PolicyType
<1>1. CASE Restart
  <2>. DEFINE G == Append(grants, now)
  <2>1. PICK d \in Delays(policy.base, policy.max, Streak, policy.jitter) :
          until' = now + d /\ pc' = IF d = 0 THEN "top" ELSE "sleeping"
    BY <1>1 DEF Restart
  <2>2. /\ grants' = G /\ grants' # <<>> /\ G[Len(G)] = now
        /\ consecutive' = Streak /\ UNCHANGED <<policy, now>>
    BY <1>1 DEF Restart, Types
  <2>3. Streak \in 1..MaxWord
    <3>. DEFINE before == IF now - startedAt >= policy.max THEN 0 ELSE consecutive
    <3>1. before \in 0..MaxWord
      BY MaxWordPositive DEF PaceInv
    <3>2. Streak = Bump(before)
      BY DEF Streak
    <3>. HIDE DEF before
    <3>. QED  BY <3>1, <3>2, BumpStaysInWord
  <2>4. d \in Nat /\ (~policy.jitter => MinOf(policy.base, policy.max) <= d)
    BY <2>3, DelayBounds, MaxWordPositive
  <2>5. Due' = now + MinOf(policy.base, policy.max)
    BY <2>2 DEF Due
  <2>6. MinOf(policy.base, policy.max) \in Nat
    BY DEF MinOf
  <2>. HIDE DEF G
  <2>7. ~policy.jitter => until' >= Due' /\ (d = 0 => now >= Due')
    BY <2>1, <2>4, <2>5, <2>6
  <2>8. until' \in Nat /\ consecutive' \in 0..MaxWord
    BY <2>1, <2>2, <2>3, <2>4, MaxWordPositive
  <2>. QED  BY <2>1, <2>2, <2>7, <2>8 DEF PaceInv
<1>2. CASE Tick
  <2>1. now' = now + 1 /\ UNCHANGED <<policy, pc, grants, consecutive, until>>
    BY <1>2 DEF Tick
  <2>2. Due' = Due
    BY <2>1 DEF Due
  <2>3. grants # <<>> => Due \in Nat
    BY DEF Due, Types, MinOf
  <2>. QED  BY <2>1, <2>2, <2>3 DEF PaceInv
<1>3. ASSUME UNCHANGED <<policy, now, grants, consecutive, until>>,
             pc' \in {"top", "spawn"} =>
               pc \in {"top", "spawn"} \/ (pc = "sleeping" /\ now >= until),
             pc' = "sleeping" => pc = "sleeping"
      PROVE  PaceInv'
  <2>1. Due' = Due
    BY <1>3 DEF Due
  <2>2. grants # <<>> => Due \in Nat
    BY DEF Due, Types, MinOf
  <2>. QED  BY <1>3, <2>1, <2>2 DEF PaceInv
<1>4. CASE CheckToken  BY <1>3, <1>4 DEF CheckToken, Return
<1>5. CASE SpawnTask  BY <1>3, <1>5 DEF SpawnTask
<1>6. CASE FactoryPanics  BY <1>3, <1>6 DEF FactoryPanics, Return
<1>7. CASE Join  BY <1>3, <1>7 DEF Join, Return
<1>8. CASE Refuse  BY <1>3, <1>8 DEF Refuse, Return
<1>9. CASE Exhaust  BY <1>3, <1>9 DEF Exhaust, Return
<1>10. CASE Wake  BY <1>3, <1>10 DEF Wake, Return
<1>11. CASE TaskEnds  BY <1>3, <1>11 DEF TaskEnds
<1>12. CASE Cancel  BY <1>3, <1>12 DEF Cancel
<1>13. CASE UNCHANGED vars  BY <1>3, <1>13 DEF vars
<1>. QED
  BY <1>1, <1>2, <1>4, <1>5, <1>6, <1>7, <1>8, <1>9, <1>10, <1>11, <1>12, <1>13
     DEF Next, Loop

\* Without jitter no instance starts sooner than min(base, max) after the
\* previous exit (supervisor.rs:305-326): a crash loop does not spin.
THEOREM StartsArePaced == Spec => PacedStarts
<1>1. Init => PaceInv
  BY MaxWordPositive DEF Init, PaceInv
<1>2. IInv => Types
  BY DEF IInv
<1>3. PaceInv /\ Types => [pc = "spawn" /\ pc' = "running" /\ grants # <<>> /\ ~policy.jitter
                   => now - grants[Len(grants)] >= MinOf(policy.base, policy.max)]_vars
  BY DEF PaceInv, Due, Types, PolicyType, MinOf
<1>. QED  BY <1>1, <1>2, <1>3, PaceStep, Invariance, PTL DEF Spec, PacedStarts

-----------------------------------------------------------------------------
(* Types, and the bound on the history. *)

\* A step that leaves the history alone keeps its bound.
LEMMA BoundStep ==
  ASSUME IInv, HistoryBounded, UNCHANGED <<policy, history>>,
         pc = "done" => result' = result
  PROVE  HistoryBounded'
<1>. policy.cap \in Nat /\ Len(history) \in Nat
  BY DEF IInv, Types, PolicyType
<1>1. CASE pc = "done"
  BY <1>1 DEF HistoryBounded
<1>2. CASE pc # "done"
  BY <1>2 DEF HistoryBounded, IInv
<1>. QED  BY <1>1, <1>2

LEMMA TypeStep ==
  ASSUME TypeOK, IInv, IInv', PaceInv', [Next]_vars
  PROVE  TypeOK'
<1>. USE DEF TypeOK
<1>1. CASE CheckToken  BY <1>1, BoundStep DEF CheckToken, Return
<1>2. CASE SpawnTask
  <2>1. HistoryBounded'
    BY <1>2, BoundStep DEF SpawnTask
  <2>. QED  BY <1>2, <2>1 DEF SpawnTask
<1>3. CASE FactoryPanics  BY <1>3, BoundStep DEF FactoryPanics, Return
<1>4. CASE Join  BY <1>4, BoundStep DEF Join, Return
<1>5. CASE Refuse  BY <1>5, BoundStep DEF Refuse, Return
<1>6. CASE Exhaust
  <2>1. /\ Recorded \in Seq(Nat) /\ Len(Recorded) <= Len(history) + 1
        /\ Len(Recorded) \in Nat /\ Len(history) \in Nat
    BY <1>6, RecordedIsEnd DEF IInv, Exhaust
  <2>2. policy.cap > 0 => Len(history) <= policy.cap
    BY <1>6 DEF IInv, Exhaust
  <2>3. policy.cap \in Nat
    BY DEF IInv, Types, PolicyType
  <2>4. /\ history' = Recorded /\ pc' = "done" /\ result' = "exhausted"
        /\ UNCHANGED <<policy, now, cancelled, consecutive, startedAt, outcome, until,
                       starts, grants>>
    BY <1>6 DEF Exhaust, Return
  <2>5. HistoryBounded'
    BY <2>1, <2>2, <2>3, <2>4 DEF HistoryBounded
  <2>. QED  BY <2>1, <2>4, <2>5
<1>7. CASE Restart
  <2>1. /\ pc' \in {"top", "sleeping"}
        /\ UNCHANGED <<policy, now, cancelled, startedAt, outcome, result, starts>>
    BY <1>7 DEF Restart
  <2>2. history' \in Seq(Nat) /\ grants' \in Seq(Nat) /\ result' = "none"
        /\ (policy'.cap > 0 => Len(history') <= policy'.cap)
    BY <2>1 DEF IInv, Types
  <2>3. consecutive' \in 0..MaxWord /\ until' \in Nat
    BY DEF PaceInv
  <2>4. HistoryBounded'
    <3>1. policy'.cap \in Nat /\ Len(history') \in Nat
      BY <2>2 DEF IInv, Types, PolicyType
    <3>. QED  BY <2>2, <3>1 DEF HistoryBounded
  <2>. QED  BY <2>1, <2>2, <2>3, <2>4
<1>8. CASE Wake  BY <1>8, BoundStep DEF Wake, Return
<1>9. CASE TaskEnds  BY <1>9, BoundStep DEF TaskEnds
<1>10. CASE Cancel  BY <1>10, BoundStep DEF Cancel
<1>11. CASE Tick  BY <1>11, BoundStep DEF Tick
<1>12. CASE UNCHANGED vars  BY <1>12, BoundStep DEF vars
<1>. QED
  BY <1>1, <1>2, <1>3, <1>4, <1>5, <1>6, <1>7, <1>8, <1>9, <1>10, <1>11, <1>12
     DEF Next, Loop

\* Type correctness, with the bound on the memory of the history.
THEOREM TypeCorrect == Spec => []TypeOK
<1>1. Init => TypeOK /\ PaceInv
  <2>. SUFFICES ASSUME Init PROVE TypeOK /\ PaceInv
    OBVIOUS
  <2>1. policy.cap \in Nat
    BY PoliciesType DEF Init, PolicyType
  <2>2. HistoryBounded
    BY <2>1 DEF Init, HistoryBounded
  <2>3. 0 \in 0..MaxWord
    BY MaxWordPositive
  <2>4. history \in Seq(Nat) /\ grants \in Seq(Nat) /\ starts \in Seq(Nat)
    BY DEF Init
  <2>. QED  BY <2>2, <2>3, <2>4 DEF Init, TypeOK, PaceInv
<1>2. IInv => Types
  BY DEF IInv
<1>. QED  BY <1>1, <1>2, TypeStep, PaceStep, Invariance, PTL DEF Spec

-----------------------------------------------------------------------------
(* The streak. *)

Busy == pc \in {"running", "exited", "joined"}

\* The counter is the length of the streak, as far as it fits a word: each grant
\* belongs to the start before it, and a start that has no grant yet is the last.
StreakInv ==
  /\ starts \in Seq(Nat)
  /\ pc # "done" => Len(starts) = Len(grants) + (IF Busy THEN 1 ELSE 0)
  /\ Busy => startedAt = starts[Len(starts)]
  /\ grants = <<>> => consecutive = 0
  /\ grants # <<>> => \E i \in 1..Len(grants) :
       BeginsStreak(i) /\ consecutive = MinOf(Len(grants) - i + 1, MaxWord)
  /\ pc = "sleeping" =>
       /\ grants # <<>>
       /\ until - grants[Len(grants)]
            \in Delays(policy.base, policy.max, consecutive, policy.jitter)

\* A streak begins in one place.
LEMMA StreakIs ==
  ASSUME Types, NEW i \in 1..Len(grants), BeginsStreak(i)
  PROVE  CrashStreak = Len(grants) - i + 1
<1>1. Len(grants) \in Nat
  BY DEF Types
<1>2. ASSUME NEW k \in 1..Len(grants), NEW l \in 1..Len(grants),
             BeginsStreak(k), BeginsStreak(l), k < l
      PROVE  FALSE
  <2>1. l \in (k+1)..Len(grants) /\ l # 1
    BY <1>1, <1>2
  <2>. QED  BY <1>2, <2>1 DEF BeginsStreak
<1>3. \A k \in 1..Len(grants) : BeginsStreak(k) => k = i
  <2>. SUFFICES ASSUME NEW k \in 1..Len(grants), BeginsStreak(k)  PROVE k = i
    OBVIOUS
  <2>1. ~(k < i) /\ ~(i < k)
    BY <1>2
  <2>. QED  BY <1>1, <2>1
<1>4. (CHOOSE k \in 1..Len(grants) : BeginsStreak(k)) = i
  BY <1>3
<1>. QED  BY <1>4 DEF CrashStreak

\* The saturated counter multiplies as the streak does: the factor has reached
\* its limit before the counter reaches its own.
LEMMA FactorOfStreak ==
  ASSUME NEW k \in Nat \ {0}
  PROVE  Factor(MinOf(k, MaxWord)) = Multiplier(k)
<1>. DEFINE c == MinOf(k, MaxWord)
<1>1. MaxWord \in Nat \ {0} /\ Width \in Nat \ {0} /\ MaxWord = 2^Width - 1
  BY MaxWordPositive, WidthIsPositive DEF MaxWord
<1>2. c \in Nat \ {0} /\ Factor(c) = IF c - 1 < Width THEN 2^(c - 1) ELSE MaxWord
  BY <1>1 DEF MinOf, Factor
<1>3. Width <= MaxWord
  <2>1. Width \in 0..Width
    BY <1>1
  <2>2. 2^Width \in Nat /\ Width < 2^Width
    BY <2>1, PowersOfTwo
  <2>. QED  BY <1>1, <2>2
<1>4. CASE k <= MaxWord
  <2>1. c = k
    BY <1>4 DEF MinOf
  <2>. QED  BY <1>1, <1>2, <2>1 DEF Multiplier
<1>5. CASE ~(k <= MaxWord)
  <2>1. c = MaxWord /\ ~(k <= Width)
    BY <1>1, <1>3, <1>5 DEF MinOf
  <2>2. Multiplier(k) = MaxWord
    BY <2>1 DEF Multiplier
  <2>3. CASE MaxWord # Width
    <3>1. ~(c - 1 < Width)
      BY <1>1, <1>3, <2>1, <2>3
    <3>. QED  BY <1>2, <2>2, <3>1
  <2>4. CASE MaxWord = Width
    <3>. DEFINE w == 2^(Width - 1)
    <3>1. Width - 1 \in 0..Width /\ Width \in 1..Width
      BY <1>1
    <3>2. w \in Nat /\ Width - 1 < w
      BY <3>1, PowersOfTwo
    <3>3. 2^Width = 2 * w
      BY <3>1, PowersOfTwo
    <3>4. Factor(c) = w
      BY <1>1, <1>2, <2>1, <2>4
    <3>. HIDE DEF w
    <3>5. w = MaxWord
      BY <1>1, <2>4, <3>2, <3>3
    <3>. QED  BY <2>2, <3>4, <3>5
  <2>. QED  BY <2>3, <2>4
<1>. QED  BY <1>4, <1>5

\* A restart lengthens the streak by one, or begins a new one.
LEMMA StreakGrows ==
  ASSUME Types, StreakInv, Restart, consecutive \in 0..MaxWord
  PROVE  StreakInv'
<1>0. PICK n \in Nat : n = Len(grants)
  BY DEF Types
<1>. DEFINE G == Append(grants, now)
<1>1. /\ pc = "joined" /\ history' = Recorded /\ consecutive' = Streak
      /\ grants' = G /\ UNCHANGED <<policy, now, startedAt, starts>>
  BY DEF Restart
<1>2. PICK d \in Delays(policy.base, policy.max, Streak, policy.jitter) :
        until' = now + d /\ pc' = IF d = 0 THEN "top" ELSE "sleeping"
  BY DEF Restart
<1>3. /\ n \in Nat /\ Len(G) = n + 1 /\ G # <<>> /\ G[n + 1] = now /\ now \in Nat
      /\ \A i \in 1..n : G[i] = grants[i]
      /\ Len(starts) = n + 1 /\ startedAt = starts[n + 1] /\ starts \in Seq(Nat)
      /\ policy.max \in Nat
  <2>1. grants \in Seq(Nat) /\ now \in Nat /\ policy.max \in Nat
    BY DEF Types, PolicyType
  <2>2. Len(starts) = n + 1 /\ startedAt = starts[n + 1] /\ starts \in Seq(Nat)
    BY <1>0, <1>1 DEF StreakInv, Busy
  <2>. QED  BY <1>0, <2>1, <2>2
<1>4. MaxWord \in Nat \ {0}
  BY MaxWordPositive
<1>. HIDE DEF G
<1>5. /\ \A i \in 1..n : Healthy(i)' <=> Healthy(i)
      /\ Healthy(n + 1)' <=> now - startedAt >= policy.max
  BY <1>1, <1>3 DEF Healthy
<1>6. \E i \in 1..(n + 1) : BeginsStreak(i)' /\ consecutive' = MinOf(n + 1 - i + 1, MaxWord)
  <2>1. CASE now - startedAt >= policy.max
    <3>1. BeginsStreak(n + 1)'
      BY <1>1, <1>3, <1>5, <2>1 DEF BeginsStreak
    <3>2. consecutive' = MinOf(n + 1 - (n + 1) + 1, MaxWord)
      BY <1>1, <1>3, <1>4, <2>1 DEF Streak, Bump, MinOf
    <3>. QED  BY <1>3, <3>1, <3>2
  <2>2. CASE ~(now - startedAt >= policy.max)
    <3>1. consecutive' = Bump(consecutive)
      BY <1>1, <2>2 DEF Streak
    <3>2. CASE grants = <<>>
      <4>1. n = 0 /\ consecutive = 0
        BY <1>0, <3>2 DEF StreakInv
      <4>2. BeginsStreak(1)'
        BY <1>1, <1>3, <4>1 DEF BeginsStreak
      <4>3. consecutive' = MinOf(n + 1 - 1 + 1, MaxWord)
        BY <1>4, <3>1, <4>1 DEF Bump, MinOf
      <4>. QED  BY <1>3, <4>2, <4>3
    <3>3. CASE grants # <<>>
      <4>1. PICK i \in 1..n : BeginsStreak(i) /\ consecutive = MinOf(n - i + 1, MaxWord)
        BY <1>0, <3>3 DEF StreakInv
      <4>2. ASSUME NEW j \in (i+1)..(n+1)  PROVE ~Healthy(j)'
        <5>1. CASE j = n + 1
          BY <1>5, <2>2, <5>1
        <5>2. CASE j # n + 1
          <6>1. j \in (i+1)..n /\ j \in 1..n
            BY <1>3, <5>2
          <6>. QED  BY <1>0, <1>5, <4>1, <6>1 DEF BeginsStreak
        <5>. QED  BY <5>1, <5>2
      <4>3. i = 1 \/ Healthy(i)'
        BY <1>5, <4>1 DEF BeginsStreak
      <4>4. BeginsStreak(i)'
        BY <1>1, <1>3, <4>2, <4>3 DEF BeginsStreak
      <4>5. consecutive' = MinOf(n + 1 - i + 1, MaxWord)
        BY <1>3, <1>4, <3>1, <4>1 DEF Bump, MinOf
      <4>. QED  BY <1>3, <4>4, <4>5
    <3>. QED  BY <3>2, <3>3
  <2>. QED  BY <2>1, <2>2
<1>7. d \in Nat
  <2>1. Streak \in Nat
    BY <1>4 DEF Streak, Bump
  <2>2. policy.base \in Nat /\ policy.jitter \in BOOLEAN
    BY DEF Types, PolicyType
  <2>. QED  BY <1>3, <2>1, <2>2, DelayBounds
<1>8. pc' = "sleeping" =>
        until' - G[n + 1] \in Delays(policy.base, policy.max, consecutive', policy.jitter)
  <2>1. until' - G[n + 1] = d
    BY <1>2, <1>3, <1>7
  <2>. QED  BY <1>1, <1>2, <2>1
<1>9. ~Busy' /\ grants' # <<>> /\ Len(grants') = n + 1
  BY <1>1, <1>2, <1>3 DEF Busy
<1>10. Len(starts') = Len(grants') + 0 /\ starts' \in Seq(Nat)
  BY <1>1, <1>3
<1>. QED  BY <1>1, <1>3, <1>6, <1>8, <1>9, <1>10 DEF StreakInv

LEMMA StreakStep ==
  ASSUME Types, consecutive \in 0..MaxWord, StreakInv, [Next]_vars
  PROVE  StreakInv'
<1>1. CASE Restart
  BY <1>1, StreakGrows
<1>2. CASE SpawnTask
  <2>1. /\ pc = "spawn" /\ pc' = "running" /\ startedAt' = now /\ starts' = Append(starts, now)
        /\ UNCHANGED <<policy, grants, consecutive>>
    BY <1>2 DEF SpawnTask
  <2>2. /\ Len(starts) = Len(grants) /\ starts \in Seq(Nat) /\ now \in Nat
        /\ Len(grants) \in Nat
    BY <2>1 DEF StreakInv, Busy, Types
  <2>3. /\ starts' \in Seq(Nat) /\ Len(starts') = Len(starts) + 1 /\ starts'[Len(starts')] = now
        /\ \A i \in 1..Len(starts) : starts'[i] = starts[i]
    BY <2>1, <2>2
  <2>4. \A i \in 1..Len(grants) : Healthy(i)' <=> Healthy(i)
    BY <2>1, <2>2, <2>3 DEF Healthy
  <2>5. \A i \in 1..Len(grants) : BeginsStreak(i)' <=> BeginsStreak(i)
    <3>1. \A i \in 1..Len(grants) : \A j \in (i+1)..Len(grants) : j \in 1..Len(grants)
      BY <2>2
    <3>. QED  BY <2>1, <2>4, <3>1 DEF BeginsStreak
  <2>. QED  BY <2>1, <2>2, <2>3, <2>5 DEF StreakInv, Busy
<1>3. ASSUME UNCHANGED <<policy, grants, starts, startedAt, consecutive>>,
             pc' = "sleeping" => pc = "sleeping" /\ until' = until,
             \/ pc' = "done" /\ ~Busy'
             \/ pc # "done" /\ pc' # "done" /\ (Busy' <=> Busy)
             \/ pc = "done" /\ pc' = "done"
      PROVE  StreakInv'
  <2>1. ASSUME NEW i \in 1..Len(grants)  PROVE BeginsStreak(i)' <=> BeginsStreak(i)
    BY <1>3 DEF BeginsStreak, Healthy
  <2>2. grants # <<>> => \E i \in 1..Len(grants) :
          BeginsStreak(i)' /\ consecutive = MinOf(Len(grants) - i + 1, MaxWord)
    BY <2>1 DEF StreakInv
  <2>3. /\ pc' # "done" => Len(starts) = Len(grants) + (IF Busy' THEN 1 ELSE 0)
        /\ Busy' => startedAt = starts[Len(starts)]
    BY <1>3 DEF StreakInv, Busy
  <2>. QED  BY <1>3, <2>2, <2>3 DEF StreakInv
<1>4. CASE CheckToken  BY <1>3, <1>4 DEF CheckToken, Return, Busy
<1>5. CASE FactoryPanics  BY <1>3, <1>5 DEF FactoryPanics, Return, Busy
<1>6. CASE Join  BY <1>3, <1>6 DEF Join, Return, Busy
<1>7. CASE Refuse  BY <1>3, <1>7 DEF Refuse, Return, Busy
<1>8. CASE Exhaust  BY <1>3, <1>8 DEF Exhaust, Return, Busy
<1>9. CASE Wake  BY <1>3, <1>9 DEF Wake, Return, Busy
<1>10. CASE TaskEnds  BY <1>3, <1>10 DEF TaskEnds, Busy
<1>11. CASE Cancel  BY <1>3, <1>11 DEF Cancel, Busy
<1>12. CASE Tick  BY <1>3, <1>12 DEF Tick, Busy
<1>13. CASE UNCHANGED vars  BY <1>3, <1>13 DEF vars, Busy
<1>. QED
  BY <1>1, <1>2, <1>4, <1>5, <1>6, <1>7, <1>8, <1>9, <1>10, <1>11, <1>12, <1>13
     DEF Next, Loop

\* The backoff is that of the streak of crashes, read off the instants of starts
\* and restarts, for any policy and any length of the streak: the counter never
\* goes stale, and the factor saturates (supervisor.rs:228-238, backoff.rs:26-36).
THEOREM BackoffAlwaysFollows == Spec => []BackoffFollowsStreak
<1>1. Init => StreakInv
  BY DEF Init, StreakInv, Busy
<1>2. TypeOK => consecutive \in 0..MaxWord
  BY DEF TypeOK
<1>3. IInv => Types
  BY DEF IInv
<1>4. Types /\ StreakInv => BackoffFollowsStreak
  <2>. SUFFICES ASSUME Types, StreakInv, pc = "sleeping"
                PROVE  LET full == MinOf(policy.base * Multiplier(CrashStreak), policy.max)
                           slept == until - grants[Len(grants)]
                       IN  slept <= full /\ (~policy.jitter => slept = full)
    BY DEF BackoffFollowsStreak
  <2>. DEFINE full == MinOf(policy.base * Multiplier(CrashStreak), policy.max)
              slept == until - grants[Len(grants)]
  <2>1. PICK i \in 1..Len(grants) :
          BeginsStreak(i) /\ consecutive = MinOf(Len(grants) - i + 1, MaxWord)
    BY DEF StreakInv
  <2>2. Len(grants) \in Nat /\ Len(grants) - i + 1 \in Nat \ {0}
    BY DEF Types
  <2>3. CrashStreak = Len(grants) - i + 1
    BY <2>1, StreakIs
  <2>4. Factor(consecutive) = Multiplier(CrashStreak)
    BY <2>1, <2>2, <2>3, FactorOfStreak
  <2>5. Capped(policy.base, policy.max, consecutive) = full
    BY <2>4 DEF Capped
  <2>6. slept \in Delays(policy.base, policy.max, consecutive, policy.jitter)
    BY DEF StreakInv
  <2>7. full \in Nat
    <3>1. consecutive \in Nat /\ policy.base \in Nat /\ policy.max \in Nat
      BY <2>1, <2>2, MaxWordPositive DEF MinOf, Types, PolicyType
    <3>. QED  BY <2>5, <3>1, CappedBounds
  <2>. HIDE DEF full, slept
  <2>8. slept <= full /\ (~policy.jitter => slept = full)
    BY <2>5, <2>6, <2>7 DEF Delays, Jittered
  <2>. QED  BY <2>8 DEF full, slept
<1>. QED  BY <1>1, <1>2, <1>3, <1>4, StreakStep, TypeCorrect, Invariance, PTL DEF Spec
=============================================================================
