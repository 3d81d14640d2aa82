--------------------------- MODULE IngressProofs ---------------------------
(***************************************************************************)
(* Safety of what the network hands in.  NatsServe, for any servers,        *)
(* messages, limits and groups: a server has a message in one place at      *)
(* most, its slots bound what is in flight, and only work that ended well   *)
(* is answered.  Validation, for documents of any length and any limits:    *)
(* the scan of one pass gives the verdict of the whole document.            *)
(***************************************************************************)
EXTENDS NatsServe, Validation, FiniteSetTheorems, WellFoundedInduction, TLAPS

-----------------------------------------------------------------------------
(* NatsServe: the inductive invariant. *)

Stages == {"away", "queued", "handling", "replying", "done", "lost"}

\* The queue of a server holds each of its queued messages once.
QueueOnce(s) ==
  /\ queue[s] \in Seq(Messages)
  /\ \A i \in 1..Len(queue[s]) : queue[s][i] \in At(s, "queued")
  /\ \A m \in At(s, "queued") : \E i \in 1..Len(queue[s]) : queue[s][i] = m
  /\ Len(queue[s]) = Cardinality(At(s, "queued"))
  /\ \A i, j \in 1..Len(queue[s]) : queue[s][i] = queue[s][j] => i = j

WithinLimit(s) == Limit[s] # 0 => Cardinality(InFlight(s)) <= Limit[s]

Types ==
  /\ group \in Groupings
  /\ serve \in [Servers -> {"new", "serving", "ok", "failed", "gone"}]
  /\ ended \subseteq Servers
  /\ stage \in [Servers -> [Messages -> Stages]]
  /\ call \in [Messages -> {"new", "sent", "ok", "internal", "network"}]
  /\ answers \in [Messages -> SUBSET Servers] /\ earned \in [Requests -> SUBSET Servers]

\* What is in flight was accepted, and a reply under way was earned.
Worked ==
  \A s \in Servers, m \in Messages :
    /\ stage[s][m] \in {"handling", "replying"} => m \in Fits[s] \cap Decodes[s]
    /\ stage[s][m] = "replying" => m \in Requests /\ s \in earned[m]
    /\ stage[s][m] = "lost" => serve[s] = "gone"

\* Nobody has a message before it is sent.
Unsent == \A m \in Messages : call[m] = "new" => \A s \in Servers : stage[s][m] = "away"

Lanes == \A s \in Servers : QueueOnce(s) /\ WithinLimit(s)

QueueIsFunction == DOMAIN queue = Servers

IInv ==
  /\ Types /\ QueueIsFunction /\ Lanes
  /\ Unsent /\ Worked /\ AnswerIsEarned /\ OkMeansSettled

LEMMA InvariantHasTypes == IInv => TypeOK
<1>1. ASSUME IInv, NEW s \in Servers
      PROVE  {queue[s][i] : i \in 1..Len(queue[s])} = At(s, "queued")
  BY <1>1 DEF IInv, Lanes, QueueOnce
<1>. QED  BY <1>1 DEF IInv, Types, Lanes, QueueOnce, WithinLimit, TypeOK, Stages

-----------------------------------------------------------------------------
(* Counting. *)

LEMMA Counted ==
  ASSUME NEW S \in SUBSET Messages
  PROVE  IsFiniteSet(S) /\ Cardinality(S) \in Nat
<1>. QED  BY MessagesAreFinite, FS_Subset, FS_CardinalityType

LEMMA OneMore ==
  ASSUME NEW S \in SUBSET Messages, NEW m \in Messages
  PROVE  /\ m \notin S => Cardinality(S \cup {m}) = Cardinality(S) + 1
         /\ m \in S => Cardinality(S \ {m}) = Cardinality(S) - 1
         /\ Cardinality(S) \in Nat
<1>. QED  BY Counted, FS_AddElement, FS_RemoveElement

\* A server whose messages in flight become fewer stays within its limit.
LEMMA FewerInFlight ==
  ASSUME Types, NEW s \in Servers, WithinLimit(s), InFlight(s)' \subseteq InFlight(s)
  PROVE  WithinLimit(s)'
<1>1. InFlight(s) \in SUBSET Messages /\ InFlight(s)' \in SUBSET InFlight(s)
  BY DEF InFlight, At
<1>2. IsFiniteSet(InFlight(s)) /\ Cardinality(InFlight(s)) \in Nat
  BY <1>1, Counted
<1>3. Cardinality(InFlight(s)') <= Cardinality(InFlight(s)) /\ Cardinality(InFlight(s)') \in Nat
  BY <1>1, <1>2, FS_Subset, FS_CardinalityType
<1>. QED  BY <1>2, <1>3, ConfigType DEF WithinLimit

\* A server that has nothing new, and nothing more in its queue or in flight.
LEMMA SameLane ==
  ASSUME Types, NEW s \in Servers, QueueOnce(s), WithinLimit(s), queue'[s] = queue[s],
         At(s, "queued")' = At(s, "queued"), InFlight(s)' \subseteq InFlight(s)
  PROVE  QueueOnce(s)' /\ WithinLimit(s)'
<1>1. WithinLimit(s)'
  BY FewerInFlight
<1>2. QueueOnce(s)'
  BY DEF QueueOnce
<1>. QED  BY <1>1, <1>2

\* The first message of a queue leaves it.
LEMMA TailLane ==
  ASSUME Types, NEW s \in Servers, QueueOnce(s), queue[s] # <<>>, queue'[s] = Tail(queue[s]),
         At(s, "queued")' = At(s, "queued") \ {Head(queue[s])}
  PROVE  QueueOnce(s)' /\ Head(queue[s]) \in At(s, "queued")
<1>. DEFINE q == queue[s]
            n == Len(q)
            Q == At(s, "queued")
            r == Tail(q)
<1>1. /\ q \in Seq(Messages) /\ n \in Nat /\ n > 0 /\ q # <<>>
      /\ \A i \in 1..n : q[i] \in Q
      /\ \A x \in Q : \E i \in 1..n : q[i] = x
      /\ n = Cardinality(Q)
      /\ \A i, j \in 1..n : q[i] = q[j] => i = j
  BY DEF QueueOnce
<1>2. /\ r \in Seq(Messages) /\ Len(r) = n - 1 /\ Head(q) = q[1]
      /\ \A i \in 1..n-1 : r[i] = q[i + 1]
  BY <1>1
<1>3. 1 \in 1..n /\ q[1] \in Q /\ q[1] \in Messages
  BY <1>1
<1>. HIDE DEF q, n, r
<1>4. /\ \A i \in 1..Len(r) : r[i] \in Q \ {q[1]}
      /\ \A m \in Q \ {q[1]} : \E i \in 1..Len(r) : r[i] = m
  <2>1. ASSUME NEW i \in 1..n-1  PROVE r[i] \in Q \ {q[1]}
    <3>1. i + 1 \in 1..n /\ i + 1 # 1
      BY <1>1
    <3>. QED  BY <1>1, <1>2, <1>3, <3>1
  <2>2. ASSUME NEW m \in Q \ {q[1]}  PROVE \E i \in 1..n-1 : r[i] = m
    <3>1. PICK k \in 1..n : q[k] = m
      BY <1>1
    <3>2. k # 1
      BY <3>1
    <3>3. k - 1 \in 1..n-1 /\ (k - 1) + 1 = k
      BY <1>1, <3>2
    <3>. QED  BY <1>2, <3>1, <3>3
  <2>. QED  BY <1>2, <2>1, <2>2
<1>5. \A i, j \in 1..Len(r) : r[i] = r[j] => i = j
  <2>. SUFFICES ASSUME NEW i \in 1..n-1, NEW j \in 1..n-1, r[i] = r[j]
                PROVE  i = j
    BY <1>2
  <2>1. i + 1 \in 1..n /\ j + 1 \in 1..n
    BY <1>1
  <2>2. i + 1 = j + 1
    <3>1. q[i + 1] = q[j + 1]
      BY <1>2
    <3>. QED  BY <1>1, <2>1, <3>1
  <2>. QED  BY <2>2
<1>6. Cardinality(Q \ {q[1]}) = n - 1
  <2>1. Q \in SUBSET Messages
    BY DEF At
  <2>. QED  BY <1>1, <1>3, <2>1, OneMore
<1>7. queue'[s] = r /\ At(s, "queued")' = Q \ {q[1]}
  BY <1>2 DEF q, r
<1>8. Head(queue[s]) \in At(s, "queued")
  BY <1>2, <1>3 DEF q
<1>. HIDE DEF Q
<1>. QED  BY <1>2, <1>4, <1>5, <1>6, <1>7, <1>8 DEF QueueOnce

\* A message that is not in the queue joins it at the end.
LEMMA LongerLane ==
  ASSUME Types, NEW s \in Servers, QueueOnce(s), NEW m \in Messages, m \notin At(s, "queued"),
         queue'[s] = Append(queue[s], m), At(s, "queued")' = At(s, "queued") \cup {m}
  PROVE  QueueOnce(s)'
<1>. DEFINE q == queue[s]
            n == Len(q)
            Q == At(s, "queued")
            r == Append(q, m)
<1>1. /\ q \in Seq(Messages) /\ n \in Nat
      /\ \A i \in 1..n : q[i] \in Q
      /\ \A x \in Q : \E i \in 1..n : q[i] = x
      /\ n = Cardinality(Q)
      /\ \A i, j \in 1..n : q[i] = q[j] => i = j
  BY DEF QueueOnce
<1>2. /\ r \in Seq(Messages) /\ Len(r) = n + 1 /\ r[n + 1] = m
      /\ \A i \in 1..n : r[i] = q[i]
  BY <1>1
<1>3. \A i \in 1..n : r[i] \in Q /\ r[i] # m
  BY <1>1, <1>2
<1>. HIDE DEF q, n, r
<1>4. \A i \in 1..Len(r) : i \in 1..n \/ i = n + 1
  BY <1>1, <1>2
<1>5. /\ \A i \in 1..Len(r) : r[i] \in Q \cup {m}
      /\ \A x \in Q \cup {m} : \E i \in 1..Len(r) : r[i] = x
  <2>1. \A i \in 1..Len(r) : r[i] \in Q \cup {m}
    BY <1>2, <1>3, <1>4
  <2>2. ASSUME NEW x \in Q  PROVE \E i \in 1..Len(r) : r[i] = x
    <3>1. PICK i \in 1..n : q[i] = x
      BY <1>1
    <3>2. i \in 1..Len(r)
      BY <1>1, <1>2
    <3>. QED  BY <1>2, <3>1, <3>2
  <2>3. n + 1 \in 1..Len(r)
    BY <1>1, <1>2
  <2>. QED  BY <1>2, <2>1, <2>2, <2>3
<1>6. \A i, j \in 1..Len(r) : r[i] = r[j] => i = j
  BY <1>1, <1>2, <1>3, <1>4
<1>7. Cardinality(Q \cup {m}) = n + 1
  <2>1. Q \in SUBSET Messages
    BY DEF At
  <2>. QED  BY <1>1, <2>1, OneMore
<1>8. queue'[s] = r /\ At(s, "queued")' = Q \cup {m}
  BY DEF r, q
<1>. HIDE DEF Q
<1>. QED  BY <1>2, <1>5, <1>6, <1>7, <1>8 DEF QueueOnce

-----------------------------------------------------------------------------
(* The steps. *)

LEMMA InitIInv == Init => IInv
<1>. SUFFICES ASSUME Init PROVE IInv
  OBVIOUS
<1>1. Types /\ QueueIsFunction
  BY MessagesAreFinite DEF Init, Types, QueueIsFunction, Stages
<1>2. ASSUME NEW s \in Servers  PROVE QueueOnce(s) /\ WithinLimit(s)
  <2>1. queue[s] = <<>> /\ At(s, "queued") = {} /\ InFlight(s) = {}
    BY DEF Init, At, InFlight
  <2>2. Cardinality({}) = 0
    BY FS_EmptySet
  <2>3. QueueOnce(s)
    BY <2>1, <2>2 DEF QueueOnce
  <2>4. WithinLimit(s)
    <3>1. Limit[s] \in Nat
      BY ConfigType
    <3>. QED  BY <2>1, <2>2, <3>1 DEF WithinLimit
  <2>. QED  BY <2>3, <2>4
<1>3. Unsent /\ Worked /\ AnswerIsEarned /\ OkMeansSettled
  BY DEF Init, Unsent, Worked, AnswerIsEarned, OkMeansSettled
<1>. QED  BY <1>1, <1>2, <1>3 DEF IInv, Lanes

\* The steps that move no message.
Still == UNCHANGED <<group, queue, stage, answers, earned>>

LEMMA StillLanes ==
  ASSUME IInv, UNCHANGED <<queue, stage>>
  PROVE  QueueIsFunction' /\ Lanes'
<1>1. Types /\ QueueIsFunction
  BY DEF IInv
<1>2. ASSUME NEW s \in Servers  PROVE QueueOnce(s)' /\ WithinLimit(s)'
  <2>1. At(s, "queued")' = At(s, "queued") /\ InFlight(s)' = InFlight(s)
    BY DEF At, InFlight
  <2>2. QueueOnce(s) /\ WithinLimit(s)
    BY DEF IInv, Lanes
  <2>. QED  BY <1>1, <2>1, <2>2, SameLane
<1>. QED  BY <1>1, <1>2 DEF Lanes, QueueIsFunction

\* Subscribing, and the end of the stream.
LEMMA ServeStep ==
  ASSUME IInv, NEW s \in Servers, Subscribe(s) \/ StreamEnds(s)
  PROVE  IInv'
<1>1. /\ Still /\ call' = call /\ ended' \subseteq Servers
      /\ \/ serve' = serve
         \/ \E r \in {"serving", "failed"} : serve[s] = "new" /\ serve' = [serve EXCEPT ![s] = r]
  BY DEF IInv, Types, Subscribe, StreamEnds, Still
<1>2. QueueIsFunction' /\ Lanes'
  BY <1>1, StillLanes DEF Still
<1>3. Types' /\ \A t \in Servers : serve'[t] = serve[t] \/ (serve[t] = "new" /\ serve'[t] \in {"serving", "failed"})
  BY <1>1 DEF IInv, Types, Still
<1>4. Unsent' /\ Worked' /\ AnswerIsEarned' /\ OkMeansSettled'
  BY <1>1, <1>3 DEF IInv, Still, Unsent, Worked, AnswerIsEarned, OkMeansSettled
<1>. QED  BY <1>2, <1>3, <1>4 DEF IInv

\* A call that returns Ok has an empty queue and nothing in flight.
LEMMA ServeReturnsStep ==
  ASSUME IInv, NEW s \in Servers, ServeReturns(s)
  PROVE  IInv'
<1>1. /\ Still /\ call' = call /\ ended' = ended
      /\ serve[s] = "serving" /\ serve' = [serve EXCEPT ![s] = "ok"]
      /\ queue[s] = <<>> /\ InFlight(s) = {}
  BY DEF ServeReturns, Still
<1>2. QueueIsFunction' /\ Lanes'
  BY <1>1, StillLanes DEF Still
<1>3. Types' /\ serve \in [Servers -> {"new", "serving", "ok", "failed", "gone"}]
  BY <1>1 DEF IInv, Types, Still
<1>4. ASSUME NEW m \in Messages  PROVE stage[s][m] \in {"away", "done"}
  <2>1. m \notin At(s, "queued")
    <3>1. QueueOnce(s)
      BY DEF IInv, Lanes
    <3>. QED  BY <1>1, <3>1 DEF QueueOnce
  <2>2. m \notin InFlight(s)
    BY <1>1
  <2>3. stage[s][m] # "lost"
    BY <1>1 DEF IInv, Worked
  <2>4. stage[s][m] \in Stages
    BY DEF IInv, Types
  <2>. QED  BY <2>1, <2>2, <2>3, <2>4 DEF At, InFlight, Stages
<1>5. OkMeansSettled'
  BY <1>1, <1>3, <1>4 DEF IInv, Still, OkMeansSettled
<1>6. Unsent' /\ Worked' /\ AnswerIsEarned'
  BY <1>1, <1>3 DEF IInv, Still, Unsent, Worked, AnswerIsEarned
<1>. QED  BY <1>2, <1>3, <1>5, <1>6 DEF IInv

\* Where everything is after one message moved.
LEMMA Moved ==
  ASSUME Types, NEW s \in Servers, NEW m \in Messages, NEW g \in Stages,
         stage' = [stage EXCEPT ![s][m] = g]
  PROVE  /\ stage' \in [Servers -> [Messages -> Stages]]
         /\ stage'[s][m] = g
         /\ \A t \in Servers, n \in Messages : t # s \/ n # m => stage'[t][n] = stage[t][n]
         /\ \A t \in Servers : t # s => /\ At(t, "queued")' = At(t, "queued")
                                      /\ InFlight(t)' = InFlight(t)
BY DEF Types, At, InFlight

\* A step that takes a message further which s has in flight.
LEMMA FlightStep ==
  ASSUME IInv, NEW s \in Servers, NEW m \in Messages,
         stage[s][m] \in {"handling", "replying"},
         NEW g \in {"replying", "done"}, stage' = [stage EXCEPT ![s][m] = g],
         UNCHANGED <<group, serve, ended, queue, call>>
  PROVE  /\ QueueIsFunction' /\ Lanes' /\ Unsent' /\ OkMeansSettled'
         /\ stage' \in [Servers -> [Messages -> Stages]]
         /\ stage'[s][m] = g
         /\ \A t \in Servers, n \in Messages : t # s \/ n # m => stage'[t][n] = stage[t][n]
<1>1. Types /\ QueueIsFunction /\ g \in Stages
  BY DEF IInv, Stages
<1>2. /\ stage' \in [Servers -> [Messages -> Stages]]
      /\ stage'[s][m] = g
      /\ \A t \in Servers, n \in Messages : t # s \/ n # m => stage'[t][n] = stage[t][n]
      /\ \A t \in Servers : t # s => /\ At(t, "queued")' = At(t, "queued")
                                   /\ InFlight(t)' = InFlight(t)
  BY <1>1, Moved
<1>3. At(s, "queued")' = At(s, "queued") /\ InFlight(s)' \subseteq InFlight(s)
  BY <1>2 DEF At, InFlight
<1>4. ASSUME NEW t \in Servers  PROVE QueueOnce(t)' /\ WithinLimit(t)'
  <2>1. At(t, "queued")' = At(t, "queued") /\ InFlight(t)' \subseteq InFlight(t)
    BY <1>2, <1>3
  <2>2. QueueOnce(t) /\ WithinLimit(t) /\ queue'[t] = queue[t]
    BY DEF IInv, Lanes
  <2>. QED  BY <1>1, <2>1, <2>2, SameLane
<1>5. Unsent'
  BY <1>2 DEF IInv, Unsent
<1>6. OkMeansSettled'
  BY <1>2 DEF IInv, OkMeansSettled
<1>. QED  BY <1>1, <1>2, <1>4, <1>5, <1>6 DEF Lanes, QueueIsFunction

LEMMA HandlerOkStep ==
  ASSUME IInv, NEW s \in Servers, NEW m \in Messages, HandlerOk(s, m)
  PROVE  IInv'
<1>1. PICK g \in {"replying", "done"} :
        stage' = [stage EXCEPT ![s][m] = g] /\ (g = "replying" => m \in Requests)
  BY DEF HandlerOk
<1>2. /\ stage[s][m] = "handling"
      /\ earned' = [r \in Requests |-> IF r = m THEN earned[r] \cup {s} ELSE earned[r]]
      /\ UNCHANGED <<group, serve, ended, queue, answers, call>>
  BY DEF HandlerOk
<1>3. /\ QueueIsFunction' /\ Lanes' /\ Unsent' /\ OkMeansSettled'
      /\ stage' \in [Servers -> [Messages -> Stages]]
      /\ stage'[s][m] = g
      /\ \A t \in Servers, n \in Messages : t # s \/ n # m => stage'[t][n] = stage[t][n]
  BY <1>1, <1>2, FlightStep
<1>4. /\ earned' \in [Requests -> SUBSET Servers]
      /\ \A r \in Requests : earned[r] \subseteq earned'[r]
      /\ m \in Requests => s \in earned'[m]
  BY <1>2 DEF IInv, Types
<1>5. Types'
  BY <1>2, <1>3, <1>4 DEF IInv, Types
<1>6. Worked'
  BY <1>1, <1>2, <1>3, <1>4 DEF IInv, Worked
<1>7. AnswerIsEarned'
  BY <1>2, <1>4 DEF IInv, AnswerIsEarned
<1>. QED  BY <1>3, <1>5, <1>6, <1>7 DEF IInv

LEMMA HandlerErrStep ==
  ASSUME IInv, NEW s \in Servers, NEW m \in Messages, HandlerErr(s, m)
  PROVE  IInv'
<1>1. /\ stage[s][m] = "handling" /\ stage' = [stage EXCEPT ![s][m] = "done"]
      /\ UNCHANGED <<group, serve, ended, queue, answers, call, earned>>
  BY DEF HandlerErr
<1>2. /\ QueueIsFunction' /\ Lanes' /\ Unsent' /\ OkMeansSettled'
      /\ stage' \in [Servers -> [Messages -> Stages]]
      /\ stage'[s][m] = "done"
      /\ \A t \in Servers, n \in Messages : t # s \/ n # m => stage'[t][n] = stage[t][n]
  BY <1>1, FlightStep
<1>3. Types' /\ Worked' /\ AnswerIsEarned'
  BY <1>1, <1>2 DEF IInv, Types, Worked, AnswerIsEarned
<1>. QED  BY <1>2, <1>3 DEF IInv

\* A reply that is published was earned by a server that could serve it.
LEMMA PublishReplyStep ==
  ASSUME IInv, NEW s \in Servers, NEW m \in Messages, PublishReply(s, m)
  PROVE  IInv'
<1>1. PICK reached \in SUBSET {s} : answers' = [answers EXCEPT ![m] = @ \cup reached]
  BY DEF PublishReply
<1>2. /\ stage[s][m] = "replying" /\ stage' = [stage EXCEPT ![s][m] = "done"]
      /\ UNCHANGED <<group, serve, ended, queue, call, earned>>
  BY DEF PublishReply
<1>3. /\ QueueIsFunction' /\ Lanes' /\ Unsent' /\ OkMeansSettled'
      /\ stage' \in [Servers -> [Messages -> Stages]]
      /\ stage'[s][m] = "done"
      /\ \A t \in Servers, n \in Messages : t # s \/ n # m => stage'[t][n] = stage[t][n]
  BY <1>2, FlightStep
<1>4. m \in Requests /\ s \in earned[m] /\ m \in Fits[s] \cap Decodes[s]
  BY <1>2 DEF IInv, Worked
<1>5. /\ answers' \in [Messages -> SUBSET Servers]
      /\ answers[m] \subseteq answers'[m] /\ answers'[m] \subseteq answers[m] \cup {s}
      /\ \A n \in Messages : n # m => answers'[n] = answers[n]
  BY <1>1 DEF IInv, Types
<1>6. Types' /\ Worked'
  BY <1>2, <1>3, <1>5 DEF IInv, Types, Worked
<1>7. AnswerIsEarned'
  BY <1>2, <1>4, <1>5 DEF IInv, AnswerIsEarned
<1>. QED  BY <1>3, <1>6, <1>7 DEF IInv

\* A message is taken only while the server has a slot for it.
LEMMA TakeStep ==
  ASSUME IInv, NEW s \in Servers, Take(s)
  PROVE  IInv'
<1>. DEFINE m == Head(queue[s])
            g == IF m \in Fits[s] \cap Decodes[s] THEN "handling" ELSE "done"
<1>1. /\ serve[s] = "serving" /\ queue[s] # <<>> /\ Polls(s)
      /\ stage' = [stage EXCEPT ![s][m] = g]
      /\ queue' = [queue EXCEPT ![s] = Tail(@)]
      /\ UNCHANGED <<group, serve, ended, answers, call, earned>>
  BY DEF Take
<1>2. Types /\ QueueIsFunction /\ \A t \in Servers : QueueOnce(t) /\ WithinLimit(t)
  BY DEF IInv, Lanes
<1>3. queue'[s] = Tail(queue[s]) /\ \A t \in Servers : t # s => queue'[t] = queue[t]
  BY <1>1, <1>2 DEF QueueIsFunction
<1>4. g \in Stages /\ g \in {"handling", "done"} /\ (g = "handling" => m \in Fits[s] \cap Decodes[s])
  BY DEF Stages
<1>5. m \in Messages /\ m \in At(s, "queued")
  <2>1. queue[s] \in Seq(Messages) /\ 1 \in 1..Len(queue[s]) /\ m = queue[s][1]
    BY <1>1, <1>2 DEF QueueOnce
  <2>2. queue[s][1] \in At(s, "queued")
    BY <1>2, <2>1 DEF QueueOnce
  <2>. QED  BY <2>1, <2>2 DEF At
<1>. HIDE DEF g
<1>6. /\ stage' \in [Servers -> [Messages -> Stages]]
      /\ stage'[s][m] = g
      /\ \A t \in Servers, n \in Messages : t # s \/ n # m => stage'[t][n] = stage[t][n]
      /\ \A t \in Servers : t # s => /\ At(t, "queued")' = At(t, "queued")
                                   /\ InFlight(t)' = InFlight(t)
  <2>. HIDE DEF m
  <2>. QED  BY <1>1, <1>2, <1>4, <1>5, Moved
<1>7. At(s, "queued")' = At(s, "queued") \ {m} /\ InFlight(s)' \subseteq InFlight(s) \cup {m}
  <2>. HIDE DEF m
  <2>. QED  BY <1>4, <1>5, <1>6 DEF At, InFlight
<1>8. QueueOnce(s)'
  BY <1>1, <1>2, <1>3, <1>7, TailLane
<1>. HIDE DEF m
<1>9. WithinLimit(s)'
  <2>. SUFFICES ASSUME Limit[s] # 0  PROVE Cardinality(InFlight(s)') <= Limit[s]
    BY DEF WithinLimit
  <2>1. Cardinality(InFlight(s)) < Limit[s] /\ Limit[s] \in Nat
    BY <1>1, ConfigType DEF Polls
  <2>2. InFlight(s) \in SUBSET Messages /\ m \notin InFlight(s)
    BY <1>5 DEF InFlight, At
  <2>3. InFlight(s) \cup {m} \in SUBSET Messages
    BY <1>5, <2>2
  <2>4. /\ IsFiniteSet(InFlight(s) \cup {m}) /\ Cardinality(InFlight(s)) \in Nat
        /\ Cardinality(InFlight(s) \cup {m}) = Cardinality(InFlight(s)) + 1
    BY <1>5, <2>2, <2>3, Counted, OneMore
  <2>5. InFlight(s)' \in SUBSET (InFlight(s) \cup {m})
    BY <1>7
  <2>6. Cardinality(InFlight(s)') <= Cardinality(InFlight(s) \cup {m})
    BY <2>4, <2>5, FS_Subset
  <2>7. Cardinality(InFlight(s)') \in Nat
    BY <2>4, <2>5, FS_Subset, FS_CardinalityType
  <2>. QED  BY <2>1, <2>4, <2>6, <2>7
<1>10. ASSUME NEW t \in Servers, t # s  PROVE QueueOnce(t)' /\ WithinLimit(t)'
  BY <1>2, <1>3, <1>6, <1>10, SameLane
<1>11. QueueIsFunction' /\ Lanes'
  BY <1>1, <1>2, <1>8, <1>9, <1>10 DEF Lanes, QueueIsFunction
<1>12. Types' /\ AnswerIsEarned'
  BY <1>1, <1>6 DEF IInv, Types, AnswerIsEarned
<1>13. stage[s][m] = "queued"
  BY <1>5 DEF At
<1>14. Unsent' /\ OkMeansSettled'
  BY <1>1, <1>5, <1>6, <1>13 DEF IInv, Unsent, OkMeansSettled
<1>15. Worked'
  BY <1>1, <1>4, <1>6 DEF IInv, Worked
<1>. QED  BY <1>11, <1>12, <1>14, <1>15 DEF IInv

\* The end of a call with all that it had.
LEMMA PerishStep ==
  ASSUME IInv, NEW s \in Servers, Perish(s)
  PROVE  IInv'
<1>1. Types /\ QueueIsFunction
  BY DEF IInv
<1>2. /\ serve' = [serve EXCEPT ![s] = "gone"] /\ queue' = [queue EXCEPT ![s] = <<>>]
      /\ UNCHANGED <<group, ended, answers, call, earned>>
  BY DEF Perish
<1>3. /\ stage' \in [Servers -> [Messages -> Stages]]
      /\ \A t \in Servers, n \in Messages : t # s => stage'[t][n] = stage[t][n]
      /\ \A n \in Messages :
           /\ stage'[s][n] \in {"away", "done", "lost"}
           /\ stage[s][n] = "away" => stage'[s][n] = "away"
  <2>1. stage' = [stage EXCEPT ![s] = [m \in Messages |->
                   IF stage[s][m] \in {"queued", "handling", "replying"} THEN "lost" ELSE stage[s][m]]]
    BY DEF Perish
  <2>. QED  BY <1>1, <2>1 DEF Types, Stages
<1>4. QueueOnce(s)' /\ WithinLimit(s)'
  <2>1. At(s, "queued")' = {} /\ InFlight(s)' = {} /\ queue'[s] = <<>>
    BY <1>1, <1>2, <1>3 DEF At, InFlight, QueueIsFunction
  <2>2. Cardinality({}) = 0 /\ Limit[s] \in Nat
    BY FS_EmptySet, ConfigType
  <2>3. QueueOnce(s)'
    <3>1. queue'[s] \in Seq(Messages) /\ Len(queue'[s]) = 0
      BY <2>1
    <3>2. Cardinality(At(s, "queued")') = 0
      BY <2>1, <2>2, Zenon
    <3>. QED  BY <2>1, <3>1, <3>2 DEF QueueOnce
  <2>4. WithinLimit(s)'
    BY <2>1, <2>2 DEF WithinLimit
  <2>. QED  BY <2>3, <2>4
<1>5. ASSUME NEW t \in Servers, t # s  PROVE QueueOnce(t)' /\ WithinLimit(t)'
  <2>1. At(t, "queued")' = At(t, "queued") /\ InFlight(t)' = InFlight(t) /\ queue'[t] = queue[t]
    BY <1>2, <1>3, <1>5 DEF At, InFlight
  <2>2. QueueOnce(t) /\ WithinLimit(t)
    BY DEF IInv, Lanes
  <2>. QED  BY <1>1, <2>1, <2>2, SameLane
<1>6. QueueIsFunction' /\ Lanes'
  BY <1>1, <1>2, <1>4, <1>5 DEF Lanes, QueueIsFunction
<1>7. Types' /\ AnswerIsEarned' /\ serve'[s] = "gone" /\ \A t \in Servers : t # s => serve'[t] = serve[t]
  BY <1>2, <1>3 DEF IInv, Types, AnswerIsEarned
<1>8. Unsent' /\ OkMeansSettled' /\ Worked'
  BY <1>2, <1>3, <1>7 DEF IInv, Unsent, OkMeansSettled, Worked
<1>. QED  BY <1>6, <1>7, <1>8 DEF IInv

\* A message reaches servers that never had it, at the end of their queues.
LEMMA SendStep ==
  ASSUME IInv, NEW m \in Messages, Send(m)
  PROVE  IInv'
<1>1. PICK to \in Deliveries :
        /\ queue' = [s \in Servers |-> IF s \in to THEN Append(queue[s], m) ELSE queue[s]]
        /\ stage' = [s \in Servers |-> IF s \in to THEN [stage[s] EXCEPT ![m] = "queued"] ELSE stage[s]]
  BY DEF Send
<1>2. /\ call[m] = "new" /\ call' = [call EXCEPT ![m] = IF m \in Requests THEN "sent" ELSE "ok"]
      /\ UNCHANGED <<group, serve, ended, answers, earned>>
  BY DEF Send
<1>3. Types /\ QueueIsFunction /\ \A s \in Servers : stage[s][m] = "away"
  BY <1>2 DEF IInv, Unsent
<1>4. \A s \in to : s \in Servers /\ serve[s] = "serving"
  BY DEF Deliveries, Live
<1>5. /\ stage' \in [Servers -> [Messages -> Stages]]
      /\ \A s \in to : stage'[s][m] = "queued" /\ \A n \in Messages : n # m => stage'[s][n] = stage[s][n]
      /\ \A s \in Servers \ to, n \in Messages : stage'[s][n] = stage[s][n]
  BY <1>1, <1>3, <1>4 DEF Types, Stages
<1>6. ASSUME NEW s \in Servers  PROVE QueueOnce(s)' /\ WithinLimit(s)'
  <2>1. QueueOnce(s) /\ WithinLimit(s)
    BY DEF IInv, Lanes
  <2>2. CASE s \notin to
    <3>1. At(s, "queued")' = At(s, "queued") /\ InFlight(s)' = InFlight(s) /\ queue'[s] = queue[s]
      BY <1>1, <1>5, <2>2 DEF At, InFlight
    <3>. QED  BY <1>3, <2>1, <3>1, SameLane
  <2>3. CASE s \in to
    <3>1. /\ At(s, "queued")' = At(s, "queued") \cup {m} /\ InFlight(s)' = InFlight(s)
          /\ m \notin At(s, "queued")
      BY <1>3, <1>5, <2>3 DEF At, InFlight
    <3>2. queue'[s] = Append(queue[s], m)
      BY <1>1, <2>3
    <3>3. QueueOnce(s)'
      BY <1>3, <2>1, <3>1, <3>2, LongerLane
    <3>4. WithinLimit(s)'
      BY <1>3, <2>1, <3>1, FewerInFlight
    <3>. QED  BY <3>3, <3>4
  <2>. QED  BY <2>2, <2>3
<1>7. QueueIsFunction' /\ Lanes'
  BY <1>1, <1>6 DEF Lanes, QueueIsFunction
<1>8. /\ call' \in [Messages -> {"new", "sent", "ok", "internal", "network"}]
      /\ call'[m] # "new" /\ (m \in Requests => call'[m] = "sent")
      /\ \A n \in Messages : n # m => call'[n] = call[n]
  BY <1>2, <1>3 DEF Types
<1>9. Types' /\ AnswerIsEarned'
  BY <1>2, <1>5, <1>8 DEF IInv, Types, AnswerIsEarned
<1>10. Unsent'
  BY <1>4, <1>5, <1>8 DEF IInv, Unsent
<1>11. ASSUME NEW s \in Servers, NEW n \in Messages
       PROVE  \/ stage'[s][n] = stage[s][n]
              \/ stage'[s][n] = "queued" /\ serve[s] = "serving"
  BY <1>4, <1>5
<1>12. OkMeansSettled'
  BY <1>2, <1>11 DEF IInv, OkMeansSettled
<1>13. Worked'
  BY <1>2, <1>11 DEF IInv, Worked
<1>. QED  BY <1>7, <1>9, <1>10, <1>12, <1>13 DEF IInv

\* What a caller of publish or request is told, short of sending.
LEMMA CallStep ==
  ASSUME IInv, NEW m \in Messages, SendFails(m) \/ Receive(m) \/ RequestFails(m)
  PROVE  IInv'
<1>1. /\ Still /\ serve' = serve /\ ended' = ended
      /\ \E r \in {"ok", "internal", "network"} :
           call' = [call EXCEPT ![m] = r] /\ (r = "ok" => answers[m] # {})
  BY DEF SendFails, Receive, RequestFails, Still
<1>2. QueueIsFunction' /\ Lanes'
  BY <1>1, StillLanes DEF Still
<1>3. /\ Types' /\ call'[m] # "new" /\ (call'[m] = "ok" => answers[m] # {})
      /\ \A n \in Messages : n # m => call'[n] = call[n]
  BY <1>1 DEF IInv, Types, Still
<1>4. Unsent' /\ Worked' /\ AnswerIsEarned' /\ OkMeansSettled'
  BY <1>1, <1>3 DEF IInv, Still, Unsent, Worked, AnswerIsEarned, OkMeansSettled
<1>. QED  BY <1>2, <1>3, <1>4 DEF IInv

LEMMA IInvStep ==
  ASSUME IInv, [Next]_vars
  PROVE  IInv'
<1>1. ASSUME NEW s \in Servers, Subscribe(s) \/ StreamEnds(s)  PROVE IInv'
  BY <1>1, ServeStep
<1>2. ASSUME NEW s \in Servers, Take(s)  PROVE IInv'
  BY <1>2, TakeStep
<1>3. ASSUME NEW s \in Servers, DropServe(s)  PROVE IInv'
  BY <1>3, PerishStep DEF DropServe
<1>4. ASSUME NEW s \in Servers, ServeReturns(s)  PROVE IInv'
  BY <1>4, ServeReturnsStep
<1>5. ASSUME NEW s \in Servers, NEW m \in Messages, HandlerEnds(s, m)  PROVE IInv'
  BY <1>5, HandlerOkStep, HandlerErrStep, PerishStep DEF HandlerEnds, HandlerPanics
<1>6. ASSUME NEW s \in Servers, NEW m \in Messages, PublishReply(s, m)  PROVE IInv'
  BY <1>6, PublishReplyStep
<1>7. ASSUME NEW m \in Messages, Send(m)  PROVE IInv'
  BY <1>7, SendStep
<1>8. ASSUME NEW m \in Messages, SendFails(m) \/ Receive(m) \/ RequestFails(m)  PROVE IInv'
  BY <1>8, CallStep
<1>9. CASE UNCHANGED vars
  <2>1. QueueIsFunction' /\ Lanes'
    BY <1>9, StillLanes DEF vars
  <2>2. Types' /\ Unsent' /\ Worked' /\ AnswerIsEarned' /\ OkMeansSettled'
    BY <1>9 DEF IInv, vars, Types, Unsent, Worked, AnswerIsEarned, OkMeansSettled
  <2>. QED  BY <2>1, <2>2 DEF IInv
<1>. QED  BY <1>1, <1>2, <1>3, <1>4, <1>5, <1>6, <1>7, <1>8, <1>9 DEF Next

-----------------------------------------------------------------------------
(* The theorems. *)

\* What the steps of servers and callers keep.
THEOREM Invariance == Spec => []IInv
<1>. QED  BY InitIInv, IInvStep, PTL DEF Spec

\* A server's queue is what is queued for it, once each, and what is in flight
\* stays within max_concurrency, for any limits (client.rs:263-266).
THEOREM TypeCorrect == Spec => []TypeOK
<1>. QED  BY InvariantHasTypes, Invariance, PTL

\* Only a request whose handler ended well is answered, by a server that it fits
\* and that could decode it, and request() returns Ok only then (client.rs:171-182).
THEOREM AnswersAreEarned == Spec => []AnswerIsEarned
<1>1. IInv => AnswerIsEarned  BY DEF IInv
<1>. QED  BY <1>1, Invariance, PTL

\* serve_request_reply returns Ok only when all that it was given was dealt with
\* (client.rs:184-185, 265-283).
THEOREM OkSettlesAll == Spec => []OkMeansSettled
<1>1. IInv => OkMeansSettled  BY DEF IInv
<1>. QED  BY <1>1, Invariance, PTL

\* A server that polls for no more messages has one in flight that ends, unless the
\* endless handlers alone fill its slots: the part of MessagesSettle that needs no
\* fairness (client.rs:263-266).
THEOREM FullServersHaveWork ==
  Spec => [](\A s \in Servers : Cardinality(Endless) < Limit[s] /\ ~Polls(s) =>
               \E m \in InFlight(s) : m \notin Endless)
<1>1. ASSUME NEW s \in Servers, Cardinality(Endless) < Limit[s], ~Polls(s),
             InFlight(s) \subseteq Endless
      PROVE  FALSE
  <2>1. IsFiniteSet(Endless) /\ Cardinality(Endless) \in Nat /\ Limit[s] \in Nat
    BY MessagesAreFinite, Counted, ConfigType
  <2>2. Cardinality(InFlight(s)) <= Cardinality(Endless) /\ Cardinality(InFlight(s)) \in Nat
    BY <1>1, <2>1, FS_Subset, FS_CardinalityType
  <2>. QED  BY <1>1, <2>1, <2>2 DEF Polls
<1>2. IInv => (\A s \in Servers : Cardinality(Endless) < Limit[s] /\ ~Polls(s) =>
                 \E m \in InFlight(s) : m \notin Endless)
  BY <1>1
<1>. QED  BY <1>2, Invariance, PTL

-----------------------------------------------------------------------------
(* Validation. *)

LEMMA BracketsAre ==
  ASSUME NEW d, NEW kind, NEW k
  PROVE  Brackets(d, kind, k) = Cardinality(Outside(d, kind, k))
BY DEF Brackets

\* A nonempty set of naturals has a least one.
LEMMA LeastOf ==
  ASSUME NEW S \in SUBSET Nat, S # {}
  PROVE  \E i \in S : \A j \in S : i <= j
<1>1. PICK i \in S : \A j \in S : ~(<<j, i>> \in OpToRel(<, Nat))
  BY NatLessThanWellFounded, WFMin
<1>2. \A j \in S : ~(j < i)
  BY <1>1 DEF OpToRel
<1>3. i \in Nat /\ \A j \in S : j \in Nat
  OBVIOUS
<1>. QED  BY <1>2, <1>3

-----------------------------------------------------------------------------
(* The literals of a document. *)

\* The backslashes right before k + 1, from those right before k.
LEMMA OneMoreByte ==
  ASSUME NEW d \in Seq(Bytes), NEW o \in Nat, NEW k \in Nat, o < k
  PROVE  /\ Backslashes(d, o, k) \in Nat
         /\ d[k] = "backslash" => Backslashes(d, o, k + 1) = Backslashes(d, o, k) + 1
         /\ d[k] # "backslash" => Backslashes(d, o, k + 1) = 0
<1>. DEFINE Run(l) == {i \in o + 1..l - 1 : \A j \in i..l - 1 : d[j] = "backslash"}
<1>1. IsFiniteSet(Run(k))
  <2>1. IsFiniteSet(o + 1..k - 1) /\ Run(k) \subseteq o + 1..k - 1
    BY FS_Interval
  <2>. QED  BY <2>1, FS_Subset
<1>2. ASSUME d[k] = "backslash"  PROVE Run(k + 1) = Run(k) \cup {k}
  <2>1. \A i \in Run(k) \cup {k} : i \in Run(k + 1)
    <3>1. \A i \in Run(k) : \A j \in i..k : j = k \/ j \in i..k - 1
      OBVIOUS
    <3>. QED  BY <1>2, <3>1
  <2>2. \A i \in Run(k + 1) : i \in Run(k) \cup {k}
    OBVIOUS
  <2>. QED  BY <2>1, <2>2
<1>3. k \notin Run(k)
  OBVIOUS
<1>4. ASSUME d[k] # "backslash"  PROVE Run(k + 1) = {}
  <2>1. \A i \in o + 1..k + 1 - 1 : k \in i..k + 1 - 1
    OBVIOUS
  <2>. QED  BY <1>4, <2>1
<1>5. Cardinality({}) = 0
  BY FS_EmptySet
<1>6. Cardinality(Run(k)) \in Nat
  BY <1>1, FS_CardinalityType
<1>7. /\ Backslashes(d, o, k) = Cardinality(Run(k))
      /\ Backslashes(d, o, k + 1) = Cardinality(Run(k + 1))
  BY DEF Backslashes
<1>. HIDE DEF Run
<1>8. Cardinality(Run(k) \cup {k}) = Cardinality(Run(k)) + 1
  BY <1>1, <1>3, FS_AddElement
<1>. QED  BY <1>2, <1>4, <1>5, <1>6, <1>7, <1>8

LEMMA NoByteYet ==
  ASSUME NEW d \in Seq(Bytes), NEW o \in Nat
  PROVE  Backslashes(d, o, o + 1) = 0
<1>. DEFINE Run == {i \in o + 1..o + 1 - 1 : \A j \in i..o + 1 - 1 : d[j] = "backslash"}
<1>1. Run = {}
  OBVIOUS
<1>2. Backslashes(d, o, o + 1) = Cardinality(Run)
  BY DEF Backslashes
<1>. HIDE DEF Run
<1>. QED  BY <1>1, <1>2, FS_EmptySet

LEMMA Parity == \A a \in Nat : (a + 1) % 2 = 0 <=> a % 2 # 0
OBVIOUS

\* A literal goes on over every byte but its end.
LEMMA WithinGoesOn ==
  ASSUME NEW d \in Seq(Bytes), NEW o \in Nat, NEW k \in Nat, o <= k
  PROVE  Within(d, o, k + 1) <=> Within(d, o, k) /\ k \notin Ends(d, o)
BY DEF Within, Ends

LEMMA WithinEarlier ==
  ASSUME NEW d \in Seq(Bytes), NEW o \in Nat, NEW k \in Nat, NEW l \in Nat,
         o <= k, k <= l, Within(d, o, l)
  PROVE  Within(d, o, k)
BY DEF Within, Ends

\* Every document has its openings, found one quote after the other.
LEMMA OpeningsExist ==
  ASSUME NEW d \in Seq(Bytes)
  PROVE  \E opens \in SUBSET Quotes(d) : AreOpenings(d, opens)
<1>. DEFINE Free(O, k) == \A o \in O : o < k => ~Within(d, o, k)
            UpTo(m) == \E O \in SUBSET Quotes(d) :
                         /\ \A o \in O : o <= m
                         /\ \A k \in Quotes(d) : k <= m => (k \in O <=> Free(O, k))
            Missing == {m \in Nat : ~UpTo(m)}
<1>1. UpTo(0)
  <2>1. \A k \in Quotes(d) : ~(k <= 0)
    BY DEF Quotes
  <2>. QED  BY <2>1
<1>2. ASSUME NEW m \in Nat, UpTo(m)  PROVE UpTo(m + 1)
  <2>1. PICK O \in SUBSET Quotes(d) :
               /\ \A o \in O : o <= m
               /\ \A k \in Quotes(d) : k <= m => (k \in O <=> Free(O, k))
    BY <1>2
  <2>2. \A k \in Quotes(d) : k \in Nat /\ (k <= m + 1 <=> k <= m \/ k = m + 1)
    BY DEF Quotes
  <2>. DEFINE P == O \cup {k \in Quotes(d) : k = m + 1 /\ Free(O, k)}
  <2>3. P \in SUBSET Quotes(d) /\ \A o \in P : o <= m + 1
    BY <2>1, <2>2
  <2>4. ASSUME NEW k \in Quotes(d), k <= m + 1  PROVE Free(P, k) <=> Free(O, k)
    <3>1. \A o \in P : o \in O \/ ~(o < k)
      BY <2>2, <2>4
    <3>. QED  BY <3>1
  <2>5. ASSUME NEW k \in Quotes(d), k <= m + 1  PROVE k \in P <=> Free(O, k)
    <3>1. CASE k <= m
      <4>1. k # m + 1
        BY <2>2, <3>1
      <4>. QED  BY <2>1, <3>1, <4>1
    <3>2. CASE k = m + 1
      <4>1. k \notin O
        BY <2>1, <3>2
      <4>. QED  BY <3>2, <4>1
    <3>. QED  BY <2>2, <2>5, <3>1, <3>2
  <2>. HIDE DEF P, Free
  <2>6. \A k \in Quotes(d) : k <= m + 1 => (k \in P <=> Free(P, k))
    BY <2>4, <2>5
  <2>. QED  BY <2>3, <2>6
<1>. HIDE DEF UpTo
<1>3. Missing = {}
  <2>. SUFFICES ASSUME Missing # {}  PROVE FALSE
    OBVIOUS
  <2>1. PICK m \in Missing : \A l \in Missing : m <= l
    BY LeastOf
  <2>2. m # 0 /\ m - 1 \in Nat /\ m - 1 \notin Missing
    BY <1>1, <2>1
  <2>3. UpTo(m - 1 + 1)
    BY <1>2, <2>2
  <2>. QED  BY <2>1, <2>3
<1>4. UpTo(Len(d))
  BY <1>3
<1>5. \A k \in Quotes(d) : k <= Len(d)
  BY DEF Quotes
<1>. QED  BY <1>4, <1>5 DEF UpTo, AreOpenings

LEMMA OpeningsAre ==
  ASSUME NEW d \in Seq(Bytes)
  PROVE  Openings(d) \in SUBSET Quotes(d) /\ AreOpenings(d, Openings(d))
BY OpeningsExist DEF Openings

\* Two literals do not overlap.
LEMMA LiteralsAreApart ==
  ASSUME NEW d \in Seq(Bytes), NEW o \in Openings(d), NEW p \in Openings(d), NEW k \in Nat,
         Within(d, o, k), Within(d, p, k)
  PROVE  o = p
<1>1. o \in Quotes(d) /\ p \in Quotes(d) /\ o \in Nat /\ p \in Nat /\ o <= k /\ p <= k
  BY OpeningsAre DEF Quotes, Within
<1>2. ASSUME NEW a \in Openings(d), NEW b \in Openings(d), a \in Nat, b \in Nat,
             b \in Quotes(d), a < b, b <= k, Within(d, a, k)
      PROVE  FALSE
  <2>1. Within(d, a, b)
    BY <1>2, WithinEarlier
  <2>. QED  BY <1>2, <2>1, OpeningsAre DEF AreOpenings
<1>. QED  BY <1>1, <1>2

\* The byte after position p belongs to the literal that opened at o.
Covers(d, o, p) == o <= p /\ Within(d, o, p + 1)

\* That byte is escaped there.
Escapes(d, o, p) == Covers(d, o, p) /\ Backslashes(d, o, p + 1) % 2 # 0

LEMMA OneCovers ==
  ASSUME NEW d \in Seq(Bytes), NEW o \in Openings(d), NEW q \in Openings(d), NEW p \in Nat,
         Covers(d, o, p), Covers(d, q, p)
  PROVE  o = q
BY LiteralsAreApart, p + 1 \in Nat DEF Covers

\* Inside a literal: every byte but an unescaped quote leaves the scan in it.
LEMMA InsideNext ==
  ASSUME NEW d \in Seq(Bytes), NEW p \in Nat, p < Len(d), NEW o \in Openings(d), Covers(d, o, p)
  PROVE  /\ ~Escapes(d, o, p) /\ d[p + 1] = "quote" =>
              \A q \in Openings(d) : ~Covers(d, q, p + 1)
         /\ Escapes(d, o, p) \/ d[p + 1] # "quote" =>
              /\ Covers(d, o, p + 1)
              /\ Escapes(d, o, p + 1) <=> ~Escapes(d, o, p) /\ d[p + 1] = "backslash"
<1>1. /\ o \in Quotes(d) /\ o \in Nat /\ o <= p /\ o < p + 1 /\ Within(d, o, p + 1)
      /\ p + 1 \in Nat /\ p + 1 \in o + 1..Len(d)
  BY OpeningsAre DEF Covers, Quotes
<1>2. p + 1 \in Ends(d, o) <=> d[p + 1] = "quote" /\ ~Escapes(d, o, p)
  <2>1. p + 1 \in Ends(d, o) <=> d[p + 1] = "quote" /\ Backslashes(d, o, p + 1) % 2 = 0
    BY <1>1 DEF Ends
  <2>. QED  BY <2>1 DEF Escapes
<1>3. ASSUME ~Escapes(d, o, p), d[p + 1] = "quote", NEW q \in Openings(d), Covers(d, q, p + 1)
      PROVE  FALSE
  <2>1. q \in Quotes(d) /\ q \in Nat /\ q <= p + 1 /\ Within(d, q, p + 1 + 1)
    BY <1>3, OpeningsAre DEF Covers, Quotes
  <2>2. Within(d, q, p + 1)
    BY <1>1, <2>1, WithinEarlier
  <2>3. q = o
    BY <1>1, <2>2, LiteralsAreApart
  <2>. QED  BY <1>1, <1>2, <1>3, <2>1, <2>3, WithinGoesOn
<1>4. ASSUME Escapes(d, o, p) \/ d[p + 1] # "quote"
      PROVE  /\ Covers(d, o, p + 1)
             /\ Escapes(d, o, p + 1) <=> ~Escapes(d, o, p) /\ d[p + 1] = "backslash"
  <2>1. o <= p + 1 /\ Within(d, o, p + 1 + 1)
    <3>1. o <= p + 1 /\ p + 1 \notin Ends(d, o)
      BY <1>1, <1>2, <1>4
    <3>. QED  BY <1>1, <3>1, WithinGoesOn
  <2>2. Covers(d, o, p + 1)
    BY <2>1 DEF Covers
  <2>3. Escapes(d, o, p + 1) <=> Backslashes(d, o, p + 1 + 1) % 2 # 0
    BY <2>2 DEF Escapes
  <2>4. Escapes(d, o, p) <=> Backslashes(d, o, p + 1) % 2 # 0
    BY DEF Escapes
  <2>5. /\ Backslashes(d, o, p + 1) \in Nat
        /\ d[p + 1] = "backslash" => Backslashes(d, o, p + 1 + 1) = Backslashes(d, o, p + 1) + 1
        /\ d[p + 1] # "backslash" => Backslashes(d, o, p + 1 + 1) = 0
    BY <1>1, OneMoreByte
  <2>6. 0 % 2 = 0
    OBVIOUS
  <2>7. d[p + 1] = "backslash" => (Backslashes(d, o, p + 1 + 1) % 2 # 0 <=> ~Escapes(d, o, p))
    BY <2>4, <2>5, Parity
  <2>. QED  BY <2>2, <2>3, <2>5, <2>6, <2>7
<1>. QED  BY <1>3, <1>4

\* Outside of every literal: a quote opens one.
LEMMA OutsideNext ==
  ASSUME NEW d \in Seq(Bytes), NEW p \in Nat, p < Len(d),
         \A q \in Openings(d) : ~Covers(d, q, p)
  PROVE  /\ d[p + 1] = "quote" =>
              /\ p + 1 \in Openings(d)
              /\ Covers(d, p + 1, p + 1) /\ ~Escapes(d, p + 1, p + 1)
         /\ d[p + 1] # "quote" => \A q \in Openings(d) : ~Covers(d, q, p + 1)
<1>1. p + 1 \in Nat /\ p + 1 \in 1..Len(d)
  OBVIOUS
<1>2. ASSUME d[p + 1] = "quote"
      PROVE  p + 1 \in Openings(d) /\ Covers(d, p + 1, p + 1) /\ ~Escapes(d, p + 1, p + 1)
  <2>1. p + 1 \in Quotes(d)
    BY <1>1, <1>2 DEF Quotes
  <2>2. \A q \in Openings(d) : q < p + 1 => q <= p
    BY OpeningsAre DEF Quotes
  <2>3. \A q \in Openings(d) : q < p + 1 => ~Within(d, q, p + 1)
    BY <2>2 DEF Covers
  <2>4. p + 1 \in Openings(d)
    BY <2>1, <2>3, OpeningsAre DEF AreOpenings
  <2>5. Covers(d, p + 1, p + 1)
    <3>1. \A end \in Ends(d, p + 1) : p + 1 + 1 <= end
      BY DEF Ends
    <3>2. p + 1 <= p + 1 /\ p + 1 <= p + 1 + 1
      OBVIOUS
    <3>. QED  BY <3>1, <3>2 DEF Covers, Within
  <2>6. Backslashes(d, p + 1, p + 1 + 1) = 0 /\ 0 % 2 = 0
    BY <1>1, NoByteYet
  <2>. QED  BY <2>4, <2>5, <2>6 DEF Escapes
<1>3. ASSUME d[p + 1] # "quote", NEW q \in Openings(d), Covers(d, q, p + 1)
      PROVE  FALSE
  <2>1. q \in Quotes(d) /\ q \in Nat /\ q # p + 1 /\ q <= p + 1 /\ Within(d, q, p + 1 + 1)
    BY <1>3, OpeningsAre DEF Covers, Quotes
  <2>2. q <= p /\ Within(d, q, p + 1)
    BY <1>1, <2>1, WithinEarlier
  <2>. QED  BY <2>2 DEF Covers
<1>. QED  BY <1>2, <1>3

-----------------------------------------------------------------------------
(* The brackets of a document. *)

LEMMA Hidden ==
  ASSUME NEW d \in Seq(Bytes), NEW p \in Nat, p < Len(d), d[p + 1] # "quote"
  PROVE  p + 1 \in InLiteral(d) <=> \E o \in Openings(d) : Covers(d, o, p)
<1>1. \A o \in Openings(d) : o \in Nat /\ o # p + 1
  BY OpeningsAre DEF Quotes
<1>2. \A o \in Openings(d) : Within(d, o, p + 1) => o <= p
  BY <1>1 DEF Within
<1>3. p + 1 \in 1..Len(d)
  OBVIOUS
<1>4. p + 1 \in InLiteral(d) <=> \E o \in Openings(d) : Within(d, o, p + 1)
  BY <1>3 DEF InLiteral
<1>. QED  BY <1>2, <1>4 DEF Covers

LEMMA BracketsNext ==
  ASSUME NEW d \in Seq(Bytes), NEW p \in Nat, p < Len(d), NEW kind \in {"open", "close"}
  PROVE  /\ Brackets(d, kind, p) \in Nat
         /\ d[p + 1] = kind /\ p + 1 \notin InLiteral(d) =>
              Brackets(d, kind, p + 1) = Brackets(d, kind, p) + 1
         /\ d[p + 1] # kind \/ p + 1 \in InLiteral(d) =>
              Brackets(d, kind, p + 1) = Brackets(d, kind, p)
<1>1. IsFiniteSet(Outside(d, kind, p))
  <2>1. IsFiniteSet(1..p) /\ Outside(d, kind, p) \subseteq 1..p
    BY FS_Interval DEF Outside
  <2>. QED  BY <2>1, FS_Subset
<1>2. p + 1 \notin Outside(d, kind, p)
  BY DEF Outside
<1>3. \A i : i \in 1..p + 1 <=> i \in 1..p \/ i = p + 1
  OBVIOUS
<1>4. d[p + 1] = kind /\ p + 1 \notin InLiteral(d) =>
        Outside(d, kind, p + 1) = Outside(d, kind, p) \cup {p + 1}
  BY <1>3 DEF Outside
<1>5. d[p + 1] # kind \/ p + 1 \in InLiteral(d) => Outside(d, kind, p + 1) = Outside(d, kind, p)
  BY <1>3 DEF Outside
<1>6. /\ Cardinality(Outside(d, kind, p)) \in Nat
      /\ Cardinality(Outside(d, kind, p) \cup {p + 1}) = Cardinality(Outside(d, kind, p)) + 1
  BY <1>1, <1>2, FS_CardinalityType, FS_AddElement
<1>. QED  BY <1>4, <1>5, <1>6, BracketsAre

LEMMA NoBracketYet ==
  ASSUME NEW d \in Seq(Bytes), NEW kind  PROVE Brackets(d, kind, 0) = 0
<1>1. Outside(d, kind, 0) = {}
  BY DEF Outside
<1>. QED  BY <1>1, FS_EmptySet, BracketsAre

\* What a document deserves, case by case.
LEMMA Verdicts ==
  ASSUME NEW d \in Seq(Bytes), NEW max, MaxBody \in Nat
  PROVE  /\ Len(d) > MaxBody => Deserved(d, max) = "too large"
         /\ \A k \in Bad(d, max) :
              (\A l \in Bad(d, max) : k <= l) /\ ~(Len(d) > MaxBody) =>
                Deserved(d, max) =
                  IF Broken(d, k) THEN "unmatched closing bracket" ELSE "too deep"
         /\ Bad(d, max) = {} /\ ~(Len(d) > MaxBody) =>
              Deserved(d, max) =
                IF Unterminated(d) THEN "unterminated string"
                ELSE IF Deeper(d, Len(d), 0) THEN "unmatched opening bracket" ELSE "valid"
<1>. DEFINE bad == Bad(d, max)
            first == CHOOSE k \in bad : \A l \in bad : k <= l
<1>1. Len(d) > MaxBody <=> ~(Len(d) <= MaxBody)
  OBVIOUS
<1>2. Deserved(d, max) =
        CASE Len(d) > MaxBody -> "too large"
          [] Len(d) <= MaxBody /\ bad # {} ->
               IF Broken(d, first) THEN "unmatched closing bracket" ELSE "too deep"
          [] Len(d) <= MaxBody /\ bad = {} /\ Unterminated(d) -> "unterminated string"
          [] Len(d) <= MaxBody /\ bad = {} /\ ~Unterminated(d) ->
               IF Deeper(d, Len(d), 0) THEN "unmatched opening bracket" ELSE "valid"
  BY DEF Deserved
<1>3. ASSUME NEW k \in bad, \A l \in bad : k <= l  PROVE first = k
  <2>1. first \in bad /\ \A l \in bad : first <= l
    BY <1>3
  <2>2. bad \subseteq Nat
    BY DEF Bad
  <2>. HIDE DEF first, bad
  <2>3. first \in Nat /\ k \in Nat /\ first <= k /\ k <= first
    BY <1>3, <2>1, <2>2
  <2>. QED  BY <2>3
<1>. HIDE DEF first, bad
<1>4. ASSUME Len(d) > MaxBody  PROVE Deserved(d, max) = "too large"
  BY <1>1, <1>2, <1>4
<1>5. ASSUME NEW k \in bad, \A l \in bad : k <= l, ~(Len(d) > MaxBody)
      PROVE  Deserved(d, max) = IF Broken(d, k) THEN "unmatched closing bracket" ELSE "too deep"
  BY <1>1, <1>2, <1>3, <1>5
<1>6. ASSUME bad = {}, ~(Len(d) > MaxBody)
      PROVE  Deserved(d, max) =
               IF Unterminated(d) THEN "unterminated string"
               ELSE IF Deeper(d, Len(d), 0) THEN "unmatched opening bracket" ELSE "valid"
  BY <1>1, <1>2, <1>6
<1>. QED  BY <1>4, <1>5, <1>6 DEF bad

-----------------------------------------------------------------------------
(* The inductive invariant: what the scan knows of the bytes behind it.       *)

Strings ==
  /\ inside_string <=> \E o \in Openings(data) : Covers(data, o, position)
  /\ escaped <=> \E o \in Openings(data) : Escapes(data, o, position)

NoFault(k) == ~Deeper(data, k, max_depth) /\ ~Broken(data, k)

Nesting ==
  /\ current_depth <= max_depth
  /\ Brackets(data, "open", position) = Brackets(data, "close", position) + current_depth

NothingBehind == \A k \in 1..position : NoFault(k)

ScanTypes ==
  /\ data \in Seq(Bytes) /\ MaxBody \in Nat /\ max_depth \in Nat
  /\ position \in 0..Len(data) /\ current_depth \in Nat
  /\ inside_string \in BOOLEAN /\ escaped \in BOOLEAN

ScanInv ==
  /\ ScanTypes
  /\ result = "none" => position = 0 /\ current_depth = 0 /\ inside_string = FALSE /\ escaped = FALSE
  /\ result = "scanning" => Len(data) <= MaxBody /\ Strings /\ Nesting /\ NothingBehind
  /\ VerdictIsRight

LEMMA StartStep ==
  ASSUME ScanInv, CheckSize
  PROVE  ScanInv'
<1>1. /\ ScanTypes' /\ result' # "none" /\ position = 0
      /\ UNCHANGED <<data, max_depth, position, current_depth, inside_string, escaped>>
  BY DEF ScanInv, CheckSize, ScanTypes
<1>2. CASE Len(data) > MaxBody
  <2>1. result' = "too large" /\ Deserved(data, max_depth) = "too large"
    BY <1>2, Verdicts DEF CheckSize, ScanInv, ScanTypes
  <2>. QED  BY <1>1, <2>1 DEF ScanInv, VerdictIsRight, StopsAtOnce
<1>3. CASE ~(Len(data) > MaxBody)
  <2>1. result' = "scanning" /\ Len(data) <= MaxBody
    BY <1>3 DEF CheckSize, ScanInv, ScanTypes
  <2>2. \A o \in Openings(data) : ~Covers(data, o, 0)
    BY OpeningsAre DEF ScanInv, ScanTypes, Covers, Quotes
  <2>3. Strings'
    <3>1. inside_string' = FALSE /\ escaped' = FALSE /\ position' = 0 /\ data' = data
      BY <1>1 DEF ScanInv, CheckSize
    <3>. QED  BY <2>2, <3>1 DEF Strings, Escapes
  <2>4. Nesting'
    <3>1. Brackets(data, "open", 0) = 0 /\ Brackets(data, "close", 0) = 0
      BY NoBracketYet DEF ScanInv, ScanTypes
    <3>2. current_depth' = 0 /\ position' = 0 /\ max_depth \in Nat /\ data' = data /\ max_depth' = max_depth
      BY <1>1 DEF ScanInv, ScanTypes, CheckSize
    <3>. QED  BY <3>1, <3>2 DEF Nesting
  <2>5. NothingBehind'
    BY <1>1 DEF NothingBehind
  <2>6. VerdictIsRight'
    BY <1>1, <2>1 DEF VerdictIsRight, StopsAtOnce
  <2>. QED  BY <1>1, <2>1, <2>3, <2>4, <2>5, <2>6 DEF ScanInv
<1>. QED  BY <1>2, <1>3

\* How the flags follow the literals.
LEMMA StringsStep ==
  ASSUME ScanTypes, Strings, position < Len(data), data' = data, position' = position + 1,
         inside_string => /\ escaped' = (~escaped /\ data[position + 1] = "backslash")
                          /\ inside_string' = (escaped \/ data[position + 1] # "quote"),
         ~inside_string => /\ escaped' = escaped
                           /\ inside_string' = (data[position + 1] = "quote")
  PROVE  Strings'
<1>. DEFINE b == data[position + 1]
<1>1. data \in Seq(Bytes) /\ position \in Nat
  BY DEF ScanTypes
<1>2. /\ Strings' <=> /\ inside_string' <=> \E o \in Openings(data) : Covers(data, o, position + 1)
                      /\ escaped' <=> \E o \in Openings(data) : Escapes(data, o, position + 1)
      /\ \A o \in Openings(data), k \in Nat : Escapes(data, o, k) => Covers(data, o, k)
  BY DEF Strings, Escapes
<1>3. CASE inside_string
  <2>1. PICK o \in Openings(data) : Covers(data, o, position)
    BY <1>3 DEF Strings
  <2>2. escaped <=> Escapes(data, o, position)
    BY <1>1, <1>2, <2>1, OneCovers DEF Strings
  <2>3. CASE ~escaped /\ b = "quote"
    <3>1. \A q \in Openings(data) : ~Covers(data, q, position + 1)
      BY <1>1, <2>1, <2>2, <2>3, InsideNext
    <3>2. ~\E q \in Openings(data) : Escapes(data, q, position + 1)
      BY <1>1, <1>2, <3>1
    <3>3. b # "backslash" /\ ~inside_string' /\ ~escaped'
      BY <1>3, <2>3
    <3>. QED  BY <1>2, <3>1, <3>2, <3>3
  <2>4. CASE escaped \/ b # "quote"
    <3>1. /\ Covers(data, o, position + 1)
          /\ Escapes(data, o, position + 1) <=> ~Escapes(data, o, position) /\ b = "backslash"
      BY <1>1, <2>1, <2>2, <2>4, InsideNext
    <3>2. (\E q \in Openings(data) : Escapes(data, q, position + 1)) <=> Escapes(data, o, position + 1)
      BY <1>1, <1>2, <3>1, OneCovers
    <3>. QED  BY <1>2, <1>3, <2>2, <2>4, <3>1, <3>2
  <2>. QED  BY <2>3, <2>4
<1>4. CASE ~inside_string
  <2>1. (\A q \in Openings(data) : ~Covers(data, q, position)) /\ ~escaped /\ ~escaped'
    BY <1>1, <1>2, <1>4 DEF Strings
  <2>2. CASE b = "quote"
    <3>1. /\ position + 1 \in Openings(data) /\ Covers(data, position + 1, position + 1)
          /\ ~Escapes(data, position + 1, position + 1)
      BY <1>1, <2>1, <2>2, OutsideNext
    <3>2. ~\E q \in Openings(data) : Escapes(data, q, position + 1)
      BY <1>1, <1>2, <3>1, OneCovers
    <3>. QED  BY <1>2, <1>4, <2>1, <2>2, <3>1, <3>2
  <2>3. CASE b # "quote"
    <3>1. \A q \in Openings(data) : ~Covers(data, q, position + 1)
      BY <1>1, <2>1, <2>3, OutsideNext
    <3>2. ~\E q \in Openings(data) : Escapes(data, q, position + 1)
      BY <1>1, <1>2, <3>1
    <3>3. ~inside_string' /\ ~escaped'
      BY <1>4, <2>1, <2>3
    <3>. QED  BY <1>2, <3>1, <3>2, <3>3
  <2>. QED  BY <2>2, <2>3
<1>. QED  BY <1>3, <1>4

\* What the next byte adds to either side of the account.
LEMMA NextBracket ==
  ASSUME ScanTypes, Strings, position < Len(data), NEW kind \in {"open", "close"}
  PROVE  /\ Brackets(data, kind, position) \in Nat
         /\ Brackets(data, kind, position + 1) =
              IF data[position + 1] = kind /\ ~inside_string
              THEN Brackets(data, kind, position) + 1 ELSE Brackets(data, kind, position)
<1>1. data \in Seq(Bytes) /\ position \in Nat
  BY DEF ScanTypes
<1>2. data[position + 1] = kind => (position + 1 \in InLiteral(data) <=> inside_string)
  BY <1>1, Hidden DEF Strings
<1>. QED  BY <1>1, <1>2, BracketsNext

\* The first fault of the document, if the scan stops there.
LEMMA StopsAtFirst ==
  ASSUME ScanTypes, NothingBehind, Len(data) <= MaxBody, position < Len(data), ~NoFault(position + 1)
  PROVE  Deserved(data, max_depth) =
           IF Broken(data, position + 1) THEN "unmatched closing bracket" ELSE "too deep"
<1>1. position + 1 \in Bad(data, max_depth)
  BY DEF ScanTypes, Bad, NoFault
<1>2. \A l \in Bad(data, max_depth) : l \in Nat /\ ~(l \in 1..position)
  BY DEF Bad, NothingBehind, NoFault
<1>3. \A l \in Bad(data, max_depth) : position + 1 <= l
  BY <1>2 DEF ScanTypes, Bad
<1>4. ~(Len(data) > MaxBody) /\ MaxBody \in Nat /\ data \in Seq(Bytes)
  BY DEF ScanTypes
<1>. QED  BY <1>1, <1>3, <1>4, Verdicts

LEMMA ScanStep ==
  ASSUME ScanInv, Scan
  PROVE  ScanInv'
<1>. DEFINE b == data[position + 1]
            opened == Brackets(data, "open", position)
            closed == Brackets(data, "close", position)
<1>1. /\ ScanTypes /\ Strings /\ Nesting /\ NothingBehind /\ Len(data) <= MaxBody
      /\ position < Len(data) /\ position' = position + 1
      /\ data' = data /\ max_depth' = max_depth /\ result = "scanning"
  BY DEF ScanInv, Scan
<1>2. /\ position \in Nat /\ position + 1 \in 0..Len(data) /\ b \in Bytes
      /\ current_depth \in Nat /\ max_depth \in Nat /\ opened \in Nat /\ closed \in Nat
      /\ current_depth <= max_depth /\ opened = closed + current_depth
  BY <1>1, NextBracket DEF ScanTypes, Nesting
<1>3. /\ inside_string => InString(b)
      /\ ~inside_string => OpenQuote(b) \/ Open(b) \/ Close(b) \/ Skip(b)
  BY <1>1 DEF Scan
<1>4. Strings'
  <2>1. inside_string => /\ escaped' = (~escaped /\ b = "backslash")
                         /\ inside_string' = (escaped \/ b # "quote")
    BY <1>3 DEF InString
  <2>2. ~inside_string => escaped' = escaped /\ inside_string' = (b = "quote")
    BY <1>1, <1>3 DEF OpenQuote, Open, Close, Skip, ScanTypes
  <2>. HIDE DEF b
  <2>. QED  BY <1>1, <2>1, <2>2, StringsStep DEF b
<1>5. /\ Brackets(data, "open", position + 1) = IF b = "open" /\ ~inside_string THEN opened + 1 ELSE opened
      /\ Brackets(data, "close", position + 1) = IF b = "close" /\ ~inside_string THEN closed + 1 ELSE closed
  BY <1>1, NextBracket
<1>. HIDE DEF b, opened, closed
<1>6. ScanTypes'
  <2>1. inside_string' \in BOOLEAN /\ escaped' \in BOOLEAN
    <3>1. CASE inside_string
      BY <1>3, <3>1 DEF InString
    <3>2. CASE ~inside_string
      <4>1. inside_string' \in {TRUE, inside_string} /\ escaped' = escaped
        BY <1>3, <3>2 DEF OpenQuote, Open, Close, Skip
      <4>. QED  BY <1>1, <4>1 DEF ScanTypes
    <3>. QED  BY <3>1, <3>2
  <2>2. current_depth' \in Nat
    <3>1. \/ current_depth' \in {current_depth, current_depth + 1}
          \/ current_depth # 0 /\ current_depth' = current_depth - 1
      BY <1>3 DEF InString, OpenQuote, Open, Close, Skip
    <3>. QED  BY <1>2, <3>1
  <2>. QED  BY <1>1, <1>2, <2>1, <2>2 DEF ScanTypes
<1>7. StopsAtOnce'
  <2>1. \A k \in 1..position' - 1 : k \in 1..position
    BY <1>1, <1>2
  <2>. QED  BY <1>1, <2>1 DEF StopsAtOnce, NothingBehind, NoFault
<1>8. ASSUME Nesting', NoFault(position + 1), result' = "scanning"  PROVE ScanInv'
  <2>1. NothingBehind'
    <3>1. \A k \in 1..position' : k \in 1..position \/ k = position + 1
      BY <1>1, <1>2
    <3>. QED  BY <1>1, <1>8, <3>1 DEF NothingBehind, NoFault
  <2>. QED  BY <1>1, <1>4, <1>6, <1>7, <1>8, <2>1 DEF ScanInv, VerdictIsRight
<1>9. ASSUME ~NoFault(position + 1),
             result' = IF Broken(data, position + 1) THEN "unmatched closing bracket" ELSE "too deep"
      PROVE  ScanInv'
  <2>1. Deserved(data', max_depth') = result'
    BY <1>1, <1>9, StopsAtFirst
  <2>2. result' \notin {"none", "scanning", "ok", "deserialization failed"}
    BY <1>9
  <2>. QED  BY <1>6, <1>7, <2>1, <2>2 DEF ScanInv, VerdictIsRight
<1>10. CASE inside_string \/ b \notin {"open", "close"}
  <2>1. current_depth' = current_depth /\ result' = "scanning"
    BY <1>1, <1>3, <1>10 DEF InString, OpenQuote, Open, Close, Skip
  <2>2. Brackets(data, "open", position + 1) = opened /\ Brackets(data, "close", position + 1) = closed
    BY <1>5, <1>10
  <2>3. Nesting'
    BY <1>1, <1>2, <2>1, <2>2 DEF Nesting
  <2>4. NoFault(position + 1)
    BY <1>2, <2>2 DEF NoFault, Deeper, Broken
  <2>. QED  BY <1>8, <2>1, <2>3, <2>4
<1>11. CASE ~inside_string /\ b = "open"
  <2>1. Brackets(data, "open", position + 1) = opened + 1 /\ Brackets(data, "close", position + 1) = closed
    BY <1>5, <1>11
  <2>2. /\ current_depth' = current_depth + 1
        /\ result' = IF current_depth + 1 > max_depth THEN "too deep" ELSE "scanning"
    BY <1>3, <1>11 DEF OpenQuote, Open, Close, Skip
  <2>3. /\ ~Broken(data, position + 1)
        /\ NoFault(position + 1) <=> ~(current_depth + 1 > max_depth)
    BY <1>2, <2>1 DEF NoFault, Deeper, Broken
  <2>4. CASE current_depth + 1 > max_depth
    BY <1>9, <2>2, <2>3, <2>4
  <2>5. CASE ~(current_depth + 1 > max_depth)
    <3>1. Nesting'
      BY <1>1, <1>2, <2>1, <2>2, <2>5 DEF Nesting
    <3>. QED  BY <1>8, <2>2, <2>3, <2>5, <3>1
  <2>. QED  BY <2>4, <2>5
<1>12. CASE ~inside_string /\ b = "close"
  <2>1. Brackets(data, "open", position + 1) = opened /\ Brackets(data, "close", position + 1) = closed + 1
    BY <1>5, <1>12
  <2>2. IF current_depth = 0
        THEN result' = "unmatched closing bracket"
        ELSE current_depth' = current_depth - 1 /\ result' = "scanning"
    BY <1>1, <1>3, <1>12 DEF OpenQuote, Open, Close, Skip
  <2>3. Broken(data, position + 1) <=> current_depth = 0
    BY <1>2, <2>1 DEF Broken
  <2>4. ~Deeper(data, position + 1, max_depth)
    BY <1>2, <2>1 DEF Deeper
  <2>5. CASE current_depth = 0
    BY <1>9, <2>2, <2>3, <2>5 DEF NoFault
  <2>6. CASE current_depth # 0
    <3>1. Nesting'
      BY <1>1, <1>2, <2>1, <2>2, <2>6 DEF Nesting
    <3>. QED  BY <1>8, <2>2, <2>3, <2>4, <2>6, <3>1 DEF NoFault
  <2>. QED  BY <2>5, <2>6
<1>. QED  BY <1>10, <1>11, <1>12

LEMMA EndStep ==
  ASSUME ScanInv, EndOfInput
  PROVE  ScanInv'
<1>1. /\ ScanTypes /\ Strings /\ Nesting /\ NothingBehind /\ Len(data) <= MaxBody /\ position = Len(data)
      /\ UNCHANGED <<data, max_depth, position, current_depth, inside_string, escaped>>
  BY DEF ScanInv, EndOfInput
<1>2. Bad(data, max_depth) = {} /\ ~(Len(data) > MaxBody) /\ data \in Seq(Bytes)
  BY <1>1 DEF Bad, NothingBehind, NoFault, ScanTypes
<1>3. inside_string <=> Unterminated(data)
  <2>1. ASSUME NEW o \in Openings(data)  PROVE Covers(data, o, position) <=> Ends(data, o) = {}
    <3>1. o \in Nat /\ o <= position /\ position \in Nat
      BY <1>1, <1>2, OpeningsAre DEF Quotes, ScanTypes
    <3>2. \A end \in Ends(data, o) : end \in Nat /\ ~(position + 1 <= end)
      BY <1>1, <3>1 DEF Ends, ScanTypes
    <3>. QED  BY <3>1, <3>2 DEF Covers, Within
  <2>. QED  BY <1>1, <2>1 DEF Strings, Unterminated
<1>4. Deeper(data, Len(data), 0) <=> current_depth # 0
  <2>1. Brackets(data, "close", position) \in Nat
    <3>1. IsFiniteSet(1..position) /\ Outside(data, "close", position) \subseteq 1..position
      BY <1>1, FS_Interval DEF Outside, ScanTypes
    <3>. QED  BY <3>1, FS_Subset, FS_CardinalityType, BracketsAre
  <2>. QED  BY <1>1, <2>1 DEF Nesting, Deeper, ScanTypes
<1>5. Deserved(data, max_depth) =
        IF inside_string THEN "unterminated string"
        ELSE IF current_depth # 0 THEN "unmatched opening bracket" ELSE "valid"
  BY <1>1, <1>2, <1>3, <1>4, Verdicts DEF ScanTypes
<1>6. result' = IF inside_string THEN "unterminated string"
                ELSE IF current_depth # 0 THEN "unmatched opening bracket" ELSE "valid"
  BY DEF EndOfInput
<1>7. result' \notin {"none", "scanning", "ok", "deserialization failed"}
      /\ Deserved(data', max_depth') = result'
  BY <1>1, <1>5, <1>6
<1>8. StopsAtOnce'
  <2>1. \A k \in 1..position' - 1 : k \in 1..position
    BY <1>1 DEF ScanTypes
  <2>. QED  BY <1>1, <2>1 DEF StopsAtOnce, NothingBehind, NoFault
<1>9. ScanTypes'
  BY <1>1 DEF ScanTypes
<1>. QED  BY <1>7, <1>8, <1>9 DEF ScanInv, VerdictIsRight

LEMMA ScanInvStep ==
  ASSUME ScanInv, [ValidationNext]_validationVars
  PROVE  ScanInv'
<1>1. CASE Deserialize
  <2>1. /\ ScanTypes' /\ result' \in {"ok", "deserialization failed"} /\ result = "valid"
        /\ UNCHANGED <<data, max_depth, position>>
    BY <1>1 DEF Deserialize, ScanInv, ScanTypes
  <2>. QED  BY <2>1 DEF ScanInv, VerdictIsRight, StopsAtOnce
<1>2. CASE UNCHANGED validationVars
  BY <1>2 DEF validationVars, ScanInv, ScanTypes, Strings, Nesting, NothingBehind, NoFault, VerdictIsRight, StopsAtOnce
<1>. QED  BY <1>1, <1>2, StartStep, ScanStep, EndStep DEF ValidationNext

\* What the scan knows of the bytes behind it, in every state.
THEOREM ScanInvariance == ValidationSpec => []ScanInv
<1>1. ValidationInit => ScanInv
  <2>. SUFFICES ASSUME ValidationInit  PROVE ScanInv
    OBVIOUS
  <2>1. ScanTypes
    <3>1. data \in Seq(Bytes) /\ max_depth \in Nat /\ MaxBody \in Nat /\ position = 0
      BY DocumentsType DEF ValidationInit
    <3>2. current_depth = 0 /\ inside_string = FALSE /\ escaped = FALSE
      BY DEF ValidationInit
    <3>3. 0 \in 0..Len(data)
      BY <3>1
    <3>. QED  BY <3>1, <3>2, <3>3 DEF ScanTypes
  <2>2. StopsAtOnce
    BY DEF ValidationInit, StopsAtOnce
  <2>. QED  BY <2>1, <2>2 DEF ValidationInit, ScanInv, VerdictIsRight
<1>. QED  BY <1>1, ScanInvStep, PTL DEF ValidationSpec

\* One pass without backtracking gives every document the verdict that its
\* literals and its nesting deserve, at the first fault, whatever its length and
\* the limits; serde sees nothing else (validation.rs:25-34, 47-130).
THEOREM VerdictIsAlwaysRight == ValidationSpec => []VerdictIsRight
<1>1. ScanInv => VerdictIsRight
  BY DEF ScanInv
<1>. QED  BY <1>1, ScanInvariance, PTL
=============================================================================
