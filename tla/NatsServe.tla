----------------------------- MODULE NatsServe -----------------------------
(***************************************************************************)
(* NatsClient (src/network/nats/client.rs) on one subject: any number of   *)
(* calls of serve_request_reply, in queue groups or by themselves, and the *)
(* calls of request and publish that they serve.  The server between them, *)
(* and async_nats, are external: a message is delivered once at most.      *)
(***************************************************************************)
EXTENDS FiniteSets, Naturals, Sequences

CONSTANTS Servers,   \* one call of serve_request_reply each
          Messages,  \* one call of request or publish each
          Requests,  \* the calls of request: their messages have a reply subject
          Limit,     \* Limit[s]: max_concurrency, 0 for None
          Groupings, \* the choices of queue_group, "none" for a plain subscription
          Fits,      \* Fits[s]: the messages within max_payload_bytes
          Decodes,   \* Decodes[s]: the messages that are a Req
          Endless    \* messages whose handler may never return

ASSUME MessagesAreFinite == IsFiniteSet(Messages) /\ Requests \subseteq Messages /\ Endless \subseteq Messages
ASSUME ConfigType ==
  /\ Limit \in [Servers -> Nat] /\ \A g \in Groupings : DOMAIN g = Servers
  /\ Fits \in [Servers -> SUBSET Messages] /\ Decodes \in [Servers -> SUBSET Messages]

VARIABLES group,   \* group[s]: the queue group of s
          serve,   \* serve[s]: state of the call
          ended,   \* the servers whose stream has no more messages to come
          queue,   \* queue[s]: messages delivered to s and not yet polled for
          stage,   \* stage[s][m]: where s is with m
          answers, \* answers[m]: servers whose reply reached the requester
          call     \* call[m]: state of the call of request or publish

\* History variable: earned[m], the servers whose handler returned Ok for request m.
VARIABLE earned

vars == <<group, serve, ended, queue, stage, answers, call, earned>>

Init ==
  /\ group \in Groupings
  /\ serve = [s \in Servers |-> "new"] /\ ended = {}
  /\ queue = [s \in Servers |-> <<>>]
  /\ stage = [s \in Servers |-> [m \in Messages |-> "away"]]
  /\ answers = [m \in Messages |-> {}] /\ call = [m \in Messages |-> "new"]
  /\ earned = [m \in Requests |-> {}]

At(s, g) == {m \in Messages : stage[s][m] = g}
InFlight(s) == At(s, "handling") \cup At(s, "replying")

-----------------------------------------------------------------------------
(* Variants with a bug the code does not have; Spec does not use them.       *)

\* One check too late: the limit is compared before the message is counted.
PollsOneMore(s) == Limit[s] = 0 \/ Cardinality(InFlight(s)) <= Limit[s]
\* Messages are served in batches: the next one waits for all of the last.
PollsInBatches(s) == InFlight(s) = {}
\* The handlers run on tasks of their own, and nobody waits for them.
ReturnsDetached(s) ==
  /\ serve[s] = "serving" /\ s \in ended /\ queue[s] = <<>>
  /\ serve' = [serve EXCEPT ![s] = "ok"]
  /\ UNCHANGED <<group, ended, queue, stage, answers, call, earned>>
\* An error is reported to the peer as if it were an answer.
ErrReplies(s, m) ==
  /\ stage[s][m] = "handling"
  /\ stage' = [stage EXCEPT ![s][m] = IF m \in Requests THEN "replying" ELSE "done"]
  /\ UNCHANGED <<group, serve, ended, queue, answers, call, earned>>

-----------------------------------------------------------------------------
(* A subscriber.                                                             *)

Subscribe(s) ==
  /\ serve[s] = "new"
  /\ \E r \in {"serving", "failed"} : serve' = [serve EXCEPT ![s] = r]
  /\ UNCHANGED <<group, ended, queue, stage, answers, call, earned>>

\* for_each_concurrent polls the stream only below its limit.
Polls(s) == Limit[s] = 0 \/ Cardinality(InFlight(s)) < Limit[s]

\* It takes the next message and polls its pipeline once: a message that is too
\* big or does not decode is logged and dropped, for another the handler begins.
Take(s) ==
  /\ serve[s] = "serving" /\ queue[s] # <<>> /\ Polls(s)
  /\ LET m == Head(queue[s]) IN
       stage' = [stage EXCEPT ![s][m] = IF m \in Fits[s] \cap Decodes[s] THEN "handling" ELSE "done"]
  /\ queue' = [queue EXCEPT ![s] = Tail(@)]
  /\ UNCHANGED <<group, serve, ended, answers, call, earned>>

\* The answer is published, unless nobody asked or it does not serialize.
HandlerOk(s, m) ==
  /\ stage[s][m] = "handling"
  /\ \E g \in {"done"} \cup (IF m \in Requests THEN {"replying"} ELSE {}) :
       stage' = [stage EXCEPT ![s][m] = g]
  /\ earned' = [r \in Requests |-> IF r = m THEN earned[r] \cup {s} ELSE earned[r]]
  /\ UNCHANGED <<group, serve, ended, queue, answers, call>>

\* An error is logged, and the peer hears nothing.
HandlerErr(s, m) ==
  /\ stage[s][m] = "handling"
  /\ stage' = [stage EXCEPT ![s][m] = "done"]
  /\ UNCHANGED <<group, serve, ended, queue, answers, call, earned>>

\* The reply reaches the requester or, like a failed publish, does not.
PublishReply(s, m) ==
  /\ stage[s][m] = "replying"
  /\ stage' = [stage EXCEPT ![s][m] = "done"]
  /\ \E reached \in SUBSET {s} : answers' = [answers EXCEPT ![m] = @ \cup reached]
  /\ UNCHANGED <<group, serve, ended, queue, call, earned>>

\* The call is gone, and with it its subscription and all that it had.
Perish(s) ==
  /\ serve' = [serve EXCEPT ![s] = "gone"] /\ queue' = [queue EXCEPT ![s] = <<>>]
  /\ stage' = [stage EXCEPT ![s] = [m \in Messages |->
                IF @[m] \in {"queued", "handling", "replying"} THEN "lost" ELSE @[m]]]
  /\ UNCHANGED <<group, ended, answers, call, earned>>

\* The handlers are polled by the task that polls the call: a panic in one of
\* them unwinds through for_each_concurrent.
HandlerPanics(s, m) == stage[s][m] = "handling" /\ Perish(s)

DropServe(s) == serve[s] = "serving" /\ Perish(s)

\* The connection is closed or the subscription drained.
StreamEnds(s) ==
  /\ serve[s] = "serving" /\ s \notin ended /\ ended' = ended \cup {s}
  /\ UNCHANGED <<group, serve, queue, stage, answers, call, earned>>

ServeReturns(s) ==
  /\ serve[s] = "serving" /\ s \in ended /\ queue[s] = <<>> /\ InFlight(s) = {}
  /\ serve' = [serve EXCEPT ![s] = "ok"]
  /\ UNCHANGED <<group, ended, queue, stage, answers, call, earned>>

-----------------------------------------------------------------------------
(* A publisher or requester.                                                 *)

\* The message does not serialize, or the client cannot send it.
SendFails(m) ==
  /\ call[m] = "new"
  /\ \E r \in {"internal", "network"} : call' = [call EXCEPT ![m] = r]
  /\ UNCHANGED <<group, serve, ended, queue, stage, answers, earned>>

\* Who may get a copy: any plain subscriber, and one member of each group.
Live == {s \in Servers : serve[s] = "serving" /\ s \notin ended}
Deliveries ==
  {to \in SUBSET Live : \A s, t \in to : s # t => group[s] # group[t] \/ group[s] = "none"}

Send(m) ==
  /\ call[m] = "new"
  /\ call' = [call EXCEPT ![m] = IF m \in Requests THEN "sent" ELSE "ok"]
  /\ \E to \in Deliveries :
       /\ queue' = [s \in Servers |-> IF s \in to THEN Append(queue[s], m) ELSE queue[s]]
       /\ stage' = [s \in Servers |-> IF s \in to THEN [stage[s] EXCEPT ![m] = "queued"] ELSE stage[s]]
  /\ UNCHANGED <<group, serve, ended, answers, earned>>

\* The first reply is the answer if it is a Resp; later ones find nobody.
Receive(m) ==
  /\ call[m] = "sent" /\ answers[m] # {}
  /\ \E r \in {"ok", "internal"} : call' = [call EXCEPT ![m] = r]
  /\ UNCHANGED <<group, serve, ended, queue, stage, answers, earned>>

\* protocol_request_timeout, no responders, or a lost connection.
RequestFails(m) ==
  /\ call[m] = "sent" /\ call' = [call EXCEPT ![m] = "network"]
  /\ UNCHANGED <<group, serve, ended, queue, stage, answers, earned>>

-----------------------------------------------------------------------------
HandlerEnds(s, m) == HandlerOk(s, m) \/ HandlerErr(s, m) \/ HandlerPanics(s, m)

Next ==
  \/ \E s \in Servers :
       \/ Subscribe(s) \/ Take(s) \/ DropServe(s) \/ StreamEnds(s) \/ ServeReturns(s)
       \/ \E m \in Messages : HandlerEnds(s, m) \/ PublishReply(s, m)
  \/ \E m \in Messages : Send(m) \/ SendFails(m) \/ Receive(m) \/ RequestFails(m)

\* The call is polled while it can step, and handlers return but for the endless.
Fairness ==
  \A s \in Servers :
    /\ WF_vars(Take(s)) /\ WF_vars(ServeReturns(s))
    /\ \A m \in Messages : WF_vars(PublishReply(s, m))
    /\ \A m \in Messages \ Endless : WF_vars(HandlerEnds(s, m))

Spec == Init /\ [][Next]_vars /\ Fairness
-----------------------------------------------------------------------------
(* Properties. *)

\* Types; a server's queue holds what is queued for it, and the messages in
\* flight stay within max_concurrency (client.rs:263-266, config.rs:124-125).
TypeOK ==
  /\ group \in Groupings
  /\ serve \in [Servers -> {"new", "serving", "ok", "failed", "gone"}]
  /\ ended \subseteq Servers
  /\ stage \in [Servers -> [Messages -> {"away", "queued", "handling", "replying", "done", "lost"}]]
  /\ call \in [Messages -> {"new", "sent", "ok", "internal", "network"}]
  /\ answers \in [Messages -> SUBSET Servers] /\ earned \in [Requests -> SUBSET Servers]
  /\ \A s \in Servers :
       /\ {queue[s][i] : i \in 1..Len(queue[s])} = At(s, "queued")
       /\ Len(queue[s]) = Cardinality(At(s, "queued"))
       /\ Limit[s] # 0 => Cardinality(InFlight(s)) <= Limit[s]

\* An Ok from request() was earned: a server that the message fits and that could
\* decode it ran its handler to Ok.  Nothing is answered that was not asked, and
\* nothing that failed (client.rs:171-182).
AnswerIsEarned ==
  \A m \in Messages :
    /\ m \in Requests => answers[m] \subseteq {s \in earned[m] : m \in Fits[s] \cap Decodes[s]}
    /\ m \in Requests /\ call[m] = "ok" => answers[m] # {}
    /\ m \notin Requests => answers[m] = {}

\* Ok from serve_request_reply means that every message it was given was dealt
\* with, in-flight ones included (client.rs:184-185, 265-283).
OkMeansSettled ==
  \A s \in Servers : serve[s] = "ok" => \A m \in Messages : stage[s][m] \in {"away", "done"}

\* While fewer handlers hang than the server has slots, each message delivered to
\* it is dealt with, unless a panic or the application ends the call
\* (client.rs:263-266).
MessagesSettle ==
  \A s \in Servers : Limit[s] = 0 \/ Cardinality(Endless) < Limit[s] =>
    \A m \in Messages \ Endless : stage[s][m] = "queued" ~> stage[s][m] \in {"done", "lost"}
=============================================================================
