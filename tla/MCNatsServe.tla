---------------------------- MODULE MCNatsServe ----------------------------
(* NatsServe for TLC: a request and two published messages for two           *)
(* subscribers, of which one has two slots and the other one, in a queue     *)
(* group or with a copy for each.                                            *)
EXTENDS NatsServe, TLC

CONSTANTS s1, s2, r1, p1, p2

MCLimit == s1 :> 2 @@ s2 :> 1
MCGroupings == {s1 :> g @@ s2 :> g : g \in {"none", "workers"}}
MCFits == s1 :> {r1, p1, p2} @@ s2 :> {r1, p1}
MCDecodes == s1 :> {r1, p1} @@ s2 :> {r1, p1, p2}
=============================================================================
