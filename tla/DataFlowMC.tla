----------------------------- MODULE DataFlowMC -----------------------------
(* Instances of DataFlow for TLC. *)
EXTENDS DataFlow

CONSTANTS n1, n2, n3

Graph(arcs) == [n \in Node |-> {p \in Node : <<n, p>> \in arcs}]

(* Two nodes that want each other's bundle. *)
Exchange ==
    [peers |-> Graph({<<n1, n2>>, <<n2, n1>>}), wants |-> Graph({<<n1, n2>>, <<n2, n1>>}),
     starting |-> {}, rounds |-> 0, stops |-> 0]

(* The same with gossip between them, or with one that may stop. *)
Busy == [Exchange EXCEPT !.rounds = 1]
Stopping == [Exchange EXCEPT !.stops = 1]

(* The owner's services are not yet registered when its peer asks. *)
Early ==
    [Exchange EXCEPT !.wants = Graph({<<n1, n2>>}), !.starting = {n2}, !.rounds = 1,
                     !.stops = 1]

(* Gossip is relayed between the ends of a line while the middle is served. *)
Relay ==
    [peers |-> Graph({<<n1, n2>>, <<n2, n1>>, <<n2, n3>>, <<n3, n2>>}),
     wants |-> Graph({<<n1, n2>>}), starting |-> {}, rounds |-> 1, stops |-> 0]

All == {Busy, Stopping, Early, Relay}
Mutual == {Exchange}
=============================================================================
