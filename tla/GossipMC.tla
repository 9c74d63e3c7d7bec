------------------------------ MODULE GossipMC ------------------------------
(* Instances of Gossip for TLC. *)
EXTENDS Gossip

CONSTANTS n1, n2, n3, n4, n5, n6

(* n6 runs a version that hashes n1's messages to something else. *)
LastCannotVerify == [n \in Node |-> IF n = n6 THEN Node \ {n1} ELSE Node]

Undirected(links) == [n \in Node |-> {p \in Node \ {n} : {n, p} \in links}]

(* A line, as tests/gossip_three_nodes.rs builds, one node longer, and a    *)
(* square; n6 hangs on both.                                                *)
Line == Undirected({{n1, n2}, {n2, n3}, {n3, n4}, {n2, n6}})
Square == Undirected({{n1, n2}, {n2, n3}, {n3, n4}, {n4, n1}, {n3, n6}})

(* A triangle with a tail that may first hear by the long way round: the    *)
(* tail starts at the origin in Tadpole, one link away from it in Kite.     *)
Tadpole == Undirected({{n1, n2}, {n2, n3}, {n3, n1}, {n1, n4}, {n4, n5}})
Kite == Undirected({{n1, n2}, {n1, n3}, {n2, n3}, {n3, n4}, {n4, n5}})

(* The square after n2 cleaned up its side of a connection that n1 still    *)
(* has in its registry, and n3 did the same to n4.                          *)
Lapsed == [Square EXCEPT ![n2] = @ \ {n1}, ![n3] = @ \ {n4}]

SparseGraphs == {Line, Square, Lapsed}
AllGraphs == SparseGraphs \union {Tadpole, Kite}

(* The id of n1 yields a key but on the lapsed square. *)
KeylessIfLapsed == [g \in AllGraphs |-> IF g = Lapsed THEN {n1} ELSE {}]

(* With one relay the end of the line is out of reach; with four a tail is  *)
(* reached, but only just, by the longest way round.                        *)
TtlOf == [g \in AllGraphs |-> IF g \in SparseGraphs THEN 1 ELSE 4]
=============================================================================
