------------------------------- MODULE Spread -------------------------------
(***************************************************************************)
(* What the gossip layer promises whatever happens below it, without       *)
(* envelopes, hop budgets or seen maps: a message that its origin sent     *)
(* passes from a node that holds it to a peer that can verify it, or to    *)
(* any peer if its origin's id yields no key to verify it with, and no     *)
(* node that holds it loses it.  It may stop anywhere.                     *)
(***************************************************************************)
EXTENDS Naturals

CONSTANTS Node, Origins, MaxSeq, Topologies, Verifies, Keyless

Msg == [origin : Origins, seq : 1..MaxSeq]

VARIABLES
    peers,  \* who is connected to whom, fixed by Init
    held    \* held[n]: the messages n sent or processed

vars == <<peers, held>>

Init ==
    /\ peers \in Topologies
    /\ held = [n \in Node |-> {}]

Gain(n, m) ==
    /\ held' = [held EXCEPT ![n] = @ \union {m}]
    /\ UNCHANGED peers

Send(m) ==
    /\ m \notin held[m.origin]
    /\ Gain(m.origin, m)

Pass(n, p, m) ==
    /\ m \in held[n]
    /\ p \in peers[n]
    /\ m.origin \in Keyless[peers] \/ m.origin \in Verifies[p]
    /\ Gain(p, m)

Next ==
    \E m \in Msg : Send(m) \/ \E n \in Node, p \in Node : Pass(n, p, m)

Spec == Init /\ [][Next]_vars
=============================================================================
