------------------------------- MODULE Gossip -------------------------------
(***************************************************************************)
(* The flood that gossip/service.rs runs over the peers each node is       *)
(* connected to: a node broadcasts a signed message with a hop budget,     *)
(* every node that has not seen the message processes it and forwards it   *)
(* to all its peers but the one it came from.                              *)
(*                                                                         *)
(* A signed message is the pair of its origin and its timestamp (seq):     *)
(* these decide its hash.  Its payload is left out here; modules RepoSync  *)
(* and Chat model what processing an announcement or a chat message does.  *)
(***************************************************************************)
EXTENDS Naturals, FiniteSets

CONSTANTS
    Node,        \* the running nodes
    Origins,     \* bound: the nodes whose broadcasts are followed
    MaxSeq,      \* bound: messages one of them broadcasts
    Topologies,  \* the peer relations a behaviour may start from
    TtlFor,      \* TtlFor[g]: hop budget of a fresh envelope on g (16 in the code)
    Verifies,    \* Verifies[n]: origins whose signature holds when n checks it; a node
                 \* of another version may hash a message to something else
    Keyless      \* Keyless[g]: origins whose id yields no key on g, so that no node
                 \* checks their signature at all

ASSUME NodeAssumption == IsFiniteSet(Node)
ASSUME OriginsAssumption == Origins \subseteq Node
ASSUME TtlAssumption == TtlFor \in [Topologies -> Nat]
ASSUME SeqAssumption == MaxSeq \in Nat
ASSUME TopologyAssumption ==
    Topologies \subseteq {g \in [Node -> SUBSET Node] : \A n \in Node : n \notin g[n]}
ASSUME VerifiesAssumption == Verifies \in [Node -> SUBSET Node]
ASSUME KeylessAssumption == Keyless \in [Topologies -> SUBSET Origins]

Msg == [origin : Origins, seq : 1..MaxSeq]

VARIABLES
    peers,     \* peers[n]: ConnectionManager::list_peers of n, fixed by Init
    net,       \* envelopes sent and not yet handled
    seen,      \* seen[n]: hashes in the node's in-memory seen map
    sent,      \* history: messages broadcast by their origin
    accepted,  \* history: accepted[n], messages n has processed
    disturbed  \* history: messages that lost a copy, or whose seen entry
               \* was dropped somewhere while a copy was in flight

vars == <<peers, net, seen, sent, accepted, disturbed>>

DefaultTtl == TtlFor[peers]

Envelope == [msg : Msg, ttl : 0..DefaultTtl, from : Node, to : Node]

TypeOK ==
    /\ peers \in Topologies
    /\ net \in SUBSET Envelope
    /\ seen \in [Node -> SUBSET Msg]
    /\ sent \in SUBSET Msg
    /\ accepted \in [Node -> SUBSET Msg]
    /\ disturbed \in SUBSET Msg

Init ==
    /\ peers \in Topologies
    /\ net = {}
    /\ seen = [n \in Node |-> {}]
    /\ sent = {}
    /\ accepted = [n \in Node |-> {}]
    /\ disturbed = {}

InFlight(m) == \E e \in net : e.msg = m

Copies(m, k, from, targets) ==
    {[msg |-> m, ttl |-> k, from |-> from, to |-> p] : p \in targets}

(* The periodic broadcaster: a fresh envelope to every peer.  The origin   *)
(* does not enter its own message in its seen map.                         *)
Broadcast(o) ==
    \E s \in 1..MaxSeq :
        LET m == [origin |-> o, seq |-> s] IN
        /\ m \notin sent
        /\ \A r \in 1..(s - 1) : [origin |-> o, seq |-> r] \in sent
        /\ sent' = sent \union {m}
        /\ net' = net \union Copies(m, DefaultTtl, o, peers[o])
        /\ UNCHANGED <<peers, seen, accepted, disturbed>>

(* Mutations of Forwarded: the ttl is not tested, is tested one too high,   *)
(* or is not decremented.                                                   *)
ForwardedUntested(e) == Copies(e.msg, e.ttl - 1, e.to, peers[e.to] \ {e.from})
ForwardedAboveOne(e) ==
    IF e.ttl > 1 THEN Copies(e.msg, e.ttl - 1, e.to, peers[e.to] \ {e.from}) ELSE {}
ForwardedUndiminished(e) ==
    IF e.ttl > 0 THEN Copies(e.msg, e.ttl, e.to, peers[e.to] \ {e.from}) ELSE {}

(* What handle_incoming forwards after processing envelope e.              *)
Forwarded(e) ==
    IF e.ttl > 0
    THEN Copies(e.msg, e.ttl - 1, e.to, peers[e.to] \ {e.from})
    ELSE {}

(* Mutation of Passes: no signature is checked. *)
Unverified(n, m) == n \in Node /\ m \in Msg

(* The signature test of handle_incoming, over the hash that n computes of  *)
(* m: it is skipped when the origin's id does not yield a key.  The test of  *)
(* the sender inside the payload against the signer always holds of the     *)
(* messages the code makes.                                                 *)
Passes(n, m) == m.origin \in Keyless[peers] \/ m.origin \in Verifies[n]

(* handle_incoming drops a message whose hash it has seen. *)
HandleDuplicate(e) ==
    /\ e.msg \in seen[e.to]
    /\ net' = net \ {e}
    /\ UNCHANGED <<peers, seen, sent, accepted, disturbed>>

(* The hash enters seen before the signature test. *)
HandleRejected(e) ==
    /\ e.msg \notin seen[e.to]
    /\ ~Passes(e.to, e.msg)
    /\ seen' = [seen EXCEPT ![e.to] = @ \union {e.msg}]
    /\ net' = net \ {e}
    /\ UNCHANGED <<peers, sent, accepted, disturbed>>

HandleAccepted(e) ==
    /\ e.msg \notin seen[e.to]
    /\ Passes(e.to, e.msg)
    /\ seen' = [seen EXCEPT ![e.to] = @ \union {e.msg}]
    /\ accepted' = [accepted EXCEPT ![e.to] = @ \union {e.msg}]
    /\ net' = (net \ {e}) \union Forwarded(e)
    /\ UNCHANGED <<peers, sent, disturbed>>

Handle(e) == HandleDuplicate(e) \/ HandleRejected(e) \/ HandleAccepted(e)

(* The cleanup task drops an entry once it is 300 seconds old.  Time is    *)
(* left out: a copy that is still in flight then has outlived the window.  *)
ExpireSeen(n, m) ==
    /\ m \in seen[n]
    /\ seen' = [seen EXCEPT ![n] = @ \ {m}]
    /\ disturbed' = IF InFlight(m) THEN disturbed \union {m} ELSE disturbed
    /\ UNCHANGED <<peers, net, sent, accepted>>

(* A send error is ignored, a connection closes, a full stream is refused. *)
Lose(e) ==
    /\ net' = net \ {e}
    /\ disturbed' = disturbed \union {e.msg}
    /\ UNCHANGED <<peers, seen, sent, accepted>>

(* A node process stops and starts again: its seen map is empty and what   *)
(* was on its connections is gone.                                         *)
Restart(n) ==
    LET cut == {e \in net : e.from = n \/ e.to = n} IN
    /\ net' = net \ cut
    /\ seen' = [seen EXCEPT ![n] = {}]
    /\ disturbed' = disturbed \union {e.msg : e \in cut}
                              \union {m \in seen[n] : InFlight(m)}
    /\ UNCHANGED <<peers, sent, accepted>>

Next ==
    \/ \E o \in Origins : Broadcast(o)
    \/ \E e \in net : Handle(e)
    \/ \E n \in Node, m \in Msg : ExpireSeen(n, m)
    \/ \E e \in net : Lose(e)
    \/ \E n \in Node : Restart(n)

(* Each node's handler task keeps taking messages from its channel; nothing *)
(* obliges a node to broadcast, to fail or to forget.                       *)
Fairness == \A n \in Node : WF_vars(\E e \in net : e.to = n /\ Handle(e))

Spec == Init /\ [][Next]_vars /\ Fairness

-----------------------------------------------------------------------------
(* n can be reached from o over at most k links of the peer relation.      *)
WithinHops(o, n, k) ==
    \E path \in [0..k -> Node] :
        /\ path[0] = o
        /\ path[k] = n
        /\ \A i \in 1..k : path[i] = path[i - 1] \/ path[i] \in peers[path[i - 1]]

(* The hop budget limits propagation: whatever is lost, forgotten or        *)
(* processed twice, a node processes a message only within DefaultTtl + 1   *)
(* links of its origin (DefaultTtl relays, gossip/service.rs forward step). *)
HopBound ==
    \A n \in Node : \A m \in accepted[n] : WithinHops(m.origin, n, DefaultTtl + 1)

(* Those that hold m: its origin once it broadcast it, and all that         *)
(* processed it.                                                            *)
Holders(m) == {n \in Node : m \in accepted[n] \/ (n = m.origin /\ m \in sent)}

(* The flood implements the abstract spread: a node comes to hold a message *)
(* only by sending it, or from a peer that holds it and after verifying it, *)
(* unless the id of its origin yields no key, in which case nobody verifies *)
(* it; whichever copy arrives first and whatever was forgotten in between.  *)
S == INSTANCE Spread WITH
       held <- [n \in Node |-> {m \in Msg : n \in Holders(m)}]
ImplementsSpread == S!Spec

(* Nodes from which no link leads to another node. *)
Closed(part) == \A n \in part : peers[n] \subseteq part

(* Deduplication and the hop budget do not cut a flood short: when the      *)
(* budget is at least the number of other nodes in the part of the network  *)
(* that m can reach, and no copy of m was lost or outlived a seen entry,    *)
(* then once no copy is in flight the nodes that hold m are closed under    *)
(* "is a peer where it passes", that is, m has reached every node it can    *)
(* reach.  A copy that took a long way round and arrives first, with a      *)
(* small ttl, must not stop one that would go on.                           *)
FloodComplete ==
    \A part \in SUBSET Node : \A m \in sent \ disturbed :
        /\ m.origin \in part /\ Closed(part)
        /\ DefaultTtl + 1 >= Cardinality(part)
        /\ ~InFlight(m)
        => \A n \in Holders(m) : \A p \in peers[n] : Passes(p, m) => p \in Holders(m)

(* A flood ends even when nodes restart or forget the message while copies  *)
(* circulate: what ends it is the decrement, not the seen map.              *)
FloodEnds == \A m \in Msg : InFlight(m) ~> ~InFlight(m)
=============================================================================
