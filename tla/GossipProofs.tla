---------------------------- MODULE GossipProofs ----------------------------
(***************************************************************************)
(* Proofs about module Gossip, for every set of nodes, peer relation, hop  *)
(* budget and number of broadcasts.                                        *)
(***************************************************************************)
EXTENDS Gossip, FiniteSetTheorems, TLAPS

(* The inductive invariant, in named parts. *)

(* Every envelope was sent by a node that holds its message: the link an   *)
(* acceptor does not forward over leads to a holder.                       *)
SenderHolds == \A e \in net : e.from \in Holders(e.msg)

(* Only messages that were broadcast are processed, and a seen entry that  *)
(* passes the signature test was processed.                                *)
Processed ==
    /\ \A n \in Node : accepted[n] \subseteq sent
    /\ \A n \in Node : \A m \in seen[n] : Passes(n, m) => m \in accepted[n]

(* While copies of an undisturbed message circulate, no node that          *)
(* processed it has forgotten it.                                          *)
Remembered ==
    \A e \in net : e.msg \notin disturbed =>
        \A n \in Node : e.msg \in accepted[n] => e.msg \in seen[n]

(* Every hop an undisturbed copy made was made by another node, so the ttl *)
(* it has left is bounded below by the number of nodes that processed it.  *)
Acceptors(m) == {n \in Node : m \in accepted[n]}
Budget ==
    \A e \in net : e.msg \notin disturbed =>
        DefaultTtl <= e.ttl + Cardinality(Acceptors(e.msg))

(* The edge of an undisturbed flood: a peer of a holder holds the message, *)
(* would reject it, or has a copy on its way.                              *)
SmallAround(m, part) ==
    m.origin \in part /\ Closed(part) /\ DefaultTtl + 1 >= Cardinality(part)
Frontier ==
    \A part \in SUBSET Node : \A m \in sent \ disturbed : SmallAround(m, part) =>
        \A n \in Holders(m) : \A p \in peers[n] :
            \/ p \in Holders(m)
            \/ ~Passes(p, m)
            \/ \E e \in net : e.msg = m /\ e.to = p

(* Envelopes travel along links, so that a message stays within the part of *)
(* the network its origin is linked to.                                     *)
Linked == \A e \in net : e.to \in peers[e.from]
Contained ==
    \A part \in SUBSET Node : \A m \in Msg :
        m.origin \in part /\ Closed(part) => Acceptors(m) \subseteq part

FloodInv ==
    /\ TypeOK /\ SenderHolds /\ Processed /\ Remembered /\ Budget /\ Frontier
    /\ Linked /\ Contained

(* An envelope is within the hops its ttl says it has used. *)
HopInv ==
    /\ TypeOK
    /\ \A e \in net : WithinHops(e.msg.origin, e.to, DefaultTtl - e.ttl + 1)
    /\ HopBound

-----------------------------------------------------------------------------
LEMMA TtlType ==
    ASSUME TypeOK
    PROVE  DefaultTtl \in Nat
BY TtlAssumption DEF TypeOK, DefaultTtl

LEMMA PeersFixed ==
    ASSUME [Next]_vars
    PROVE  peers' = peers
BY DEF Next, Handle, vars, Broadcast, HandleDuplicate, HandleRejected, HandleAccepted,
       ExpireSeen, Lose, Restart

(* What is defined by the peer relation alone does not change. *)
LEMMA FixedByPeers ==
    ASSUME peers' = peers
    PROVE  /\ DefaultTtl' = DefaultTtl
           /\ Envelope' = Envelope
           /\ \A part : Closed(part)' = Closed(part)
           /\ \A m, part : SmallAround(m, part)' = SmallAround(m, part)
<1>1. DefaultTtl' = DefaultTtl
  BY DEF DefaultTtl
<1>2. \A part : Closed(part)' = Closed(part)
  BY DEF Closed
<1>3. \A m, part : SmallAround(m, part)' = SmallAround(m, part)
  BY <1>1, <1>2 DEF SmallAround
<1>4. Envelope' = Envelope
  BY <1>1 DEF Envelope, Msg
<1> QED
  BY <1>1, <1>2, <1>3, <1>4

LEMMA CopiesType ==
    ASSUME NEW m \in Msg, NEW k \in 0..DefaultTtl, NEW n \in Node,
           NEW targets \in SUBSET Node
    PROVE  Copies(m, k, n, targets) \in SUBSET Envelope
BY DEF Copies, Envelope

LEMMA PeersType ==
    ASSUME TypeOK
    PROVE  peers \in [Node -> SUBSET Node]
BY TopologyAssumption DEF TypeOK

LEMMA ForwardedType ==
    ASSUME TypeOK, NEW e \in net
    PROVE  Forwarded(e) \in SUBSET Envelope
<1>1. CASE e.ttl > 0
  <2>1. e.ttl - 1 \in 0..DefaultTtl
    BY <1>1, TtlType DEF TypeOK, Envelope
  <2>2. peers[e.to] \ {e.from} \in SUBSET Node
    BY PeersType DEF TypeOK, Envelope
  <2> QED
    BY <1>1, <2>1, <2>2, CopiesType DEF Forwarded, TypeOK, Envelope
<1>2. CASE ~(e.ttl > 0)
  BY <1>2 DEF Forwarded
<1> QED
  BY <1>1, <1>2

LEMMA BroadcastType ==
    ASSUME TypeOK, NEW o \in Origins, NEW s \in 1..MaxSeq
    PROVE  /\ [origin |-> o, seq |-> s] \in Msg
           /\ Copies([origin |-> o, seq |-> s], DefaultTtl, o, peers[o])
                  \in SUBSET Envelope
<1>1. [origin |-> o, seq |-> s] \in Msg
  BY DEF Msg
<1>2. DefaultTtl \in 0..DefaultTtl /\ o \in Node /\ peers[o] \in SUBSET Node
  BY TtlType, OriginsAssumption, PeersType
<1> QED
  BY <1>1, <1>2, CopiesType

-----------------------------------------------------------------------------
(* Type correctness of the flood. *)
THEOREM TypeCorrect == Spec => []TypeOK
<1>1. Init => TypeOK
  BY DEF Init, TypeOK
<1>2. TypeOK /\ [Next]_vars => TypeOK'
  <2> SUFFICES ASSUME TypeOK, [Next]_vars
               PROVE  TypeOK'
    OBVIOUS
  <2>0. peers' = peers /\ Envelope' = Envelope
    BY PeersFixed, FixedByPeers
  <2>1. ASSUME NEW o \in Origins, Broadcast(o)
        PROVE  TypeOK'
    <3>1. PICK s \in 1..MaxSeq :
             /\ sent' = sent \union {[origin |-> o, seq |-> s]}
             /\ net' = net \union Copies([origin |-> o, seq |-> s], DefaultTtl, o, peers[o])
             /\ UNCHANGED <<peers, seen, accepted, disturbed>>
      BY <2>1 DEF Broadcast
    <3> QED
      BY <2>0, <3>1, BroadcastType DEF TypeOK
  <2>2. ASSUME NEW e \in net, HandleDuplicate(e)
        PROVE  TypeOK'
    BY <2>0, <2>2 DEF TypeOK, HandleDuplicate
  <2>3. ASSUME NEW e \in net, HandleRejected(e)
        PROVE  TypeOK'
    BY <2>0, <2>3 DEF TypeOK, HandleRejected, Envelope
  <2>4. ASSUME NEW e \in net, HandleAccepted(e)
        PROVE  TypeOK'
    BY <2>0, <2>4, ForwardedType DEF TypeOK, HandleAccepted, Envelope
  <2>5. ASSUME NEW n \in Node, NEW m \in Msg, ExpireSeen(n, m)
        PROVE  TypeOK'
    BY <2>0, <2>5 DEF TypeOK, ExpireSeen
  <2>6. ASSUME NEW e \in net, Lose(e)
        PROVE  TypeOK'
    BY <2>0, <2>6 DEF TypeOK, Lose, Envelope
  <2>7. ASSUME NEW n \in Node, Restart(n)
        PROVE  TypeOK'
    BY <2>0, <2>7 DEF TypeOK, Restart, Envelope
  <2>8. CASE UNCHANGED vars
    BY <2>0, <2>8 DEF TypeOK, vars
  <2> QED
    BY <2>1, <2>2, <2>3, <2>4, <2>5, <2>6, <2>7, <2>8 DEF Next, Handle
<1> QED
  BY <1>1, <1>2, PTL DEF Spec

-----------------------------------------------------------------------------
(* Adding one link to a path adds one hop. *)
LEMMA OneMoreHop ==
    ASSUME TypeOK, NEW o \in Node, NEW n \in Node, NEW k \in Nat,
           NEW p \in peers[n], WithinHops(o, n, k)
    PROVE  WithinHops(o, p, k + 1)
<1>1. PICK path \in [0..k -> Node] :
        /\ path[0] = o
        /\ path[k] = n
        /\ \A i \in 1..k : path[i] = path[i - 1] \/ path[i] \in peers[path[i - 1]]
  BY DEF WithinHops
<1> DEFINE longer == [i \in 0..(k + 1) |-> IF i = k + 1 THEN p ELSE path[i]]
<1>2. p \in Node
  BY PeersType
<1>3. longer \in [0..(k + 1) -> Node]
  BY <1>1, <1>2
<1>4. longer[0] = o /\ longer[k + 1] = p
  BY <1>1
<1>5. ASSUME NEW i \in 1..(k + 1)
      PROVE  longer[i] = longer[i - 1] \/ longer[i] \in peers[longer[i - 1]]
  <2>1. CASE i = k + 1
    BY <1>1, <2>1
  <2>2. CASE i # k + 1
    <3>1. i \in 1..k /\ i - 1 \in 0..k /\ i - 1 # k + 1
      BY <2>2
    <3>2. longer[i] = path[i] /\ longer[i - 1] = path[i - 1]
      BY <3>1, <2>2
    <3> QED
      BY <1>1, <3>1, <3>2
  <2> QED
    BY <2>1, <2>2
<1> QED
  BY <1>3, <1>4, <1>5 DEF WithinHops

(* A path within k hops is a path within any larger number. *)
LEMMA MoreHops ==
    ASSUME NEW o \in Node, NEW n \in Node, NEW k \in Nat, NEW l \in Nat, k <= l,
           WithinHops(o, n, k)
    PROVE  WithinHops(o, n, l)
<1>1. PICK path \in [0..k -> Node] :
        /\ path[0] = o
        /\ path[k] = n
        /\ \A i \in 1..k : path[i] = path[i - 1] \/ path[i] \in peers[path[i - 1]]
  BY DEF WithinHops
<1> DEFINE padded == [i \in 0..l |-> IF i <= k THEN path[i] ELSE n]
<1>2. padded \in [0..l -> Node] /\ padded[0] = o /\ padded[l] = n
  BY <1>1
<1>3. ASSUME NEW i \in 1..l
      PROVE  padded[i] = padded[i - 1] \/ padded[i] \in peers[padded[i - 1]]
  <2>1. CASE i <= k
    <3>1. i \in 1..k /\ padded[i] = path[i] /\ padded[i - 1] = path[i - 1]
      BY <2>1
    <3> QED
      BY <1>1, <3>1
  <2>2. CASE i = k + 1
    <3>1. padded[i] = n /\ padded[i - 1] = path[k]
      BY <2>2
    <3> QED
      BY <1>1, <3>1
  <2>3. CASE i > k + 1
    BY <2>3
  <2> QED
    BY <2>1, <2>2, <2>3
<1> QED
  BY <1>2, <1>3 DEF WithinHops

(* A peer of the origin is one hop away. *)
LEMMA FirstHop ==
    ASSUME TypeOK, NEW o \in Node, NEW p \in peers[o]
    PROVE  WithinHops(o, p, 1)
<1> DEFINE path == [i \in 0..0 |-> o]
<1>1. path \in [0..0 -> Node] /\ path[0] = o
  OBVIOUS
<1>2. WithinHops(o, o, 0)
  <2>1. \A i \in 1..0 : path[i] = path[i - 1] \/ path[i] \in peers[path[i - 1]]
    OBVIOUS
  <2> QED
    BY <1>1, <2>1 DEF WithinHops
<1>3. WithinHops(o, p, 0 + 1)
  BY <1>2, OneMoreHop
<1> QED
  BY <1>3

(* Every step keeps each envelope, and each processed message, within the   *)
(* hops its ttl accounts for.                                               *)
LEMMA HopStep ==
    ASSUME HopInv, [Next]_vars
    PROVE  /\ \A e \in net' : WithinHops(e.msg.origin, e.to, DefaultTtl - e.ttl + 1)
           /\ \A n \in Node : \A m \in accepted'[n] :
                  WithinHops(m.origin, n, DefaultTtl + 1)
<1>0. /\ TypeOK
      /\ \A e \in net : WithinHops(e.msg.origin, e.to, DefaultTtl - e.ttl + 1)
      /\ \A n \in Node : \A m \in accepted[n] : WithinHops(m.origin, n, DefaultTtl + 1)
  BY DEF HopInv, HopBound
<1>1. ASSUME NEW o \in Origins, Broadcast(o)
      PROVE  /\ accepted' = accepted
             /\ \A e \in net' : WithinHops(e.msg.origin, e.to, DefaultTtl - e.ttl + 1)
  <2>1. PICK s \in 1..MaxSeq :
          /\ net' = net \union Copies([origin |-> o, seq |-> s], DefaultTtl, o, peers[o])
          /\ UNCHANGED accepted
    BY <1>1 DEF Broadcast
  <2>2. ASSUME NEW p \in peers[o]
        PROVE  WithinHops(o, p, DefaultTtl - DefaultTtl + 1)
    BY <1>0, FirstHop, OriginsAssumption, TtlType
  <2> QED
    BY <1>0, <2>1, <2>2 DEF Copies
<1>2. ASSUME NEW e \in net, HandleAccepted(e)
      PROVE  /\ \A f \in net' : WithinHops(f.msg.origin, f.to, DefaultTtl - f.ttl + 1)
             /\ \A n \in Node : \A m \in accepted'[n] :
                    WithinHops(m.origin, n, DefaultTtl + 1)
  <2>1. /\ e.msg.origin \in Node /\ e.to \in Node
        /\ e.ttl \in 0..DefaultTtl /\ DefaultTtl \in Nat
    BY <1>0, OriginsAssumption, TtlType DEF TypeOK, Envelope, Msg
  <2> DEFINE used == DefaultTtl - e.ttl + 1
  <2>2. used \in Nat /\ used <= DefaultTtl + 1 /\ DefaultTtl + 1 \in Nat
    BY <2>1
  <2>3. WithinHops(e.msg.origin, e.to, used)
    BY <1>0
  <2>4. WithinHops(e.msg.origin, e.to, DefaultTtl + 1)
    <3> HIDE DEF used
    <3> QED
      BY <2>1, <2>2, <2>3, MoreHops
  <2>5. ASSUME NEW p \in peers[e.to]
        PROVE  WithinHops(e.msg.origin, p, used + 1)
    <3> HIDE DEF used
    <3> QED
      BY <1>0, <2>1, <2>2, <2>3, OneMoreHop
  <2>6. ASSUME NEW f \in Forwarded(e)
        PROVE  WithinHops(f.msg.origin, f.to, DefaultTtl - f.ttl + 1)
    <3>1. e.ttl > 0
      BY <2>6 DEF Forwarded
    <3>2. PICK p \in peers[e.to] :
            f = [msg |-> e.msg, ttl |-> e.ttl - 1, from |-> e.to, to |-> p]
      BY <2>6, <3>1 DEF Forwarded, Copies
    <3>3. DefaultTtl - f.ttl + 1 = used + 1
      BY <2>1, <3>2
    <3> QED
      BY <2>5, <3>2, <3>3
  <2> QED
    BY <1>0, <1>2, <2>1, <2>4, <2>6 DEF HandleAccepted, TypeOK
<1>3. ASSUME \/ \E e \in net : HandleDuplicate(e) \/ HandleRejected(e) \/ Lose(e)
             \/ \E n \in Node, m \in Msg : ExpireSeen(n, m)
             \/ \E n \in Node : Restart(n)
             \/ UNCHANGED vars
      PROVE  net' \subseteq net /\ accepted' = accepted
  BY <1>3 DEF HandleDuplicate, HandleRejected, Lose, ExpireSeen, Restart, vars
<1> QED
  BY <1>0, <1>1, <1>2, <1>3 DEF Next, Handle

(* The hop budget bounds where a message is processed, for every budget,    *)
(* peer relation and set of nodes, and through losses, restarts and         *)
(* forgotten seen entries.                                                  *)
THEOREM HopsBounded == Spec => []HopBound
<1>1. Init => HopInv
  <2> SUFFICES ASSUME Init
               PROVE  HopInv
    OBVIOUS
  <2>1. TypeOK
    BY DEF Init, TypeOK
  <2>2. net = {} /\ \A n \in Node : accepted[n] = {}
    BY DEF Init
  <2> QED
    BY <2>1, <2>2 DEF HopInv, HopBound
<1>2. HopInv /\ TypeOK' /\ [Next]_vars => HopInv'
  <2> SUFFICES ASSUME HopInv, TypeOK', [Next]_vars
               PROVE  HopInv'
    OBVIOUS
  <2>1. peers' = peers /\ DefaultTtl' = DefaultTtl
    BY PeersFixed, FixedByPeers
  <2>2. \A o, n, k : WithinHops(o, n, k)' = WithinHops(o, n, k)
    BY <2>1 DEF WithinHops
  <2> QED
    BY <2>1, <2>2, HopStep DEF HopInv, HopBound
<1>3. HopInv => HopBound
  BY DEF HopInv
<1> QED
  BY <1>1, <1>2, <1>3, TypeCorrect, PTL DEF Spec

-----------------------------------------------------------------------------
(* A broadcast keeps the invariant: the new copies go to every peer. *)
LEMMA BroadcastKeeps ==
    ASSUME FloodInv, TypeOK', NEW o \in Origins, Broadcast(o)
    PROVE  FloodInv'
<1> PICK s \in 1..MaxSeq :
      /\ [origin |-> o, seq |-> s] \notin sent
      /\ sent' = sent \union {[origin |-> o, seq |-> s]}
      /\ net' = net \union Copies([origin |-> o, seq |-> s], DefaultTtl, o, peers[o])
      /\ UNCHANGED <<peers, seen, accepted, disturbed>>
  BY DEF Broadcast
<1> DEFINE new == [origin |-> o, seq |-> s]
<1>0. \A m, part : /\ SmallAround(m, part)' = SmallAround(m, part)
                   /\ Closed(part)' = Closed(part)
  BY FixedByPeers
<1>1. new \in Msg /\ o \in Node /\ new.origin = o
  BY BroadcastType, OriginsAssumption DEF FloodInv
<1>2. \A e \in net' : e \in net \/ (e.msg = new /\ e.from = o /\ e.ttl = DefaultTtl)
  BY DEF Copies
<1>3. \A n \in Node : new \notin accepted[n]
  BY DEF FloodInv, Processed
<1>4. \A m : Holders(m) \subseteq Holders(m)'
  BY DEF Holders
<1>5. SenderHolds'
  <2>1. o \in Holders(new)'
    BY <1>1 DEF Holders
  <2> QED
    BY <1>2, <1>4, <2>1 DEF FloodInv, SenderHolds
<1>6. Processed'
  BY DEF FloodInv, Processed, Passes
<1>7. Remembered'
  BY <1>2, <1>3 DEF FloodInv, Remembered
<1>8. Budget'
  <2>1. \A m : Acceptors(m)' = Acceptors(m)
    BY DEF Acceptors
  <2>2. Acceptors(new) = {}
    BY <1>3 DEF Acceptors
  <2>3. DefaultTtl <= DefaultTtl + Cardinality(Acceptors(new))
    BY <2>2, FS_EmptySet, TtlType DEF FloodInv
  <2> QED
    BY <1>2, <2>1, <2>3, FixedByPeers DEF FloodInv, Budget
<1>9. Frontier'
  <2> SUFFICES ASSUME NEW part \in SUBSET Node,
                      NEW m \in sent' \ disturbed', SmallAround(m, part),
                      NEW n \in Holders(m)', NEW p \in peers'[n],
                      p \notin Holders(m)', Passes(p, m)
               PROVE  \E e \in net' : e.msg = m /\ e.to = p
    BY <1>0 DEF Frontier, Passes
  <2>1. CASE m = new
    <3>1. n = o
      BY <1>1, <1>3, <2>1 DEF Holders
    <3>2. [msg |-> new, ttl |-> DefaultTtl, from |-> o, to |-> p] \in net'
      BY <3>1 DEF Copies
    <3> QED
      BY <2>1, <3>2
  <2>2. CASE m # new
    <3>1. Holders(m)' = Holders(m) /\ m \in sent \ disturbed
      BY <2>2 DEF Holders
    <3> QED
      BY <3>1 DEF FloodInv, Frontier
  <2> QED
    BY <2>1, <2>2
<1>10. Linked'
  BY DEF FloodInv, Linked, Copies
<1>11. Contained'
  BY <1>0 DEF FloodInv, Contained, Acceptors
<1> QED
  BY <1>5, <1>6, <1>7, <1>8, <1>9, <1>10, <1>11 DEF FloodInv

(* Dropping a duplicate, or a message that does not pass, keeps the         *)
(* invariant: the node it was for already counts as reached, or never will. *)
LEMMA DropKeeps ==
    ASSUME FloodInv, TypeOK', NEW e \in net, HandleDuplicate(e) \/ HandleRejected(e)
    PROVE  FloodInv'
<1>1. /\ net' = net \ {e}
      /\ UNCHANGED <<peers, sent, accepted, disturbed>>
      /\ \A n \in Node : seen[n] \subseteq seen'[n]
      /\ e.msg \in accepted[e.to] \/ ~Passes(e.to, e.msg)
      /\ e.to \in Node
  BY DEF HandleDuplicate, HandleRejected, FloodInv, Processed, TypeOK, Envelope
<1>0. \A m, part : /\ SmallAround(m, part)' = SmallAround(m, part)
                   /\ Closed(part)' = Closed(part)
  BY <1>1, FixedByPeers
<1>2. \A m : Holders(m)' = Holders(m) /\ Acceptors(m)' = Acceptors(m)
  BY <1>1 DEF Holders, Acceptors
<1>3. SenderHolds' /\ Remembered' /\ Budget' /\ Linked' /\ Contained'
  BY <1>0, <1>1, <1>2, FixedByPeers
     DEF FloodInv, SenderHolds, Remembered, Budget, Linked, Contained
<1>4. Processed'
  BY <1>1 DEF HandleDuplicate, HandleRejected, FloodInv, Processed, TypeOK, Passes
<1>5. Frontier'
  <2> SUFFICES ASSUME NEW part \in SUBSET Node,
                      NEW m \in sent \ disturbed, SmallAround(m, part),
                      NEW n \in Holders(m), NEW p \in peers[n],
                      p \notin Holders(m), Passes(p, m)
               PROVE  \E f \in net' : f.msg = m /\ f.to = p
    BY <1>0, <1>1, <1>2 DEF Frontier, Passes
  <2>1. PICK f \in net : f.msg = m /\ f.to = p
    BY DEF FloodInv, Frontier
  <2>2. f # e
    BY <1>1, <2>1 DEF Holders
  <2> QED
    BY <1>1, <2>1, <2>2
<1> QED
  BY <1>3, <1>4, <1>5 DEF FloodInv

(* Losing copies, by a failed send or a restart, or forgetting a message,   *)
(* keeps the invariant: the message it concerns becomes disturbed.          *)
LEMMA DisturbanceKeeps ==
    ASSUME FloodInv, TypeOK',
           net' \subseteq net,
           UNCHANGED <<peers, sent, accepted>>,
           disturbed \subseteq disturbed',
           \A n \in Node : seen'[n] \subseteq seen[n],
           \A e \in net \ net' : e.msg \in disturbed',
           \A n \in Node : \A m \in seen[n] \ seen'[n] : InFlight(m)' => m \in disturbed'
    PROVE  FloodInv'
<1>0. \A m, part : /\ SmallAround(m, part)' = SmallAround(m, part)
                   /\ Closed(part)' = Closed(part)
  BY FixedByPeers
<1>1. \A m : Holders(m)' = Holders(m) /\ Acceptors(m)' = Acceptors(m)
  BY DEF Holders, Acceptors
<1>2. SenderHolds' /\ Budget' /\ Linked' /\ Contained'
  BY <1>0, <1>1, FixedByPeers DEF FloodInv, SenderHolds, Budget, Linked, Contained
<1>3. Processed'
  BY DEF FloodInv, Processed, Passes
<1>4. Remembered'
  BY DEF FloodInv, Remembered, InFlight
<1>5. Frontier'
  <2> SUFFICES ASSUME NEW part \in SUBSET Node,
                      NEW m \in sent \ disturbed', SmallAround(m, part),
                      NEW n \in Holders(m), NEW p \in peers[n],
                      p \notin Holders(m), Passes(p, m)
               PROVE  \E f \in net' : f.msg = m /\ f.to = p
    BY <1>0, <1>1 DEF Frontier, Passes
  <2>1. PICK f \in net : f.msg = m /\ f.to = p
    BY DEF FloodInv, Frontier
  <2> QED
    BY <2>1
<1> QED
  BY <1>2, <1>3, <1>4, <1>5 DEF FloodInv

(* Processing a message and forwarding it keeps the invariant.  The heart   *)
(* of it is that the first copy to arrive can afford the next hop whenever  *)
(* somebody is still to be reached.                                         *)
LEMMA AcceptKeeps ==
    ASSUME FloodInv, TypeOK', NEW e \in net, HandleAccepted(e)
    PROVE  FloodInv'
<1> DEFINE m == e.msg
           k == e.to
<1>0. /\ DefaultTtl' = DefaultTtl
      /\ \A q, part : /\ SmallAround(q, part)' = SmallAround(q, part)
                      /\ Closed(part)' = Closed(part)
  BY FixedByPeers DEF HandleAccepted
<1>1. /\ m \in Msg /\ k \in Node /\ e.from \in Node
      /\ e.ttl \in 0..DefaultTtl /\ DefaultTtl \in Nat
  BY TtlType DEF FloodInv, TypeOK, Envelope
<1>2. /\ accepted' = [accepted EXCEPT ![k] = @ \union {m}]
      /\ seen' = [seen EXCEPT ![k] = @ \union {m}]
      /\ net' = (net \ {e}) \union Forwarded(e)
      /\ UNCHANGED <<peers, sent, disturbed>>
      /\ m \notin seen[k]
  BY DEF HandleAccepted
<1>3. /\ \A n \in Node : accepted'[n] = IF n = k THEN accepted[n] \union {m} ELSE accepted[n]
      /\ \A n \in Node : seen'[n] = IF n = k THEN seen[n] \union {m} ELSE seen[n]
  BY <1>2 DEF FloodInv, TypeOK
<1>4. m \in sent
  BY DEF FloodInv, SenderHolds, Holders, Processed
<1>5. \A q : /\ Holders(q)' = IF q = m THEN Holders(q) \union {k} ELSE Holders(q)
             /\ Acceptors(q)' = IF q = m THEN Acceptors(q) \union {k} ELSE Acceptors(q)
  BY <1>1, <1>2, <1>3 DEF Holders, Acceptors
<1>6. \A f \in Forwarded(e) : /\ f.msg = m /\ f.from = k
                              /\ f.ttl = e.ttl - 1 /\ e.ttl > 0
  BY DEF Forwarded, Copies
<1>7. m \notin disturbed => k \notin Acceptors(m)
  BY <1>2 DEF FloodInv, Remembered, Acceptors
<1>8. \A q : IsFiniteSet(Acceptors(q)) /\ Cardinality(Acceptors(q)) \in Nat
  <2>1. \A q : Acceptors(q) \subseteq Node
    BY DEF Acceptors
  <2> QED
    BY <2>1, NodeAssumption, FS_Subset, FS_CardinalityType
<1>9. SenderHolds'
  <2>1. k \in Holders(m)' /\ \A q : Holders(q) \subseteq Holders(q)'
    BY <1>5
  <2> QED
    BY <1>2, <1>6, <2>1 DEF FloodInv, SenderHolds
<1>10. Processed'
  BY <1>2, <1>3, <1>4 DEF FloodInv, Processed, Passes
<1>11. Remembered'
  <2> SUFFICES ASSUME NEW f \in net', f.msg \notin disturbed,
                      NEW n \in Node, f.msg \in accepted'[n]
               PROVE  f.msg \in seen'[n]
    BY <1>2 DEF Remembered
  <2>1. \E g \in net : g.msg = f.msg
    BY <1>2, <1>6
  <2> QED
    BY <1>3, <2>1 DEF FloodInv, Remembered
<1>12. Budget'
  <2>1. ASSUME NEW f \in net, f.msg \notin disturbed
        PROVE  DefaultTtl <= f.ttl + Cardinality(Acceptors(f.msg)')
    <3>1. DefaultTtl <= f.ttl + Cardinality(Acceptors(f.msg)) /\ f.ttl \in Nat
      BY <2>1 DEF FloodInv, Budget, TypeOK, Envelope
    <3>2. CASE f.msg = m
      <4>1. Cardinality(Acceptors(f.msg)') = Cardinality(Acceptors(f.msg)) + 1
        BY <1>5, <1>7, <1>8, <2>1, <3>2, FS_AddElement
      <4> QED
        BY <1>1, <1>8, <3>1, <4>1
    <3>3. CASE f.msg # m
      BY <1>5, <3>1, <3>3
    <3> QED
      BY <3>2, <3>3
  <2>2. ASSUME NEW f \in Forwarded(e), m \notin disturbed
        PROVE  DefaultTtl <= f.ttl + Cardinality(Acceptors(f.msg)')
    <3>1. DefaultTtl <= e.ttl + Cardinality(Acceptors(m))
      BY <2>2 DEF FloodInv, Budget
    <3>2. Cardinality(Acceptors(m)') = Cardinality(Acceptors(m)) + 1
      BY <1>5, <1>7, <1>8, <2>2, FS_AddElement
    <3>3. f.ttl = e.ttl - 1 /\ f.msg = m /\ Cardinality(Acceptors(m)) \in Nat
      BY <1>6, <1>8, <2>2
    <3> QED
      BY <1>1, <3>1, <3>2, <3>3
  <2> QED
    BY <1>0, <1>2, <1>6, <2>1, <2>2 DEF Budget
<1>13. Linked'
  BY <1>2 DEF FloodInv, Linked, Forwarded, Copies
<1>14. Contained'
  <2> SUFFICES ASSUME NEW part \in SUBSET Node, NEW q \in Msg,
                      q.origin \in part, Closed(part)
               PROVE  Acceptors(q)' \subseteq part
    BY <1>0 DEF Contained
  <2>1. Acceptors(q) \subseteq part
    BY DEF FloodInv, Contained
  <2>2. CASE q = m
    <3>1. e.from \in part
      BY <2>1, <2>2 DEF FloodInv, SenderHolds, Holders, Acceptors
    <3>2. k \in part
      BY <3>1 DEF FloodInv, Linked, Closed
    <3> QED
      BY <1>5, <2>1, <3>2
  <2>3. CASE q # m
    BY <1>5, <2>1, <2>3
  <2> QED
    BY <2>2, <2>3
<1>15. Frontier'
  <2> SUFFICES ASSUME NEW part \in SUBSET Node,
                      NEW q \in sent \ disturbed, SmallAround(q, part),
                      NEW n \in Holders(q)', NEW p \in peers[n],
                      p \notin Holders(q)', Passes(p, q)
               PROVE  \E f \in net' : f.msg = q /\ f.to = p
    BY <1>0, <1>2 DEF Frontier, Passes
  <2>1. n \in Node /\ p \in Node /\ p \notin Holders(q)
    BY <1>5, PeersType DEF FloodInv, Holders
  <2>2. CASE n \in Holders(q)
    <3>1. PICK f \in net : f.msg = q /\ f.to = p
      BY <2>1, <2>2 DEF FloodInv, Frontier
    <3>2. f # e
      BY <1>5, <3>1
    <3> QED
      BY <1>2, <3>1, <3>2
  <2>3. CASE n \notin Holders(q)
    <3>1. q = m /\ n = k
      BY <1>5, <2>3
    <3>2. p # k /\ p \notin Acceptors(m)
      BY <1>5, <2>1, <3>1 DEF Acceptors, Holders
    <3>3. e.ttl > 0
      <4> DEFINE reached == Acceptors(m) \union {k}
      <4>1. /\ IsFiniteSet(reached)
            /\ Cardinality(reached) = Cardinality(Acceptors(m)) + 1
        BY <1>7, <1>8, <3>1, FS_AddElement
      <4>2. /\ IsFiniteSet(reached \union {p})
            /\ Cardinality(reached \union {p}) = Cardinality(reached) + 1
        <5>1. p \notin reached
          BY <3>2
        <5> QED
          BY <4>1, <5>1, FS_AddElement
      <4>3. /\ Cardinality(Acceptors(m)) + 2 <= Cardinality(part)
            /\ Cardinality(part) \in Nat
            /\ DefaultTtl + 1 >= Cardinality(part)
        <5>1. /\ m.origin \in part /\ Closed(part)
              /\ DefaultTtl + 1 >= Cardinality(part)
          BY <3>1 DEF SmallAround
        <5>2. Acceptors(m)' \subseteq part
          BY <1>0, <1>1, <1>14, <5>1 DEF Contained
        <5>3. reached \subseteq part
          BY <1>5, <5>2
        <5>4. p \in part
          BY <3>1, <5>1, <5>3 DEF Closed
        <5>5. reached \union {p} \subseteq part
          BY <5>3, <5>4
        <5>6. IsFiniteSet(part) /\ Cardinality(part) \in Nat
          BY NodeAssumption, FS_Subset, FS_CardinalityType
        <5> QED
          BY <1>8, <4>1, <4>2, <5>1, <5>5, <5>6, FS_Subset
      <4>4. DefaultTtl <= e.ttl + Cardinality(Acceptors(m))
        BY <3>1 DEF FloodInv, Budget
      <4> QED
        BY <1>1, <1>8, <4>3, <4>4
    <3>4. p # e.from
      BY <2>1, <3>1 DEF FloodInv, SenderHolds
    <3>5. [msg |-> m, ttl |-> e.ttl - 1, from |-> k, to |-> p] \in Forwarded(e)
      BY <3>1, <3>3, <3>4 DEF Forwarded, Copies
    <3> QED
      BY <1>2, <3>1, <3>5
  <2> QED
    BY <2>2, <2>3
<1> QED
  BY <1>9, <1>10, <1>11, <1>12, <1>13, <1>14, <1>15 DEF FloodInv

LEMMA FloodInvStep == FloodInv /\ TypeOK' /\ [Next]_vars => FloodInv'
<1> SUFFICES ASSUME FloodInv, TypeOK', [Next]_vars
             PROVE  FloodInv'
  OBVIOUS
<1>1. ASSUME NEW o \in Origins, Broadcast(o)
      PROVE  FloodInv'
  BY <1>1, BroadcastKeeps
<1>2. ASSUME NEW e \in net, HandleDuplicate(e) \/ HandleRejected(e)
      PROVE  FloodInv'
  BY <1>2, DropKeeps
<1>3. ASSUME NEW e \in net, HandleAccepted(e)
      PROVE  FloodInv'
  BY <1>3, AcceptKeeps
<1>4. ASSUME NEW n \in Node, NEW m \in Msg, ExpireSeen(n, m)
      PROVE  FloodInv'
  <2>1. /\ net' = net /\ disturbed \subseteq disturbed'
        /\ UNCHANGED <<peers, sent, accepted>>
        /\ \A q \in Node : seen'[q] = IF q = n THEN seen[q] \ {m} ELSE seen[q]
        /\ InFlight(m) => m \in disturbed'
    BY <1>4 DEF ExpireSeen, FloodInv, TypeOK
  <2> QED
    BY <2>1, DisturbanceKeeps DEF InFlight
<1>5. ASSUME NEW e \in net, Lose(e)
      PROVE  FloodInv'
  BY <1>5, DisturbanceKeeps DEF Lose
<1>6. ASSUME NEW n \in Node, Restart(n)
      PROVE  FloodInv'
  <2>1. /\ net' = net \ {e \in net : e.from = n \/ e.to = n}
        /\ UNCHANGED <<peers, sent, accepted>>
        /\ \A q \in Node : seen'[q] = IF q = n THEN {} ELSE seen[q]
        /\ disturbed' = disturbed
                          \union {e.msg : e \in {e \in net : e.from = n \/ e.to = n}}
                          \union {m \in seen[n] : InFlight(m)}
    BY <1>6 DEF Restart, FloodInv, TypeOK
  <2>2. \A e \in net \ net' : e.msg \in disturbed'
    BY <2>1
  <2>3. \A q \in Node : \A m \in seen[q] \ seen'[q] : InFlight(m)' => m \in disturbed'
    BY <2>1 DEF InFlight
  <2> QED
    BY <2>1, <2>2, <2>3, DisturbanceKeeps
<1>7. CASE UNCHANGED vars
  BY <1>7, DisturbanceKeeps DEF vars
<1> QED
  BY <1>1, <1>2, <1>3, <1>4, <1>5, <1>6, <1>7 DEF Next, Handle

(* An undisturbed flood reaches every node it can reach, if these are at    *)
(* most DefaultTtl + 1, in any network: no order of arrivals lets           *)
(* deduplication swallow the copy that would have gone on.                  *)
THEOREM FloodsComplete == Spec => []FloodComplete
<1>1. Init => FloodInv
  BY DEF Init, FloodInv, TypeOK, SenderHolds, Processed, Remembered, Budget, Frontier,
         Linked, Contained, Acceptors
<1>2. FloodInv => FloodComplete
  <2> SUFFICES ASSUME FloodInv,
                      NEW part \in SUBSET Node, NEW m \in sent \ disturbed,
                      SmallAround(m, part), ~InFlight(m),
                      NEW n \in Holders(m), NEW p \in peers[n], Passes(p, m)
               PROVE  p \in Holders(m)
    BY DEF FloodComplete, SmallAround
  <2> QED
    BY DEF FloodInv, Frontier, InFlight
<1> QED
  BY <1>1, <1>2, FloodInvStep, TypeCorrect, PTL DEF Spec

-----------------------------------------------------------------------------
Held == [n \in Node |-> {m \in Msg : n \in Holders(m)}]

(* Each step is a Send, a Pass or a stutter of the abstract specification:  *)
(* an acceptance is a Pass because its sender holds the message and is      *)
(* linked to the acceptor.                                                  *)
LEMMA StepSpreads ==
    FloodInv /\ TypeOK' /\ [Next]_vars => [S!Next]_(S!vars)
<1> SUFFICES ASSUME FloodInv, TypeOK', [Next]_vars
             PROVE  [S!Next]_(S!vars)
  OBVIOUS
<1>1. peers' = peers
  BY PeersFixed
<1>2. S!vars = <<peers, Held>> /\ S!Msg = Msg
  BY DEF S!vars, S!Msg, Held, Msg
<1>3. ASSUME NEW o \in Origins, Broadcast(o)
      PROVE  S!Next
  <2>1. PICK s \in 1..MaxSeq :
          /\ [origin |-> o, seq |-> s] \notin sent
          /\ sent' = sent \union {[origin |-> o, seq |-> s]}
          /\ accepted' = accepted
    BY <1>3 DEF Broadcast
  <2> DEFINE m == [origin |-> o, seq |-> s]
  <2>2. m \in Msg /\ o \in Node /\ m.origin = o
    BY OriginsAssumption DEF Msg
  <2>3. m \notin Held[o]
    BY <2>1, <2>2 DEF FloodInv, Processed, Held, Holders
  <2>4. Held' = [Held EXCEPT ![o] = @ \union {m}]
    BY <2>1, <2>2 DEF Held, Holders
  <2>5. S!Send(m)
    BY <1>1, <2>2, <2>3, <2>4 DEF S!Send, S!Gain, Held
  <2> QED
    BY <1>2, <2>2, <2>5 DEF S!Next
<1>4. ASSUME NEW e \in net, HandleAccepted(e)
      PROVE  S!Next
  <2>1. e.msg \in Msg /\ e.to \in Node /\ e.from \in Node
    BY DEF FloodInv, TypeOK, Envelope
  <2>2. /\ sent' = sent
        /\ accepted' = [accepted EXCEPT ![e.to] = @ \union {e.msg}]
        /\ e.msg.origin \in Keyless[peers] \/ e.msg.origin \in Verifies[e.to]
    BY <1>4 DEF HandleAccepted, Passes
  <2>3. e.msg \in Held[e.from] /\ e.to \in peers[e.from]
    BY <2>1 DEF FloodInv, SenderHolds, Linked, Held
  <2>4. Held' = [Held EXCEPT ![e.to] = @ \union {e.msg}]
    BY <2>1, <2>2 DEF Held, Holders, FloodInv, TypeOK
  <2>5. S!Pass(e.from, e.to, e.msg)
    BY <1>1, <2>1, <2>2, <2>3, <2>4 DEF S!Pass, S!Gain, Held
  <2> QED
    BY <1>2, <2>1, <2>5 DEF S!Next
<1>5. ASSUME \/ \E e \in net : HandleDuplicate(e) \/ HandleRejected(e) \/ Lose(e)
             \/ \E n \in Node, m \in Msg : ExpireSeen(n, m)
             \/ \E n \in Node : Restart(n)
             \/ UNCHANGED vars
      PROVE  S!vars' = S!vars
  <2>1. sent' = sent /\ accepted' = accepted
    BY <1>5 DEF HandleDuplicate, HandleRejected, Lose, ExpireSeen, Restart, vars
  <2>2. Held' = Held
    BY <2>1 DEF Held, Holders
  <2> QED
    BY <1>1, <2>2 DEF S!vars, Held
<1> QED
  BY <1>3, <1>4, <1>5 DEF Next, Handle

(* The gossip layer implements the abstract spread: through losses,         *)
(* restarts, duplicates and forgotten seen entries, a node comes to hold a  *)
(* message only from a linked node that held it, and after verifying it     *)
(* unless the origin's id yields no key, which the code does not verify.    *)
THEOREM GossipImplementsSpread == Spec => ImplementsSpread
<1>1. Init => FloodInv /\ S!Init
  BY DEF Init, FloodInv, TypeOK, SenderHolds, Processed, Remembered, Budget, Frontier,
         Linked, Contained, Acceptors, S!Init, Holders
<1> QED
  BY <1>1, FloodInvStep, StepSpreads, TypeCorrect, PTL
     DEF Spec, ImplementsSpread, S!Spec
=============================================================================
