-------------------------- MODULE ConnectionsProofs --------------------------
(***************************************************************************)
(* What the steps of module Connections keep, for any number of nodes,     *)
(* connections, breaks and restarts.                                       *)
(***************************************************************************)
EXTENDS Connections, SequenceTheorems, TLAPS

(* Connections are those the configuration has somebody dial.  Those a node *)
(* has accepted were dialled to it, and it accepts none twice.              *)
DialedLinks == \A c \in DOMAIN link : link[c] \in dials

AcceptedOnce ==
    \A n \in Node :
        /\ \A i \in DOMAIN accepted[n] :
              link[accepted[n][i]][2] = n /\ accepted[n][i] \notin accepting
        /\ \A i, j \in DOMAIN accepted[n] : accepted[n][i] = accepted[n][j] => i = j

ConnectionsInv == ConnectionsTypeOK /\ DialedLinks /\ AcceptedOnce /\ LatestIsKept

LEMMA InitConnectionsInv == ConnectionsInit => ConnectionsInv
<1> SUFFICES ASSUME ConnectionsInit
             PROVE  ConnectionsInv
  OBVIOUS
<1>1. ConnectionsTypeOK
  <2>1. todial \subseteq Node
    BY BootstrapsAssumption DEF ConnectionsInit
  <2> QED
    BY <2>1, ConnectionBoundAssumption
       DEF ConnectionsInit, ConnectionsTypeOK, NoEntries, NoConn
<1>2. DialedLinks /\ AcceptedOnce
  BY DEF ConnectionsInit, DialedLinks, AcceptedOnce
<1>3. LatestIsKept
  BY DEF ConnectionsInit, LatestIsKept, NoEntries, NoConn
<1> QED
  BY <1>1, <1>2, <1>3 DEF ConnectionsInv

(* Of a connection that has been opened: both ends are nodes. *)
LEMMA Ends ==
    ASSUME ConnectionsTypeOK, DialedLinks, NEW c \in DOMAIN link
    PROVE  /\ c \in Nat \ {0}
           /\ link[c][1] \in Node /\ link[c][2] \in Node
           /\ c \in Links(link[c][1]) /\ c \in Links(link[c][2])
           /\ link[c][1] # link[c][2]
<1>1. link \in Seq(Node \X Node)
  BY DEF ConnectionsTypeOK
<1>2. c \in 1..Len(link) /\ Len(link) \in Nat
  BY <1>1, LenProperties
<1>3. link[c] \in Node \X Node
  BY <1>1, <1>2, ElementOfSeq
<1>4. link[c][1] # link[c][2]
  BY BootstrapsAssumption DEF ConnectionsTypeOK, DialedLinks
<1> QED
  BY <1>2, <1>3, <1>4 DEF Links, Peers

(* The connections a node has accepted are of those that were opened. *)
LEMMA AcceptedTypes ==
    ASSUME ConnectionsTypeOK, NEW n \in Node
    PROVE  \A i \in DOMAIN accepted[n] : accepted[n][i] \in DOMAIN link
<1>1. accepted[n] \in Seq(DOMAIN link)
  BY DEF ConnectionsTypeOK
<1> QED
  BY <1>1, LenProperties, ElementOfSeq

(* The steps that open a connection: those opened before stay as they are.  *)
LEMMA DialKeeps ==
    ASSUME ConnectionsInv, NEW n \in Node, NEW p \in Node, Dial(n, p)
    PROVE  ConnectionsInv'
<1> USE DEF ConnectionsInv
<1>1. link \in Seq(Node \X Node) /\ link' = Append(link, <<n, p>>)
  BY DEF Dial, ConnectionsTypeOK
<1>2. /\ link' \in Seq(Node \X Node) /\ Len(link') = Len(link) + 1
      /\ \A c \in 1..Len(link) : link'[c] = link[c]
  BY <1>1, AppendProperties
<1>3. DOMAIN link = 1..Len(link) /\ DOMAIN link' = 1..(Len(link) + 1) /\ Len(link) \in Nat
  BY <1>1, <1>2, LenProperties
<1>4. DOMAIN link \subseteq DOMAIN link' /\ Len(link') \in DOMAIN link'
  BY <1>2, <1>3
<1>5. \A m \in Node : Links(m) \subseteq Links(m)'
  BY <1>2, <1>3, <1>4 DEF Links, Peers
<1>6. accepted' \in [Node -> Seq(DOMAIN link')]
  <2>1. accepted \in [Node -> Seq(DOMAIN link)] /\ accepted' = accepted
    BY DEF Dial, ConnectionsTypeOK
  <2>2. \A m \in Node : accepted[m] \in Seq(DOMAIN link')
    BY <2>1, <1>4, SeqMonotonic
  <2> QED
    BY <2>1, <2>2
<1>7. ConnectionsTypeOK'
  <2>1. Len(link') <= MaxConn
    BY <1>2, <1>3, ConnectionBoundAssumption DEF Dial
  <2>2. \A set \in {connecting', accepting', broken'} : set \subseteq DOMAIN link'
    BY <1>4 DEF Dial, ConnectionsTypeOK
  <2>3. /\ registry' \in [Node -> [Node -> {NoConn} \union DOMAIN link']]
        /\ latest' \in [Node -> [Node -> {NoConn} \union DOMAIN link']]
    <3>1. {NoConn} \union DOMAIN link \subseteq {NoConn} \union DOMAIN link'
      BY <1>4
    <3> QED
      BY <3>1 DEF Dial, ConnectionsTypeOK
  <2>4. \A m, q \in Node :
           registry'[m][q] \in {NoConn} \union (Links(m)' \intersect Links(q)')
    BY <1>5 DEF Dial, ConnectionsTypeOK
  <2> QED
    BY <1>2, <1>6, <2>1, <2>2, <2>3, <2>4 DEF Dial, ConnectionsTypeOK
<1>8. DialedLinks' /\ AcceptedOnce'
  <2>1. \A m \in Node : \A i \in DOMAIN accepted[m] : accepted[m][i] \in DOMAIN link
    BY AcceptedTypes
  <2>2. \A c \in DOMAIN link : link'[c] = link[c]
    BY <1>2, <1>3
  <2>3. DialedLinks'
    BY <1>1, <1>2, <1>3, <2>2, AppendProperties DEF Dial, DialedLinks, ConnectionsTypeOK
  <2>4. Len(link') \notin DOMAIN link
    BY <1>2, <1>3
  <2> QED
    BY <2>1, <2>2, <2>3, <2>4 DEF Dial, AcceptedOnce
<1>9. LatestIsKept'
  BY DEF Dial, LatestIsKept
<1> QED
  BY <1>7, <1>8, <1>9

(* HashMap::insert, of a connection between n and p. *)
LEMMA RegisterKeeps ==
    ASSUME ConnectionsInv, NEW n \in Node, NEW p \in Node,
           NEW c \in Links(n) \intersect Links(p), Register(n, p, c),
           UNCHANGED <<link, broken>>
    PROVE  /\ registry' \in [Node -> [Node -> {NoConn} \union DOMAIN link]]
           /\ latest' \in [Node -> [Node -> {NoConn} \union DOMAIN link]]
           /\ \A m, q \in Node :
                 registry'[m][q] \in {NoConn} \union (Links(m) \intersect Links(q))
           /\ LatestIsKept'
<1> USE DEF ConnectionsInv
<1>1. c \in DOMAIN link
  BY DEF Links
<1>2. /\ registry \in [Node -> [Node -> {NoConn} \union DOMAIN link]]
      /\ latest \in [Node -> [Node -> {NoConn} \union DOMAIN link]]
  BY DEF ConnectionsTypeOK
<1>3. \A m, q \in Node :
         /\ registry'[m][q] = IF m = n /\ q = p THEN c ELSE registry[m][q]
         /\ latest'[m][q] = IF m = n /\ q = p THEN c ELSE latest[m][q]
  BY <1>2 DEF Register
<1>4. /\ registry' \in [Node -> [Node -> {NoConn} \union DOMAIN link]]
      /\ latest' \in [Node -> [Node -> {NoConn} \union DOMAIN link]]
  BY <1>1, <1>2 DEF Register
<1>5. \A m, q \in Node :
         registry'[m][q] \in {NoConn} \union (Links(m) \intersect Links(q))
  <2>1. \A m, q \in Node :
           registry[m][q] \in {NoConn} \union (Links(m) \intersect Links(q))
    BY DEF ConnectionsTypeOK
  <2> QED
    BY <1>3, <2>1
<1>6. LatestIsKept'
  BY <1>3 DEF LatestIsKept
<1> QED
  BY <1>4, <1>5, <1>6

(* What is left of a queue when its first element is taken. *)
LEMMA Unqueued ==
    ASSUME NEW S, NEW q \in Seq(S), q # <<>>
    PROVE  /\ Head(q) \in S /\ Head(q) = q[1] /\ 1 \in DOMAIN q
           /\ Tail(q) \in Seq(S)
           /\ \A i \in DOMAIN Tail(q) : i + 1 \in DOMAIN q /\ Tail(q)[i] = q[i + 1]
<1>1. /\ Head(q) \in S /\ Tail(q) \in Seq(S) /\ Len(Tail(q)) = Len(q) - 1
      /\ \A i \in 1..Len(Tail(q)) : Tail(q)[i] = q[i + 1]
  BY HeadTailProperties
<1>2. DOMAIN q = 1..Len(q) /\ DOMAIN Tail(q) = 1..Len(Tail(q)) /\ Len(q) \in Nat
  BY <1>1, LenProperties
<1>3. Len(q) # 0
  BY EmptySeq
<1>4. Head(q) = q[1]
  OBVIOUS
<1> QED
  BY <1>1, <1>2, <1>3, <1>4

(* The other steps of the registries leave the connections that have been   *)
(* opened as they are, and with them their ends.                            *)
LEMMA ConnectionKeeps == ConnectionsInv /\ ConnectionStep => ConnectionsInv'
<1> SUFFICES ASSUME ConnectionsInv, ConnectionStep
             PROVE  ConnectionsInv'
  OBVIOUS
<1> USE DEF ConnectionsInv
<1>1. ASSUME NEW n \in Node, NEW p \in Node, Dial(n, p)
      PROVE  ConnectionsInv'
  BY <1>1, DialKeeps
<1>2. ASSUME NEW n \in Node, DialFails(n)
      PROVE  ConnectionsInv'
  BY <1>2 DEF DialFails, ConnectionsTypeOK, DialedLinks, AcceptedOnce, LatestIsKept, Links, Peers
<1>3. ASSUME NEW c \in DOMAIN link, RegisterDialed(c)
      PROVE  ConnectionsInv'
  <2>1. CASE c \in noticed[link[c][1]]
    BY <1>3, <2>1
       DEF RegisterDialed, ConnectionsTypeOK, DialedLinks, AcceptedOnce, LatestIsKept, Links, Peers
  <2>2. CASE c \notin noticed[link[c][1]]
    <3>1. Register(link[c][1], link[c][2], c)
      BY <1>3, <2>2 DEF RegisterDialed
    <3>2. /\ registry' \in [Node -> [Node -> {NoConn} \union DOMAIN link]]
          /\ latest' \in [Node -> [Node -> {NoConn} \union DOMAIN link]]
          /\ \A m, q \in Node :
                registry'[m][q] \in {NoConn} \union (Links(m) \intersect Links(q))
          /\ LatestIsKept'
      BY <1>3, <3>1, Ends, RegisterKeeps DEF RegisterDialed
    <3> QED
      BY <1>3, <3>2
         DEF RegisterDialed, ConnectionsTypeOK, DialedLinks, AcceptedOnce, Links, Peers
  <2> QED
    BY <2>1, <2>2
<1>4. ASSUME NEW c \in DOMAIN link, Accept(c)
      PROVE  ConnectionsInv'
  <2> DEFINE n == link[c][2]
  <2>1. n \in Node /\ c \in Links(n)
    BY Ends
  <2>2. accepted[n] \in Seq(DOMAIN link)
    BY <2>1 DEF ConnectionsTypeOK
  <2>3. /\ Append(accepted[n], c) \in Seq(DOMAIN link)
        /\ \A i \in 1..Len(accepted[n]) : Append(accepted[n], c)[i] = accepted[n][i]
        /\ Append(accepted[n], c)[Len(accepted[n]) + 1] = c
        /\ DOMAIN Append(accepted[n], c) = 1..(Len(accepted[n]) + 1)
        /\ DOMAIN accepted[n] = 1..Len(accepted[n])
        /\ Len(accepted[n]) \in Nat
    <3>1. /\ Append(accepted[n], c) \in Seq(DOMAIN link)
          /\ Len(Append(accepted[n], c)) = Len(accepted[n]) + 1
          /\ \A i \in 1..Len(accepted[n]) : Append(accepted[n], c)[i] = accepted[n][i]
          /\ Append(accepted[n], c)[Len(accepted[n]) + 1] = c
      BY <2>2, AppendProperties
    <3> QED
      BY <2>2, <3>1, LenProperties
  <2>4. /\ accepted' = [accepted EXCEPT ![n] = Append(accepted[n], c)] /\ link' = link
        /\ accepting' = accepting \ {c} /\ c \in accepting
    BY <1>4 DEF Accept
  <2>5. accepted' \in [Node -> Seq(DOMAIN link)]
    <3> HIDE DEF n
    <3> QED
      BY <2>1, <2>3, <2>4 DEF ConnectionsTypeOK
  <2>6. AcceptedOnce'
    <3>1. \A m \in Node :
             accepted'[m] = IF m = n THEN Append(accepted[n], c) ELSE accepted[m]
      BY <2>1, <2>4 DEF ConnectionsTypeOK
    <3>2. \A i \in DOMAIN accepted'[n] :
             link[accepted'[n][i]][2] = n /\ accepted'[n][i] \notin accepting'
      BY <2>1, <2>3, <2>4, <3>1 DEF AcceptedOnce
    <3>3. \A i, j \in DOMAIN accepted'[n] : accepted'[n][i] = accepted'[n][j] => i = j
      BY <2>1, <2>3, <2>4, <3>1 DEF AcceptedOnce
    <3> QED
      BY <2>4, <3>1, <3>2, <3>3 DEF AcceptedOnce
  <2> QED
    BY <1>4, <2>5, <2>6 DEF Accept, ConnectionsTypeOK, DialedLinks, LatestIsKept, Links, Peers
<1>5. ASSUME NEW c \in DOMAIN link, AcceptFails(c)
      PROVE  ConnectionsInv'
  BY <1>5 DEF AcceptFails, ConnectionsTypeOK, DialedLinks, AcceptedOnce, LatestIsKept, Links, Peers
<1>6. ASSUME NEW n \in Node, SaveAccepted(n)
      PROVE  ConnectionsInv'
  <2> DEFINE c == Head(accepted[n])
  <2>1. accepted[n] \in Seq(DOMAIN link) /\ accepted[n] # <<>>
    BY <1>6 DEF SaveAccepted, ConnectionsTypeOK
  <2>2. /\ c \in DOMAIN link /\ c = accepted[n][1] /\ 1 \in DOMAIN accepted[n]
        /\ Tail(accepted[n]) \in Seq(DOMAIN link)
        /\ \A i \in DOMAIN Tail(accepted[n]) :
              i + 1 \in DOMAIN accepted[n] /\ Tail(accepted[n])[i] = accepted[n][i + 1]
    BY <2>1, Unqueued
  <2>3. c \in Links(n) \intersect Links(link[c][1]) /\ link[c][1] \in Node
    BY <2>2, Ends DEF AcceptedOnce, Links
  <2>4. Register(n, link[c][1], c) /\ UNCHANGED <<link, broken>>
    BY <1>6 DEF SaveAccepted
  <2>5. /\ registry' \in [Node -> [Node -> {NoConn} \union DOMAIN link]]
        /\ latest' \in [Node -> [Node -> {NoConn} \union DOMAIN link]]
        /\ \A m, q \in Node :
              registry'[m][q] \in {NoConn} \union (Links(m) \intersect Links(q))
        /\ LatestIsKept'
    BY <2>3, <2>4, RegisterKeeps
  <2>6. accepted' = [accepted EXCEPT ![n] = Tail(accepted[n])] /\ link' = link
    BY <1>6 DEF SaveAccepted
  <2>7. accepted' \in [Node -> Seq(DOMAIN link)] /\ AcceptedOnce'
    <3>1. \A m \in Node : accepted'[m] = IF m = n THEN Tail(accepted[n]) ELSE accepted[m]
      BY <2>6 DEF ConnectionsTypeOK
    <3>2. accepted' \in [Node -> Seq(DOMAIN link)]
      BY <2>2, <2>6 DEF ConnectionsTypeOK
    <3>3. \A i \in DOMAIN Tail(accepted[n]) : i \in Nat
      BY <2>2, LenProperties
    <3>4. /\ \A i \in DOMAIN Tail(accepted[n]) :
                link[Tail(accepted[n])[i]][2] = n /\ Tail(accepted[n])[i] \notin accepting
          /\ \A i, j \in DOMAIN Tail(accepted[n]) :
                Tail(accepted[n])[i] = Tail(accepted[n])[j] => i = j
      BY <2>2, <3>3 DEF AcceptedOnce
    <3> QED
      BY <1>6, <2>6, <3>1, <3>2, <3>4 DEF AcceptedOnce, SaveAccepted
  <2> QED
    BY <1>6, <2>5, <2>6, <2>7 DEF SaveAccepted, ConnectionsTypeOK, DialedLinks, Links, Peers
<1>7. ASSUME NEW n \in Node, NEW c \in DOMAIN link, Notice(n, c)
      PROVE  ConnectionsInv'
  <2>1. noticed' \in [Node -> SUBSET broken]
    BY <1>7 DEF Notice, ConnectionsTypeOK
  <2>2. DialedLinks' /\ AcceptedOnce' /\ LatestIsKept'
    BY <1>7 DEF Notice, DialedLinks, AcceptedOnce, LatestIsKept
  <2> QED
    BY <1>7, <2>1, <2>2 DEF Notice, ConnectionsTypeOK, Links, Peers
<1>8. ASSUME NEW n \in Node, CleanUp(n)
      PROVE  ConnectionsInv'
  <2>1. \A m, q \in Node :
           registry'[m][q] = IF m = n /\ q \in Stale(n) THEN NoConn ELSE registry[m][q]
    BY <1>8 DEF CleanUp, ConnectionsTypeOK
  <2>2. registry' \in [Node -> [Node -> {NoConn} \union DOMAIN link]]
    BY <1>8 DEF CleanUp, ConnectionsTypeOK
  <2>3. LatestIsKept'
    <3>1. \A q \in Stale(n) : registry[n][q] \in broken
      BY DEF Stale, ConnectionsTypeOK
    <3> QED
      BY <1>8, <2>1, <3>1 DEF CleanUp, LatestIsKept
  <2>4. \A m, q \in Node :
           registry'[m][q] \in {NoConn} \union (Links(m)' \intersect Links(q)')
    BY <1>8, <2>1 DEF CleanUp, ConnectionsTypeOK, Links, Peers
  <2> QED
    BY <1>8, <2>2, <2>3, <2>4 DEF CleanUp, ConnectionsTypeOK, DialedLinks, AcceptedOnce
<1> QED
  BY <1>1, <1>2, <1>3, <1>4, <1>5, <1>6, <1>7, <1>8 DEF ConnectionStep

LEMMA BreakKeeps == \A c : ConnectionsInv /\ Break(c) => ConnectionsInv'
<1> SUFFICES ASSUME NEW c, ConnectionsInv, Break(c)
             PROVE  ConnectionsInv'
  OBVIOUS
<1> USE DEF ConnectionsInv
<1>1. faults' \in 0..MaxFault'[dials']
  BY ConnectionBoundAssumption DEF Break, ConnectionsTypeOK
<1> QED
  BY <1>1 DEF Break, ConnectionsTypeOK, DialedLinks, AcceptedOnce, LatestIsKept, Links, Peers

(* A node that starts again knows of no connection and has registered none. *)
LEMMA RestartKeeps ==
    ASSUME ConnectionsInv, NEW n \in Node, Restart(n)
    PROVE  ConnectionsInv'
<1> USE DEF ConnectionsInv
<1>1. /\ faults' \in 0..MaxFault[dials]
      /\ todial' \in SUBSET Node
  <2>1. {d[1] : d \in {d \in dials : d[1] = n}} \subseteq Node
    OBVIOUS
  <2> QED
    BY <2>1, ConnectionBoundAssumption DEF Restart, ConnectionsTypeOK
<1>2. /\ accepted' \in [Node -> Seq(DOMAIN link)]
      /\ \A m \in Node : accepted'[m] = IF m = n THEN <<>> ELSE accepted[m]
  BY DEF Restart, ConnectionsTypeOK
<1>3. /\ registry' \in [Node -> [Node -> {NoConn} \union DOMAIN link]]
      /\ latest' \in [Node -> [Node -> {NoConn} \union DOMAIN link]]
      /\ \A m, q \in Node :
            /\ registry'[m][q] = IF m = n THEN NoConn ELSE registry[m][q]
            /\ latest'[m][q] = IF m = n THEN NoConn ELSE latest[m][q]
  BY DEF Restart, ConnectionsTypeOK, NoEntries
<1>4. noticed' \in [Node -> SUBSET broken']
  BY DEF Restart, ConnectionsTypeOK
<1>5. /\ connecting' \subseteq DOMAIN link /\ accepting' \subseteq DOMAIN link
      /\ broken' \subseteq DOMAIN link
  BY DEF Restart, ConnectionsTypeOK, Links
<1>6. \A m, q \in Node :
         registry'[m][q] \in {NoConn} \union (Links(m) \intersect Links(q))
  BY <1>3 DEF ConnectionsTypeOK
<1>7. ConnectionsTypeOK'
  BY <1>1, <1>2, <1>3, <1>4, <1>5, <1>6 DEF Restart, ConnectionsTypeOK, Links, Peers
<1>8. DialedLinks' /\ AcceptedOnce'
  BY <1>2 DEF Restart, DialedLinks, AcceptedOnce
<1>9. LatestIsKept'
  BY <1>3 DEF Restart, LatestIsKept
<1> QED
  BY <1>7, <1>8, <1>9

-----------------------------------------------------------------------------
(* A connection enters a registry once: when the node that opened or        *)
(* accepted it registers it.                                                *)

(* n has still to register c. *)
Pending(n, c) ==
    \/ c \in connecting /\ link[c][1] = n
    \/ c \in accepting /\ link[c][2] = n
    \/ \E i \in DOMAIN accepted[n] : accepted[n][i] = c

Unused(n, c) == c \notin DOMAIN link \/ Pending(n, c)

(* What a node has used is never unused again, and what enters a registry   *)
(* was unused, and is not any more.                                         *)
UsesOnce ==
    \A n \in Node :
        /\ \A c : Unused(n, c)' => Unused(n, c)
        /\ \A p \in Node :
              \/ registry'[n][p] \in {NoConn, registry[n][p]}
              \/ \E c : registry'[n][p] = c /\ Unused(n, c) /\ ~Unused(n, c)'

LEMMA ConnectionUsesOnce == ConnectionsInv /\ ConnectionStep => UsesOnce
<1> SUFFICES ASSUME ConnectionsInv, ConnectionStep
             PROVE  UsesOnce
  OBVIOUS
<1> USE DEF ConnectionsInv
<1>1. ASSUME NEW n \in Node, NEW p \in Node, Dial(n, p)
      PROVE  UsesOnce
  <2>1. link \in Seq(Node \X Node) /\ link' = Append(link, <<n, p>>) /\ <<n, p>> \in Node \X Node
    BY <1>1 DEF Dial, ConnectionsTypeOK
  <2>2. /\ \A c \in DOMAIN link : c \in DOMAIN link' /\ link'[c] = link[c]
        /\ Len(link') \notin DOMAIN link
    BY <2>1, AppendProperties, LenProperties
  <2>3. connecting \subseteq DOMAIN link /\ accepting \subseteq DOMAIN link
    BY DEF ConnectionsTypeOK
  <2>4. ASSUME NEW m \in Node, NEW c, Unused(m, c)'
        PROVE  Unused(m, c)
    <3>1. CASE c \notin DOMAIN link
      BY <3>1 DEF Unused
    <3>2. CASE c \in DOMAIN link
      <4>1. link'[c] = link[c] /\ Pending(m, c)' /\ c # Len(link')
        BY <2>2, <2>4, <3>2 DEF Unused
      <4> QED
        BY <1>1, <4>1 DEF Unused, Pending, Dial
    <3> QED
      BY <3>1, <3>2
  <2> QED
    BY <1>1, <2>4 DEF UsesOnce, Dial
<1>2. ASSUME NEW n \in Node, DialFails(n)
      PROVE  UsesOnce
  BY <1>2 DEF DialFails, UsesOnce, Unused, Pending
<1>3. ASSUME NEW c \in DOMAIN link, RegisterDialed(c)
      PROVE  UsesOnce
  <2>1. \A d : \A m \in Node : Unused(m, d)' => Unused(m, d)
    BY <1>3 DEF RegisterDialed, Unused, Pending
  <2>2. /\ link[c][1] \in Node /\ link[c][2] \in Node /\ link[c][1] # link[c][2]
        /\ registry \in [Node -> [Node -> {NoConn} \union DOMAIN link]]
    BY Ends DEF ConnectionsTypeOK
  <2>3. \A m, q \in Node :
           registry'[m][q] # registry[m][q] => m = link[c][1] /\ registry'[m][q] = c
    BY <1>3, <2>2 DEF RegisterDialed, Register
  <2>4. Unused(link[c][1], c)
    BY <1>3 DEF RegisterDialed, Unused, Pending
  <2>5. \A m \in Node : m = link[c][1] => ~Unused(m, c)'
    BY <1>3, <2>2 DEF RegisterDialed, Unused, Pending, AcceptedOnce
  <2> QED
    BY <2>1, <2>2, <2>3, <2>4, <2>5 DEF UsesOnce
<1>4. ASSUME NEW c \in DOMAIN link, Accept(c)
      PROVE  UsesOnce
  <2>1. ASSUME NEW m \in Node, NEW d, Unused(m, d)'
        PROVE  Unused(m, d)
    <3>1. CASE m = link[c][2] /\ d = c
      BY <1>4, <3>1 DEF Accept, Unused, Pending
    <3>2. CASE \E i \in DOMAIN accepted'[m] : accepted'[m][i] = d /\ ~(m = link[c][2] /\ d = c)
      <4>1. accepted[m] \in Seq(DOMAIN link)
        BY DEF ConnectionsTypeOK
      <4>2. accepted'[m] = accepted[m] \/ (m = link[c][2] /\ accepted'[m] = Append(accepted[m], c))
        BY <1>4 DEF Accept, ConnectionsTypeOK
      <4>3. /\ DOMAIN accepted[m] = 1..Len(accepted[m]) /\ Len(accepted[m]) \in Nat
            /\ DOMAIN Append(accepted[m], c) = 1..(Len(accepted[m]) + 1)
            /\ \A i \in 1..Len(accepted[m]) : Append(accepted[m], c)[i] = accepted[m][i]
            /\ Append(accepted[m], c)[Len(accepted[m]) + 1] = c
        BY <4>1, AppendProperties, LenProperties
      <4>4. \E i \in DOMAIN accepted[m] : accepted[m][i] = d
        BY <3>2, <4>2, <4>3
      <4> QED
        BY <4>4 DEF Unused, Pending
    <3>3. CASE ~\E i \in DOMAIN accepted'[m] : accepted'[m][i] = d
      BY <1>4, <2>1, <3>3 DEF Accept, Unused, Pending
    <3> QED
      BY <3>1, <3>2, <3>3
  <2> QED
    BY <1>4, <2>1 DEF UsesOnce, Accept
<1>5. ASSUME NEW c \in DOMAIN link, AcceptFails(c)
      PROVE  UsesOnce
  BY <1>5 DEF AcceptFails, UsesOnce, Unused, Pending
<1>6. ASSUME NEW n \in Node, SaveAccepted(n)
      PROVE  UsesOnce
  <2> PICK c : c = Head(accepted[n])
    OBVIOUS
  <2>1. accepted[n] \in Seq(DOMAIN link) /\ accepted[n] # <<>>
    BY <1>6 DEF SaveAccepted, ConnectionsTypeOK
  <2>2. /\ c \in DOMAIN link /\ c = accepted[n][1] /\ 1 \in DOMAIN accepted[n]
        /\ \A i \in DOMAIN Tail(accepted[n]) :
              /\ i \in Nat \ {0}
              /\ i + 1 \in DOMAIN accepted[n] /\ Tail(accepted[n])[i] = accepted[n][i + 1]
    BY <2>1, Unqueued, LenProperties
  <2>3. /\ \A m \in Node : accepted'[m] = IF m = n THEN Tail(accepted[n]) ELSE accepted[m]
        /\ link' = link /\ connecting' = connecting /\ accepting' = accepting
    BY <1>6 DEF SaveAccepted, ConnectionsTypeOK
  <2>4. /\ link[c][1] \in Node /\ link[c][2] = n /\ link[c][1] # n
        /\ registry \in [Node -> [Node -> {NoConn} \union DOMAIN link]]
    <3>1. link[c][2] = n
      BY <2>2 DEF AcceptedOnce
    <3>2. link[c][1] \in Node /\ link[c][1] # link[c][2]
      BY <2>2, Ends
    <3> QED
      BY <3>1, <3>2 DEF ConnectionsTypeOK
  <2>5. ASSUME NEW m \in Node, NEW d, Unused(m, d)'
        PROVE  Unused(m, d)
    <3>1. (\E i \in DOMAIN accepted'[m] : accepted'[m][i] = d) =>
              \E i \in DOMAIN accepted[m] : accepted[m][i] = d
      <4>1. CASE m = n
        <5>1. accepted'[m] = Tail(accepted[n])
          BY <2>3, <4>1
        <5> QED
          BY <2>2, <4>1, <5>1
      <4> QED
        BY <2>3, <4>1
    <3> QED
      BY <2>3, <2>5, <3>1 DEF Unused, Pending
  <2>6. \A m, q \in Node : registry'[m][q] # registry[m][q] => m = n /\ registry'[m][q] = c
    BY <1>6, <2>4 DEF SaveAccepted, Register
  <2>7. Unused(n, c)
    BY <2>2 DEF Unused, Pending
  <2>8. ~Unused(n, c)'
    <3>1. \A i \in DOMAIN Tail(accepted[n]) : Tail(accepted[n])[i] # c
      BY <2>2 DEF AcceptedOnce
    <3>2. c \notin accepting
      BY <2>2 DEF AcceptedOnce
    <3> QED
      BY <2>2, <2>3, <2>4, <3>1, <3>2 DEF Unused, Pending
  <2> QED
    BY <2>4, <2>5, <2>6, <2>7, <2>8 DEF UsesOnce
<1>7. ASSUME NEW n \in Node, NEW c \in DOMAIN link, Notice(n, c)
      PROVE  UsesOnce
  BY <1>7 DEF Notice, UsesOnce, Unused, Pending
<1>8. ASSUME NEW n \in Node, CleanUp(n)
      PROVE  UsesOnce
  <2>1. \A m, q \in Node : registry'[m][q] \in {NoConn, registry[m][q]}
    BY <1>8 DEF CleanUp, ConnectionsTypeOK
  <2> QED
    BY <1>8, <2>1 DEF CleanUp, UsesOnce, Unused, Pending
<1> QED
  BY <1>1, <1>2, <1>3, <1>4, <1>5, <1>6, <1>7, <1>8 DEF ConnectionStep

LEMMA BreakUsesOnce == \A c : Break(c) => UsesOnce
BY DEF Break, UsesOnce, Unused, Pending

LEMMA RestartUsesOnce ==
    ASSUME ConnectionsInv, NEW n \in Node, Restart(n)
    PROVE  UsesOnce
<1>1. \A m \in Node : accepted'[m] = IF m = n THEN <<>> ELSE accepted[m]
  BY DEF Restart, ConnectionsInv, ConnectionsTypeOK
<1>2. \A m, q \in Node : registry'[m][q] \in {NoConn, registry[m][q]}
  BY DEF Restart, ConnectionsInv, ConnectionsTypeOK, NoEntries
<1> QED
  BY <1>1, <1>2 DEF Restart, UsesOnce, Unused, Pending

(* No connection that a node has registered is one that it has still to     *)
(* register.                                                                *)
RegisteredIsUsed ==
    \A n, p \in Node : registry[n][p] # NoConn => ~Unused(n, registry[n][p])

LEMMA RegisteredStaysUsed == RegisteredIsUsed /\ UsesOnce => RegisteredIsUsed'
BY DEF RegisteredIsUsed, UsesOnce
=============================================================================
