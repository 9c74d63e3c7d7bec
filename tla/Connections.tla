---------------------------- MODULE Connections ----------------------------
(***************************************************************************)
(* The connection registries of transport/quic.rs.  A node dials the peer  *)
(* it is bootstrapped to once, when it starts, and registers the           *)
(* connection; the peer accepts it, reads the dialer's node id and hands   *)
(* it to the task that registers it there.  A registry keeps one           *)
(* connection per peer, the one registered last.  A connection breaks, the *)
(* two ends notice in their own time, and a timer takes out of a registry  *)
(* what has closed; nothing dials again.                                   *)
(***************************************************************************)
EXTENDS Naturals, Sequences

CONSTANTS
    Node,
    Bootstraps, \* what a behaviour may be configured with
    MaxConn,    \* bound: connections
    MaxFault    \* bound, for each: connections that break and nodes that stop

ASSUME BootstrapsAssumption ==
    \A b \in Bootstraps : b \subseteq {d \in Node \X Node : d[1] # d[2]}
ASSUME ConnectionBoundAssumption ==
    MaxConn \in Nat /\ MaxFault \in [Bootstraps -> Nat]

Conn == 1..MaxConn
NoConn == 0

VARIABLES
    dials,      \* configuration: <<n, p>> if n is bootstrapped to p
    todial,     \* nodes that have started and have still to dial
    link,       \* link[c]: <<dialer, acceptor>>, for the connections opened so far
    connecting, \* connections the dialer has not registered yet
    accepting,  \* those of which the acceptor has not read the node id yet
    accepted,   \* accepted[n]: those n has accepted and not registered yet
    registry,   \* registry[n][p]: ConnectionManager::connections
    broken,     \* connections over which nothing gets through any more
    noticed,    \* noticed[n]: connections n knows to be closed
    faults,     \* breaks and stops so far
    latest      \* history: latest[n][p], the connection n registered last for p

connectionVars == <<dials, todial, link, connecting, accepting, accepted, registry,
                    broken, noticed, faults, latest>>

Peers(c) == {link[c][1], link[c][2]}
Links(n) == {c \in DOMAIN link : n \in Peers(c)}

ConnectionsTypeOK ==
    /\ dials \in Bootstraps
    /\ todial \in SUBSET Node
    /\ link \in Seq(Node \X Node) /\ Len(link) <= MaxConn
    /\ \A set \in {connecting, accepting, broken} : set \subseteq DOMAIN link
    /\ accepted \in [Node -> Seq(DOMAIN link)]
    /\ registry \in [Node -> [Node -> {NoConn} \union DOMAIN link]]
    /\ latest \in [Node -> [Node -> {NoConn} \union DOMAIN link]]
    /\ \A n, p \in Node : registry[n][p] \in {NoConn} \union (Links(n) \intersect Links(p))
    /\ noticed \in [Node -> SUBSET broken]
    /\ faults \in 0..MaxFault[dials]

NoEntries == [p \in Node |-> NoConn]

ConnectionsInit ==
    /\ dials \in Bootstraps
    /\ todial = {d[1] : d \in dials}
    /\ link = <<>>
    /\ connecting = {} /\ accepting = {}
    /\ accepted = [n \in Node |-> <<>>]
    /\ registry = [n \in Node |-> NoEntries]
    /\ broken = {}
    /\ noticed = [n \in Node |-> {}]
    /\ faults = 0
    /\ latest = [n \in Node |-> NoEntries]

-----------------------------------------------------------------------------
(* connect_to_bootstrap_node: the handshake of connect succeeds ... *)
Dial(n, p) ==
    /\ n \in todial /\ <<n, p>> \in dials
    /\ Len(link) < MaxConn
    /\ todial' = todial \ {n}
    /\ link' = Append(link, <<n, p>>)
    /\ connecting' = connecting \union {Len(link')}
    /\ accepting' = accepting \union {Len(link')}
    /\ UNCHANGED <<dials, accepted, registry, broken, noticed, faults, latest>>

(* ... or it fails: a warning, and that is that. *)
DialFails(n) ==
    /\ n \in todial
    /\ todial' = todial \ {n}
    /\ UNCHANGED <<dials, link, connecting, accepting, accepted, registry, broken,
                   noticed, faults, latest>>

(* HashMap::insert. *)
Register(n, p, c) ==
    /\ registry' = [registry EXCEPT ![n][p] = c]
    /\ latest' = [latest EXCEPT ![n][p] = c]

(* The dialer has sent its node id; if the connection is lost before that,  *)
(* connect fails.                                                           *)
RegisterDialed(c) ==
    /\ c \in connecting
    /\ connecting' = connecting \ {c}
    /\ IF c \in noticed[link[c][1]]
       THEN UNCHANGED <<registry, latest>>
       ELSE Register(link[c][1], link[c][2], c)
    /\ UNCHANGED <<dials, todial, link, accepting, accepted, broken, noticed, faults>>

(* accept_connection, one task per connection: the node id arrives, or the  *)
(* connection is lost before it does.                                       *)
Accept(c) ==
    /\ c \in accepting
    /\ accepting' = accepting \ {c}
    /\ accepted' = [accepted EXCEPT ![link[c][2]] = Append(@, c)]
    /\ UNCHANGED <<dials, todial, link, connecting, registry, broken, noticed, faults,
                   latest>>

AcceptFails(c) ==
    /\ c \in accepting
    /\ c \in noticed[link[c][2]]
    /\ accepting' = accepting \ {c}
    /\ UNCHANGED <<dials, todial, link, connecting, accepted, registry, broken, noticed,
                   faults, latest>>

(* The task that saves connections takes them in the order of the channel.  *)
SaveAccepted(n) ==
    /\ accepted[n] # <<>>
    /\ accepted' = [accepted EXCEPT ![n] = Tail(@)]
    /\ LET c == Head(accepted[n]) IN Register(n, link[c][1], c)
    /\ UNCHANGED <<dials, todial, link, connecting, accepting, broken, noticed, faults>>

-----------------------------------------------------------------------------
(* Idle timeout, or the peer closes: the end learns of it. *)
Notice(n, c) ==
    /\ c \in (broken \intersect Links(n)) \ noticed[n]
    /\ noticed' = [noticed EXCEPT ![n] = @ \union {c}]
    /\ UNCHANGED <<dials, todial, link, connecting, accepting, accepted, registry, broken,
                   faults, latest>>

(* Mutation of Stale: of every peer some connection of which has closed. *)
StaleByPeer(n) == {p \in Node : \E c \in noticed[n] : p \in Peers(c)}

(* Peers whose registered connection has a close_reason. *)
Stale(n) == {p \in Node : registry[n][p] \in noticed[n]}

(* start_connection_cleanup: one tick. *)
CleanUp(n) ==
    /\ Stale(n) # {}
    /\ registry' = [registry EXCEPT ![n] =
                      [p \in Node |-> IF p \in Stale(n) THEN NoConn ELSE @[p]]]
    /\ UNCHANGED <<dials, todial, link, connecting, accepting, accepted, broken, noticed,
                   faults, latest>>

(* The network loses a connection. *)
Break(c) ==
    /\ c \in DOMAIN link \ broken
    /\ faults < MaxFault[dials]
    /\ faults' = faults + 1
    /\ broken' = broken \union {c}
    /\ UNCHANGED <<dials, todial, link, connecting, accepting, accepted, registry, noticed,
                   latest>>

(* A node stops and starts again; its peer is not told.  What its process   *)
(* knew of connections is gone.                                             *)
Restart(n) ==
    /\ faults < MaxFault[dials]
    /\ faults' = faults + 1
    /\ todial' = todial \union {d[1] : d \in {d \in dials : d[1] = n}}
    /\ broken' = broken \union Links(n)
    /\ connecting' = {c \in connecting : link[c][1] # n}
    /\ accepting' = {c \in accepting : link[c][2] # n}
    /\ accepted' = [accepted EXCEPT ![n] = <<>>]
    /\ registry' = [registry EXCEPT ![n] = NoEntries]
    /\ latest' = [latest EXCEPT ![n] = NoEntries]
    /\ noticed' = [noticed EXCEPT ![n] = Links(n)]
    /\ UNCHANGED <<dials, link>>

(* Everything but breaks and restarts. *)
ConnectionStep ==
    \/ \E n \in Node : \/ \E p \in Node : Dial(n, p)
                       \/ DialFails(n) \/ SaveAccepted(n) \/ CleanUp(n)
                       \/ \E c \in DOMAIN link : Notice(n, c)
    \/ \E c \in DOMAIN link : RegisterDialed(c) \/ Accept(c) \/ AcceptFails(c)

-----------------------------------------------------------------------------
(* send_message of n to p finds the registered connection and opens a       *)
(* stream on it; that fails once n knows it to be closed.  What is sent on  *)
(* a broken connection before that is lost.                                 *)
CanSend(n, p) == registry[n][p] # NoConn /\ registry[n][p] \notin noticed[n]
Arrives(n, p) == CanSend(n, p) /\ registry[n][p] \notin broken

(* A node keeps the connection it registered last, as long as it has not    *)
(* broken: neither an earlier connection that closes, nor the cleanup that  *)
(* follows, takes a peer that has come back out of the registry.            *)
LatestIsKept ==
    \A n, p \in Node :
        latest[n][p] # NoConn /\ latest[n][p] \notin broken => registry[n][p] = latest[n][p]
=============================================================================
