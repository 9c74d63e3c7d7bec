------------------------------ MODULE DataFlow ------------------------------
(***************************************************************************)
(* What bounds and blocks the traffic of connected nodes: the streams a    *)
(* connection allows, the channels of the data and the gossip handler, the *)
(* tasks that route messages to them, and the mutex around the connection  *)
(* manager, which a task keeps while it sends, for as long as that takes:  *)
(* a whole bundle, or one gossip message to every peer.                    *)
(*                                                                         *)
(* A full connection is not a dead one: both ends ping every 30 seconds,   *)
(* so that the idle timeout of transport/config.rs never ends the wait.    *)
(***************************************************************************)
EXTENDS Integers, Sequences, SequencesExt

CONSTANTS
    Node,
    Scenarios, \* what a behaviour may start from: peers[n], the nodes n is
               \* connected to; wants[n], those of them that own a repository
               \* n has no bundle of; the nodes whose services have still to
               \* register; bounds on the rounds of broadcasters and chat
               \* senders, and on the processes that stop
    Frames,    \* a bundle is Frames messages and a last one
    Hops,      \* hop budget of a fresh gossip message
    Window,    \* messages a connection holds in one direction: 100 streams,
               \* and the 32 places of the channel at the accepting side
    Capacity,  \* places in the channel of a handler (256 in the code)
    MaxAsk     \* bound: requests of a node that wait at an owner

ASSUME NodeAssumption == IsFiniteSet(Node)
ASSUME ScenariosAssumption ==
    \A s \in Scenarios :
        /\ s.peers \in [Node -> SUBSET Node]
        /\ s.wants \in [Node -> SUBSET Node]
        /\ \A n \in Node : n \notin s.peers[n] /\ s.wants[n] \subseteq s.peers[n]
        /\ s.starting \subseteq Node
        /\ {s.rounds, s.stops} \subseteq Nat
ASSUME SizeAssumption ==
    {Frames, Hops, MaxAsk} \subseteq Nat /\ {Window, Capacity} \subseteq Nat \ {0}

Channel == {"data", "gossip"}

(* The tasks that send: the data and the gossip handler, the broadcaster,   *)
(* the bundle sync and the chat sender.                                     *)
Sender == {"data", "gossip", "broadcast", "sync", "chat"}

(* Those that take the manager's mutex once, at startup. *)
Starter == {"start_gossip", "start_data", "dial"}

Message ==
    [kind : {"request"}, left : {0}]
        \union [kind : {"frame"}, left : 0..Frames]
        \union [kind : {"chat", "gossip"}, left : 0..Hops]

VARIABLES
    peers, wants, \* of the scenario, fixed by Init
    up,       \* the node's process runs
    ready,    \* ready[n]: channels that are registered with the manager
    lock,     \* lock[n]: tasks that hold n's mutex, the first, or wait for it;
              \* tokio's mutex serves them in turn
    wire,     \* wire[n][p]: messages on their way from n to p
    queue,    \* queue[n][c]: what waits in a channel, with its sender
    out,      \* out[n][t]: what a task has decided to send: rounds of messages,
              \* one for each time it takes the mutex
    got,      \* got[n]: owners whose bundle n has recorded
    rounds,   \* rounds still to come
    stops     \* stops still to come

fixed == <<peers, wants>>
bounds == <<rounds, stops>>
vars == <<fixed, up, ready, lock, wire, queue, out, got, bounds>>

TypeOK ==
    /\ peers \in [Node -> SUBSET Node] /\ wants \in [Node -> SUBSET Node]
    /\ up \in [Node -> BOOLEAN]
    /\ ready \in [Node -> SUBSET Channel]
    /\ lock \in [Node -> Seq(Sender \union Starter)]
    /\ \A n \in Node : IsInjective(lock[n])
    /\ wire \in [Node -> [Node -> Seq(Message)]]
    /\ \A n, p \in Node : Len(wire[n][p]) <= Window
    /\ queue \in [Node -> [Channel -> Seq([from : Node, msg : Message])]]
    /\ out \in [Node -> [Sender -> Seq(Seq([to : Node, msg : Message]))]]
    /\ got \in [Node -> SUBSET Node]
    /\ rounds \in Nat /\ stops \in Nat

(* The services of a node that starts are spawned, then its bootstrap node  *)
(* is dialled: they come to the mutex in any order.                         *)
Init ==
    /\ \E s \in Scenarios :
          /\ peers = s.peers /\ wants = s.wants
          /\ ready = [n \in Node |-> IF n \in s.starting THEN {} ELSE Channel]
          /\ lock \in [Node -> {<<>>} \union SetToSeqs(Starter)]
          /\ \A n \in Node : lock[n] = <<>> <=> n \notin s.starting
          /\ rounds = s.rounds /\ stops = s.stops
    /\ up = [n \in Node |-> TRUE]
    /\ wire = [n \in Node |-> [p \in Node |-> <<>>]]
    /\ queue = [n \in Node |-> [c \in Channel |-> <<>>]]
    /\ out = [n \in Node |-> [t \in Sender |-> <<>>]]
    /\ got = [n \in Node |-> {}]

Holds(n, t) == lock[n] # <<>> /\ Head(lock[n]) = t

-----------------------------------------------------------------------------
(* Startup. *)

(* Mutation of Start: a dial that is not answered does not time out. *)
StartUnlessDial(n, t) ==
    /\ Holds(n, t)
    /\ t # "dial"
    /\ lock' = [lock EXCEPT ![n] = Tail(@)]
    /\ ready' = [ready EXCEPT ![n] = @ \union
                    IF t = "start_gossip" THEN {"gossip"} ELSE {"data"}]
    /\ UNCHANGED <<fixed, up, wire, queue, out, got, bounds>>

(* GossipService::start and BundleService::start register their channels;   *)
(* the dial keeps the mutex until the handshake ends or times out.          *)
Start(n, t) ==
    /\ Holds(n, t)
    /\ lock' = [lock EXCEPT ![n] = Tail(@)]
    /\ ready' = [ready EXCEPT ![n] = @ \union
                    CASE t = "start_gossip" -> {"gossip"}
                      [] t = "start_data" -> {"data"}
                      [] t = "dial" -> {}]
    /\ UNCHANGED <<fixed, up, wire, queue, out, got, bounds>>

-----------------------------------------------------------------------------
(* Sending. *)

(* The same message to each of targets, in the order of the registry's map. *)
ToEach(targets, msg) ==
    {[i \in DOMAIN s |-> [to |-> s[i], msg |-> msg]] : s \in SetToSeqs(targets)}

(* Mutation of Plan: who finds the mutex taken is not put on the list. *)
PlanUnlisted(n, t, todo) ==
    /\ out[n][t] = <<>>
    /\ out' = [out EXCEPT ![n][t] = todo]
    /\ lock' = IF todo = <<>> \/ lock[n] # <<>> THEN lock
               ELSE [lock EXCEPT ![n] = Append(@, t)]

(* A task that was idle has something to send and asks for the mutex. *)
Plan(n, t, todo) ==
    /\ out[n][t] = <<>>
    /\ out' = [out EXCEPT ![n][t] = todo]
    /\ lock' = IF todo = <<>> THEN lock ELSE [lock EXCEPT ![n] = Append(@, t)]

(* Requests of n that p has not begun to serve. *)
Waiting(n, p) ==
    {i \in DOMAIN wire[n][p] : wire[n][p][i].kind = "request"}
        \union {-i : i \in {j \in DOMAIN queue[p]["data"] :
                             /\ queue[p]["data"][j].from = n
                             /\ queue[p]["data"][j].msg.kind = "request"}}

(* The sync task asks for a bundle that is not recorded, at every tick. *)
Ask(n, p) ==
    /\ up[n]
    /\ p \in wants[n] \ got[n]
    /\ Cardinality(Waiting(n, p)) < MaxAsk
    /\ Plan(n, "sync", <<<<[to |-> p, msg |-> [kind |-> "request", left |-> 0]]>>>>)
    /\ UNCHANGED <<fixed, up, ready, wire, queue, got, bounds>>

(* The broadcaster sends to all peers at once. *)
Broadcast(n) ==
    /\ up[n]
    /\ rounds > 0
    /\ rounds' = rounds - 1
    /\ \E sends \in ToEach(peers[n], [kind |-> "gossip", left |-> Hops]) :
          Plan(n, "broadcast", <<sends>>)
    /\ UNCHANGED <<fixed, up, ready, wire, queue, got, stops>>

(* The chat sender takes the mutex for each message anew: one to the        *)
(* receiver, if it is a peer, or else one to every peer.                    *)
SendChat(n) ==
    /\ up[n]
    /\ rounds > 0
    /\ rounds' = rounds - 1
    /\ \E targets \in {peers[n]} \union {{p} : p \in peers[n]} :
       \E sends \in ToEach(targets, [kind |-> "chat", left |-> Hops]) :
          Plan(n, "chat", [i \in DOMAIN sends |-> <<sends[i]>>])
    /\ UNCHANGED <<fixed, up, ready, wire, queue, got, stops>>

(* Mutation of Room: one more stream than the peer allows. *)
RoomForOneMore(n, p) == Len(wire[n][p]) <= Window

(* The peer allows another stream. *)
Room(n, p) == Len(wire[n][p]) < Window

(* What remains of a round: the next frame of a bundle, the next message. *)
Rest(sends) ==
    LET h == Head(sends) IN
    IF h.msg.kind = "frame" /\ h.msg.left > 0
    THEN <<[h EXCEPT !.msg.left = @ - 1]>> \o Tail(sends)
    ELSE Tail(sends)

(* Mutation of GoOn: the mutex is not asked for again. *)
GoOnUnlisted(n, t, rest) ==
    LET todo == Tail(out[n][t]) IN
    IF rest # <<>>
    THEN /\ out' = [out EXCEPT ![n][t] = <<rest>> \o todo]
         /\ UNCHANGED lock
    ELSE /\ out' = [out EXCEPT ![n][t] = todo]
         /\ lock' = [lock EXCEPT ![n] = Tail(@)]

(* The holder of the mutex keeps it until the round is over; for another    *)
(* round it asks again.                                                     *)
GoOn(n, t, rest) ==
    LET todo == Tail(out[n][t]) IN
    IF rest # <<>>
    THEN /\ out' = [out EXCEPT ![n][t] = <<rest>> \o todo]
         /\ UNCHANGED lock
    ELSE /\ out' = [out EXCEPT ![n][t] = todo]
         /\ lock' = [lock EXCEPT ![n] =
                       IF todo = <<>> THEN Tail(@) ELSE Append(Tail(@), t)]

(* There is no peer to send to. *)
SendNone(n, t) ==
    /\ Holds(n, t)
    /\ Head(out[n][t]) = <<>>
    /\ GoOn(n, t, <<>>)
    /\ UNCHANGED <<fixed, up, ready, wire, queue, got, bounds>>

(* send_message: wait for a stream, write, finish. *)
Send(n, t) ==
    /\ Holds(n, t)
    /\ Head(out[n][t]) # <<>>
    /\ LET h == Head(Head(out[n][t])) IN
         /\ up[h.to]
         /\ Room(n, h.to)
         /\ wire' = [wire EXCEPT ![n][h.to] = Append(@, h.msg)]
    /\ GoOn(n, t, Rest(Head(out[n][t])))
    /\ UNCHANGED <<fixed, up, ready, queue, got, bounds>>

(* The connection is closed: a bundle is given up, gossip goes on to the    *)
(* next peer.                                                               *)
SendFails(n, t) ==
    /\ Holds(n, t)
    /\ Head(out[n][t]) # <<>>
    /\ ~up[Head(Head(out[n][t])).to]
    /\ GoOn(n, t, Tail(Head(out[n][t])))
    /\ UNCHANGED <<fixed, up, ready, wire, queue, got, bounds>>

-----------------------------------------------------------------------------
(* Receiving. *)

(* A data message goes to the data channel, to the gossip channel if there  *)
(* is none yet, and is dropped if there is neither.                         *)
ChannelOf(n, m) ==
    IF m.kind \in {"request", "frame"} /\ "data" \in ready[n] THEN "data" ELSE "gossip"

(* Mutation of Route: a message that finds its channel full is dropped. *)
RouteOrDrop(p, n) ==
    /\ wire[p][n] # <<>>
    /\ LET m == Head(wire[p][n])
           c == ChannelOf(n, m) IN
         IF c \in ready[n] /\ Len(queue[n][c]) < Capacity
         THEN queue' = [queue EXCEPT ![n][c] = Append(@, [from |-> p, msg |-> m])]
         ELSE UNCHANGED queue
    /\ wire' = [wire EXCEPT ![p][n] = Tail(@)]
    /\ UNCHANGED <<fixed, up, ready, lock, out, got, bounds>>

(* The task that reads the connection from p: one message after the other,  *)
(* each waiting for a place in its channel.                                 *)
Route(p, n) ==
    /\ wire[p][n] # <<>>
    /\ LET m == Head(wire[p][n])
           c == ChannelOf(n, m) IN
         IF c \in ready[n]
         THEN /\ Len(queue[n][c]) < Capacity
              /\ queue' = [queue EXCEPT ![n][c] = Append(@, [from |-> p, msg |-> m])]
         ELSE UNCHANGED queue
    /\ wire' = [wire EXCEPT ![p][n] = Tail(@)]
    /\ UNCHANGED <<fixed, up, ready, lock, out, got, bounds>>

Dequeue(n, c) ==
    /\ queue[n][c] # <<>>
    /\ queue' = [queue EXCEPT ![n][c] = Tail(@)]

(* handle_bundle_request: the data handler serves it before it looks at the *)
(* next message.                                                            *)
HandleRequest(n) ==
    /\ Dequeue(n, "data")
    /\ LET d == Head(queue[n]["data"]) IN
         /\ d.msg.kind = "request"
         /\ Plan(n, "data",
                 <<<<[to |-> d.from, msg |-> [kind |-> "frame", left |-> Frames]]>>>>)
    /\ UNCHANGED <<fixed, up, ready, wire, got, bounds>>

(* A frame is written to the file; the last one records the bundle. *)
HandleFrame(n) ==
    /\ out[n]["data"] = <<>>
    /\ Dequeue(n, "data")
    /\ LET d == Head(queue[n]["data"]) IN
         /\ d.msg.kind = "frame"
         /\ got' = IF d.msg.left = 0 THEN [got EXCEPT ![n] = @ \union {d.from}] ELSE got
    /\ UNCHANGED <<fixed, up, ready, lock, wire, out, bounds>>

(* handle_incoming, for a message that is no gossip, a duplicate, or not    *)
(* signed by its sender.                                                    *)
DropGossip(n) ==
    /\ out[n]["gossip"] = <<>>
    /\ Dequeue(n, "gossip")
    /\ UNCHANGED <<fixed, up, ready, lock, wire, out, got, bounds>>

(* An ack to all peers, if msg may be a chat message for n. *)
AckRounds(n, msg) ==
    {<<>>} \union
    IF msg.kind = "chat"
    THEN {<<sends>> : sends \in ToEach(peers[n], [kind |-> "gossip", left |-> Hops])}
    ELSE {}

(* handle_incoming, for any other: the ack, and the forwarding, for which   *)
(* the mutex is taken though there may be no peer left to forward to.       *)
HandleGossip(n) ==
    /\ Dequeue(n, "gossip")
    /\ LET g == Head(queue[n]["gossip"]) IN
         /\ g.msg.kind \in {"chat", "gossip"}
         /\ \E ack \in AckRounds(n, g.msg) :
            \E sends \in ToEach(peers[n] \ {g.from}, [g.msg EXCEPT !.left = @ - 1]) :
               Plan(n, "gossip", IF g.msg.left > 0 THEN Append(ack, sends) ELSE ack)
    /\ UNCHANGED <<fixed, up, ready, wire, got, bounds>>

-----------------------------------------------------------------------------
(* A node's process stops, with all it holds; its connections close. *)
Stop(n) ==
    /\ up[n]
    /\ stops > 0
    /\ stops' = stops - 1
    /\ up' = [up EXCEPT ![n] = FALSE]
    /\ lock' = [lock EXCEPT ![n] = <<>>]
    /\ wire' = [p \in Node |-> [q \in Node |-> IF n \in {p, q} THEN <<>> ELSE wire[p][q]]]
    /\ queue' = [queue EXCEPT ![n] = [c \in Channel |-> <<>>]]
    /\ out' = [out EXCEPT ![n] = [t \in Sender |-> <<>>]]
    /\ UNCHANGED <<fixed, ready, got, rounds>>

(* Steps the program takes by itself once there is something to do. *)
Progress ==
    \/ \E n \in Node :
          HandleRequest(n) \/ HandleFrame(n) \/ DropGossip(n) \/ HandleGossip(n)
    \/ \E n \in Node, t \in Starter : Start(n, t)
    \/ \E n \in Node, t \in Sender : Send(n, t) \/ SendNone(n, t) \/ SendFails(n, t)
    \/ \E p, n \in Node : Route(p, n)

Next ==
    \/ Progress
    \/ \E n, p \in Node : Ask(n, p)
    \/ \E n \in Node : Broadcast(n) \/ SendChat(n) \/ Stop(n)

(* The tasks run, a dial ends, and the sync task ticks for ever.  Nothing   *)
(* obliges a node to announce or to stop.                                   *)
Fairness ==
    /\ \A n \in Node :
          /\ WF_vars(HandleRequest(n) \/ HandleFrame(n))
          /\ WF_vars(DropGossip(n) \/ HandleGossip(n))
          /\ WF_vars(\E t \in Starter : Start(n, t))
          /\ WF_vars(\E t \in Sender : Send(n, t) \/ SendNone(n, t) \/ SendFails(n, t))
          /\ WF_vars(\E p \in Node : Ask(n, p))
    /\ \A n, p \in Node : WF_vars(Route(p, n))

Spec == Init /\ [][Next]_vars /\ Fairness

-----------------------------------------------------------------------------
(* The sender that holds n's mutex waits for p: no stream is left, because  *)
(* p's channel for the oldest message is full, because p's handler of that  *)
(* channel has itself something to send, and waits for p's mutex or has it. *)
WaitsFor(n, p) ==
    /\ \E t \in Sender :
          /\ Holds(n, t)
          /\ Head(out[n][t]) # <<>> /\ Head(Head(out[n][t])).to = p
    /\ ~Room(n, p)
    /\ LET c == ChannelOf(p, Head(wire[n][p])) IN
         Len(queue[p][c]) >= Capacity /\ out[p][c] # <<>>

(* Some nodes wait for each other in a circle. *)
Circle(ring) == \A n \in ring : \E p \in ring : WaitsFor(n, p)
Wedged == \E ring \in (SUBSET Node) \ {{}} : Circle(ring)

Outstanding ==
    \E n \in Node :
        \/ lock[n] # <<>>
        \/ \E t \in Sender : out[n][t] # <<>>
        \/ \E c \in Channel : queue[n][c] # <<>>
        \/ \E p \in Node : wire[n][p] # <<>>

(* Some task has something to do and nothing to wait for: a handler that    *)
(* sends nothing has a message, the holder of a mutex is starting, or has a *)
(* peer it can reach or give up, or nobody to send to; a connection has a   *)
(* message whose channel has a place, or is not there.                      *)
CanGoOn ==
    \E n \in Node :
        \/ \E c \in Channel : queue[n][c] # <<>> /\ out[n][c] = <<>>
        \/ \E t \in Starter : Holds(n, t)
        \/ \E t \in Sender :
              /\ Holds(n, t)
              /\ \/ Head(out[n][t]) = <<>>
                 \/ LET p == Head(Head(out[n][t])).to IN ~up[p] \/ Room(n, p)
        \/ \E p \in Node :
              /\ wire[p][n] # <<>>
              /\ LET c == ChannelOf(n, Head(wire[p][n])) IN
                   c \in ready[n] => Len(queue[n][c]) < Capacity

(* Nothing but such a circle holds messages up: whoever stops, whatever is  *)
(* full, whatever came before its channel was registered, some task can go  *)
(* on as long as anything is left to do.                                    *)
StalledIsWedged == Outstanding => CanGoOn \/ Wedged

(* Such a circle never opens by itself: no message that is routed or        *)
(* dropped, no handler, no new round and no service that registers gets it  *)
(* moving, only the end of one of its own processes.                        *)
CirclesLast ==
    [][\A ring \in SUBSET Node :
          Circle(ring) /\ (\A n \in ring : up'[n]) => Circle(ring)']_vars

(* Both handlers come back from whatever they send, so that messages are    *)
(* taken from their channels again, unless such a circle closes: one node   *)
(* with a full queue does not hold up the others for ever, nor does one     *)
(* that stops.                                                              *)
HandlersReturn ==
    \A n \in Node :
        /\ out[n]["data"] # <<>> ~> (out[n]["data"] = <<>> \/ Wedged)
        /\ out[n]["gossip"] # <<>> ~> (out[n]["gossip"] = <<>> \/ Wedged)

(* Every node has the bundles it wants, of owners that run. *)
AllServed ==
    \A n, p \in Node : p \in wants[n] => p \in got[n] \/ ~up[n] \/ ~up[p]

(* Requests that came before the owner was ready are made again: nodes get  *)
(* the bundles they want, unless such a circle closes.                      *)
BundlesComeUnlessWedged == <>(AllServed \/ Wedged)

(* "automatically downloads bundles for external repositories": nodes get   *)
(* the bundles they want as long as they and the owners keep running.       *)
BundlesCome == <>AllServed
=============================================================================
