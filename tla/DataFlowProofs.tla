--------------------------- MODULE DataFlowProofs ---------------------------
(***************************************************************************)
(* Proofs about module DataFlow, for any nodes, peers, wishes, rounds and  *)
(* stops, and for windows, channels and bundles of any size.               *)
(***************************************************************************)
EXTENDS DataFlow, FiniteSetTheorems, SequenceTheorems, TLAPS

ToSend == [to : Node, msg : Message]
Received == [from : Node, msg : Message]

LEMMA Sizes == /\ Frames \in Nat /\ Hops \in Nat
               /\ Window \in Nat \ {0} /\ Capacity \in Nat \ {0}
BY SizeAssumption

LEMMA TaskNames == Sender \intersect Starter = {} /\ Channel \subseteq Sender
BY DEF Sender, Starter, Channel

LEMMA Messages ==
    /\ \A m \in Message :
          /\ m.kind \in {"request", "frame", "chat", "gossip"}
          /\ m.kind = "frame" => m.left \in 0..Frames
          /\ m.kind \in {"chat", "gossip"} => m.left \in 0..Hops
    /\ [kind |-> "request", left |-> 0] \in Message
    /\ \A k \in 0..Frames : [kind |-> "frame", left |-> k] \in Message
    /\ \A kind \in {"chat", "gossip"} : \A k \in 0..Hops : [kind |-> kind, left |-> k] \in Message
<1>1. \A m \in Message :
          /\ m.kind \in {"request", "frame", "chat", "gossip"}
          /\ m.kind = "frame" => m.left \in 0..Frames
          /\ m.kind \in {"chat", "gossip"} => m.left \in 0..Hops
  BY DEF Message
<1>2. [kind |-> "request", left |-> 0] \in Message
  BY DEF Message
<1>3. \A k \in 0..Frames : [kind |-> "frame", left |-> k] \in Message
  BY DEF Message
<1>4. \A kind \in {"chat", "gossip"} : \A k \in 0..Hops :
         [kind |-> kind, left |-> k] \in Message
  BY DEF Message
<1> QED
  BY <1>1, <1>2, <1>3, <1>4

(* One less. *)
LEMMA LessLeft ==
    \A m \in Message :
        m.kind # "request" /\ m.left > 0 => [m EXCEPT !.left = @ - 1] \in Message
<1> SUFFICES ASSUME NEW m \in Message, m.kind # "request", m.left > 0
             PROVE  [m EXCEPT !.left = @ - 1] \in Message
  OBVIOUS
<1>1. CASE m \in [kind : {"frame"}, left : 0..Frames]
  <2>1. m.left - 1 \in 0..Frames
    BY <1>1, Sizes
  <2> QED
    BY <1>1, <2>1 DEF Message
<1>2. CASE m \in [kind : {"chat", "gossip"}, left : 0..Hops]
  <2>1. m.left - 1 \in 0..Hops
    BY <1>2, Sizes
  <2> QED
    BY <1>2, <2>1 DEF Message
<1>3. m \notin [kind : {"request"}, left : {0}]
  OBVIOUS
<1> QED
  BY <1>1, <1>2, <1>3 DEF Message

(* The same message to each of some nodes is a sequence of messages. *)
LEMMA ToEachTypes ==
    ASSUME NEW targets \in SUBSET Node, NEW msg, NEW sends \in ToEach(targets, msg)
    PROVE  msg \in Message => sends \in Seq(ToSend)
<1>1. Cardinality(targets) \in Nat
  BY NodeAssumption, FS_Subset, FS_CardinalityType
<1>2. PICK s \in SetToSeqs(targets) : sends = [i \in DOMAIN s |-> [to |-> s[i], msg |-> msg]]
  BY DEF ToEach
<1>3. s \in [1..Cardinality(targets) -> targets]
  BY <1>2 DEF SetToSeqs
<1>4. ASSUME msg \in Message
      PROVE  sends \in [1..Cardinality(targets) -> ToSend]
  BY <1>2, <1>3, <1>4 DEF ToSend
<1> QED
  BY <1>1, <1>4, SeqDef

-----------------------------------------------------------------------------
(* The invariant. *)

(* A task is on the mutex's list exactly while it has something to send. *)
On(list, t) == \E i \in DOMAIN list : list[i] = t
Listed(n, t) == On(lock[n], t)
ListedToSend == \A n \in Node : \A t \in Sender : Listed(n, t) <=> out[n][t] # <<>>

(* The data channel holds data messages only. *)
OnlyData ==
    \A n \in Node : \A i \in DOMAIN queue[n]["data"] :
        queue[n]["data"][i].msg.kind \in {"request", "frame"}

(* The parts of the state that a task changes when it sends. *)
Tasks ==
    /\ lock \in [Node -> Seq(Sender \union Starter)]
    /\ \A n \in Node : IsInjective(lock[n])
    /\ out \in [Node -> [Sender -> Seq(Seq(ToSend))]]
    /\ ListedToSend

Messaging ==
    /\ peers \in [Node -> SUBSET Node] /\ wants \in [Node -> SUBSET Node]
    /\ up \in [Node -> BOOLEAN]
    /\ ready \in [Node -> SUBSET Channel]
    /\ wire \in [Node -> [Node -> Seq(Message)]]
    /\ \A n, p \in Node : Len(wire[n][p]) <= Window
    /\ queue \in [Node -> [Channel -> Seq(Received)]]
    /\ OnlyData
    /\ got \in [Node -> SUBSET Node]
    /\ rounds \in Nat /\ stops \in Nat

FlowInv == Tasks /\ Messaging

LEMMA FlowTypes == FlowInv => TypeOK
BY DEF FlowInv, Tasks, Messaging, TypeOK, ToSend, Received

(* The holder of a mutex has something to send, or is starting. *)
LEMMA HolderSends ==
    ASSUME Tasks, NEW n \in Node, lock[n] # <<>>
    PROVE  /\ Head(lock[n]) \in Sender \union Starter
           /\ \A t \in Sender : Holds(n, t) =>
                 out[n][t] # <<>> /\ Head(out[n][t]) \in Seq(ToSend)
<1>1. lock[n] \in Seq(Sender \union Starter)
  BY DEF Tasks
<1>2. /\ Head(lock[n]) \in Sender \union Starter
      /\ 1 \in DOMAIN lock[n] /\ Head(lock[n]) = lock[n][1]
  BY <1>1, HeadTailProperties, EmptySeq, LenProperties
<1>3. ASSUME NEW t \in Sender, Holds(n, t)
      PROVE  out[n][t] # <<>> /\ Head(out[n][t]) \in Seq(ToSend)
  <2>1. Listed(n, t)
    BY <1>2, <1>3 DEF Holds, Listed, On
  <2>2. out[n][t] # <<>> /\ out[n][t] \in Seq(Seq(ToSend))
    BY <2>1 DEF Tasks, ListedToSend
  <2> QED
    BY <2>2, HeadTailProperties
<1> QED
  BY <1>2, <1>3

-----------------------------------------------------------------------------
(* Who is stalled. *)

(* A message on the wire that cannot go on: its channel is full, and the    *)
(* handler of the channel has something to send.                            *)
LEMMA FullChannel ==
    ASSUME FlowInv, ~CanGoOn, NEW n \in Node, NEW p \in Node, wire[n][p] # <<>>
    PROVE  LET c == ChannelOf(p, Head(wire[n][p])) IN
           c \in Channel /\ Len(queue[p][c]) >= Capacity /\ out[p][c] # <<>>
<1> DEFINE c == ChannelOf(p, Head(wire[n][p]))
<1>1. c \in Channel
  BY DEF ChannelOf, Channel
<1>2. c \in ready[p] /\ ~(Len(queue[p][c]) < Capacity)
  BY DEF CanGoOn
<1> HIDE DEF c
<1>3. queue[p][c] \in Seq(Received)
  BY <1>1 DEF FlowInv, Messaging
<1>4. Len(queue[p][c]) \in Nat /\ Len(queue[p][c]) >= Capacity /\ queue[p][c] # <<>>
  BY <1>2, <1>3, Sizes, LenProperties, EmptySeq
<1>5. out[p][c] # <<>>
  BY <1>1, <1>4 DEF CanGoOn
<1> QED
  BY <1>1, <1>4, <1>5 DEF c

(* A handler that has something to send is on the list. *)
LEMMA HandlerListed ==
    ASSUME FlowInv, NEW p \in Node, NEW t \in Sender, out[p][t] # <<>>
    PROVE  lock[p] # <<>>
<1>1. Listed(p, t) /\ lock[p] \in Seq(Sender \union Starter)
  BY DEF FlowInv, Tasks, ListedToSend
<1> QED
  BY <1>1, EmptySeq, LenProperties DEF Listed, On

(* A mutex that is held is held by a sender that waits for a node whose     *)
(* mutex is held.                                                           *)
LEMMA HolderWaits ==
    ASSUME FlowInv, ~CanGoOn, NEW n \in Node, lock[n] # <<>>
    PROVE  \E p \in Node : WaitsFor(n, p) /\ lock[p] # <<>>
<1>1. PICK t \in Sender : Holds(n, t)
  <2>1. Head(lock[n]) \in Sender \union Starter
    BY HolderSends DEF FlowInv
  <2>2. Head(lock[n]) \notin Starter
    BY DEF CanGoOn, Holds
  <2> QED
    BY <2>1, <2>2 DEF Holds
<1>2. /\ Head(out[n][t]) \in Seq(ToSend)
      /\ Head(out[n][t]) # <<>>
  BY <1>1, HolderSends DEF CanGoOn, FlowInv
<1>3. PICK p \in Node : p = Head(Head(out[n][t])).to
  <2>1. Head(Head(out[n][t])) \in ToSend
    BY <1>2, HeadTailProperties
  <2> QED
    BY <2>1 DEF ToSend
<1>4. up[p] /\ ~Room(n, p)
  BY <1>1, <1>3 DEF CanGoOn
<1>5. wire[n][p] # <<>>
  <2>1. wire[n][p] \in Seq(Message)
    BY DEF FlowInv, Messaging
  <2> QED
    BY <1>4, <2>1, Sizes, EmptySeq, LenProperties DEF Room
<1>6. WaitsFor(n, p)
  BY <1>1, <1>2, <1>3, <1>4, <1>5, FullChannel DEF WaitsFor
<1>7. lock[p] # <<>>
  BY <1>5, FullChannel, HandlerListed, TaskNames
<1> QED
  BY <1>6, <1>7

(* If nobody can go on, the nodes whose mutex is held wait for each other,  *)
(* and every message left over waits for one of them.                       *)
LEMMA StalledInACircle == FlowInv => StalledIsWedged
<1> SUFFICES ASSUME FlowInv, Outstanding, ~CanGoOn
             PROVE  Wedged
  BY DEF StalledIsWedged
<1> DEFINE ring == {n \in Node : lock[n] # <<>>}
<1>1. \A n \in ring : \E p \in ring : WaitsFor(n, p)
  BY HolderWaits
<1>2. ring # {}
  <2>1. PICK n \in Node :
           \/ lock[n] # <<>>
           \/ \E t \in Sender : out[n][t] # <<>>
           \/ \E c \in Channel : queue[n][c] # <<>>
           \/ \E p \in Node : wire[n][p] # <<>>
    BY DEF Outstanding
  <2>2. CASE lock[n] # <<>>
    BY <2>2
  <2>3. CASE \E t \in Sender : out[n][t] # <<>>
    BY <2>3, HandlerListed
  <2>4. CASE \E c \in Channel : queue[n][c] # <<>>
    <3>1. PICK c \in Channel : out[n][c] # <<>>
      BY <2>4 DEF CanGoOn
    <3> QED
      BY <3>1, TaskNames, HandlerListed
  <2>5. CASE \E p \in Node : wire[n][p] # <<>>
    <3>1. PICK p \in Node : wire[n][p] # <<>>
      BY <2>5
    <3>2. PICK c \in Channel : out[p][c] # <<>>
      BY <3>1, FullChannel
    <3> QED
      BY <3>2, TaskNames, HandlerListed
  <2> QED
    BY <2>1, <2>2, <2>3, <2>4, <2>5
<1>3. ring \in (SUBSET Node) \ {{}}
  BY <1>2
<1> HIDE DEF ring
<1> QED
  BY <1>1, <1>3 DEF Wedged, Circle

-----------------------------------------------------------------------------
(* Coming to the mutex, keeping it and giving it up. *)

(* On a list to which t is appended are t and what was on it before. *)
LEMMA AppendAdds ==
    ASSUME NEW S, NEW s \in Seq(S), NEW t \in S, NEW u
    PROVE  On(Append(s, t), u) <=> u = t \/ On(s, u)
<1>1. /\ Append(s, t) \in Seq(S) /\ Len(Append(s, t)) = Len(s) + 1
      /\ \A i \in 1..Len(s) : Append(s, t)[i] = s[i]
      /\ Append(s, t)[Len(s) + 1] = t
  BY AppendProperties
<1>2. DOMAIN s = 1..Len(s) /\ DOMAIN Append(s, t) = 1..(Len(s) + 1) /\ Len(s) \in Nat
  BY <1>1, LenProperties
<1>3. \A i \in DOMAIN Append(s, t) : i \in DOMAIN s \/ i = Len(s) + 1
  BY <1>2
<1>4. ASSUME NEW i \in DOMAIN s
      PROVE  i \in DOMAIN Append(s, t) /\ Append(s, t)[i] = s[i]
  BY <1>1, <1>2
<1>5. Len(s) + 1 \in DOMAIN Append(s, t)
  BY <1>2
<1> QED
  BY <1>1, <1>2, <1>3, <1>4, <1>5 DEF On

(* Who comes to the mutex and is not on its list is put on it, once. *)
LEMMA AppendInjectiveTask ==
    ASSUME NEW S, NEW s \in Seq(S), NEW t \in S, IsInjective(s), ~On(s, t)
    PROVE  /\ Append(s, t) \in Seq(S) /\ IsInjective(Append(s, t))
           /\ \A u : On(Append(s, t), u) <=> u = t \/ On(s, u)
<1>1. /\ Append(s, t) \in Seq(S) /\ Len(Append(s, t)) = Len(s) + 1
      /\ \A i \in 1..Len(s) : Append(s, t)[i] = s[i]
      /\ Append(s, t)[Len(s) + 1] = t
  BY AppendProperties
<1>2. DOMAIN s = 1..Len(s) /\ DOMAIN Append(s, t) = 1..(Len(s) + 1) /\ Len(s) \in Nat
  BY <1>1, LenProperties
<1>3. \A i \in DOMAIN Append(s, t) : i \in DOMAIN s \/ i = Len(s) + 1
  BY <1>2
<1>4. IsInjective(Append(s, t))
  BY <1>1, <1>2, <1>3 DEF IsInjective, On
<1>5. ASSUME NEW u
      PROVE  On(Append(s, t), u) <=> u = t \/ On(s, u)
  BY AppendAdds
<1> QED
  BY <1>1, <1>4, <1>5

(* Who gives it up is on it no longer; the others are. *)
LEMMA TailInjectiveTask ==
    ASSUME NEW S, NEW s \in Seq(S), s # <<>>, IsInjective(s)
    PROVE  /\ Tail(s) \in Seq(S) /\ IsInjective(Tail(s))
           /\ \A u : On(Tail(s), u) <=> u # Head(s) /\ On(s, u)
<1>1. /\ Tail(s) \in Seq(S) /\ Len(Tail(s)) = Len(s) - 1
      /\ \A i \in 1..Len(Tail(s)) : Tail(s)[i] = s[i + 1]
      /\ Head(s) = s[1]
  BY HeadTailProperties
<1>2. /\ DOMAIN s = 1..Len(s) /\ DOMAIN Tail(s) = 1..(Len(s) - 1) /\ Len(s) \in Nat \ {0}
  BY <1>1, LenProperties, EmptySeq
<1>3. ASSUME NEW i \in DOMAIN Tail(s)
      PROVE  i + 1 \in DOMAIN s /\ Tail(s)[i] = s[i + 1] /\ i \in Nat \ {0}
  BY <1>1, <1>2
<1>4. IsInjective(Tail(s))
  <2> SUFFICES ASSUME NEW i \in DOMAIN Tail(s), NEW j \in DOMAIN Tail(s), Tail(s)[i] = Tail(s)[j]
               PROVE  i = j
    BY DEF IsInjective
  <2>1. i + 1 = j + 1
    BY <1>3 DEF IsInjective
  <2> QED
    BY <1>3, <2>1
<1>5. ASSUME NEW u
      PROVE  On(Tail(s), u) <=> u # Head(s) /\ On(s, u)
  <2>1. ASSUME NEW i \in DOMAIN Tail(s)
        PROVE  Tail(s)[i] # Head(s)
    <3>1. i + 1 # 1 /\ 1 \in DOMAIN s
      BY <1>2, <1>3
    <3> QED
      BY <1>1, <1>3, <3>1 DEF IsInjective
  <2>2. ASSUME NEW i \in DOMAIN s, s[i] # Head(s)
        PROVE  \E j \in DOMAIN Tail(s) : Tail(s)[j] = s[i]
    <3>1. i - 1 \in DOMAIN Tail(s) /\ (i - 1) + 1 = i
      BY <1>1, <1>2, <2>2
    <3> QED
      BY <1>3, <3>1
  <2> QED
    BY <1>3, <2>1, <2>2 DEF On
<1> QED
  BY <1>1, <1>4, <1>5

(* What is left to show: of one node, one task. *)
LEMMA OneTask ==
    ASSUME Tasks, NEW n \in Node, NEW t \in Sender,
           NEW list \in Seq(Sender \union Starter), NEW todo \in Seq(Seq(ToSend)),
           lock' = [lock EXCEPT ![n] = list], out' = [out EXCEPT ![n][t] = todo],
           IsInjective(list),
           \A u \in Sender \ {t} : On(list, u) <=> Listed(n, u),
           On(list, t) <=> todo # <<>>
    PROVE  Tasks'
<1>1. /\ lock \in [Node -> Seq(Sender \union Starter)]
      /\ out \in [Node -> [Sender -> Seq(Seq(ToSend))]]
  BY DEF Tasks
<1>2. /\ lock' \in [Node -> Seq(Sender \union Starter)]
      /\ lock'[n] = list /\ \A m \in Node \ {n} : lock'[m] = lock[m]
  BY <1>1
<1>3. /\ out' \in [Node -> [Sender -> Seq(Seq(ToSend))]]
      /\ out'[n][t] = todo
      /\ \A m \in Node : \A u \in Sender : <<m, u>> # <<n, t>> => out'[m][u] = out[m][u]
  <2>1. [out[n] EXCEPT ![t] = todo] \in [Sender -> Seq(Seq(ToSend))]
    BY <1>1
  <2>2. out' = [out EXCEPT ![n] = [out[n] EXCEPT ![t] = todo]]
    OBVIOUS
  <2> QED
    BY <1>1, <2>1, <2>2
<1>4. \A m \in Node : IsInjective(lock'[m])
  BY <1>2 DEF Tasks
<1>5. ASSUME NEW m \in Node, NEW u \in Sender
      PROVE  Listed(m, u)' <=> out'[m][u] # <<>>
  <2>1. CASE m # n
    BY <1>2, <1>3, <2>1 DEF Tasks, ListedToSend, Listed
  <2>2. CASE m = n /\ u # t
    <3>1. Listed(n, u)' <=> On(list, u)
      BY <1>2 DEF Listed
    <3>2. Listed(n, u) <=> out[n][u] # <<>>
      BY DEF Tasks, ListedToSend
    <3>3. out'[n][u] = out[n][u]
      BY <1>3, <2>2
    <3> QED
      BY <2>2, <3>1, <3>2, <3>3
  <2>3. CASE m = n /\ u = t
    BY <1>2, <1>3, <2>3 DEF Listed
  <2> QED
    BY <2>1, <2>2, <2>3
<1> QED
  BY <1>2, <1>3, <1>4, <1>5 DEF Tasks, ListedToSend

(* A task that asks for the mutex, and one that has sent a message. *)
LEMMA PlanKeeps ==
    ASSUME Tasks, NEW n \in Node, NEW t \in Sender, NEW todo \in Seq(Seq(ToSend)),
           Plan(n, t, todo)
    PROVE  Tasks'
<1>1. /\ lock[n] \in Seq(Sender \union Starter) /\ IsInjective(lock[n])
      /\ lock \in [Node -> Seq(Sender \union Starter)]
      /\ ~On(lock[n], t)
  BY DEF Plan, Tasks, ListedToSend, Listed
<1>2. CASE todo = <<>>
  <2>1. lock' = [lock EXCEPT ![n] = lock[n]]
    BY <1>1, <1>2 DEF Plan
  <2>2. out' = [out EXCEPT ![n][t] = todo]
    BY DEF Plan
  <2> QED
    BY <1>1, <1>2, <2>1, <2>2, OneTask DEF Listed
<1>3. CASE todo # <<>>
  <2> DEFINE list == Append(lock[n], t)
  <2>1. /\ lock' = [lock EXCEPT ![n] = list]
        /\ out' = [out EXCEPT ![n][t] = todo]
    BY <1>3 DEF Plan
  <2>2. /\ list \in Seq(Sender \union Starter) /\ IsInjective(list)
        /\ \A u : On(list, u) <=> u = t \/ On(lock[n], u)
    <3> DEFINE S == Sender \union Starter
    <3>1. PICK held \in Seq(S) : held = lock[n]
      BY <1>1
    <3>2. IsInjective(held) /\ t \in S /\ ~On(held, t)
      BY <1>1, <3>1
    <3> HIDE DEF S, list
    <3>3. /\ Append(held, t) \in Seq(S) /\ IsInjective(Append(held, t))
          /\ \A u : On(Append(held, t), u) <=> u = t \/ On(held, u)
      <4>1. Append(held, t) \in Seq(S) /\ IsInjective(Append(held, t))
        BY <3>2, AppendInjectiveTask
      <4>2. ASSUME NEW u
            PROVE  On(Append(held, t), u) <=> u = t \/ On(held, u)
        BY <3>2, AppendAdds
      <4> QED
        BY <4>1, <4>2
    <3> QED
      BY <3>1, <3>3 DEF S, list
  <2>3. \A u \in Sender \ {t} : On(list, u) <=> Listed(n, u)
    BY <2>2 DEF Listed
  <2>4. On(list, t) <=> todo # <<>>
    BY <1>3, <2>2
  <2> HIDE DEF list
  <2> QED
    BY <2>1, <2>2, <2>3, <2>4, OneTask
<1> QED
  BY <1>2, <1>3

LEMMA GoOnKeeps ==
    ASSUME Tasks, NEW n \in Node, NEW t \in Sender, NEW rest \in Seq(ToSend),
           Holds(n, t), GoOn(n, t, rest)
    PROVE  Tasks'
<1> DEFINE todo == Tail(out[n][t])
<1>1. /\ lock[n] \in Seq(Sender \union Starter) /\ IsInjective(lock[n])
      /\ lock \in [Node -> Seq(Sender \union Starter)]
      /\ lock[n] # <<>> /\ Head(lock[n]) = t
      /\ \A u \in Sender : Listed(n, u) <=> out[n][u] # <<>>
  BY DEF Holds, Tasks, ListedToSend
<1>2. out[n][t] # <<>> /\ out[n][t] \in Seq(Seq(ToSend))
  BY <1>1, HolderSends DEF Tasks
<1>3. todo \in Seq(Seq(ToSend))
  BY <1>2, HeadTailProperties
<1>4. CASE rest # <<>>
  <2>1. <<rest>> \o todo \in Seq(Seq(ToSend)) /\ <<rest>> \o todo # <<>>
    BY <1>3, ConcatProperties, ConcatEqualIffEmpty
  <2>2. /\ lock' = [lock EXCEPT ![n] = lock[n]]
        /\ out' = [out EXCEPT ![n][t] = <<rest>> \o todo]
    BY <1>1, <1>4 DEF GoOn
  <2>3. Listed(n, t)
    BY <1>1, <1>2
  <2> HIDE DEF todo
  <2> QED
    BY <1>1, <2>1, <2>2, <2>3, OneTask DEF Listed
<1>5. CASE rest = <<>>
  <2> DEFINE short == Tail(lock[n])
             list == IF todo = <<>> THEN short ELSE Append(short, t)
  <2>1. /\ lock' = [lock EXCEPT ![n] = list]
        /\ out' = [out EXCEPT ![n][t] = todo]
    BY <1>5 DEF GoOn
  <2>2. /\ short \in Seq(Sender \union Starter) /\ IsInjective(short)
        /\ \A u : On(short, u) <=> u # t /\ Listed(n, u)
    BY <1>1, TailInjectiveTask DEF Listed
  <2> HIDE DEF short, todo
  <2>3. /\ Append(short, t) \in Seq(Sender \union Starter) /\ IsInjective(Append(short, t))
        /\ \A u : On(Append(short, t), u) <=> u = t \/ On(short, u)
    <3> DEFINE S == Sender \union Starter
    <3>1. short \in Seq(S) /\ t \in S /\ ~On(short, t)
      BY <2>2
    <3> HIDE DEF S
    <3>2. /\ Append(short, t) \in Seq(S) /\ IsInjective(Append(short, t))
          /\ \A u : On(Append(short, t), u) <=> u = t \/ On(short, u)
      BY <2>2, <3>1, AppendInjectiveTask
    <3> QED
      BY <3>2 DEF S
  <2>4. /\ list \in Seq(Sender \union Starter) /\ IsInjective(list)
        /\ \A u \in Sender \ {t} : On(list, u) <=> Listed(n, u)
        /\ On(list, t) <=> todo # <<>>
    BY <2>2, <2>3
  <2> HIDE DEF list
  <2> QED
    BY <1>3, <2>1, <2>4, OneTask
<1> QED
  BY <1>4, <1>5

-----------------------------------------------------------------------------
(* Messages that wait. *)

LEMMA StillMessaging ==
    ASSUME Messaging, UNCHANGED <<fixed, up, ready, wire, queue, got>>,
           rounds' \in Nat, stops' \in Nat
    PROVE  Messaging'
BY DEF Messaging, OnlyData, fixed

LEMMA StillTasks == ASSUME Tasks, UNCHANGED <<lock, out>> PROVE Tasks'
BY DEF Tasks, ListedToSend, Listed

(* Taking the first message of a channel. *)
LEMMA DequeueKeeps ==
    ASSUME Messaging, NEW n \in Node, NEW c \in Channel, Dequeue(n, c),
           UNCHANGED <<fixed, up, ready, wire, bounds>>, got' \in [Node -> SUBSET Node]
    PROVE  /\ Messaging'
           /\ Head(queue[n][c]) \in Received
           /\ c = "data" => Head(queue[n][c]).msg.kind \in {"request", "frame"}
<1>1. queue \in [Node -> [Channel -> Seq(Received)]]
  BY DEF Messaging
<1>2. queue[n][c] \in Seq(Received) /\ queue[n][c] # <<>>
  BY <1>1 DEF Dequeue
<1>3. PICK q \in Seq(Received) : q = queue[n][c]
  BY <1>2
<1>4. /\ Tail(q) \in Seq(Received) /\ Head(q) \in Received /\ Head(q) = q[1]
      /\ 1 \in DOMAIN q
      /\ \A i \in DOMAIN Tail(q) : i + 1 \in DOMAIN q /\ Tail(q)[i] = q[i + 1]
  <2>1. /\ Tail(q) \in Seq(Received) /\ Head(q) \in Received /\ Head(q) = q[1]
        /\ Len(Tail(q)) = Len(q) - 1
        /\ \A i \in 1..Len(Tail(q)) : Tail(q)[i] = q[i + 1]
    BY <1>2, <1>3, HeadTailProperties
  <2>2. DOMAIN q = 1..Len(q) /\ DOMAIN Tail(q) = 1..(Len(q) - 1) /\ Len(q) \in Nat \ {0}
    BY <1>2, <1>3, <2>1, LenProperties, EmptySeq
  <2> QED
    BY <2>1, <2>2
<1>5. /\ queue' \in [Node -> [Channel -> Seq(Received)]]
      /\ queue'[n][c] = Tail(q)
      /\ \A m \in Node : \A d \in Channel : <<m, d>> # <<n, c>> => queue'[m][d] = queue[m][d]
  <2>1. [queue[n] EXCEPT ![c] = Tail(q)] \in [Channel -> Seq(Received)]
    BY <1>1, <1>4
  <2>2. queue' = [queue EXCEPT ![n] = [queue[n] EXCEPT ![c] = Tail(q)]]
    BY <1>3 DEF Dequeue
  <2> QED
    BY <1>1, <2>1, <2>2
<1>6. OnlyData'
  <2> SUFFICES ASSUME NEW m \in Node, NEW i \in DOMAIN queue'[m]["data"]
               PROVE  queue'[m]["data"][i].msg.kind \in {"request", "frame"}
    BY DEF OnlyData
  <2>1. OnlyData
    BY DEF Messaging
  <2>2. CASE m = n /\ c = "data"
    <3>1. queue'[m]["data"] = Tail(q) /\ queue[m]["data"] = q
      BY <1>3, <1>5, <2>2
    <3>2. i + 1 \in DOMAIN q /\ Tail(q)[i] = q[i + 1]
      BY <1>4, <3>1
    <3>3. q[i + 1].msg.kind \in {"request", "frame"}
      BY <2>1, <3>1, <3>2 DEF OnlyData
    <3> QED
      BY <3>1, <3>2, <3>3
  <2>3. CASE ~(m = n /\ c = "data")
    <3>1. queue'[m]["data"] = queue[m]["data"]
      BY <1>5, <2>3 DEF Channel
    <3> QED
      BY <2>1, <3>1 DEF OnlyData
  <2> QED
    BY <2>2, <2>3
<1>7. c = "data" => Head(queue[n][c]).msg.kind \in {"request", "frame"}
  BY <1>3, <1>4 DEF Messaging, OnlyData
<1> QED
  BY <1>3, <1>4, <1>5, <1>6, <1>7 DEF Messaging, fixed, bounds

(* What remains of a round is a round. *)
LEMMA RestTypes ==
    ASSUME NEW sends \in Seq(ToSend), sends # <<>>
    PROVE  /\ Rest(sends) \in Seq(ToSend) /\ Tail(sends) \in Seq(ToSend)
           /\ Head(sends) \in ToSend
<1>1. Tail(sends) \in Seq(ToSend) /\ Head(sends) \in ToSend
  BY HeadTailProperties
<1>2. PICK h \in ToSend : h = Head(sends)
  BY <1>1
<1>3. CASE h.msg.kind = "frame" /\ h.msg.left > 0
  <2>1. h.to \in Node /\ h.msg \in Message
    BY DEF ToSend
  <2>2. PICK m \in Message : m = [h.msg EXCEPT !.left = @ - 1]
    BY <1>3, <2>1, LessLeft
  <2>3. [h EXCEPT !.msg = m] \in ToSend
    BY <2>1 DEF ToSend
  <2>4. [h EXCEPT !.msg.left = @ - 1] = [h EXCEPT !.msg = m]
    BY <2>2
  <2>5. <<[h EXCEPT !.msg.left = @ - 1]>> \o Tail(sends) \in Seq(ToSend)
    BY <1>1, <2>3, <2>4, ConcatProperties
  <2> QED
    BY <1>1, <1>2, <1>3, <2>5 DEF Rest
<1>4. CASE ~(h.msg.kind = "frame" /\ h.msg.left > 0)
  BY <1>1, <1>2, <1>4 DEF Rest
<1> QED
  BY <1>1, <1>3, <1>4

-----------------------------------------------------------------------------
(* The actions keep the invariant. *)

LEMMA StartKeeps ==
    ASSUME FlowInv, NEW n \in Node, NEW t \in Starter, Start(n, t) PROVE FlowInv'
<1>1. /\ lock \in [Node -> Seq(Sender \union Starter)]
      /\ lock[n] \in Seq(Sender \union Starter) /\ IsInjective(lock[n])
      /\ lock[n] # <<>> /\ Head(lock[n]) = t
  BY DEF FlowInv, Tasks, Start, Holds
<1>2. PICK list \in Seq(Sender \union Starter) : list = Tail(lock[n])
  BY <1>1, HeadTailProperties
<1>3. IsInjective(list) /\ \A u : On(list, u) <=> u # t /\ On(lock[n], u)
  BY <1>1, <1>2, TailInjectiveTask
<1>4. /\ lock' = [lock EXCEPT ![n] = list]
      /\ UNCHANGED out
  BY <1>2 DEF Start
<1>5. Tasks'
  <2>1. /\ lock' \in [Node -> Seq(Sender \union Starter)]
        /\ \A m \in Node : IsInjective(lock'[m])
    BY <1>1, <1>3, <1>4 DEF FlowInv, Tasks
  <2>2. ASSUME NEW m \in Node, NEW u \in Sender
        PROVE  On(lock'[m], u) <=> On(lock[m], u)
    <3>1. u # t
      BY TaskNames
    <3> QED
      BY <1>1, <1>3, <1>4, <3>1
  <2> QED
    BY <1>4, <2>1, <2>2 DEF FlowInv, Tasks, ListedToSend, Listed
<1>6. Messaging'
  <2>1. \A c \in {"gossip", "data"} : c \in Channel
    BY DEF Channel
  <2>2. ready' \in [Node -> SUBSET Channel]
    <3>1. PICK more \in SUBSET Channel : ready' = [ready EXCEPT ![n] = @ \union more]
      BY <2>1 DEF Start, Starter
    <3> QED
      BY <3>1 DEF FlowInv, Messaging
  <2> QED
    BY <2>2 DEF FlowInv, Messaging, OnlyData, Start, fixed, bounds
<1> QED
  BY <1>5, <1>6 DEF FlowInv

(* One round of one message. *)
LEMMA OneMessage ==
    ASSUME NEW p \in Node, NEW m \in Message
    PROVE  <<<<[to |-> p, msg |-> m]>>>> \in Seq(Seq(ToSend))
<1>1. [to |-> p, msg |-> m] \in ToSend
  BY DEF ToSend
<1>2. <<[to |-> p, msg |-> m]>> \in Seq(ToSend)
  BY <1>1
<1> QED
  BY <1>2

LEMMA AskKeeps ==
    ASSUME FlowInv, NEW n \in Node, NEW p \in Node, Ask(n, p) PROVE FlowInv'
<1>1. PICK todo \in Seq(Seq(ToSend)) :
         todo = <<<<[to |-> p, msg |-> [kind |-> "request", left |-> 0]]>>>>
  BY Messages, OneMessage
<1>2. Plan(n, "sync", todo)
  BY <1>1 DEF Ask
<1>3. Tasks'
  BY <1>2, PlanKeeps DEF FlowInv, Sender
<1>4. Messaging'
  BY StillMessaging DEF FlowInv, Ask, bounds, Messaging
<1> QED
  BY <1>3, <1>4 DEF FlowInv

(* A fresh message. *)
LEMMA Fresh ==
    \A kind \in {"chat", "gossip"} : [kind |-> kind, left |-> Hops] \in Message
<1>1. Hops \in 0..Hops
  BY Sizes
<1> QED
  BY <1>1 DEF Message

LEMMA BroadcastKeeps ==
    ASSUME FlowInv, NEW n \in Node, Broadcast(n) PROVE FlowInv'
<1>1. PICK msg \in Message : msg = [kind |-> "gossip", left |-> Hops]
  BY Fresh
<1>2. PICK sends \in ToEach(peers[n], msg) : Plan(n, "broadcast", <<sends>>)
  BY <1>1 DEF Broadcast
<1>3. peers[n] \in SUBSET Node
  BY DEF FlowInv, Messaging
<1>4. sends \in Seq(ToSend)
  BY <1>3, ToEachTypes
<1>5. <<sends>> \in Seq(Seq(ToSend))
  BY <1>4
<1>6. Tasks'
  BY <1>2, <1>5, PlanKeeps DEF FlowInv, Sender
<1>7. rounds' \in Nat /\ stops' \in Nat
  BY DEF Broadcast, FlowInv, Messaging
<1>8. Messaging'
  BY <1>7, StillMessaging DEF FlowInv, Broadcast
<1> QED
  BY <1>6, <1>8 DEF FlowInv

LEMMA SendChatKeeps ==
    ASSUME FlowInv, NEW n \in Node, SendChat(n) PROVE FlowInv'
<1>1. PICK msg \in Message : msg = [kind |-> "chat", left |-> Hops]
  BY Fresh
<1>2. PICK targets \in {peers[n]} \union {{p} : p \in peers[n]} :
         \E sends \in ToEach(targets, msg) : Plan(n, "chat", [i \in DOMAIN sends |-> <<sends[i]>>])
  BY <1>1 DEF SendChat
<1>3. PICK sends \in ToEach(targets, msg) : Plan(n, "chat", [i \in DOMAIN sends |-> <<sends[i]>>])
  BY <1>2
<1>4. targets \in SUBSET Node
  BY DEF FlowInv, Messaging
<1>5. sends \in Seq(ToSend)
  BY <1>4, ToEachTypes
<1>6. PICK todo \in Seq(Seq(ToSend)) : todo = [i \in DOMAIN sends |-> <<sends[i]>>]
  <2>1. sends \in [1..Len(sends) -> ToSend] /\ Len(sends) \in Nat
    BY <1>5, LenProperties
  <2>2. \A i \in 1..Len(sends) : <<sends[i]>> \in Seq(ToSend)
    BY <2>1
  <2>3. [i \in DOMAIN sends |-> <<sends[i]>>] \in [1..Len(sends) -> Seq(ToSend)]
    BY <2>1, <2>2
  <2>4. PICK k \in Nat : k = Len(sends)
    BY <2>1
  <2>5. PICK todo \in [1..k -> Seq(ToSend)] : todo = [i \in DOMAIN sends |-> <<sends[i]>>]
    BY <2>3, <2>4
  <2>6. todo \in Seq(Seq(ToSend))
    BY SeqDef
  <2> QED
    BY <2>5, <2>6
<1>7. Tasks'
  BY <1>3, <1>6, PlanKeeps DEF FlowInv, Sender
<1>8. rounds' \in Nat /\ stops' \in Nat
  BY DEF SendChat, FlowInv, Messaging
<1>9. Messaging'
  BY <1>8, StillMessaging DEF FlowInv, SendChat
<1> QED
  BY <1>7, <1>9 DEF FlowInv

LEMMA SendNoneKeeps ==
    ASSUME FlowInv, NEW n \in Node, NEW t \in Sender, SendNone(n, t) PROVE FlowInv'
<1>1. PICK rest \in Seq(ToSend) : rest = <<>>
  BY EmptySeq
<1>2. Tasks'
  BY <1>1, GoOnKeeps DEF FlowInv, SendNone
<1>3. Messaging'
  BY StillMessaging DEF FlowInv, SendNone, bounds, Messaging
<1> QED
  BY <1>2, <1>3 DEF FlowInv

LEMMA SendFailsKeeps ==
    ASSUME FlowInv, NEW n \in Node, NEW t \in Sender, SendFails(n, t) PROVE FlowInv'
<1>1. PICK sends \in Seq(ToSend) : sends = Head(out[n][t]) /\ sends # <<>>
  <2>1. Holds(n, t) /\ Head(out[n][t]) # <<>> /\ lock[n] # <<>>
    BY DEF SendFails, Holds
  <2> QED
    BY <2>1, HolderSends DEF FlowInv
<1>2. PICK rest \in Seq(ToSend) : rest = Tail(sends)
  BY <1>1, RestTypes
<1>3. Tasks'
  BY <1>1, <1>2, GoOnKeeps DEF FlowInv, SendFails
<1>4. Messaging'
  BY StillMessaging DEF FlowInv, SendFails, bounds, Messaging
<1> QED
  BY <1>3, <1>4 DEF FlowInv

LEMMA SendKeeps ==
    ASSUME FlowInv, NEW n \in Node, NEW t \in Sender, Send(n, t) PROVE FlowInv'
<1>1. PICK sends \in Seq(ToSend) : sends = Head(out[n][t]) /\ sends # <<>>
  <2>1. Holds(n, t) /\ Head(out[n][t]) # <<>> /\ lock[n] # <<>>
    BY DEF Send, Holds
  <2> QED
    BY <2>1, HolderSends DEF FlowInv
<1>2. PICK rest \in Seq(ToSend) : rest = Rest(sends)
  BY <1>1, RestTypes
<1>3. Tasks'
  BY <1>1, <1>2, GoOnKeeps DEF FlowInv, Send
<1>4. PICK p \in Node, m \in Message :
         /\ Len(wire[n][p]) < Window
         /\ wire' = [wire EXCEPT ![n][p] = Append(@, m)]
  <2>1. Head(sends).to \in Node /\ Head(sends).msg \in Message
    BY <1>1, RestTypes DEF ToSend
  <2> QED
    BY <1>1, <2>1 DEF Send, Room
<1>5. /\ wire \in [Node -> [Node -> Seq(Message)]]
      /\ \A q, r \in Node : Len(wire[q][r]) <= Window
  BY DEF FlowInv, Messaging
<1>6. PICK line \in Seq(Message) :
         /\ line = Append(wire[n][p], m)
         /\ Len(line) <= Window
  <2>1. wire[n][p] \in Seq(Message)
    BY <1>5
  <2>2. Len(Append(wire[n][p], m)) = Len(wire[n][p]) + 1 /\ Append(wire[n][p], m) \in Seq(Message)
    BY <2>1, AppendProperties
  <2>3. Len(wire[n][p]) \in Nat
    BY <2>1, LenProperties
  <2>4. Len(wire[n][p]) + 1 <= Window
    BY <1>4, <2>3, Sizes
  <2> QED
    BY <2>2, <2>4
<1>7. /\ wire' \in [Node -> [Node -> Seq(Message)]]
      /\ \A q, r \in Node : Len(wire'[q][r]) <= Window
  <2>1. [wire[n] EXCEPT ![p] = line] \in [Node -> Seq(Message)]
    BY <1>5
  <2>2. wire' = [wire EXCEPT ![n] = [wire[n] EXCEPT ![p] = line]]
    BY <1>4, <1>6
  <2>3. wire' \in [Node -> [Node -> Seq(Message)]]
    BY <1>5, <2>1, <2>2
  <2>4. ASSUME NEW q \in Node, NEW r \in Node
        PROVE  wire'[q][r] = IF q = n /\ r = p THEN line ELSE wire[q][r]
    BY <1>5, <2>2
  <2> QED
    BY <1>5, <1>6, <2>3, <2>4
<1>8. Messaging'
  BY <1>7 DEF FlowInv, Messaging, OnlyData, Send, fixed, bounds
<1> QED
  BY <1>3, <1>8 DEF FlowInv

LEMMA RouteKeeps ==
    ASSUME FlowInv, NEW p \in Node, NEW n \in Node, Route(p, n) PROVE FlowInv'
<1>1. /\ wire \in [Node -> [Node -> Seq(Message)]]
      /\ \A q, r \in Node : Len(wire[q][r]) <= Window
      /\ queue \in [Node -> [Channel -> Seq(Received)]]
  BY DEF FlowInv, Messaging
<1>2. PICK m \in Message, line \in Seq(Message) :
         m = Head(wire[p][n]) /\ line = Tail(wire[p][n]) /\ Len(line) <= Window
  <2>1. wire[p][n] \in Seq(Message) /\ wire[p][n] # <<>>
    BY <1>1 DEF Route
  <2>2. /\ Head(wire[p][n]) \in Message /\ Tail(wire[p][n]) \in Seq(Message)
        /\ Len(Tail(wire[p][n])) = Len(wire[p][n]) - 1
    BY <2>1, HeadTailProperties
  <2>3. Len(Tail(wire[p][n])) <= Window
    BY <1>1, <2>1, <2>2, Sizes, LenProperties
  <2> QED
    BY <2>2, <2>3
<1>3. /\ wire' \in [Node -> [Node -> Seq(Message)]]
      /\ \A q, r \in Node : Len(wire'[q][r]) <= Window
  <2>1. [wire[p] EXCEPT ![n] = line] \in [Node -> Seq(Message)]
    BY <1>1
  <2>2. wire' = [wire EXCEPT ![p] = [wire[p] EXCEPT ![n] = line]]
    BY <1>2 DEF Route
  <2>3. wire' \in [Node -> [Node -> Seq(Message)]]
    BY <1>1, <2>1, <2>2
  <2>4. ASSUME NEW q \in Node, NEW r \in Node
        PROVE  wire'[q][r] = IF q = p /\ r = n THEN line ELSE wire[q][r]
    BY <1>1, <2>2
  <2> QED
    BY <1>1, <1>2, <2>3, <2>4
<1>4. PICK c \in Channel :
         /\ c = ChannelOf(n, m)
         /\ c = "data" => m.kind \in {"request", "frame"}
  BY DEF ChannelOf, Channel
<1>5. queue' \in [Node -> [Channel -> Seq(Received)]] /\ OnlyData'
  <2>1. CASE c \notin ready[n]
    BY <1>1, <1>2, <1>4, <2>1 DEF Route, FlowInv, Messaging, OnlyData
  <2>2. CASE c \in ready[n]
    <3>1. PICK r \in Received : r = [from |-> p, msg |-> m]
      BY DEF Received
    <3>2. PICK q \in Seq(Received) : q = queue[n][c]
      BY <1>1
    <3>3. queue' = [queue EXCEPT ![n] = [queue[n] EXCEPT ![c] = Append(q, r)]]
      BY <1>2, <1>4, <2>2, <3>1, <3>2 DEF Route
    <3>4. /\ Append(q, r) \in Seq(Received)
          /\ \A i \in DOMAIN Append(q, r) :
                (i \in DOMAIN q /\ Append(q, r)[i] = q[i]) \/ Append(q, r)[i] = r
      <4>1. /\ Append(q, r) \in Seq(Received) /\ Len(Append(q, r)) = Len(q) + 1
            /\ \A i \in 1..Len(q) : Append(q, r)[i] = q[i]
            /\ Append(q, r)[Len(q) + 1] = r
        BY AppendProperties
      <4>2. DOMAIN q = 1..Len(q) /\ DOMAIN Append(q, r) = 1..(Len(q) + 1) /\ Len(q) \in Nat
        BY <4>1, LenProperties
      <4> QED
        BY <4>1, <4>2
    <3>5. /\ queue' \in [Node -> [Channel -> Seq(Received)]]
          /\ queue'[n][c] = Append(q, r)
          /\ \A k \in Node : \A d \in Channel : <<k, d>> # <<n, c>> => queue'[k][d] = queue[k][d]
      <4>1. [queue[n] EXCEPT ![c] = Append(q, r)] \in [Channel -> Seq(Received)]
        BY <1>1, <3>4
      <4> QED
        BY <1>1, <3>3, <4>1
    <3>6. ASSUME NEW k \in Node, NEW i \in DOMAIN queue'[k]["data"]
          PROVE  queue'[k]["data"][i].msg.kind \in {"request", "frame"}
      <4>1. \A j \in DOMAIN queue[k]["data"] :
               queue[k]["data"][j].msg.kind \in {"request", "frame"}
        BY DEF FlowInv, Messaging, OnlyData
      <4>2. CASE k = n /\ c = "data"
        <5>1. queue'[k]["data"] = Append(q, r) /\ queue[k]["data"] = q
          BY <3>2, <3>5, <4>2
        <5>2. r.msg.kind \in {"request", "frame"}
          BY <1>4, <3>1, <4>2
        <5>3. (i \in DOMAIN q /\ Append(q, r)[i] = q[i]) \/ Append(q, r)[i] = r
          BY <3>4, <5>1
        <5> QED
          BY <4>1, <5>1, <5>2, <5>3
      <4>3. CASE ~(k = n /\ c = "data")
        <5>1. queue'[k]["data"] = queue[k]["data"]
          BY <3>5, <4>3 DEF Channel
        <5> QED
          BY <4>1, <5>1
      <4> QED
        BY <4>2, <4>3
    <3> QED
      BY <3>5, <3>6 DEF OnlyData
  <2> QED
    BY <2>1, <2>2
<1>6. Messaging'
  BY <1>3, <1>5 DEF FlowInv, Messaging, Route, fixed, bounds
<1>7. Tasks'
  BY StillTasks DEF FlowInv, Route
<1> QED
  BY <1>6, <1>7 DEF FlowInv

LEMMA HandleRequestKeeps ==
    ASSUME FlowInv, NEW n \in Node, HandleRequest(n) PROVE FlowInv'
<1>1. Messaging' /\ Head(queue[n]["data"]) \in Received
  BY DequeueKeeps DEF FlowInv, HandleRequest, Messaging, Channel
<1>2. PICK todo \in Seq(Seq(ToSend)) :
         todo = <<<<[to |-> Head(queue[n]["data"]).from,
                     msg |-> [kind |-> "frame", left |-> Frames]]>>>>
  <2>1. Head(queue[n]["data"]).from \in Node
    BY <1>1 DEF Received
  <2>2. Frames \in 0..Frames
    BY Sizes
  <2>3. [kind |-> "frame", left |-> Frames] \in Message
    BY <2>2 DEF Message
  <2> QED
    BY <2>1, <2>3, OneMessage
<1>3. Plan(n, "data", todo)
  BY <1>2 DEF HandleRequest
<1>4. Tasks'
  BY <1>3, PlanKeeps DEF FlowInv, Sender
<1> QED
  BY <1>1, <1>4 DEF FlowInv

LEMMA HandleFrameKeeps ==
    ASSUME FlowInv, NEW n \in Node, HandleFrame(n) PROVE FlowInv'
<1>1. Dequeue(n, "data") /\ UNCHANGED <<fixed, up, ready, wire, bounds>>
  BY DEF HandleFrame
<1>2. Head(queue[n]["data"]) \in Received
  <2>1. queue[n]["data"] \in Seq(Received) /\ queue[n]["data"] # <<>>
    BY <1>1 DEF FlowInv, Messaging, Channel, Dequeue
  <2> QED
    BY <2>1, HeadTailProperties
<1>3. got' \in [Node -> SUBSET Node]
  <2>1. Head(queue[n]["data"]).from \in Node
    BY <1>2 DEF Received
  <2>2. got \in [Node -> SUBSET Node]
    BY DEF FlowInv, Messaging
  <2>3. got' = got \/ got' = [got EXCEPT ![n] = @ \union {Head(queue[n]["data"]).from}]
    BY DEF HandleFrame
  <2> QED
    BY <2>1, <2>2, <2>3
<1>4. Messaging'
  BY <1>1, <1>3, DequeueKeeps DEF FlowInv, Channel
<1>5. Tasks'
  BY StillTasks DEF FlowInv, HandleFrame
<1> QED
  BY <1>4, <1>5 DEF FlowInv

LEMMA DropGossipKeeps ==
    ASSUME FlowInv, NEW n \in Node, DropGossip(n) PROVE FlowInv'
<1>1. Messaging'
  BY DequeueKeeps DEF FlowInv, DropGossip, Messaging, Channel
<1>2. Tasks'
  BY StillTasks DEF FlowInv, DropGossip
<1> QED
  BY <1>1, <1>2 DEF FlowInv

LEMMA HandleGossipKeeps ==
    ASSUME FlowInv, NEW n \in Node, HandleGossip(n) PROVE FlowInv'
<1>1. Messaging' /\ Head(queue[n]["gossip"]) \in Received
  BY DequeueKeeps DEF FlowInv, HandleGossip, Messaging, Channel
<1>2. PICK g \in Received : g = Head(queue[n]["gossip"])
  BY <1>1
<1>3. g.msg \in Message /\ g.msg.kind \in {"chat", "gossip"}
  BY <1>2 DEF Received, HandleGossip
<1>4. PICK less : less = [g.msg EXCEPT !.left = @ - 1]
  OBVIOUS
<1>5. g.msg.left > 0 => less \in Message
  BY <1>3, <1>4, LessLeft
<1>6. PICK ack \in AckRounds(n, g.msg), sends \in ToEach(peers[n] \ {g.from}, less) :
         Plan(n, "gossip", IF g.msg.left > 0 THEN Append(ack, sends) ELSE ack)
  BY <1>2, <1>4 DEF HandleGossip
<1>7. peers[n] \in SUBSET Node /\ peers[n] \ {g.from} \in SUBSET Node
  BY DEF FlowInv, Messaging
<1>8. ack \in Seq(Seq(ToSend))
  <2>1. CASE ack = <<>>
    BY <2>1, EmptySeq
  <2>2. CASE \E first \in ToEach(peers[n], [kind |-> "gossip", left |-> Hops]) : ack = <<first>>
    <3>1. PICK msg \in Message : msg = [kind |-> "gossip", left |-> Hops]
      BY Fresh
    <3>2. PICK first \in ToEach(peers[n], msg) : ack = <<first>>
      BY <2>2, <3>1
    <3>3. first \in Seq(ToSend)
      BY <1>7, ToEachTypes
    <3> QED
      BY <3>2, <3>3
  <2> QED
    BY <2>1, <2>2 DEF AckRounds
<1>9. g.msg.left > 0 => sends \in Seq(ToSend)
  BY <1>5, <1>7, ToEachTypes
<1>10. PICK todo \in Seq(Seq(ToSend)) :
          todo = IF g.msg.left > 0 THEN Append(ack, sends) ELSE ack
  <2>1. CASE g.msg.left > 0
    <3>1. Append(ack, sends) \in Seq(Seq(ToSend))
      BY <1>8, <1>9, <2>1, AppendProperties
    <3> QED
      BY <2>1, <3>1
  <2> QED
    BY <1>8, <2>1
<1>11. Tasks'
  BY <1>6, <1>10, PlanKeeps DEF FlowInv, Sender
<1> QED
  BY <1>1, <1>11 DEF FlowInv

LEMMA StopKeeps ==
    ASSUME FlowInv, NEW n \in Node, Stop(n) PROVE FlowInv'
<1>1. FlowInv
  OBVIOUS
<1>2. Tasks'
  <2>1. /\ lock' \in [Node -> Seq(Sender \union Starter)]
        /\ lock'[n] = <<>> /\ \A m \in Node \ {n} : lock'[m] = lock[m]
    BY EmptySeq DEF Stop, FlowInv, Tasks
  <2>2. /\ out' \in [Node -> [Sender -> Seq(Seq(ToSend))]]
        /\ \A t \in Sender : out'[n][t] = <<>>
        /\ \A m \in Node \ {n} : out'[m] = out[m]
    <3>1. [t \in Sender |-> <<>>] \in [Sender -> Seq(Seq(ToSend))]
      BY EmptySeq
    <3> QED
      BY <3>1 DEF Stop, FlowInv, Tasks
  <2>3. IsInjective(<<>>) /\ \A u : ~On(<<>>, u)
    BY DEF IsInjective, On
  <2>4. \A m \in Node : IsInjective(lock'[m])
    BY <2>1, <2>3 DEF FlowInv, Tasks
  <2>5. ASSUME NEW m \in Node, NEW t \in Sender
        PROVE  On(lock'[m], t) <=> out'[m][t] # <<>>
    <3>1. CASE m = n
      BY <2>1, <2>2, <2>3, <3>1
    <3>2. CASE m # n
      BY <2>1, <2>2, <3>2 DEF FlowInv, Tasks, ListedToSend, Listed
    <3> QED
      BY <3>1, <3>2
  <2> QED
    BY <2>1, <2>2, <2>4, <2>5 DEF Tasks, ListedToSend, Listed
<1>3. /\ wire' \in [Node -> [Node -> Seq(Message)]]
      /\ \A p, q \in Node : Len(wire'[p][q]) <= Window
  <2>1. /\ wire \in [Node -> [Node -> Seq(Message)]]
        /\ \A p, q \in Node : Len(wire[p][q]) <= Window
    BY DEF FlowInv, Messaging
  <2>2. wire' = [p \in Node |-> [q \in Node |-> IF n \in {p, q} THEN <<>> ELSE wire[p][q]]]
    BY DEF Stop
  <2>3. <<>> \in Seq(Message) /\ Len(<<>>) <= Window
    BY Sizes, EmptySeq
  <2> QED
    BY <2>1, <2>2, <2>3
<1>4. queue' \in [Node -> [Channel -> Seq(Received)]] /\ OnlyData'
  <2>1. [c \in Channel |-> <<>>] \in [Channel -> Seq(Received)]
    BY EmptySeq
  <2>2. queue' = [queue EXCEPT ![n] = [c \in Channel |-> <<>>]]
    BY DEF Stop
  <2>3. queue \in [Node -> [Channel -> Seq(Received)]] /\ OnlyData
    BY DEF FlowInv, Messaging
  <2>4. queue'[n]["data"] = <<>> /\ \A m \in Node \ {n} : queue'[m] = queue[m]
    BY <2>2, <2>3 DEF Channel
  <2> QED
    BY <2>1, <2>2, <2>3, <2>4 DEF OnlyData
<1>5. up' \in [Node -> BOOLEAN] /\ stops' \in Nat
  BY DEF Stop, FlowInv, Messaging
<1>6. Messaging'
  BY <1>3, <1>4, <1>5 DEF FlowInv, Messaging, Stop, fixed
<1> QED
  BY <1>2, <1>6 DEF FlowInv

LEMMA InitHolds == Init => FlowInv
<1> SUFFICES ASSUME Init PROVE FlowInv
  OBVIOUS
<1>1. PICK s \in Scenarios :
         /\ peers = s.peers /\ wants = s.wants
         /\ ready = [n \in Node |-> IF n \in s.starting THEN {} ELSE Channel]
         /\ lock \in [Node -> {<<>>} \union SetToSeqs(Starter)]
         /\ rounds = s.rounds /\ stops = s.stops
  BY DEF Init
<1>2. /\ peers \in [Node -> SUBSET Node] /\ wants \in [Node -> SUBSET Node]
      /\ rounds \in Nat /\ stops \in Nat
      /\ ready \in [Node -> SUBSET Channel]
  BY <1>1, ScenariosAssumption
<1>3. Cardinality(Starter) = 3
  <2>2. IsFiniteSet({"start_gossip"}) /\ Cardinality({"start_gossip"}) = 1
    BY FS_Singleton
  <2>3. /\ IsFiniteSet({"start_gossip"} \union {"start_data"})
        /\ Cardinality({"start_gossip"} \union {"start_data"}) = 2
    BY <2>2, FS_AddElement
  <2>4. Cardinality(({"start_gossip"} \union {"start_data"}) \union {"dial"}) = 3
    BY <2>3, FS_AddElement
  <2>5. Starter = ({"start_gossip"} \union {"start_data"}) \union {"dial"}
    BY DEF Starter
  <2> QED
    BY <2>4, <2>5
<1>4. ASSUME NEW list \in {<<>>} \union SetToSeqs(Starter)
      PROVE  /\ list \in Seq(Sender \union Starter) /\ IsInjective(list)
             /\ \A t \in Sender : ~On(list, t)
  <2>1. CASE list = <<>>
    BY <2>1, EmptySeq DEF IsInjective, On
  <2>2. CASE list \in SetToSeqs(Starter)
    <3>1. list \in [1..3 -> Starter] /\ \A i, j \in 1..3 : i # j => list[i] # list[j]
      BY <1>3, <2>2 DEF SetToSeqs
    <3>2. list \in [1..3 -> Sender \union Starter]
      BY <3>1
    <3>3. PICK k \in Nat : k = 3
      OBVIOUS
    <3>4. list \in Seq(Sender \union Starter)
      BY <3>2, <3>3, SeqDef
    <3> QED
      BY <3>1, <3>4, TaskNames DEF IsInjective, On
  <2> QED
    BY <1>4, <2>1, <2>2
<1>5. Tasks
  <2>1. lock \in [Node -> Seq(Sender \union Starter)]
    BY <1>1, <1>4
  <2>2. \A n \in Node : IsInjective(lock[n]) /\ \A t \in Sender : ~On(lock[n], t)
    BY <1>1, <1>4
  <2>3. /\ out = [n \in Node |-> [t \in Sender |-> <<>>]]
        /\ <<>> \in Seq(Seq(ToSend))
    BY EmptySeq DEF Init
  <2>4. out \in [Node -> [Sender -> Seq(Seq(ToSend))]]
    BY <2>3
  <2> QED
    BY <2>1, <2>2, <2>3, <2>4 DEF Tasks, ListedToSend, Listed
<1>6. Messaging
  <2>1. /\ wire = [n \in Node |-> [p \in Node |-> <<>>]]
        /\ queue = [n \in Node |-> [c \in Channel |-> <<>>]]
        /\ up \in [Node -> BOOLEAN] /\ got \in [Node -> SUBSET Node]
    BY DEF Init
  <2>2. <<>> \in Seq(Message) /\ <<>> \in Seq(Received) /\ Len(<<>>) <= Window
    BY Sizes, EmptySeq
  <2>3. wire \in [Node -> [Node -> Seq(Message)]]
    BY <2>1, <2>2
  <2>4. queue \in [Node -> [Channel -> Seq(Received)]] /\ OnlyData
    BY <2>1, <2>2 DEF OnlyData, Channel
  <2> QED
    BY <1>2, <2>1, <2>2, <2>3, <2>4 DEF Messaging
<1> QED
  BY <1>5, <1>6 DEF FlowInv

LEMMA StepKeeps == FlowInv /\ [Next]_vars => FlowInv'
<1> SUFFICES ASSUME FlowInv, [Next]_vars PROVE FlowInv'
  OBVIOUS
<1>1. CASE \E n \in Node :
              HandleRequest(n) \/ HandleFrame(n) \/ DropGossip(n) \/ HandleGossip(n)
  BY <1>1, HandleRequestKeeps, HandleFrameKeeps, DropGossipKeeps, HandleGossipKeeps
<1>2. CASE \E n \in Node, t \in Starter : Start(n, t)
  BY <1>2, StartKeeps
<1>3. CASE \E n \in Node, t \in Sender : Send(n, t) \/ SendNone(n, t) \/ SendFails(n, t)
  BY <1>3, SendKeeps, SendNoneKeeps, SendFailsKeeps
<1>4. CASE \E p, n \in Node : Route(p, n)
  BY <1>4, RouteKeeps
<1>5. CASE \E n, p \in Node : Ask(n, p)
  BY <1>5, AskKeeps
<1>6. CASE \E n \in Node : Broadcast(n) \/ SendChat(n) \/ Stop(n)
  BY <1>6, BroadcastKeeps, SendChatKeeps, StopKeeps
<1>7. CASE UNCHANGED vars
  <2>1. Tasks'
    BY <1>7, StillTasks DEF vars, FlowInv
  <2>2. Messaging'
    BY <1>7, StillMessaging DEF vars, bounds, FlowInv, Messaging
  <2> QED
    BY <2>1, <2>2 DEF FlowInv
<1> QED
  BY <1>1, <1>2, <1>3, <1>4, <1>5, <1>6, <1>7 DEF Next, Progress

LEMMA AlwaysFlowInv == Spec => []FlowInv
<1> QED
  BY InitHolds, StepKeeps, PTL DEF Spec

-----------------------------------------------------------------------------
(* No mutex is asked for twice by one task, and no connection carries more  *)
(* streams than the peer allows; all that waits is of its type.             *)
THEOREM TypeCorrect == Spec => []TypeOK
<1> QED
  BY AlwaysFlowInv, FlowTypes, PTL

(* Nothing but nodes that wait for each other in a circle holds messages    *)
(* up: in any other state with something left to do, however many nodes,    *)
(* messages, places and streams there are, some task has nothing to wait    *)
(* for.                                                                     *)
THEOREM OnlyCirclesStall == Spec => []StalledIsWedged
<1> QED
  BY AlwaysFlowInv, StalledInACircle, PTL

(* Tasks that have something to send hold the manager's mutex or wait for   *)
(* it, and no others do: a task that awaits lock() keeps its place until    *)
(* it is served, and its guard goes with the last message of a round, sent  *)
(* or given up.                                                             *)
THEOREM WhoSendsIsListed == Spec => []ListedToSend
<1>1. FlowInv => ListedToSend
  BY DEF FlowInv, Tasks
<1> QED
  BY <1>1, AlwaysFlowInv, PTL

-----------------------------------------------------------------------------
(* A circle does not open by itself. *)

(* What waits in a channel came after the channel was registered. *)
QueuedIsReady == \A n \in Node : \A c \in Channel : queue[n][c] # <<>> => c \in ready[n]

(* Nothing is left of a node that stopped, or on its way from or to it. *)
StoppedIsEmpty ==
    \A n \in Node : ~up[n] =>
        /\ lock[n] = <<>>
        /\ \A c \in Channel : queue[n][c] = <<>>
        /\ \A p \in Node : wire[n][p] = <<>> /\ wire[p][n] = <<>>

Leftovers == QueuedIsReady /\ StoppedIsEmpty

(* A task that begins a round, and one that goes on with its own. *)
LEMMA PlanElsewhere ==
    ASSUME Tasks, NEW k \in Node, NEW t \in Sender, NEW todo, Plan(k, t, todo)
    PROVE  \A n \in Node :
              /\ n # k => lock'[n] = lock[n] /\ out'[n] = out[n]
              /\ lock'[n] = lock[n] \/ \E u \in Sender : lock'[n] = Append(lock[n], u)
              /\ \A u \in Sender : out[n][u] # <<>> => out'[n][u] = out[n][u]
<1>1. DOMAIN lock = Node /\ DOMAIN out = Node /\ DOMAIN out[k] = Sender
  BY DEF Tasks
<1>2. out' = [out EXCEPT ![k] = [out[k] EXCEPT ![t] = todo]] /\ out[k][t] = <<>>
  BY DEF Plan
<1>3. lock' = lock \/ lock' = [lock EXCEPT ![k] = Append(@, t)]
  BY DEF Plan
<1> QED
  BY <1>1, <1>2, <1>3

LEMMA GoOnElsewhere ==
    ASSUME Tasks, NEW k \in Node, NEW t \in Sender, NEW rest, GoOn(k, t, rest)
    PROVE  \A n \in Node \ {k} : lock'[n] = lock[n] /\ out'[n] = out[n]
BY DEF GoOn, Tasks

(* A node's lists change only while it runs. *)
LEMMA LeftoversKept == FlowInv /\ Leftovers /\ [Next]_vars => Leftovers'
<1> SUFFICES ASSUME FlowInv, Leftovers, [Next]_vars PROVE Leftovers'
  OBVIOUS
<1>0. Tasks /\ Messaging /\ QueuedIsReady /\ StoppedIsEmpty
  BY DEF FlowInv, Leftovers
<1>1. ASSUME NEW n \in Node, NEW c \in Channel, Dequeue(n, c), UNCHANGED <<up, ready, wire>>,
             \A m \in Node \ {n} : lock'[m] = lock[m]
      PROVE  Leftovers'
  <2>1. up[n]
    BY <1>0, <1>1 DEF StoppedIsEmpty, Dequeue
  <2>2. /\ \A m \in Node, d \in Channel : queue'[m][d] # <<>> => queue[m][d] # <<>>
        /\ \A m \in Node \ {n} : queue'[m] = queue[m]
    BY <1>0, <1>1 DEF Dequeue, Messaging
  <2> QED
    BY <1>0, <1>1, <2>1, <2>2 DEF Leftovers, QueuedIsReady, StoppedIsEmpty
<1>2. ASSUME NEW n \in Node, up[n], UNCHANGED <<up, ready, wire, queue>>,
             \A m \in Node \ {n} : lock'[m] = lock[m]
      PROVE  Leftovers'
  BY <1>0, <1>2 DEF Leftovers, QueuedIsReady, StoppedIsEmpty
<1>3. ASSUME NEW n \in Node, HandleRequest(n)
      PROVE  Leftovers'
  <2>1. PICK todo : Plan(n, "data", todo)
    BY <1>3 DEF HandleRequest
  <2>2. \A m \in Node \ {n} : lock'[m] = lock[m]
    BY <1>0, <2>1, PlanElsewhere DEF Sender
  <2> QED
    BY <1>1, <1>3, <2>2 DEF HandleRequest, Channel
<1>4. ASSUME NEW n \in Node, HandleFrame(n)
      PROVE  Leftovers'
  BY <1>1, <1>4 DEF HandleFrame, Channel
<1>5. ASSUME NEW n \in Node, DropGossip(n)
      PROVE  Leftovers'
  BY <1>1, <1>5 DEF DropGossip, Channel
<1>6. ASSUME NEW n \in Node, HandleGossip(n)
      PROVE  Leftovers'
  <2>1. PICK todo : Plan(n, "gossip", todo)
    BY <1>6 DEF HandleGossip
  <2>2. \A m \in Node \ {n} : lock'[m] = lock[m]
    BY <1>0, <2>1, PlanElsewhere DEF Sender
  <2> QED
    BY <1>1, <1>6, <2>2 DEF HandleGossip, Channel
<1>7. ASSUME NEW n \in Node, NEW t \in Starter, Start(n, t)
      PROVE  Leftovers'
  <2>1. up[n]
    BY <1>0, <1>7 DEF StoppedIsEmpty, Start, Holds
  <2>2. \A m \in Node : ready[m] \subseteq ready'[m]
    BY <1>0, <1>7 DEF Start, Messaging
  <2>3. \A m \in Node \ {n} : lock'[m] = lock[m]
    BY <1>0, <1>7 DEF Start, Tasks
  <2>4. UNCHANGED <<up, wire, queue>>
    BY <1>7 DEF Start
  <2> QED
    BY <1>0, <2>1, <2>2, <2>3, <2>4 DEF Leftovers, QueuedIsReady, StoppedIsEmpty
<1>8. ASSUME NEW n \in Node, NEW t \in Sender, Send(n, t)
      PROVE  Leftovers'
  <2>1. up[n]
    BY <1>0, <1>8 DEF StoppedIsEmpty, Send, Holds
  <2>2. PICK rest : GoOn(n, t, rest)
    BY <1>8 DEF Send
  <2>3. \A m \in Node \ {n} : lock'[m] = lock[m]
    BY <1>0, <2>2, GoOnElsewhere
  <2>4. PICK p, m : up[p] /\ wire' = [wire EXCEPT ![n][p] = Append(@, m)]
    BY <1>8 DEF Send
  <2>5. UNCHANGED <<up, ready, queue>>
    BY <1>8 DEF Send
  <2>6. \A q, r \in Node : ~up[q] \/ ~up[r] => wire'[q][r] = wire[q][r]
    BY <1>0, <2>1, <2>4 DEF Messaging
  <2> QED
    BY <1>0, <2>1, <2>3, <2>5, <2>6 DEF Leftovers, QueuedIsReady, StoppedIsEmpty
<1>9. ASSUME NEW n \in Node, NEW t \in Sender, SendNone(n, t) \/ SendFails(n, t)
      PROVE  Leftovers'
  <2>1. up[n]
    BY <1>0, <1>9 DEF StoppedIsEmpty, SendNone, SendFails, Holds
  <2>2. PICK rest : GoOn(n, t, rest)
    BY <1>9 DEF SendNone, SendFails
  <2>3. \A m \in Node \ {n} : lock'[m] = lock[m]
    BY <1>0, <2>2, GoOnElsewhere
  <2> QED
    BY <1>2, <1>9, <2>1, <2>3 DEF SendNone, SendFails
<1>10. ASSUME NEW p \in Node, NEW n \in Node, Route(p, n)
       PROVE  Leftovers'
  <2>1. up[p] /\ up[n]
    BY <1>0, <1>10 DEF StoppedIsEmpty, Route
  <2>2. \A q, r \in Node : ~up[q] \/ ~up[r] => wire'[q][r] = wire[q][r]
    BY <1>0, <1>10, <2>1 DEF Messaging, Route
  <2>3. /\ \A m \in Node \ {n} : queue'[m] = queue[m]
        /\ \A c \in Channel : queue'[n][c] = queue[n][c] \/ c \in ready[n]
    BY <1>0, <1>10 DEF Messaging, Route
  <2>4. UNCHANGED <<up, ready, lock>>
    BY <1>10 DEF Route
  <2> QED
    BY <1>0, <2>1, <2>2, <2>3, <2>4 DEF Leftovers, QueuedIsReady, StoppedIsEmpty
<1>11. ASSUME NEW n \in Node, NEW t \in Sender, NEW todo, up[n], Plan(n, t, todo),
              UNCHANGED <<up, ready, wire, queue>>
       PROVE  Leftovers'
  BY <1>0, <1>2, <1>11, PlanElsewhere
<1>12. ASSUME NEW n \in Node, NEW p \in Node, Ask(n, p)
       PROVE  Leftovers'
  BY <1>11, <1>12 DEF Ask, Sender
<1>13. ASSUME NEW n \in Node, Broadcast(n)
       PROVE  Leftovers'
  BY <1>11, <1>13 DEF Broadcast, Sender
<1>14. ASSUME NEW n \in Node, SendChat(n)
       PROVE  Leftovers'
  BY <1>11, <1>14 DEF SendChat, Sender
<1>15. ASSUME NEW n \in Node, Stop(n)
       PROVE  Leftovers'
  <2>1. /\ lock'[n] = <<>> /\ \A m \in Node \ {n} : lock'[m] = lock[m]
        /\ ~up'[n] /\ \A m \in Node \ {n} : up'[m] = up[m]
    BY <1>0, <1>15 DEF Stop, Messaging, Tasks
  <2>2. \A q, r \in Node :
           wire'[q][r] = <<>> \/ (q # n /\ r # n /\ wire'[q][r] = wire[q][r])
    BY <1>15 DEF Stop
  <2>3. \A q, r \in Node : n \in {q, r} => wire'[q][r] = <<>>
    BY <1>15 DEF Stop
  <2>4. /\ \A c \in Channel : queue'[n][c] = <<>>
        /\ \A m \in Node \ {n} : queue'[m] = queue[m]
    BY <1>0, <1>15 DEF Stop, Messaging
  <2>5. ready' = ready
    BY <1>15 DEF Stop
  <2> QED
    BY <1>0, <2>1, <2>2, <2>3, <2>4, <2>5 DEF Leftovers, QueuedIsReady, StoppedIsEmpty
<1>16. CASE UNCHANGED vars
  BY <1>0, <1>16 DEF vars, Leftovers, QueuedIsReady, StoppedIsEmpty
<1> QED
  BY <1>3, <1>4, <1>5, <1>6, <1>7, <1>8, <1>9, <1>10, <1>12, <1>13, <1>14, <1>15, <1>16
     DEF Next, Progress

LEMMA LeftoversAlways == Spec => []Leftovers
<1>1. Init => Leftovers
  BY DEF Init, Leftovers, QueuedIsReady, StoppedIsEmpty
<1> QED
  BY <1>1, LeftoversKept, AlwaysFlowInv, PTL DEF Spec

(* The holder of n's mutex has no stream to a node that runs. *)
Stuck(n) ==
    \E t \in Sender, p \in Node :
        /\ Holds(n, t)
        /\ Head(out[n][t]) # <<>> /\ Head(Head(out[n][t])).to = p
        /\ ~Room(n, p) /\ up[p]

(* What has been put on n's lists stays, and where it was. *)
StaysPut(n) ==
    /\ lock'[n] = lock[n] \/ \E u \in Sender : lock'[n] = Append(lock[n], u)
    /\ \A t \in Sender : out[n][t] # <<>> => out'[n][t] = out[n][t]
    /\ ready'[n] = ready[n]

LEMMA StuckStaysPut ==
    ASSUME FlowInv, NEW n \in Node, Stuck(n), [Next]_vars, up'[n]
    PROVE  StaysPut(n)
<1>0. Tasks /\ Messaging
  BY DEF FlowInv
<1>1. ASSUME UNCHANGED <<lock, out, ready>>
      PROVE  StaysPut(n)
  BY <1>1 DEF StaysPut
<1>2. ASSUME NEW k \in Node, NEW t \in Sender, NEW todo, Plan(k, t, todo), UNCHANGED ready
      PROVE  StaysPut(n)
  BY <1>0, <1>2, PlanElsewhere DEF StaysPut
<1>3. ASSUME NEW k \in Node, NEW t \in Sender, NEW rest, GoOn(k, t, rest), UNCHANGED ready,
             k # n
      PROVE  StaysPut(n)
  BY <1>0, <1>3, GoOnElsewhere DEF StaysPut
<1>4. ASSUME NEW k \in Node, HandleRequest(k) \/ HandleGossip(k)
      PROVE  StaysPut(n)
  <2>1. PICK t \in Sender : \E todo : Plan(k, t, todo)
    BY <1>4 DEF HandleRequest, HandleGossip, Sender
  <2> QED
    BY <1>2, <1>4, <2>1 DEF HandleRequest, HandleGossip
<1>5. ASSUME NEW k \in Node, HandleFrame(k) \/ DropGossip(k)
      PROVE  StaysPut(n)
  BY <1>1, <1>5 DEF HandleFrame, DropGossip
<1>6. ASSUME NEW k \in Node, NEW t \in Starter, Start(k, t)
      PROVE  StaysPut(n)
  <2>1. k # n
    BY <1>6, TaskNames DEF Stuck, Start, Holds
  <2> QED
    BY <1>0, <1>6, <2>1 DEF Start, StaysPut, Tasks, Messaging
<1>7. ASSUME NEW k \in Node, NEW t \in Sender, Send(k, t) \/ SendNone(k, t) \/ SendFails(k, t)
      PROVE  StaysPut(n)
  <2>1. k # n
    BY <1>7 DEF Stuck, Send, SendNone, SendFails, Holds
  <2>2. PICK rest : GoOn(k, t, rest)
    BY <1>7 DEF Send, SendNone, SendFails
  <2> QED
    BY <1>3, <1>7, <2>1, <2>2 DEF Send, SendNone, SendFails
<1>8. ASSUME NEW p \in Node, NEW k \in Node, Route(p, k)
      PROVE  StaysPut(n)
  BY <1>1, <1>8 DEF Route
<1>9. ASSUME NEW k \in Node, NEW p \in Node, Ask(k, p)
      PROVE  StaysPut(n)
  BY <1>2, <1>9 DEF Ask, Sender
<1>10. ASSUME NEW k \in Node, Broadcast(k) \/ SendChat(k)
       PROVE  StaysPut(n)
  <2>1. PICK t \in Sender : \E todo : Plan(k, t, todo)
    BY <1>10 DEF Broadcast, SendChat, Sender
  <2> QED
    BY <1>2, <1>10, <2>1 DEF Broadcast, SendChat
<1>11. ASSUME NEW k \in Node, Stop(k)
       PROVE  StaysPut(n)
  <2>1. k # n
    BY <1>0, <1>11 DEF Stop, Messaging
  <2> QED
    BY <1>0, <1>11, <2>1 DEF Stop, StaysPut, Tasks
<1>12. CASE UNCHANGED vars
  BY <1>1, <1>12 DEF vars
<1> QED
  BY <1>4, <1>5, <1>6, <1>7, <1>8, <1>9, <1>10, <1>11, <1>12 DEF Next, Progress

(* Nor does what waits before a full channel of a handler that has itself   *)
(* something to send, or in that channel.                                   *)
LEMMA FullStaysFull ==
    ASSUME FlowInv, Leftovers, NEW n \in Node, NEW p \in Node, NEW c \in Channel,
           c = ChannelOf(p, Head(wire[n][p])), ~Room(n, p),
           Len(queue[p][c]) >= Capacity, out[p][c] # <<>>,
           [Next]_vars, up'[n], up'[p]
    PROVE  wire'[n][p] = wire[n][p] /\ queue'[p][c] = queue[p][c]
<1>0. Tasks /\ Messaging
  BY DEF FlowInv
<1>1. c \in ready[p]
  <2>1. queue[p][c] # <<>>
    BY <1>0, Sizes, EmptySeq
  <2> QED
    BY <2>1 DEF Leftovers, QueuedIsReady
<1>2. ASSUME NEW k \in Node, NEW d \in Channel, out[k][d] = <<>>, Dequeue(k, d), UNCHANGED wire
      PROVE  wire'[n][p] = wire[n][p] /\ queue'[p][c] = queue[p][c]
  <2>1. <<k, d>> # <<p, c>>
    BY <1>2
  <2> QED
    BY <1>0, <1>2, <2>1 DEF Dequeue, Messaging
<1>3. ASSUME NEW k \in Node,
             HandleRequest(k) \/ HandleFrame(k) \/ DropGossip(k) \/ HandleGossip(k)
      PROVE  wire'[n][p] = wire[n][p] /\ queue'[p][c] = queue[p][c]
  <2>1. CASE HandleRequest(k) \/ HandleFrame(k)
    BY <1>2, <2>1 DEF HandleRequest, HandleFrame, Plan, Channel
  <2>2. CASE DropGossip(k) \/ HandleGossip(k)
    BY <1>2, <2>2 DEF DropGossip, HandleGossip, Plan, Channel
  <2> QED
    BY <1>3, <2>1, <2>2
<1>4. ASSUME NEW k \in Node, NEW t \in Sender, Send(k, t)
      PROVE  wire'[n][p] = wire[n][p] /\ queue'[p][c] = queue[p][c]
  <2>1. PICK q, m : Room(k, q) /\ wire' = [wire EXCEPT ![k][q] = Append(@, m)]
    BY <1>4 DEF Send
  <2>2. <<k, q>> # <<n, p>>
    BY <2>1
  <2>3. wire'[n][p] = wire[n][p]
    BY <1>0, <2>1, <2>2 DEF Messaging
  <2> QED
    BY <1>4, <2>3 DEF Send
<1>5. ASSUME NEW k \in Node, NEW q \in Node, Route(k, q)
      PROVE  wire'[n][p] = wire[n][p] /\ queue'[p][c] = queue[p][c]
  <2>1. PICK d : /\ d = ChannelOf(q, Head(wire[k][q]))
                 /\ d \in Channel
                 /\ d \in ready[q] => Len(queue[q][d]) < Capacity
                 /\ \/ UNCHANGED queue
                    \/ \E line : queue' = [queue EXCEPT ![q] = [queue[q] EXCEPT ![d] = line]]
    BY <1>5 DEF Route, ChannelOf, Channel
  <2>2. Len(queue[p][c]) \in Nat
    BY <1>0, LenProperties DEF Messaging
  <2>3. <<q, d>> # <<p, c>>
    BY <1>1, <2>1, <2>2, Sizes
  <2>4. queue'[p][c] = queue[p][c]
    <3>1. DOMAIN queue = Node /\ DOMAIN queue[q] = Channel
      BY <1>0 DEF Messaging
    <3> QED
      BY <2>1, <2>3, <3>1
  <2>5. <<k, q>> # <<n, p>>
    BY <2>1, <2>3
  <2>6. wire'[n][p] = wire[n][p]
    BY <1>0, <1>5, <2>5 DEF Route, Messaging
  <2> QED
    BY <2>4, <2>6
<1>6. ASSUME NEW k \in Node, Stop(k)
      PROVE  wire'[n][p] = wire[n][p] /\ queue'[p][c] = queue[p][c]
  <2>1. k # n /\ k # p
    BY <1>0, <1>6 DEF Stop, Messaging
  <2> QED
    BY <1>0, <1>6, <2>1 DEF Stop, Messaging
<1>7. CASE UNCHANGED <<wire, queue>>
  BY <1>7
<1> QED
  BY <1>3, <1>4, <1>5, <1>6, <1>7
     DEF Next, Progress, Start, SendNone, SendFails, Ask, Broadcast, SendChat, vars

(* Whose holder waits for p is stuck, for p runs. *)
LEMMA WaitingIsStuck ==
    ASSUME FlowInv, Leftovers, NEW n \in Node, NEW p \in Node, WaitsFor(n, p)
    PROVE  Stuck(n)
<1>1. wire[n][p] # <<>>
  BY Sizes, EmptySeq DEF WaitsFor, Room, FlowInv, Messaging
<1>2. up[p]
  BY <1>1 DEF Leftovers, StoppedIsEmpty
<1> QED
  BY <1>2 DEF WaitsFor, Stuck

LEMMA WaitingLasts ==
    ASSUME FlowInv, Leftovers, NEW n \in Node, NEW p \in Node, WaitsFor(n, p), Stuck(p),
           [Next]_vars, up'[n], up'[p]
    PROVE  WaitsFor(n, p)'
<1>1. StaysPut(n) /\ StaysPut(p)
  BY WaitingIsStuck, StuckStaysPut
<1>2. PICK c \in Channel :
         /\ c = ChannelOf(p, Head(wire[n][p]))
         /\ Len(queue[p][c]) >= Capacity /\ out[p][c] # <<>>
  BY DEF WaitsFor, ChannelOf, Channel
<1>3. wire'[n][p] = wire[n][p] /\ queue'[p][c] = queue[p][c]
  BY <1>2, FullStaysFull DEF WaitsFor
<1>4. out'[p][c] = out[p][c]
  BY <1>1, <1>2, TaskNames DEF StaysPut
<1>5. PICK t \in Sender :
         /\ Holds(n, t)
         /\ Head(out[n][t]) # <<>> /\ Head(Head(out[n][t])).to = p
  BY DEF WaitsFor
<1>6. out'[n][t] = out[n][t]
  BY <1>1, <1>5, HolderSends DEF StaysPut, FlowInv, Holds
<1>7. Holds(n, t)'
  <2>1. PICK list \in Seq(Sender \union Starter) : list = lock[n]
    BY DEF FlowInv, Tasks
  <2>2. list # <<>> /\ Head(list) = t
    BY <1>5, <2>1 DEF Holds
  <2>3. ASSUME NEW u \in Sender
        PROVE  Append(list, u) # <<>> /\ Head(Append(list, u)) = Head(list)
    BY <2>2, AppendProperties, HeadTailAppend
  <2> QED
    BY <1>1, <2>1, <2>2, <2>3 DEF StaysPut, Holds
<1>8. ChannelOf(p, Head(wire[n][p]))' = c
  BY <1>1, <1>2, <1>3 DEF ChannelOf, StaysPut
<1>9. ~Room(n, p)'
  BY <1>3 DEF WaitsFor, Room
<1> QED
  BY <1>2, <1>3, <1>4, <1>5, <1>6, <1>7, <1>8, <1>9 DEF WaitsFor

(* A circle of nodes that wait for each other, however many they are and    *)
(* however large the windows and channels, never opens while they run: what *)
(* is sent, routed, handled, announced or registered around it, and who     *)
(* stops outside it, makes no difference.                                   *)
THEOREM CirclesStayClosed == Spec => CirclesLast
<1>1. ASSUME FlowInv, Leftovers, [Next]_vars,
             NEW ring \in SUBSET Node, Circle(ring), \A n \in ring : up'[n]
      PROVE  Circle(ring)'
  <2> SUFFICES ASSUME NEW n \in ring PROVE \E p \in ring : WaitsFor(n, p)'
    BY DEF Circle
  <2>1. PICK p \in ring : WaitsFor(n, p)
    BY <1>1 DEF Circle
  <2>2. Stuck(p)
    BY <1>1, WaitingIsStuck DEF Circle
  <2>3. WaitsFor(n, p)'
    BY <1>1, <2>1, <2>2, WaitingLasts
  <2> QED
    BY <2>3
<1>2. FlowInv /\ Leftovers /\ [Next]_vars =>
        [\A ring \in SUBSET Node :
            Circle(ring) /\ (\A n \in ring : up'[n]) => Circle(ring)']_vars
  BY <1>1
<1> QED
  BY <1>2, AlwaysFlowInv, LeftoversAlways, PTL DEF Spec, CirclesLast

=============================================================================
