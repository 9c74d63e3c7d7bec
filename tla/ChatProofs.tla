----------------------------- MODULE ChatProofs -----------------------------
(***************************************************************************)
(* Proofs about module Chat, for every set of messages and any number of   *)
(* faults and cuts.                                                        *)
(***************************************************************************)
EXTENDS Chat, TLAPS

(* A message leaves its table row for the network, the network for the     *)
(* receiver's table, and comes back as an ack, never skipping a station.   *)
Stations ==
    /\ \A m \in task.sent \union chats \union stored : handed[m] > 0
    /\ acks \subseteq stored

(* A message is still to be handed over, once, while its row is not marked  *)
(* or the round has it on its list; what is handed over already, and this   *)
(* once more, are within what the faults account for.                       *)
Due(m) ==
    m \in task.pending \/ (status[m] \in {"none", "Sending"} /\ m \notin task.sent)
Counted ==
    /\ task.at = "idle" => task.pending = {} /\ task.sent = {}
    /\ task.pending \intersect task.sent = {}
    /\ \A m, x \in task.sent : m = x
    /\ \A m \in Msg : handed[m] <= faults + 1 /\ (Due(m) => handed[m] <= faults)

ChatInv == TypeOK /\ Stations /\ DeliveredIsStored /\ NotDroppedUnsent /\ Counted

LEMMA InitChatInv == Init => ChatInv
<1> SUFFICES ASSUME Init
             PROVE  ChatInv
  OBVIOUS
<1>1. TypeOK
  BY BoundAssumption DEF Init, TypeOK, Idle
<1>2. Stations
  BY DEF Init, Stations, Idle
<1>3. DeliveredIsStored /\ NotDroppedUnsent
  BY DEF Init, DeliveredIsStored, NotDroppedUnsent
<1>4. Counted
  BY DEF Init, Counted, Due, Idle
<1> QED
  BY <1>1, <1>2, <1>3, <1>4 DEF ChatInv

(* Setting the status of one message leaves the others' as they are. *)
LEMMA UpdateOne ==
    ASSUME TypeOK, NEW m \in Msg,
           NEW s \in {"none", "Sending", "Sent", "Delivered", "Failed"}, Update(m, s)
    PROVE  /\ status' \in [Msg -> {"none", "Sending", "Sent", "Delivered", "Failed"}]
           /\ \A x \in Msg : status'[x] = IF x = m THEN s ELSE status[x]
BY DEF TypeOK, Update

(* What the parts of task become when a row is treated. *)
LEMMA TaskFields ==
    ASSUME TypeOK, NEW m \in Msg
    PROVE  /\ [task EXCEPT !.pending = @ \ {m}] =
                  [at |-> task.at, pending |-> task.pending \ {m}, sent |-> task.sent]
           /\ [task EXCEPT !.pending = @ \ {m}, !.sent = {m}] =
                  [at |-> task.at, pending |-> task.pending \ {m}, sent |-> {m}]
           /\ [task EXCEPT !.sent = {}] =
                  [at |-> task.at, pending |-> task.pending, sent |-> {}]
<1>1. task \in [at : {"idle", "round"}, pending : SUBSET Msg, sent : SUBSET Msg]
  BY DEF TypeOK
<1>2. [task EXCEPT !.pending = @ \ {m}] =
          [at |-> task.at, pending |-> task.pending \ {m}, sent |-> task.sent]
  BY <1>1
<1>3. [task EXCEPT !.pending = @ \ {m}, !.sent = {m}] =
          [at |-> task.at, pending |-> task.pending \ {m}, sent |-> {m}]
  <2> DEFINE left == task.pending \ {m}
             listed == [at |-> task.at, pending |-> left, sent |-> task.sent]
  <2>1. [listed EXCEPT !.sent = {m}] = [at |-> task.at, pending |-> left, sent |-> {m}]
    <3> HIDE DEF left
    <3> QED
      OBVIOUS
  <2> QED
    BY <1>2, <2>1, Zenon
<1>4. [task EXCEPT !.sent = {}] = [at |-> task.at, pending |-> task.pending, sent |-> {}]
  BY <1>1
<1> QED
  BY <1>2, <1>3, <1>4

(* A task with these parts is well typed. *)
LEMMA TaskType ==
    ASSUME NEW at \in {"idle", "round"}, NEW pending \in SUBSET Msg, NEW sent \in SUBSET Msg,
           task' = [at |-> at, pending |-> pending, sent |-> sent]
    PROVE  task' \in [at : {"idle", "round"}, pending : SUBSET Msg, sent : SUBSET Msg]
OBVIOUS

(* The steps of the sender task. *)
LEMMA TaskKeeps == ChatInv /\ TaskStep => ChatInv'
<1> SUFFICES ASSUME ChatInv, TaskStep
             PROVE  ChatInv'
  OBVIOUS
<1> USE DEF ChatInv
<1> USE DEF netVars, msgVars, boundVars
<1>1. CASE StartRound
  <2> DEFINE rows == {m \in Msg : status[m] = "Sending"}
  <2>1. task' = [at |-> "round", pending |-> rows, sent |-> {}]
    BY <1>1 DEF StartRound, Idle
  <2>2. task' \in [at : {"idle", "round"}, pending : SUBSET Msg, sent : SUBSET Msg]
    BY <2>1
  <2>3. TypeOK'
    BY <1>1, <2>2 DEF StartRound, TypeOK
  <2>4. task'.at = "round" /\ task'.sent = {} /\ task'.pending = rows
    BY <2>1
  <2> HIDE DEF rows
  <2>5. Stations' /\ DeliveredIsStored' /\ NotDroppedUnsent'
    BY <1>1, <2>4 DEF StartRound, Stations, DeliveredIsStored, NotDroppedUnsent
  <2>6. Counted'
    <3>1. task.sent = {}
      BY <1>1 DEF StartRound, Counted
    <3>2. \A m \in Msg : Due(m)' => Due(m)
      BY <1>1, <2>4, <3>1 DEF StartRound, Due, rows
    <3> QED
      BY <1>1, <2>4, <3>2 DEF StartRound, Counted
  <2> QED
    BY <2>3, <2>5, <2>6
<1>2. CASE EndRound
  <2>1. task' = Idle /\ task.pending = {} /\ task.sent = {}
    BY <1>2 DEF EndRound
  <2>2. TypeOK' /\ Stations' /\ DeliveredIsStored' /\ NotDroppedUnsent'
    BY <1>2, <2>1
       DEF EndRound, Idle, TypeOK, Stations, DeliveredIsStored, NotDroppedUnsent
  <2>3. Counted'
    BY <1>2, <2>1 DEF EndRound, Idle, Counted, Due
  <2> QED
    BY <2>2, <2>3
<1>3. ASSUME NEW m \in Msg, FailUnparsable(m)
      PROVE  ChatInv'
  <2>1. \A x \in Msg : status'[x] = IF x = m THEN "Failed" ELSE status[x]
    BY <1>3, UpdateOne DEF FailUnparsable
  <2>2. task' = [at |-> task.at, pending |-> task.pending \ {m}, sent |-> task.sent]
    BY <1>3, TaskFields DEF FailUnparsable
  <2>3. TypeOK'
    <3>1. task' \in [at : {"idle", "round"}, pending : SUBSET Msg, sent : SUBSET Msg]
      BY <2>2, TaskType DEF TypeOK
    <3> QED
      BY <1>3, <3>1, UpdateOne DEF FailUnparsable, TypeOK
  <2>4. Stations'
    BY <1>3, <2>2 DEF FailUnparsable, Stations
  <2>5. DeliveredIsStored' /\ NotDroppedUnsent'
    BY <1>3, <2>1 DEF FailUnparsable, DeliveredIsStored, NotDroppedUnsent
  <2>6. Counted'
    BY <1>3, <2>1, <2>2 DEF FailUnparsable, Counted, Due
  <2> QED
    BY <2>3, <2>4, <2>5, <2>6
<1>4. ASSUME NEW m \in Msg, TrySend(m)
      PROVE  ChatInv'
  <2>1. task' = [at |-> task.at, pending |-> task.pending \ {m}, sent |-> {m}]
    BY <1>4, TaskFields DEF TrySend
  <2>2. /\ handed' \in [Msg -> Nat]
        /\ \A x \in Msg : handed'[x] = IF x = m THEN handed[x] + 1 ELSE handed[x]
    BY <1>4 DEF TrySend, TypeOK
  <2>3. chats' \subseteq chats \union {m}
    <3>1. chats' = chats \/ chats' = chats \union {m}
      BY <1>4, Zenon DEF TrySend
    <3> QED
      BY <3>1
  <2>4. TypeOK'
    <3>1. task' \in [at : {"idle", "round"}, pending : SUBSET Msg, sent : SUBSET Msg]
      BY <2>1, TaskType DEF TypeOK
    <3> QED
      BY <1>4, <2>2, <2>3, <3>1 DEF TrySend, TypeOK
  <2>5. Stations'
    <3>1. task.sent \subseteq Msg /\ chats \subseteq Msg /\ stored \subseteq Msg
      BY DEF TypeOK
    <3>2. \A x \in Msg : handed[x] \in Nat
      BY DEF TypeOK
    <3>3. \A x \in {m} \union chats \union stored : handed'[x] > 0
      BY <2>2, <3>1, <3>2 DEF Stations
    <3> QED
      BY <1>4, <2>1, <2>3, <3>3 DEF TrySend, Stations
  <2>6. DeliveredIsStored' /\ NotDroppedUnsent'
    BY <1>4, <2>2 DEF TrySend, DeliveredIsStored, NotDroppedUnsent, TypeOK
  <2>7. Counted'
    <3>1. m \in task.pending /\ task.sent = {} /\ status' = status /\ faults' = faults
      BY <1>4 DEF TrySend, InTurn
    <3>2. Due(m) /\ ~Due(m)'
      BY <2>1, <3>1 DEF Due
    <3>3. handed[m] \in Nat /\ faults \in Nat
      BY DEF TypeOK
    <3>4. handed'[m] <= faults' + 1
      BY <2>2, <3>1, <3>2, <3>3 DEF Counted
    <3>5. ASSUME NEW x \in Msg, x # m
          PROVE  handed'[x] <= faults' + 1 /\ (Due(x)' => handed'[x] <= faults')
      <4>1. Due(x)' => Due(x)
        BY <2>1, <3>1, <3>5 DEF Due
      <4> QED
        BY <2>2, <3>1, <3>5, <4>1 DEF Counted
    <3>6. /\ task'.pending \intersect task'.sent = {}
          /\ task'.at # "idle"
          /\ \A x, y \in task'.sent : x = y
      BY <1>4, <2>1 DEF TrySend, InTurn
    <3>7. \A x \in Msg : handed'[x] <= faults' + 1 /\ (Due(x)' => handed'[x] <= faults')
      BY <3>2, <3>4, <3>5
    <3> QED
      BY <3>6, <3>7 DEF Counted
  <2> QED
    BY <2>4, <2>5, <2>6, <2>7
<1>5. ASSUME NEW m \in Msg, SendFails(m)
      PROVE  ChatInv'
  <2>1. task' = [at |-> task.at, pending |-> task.pending \ {m}, sent |-> task.sent]
    BY <1>5, TaskFields DEF SendFails
  <2>2. TypeOK'
    <3>1. task' \in [at : {"idle", "round"}, pending : SUBSET Msg, sent : SUBSET Msg]
      BY <2>1, TaskType DEF TypeOK
    <3> QED
      BY <1>5, <3>1 DEF SendFails, TypeOK
  <2>3. Stations' /\ DeliveredIsStored' /\ NotDroppedUnsent'
    BY <1>5, <2>1 DEF SendFails, Stations, DeliveredIsStored, NotDroppedUnsent
  <2>4. Counted'
    BY <1>5, <2>1 DEF SendFails, Counted, Due
  <2> QED
    BY <2>2, <2>3, <2>4
<1>6. ASSUME NEW m \in Msg, MarkSent(m)
      PROVE  ChatInv'
  <2>1. \A x \in Msg : status'[x] = IF x = m THEN "Sent" ELSE status[x]
    BY <1>6, UpdateOne DEF MarkSent
  <2>2. task' = [at |-> task.at, pending |-> task.pending, sent |-> {}]
    BY <1>6, TaskFields DEF MarkSent
  <2>3. TypeOK'
    <3>1. task' \in [at : {"idle", "round"}, pending : SUBSET Msg, sent : SUBSET Msg]
      BY <2>2, TaskType DEF TypeOK
    <3> QED
      BY <1>6, <3>1, UpdateOne DEF MarkSent, TypeOK
  <2>4. Stations' /\ handed'[m] > 0
    BY <1>6, <2>2 DEF MarkSent, Stations
  <2>5. DeliveredIsStored' /\ NotDroppedUnsent'
    BY <1>6, <2>1, <2>4 DEF MarkSent, DeliveredIsStored, NotDroppedUnsent
  <2>6. Counted'
    <3>1. task.sent = {m}
      BY <1>6 DEF MarkSent, Counted
    <3> QED
      BY <1>6, <2>1, <2>2, <3>1 DEF MarkSent, Counted, Due
  <2> QED
    BY <2>3, <2>4, <2>5, <2>6
<1>7. ASSUME NEW m \in Msg, UpdateFails(m)
      PROVE  ChatInv'
  <2>1. /\ task' = [at |-> "idle", pending |-> {}, sent |-> {}]
        /\ faults' = faults + 1 /\ faults' \in 0..MaxFault
        /\ UNCHANGED <<status, stored, netVars, msgVars, cuts>>
    BY <1>7, BoundAssumption DEF UpdateFails, Idle, TypeOK
  <2> QED
    BY <2>1 DEF TypeOK, Stations, DeliveredIsStored, NotDroppedUnsent, Counted, Due
<1> QED
  BY <1>1, <1>2, <1>3, <1>4, <1>5, <1>6, <1>7 DEF TaskStep

LEMMA ChatInvStep == ChatInv /\ [Next]_vars => ChatInv'
<1> SUFFICES ASSUME ChatInv, [Next]_vars
             PROVE  ChatInv'
  OBVIOUS
<1> USE DEF ChatInv
<1> USE DEF netVars, msgVars, boundVars
<1>1. CASE TaskStep
  BY <1>1, TaskKeeps
<1>2. ASSUME NEW m \in Msg, Queue(m)
      PROVE  ChatInv'
  <2>1. \A x \in Msg : status'[x] = IF x = m THEN "Sending" ELSE status[x]
    BY <1>2, UpdateOne DEF Queue
  <2>2. TypeOK' /\ Stations'
    BY <1>2, UpdateOne DEF Queue, TypeOK, Stations
  <2>3. DeliveredIsStored' /\ NotDroppedUnsent'
    BY <1>2, <2>1 DEF Queue, DeliveredIsStored, NotDroppedUnsent
  <2>4. Counted'
    BY <1>2, <2>1 DEF Queue, Counted, Due
  <2> QED
    BY <2>2, <2>3, <2>4
<1>3. ASSUME NEW m \in Msg, ReceiveChat(m)
      PROVE  ChatInv'
  BY <1>3 DEF ReceiveChat, TypeOK, Stations, DeliveredIsStored, NotDroppedUnsent,
              Counted, Due
<1>4. ASSUME NEW m \in Msg, ReceiveAck(m)
      PROVE  ChatInv'
  <2>1. \A x \in Msg : status'[x] = IF x = m THEN "Delivered" ELSE status[x]
    BY <1>4, UpdateOne DEF ReceiveAck
  <2>2. TypeOK' /\ Stations'
    BY <1>4, UpdateOne DEF ReceiveAck, TypeOK, Stations
  <2>3. m \in stored' /\ handed'[m] > 0
    BY <1>4 DEF ReceiveAck, Stations
  <2>4. DeliveredIsStored' /\ NotDroppedUnsent'
    BY <1>4, <2>1, <2>3 DEF ReceiveAck, DeliveredIsStored, NotDroppedUnsent
  <2>5. Counted'
    BY <1>4, <2>1 DEF ReceiveAck, Counted, Due
  <2> QED
    BY <2>2, <2>4, <2>5
<1>5. ASSUME NEW stillPeers \in BOOLEAN, CutPath(stillPeers)
      PROVE  ChatInv'
  <2>1. peers' \in BOOLEAN /\ path' \in BOOLEAN
    BY <1>5, Zenon DEF CutPath, TypeOK
  <2>2. cuts' \in 0..MaxCut
    BY <1>5, BoundAssumption DEF CutPath, TypeOK
  <2> QED
    BY <1>5, <2>1, <2>2
       DEF CutPath, TypeOK, Stations, DeliveredIsStored, NotDroppedUnsent, Counted, Due
<1>6. CASE Reconnect
  BY <1>6 DEF Reconnect, TypeOK, Stations, DeliveredIsStored, NotDroppedUnsent,
              Counted, Due
<1>7. CASE Crash
  <2>1. /\ task' = [at |-> "idle", pending |-> {}, sent |-> {}]
        /\ faults' = faults + 1 /\ faults' \in 0..MaxFault
        /\ acks' = {} /\ chats' \subseteq chats
        /\ UNCHANGED <<status, stored, netVars, handed, cuts>>
    BY <1>7, BoundAssumption DEF Crash, Idle, TypeOK
  <2> QED
    BY <2>1 DEF TypeOK, Stations, DeliveredIsStored, NotDroppedUnsent, Counted, Due
<1>8. CASE UNCHANGED vars
  BY <1>8 DEF vars, TypeOK, Stations, DeliveredIsStored, NotDroppedUnsent, Counted, Due
<1> QED
  BY <1>1, <1>2, <1>3, <1>4, <1>5, <1>6, <1>7, <1>8 DEF Next

THEOREM ChatInvariant == Spec => []ChatInv
BY InitChatInv, ChatInvStep, PTL DEF Spec

(* The sender's and the receiver's rows and the task keep to their types,   *)
(* for every set of messages, through restarts and refused updates.         *)
THEOREM TypeCorrect == Spec => []TypeOK
BY ChatInvariant, PTL DEF ChatInv

(* "Delivered" in the sender's table means stored at the receiver, however  *)
(* often the sender restarts, a message is repeated or an ack is lost.      *)
THEOREM DeliveryIsTrue == Spec => []DeliveredIsStored
BY ChatInvariant, PTL DEF ChatInv

(* The queue gives up a message only for an unparsable receiver; otherwise  *)
(* it leaves the queue only once a peer has taken it.                       *)
THEOREM NothingDropped == Spec => []NotDroppedUnsent
BY ChatInvariant, PTL DEF ChatInv

(* A message goes to the network once, and once more for each fault that    *)
(* kept its row from being marked: the query and the update never make a    *)
(* round repeat an earlier one, with an ack between them or not.            *)
THEOREM SendsCounted == Spec => []SentOnce
<1>1. ChatInv => SentOnce
  BY DEF ChatInv, Counted, SentOnce
<1> QED
  BY <1>1, ChatInvariant, PTL

-----------------------------------------------------------------------------
(* The chat implements the mailbox. *)

(* Whatever the task, the network or the receiver has was queued; what is   *)
(* handed over can be read by its receiver; and a row the round has on its  *)
(* list still waits, if its receiver cannot be parsed.                      *)
Lost == Unparsable \union Keyless
Posted ==
    /\ \A m \in task.pending \union task.sent \union chats \union stored : status[m] # "none"
    /\ (task.sent \union chats \union stored) \intersect Lost = {}
    /\ \A m \in task.pending \intersect Unparsable : status[m] = "Sending"

(* What the round, the network and the receiver have, and the rows, after a *)
(* step that adds nothing to any.                                           *)
LEMMA PostedShrinks ==
    ASSUME TypeOK, Posted, task'.pending \subseteq task.pending,
           task'.sent \subseteq task.sent, chats' \subseteq chats, UNCHANGED <<stored, status>>
    PROVE  Posted'
BY DEF Posted

LEMMA PostedKept == ChatInv /\ Posted /\ [Next]_vars => Posted'
<1> SUFFICES ASSUME ChatInv, Posted, [Next]_vars
             PROVE  Posted'
  OBVIOUS
<1> USE DEF ChatInv
<1> USE DEF netVars, msgVars, boundVars
<1>0. /\ task.pending \subseteq Msg /\ task.sent \subseteq Msg
      /\ chats \subseteq Msg /\ stored \subseteq Msg
  BY DEF TypeOK
<1>1. CASE StartRound
  <2>1. /\ task'.pending = {m \in Msg : status[m] = "Sending"}
        /\ task'.sent = {}
    BY <1>1 DEF StartRound, Idle
  <2> QED
    BY <1>1, <2>1 DEF StartRound, Posted
<1>2. CASE EndRound
  BY <1>2 DEF EndRound, Idle, Posted
<1>3. ASSUME NEW m \in Msg, FailUnparsable(m)
      PROVE  Posted'
  <2>1. \A x \in Msg : status'[x] = IF x = m THEN "Failed" ELSE status[x]
    BY <1>3, UpdateOne DEF FailUnparsable
  <2>2. task' = [at |-> task.at, pending |-> task.pending \ {m}, sent |-> task.sent]
    BY <1>3, TaskFields DEF FailUnparsable
  <2> QED
    BY <1>0, <1>3, <2>1, <2>2 DEF FailUnparsable, Posted
<1>4. ASSUME NEW m \in Msg, TrySend(m)
      PROVE  Posted'
  <2>1. task' = [at |-> task.at, pending |-> task.pending \ {m}, sent |-> {m}]
    BY <1>4, TaskFields DEF TrySend
  <2>2. chats' \subseteq chats \union {m}
    <3>1. chats' = chats \/ chats' = chats \union {m}
      BY <1>4, Zenon DEF TrySend
    <3> QED
      BY <3>1
  <2>3. m \notin Lost /\ status[m] # "none" /\ UNCHANGED <<status, stored>>
    BY <1>4 DEF TrySend, InTurn, Posted, Lost
  <2> QED
    BY <2>1, <2>2, <2>3 DEF Posted
<1>5. ASSUME NEW m \in Msg, SendFails(m)
      PROVE  Posted'
  <2>1. task' = [at |-> task.at, pending |-> task.pending \ {m}, sent |-> task.sent]
    BY <1>5, TaskFields DEF SendFails
  <2> QED
    BY <1>5, <2>1, PostedShrinks DEF SendFails
<1>6. ASSUME NEW m \in Msg, MarkSent(m)
      PROVE  Posted'
  <2>1. \A x \in Msg : status'[x] = IF x = m THEN "Sent" ELSE status[x]
    BY <1>6, UpdateOne DEF MarkSent
  <2>2. task' = [at |-> task.at, pending |-> task.pending, sent |-> {}]
    BY <1>6, TaskFields DEF MarkSent
  <2>3. m \notin Unparsable
    BY <1>6 DEF MarkSent, Posted, Lost
  <2> QED
    BY <1>0, <1>6, <2>1, <2>2, <2>3 DEF MarkSent, Posted
<1>7. ASSUME NEW m \in Msg, UpdateFails(m)
      PROVE  Posted'
  BY <1>7 DEF UpdateFails, Idle, Posted
<1>8. ASSUME NEW m \in Msg, Queue(m)
      PROVE  Posted'
  <2>1. \A x \in Msg : status'[x] = IF x = m THEN "Sending" ELSE status[x]
    BY <1>8, UpdateOne DEF Queue
  <2> QED
    BY <1>0, <1>8, <2>1 DEF Queue, Posted
<1>9. ASSUME NEW m \in Msg, ReceiveChat(m)
      PROVE  Posted'
  BY <1>9 DEF ReceiveChat, Posted
<1>10. ASSUME NEW m \in Msg, ReceiveAck(m)
       PROVE  Posted'
  <2>1. \A x \in Msg : status'[x] = IF x = m THEN "Delivered" ELSE status[x]
    BY <1>10, UpdateOne DEF ReceiveAck
  <2>2. m \notin Unparsable
    BY <1>10 DEF ReceiveAck, Stations, Posted, Lost
  <2> QED
    BY <1>0, <1>10, <2>1, <2>2 DEF ReceiveAck, Posted
<1>11. ASSUME NEW stillPeers \in BOOLEAN, CutPath(stillPeers)
       PROVE  Posted'
  BY <1>11, PostedShrinks DEF CutPath
<1>12. CASE Reconnect
  BY <1>12, PostedShrinks DEF Reconnect
<1>13. CASE Crash
  BY <1>13 DEF Crash, Idle, Posted
<1>14. CASE UNCHANGED vars
  BY <1>14 DEF vars, Posted
<1> QED
  BY <1>1, <1>2, <1>3, <1>4, <1>5, <1>6, <1>7, <1>8, <1>9, <1>10, <1>11, <1>12, <1>13, <1>14
     DEF Next, TaskStep

(* Each step of the chat is one of the mailbox, or changes neither table. *)
LEMMA StepMails == ChatInv /\ Posted /\ [Next]_vars => [M!Next]_(M!vars)
<1> SUFFICES ASSUME ChatInv, Posted, [Next]_vars
             PROVE  M!Next \/ UNCHANGED M!vars
  OBVIOUS
<1> USE DEF netVars, msgVars, boundVars
<1>1. ASSUME NEW m \in Msg, Queue(m)
      PROVE  M!Post(m)
  BY <1>1 DEF Queue, Update, M!Post, M!Tell
<1>2. ASSUME NEW m \in Msg, ReceiveChat(m)
      PROVE  M!Deliver(m)
  BY <1>2 DEF ReceiveChat, Posted, Lost, M!Deliver
<1>3. ASSUME NEW m \in Msg, MarkSent(m)
      PROVE  M!OnItsWay(m)
  <2>1. m \notin Lost /\ status[m] # "none"
    BY <1>3 DEF MarkSent, Posted
  <2>2. status[m] \in {"Sending", "Sent", "Delivered"}
    BY <2>1 DEF ChatInv, TypeOK, NotDroppedUnsent, Lost
  <2> QED
    BY <1>3, <2>1, <2>2 DEF MarkSent, Update, Lost, M!OnItsWay, M!Tell
<1>4. ASSUME NEW m \in Msg, ReceiveAck(m)
      PROVE  M!Arrived(m)
  BY <1>4 DEF ReceiveAck, Update, ChatInv, Stations, M!Arrived, M!Tell
<1>5. ASSUME NEW m \in Msg, FailUnparsable(m)
      PROVE  M!Reject(m)
  BY <1>5 DEF FailUnparsable, InTurn, Update, Posted, M!Reject, M!Tell
<1>6. CASE UNCHANGED <<status, stored>>
  BY <1>6 DEF M!vars
<1> QED
  BY <1>1, <1>2, <1>3, <1>4, <1>5, <1>6
     DEF Next, TaskStep, StartRound, EndRound, TrySend, SendFails, UpdateFails, CutPath,
         Reconnect, Crash, vars, M!Next

(* Sender task, gossip, acks and restarts together do what the mailbox      *)
(* promises and nothing else, for every set of messages: what the sender is *)
(* told is true, and no message waits again or is taken back.               *)
THEOREM ChatImplementsMailbox == Spec => ImplementsMailbox
<1>1. Init => Posted /\ M!Init
  BY DEF Init, Posted, Idle, M!Init
<1> QED
  BY <1>1, ChatInvariant, PostedKept, StepMails, PTL DEF Spec, ImplementsMailbox, M!Spec

=============================================================================
