-------------------------------- MODULE Chat --------------------------------
(***************************************************************************)
(* Chat messages from one node to another: the queue and the status column *)
(* of the sender's chat_messages table, the sender task of chat/service.rs *)
(* that empties the queue every second, the receiver's table, and the acks *)
(* that come back.  Gossip carries both kinds of message; a copy may be    *)
(* handed over again after its seen entry expired, or never.               *)
(***************************************************************************)
EXTENDS Naturals

CONSTANTS
    Msg,         \* the messages the user queues, all for one receiver
    Unparsable,  \* those whose receiver is not a node id
    Keyless,     \* those whose receiver is one, but holds no public key
    MaxFault,    \* bound: restarts of the sender, updates its database refuses
    MaxCut       \* bound: times the receiver, or the last peer, goes away

ASSUME MsgAssumption ==
    /\ Unparsable \subseteq Msg /\ Keyless \subseteq Msg
    /\ Unparsable \intersect Keyless = {}
ASSUME BoundAssumption == MaxFault \in Nat /\ MaxCut \in Nat

VARIABLES
    status,    \* status[m] in the sender's table, "none" before it is queued
    stored,    \* messages in the receiver's table, all "Delivered"
    task,      \* the sender task: rows its query returned and not yet treated,
               \* and those whose send succeeded and are still to be marked
    peers,     \* the sender is connected to some node
    path,      \* the receiver is a peer of the sender, or gossip reaches it
    chats,     \* messages that are on their way to the receiver, or were
    acks,      \* acks that are on their way to the sender, or were
    handed,    \* history: how often peers have taken a message from the sender
    faults, cuts

netVars == <<peers, path>>
msgVars == <<chats, acks, handed>>
boundVars == <<faults, cuts>>
vars == <<status, stored, task, netVars, msgVars, boundVars>>

Idle == [at |-> "idle", pending |-> {}, sent |-> {}]

TypeOK ==
    /\ status \in [Msg -> {"none", "Sending", "Sent", "Delivered", "Failed"}]
    /\ stored \in SUBSET Msg
    /\ task \in [at : {"idle", "round"}, pending : SUBSET Msg, sent : SUBSET Msg]
    /\ peers \in BOOLEAN /\ path \in BOOLEAN
    /\ chats \in SUBSET Msg /\ acks \in SUBSET Msg
    /\ handed \in [Msg -> Nat]
    /\ faults \in 0..MaxFault /\ cuts \in 0..MaxCut

Init ==
    /\ status = [m \in Msg |-> "none"]
    /\ stored = {}
    /\ task = Idle
    /\ peers \in BOOLEAN
    /\ path \in {p \in BOOLEAN : p => peers}
    /\ chats = {} /\ acks = {} /\ handed = [m \in Msg |-> 0]
    /\ faults = 0 /\ cuts = 0

Update(m, s) == status' = [status EXCEPT ![m] = s]

(* "chat send" writes the row; the node need not be running. *)
Queue(m) ==
    /\ status[m] = "none"
    /\ Update(m, "Sending")
    /\ UNCHANGED <<stored, task, netVars, msgVars, boundVars>>

(* Mutation of StartRound: the query also returns what was sent before. *)
StartWithSent ==
    /\ task.at = "idle"
    /\ task' = [Idle EXCEPT !.at = "round",
                            !.pending = {m \in Msg : status[m] \in {"Sending", "Sent"}}]
    /\ UNCHANGED <<status, stored, netVars, msgVars, boundVars>>

(* process_pending_messages reads all rows that are 'Sending'. *)
StartRound ==
    /\ task.at = "idle"
    /\ task' = [Idle EXCEPT !.at = "round",
                            !.pending = {m \in Msg : status[m] = "Sending"}]
    /\ UNCHANGED <<status, stored, netVars, msgVars, boundVars>>

(* The row in turn, the round's rows being treated one after the other. *)
InTurn(m) ==
    /\ task.at = "round" /\ task.sent = {}
    /\ m \in task.pending

(* Mutation of FailUnparsable: a status the column does not have. *)
MarkInvalid(m) ==
    /\ InTurn(m)
    /\ m \in Unparsable
    /\ Update(m, "Invalid")
    /\ task' = [task EXCEPT !.pending = @ \ {m}]
    /\ UNCHANGED <<stored, netVars, msgVars, boundVars>>

FailUnparsable(m) ==
    /\ InTurn(m)
    /\ m \in Unparsable
    /\ Update(m, "Failed")
    /\ task' = [task EXCEPT !.pending = @ \ {m}]
    /\ UNCHANGED <<stored, netVars, msgVars, boundVars>>

(* try_send_pending_msg succeeds when the receiver, or else at least one    *)
(* peer, takes the message; that says nothing about the receiver.           *)
TrySend(m) ==
    /\ InTurn(m)
    /\ m \notin Unparsable \union Keyless
    /\ peers
    /\ task' = [task EXCEPT !.pending = @ \ {m}, !.sent = {m}]
    /\ chats' = IF path THEN chats \union {m} ELSE chats
    /\ handed' = [handed EXCEPT ![m] = @ + 1]
    /\ UNCHANGED <<status, stored, netVars, acks, boundVars>>

(* Mutations of SendFails: the message is given up, the round is, or the    *)
(* row is written back as it was read.                                      *)
GiveUp(m) ==
    /\ InTurn(m)
    /\ m \notin Unparsable
    /\ m \in Keyless \/ ~path
    /\ Update(m, "Failed")
    /\ task' = [task EXCEPT !.pending = @ \ {m}]
    /\ UNCHANGED <<stored, netVars, msgVars, boundVars>>

AbandonRound(m) ==
    /\ InTurn(m)
    /\ m \notin Unparsable
    /\ m \in Keyless \/ ~path
    /\ task' = Idle
    /\ UNCHANGED <<status, stored, netVars, msgVars, boundVars>>

RequeueFailed(m) ==
    /\ InTurn(m)
    /\ m \notin Unparsable
    /\ m \in Keyless \/ ~path
    /\ Update(m, "Sending")
    /\ task' = [task EXCEPT !.pending = @ \ {m}]
    /\ UNCHANGED <<stored, netVars, msgVars, boundVars>>

(* The message cannot be encrypted, no peer takes it, or the registry still *)
(* names the receiver, whose connection is dead: others are not tried then. *)
(* The row stays 'Sending' for the next round.                              *)
SendFails(m) ==
    /\ InTurn(m)
    /\ m \notin Unparsable
    /\ m \in Keyless \/ ~path
    /\ task' = [task EXCEPT !.pending = @ \ {m}]
    /\ UNCHANGED <<status, stored, netVars, msgVars, boundVars>>

(* Mutation of MarkSent: sent counts as delivered. *)
MarkDelivered(m) ==
    /\ m \in task.sent
    /\ Update(m, "Delivered")
    /\ task' = [task EXCEPT !.sent = {}]
    /\ UNCHANGED <<stored, netVars, msgVars, boundVars>>

(* The update after the send, whatever the status has become meanwhile. *)
MarkSent(m) ==
    /\ m \in task.sent
    /\ Update(m, "Sent")
    /\ task' = [task EXCEPT !.sent = {}]
    /\ UNCHANGED <<stored, netVars, msgVars, boundVars>>

(* The database refuses the update of a row: the round ends there, and the  *)
(* rows that are left wait for the next.                                    *)
UpdateFails(m) ==
    /\ m \in task.sent \/ (InTurn(m) /\ m \in Unparsable)
    /\ faults < MaxFault
    /\ faults' = faults + 1
    /\ task' = Idle
    /\ UNCHANGED <<status, stored, netVars, msgVars, cuts>>

EndRound ==
    /\ task.at = "round" /\ task.pending = {} /\ task.sent = {}
    /\ task' = Idle
    /\ UNCHANGED <<status, stored, netVars, msgVars, boundVars>>

(* process_incoming_chat at the receiver: store unless the id is known, and *)
(* acknowledge in any case.                                                 *)
ReceiveChat(m) ==
    /\ m \in chats
    /\ stored' = stored \union {m}
    /\ acks' = IF path THEN acks \union {m} ELSE acks
    /\ UNCHANGED <<status, task, netVars, chats, handed, boundVars>>

(* process_ack at the sender. *)
ReceiveAck(m) ==
    /\ m \in acks
    /\ Update(m, "Delivered")
    /\ UNCHANGED <<stored, task, netVars, msgVars, boundVars>>

(* The receiver goes out of reach, with what was on its way; it comes back. *)
CutPath(stillPeers) ==
    /\ path \/ (peers /\ ~stillPeers)
    /\ cuts < MaxCut
    /\ cuts' = cuts + 1
    /\ path' = FALSE
    /\ peers' = (peers /\ stillPeers)
    /\ chats' = {} /\ acks' = {}
    /\ UNCHANGED <<status, stored, task, handed, faults>>

Reconnect ==
    /\ ~path
    /\ path' = TRUE /\ peers' = TRUE
    /\ UNCHANGED <<status, stored, task, msgVars, boundVars>>

(* The sender's node process stops and starts, maybe between the send and   *)
(* the update; what peers have relayed by then still arrives.               *)
Crash ==
    /\ faults < MaxFault
    /\ faults' = faults + 1
    /\ task' = Idle
    /\ acks' = {}
    /\ chats' \in SUBSET chats
    /\ UNCHANGED <<status, stored, netVars, handed, cuts>>

TaskStep ==
    \/ StartRound \/ EndRound
    \/ \E m \in Msg : FailUnparsable(m) \/ TrySend(m) \/ SendFails(m) \/ MarkSent(m)
                      \/ UpdateFails(m)

Next ==
    \/ TaskStep
    \/ \E m \in Msg : Queue(m) \/ ReceiveChat(m) \/ ReceiveAck(m)
    \/ \E stillPeers \in BOOLEAN : CutPath(stillPeers)
    \/ Reconnect
    \/ Crash

(* The sender task runs every second whatever comes of a round, handlers    *)
(* keep taking messages, and the receiver is not away for ever.             *)
Fairness ==
    /\ WF_vars(TaskStep)
    /\ WF_vars(Reconnect)
    /\ \A m \in Msg : WF_vars(ReceiveChat(m)) /\ WF_vars(ReceiveAck(m))

Spec == Init /\ [][Next]_vars /\ Fairness

-----------------------------------------------------------------------------
(* The sender calls a message delivered only when the receiver has stored   *)
(* it, through restarts, repeats and losses.                                *)
DeliveredIsStored ==
    \A m \in Msg : status[m] = "Delivered" => m \in stored

(* A message leaves the queue only after some peer took it, or because its  *)
(* receiver cannot be parsed.                                               *)
NotDroppedUnsent ==
    \A m \in Msg :
        /\ status[m] \in {"Sent", "Delivered"} => handed[m] > 0
        /\ status[m] = "Failed" => m \in Unparsable

(* A message is handed over again only for a fault between its sending and  *)
(* the update of its row, once for each: whatever the ack and the update    *)
(* overwrite of each other, and though the round goes by rows it read at    *)
(* its start, no round repeats what an earlier one sent.                    *)
SentOnce == \A m \in Msg : handed[m] <= faults + 1

(* The tables of both nodes are those of the abstract mailbox: whichever of *)
(* ack, update, repeat and restart comes first, what the sender's row says  *)
(* is true, nothing is stored that was not queued, a message to nobody is   *)
(* never said to be on its way, and no message waits again once it left.    *)
M == INSTANCE Mailbox WITH known <- status, delivered <- stored
ImplementsMailbox == M!Spec

(* "retry indefinitely": a queued message does not stay queued, through     *)
(* failed sends, restarts and absent peers, and though every round also     *)
(* fails on messages whose receiver has no key.                             *)
RetriesUntilSent ==
    \A m \in Msg \ Keyless : status[m] = "Sending" ~> status[m] # "Sending"

(* "It will be delivered automatically when the node service is active." *)
WillBeDelivered ==
    \A m \in Msg \ (Unparsable \union Keyless) :
        status[m] = "Sending" ~> m \in stored
=============================================================================
