------------------------------- MODULE Mailbox -------------------------------
(***************************************************************************)
(* What the chat promises whatever happens below it, without rounds,       *)
(* relays, acks or restarts: messages are posted once, delivered once, and *)
(* what the sender is told of one is true and never goes back to waiting.  *)
(* It promises neither that a message arrives nor that its delivery is     *)
(* reported, and a report that a message is on its way may come after the  *)
(* report that it has arrived.                                             *)
(***************************************************************************)
CONSTANTS Msg, Unparsable, Keyless

VARIABLES
    known,     \* known[m]: what the sender is told of m
    delivered  \* messages the receiver has

vars == <<known, delivered>>

Tell(m, s) ==
    /\ known' = [known EXCEPT ![m] = s]
    /\ UNCHANGED delivered

Init ==
    /\ known = [m \in Msg |-> "none"]
    /\ delivered = {}

Post(m) ==
    /\ known[m] = "none"
    /\ Tell(m, "Sending")

(* Only to a receiver that can be found and can read it. *)
Deliver(m) ==
    /\ known[m] # "none"
    /\ m \notin Unparsable \union Keyless
    /\ delivered' = delivered \union {m}
    /\ UNCHANGED known

OnItsWay(m) ==
    /\ known[m] \in {"Sending", "Sent", "Delivered"}
    /\ m \notin Unparsable \union Keyless
    /\ Tell(m, "Sent")

Arrived(m) ==
    /\ m \in delivered
    /\ Tell(m, "Delivered")

Reject(m) ==
    /\ known[m] = "Sending"
    /\ m \in Unparsable
    /\ Tell(m, "Failed")

Next == \E m \in Msg : Post(m) \/ Deliver(m) \/ OnItsWay(m) \/ Arrived(m) \/ Reject(m)

Spec == Init /\ [][Next]_vars
=============================================================================
