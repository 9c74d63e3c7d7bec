----------------------------- MODULE NodeStart -----------------------------
(***************************************************************************)
(* "node start" on the files of a data directory: the certificates it      *)
(* makes or makes again (transport/cert.rs), the keypair "auth init" wrote, *)
(* the QUIC server, and then the database, which the gossip service opens  *)
(* and commands open beside it (module Database).  fs::write empties the   *)
(* file before it fills it, so a process that stops in between leaves one  *)
(* that exists and cannot be parsed.                                       *)
(***************************************************************************)
EXTENDS Database

CONSTANTS
    Starts,  \* what a behaviour may start from: files, and tables of the database
    MaxLoss  \* bound: files that get lost

File == {"ca_cert", "ca_key", "cert", "key", "keypair"}

(* A file that is whole belongs with the files of the same pair. *)
None == [is |-> "none", pair |-> 0]
Torn == [is |-> "torn", pair |-> 0]
Pair(n) == [is |-> "whole", pair |-> n]

ASSUME StartsAssumption ==
    \A s \in Starts :
        s.files \in [File -> {None, Torn, Pair(0)}] /\ StoredBySomeVersion(s.stored)
ASSUME LossAssumption == MaxLoss \in Nat

VARIABLES
    files,  \* files[f]: missing, torn, or of a pair
    made,   \* pairs made so far
    boot,   \* where handle_node_start is
    remake, \* the server's certificate or its key was missing
    writes, \* files it is writing, one after the other
    half,   \* the first of them has been emptied
    auth,   \* an "auth init" is writing the keypair
    losses

fileVars == <<files, made, boot, remake, writes, half, auth, losses>>
vars == <<dbVars, fileVars>>

Boot == {"down", "remove_cert", "remove_key", "ca", "server", "load", "up"}

TypeOK ==
    /\ DatabaseTypeOK
    /\ files \in [File -> {None, Torn} \union {Pair(n) : n \in 0..made}]
    /\ made \in Nat
    /\ boot \in Boot
    /\ {remake, half, auth} \subseteq BOOLEAN
    /\ writes \in Seq(File)
    /\ losses \in 0..MaxLoss

Init ==
    /\ \E s \in Starts : DatabaseInit(s.stored) /\ files = s.files
    /\ made = 0
    /\ boot = "down" /\ remake = FALSE
    /\ writes = <<>> /\ half = FALSE
    /\ auth = FALSE
    /\ losses = 0

Exists(f) == files[f] # None
Whole(f) == files[f].is = "whole"

-----------------------------------------------------------------------------
(* handle_node_start. *)

(* Mutation of BeginStart: that only the certificate is there is enough. *)
BeginStartByCert ==
    /\ boot = "down"
    /\ remake' = ~Exists("cert")
    /\ boot' = "ca"
    /\ UNCHANGED <<dbVars, files, made, writes, half, auth, losses>>

(* Mutation of BeginStart: one file of two is not removed. *)
BeginStartKeeping ==
    /\ boot = "down"
    /\ remake' = ~(Exists("cert") /\ Exists("key"))
    /\ boot' = "ca"
    /\ UNCHANGED <<dbVars, files, made, writes, half, auth, losses>>

(* ensure_certificates looks for the server's certificate and key; if there *)
(* is only one of them, it removes both.                                    *)
BeginStart ==
    /\ boot = "down"
    /\ remake' = ~(Exists("cert") /\ Exists("key"))
    /\ boot' = IF Exists("cert") # Exists("key") THEN "remove_cert" ELSE "ca"
    /\ UNCHANGED <<dbVars, files, made, writes, half, auth, losses>>

RemovePair ==
    /\ boot \in {"remove_cert", "remove_key"}
    /\ files' = [files EXCEPT ![IF boot = "remove_cert" THEN "cert" ELSE "key"] = None]
    /\ boot' = IF boot = "remove_cert" THEN "remove_key" ELSE "ca"
    /\ UNCHANGED <<dbVars, made, remake, writes, half, auth, losses>>

(* A pair of files is made and written, or what is there will do. *)
MakePair(needed, pair, next) ==
    /\ boot' = next
    /\ IF needed
       THEN writes' = pair /\ made' = made + 1
       ELSE UNCHANGED <<writes, made>>

(* generate_ca_cert. *)
EnsureCa ==
    /\ boot = "ca"
    /\ MakePair(~(Exists("ca_cert") /\ Exists("ca_key")), <<"ca_cert", "ca_key">>, "server")
    /\ UNCHANGED <<dbVars, files, remake, half, auth, losses>>

Fail == boot' = "down" /\ UNCHANGED <<writes, made>>

(* The CA's certificate is parsed, and its key if there is something to     *)
(* sign; generate_server_cert.                                              *)
EnsureServer ==
    /\ boot = "server" /\ writes = <<>>
    /\ IF Whole("ca_cert") /\ (remake => Whole("ca_key"))
       THEN MakePair(remake, <<"cert", "key">>, "load")
       ELSE Fail
    /\ UNCHANGED <<dbVars, files, remake, half, auth, losses>>

(* fs::write. *)
Empty ==
    /\ writes # <<>> /\ ~half
    /\ files' = [files EXCEPT ![Head(writes)] = Torn]
    /\ half' = TRUE
    /\ UNCHANGED <<dbVars, made, boot, remake, writes, auth, losses>>

Fill ==
    /\ half
    /\ files' = [files EXCEPT ![Head(writes)] = Pair(made)]
    /\ half' = FALSE
    /\ writes' = Tail(writes)
    /\ UNCHANGED <<dbVars, made, boot, remake, auth, losses>>

(* load_keypair, then start_quic_server, which reads the certificate and    *)
(* the key; rustls refuses a key that is not the certificate's.             *)
Load ==
    /\ boot = "load" /\ writes = <<>>
    /\ IF /\ Whole("keypair") /\ Whole("cert") /\ Whole("key")
          /\ files["cert"] = files["key"]
       THEN boot' = "up" /\ UNCHANGED <<writes, made>>
       ELSE Fail
    /\ UNCHANGED <<dbVars, files, remake, half, auth, losses>>

BootStep == RemovePair \/ EnsureCa \/ EnsureServer \/ Empty \/ Fill \/ Load

(* handle_auth: a keypair that exists is left as it is. *)
AuthInit ==
    /\ ~auth /\ ~Exists("keypair")
    /\ files' = [files EXCEPT !["keypair"] = Torn]
    /\ auth' = TRUE
    /\ UNCHANGED <<dbVars, made, boot, remake, writes, half, losses>>

AuthWritten ==
    /\ auth
    /\ files' = [files EXCEPT !["keypair"] = Pair(made)]
    /\ auth' = FALSE
    /\ UNCHANGED <<dbVars, made, boot, remake, writes, half, losses>>

-----------------------------------------------------------------------------
(* Failures. *)

(* The node's process stops; it may have had the database open. *)
StopNode ==
    /\ boot # "down"
    /\ boot' = "down" /\ writes' = <<>> /\ half' = FALSE
    /\ IF \E n \in NodeProc : at[n] # "closed"
       THEN \E n \in NodeProc : Abort(n)
       ELSE /\ aborts < MaxAbort
            /\ aborts' = aborts + 1
            /\ UNCHANGED <<db, writer, work, openVars, peer, doing, known, stale>>
    /\ UNCHANGED <<files, made, remake, auth, losses>>

StopAuth ==
    /\ auth
    /\ auth' = FALSE
    /\ aborts < MaxAbort
    /\ aborts' = aborts + 1
    /\ UNCHANGED <<db, writer, work, openVars, peer, doing, known, stale>>
    /\ UNCHANGED <<files, made, boot, remake, writes, half, losses>>

(* A file of a node that does not run is removed, or not restored. *)
LoseFile(f) ==
    /\ boot = "down" /\ f # "keypair" /\ Exists(f)
    /\ losses < MaxLoss
    /\ losses' = losses + 1
    /\ files' = [files EXCEPT ![f] = None]
    /\ UNCHANGED <<dbVars, made, boot, remake, writes, half, auth>>

(* Only a node that runs opens the database; commands do so at any time.    *)
UseDatabase ==
    /\ \/ DatabaseStep
       \/ \E p \in Process : \/ Abort(p)
                             \/ (p \in NodeProc => boot = "up") /\ Open(p)
    /\ UNCHANGED fileVars

Next ==
    \/ BeginStart \/ BootStep \/ AuthInit \/ AuthWritten
    \/ StopNode \/ StopAuth \/ \E f \in File : LoseFile(f)
    \/ UseDatabase

(* A process goes on with what it does; every call of get_db_conn in a node *)
(* that runs tries again to open the database, and other nodes go on        *)
(* announcing themselves to it; what they send waits for its turn while the *)
(* handler is busy with other messages.  Nobody has to start a node.        *)
Fairness ==
    /\ WF_vars(BootStep)
    /\ \A p \in Process : WF_vars(OpenStep(p) /\ UNCHANGED fileVars)
    /\ \A p \in Process : WF_vars(CallStep(p) /\ UNCHANGED fileVars)
    /\ \A n \in NodeProc : /\ WF_vars(boot = "up" /\ Open(n) /\ UNCHANGED fileVars)
                           /\ SF_vars(SaveNode(n) /\ UNCHANGED fileVars)

Spec == Init /\ [][Next]_vars /\ Fairness

-----------------------------------------------------------------------------
(* The server never has the certificate of one pair and the key of another, *)
(* wherever earlier starts stopped and whichever files were lost since.     *)
PairMatches == Whole("cert") /\ Whole("key") => files["cert"] = files["key"]

(* "if only one exists, something went wrong, regenerate both": a start     *)
(* fails only for want of a keypair or for a file that an earlier process   *)
(* left half written; no set of files that are missing makes it fail.       *)
StartFails == boot \in {"server", "load"} /\ boot' = "down" /\ aborts' = aborts
FailsOnlyIfDamaged ==
    [][StartFails => ~Exists("keypair") \/ \E f \in File : files[f] = Torn]_vars

(* A node that runs gets its database open, though it may have to wait for  *)
(* a command that is migrating it, or to start over because that one was    *)
(* done first.                                                              *)
NodeOpens ==
    \A n \in NodeProc :
        (boot = "up" /\ at[n] = "closed") ~> (at[n] = "open" \/ boot # "up")
=============================================================================
