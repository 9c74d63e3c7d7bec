------------------------------ MODULE RepoSync ------------------------------
(***************************************************************************)
(* The life of one repository across the network: its owner's git          *)
(* repository, the row, refs and bundle path that every node keeps in      *)
(* SQLite, and the bundle file beside it.  Five tasks of a node touch them *)
(* without a common lock: the gossip handler, the announcer, the bundle    *)
(* sync task, the data handler, the repo refs check; the clone command     *)
(* does so from another process.                                           *)
(*                                                                         *)
(* A bundle file has two parts here: its head, the first chunk, where git  *)
(* finds the refs, and the rest, the other chunks.  Either may be missing  *)
(* or come from another transfer; module BundleTransfer models the frames. *)
(***************************************************************************)
EXTENDS Refs, Sequences

CONSTANTS
    Node,
    Owner,       \* the creator of the repository
    Connected,   \* nodes with a connection to the owner
    FirstCommit, \* git of the owner at the start: a ref map to commit 1
    Edited,      \* the refs the owner commits to or deletes
    MaxCommit,   \* bound: commits the owner makes
    MaxQueue,    \* bound: announcements of a node waiting at another
    Scenarios    \* bounds of a behaviour: hears[n], the nodes whose announcements to
                 \* n are followed; how many requested bundles of a node may be on
                 \* their way; how often the owner deletes a ref, a node restarts, a
                 \* clone begins, and a frame is lost or a step fails

ASSUME NodeAssumption == Owner \in Node /\ Connected \subseteq Node \ {Owner}
ASSUME BoundAssumption == MaxCommit \in Nat \ {0} /\ MaxQueue \in Nat
ASSUME ScenariosAssumption ==
    Scenarios \subseteq [hears : [Node -> SUBSET Node], requests : Nat, deletes : Nat,
                         crashes : Nat, clones : Nat, failures : Nat]
ASSUME FirstCommitAssumption == FirstCommit \in RefMaps({1}) /\ Edited \subseteq Ref

Commit == 1..MaxCommit
RefMap == RefMaps(Commit)

(* What a file holds: the bundle its head belongs to and the one the rest   *)
(* belongs to, as the refs packed in it; NoRefs where it was not written.   *)
FileWith(head, rest) == [exists |-> TRUE, head |-> head, rest |-> rest]
NoFile == [exists |-> FALSE, head |-> NoRefs, rest |-> NoRefs]
Whole(f) == f.head # NoRefs /\ f.rest = f.head
Readers == Node \ {Owner}

VARIABLES
    git,       \* refs of the owner's git repository
    commits,   \* commits made so far
    row,       \* row[n]: "none", "local" or "external" (repos.is_external)
    refs,      \* refs[n]: the refs table
    recorded,  \* recorded[n]: repos.bundle is not empty
    file,      \* file[n]: the bundle file at the path the data handler writes
    inbox,     \* inbox[n][p]: announced refs from p waiting for n's gossip handler
    gossip,    \* gossip[n]: where the gossip handler is
    requests,  \* requests[n]: bundle requests of n the owner has to answer
    packed,    \* packed[n]: bundles on their way to n, the first one arriving
    data,      \* data[n]: the frame the data handler waits for, or what it does
    clone,     \* clone[n]: what a clone command has loaded
    left,      \* the scenario, less the deletes, crashes, clones and failures so far
    published, \* history: values the owner's refs table has had, and those that
               \* overlaid readers announced
    overlaid   \* history: readers whose table a delete failed on, or a clone saved
               \* over, and that no delete has emptied since

reposVars == <<row, refs, recorded>>
envVars == <<git, commits, left, published, overlaid>>
vars == <<git, commits, row, refs, recorded, file, inbox, gossip, requests,
          packed, data, clone, left, published, overlaid>>

Idle == [at |-> "idle"]
Updating(at, new, had) == [at |-> at, new |-> new, had |-> had]

TypeOK ==
    /\ git \in RefMap
    /\ commits \in Commit
    /\ row \in [Node -> {"none", "local", "external"}]
    /\ refs \in [Node -> RefMap]
    /\ recorded \in [Node -> BOOLEAN]
    /\ file \in [Node -> [exists : BOOLEAN, head : RefMap, rest : RefMap]]
    /\ inbox \in [Node -> [Node -> Seq(RefMap)]]
    /\ gossip \in [Node -> {Idle} \union
                     [at : {"insert", "remove", "delete", "save", "clear"},
                      new : RefMap, had : BOOLEAN]]
    /\ requests \in [Readers -> Nat]
    /\ packed \in [Readers -> Seq(RefMap)]
    /\ data \in [Readers -> {"start", "head", "rest", "done", "found"}]
    /\ clone \in [Readers -> {Idle} \union [at : {"loaded", "restored", "saving"},
                                            stale : RefMap, heads : RefMap]]
    /\ left \in [hears : [Node -> SUBSET Node], requests : Nat, deletes : Nat,
                 crashes : Nat, clones : Nat, failures : Nat]
    /\ published \in SUBSET RefMap
    /\ overlaid \in SUBSET Node

(* The owner has run "repo add"; the readers know nothing yet. *)
Init ==
    /\ git = FirstCommit
    /\ commits = 1
    /\ row = [n \in Node |-> IF n = Owner THEN "local" ELSE "none"]
    /\ refs = [n \in Node |-> IF n = Owner THEN ReadRepoRefs(git) ELSE NoRefs]
    /\ recorded = [n \in Node |-> FALSE]
    /\ file = [n \in Node |-> NoFile]
    /\ inbox = [n \in Node |-> [p \in Node |-> <<>>]]
    /\ gossip = [n \in Node |-> Idle]
    /\ requests = [n \in Readers |-> 0]
    /\ packed = [n \in Readers |-> <<>>]
    /\ data = [n \in Readers |-> "start"]
    /\ clone = [n \in Readers |-> Idle]
    /\ left \in Scenarios
    /\ published = {refs[Owner]}
    /\ overlaid = {}

-----------------------------------------------------------------------------
(* The owner works in its repository. *)
MakeCommit(r) ==
    /\ commits < MaxCommit
    /\ commits' = commits + 1
    /\ git' = BatchSave(git, [x \in {r} |-> commits'])
    /\ UNCHANGED <<reposVars, file, inbox, gossip, requests, packed, data, clone, left,
                   published, overlaid>>

DeleteRef(r) ==
    /\ left.deletes > 0
    /\ r \in DOMAIN git
    /\ left' = [left EXCEPT !.deletes = @ - 1]
    /\ git' = Only(git, Ref \ {r})
    /\ UNCHANGED <<commits, reposVars, file, inbox, gossip, requests, packed, data, clone,
                   published, overlaid>>

(* check_and_update_repo_refs, every 60 seconds on each local repository. *)
CheckRefs ==
    /\ HasRefsChanged(refs[Owner], ReadRepoRefs(git))
    /\ refs' = [refs EXCEPT ![Owner] = BatchSave(@, ReadRepoRefs(git))]
    /\ published' = published \union {refs'[Owner]}
    /\ UNCHANGED <<git, commits, left, overlaid, row, recorded, file, inbox, gossip,
                   requests, packed, data, clone>>

(* The broadcaster announces every repository of the table, external ones   *)
(* included; the flood brings the announcement to every other node.         *)
Announce(n) ==
    /\ row[n] # "none"
    /\ inbox' = [p \in Node |->
                   IF n \in left.hears[p] \ {p} /\ Len(inbox[p][n]) < MaxQueue
                   THEN [inbox[p] EXCEPT ![n] = Append(@, refs[n])]
                   ELSE inbox[p]]
    /\ published' = IF n \in overlaid THEN published \union {refs[n]} ELSE published
    /\ UNCHANGED <<git, commits, left, overlaid, reposVars, file, gossip, requests, packed,
                   data, clone>>

-----------------------------------------------------------------------------
(* The gossip handler's branch for a repository announcement: one handler   *)
(* per node, one announcement at a time, each database call a step.         *)
TakeAnnouncement(n, p) ==
    /\ gossip[n] = Idle
    /\ inbox[n][p] # <<>>
    /\ inbox' = [inbox EXCEPT ![n][p] = Tail(@)]

(* Mutation of KnownRefs: compare with the refs table only. *)
KnownFromTable(n) == refs[n]

(* The refs the announced ones are compared with: git lists those in the    *)
(* head of the recorded file, whatever the rest is; the table's if it       *)
(* cannot, because there is no file or no head.                             *)
KnownRefs(n) == IF recorded[n] /\ file[n].head # NoRefs THEN file[n].head ELSE refs[n]

LearnRepo(n, p) ==
    /\ row[n] = "none"
    /\ TakeAnnouncement(n, p)
    /\ row' = [row EXCEPT ![n] = "external"]
    /\ recorded' = [recorded EXCEPT ![n] = FALSE]
    /\ gossip' = [gossip EXCEPT ![n] = Updating("insert", Head(inbox[n][p]), FALSE)]
    /\ UNCHANGED <<envVars, refs, file, requests, packed, data, clone>>

SkipAnnouncement(n, p) ==
    /\ TakeAnnouncement(n, p)
    /\ \/ row[n] = "local"
       \/ row[n] = "external" /\ KnownRefs(n) = Head(inbox[n][p])
    /\ UNCHANGED <<envVars, reposVars, file, gossip, requests, packed, data, clone>>

(* Mutation of BeginUpdate: whatever the row says. *)
BeginUpdateAny(n, p) ==
    /\ row[n] # "none"
    /\ TakeAnnouncement(n, p)
    /\ KnownRefs(n) # Head(inbox[n][p])
    /\ gossip' = [gossip EXCEPT ![n] = Updating("remove", Head(inbox[n][p]), recorded[n])]
    /\ UNCHANGED <<envVars, reposVars, file, requests, packed, data, clone>>

BeginUpdate(n, p) ==
    /\ row[n] = "external"
    /\ TakeAnnouncement(n, p)
    /\ KnownRefs(n) # Head(inbox[n][p])
    /\ gossip' = [gossip EXCEPT ![n] = Updating("remove", Head(inbox[n][p]), recorded[n])]
    /\ UNCHANGED <<envVars, reposVars, file, requests, packed, data, clone>>

Proceed(n, from, to) ==
    /\ gossip[n].at = from
    /\ gossip' = [gossip EXCEPT ![n] = IF to = "idle" THEN Idle
                                       ELSE [@ EXCEPT !.at = to]]
    /\ UNCHANGED <<git, commits, published, row, inbox, requests, packed, data, clone>>

(* remove_file, when the row loaded before named a bundle. *)
RemoveFile(n) ==
    /\ Proceed(n, "remove", "delete")
    /\ file' = IF gossip[n].had THEN [file EXCEPT ![n] = NoFile] ELSE file
    /\ UNCHANGED <<left, overlaid, refs, recorded>>

(* Mutation of DeleteRefs: the old refs stay. *)
KeepRefs(n) ==
    /\ Proceed(n, "delete", "save")
    /\ UNCHANGED <<left, overlaid, refs, recorded, file>>

(* delete_refs_for_repo. *)
DeleteRefs(n) ==
    /\ Proceed(n, "delete", "save")
    /\ refs' = [refs EXCEPT ![n] = NoRefs]
    /\ overlaid' = overlaid \ {n}
    /\ UNCHANGED <<left, recorded, file>>

(* batch_save_refs upserts one ref after the other, in no fixed order. *)
SaveRef(n, r) ==
    /\ gossip[n].at \in {"insert", "save"}
    /\ r \in DOMAIN gossip[n].new
    /\ refs' = [refs EXCEPT ![n] = BatchSave(@, Only(gossip[n].new, {r}))]
    /\ gossip' = [gossip EXCEPT ![n].new = Only(@, Ref \ {r})]
    /\ UNCHANGED <<envVars, row, recorded, file, inbox, requests, packed, data, clone>>

RefsSaved(n) ==
    /\ gossip[n].at \in {"insert", "save"}
    /\ gossip[n].new = NoRefs
    /\ Proceed(n, gossip[n].at, IF gossip[n].at = "save" THEN "clear" ELSE "idle")
    /\ UNCHANGED <<left, overlaid, refs, recorded, file>>

(* update_repo_bundle with an empty path. *)
ClearBundle(n) ==
    /\ Proceed(n, "clear", "idle")
    /\ recorded' = [recorded EXCEPT ![n] = FALSE]
    /\ UNCHANGED <<left, overlaid, refs, file>>

Fail ==
    /\ left.failures > 0
    /\ left' = [left EXCEPT !.failures = @ - 1]

(* Whatever fails on the way, the handler logs it and goes on with the next *)
(* step: the file stays, the old refs stay under the new ones, the rest of  *)
(* the refs is not saved, the path stays.                                   *)
StepFails(n) ==
    /\ Fail
    /\ \E from \in {"insert", "remove", "delete", "save", "clear"} :
         /\ Proceed(n, from, CASE from = "remove" -> "delete"
                               [] from = "delete" -> "save"
                               [] from = "save" -> "clear"
                               [] OTHER -> "idle")
         /\ overlaid' = IF from = "delete" THEN overlaid \union {n} ELSE overlaid
    /\ UNCHANGED <<refs, recorded, file>>

(* Loading the row or its refs fails, or inserting a new row: the           *)
(* announcement is passed over.                                             *)
AnnouncementFails(n, p) ==
    /\ Fail
    /\ TakeAnnouncement(n, p)
    /\ row[n] # "local"
    /\ UNCHANGED <<git, commits, published, overlaid, reposVars, file, gossip, requests,
                   packed, data, clone>>

-----------------------------------------------------------------------------
(* The bundle sync task: request the bundle of each external repository     *)
(* that has none from its creator.  Every tick asks again.                  *)
RequestBundle(n) ==
    /\ row[n] = "external"
    /\ ~recorded[n]
    /\ n \in Connected
    /\ requests[n] + Len(packed[n]) < left.requests
    /\ requests' = [requests EXCEPT ![n] = @ + 1]
    /\ UNCHANGED <<envVars, reposVars, file, inbox, gossip, packed, data, clone>>

(* Mutation of ServeRequest: serve without a request. *)
ServeUnasked(n) ==
    /\ row[Owner] = "local"
    /\ requests' = [requests EXCEPT ![n] = @ - 1]
    /\ packed' = [packed EXCEPT ![n] = Append(@, BundleRefs(git))]
    /\ UNCHANGED <<envVars, reposVars, file, inbox, gossip, data, clone>>

(* handle_bundle_request at the owner: pack what git holds now. *)
ServeRequest(n) ==
    /\ requests[n] > 0
    /\ row[Owner] = "local"
    /\ requests' = [requests EXCEPT ![n] = @ - 1]
    /\ packed' = IF BundleRefs(git) = NoRefs THEN packed
                 ELSE [packed EXCEPT ![n] = Append(@, BundleRefs(git))]
    /\ UNCHANGED <<envVars, reposVars, file, inbox, gossip, data, clone>>

(* The frames of the first bundle of packed[n] come one after the other.    *)
Receive(n, frame, next) ==
    /\ data[n] = frame
    /\ packed[n] # <<>>
    /\ data' = [data EXCEPT ![n] = next]
    /\ UNCHANGED <<git, commits, published, overlaid, reposVars, inbox, gossip, requests,
                   clone>>

(* handle_bundle_start: create the file, or empty it. *)
HandleStart(n) ==
    /\ Receive(n, "start", "head")
    /\ file' = [file EXCEPT ![n] = FileWith(NoRefs, NoRefs)]
    /\ UNCHANGED <<left, packed>>

(* handle_bundle_chunk with the first chunk, and with the others: written   *)
(* in its place, in a file created anew if there is none.                   *)
HandleHead(n) ==
    /\ Receive(n, "head", "rest")
    /\ file' = [file EXCEPT ![n] = FileWith(Head(packed[n]), @.rest)]
    /\ UNCHANGED <<left, packed>>

HandleRest(n) ==
    /\ Receive(n, "rest", "done")
    /\ file' = [file EXCEPT ![n] = FileWith(@.head, Head(packed[n]))]
    /\ UNCHANGED <<left, packed>>

(* handle_bundle_done: look for the file, then record its path. *)
LookForFile(n) ==
    /\ Receive(n, "done", IF file[n].exists THEN "found" ELSE "start")
    /\ packed' = [packed EXCEPT ![n] = Tail(@)]
    /\ UNCHANGED <<left, file>>

(* Mutation of RecordBundle: the path is not saved. *)
FinishUnrecorded(n) ==
    /\ data[n] = "found"
    /\ data' = [data EXCEPT ![n] = "start"]
    /\ UNCHANGED <<envVars, reposVars, file, inbox, gossip, requests, packed, clone>>

(* update_repo_bundle with the path. *)
RecordBundle(n) ==
    /\ data[n] = "found"
    /\ data' = [data EXCEPT ![n] = "start"]
    /\ recorded' = [recorded EXCEPT ![n] = TRUE]
    /\ UNCHANGED <<envVars, row, refs, file, inbox, gossip, requests, packed, clone>>

(* The stream of a frame breaks, or creating, opening or writing the file   *)
(* fails: the frame is passed over and the next one is handled all the same.*)
LoseFrame(n) ==
    /\ Fail
    /\ \/ Receive(n, "start", "head") /\ UNCHANGED packed
       \/ Receive(n, "head", "rest") /\ UNCHANGED packed
       \/ Receive(n, "rest", "done") /\ UNCHANGED packed
       \/ Receive(n, "done", "start") /\ packed' = [packed EXCEPT ![n] = Tail(@)]
    /\ UNCHANGED file

RecordFails(n) ==
    /\ Fail
    /\ data[n] = "found"
    /\ data' = [data EXCEPT ![n] = "start"]
    /\ UNCHANGED <<git, commits, published, overlaid, reposVars, file, inbox, gossip,
                   requests, packed, clone>>

-----------------------------------------------------------------------------
(* handle_repo_clone, in a process of its own: load the row, restore the    *)
(* bundle if its file is still there, save the clone's refs, then save the  *)
(* row loaded at the start.                                                 *)
StartClone(n) ==
    /\ left.clones > 0
    /\ clone[n] = Idle
    /\ recorded[n] /\ file[n].exists
    /\ clone' = [clone EXCEPT ![n] = [at |-> "loaded", stale |-> refs[n], heads |-> NoRefs]]
    /\ left' = [left EXCEPT !.clones = @ - 1]
    /\ UNCHANGED <<git, commits, published, overlaid, reposVars, file, inbox, gossip,
                   requests, packed, data>>

(* git clone reads the whole file. *)
RestoreClone(n) ==
    /\ clone[n].at = "loaded"
    /\ clone' = [clone EXCEPT ![n] =
                   IF Whole(file[n])
                   THEN [@ EXCEPT !.at = "restored", !.heads = ClonedRefs(file[n].head)]
                   ELSE Idle]
    /\ UNCHANGED <<envVars, reposVars, file, inbox, gossip, requests, packed, data>>

SaveCloneRefs(n) ==
    /\ clone[n].at = "restored"
    /\ clone' = [clone EXCEPT ![n].at = "saving"]
    /\ refs' = [refs EXCEPT ![n] = BatchSave(@, clone[n].heads)]
    /\ overlaid' = overlaid \union {n}
    /\ UNCHANGED <<git, commits, left, published, row, recorded, file, inbox, gossip, requests,
                   packed, data>>

SaveCloneRow(n) ==
    /\ clone[n].at = "saving"
    /\ clone' = [clone EXCEPT ![n] = Idle]
    /\ recorded' = [recorded EXCEPT ![n] = TRUE]
    /\ refs' = [refs EXCEPT ![n] = BatchSave(@, clone[n].stale)]
    /\ overlaid' = overlaid \union {n}
    /\ UNCHANGED <<git, commits, left, published, row, file, inbox, gossip, requests, packed, data>>

-----------------------------------------------------------------------------
(* The node process stops and starts: what it was doing and what was on its *)
(* way to it is gone, files and rows stay.  The clone is another process.   *)
Crash(n) ==
    /\ left.crashes > 0
    /\ left' = [left EXCEPT !.crashes = @ - 1]
    /\ inbox' = [inbox EXCEPT ![n] = [p \in Node |-> <<>>]]
    /\ gossip' = [gossip EXCEPT ![n] = Idle]
    /\ requests' = [p \in Readers |-> IF n \in {p, Owner} THEN 0 ELSE requests[p]]
    /\ packed' = [p \in Readers |-> IF n \in {p, Owner} THEN <<>> ELSE packed[p]]
    /\ data' = [p \in Readers |->
                   IF n = p \/ (n = Owner /\ data[p] # "found") THEN "start" ELSE data[p]]
    /\ UNCHANGED <<git, commits, published, overlaid, reposVars, file, clone>>

GossipStep(n) ==
    \/ \E p \in Node : LearnRepo(n, p) \/ SkipAnnouncement(n, p) \/ BeginUpdate(n, p)
    \/ RemoveFile(n) \/ DeleteRefs(n) \/ (\E r \in Ref : SaveRef(n, r))
    \/ RefsSaved(n) \/ ClearBundle(n)

DataStep(n) ==
    \/ HandleStart(n) \/ HandleHead(n) \/ HandleRest(n)
    \/ LookForFile(n) \/ RecordBundle(n)

CloneStep(n) == RestoreClone(n) \/ SaveCloneRefs(n) \/ SaveCloneRow(n)

Next ==
    \/ \E r \in Edited : MakeCommit(r) \/ DeleteRef(r)
    \/ CheckRefs
    \/ \E n \in Node : Announce(n) \/ GossipStep(n) \/ Crash(n) \/ StepFails(n)
    \/ \E n \in Node, p \in Node : AnnouncementFails(n, p)
    \/ \E n \in Readers :
         \/ RequestBundle(n) \/ ServeRequest(n) \/ DataStep(n)
         \/ StartClone(n) \/ CloneStep(n)
         \/ LoseFrame(n) \/ RecordFails(n)

(* Timers keep firing, handler tasks keep taking what waits for them, and a *)
(* command that was started ends.  Nobody has to commit, clone, crash or    *)
(* fail.                                                                    *)
Fairness ==
    /\ WF_vars(CheckRefs)
    /\ \A n \in Node : WF_vars(Announce(n)) /\ WF_vars(GossipStep(n))
    /\ \A n \in Node, p \in Node :
         SF_vars(LearnRepo(n, p) \/ SkipAnnouncement(n, p) \/ BeginUpdate(n, p))
    /\ \A n \in Readers :
         WF_vars(RequestBundle(n)) /\ WF_vars(ServeRequest(n)) /\ WF_vars(DataStep(n))
           /\ WF_vars(CloneStep(n))

Spec == Init /\ [][Next]_vars /\ Fairness

-----------------------------------------------------------------------------
(* Whatever is relayed, half saved or interrupted, only two things mix two  *)
(* versions in a reader's refs table: a delete that fails, and a clone that *)
(* saves what it had loaded.  From the next delete that works the table is  *)
(* again a part of one value the owner's table had, or that a reader with   *)
(* such a mixed table announced.                                            *)
CoherentRefs ==
    \A n \in Readers \ overlaid :
        \E m \in published : refs[n] = Only(m, DOMAIN refs[n])

(* The creator's own table, which every other one is told, loses no ref and *)
(* takes none back to an earlier commit, though relays return to the owner  *)
(* what it announced before, whole or half saved, for as long as they like. *)
OwnerNeverSetBack ==
    [][\A r \in DOMAIN refs[Owner] :
          r \in DOMAIN refs'[Owner] /\ refs[Owner][r] <= refs'[Owner][r]]_vars

Usable(n) == recorded[n] /\ Whole(file[n])
UpToDate(n) == Usable(n) /\ file[n].head = BundleRefs(git)

(* The path is recorded, the file is not there, and nobody is about to      *)
(* change that.                                                             *)
Dangling(n) == recorded[n] /\ ~file[n].exists /\ gossip[n] = Idle

(* A file is recorded that is not whole, and nobody notices: git lists the  *)
(* owner's last refs in its head, or it has no head and the table's refs,   *)
(* compared instead, are the announced ones.                                *)
Torn(n) ==
    /\ recorded[n] /\ file[n].exists /\ ~Whole(file[n])
    /\ \/ file[n].head = BundleRefs(git)
       \/ file[n].head = NoRefs /\ refs[n] = refs[Owner]

(* A connected reader whose row names no bundle gets one: whatever gossip,  *)
(* restarts and clones do meanwhile, the sync task's requests end in a      *)
(* recorded bundle.                                                         *)
Fetches ==
    \A n \in Connected : (row[n] = "external" /\ ~recorded[n]) ~> recorded[n]

(* Once the owner stops committing, a connected reader ends with the bundle *)
(* of the owner's last refs and keeps it, or stays with a path whose file   *)
(* is gone or torn: it never stays with a whole bundle that is out of date, *)
(* nor with a torn one whose head is, nor goes on fetching for ever.        *)
CatchesUp ==
    \A n \in Connected : <>[]UpToDate(n) \/ <>[]Dangling(n) \/ <>[]Torn(n)

(* "automatically downloads bundles for external repositories": a reader    *)
(* without a usable bundle gets one.                                        *)
BundleArrives ==
    \A n \in Connected : (row[n] = "external" /\ ~Usable(n)) ~> Usable(n)
=============================================================================
