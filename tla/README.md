# A TLA+ model of megaengine

megaengine is a peer-to-peer network for git repositories.  Nodes connect over
QUIC, announce themselves and their repositories by gossip, fetch bundles of
each other's repositories and exchange chat messages.  Every node keeps its
state in an SQLite database, which its command line uses from other processes
while the node runs.

This directory models the parts of it whose correctness depends on the order in
which tasks, messages and restarts happen.  `PROJECT.json` lists the components,
the runs, the lines each definition stands for, the findings, the hazards and
the theorems.  Paths below are relative to `src/src/`.

## 1. The system

| Component | State | Operations | Talks to |
|---|---|---|---|
| Gossip service, `gossip/service.rs` | `seen` map (hash, time) in memory | broadcast every 30 s, `handle_incoming` (dedup, verify, process, forward), cleanup of `seen` every 30 s | connection manager, all tables, chat |
| Gossip messages, `gossip/message.rs` | none | hash, sign, ttl | |
| Repository synchronisation, `repo/repo_sync.rs`, `bundle/bundle_sync.rs`, part of `gossip/service.rs` | `repos` row (external, bundle path), `refs` rows, bundle file | refs check, sync task, announcement branch of the gossip handler | tables, git, bundle service |
| Refs table, `storage/ref_model.rs` | `refs` rows | save, batch save, compare, delete | |
| Bundle transfer, `bundle/transfer.rs`, `bundle/service.rs` | bundle file; position in a transfer | request; start, chunk, done | connection manager, `repos` row |
| Git, `git/pack.rs`, `git/git_repo.rs` | git repositories | pack, restore, list refs | git |
| Chat, `chat/service.rs`, `storage/chat_message.rs`, `cli/chat.rs` | `chat_messages` rows with a status | queue, sender round every second, receive, acknowledge | gossip, connection manager |
| Repository commands, `cli/repo.rs`; MCP `mcp/mcp_server.rs` | as above, from another process | add, clone, pull, list | tables, git |
| Connection manager, `transport/quic.rs` | registry node → connection, channels to gossip and data handler; one mutex around it all | accept, connect, send, route, cleanup | all services |
| Node table, `storage/node_model.rs` | `nodes` rows | delete and insert one row | gossip |
| Database schema, `storage/mod.rs` | the tables; one cell per process | create, add columns, rebuild `repos` and `refs` | all, in all processes |
| Certificates, `transport/cert.rs`, `transport/config.rs` | four files | make, make again, read | node start |
| Node start, `cli/node.rs`; `cli/auth.rs` | the keypair file; the tasks of a node | start, `auth init` | all |
| MCP over SSE, `mcp/sse_server.rs` | session → channel | open, post, close | |
| Ids, keys, repository manager, entry point | none | | |

Tasks of one node run concurrently and share no lock over the database: the
gossip handler (one message at a time), the broadcaster, the refs check, the
bundle sync task, the data handler (one frame at a time), the chat sender, the
connection cleanup.  All that send share one mutex, which is around the
connection manager.  The commands run in processes of their own, on the same
database.

What is hard, and what makes each part correct:

- **Gossip.**  Copies of a message take different ways with different hop
  budgets; the first one to arrive decides (`seen`).  `seen` is forgotten after
  300 s and in a restart; sends fail silently.  Correct: no message travels
  beyond its budget, a flood ends whatever is forgotten, an undisturbed flood is
  complete although the copy that arrives first may have the smaller budget, and
  messages spread only from a holder to a peer at which they pass the signature
  test.
- **Repository synchronisation.**  Row, refs and file are changed in separate
  database calls by several tasks and by commands; announcements are relayed by
  third nodes and may be old; whatever fails is logged and the next step follows.
  Correct: refs tables mix versions only where a named fault made them; a reader
  gets the bundle of the owner's last refs and keeps it, or ends in one of a few
  named states.
- **Connections and bundle transfer.**  Two nodes may dial each other, or come
  back while the old connection is still registered; frames of two transfers, of
  two versions, over two connections; losses and restarts at every frame; a
  truncating start, chunks that do not truncate, writes that are done later, streams
  that are lost one by one, errors nobody is told of.  Correct: a bundle is whole
  if its own transfer missed nothing; a registry keeps the connection that came
  last.
- **Flow.**  Stream windows and channels are bounded, and are waited for with
  the mutex held, by handlers that drain the channels others wait for.  Correct:
  somebody can always go on; whoever waits is served.
- **Chat.**  A restart between send and mark, late acks, absent peers, bad rows
  ahead of good ones.  Correct: a status tells the truth, a message is retried
  until sent, sent again only for a fault, and is delivered in the end.
- **Start and database.**  Stops between any two files or statements; a node and
  a command that both find an old database; answers about columns that are out
  of date when they are used; the update of an external repository, three
  statements without a transaction, beside all that.  Correct: no row is lost that
  the program did not mean to delete, an open database has the
  current columns, a node always gets it open; certificate and key match.

## 2. Modules

| Module | Models | Used by |
|---|---|---|
| `Gossip` | the flood: broadcaster, handler, `seen`, losses, restarts | `GossipMC`, `GossipProofs` |
| `Spread` | abstract specification of the gossip layer | `Gossip` (INSTANCE) |
| `Refs` | ref maps: table, git, bundle, clone | `RepoSync` (EXTENDS) |
| `RepoSync` | one repository through six tasks on several nodes | `RepoSyncMC`, `RepoSyncProofs` |
| `Connections` | dialling, accepting, registries, cleanup, loss, restarts | `BundleTransfer` (EXTENDS), `ConnectionsProofs` |
| `BundleTransfer` | the frames of a transfer over those connections, the file | `BundleTransferMC`, `BundleTransferProofs` |
| `DataFlow` | stream windows, channels, routing, the mutex, the tasks that send | `DataFlowMC`, `DataFlowProofs` |
| `Mailbox` | abstract specification of the chat | `Chat` (INSTANCE) |
| `Chat` | queue, sender task, receiver, acks | `ChatMC`, `ChatProofs` |
| `Database` | opening and migrating the database, and the writes beside it | `NodeStart` (EXTENDS), `DatabaseProofs` |
| `Records` | abstract specification of the tables for their users | `Database` (INSTANCE) |
| `NodeStart` | files, node start, `auth init`, on that database | `NodeStartMC`, `NodeStartProofs` |
| `GossipMC`, `RepoSyncMC`, `BundleTransferMC`, `DataFlowMC`, `ChatMC`, `NodeStartMC` | instances for TLC | |
| `GossipProofs`, `ChatProofs`, `BundleTransferProofs`, `RepoSyncProofs`, `NodeStartProofs`, `DataFlowProofs` | theorems | |
| `ConnectionsProofs`, `DatabaseProofs` | what the steps of those modules keep | `BundleTransferProofs`, `NodeStartProofs` (EXTENDS) |

`RepoSync` packs a bundle in one step and has it arrive in four frames, one bundle
after the other; `BundleTransfer` opens the sending side, the connections and the
writes, and keeps the rest of `RepoSync` small; `DataFlow` keeps of
the frames only that there are many and of the handlers only what they send.
`Gossip` leaves the payload out; in `RepoSync` and `Chat` the flood appears as a
queue from one node to another, or as a message that arrives, arrives again or
never does.

### How they correspond to the code

**Gossip.**  `Broadcast` is one turn of the broadcaster (the origin does not put
its own message into `seen`).  `handle_incoming` is `HandleDuplicate`,
`HandleRejected` (the hash enters `seen` before the signature is checked) and
`HandleAccepted` (`Passes`: the signature is checked only if the origin's id yields a
key, and such a message goes on unchecked if it does not; with `Forwarded`: the ttl is tested, then decremented, and the
peer the copy came from is skipped).  `ExpireSeen` is the cleanup task,
`Lose` a send whose error is ignored, `Restart` a stopped and started process.
A signed message is its origin and timestamp, which decide its hash.
`sent`, `accepted` and `disturbed` are history variables: the last one marks
messages that lost a copy, or whose `seen` entry went while a copy was in flight.

**Refs.**  `BatchSave` upserts and never deletes; `HasRefsChanged` compares the
counts and looks up the database's refs in the current ones, as the code does;
`ReadRepoRefs` lists branches and tags, `BundleRefs` branches, remote-tracking
ones included, and `HEAD` only if there are none.

**RepoSync.**  The gossip handler's repository branch is a program counter in
`gossip[n]`: `BeginUpdate`, `RemoveFile`, `DeleteRefs`, `SaveRef` for each ref,
`RefsSaved`, `ClearBundle`, in the code's order, with the row the handler loaded
at the start kept (`had`).  `StepFails` is any of these calls failing: it is logged
and the next one follows, so that a failed delete leaves the old refs under the new
ones.  `AnnouncementFails` is a failed load.  A bundle file has a head, the first
chunk, in which git finds the refs, and the rest; `HandleStart` creates or truncates
it, `HandleHead` and `HandleRest` write the two parts, whichever file is there by
then, and `LookForFile` and `RecordBundle` are Done: the test for the file and the
update of the row are separate steps because an await lies between them.
`LoseFrame` and `RecordFails` are what is passed over there.  `KnownRefs` is what
announced refs are compared with: those in the head of the recorded file, and the
refs table's if there is no file or no head.  A clone is `StartClone` (load),
`RestoreClone` (git needs the whole file), `SaveCloneRefs`, `SaveCloneRow` (the row *as loaded*, with its
refs and bundle path).  `CheckRefs` is the refs check at the owner, `Announce`
the broadcaster, `RequestBundle` the sync task, `ServeRequest` the owner's data
handler.  `Crash` ends the node process, not the clone.  `published` and
`overlaid` are history variables: the values a reader's table may be part of, and the
readers whose table holds refs of two values since a delete failed or a clone saved.

**Connections.**  A node dials the node it is bootstrapped to once, when it
starts (`Dial`, `DialFails`); the dialer registers the connection itself
(`RegisterDialed`), the other side in a task per connection that reads the
dialer's id (`Accept`) and a task that saves what these hand over
(`SaveAccepted`).  `Register` is the map's insert: the last one wins.  `Break`
and `Restart` take connections away, `Notice` is the moment an end learns of it,
`CleanUp` the timer that drops what has a `close_reason`.  A send fails once the
sender knows; before that it goes nowhere (`CanSend`, `Arrives`).  `latest` is a
history variable, the connection registered last.

**BundleTransfer.**  `SendFrame` sends Start, chunks and Done over the connection
that the registry holds *at that time* (the code looks the node up for every
frame); `AbortTransfer` is the first send that fails.  `HandleStart` truncates,
`HandleChunk` opens without truncation and creates the file if it is not there,
a write behind the end leaves a hole.  `HandleChunk` only hands the data over:
tokio's file is dropped without a flush, so the write itself is `WriteChunk`, at
any later time, and is lost in `RestartReader`.  `Connect` is a step of the
registries.  Each frame is a stream of its own, so `LoseFrame` passes the first one
over and leaves those behind it; it also stands for a handler that gives up before it has
written.  `WriteFails` is a chunk that is not, or not all, written, `HandlerFails` the
other errors that are logged and forgotten.  `writer` is a history variable: the transfer and the connection
that wrote the file, whether its Done was handled, and whether anything else
touched the file or one of the transfer's own frames or writes is missing.

**DataFlow.**  `lock[n]` is the tasks that hold n's mutex or wait for it, in
tokio's order.  What a task has decided to send is in `out`: rounds of messages,
each round under one taking of the mutex.  A bundle is one round, a gossip message
to all peers is one round, a chat message takes the mutex for each peer anew.
`Send` needs room in the peer's window, or the peer's death (`SendFails`).
`Route` is the task that reads a connection: one message after the other, each
waiting for a place in its channel; a data message that comes before the data
channel is registered goes to the gossip handler, which drops it.
`HandleRequest`, `HandleFrame`, `HandleGossip`, `DropGossip` are the handlers,
which take nothing while they have something to send.  `Start` registers the
channels, or ends the dial, in any order.

**Chat.**  `StartRound` is the query, `FailUnparsable`, `TrySend`, `SendFails`
and `MarkSent` treat its rows, `TrySend` and `MarkSent` being apart because a
restart or an ack may come in between.  `TrySend` succeeds when any peer takes the
message; `SendFails` also stands for a receiver whose registry entry is a dead
connection and for one whose id holds no public key.  `UpdateFails` is an update
of a status that fails, which ends the round.

**Database.**  `at[p]` says where process p is in `ensure_schema`.  Tables
are created and columns added one statement at a time; the columns a rebuild asks
for are asked one by one (`AskColumn`) before its transaction takes SQLite's write
lock (`Begin`); `Copy`, `Drop` and `Rename` work on the transaction's view
(`work`) and `Commit` publishes it.  `Abort` is a stop or an error at any
statement: what was not committed is gone and the cell of `get_db_conn` is empty.
A row keeps three values, each TRUE if it is what was written last:
the bundle path, the external flag, the time of creation.  `Find`, `Insert`,
`Update`, `SaveRefs` are `save_repo_to_db`, by the gossip handler for an external
repository or by `repo add` for a local one, `SetBundle` is `update_repo_bundle`.
`Refresh`, `DropRefs`, `SaveRefs`, `ClearBundle` are the update of an external
repository by the gossip handler, which goes on to the next statement when one
fails.  `DeleteNode` and `InsertNode` are `save_node_info_to_db`.  `known` and `stale` are
history variables: what was written, and whether a rebuild has gone by answers
that were out of date.

**NodeStart.**  `BeginStart`, `RemovePair`, `EnsureCa`, `EnsureServer` are
`ensure_certificates`; each file is written by `Empty` and `Fill`, as `fs::write`
truncates before it writes; `Load` reads the keypair and starts the QUIC server,
which refuses a key that is not the certificate's.  A node that is up opens the
database; commands open it at any time.

## 3. Runs

All on two TLC workers; the longest takes under three minutes.

| Run | Instance | Checks |
|---|---|---|
| `gossip` | 6 nodes; a line, a square and a square with one-sided links with budget 1; two graphs with a short and a long way round with budget 4; one node cannot verify the origin, whose id yields no key on one of the graphs | `TypeOK`, `HopBound`, `FloodComplete`, `FloodEnds`, `ImplementsSpread` |
| `repo_pair` | owner and reader; 2 commits; 2 bundles on their way, 1 restart, 1 failure; or 1 clone and 1 restart; or 1 clone and 1 failure | `TypeOK`, `Fetches`, `CatchesUp` |
| `repo_relay` | 3 commits on 2 branches, 1 restart, 1 failure; owner, relay and a reader that hears both; or owner and a reader that hear each other, with 1 deleted branch | `CoherentRefs`, `OwnerNeverSetBack` |
| `bundle_transfer` | bundles of 2 and then 1 chunks; 2 transfers, 3 connections, 1 invalidation; the reader dials the owner, with 2 breaks, restarts, lost frames or failures, or each dials the other, with 1 loss or failure | `TypeOK`, `UntornIsWhole`, `LatestIsKept` |
| `chat` | 4 messages (1 unparsable, 1 without key); 2 faults (restarts, failing updates), 2 absences | `TypeOK`, `DeliveredIsStored`, `NotDroppedUnsent`, `SentOnce`, `ImplementsMailbox`, `RetriesUntilSent` |
| `data_flow` | two nodes that want each other's bundle, with gossip or chat, or with one that stops; an owner whose services start late; three nodes in a line with gossip relayed through the one that serves; windows and channels of 1, bundles of 3 frames | `TypeOK`, `StalledIsWedged`, `CirclesLast`, `HandlersReturn`, `BundlesComeUnlessWedged` |
| `startup` | a node and a command; a new directory, or databases of two older versions; 1 stop or error, 1 lost file | `TypeOK`, `MigrationKeeps`, `OpenIsCurrent`, `PairMatches`, `RowsKept`, `ImplementsRecords`, `FailsOnlyIfDamaged`, `NodeOpens`, `NodeComesBack` |
| `repo_arrives`, `repo_tags`, `bundle_integrity`, `chat_delivery`, `flow_deadlock` | smaller instances | one documented promise each, violated (section 6) |

Why the bounds are enough for the questions asked:

- A budget of 1 on a line of four links lets a copy pass its budget if a
  test or a decrement goes wrong; the square has a cycle in which an undiminished
  copy circulates for ever.
- `FloodComplete` speaks of parts of the graph that nothing leaves and that have
  at most budget + 1 nodes.  With 5 nodes and a budget of 4 that is tight: the
  tail of `Tadpole` and `Kite` hears the message only over copies that went the
  long way round when those come first.  The code's budget of 16 makes it true of
  networks of up to 17 nodes; beyond that a copy with a spent budget that arrives
  first may cut nodes off.
- Two versions, two overlapping transfers and two connections are the least at
  which frames of one can be taken for the other's; the shorter second version is
  what leaves a tail if a start does not truncate.  The third connection lets a
  node come back, be forgotten by the cleanup of the first, and come back again.
- A clone, a restart and a failure can each fall between any two steps of an update,
  and any two of them in either order (`Scenarios` is a set of bounds, one of which is
  chosen for a behaviour); three commits on two branches are needed for a table to mix
  versions, and a relay for a mixed table to be announced to another reader.
- Four messages put a bad row of either kind into the round of good ones; two
  faults let one message be sent three times.
- A wait in `DataFlow` begins when a window and a channel are full, whatever their
  size; with one place each, a bundle of three frames fills both.  Larger
  ones only put the same states further away.
- One process that stops and one that goes on meet in every pair of statements of
  `Database`.  The oldest tables lack every column a rebuild asks for; the older
  ones have what a rebuild that goes by old answers can lose.

Each property of a passing run also has a mutation of the code listed in
`PROJECT.json` (a dropped guard, a missing reset, an off-by-one), written
beside the definition it changes, under which TLC finds the property violated.

The configurations of `BundleTransfer`, `DataFlow` and `NodeStart` switch deadlock
checking off: there the bounded system really stops (all transfers done and no
connection left to open; every bundle fetched, or a circle of waiting nodes, which
`StalledIsWedged` is about; a node whose files are damaged).  The other
specifications never stop, and TLC checks that they do not.

## 4. Fairness

- `Gossip`: each node's handler takes messages while there are some, because
  its task loops over the channel.  Broadcasting, losing, forgetting and
  restarting are not fair: a flood must end without them.
- `RepoSync`: the timers (refs check, announcer, sync task) fire again and again,
  the two handlers of a node keep taking messages, and a clone that was started
  ends.  Announcements of each peer are taken in the end (strong fairness): the
  handler's channel is first in, first out, so no peer's announcement waits for
  ever behind those of another.  Commits, deletions, clones, restarts and
  failures are not fair, and bounded, so that the system comes to rest as far as
  its users are concerned.
- `DataFlow`: each task that can go on does (the two handlers, the holder of the
  mutex, the task that reads a connection, the services that start), a dial ends,
  and the sync task ticks for ever.  The mutex is a queue, so weak fairness
  of its holder is enough.  Broadcasting, chatting and stopping are not fair.
- `Chat`: the sender task runs every second, the handlers take what arrives,
  and the receiver comes back (`Reconnect`); without the last, nothing could be
  said about retries.  Queueing, restarts and absences are not fair and bounded.
- `NodeStart`: a process goes on with the start, the opening or the call it is
  in; a node that runs tries again to open the database, as every call of
  `get_db_conn` does, and goes on hearing announcements (every node repeats its
  own every 30 s).  Taking one is strongly fair: the handler that takes it is busy
  with updates of repositories in between, but its channel is first in, first out.
  Nobody has to start a node, no command has to run, and
  nothing has to fail.
- `BundleTransfer` has safety properties only and no fairness.

## 5. Proofs

Checked by TLAPS for every value of the constants that satisfies the named
assumptions of the module.

- **`GossipProofs`**
  - `TypeCorrect`: `Spec => []TypeOK`.
  - `HopsBounded`: `Spec => []HopBound`.  `HopBound` speaks of nodes that
    processed a message and says nothing of copies in flight; `HopInv` adds that
    the addressee of a copy with ttl t is within DefaultTtl - t + 1 links of the
    origin.  A path is a function from 0..k to nodes, extended by one link when a
    copy is processed and by a stutter where the bound is larger than needed.
  - `FloodsComplete`: `Spec => []FloodComplete`, for every closed part of every finite graph.  The
    invariant `FloodInv` joins `TypeOK` with: senders of copies hold the
    message (`SenderHolds`); only messages that were broadcast are processed,
    and a `seen` entry that passes was processed (`Processed`); while copies of an
    undisturbed message circulate, who processed it has it in `seen` (`Remembered`),
    so nobody processes it twice and the ttl of a copy is at least DefaultTtl
    minus the number of nodes that processed it (`Budget`); and a holder's
    peer holds the message, does not let it pass, or has a copy on its way
    (`Frontier`).  A copy whose ttl is spent therefore arrives only when
    DefaultTtl nodes have processed the message; its addressee and a peer left
    to inform would be two more than that, which is more than the part has.
    That is where the size of the closed part enters.
  - `GossipImplementsSpread`: `Spec => S!Spec`.  `Linked` says that a copy in
    flight was sent by a holder to one of its peers; with it a `HandleAccepted`
    is a `Pass`, a `Broadcast` a `Send`, and every other action a stutter.
- **`ChatProofs`**: `ChatInvariant` and, from it, `TypeCorrect`, `DeliveryIsTrue`
  (`DeliveredIsStored`), `NothingDropped` (`NotDroppedUnsent`) and `SendsCounted`
  (`SentOnce`).  `DeliveredIsStored` alone is not inductive: an ack in flight must
  already imply that the receiver stored the message, and what is stored, on its
  way or about to be marked must have been handed over.  That is `Stations`.  Nor
  is `SentOnce`: a message that is still to be tried must have been handed over at
  most once for each fault so far, one that waits for its mark may be one ahead.
  `ChatImplementsMailbox`: `Spec => M!Spec`.  The mailbox has two of the chat's
  variables, the sender's rows and the receiver's, and none of its rounds, acks or
  faults.  Beside `ChatInv` the refinement needs that whatever the task, the network
  or the receiver has was queued and can be read by its receiver, and that an
  unparsable row on the round's list still waits (`Posted`).  The mailbox allows
  `OnItsWay` after `Arrived`, for `MarkSent` may overwrite what the ack wrote.
- **`BundleTransferProofs`** (on `ConnectionsProofs`)
  - `RegistryKept`: `Spec => []LatestIsKept`.  The inductive invariant
    `ConnectionsInv` adds the types of `Connections`, of which two carry the
    argument: a connection an end knows to be closed is broken, so the cleanup
    takes out only broken ones; and an entry of n for p is a connection between
    the two.  For the latter the connections n has accepted and not yet registered
    must be its own, each there once and no longer being accepted (`DialedLinks`,
    `AcceptedOnce`).
  - `TypeCorrect`: `Spec => []TypeOK`.
  - `UntornTransfersAreWhole`: `Spec => []UntornIsWhole`.  The property speaks of a
    file after Done; the work is to say what a connection carries before.
    `StreamInv`: with the frame the owner is about to send, the frames on a
    connection are of transfers in order, those of one transfer without a gap
    (`Chained`, over `Ahead`); and a connection the owner has not registered
    carries nothing (`UnusedIsEmpty`), which is where `LatestIsKept` is needed.
    A lost frame is the first on its connection, so what is left there has no gap.
    `FileInv`: each transfer is of one version, and while the writer is untorn
    there is a k such that frames up to k have been handled, the next on the
    connection is k + 1, and each chunk up to k is in the file or among the
    writes still to be done (`Progress`).  So whatever is unflushed when Done is
    handled, the file is whole when the last write is.
- **`RepoSyncProofs`**
  - `RefsComparedWhole`: `has_refs_changed` compares the counts and looks up one
    side only; for finite maps that is inequality.
  - `TypeCorrect`: `Spec => []TypeOK`.
  - `RefsStayCoherent`: `Spec => []CoherentRefs`.  A table is a part of a value
    in `published`; for this to be inductive so must every announcement be
    (`Announced`), and, while one is saved ref by ref, what is saved and what is
    still to save must be parts of the *same* value (`Saving`), which holds
    because the old refs are deleted before the first is saved.  Where that delete
    fails, or a clone saves over what is there, the reader is in `overlaid` until a
    delete works, and what it announces meanwhile enters `published`: the mixture
    may be handed on, and nothing else mixes.
  - `OwnerMovesForward`: `Spec => OwnerNeverSetBack`, clones and crashes included.
    The gossip handler may set a reader's table back; the owner's row is local for
    ever, so its handler refuses what comes back from the relays and stays idle,
    and only `CheckRefs` writes its table (`OwnerLeftAlone`).  That one moves it
    forward because the table is behind git wherever both know a ref, and no commit
    is newer than the last (`Follows`).  The owner of the model commits and deletes
    branches; it does not reset one to an older commit, which the table would
    rightly follow.
- **`NodeStartProofs`** (on `DatabaseProofs`)
  - `TypeCorrect`, `OpenMeansCurrent` (`OpenIsCurrent`), `MigrationKeepsValues`
    (`MigrationKeeps`), `NoRowIsLost` (`RowsKept`) from `DatabaseInv`: only the
    process in the transaction holds SQLite's lock (`InTransaction`); tables are
    such as some version stores (`Versioned`); how far a process is in
    `ensure_schema` says which tables and columns are there (`Stage`), which
    stays true under the steps of others because no step takes a table, a row of
    `repos` or an added column away or brings an obsolete one back, and rows of `refs`
    go only in the delete of an update, for the repository updated (`Grows`); and the
    view of
    a transaction has at each statement the rows of the table it will replace, and
    their values if its answers were in time (`Rebuilding`).
  - `DatabaseImplementsRecords`: `Spec => Records!Spec`.  `Records` has one row per
    repository, nobody who creates, alters or rebuilds a table, and nobody who stops.
    A row there is what the committed table has, or none while there is no table
    (`RowsOf`).  The statements of a migration are stutters up to the commit, which
    is one too unless a rebuild went by old answers: then values of the new table may
    be missing, and none is made up (`Rebuilding`).  The row an update or a
    `batch_save_refs` relies on was there in an earlier statement; it still is because
    nothing takes a row of `repos` away (`Stage`, `Grows`).
  - `PairsMatch` (`PairMatches`), `StartsOnWhatIsLeft` (`FailsOnlyIfDamaged`) from
    `FileInv`: files are written in order (`WritesInOrder`), the CA's are there
    when the server's are seen to (`CaThere`), and of a pair that has to be made
    again neither file is left when the first is written (`ServersFiles`).
- **`DataFlowProofs`**
  - `TypeCorrect`: `Spec => []TypeOK`, with the window's bound and a mutex list
    without repetitions.
  - `WhoSendsIsListed`: a task is on the list exactly while it has something to send.
  - `OnlyCirclesStall`: `Spec => []StalledIsWedged`, for any finite set of nodes and
    windows, channels and bundles of any size.  If nobody can go on, the holder of
    a mutex waits for a stream; the connection is full, so its first message waits
    for a full channel; the handler of that channel has something to send, so it is
    on the list and its node's mutex is held too (`HolderWaits`).  The nodes whose
    mutex is held are then the ring, and whatever is left over waits for one of
    them.  `FlowInv` needs besides the types only `ListedToSend`, and that the data
    channel holds nothing but data messages.
  - `CirclesStayClosed`: `Spec => CirclesLast`.  The holder of a mutex that has no
    stream to a running node keeps its place, and what it has to send, through every
    step (`StuckStaysPut`); a full channel whose handler has something to send is
    neither filled nor emptied, and the message before it stays where it is
    (`FullStaysFull`).  In a circle both hold at every node, so every wait outlasts
    the step (`WaitingLasts`).  It takes two more invariants (`Leftovers`): a channel
    that holds anything is registered, or its messages would be dropped, and nothing
    is left of a node that stopped.

The assumptions are those of the modules.  Beside types: the set of nodes is
finite (`Gossip`, `DataFlow`), there is a version of the bundle and every one has a
chunk (`BundleTransfer`), there is a commit (`RepoSync`), and a database that is found was stored by some version of
the program (`StoredBySomeVersion`: a `repos` table has the column `timestamp` or
every column but, maybe, those that ALTER adds; a `refs` table with key and
`created_at` lacks nothing).  `ensure_schema` migrates just these, and would not
notice others.

Only model-checked: all liveness (`FloodEnds`, `Fetches`, `CatchesUp`,
`RetriesUntilSent`, `HandlersReturn`, `BundlesComeUnlessWedged`, `NodeOpens`,
`NodeComesBack`), which the prover does not handle.  `StalledIsWedged` speaks of
`CanGoOn`, in which the guards of the actions are spelled out, because the prover does
not handle ENABLED either; `HandlersReturn` and `BundlesComeUnlessWedged` are checked
with the actions themselves.

## 6. Findings

Five statements of the repository that the code does not keep, each shown by a
run that ends in a counterexample; `PROJECT.json` quotes the lines.

1. `repo_arrives`: a bundle file deleted by the gossip handler between the
   data handler's test and its update leaves a path to no file, which nothing
   repairs until the owner changes its refs.
2. `repo_tags`: announced refs include tags, the refs of a bundle never do.  A
   repository with a tag is fetched again after every announcement.
3. `bundle_integrity`: no length or checksum is compared.  Two nodes that are
   bootstrapped to each other, and no fault, are enough to record a torn file:
   the second connection is registered within a transfer.
4. `chat_delivery`: `Sent` is final on the sender's side, whatever became of the
   message after the first hop.
5. `flow_deadlock`: two nodes that serve each other large bundles at the same time
   wait for each other for ever, and all their gossip with them.

`CatchesUp` in `repo_pair` admits finding 1 by name (`Dangling`) and
a second outcome, `Torn`: a file that is not whole is recorded, and no announcement
has it fetched again, because its head already lists the owner's last refs, or because
it has no head, the handler falls back to the refs table, and that table holds what
is announced.  Such a file comes of a lost frame or a failed write, as nothing is compared (3),
but also of no failure at all: an update removes the file between Start and the last
chunk of a transfer, whose other chunks create it anew; a second transfer
truncates the recorded file and the node stops.  What the property excludes is a
whole but outdated bundle, a torn one whose head is outdated, and endless fetching.
It runs without tags because of finding 2.
In the same way the properties of `data_flow` admit finding 5 (`Wedged`): a circle
of nodes, each waiting for a handler of the next that itself waits to send.  The
circle may consist of gossip handlers, or of both kinds.

More observations that contradict no document.  A failed delete of a reader's old refs
is logged and the new ones are saved over them: the table then mixes two versions, and
its reader announces the mixture, which others save as it is.  `CoherentRefs`
excludes just these tables (`overlaid`) and counts what they announce among the
values a table may be part of (`published`).  The signature of a message is checked
only if its origin's id yields a key; otherwise it is processed and forwarded
unchecked (`Passes`).  `MigrationKeeps` needs
`stale`: a rebuild of `repos` by a second process, begun on answers from before the
first one's commit, resets what the first process's node has written since, so
that an external repository may become a local one for good.  And files torn by a stop
within `fs::write` are never made again (`FailsOnlyIfDamaged` names them): the node
does not start until somebody deletes them, and `auth init` skips a torn keypair.

## 7. Abstractions and what is not modelled

- A peer relation is chosen once per behaviour in `Gossip`; a node that restarts
  gets its old peers back.  One-sided links stand for a connection that only
  one side has cleaned up.  Time is left out of the expiry of `seen`: an entry may
  go at any moment.  An input that parses as a bare signed message, without an
  envelope, gets a fresh budget; no node of this program sends one.
- `RepoSync` follows one repository and takes the refs check's comparison and
  save, and the insertion of a new external row, as one step each (no other task
  writes the owner's refs; `Database` opens the insertion).  A request needs a
  connection to the creator.  Messages
  above the 1 MiB read limit of `transport/quic.rs` are dropped, like those that
  are lost.
- A bundle file of `RepoSync` has two parts, each written at once; git lists the refs
  of any file whose head was written.  A frame is handled in one step there; that the
  write comes later is in `BundleTransfer`.
- `Connections` dials one address; the id a dialer sends is its own.  A break is
  noticed at any later time: the idle timeout of 300 s is not counted.
- `BundleTransfer` follows one repository and one reader; holes are chunks 0.  Its
  registry is never locked for long; what the locks do is in `DataFlow`.
- `DataFlow` puts a connection's streams, and the 32 places of the accepting
  side's first channel, into one window.  A connection is up or its peer has
  stopped; a stopped node does not come back.  The cleanup timer waits for the
  registry's lock like everybody else and is left out.
- Chat follows messages to one receiver.  Encryption, formatting, logging,
  hashing and key handling are left out; an id is parsable or not, holds a key
  or does not, a signature verifies or does not.
- `Database` follows the columns in which versions differ and three values of a
  row; the last UPDATE of `ensure_schema`, which sets times, is left out, and so is
  the timeout after which SQLite gives up waiting for its lock, other than as an
  `Abort`.  The refs of a repository are followed as one: there are some or none, so a
  save in which only some succeed counts as done.  The copy of a rebuild takes only
  rows whose key columns, name, creator, description and path are not NULL, and of
  rows of `refs` with one name, which a table without the key may have, the last one
  (`storage/mod.rs:235, 263-267, 335-338`).  The model copies every row: it assumes that
  no row stored by an older version is NULL there, and counts rows with one name as
  one (`StoredBySomeVersion`).  For a database in which that is not so, `RowsKept` says
  nothing.  `nodes` and `chat_messages` are created and never migrated.
- `NodeStart` runs one node on a directory, and the port is free.
- Not modelled: SSE sessions (each has its own channel and shares no state; a
  session is removed once, by its own stream, and a late answer to it is
  discarded); ids, keys and their encoding; the in-memory repository manager (it has
  no state, and node start passes none); argument parsing, logging.

## 8. Plan

What this directory holds, in the order it was written: `Gossip` with `Spread` and
its proofs; `Refs` and `RepoSync`; `BundleTransfer`; `Chat` with its proofs;
`Connections` under `BundleTransfer`; `DataFlow`; `Database` and `NodeStart`; the
proofs of `BundleTransfer`, `RepoSync`, `Database` and `NodeStart`, and `DataFlow`;
`Mailbox` under `Chat`, `Records` under `Database`, and the action properties of
`DataFlow` and `RepoSync`.
Left:

1. Proofs: which mixtures of versions a reader's table may hold after clones.
2. Composition of `Connections` with `Gossip`, so that the peers of a flood change
   while it goes on.
3. Several readers of one repository, and a reader that is itself an owner.
