--------------------------- MODULE BundleTransfer ---------------------------
(***************************************************************************)
(* The frames of bundle/transfer.rs between the owner of a repository and  *)
(* one reader: Request, then Start, Chunk ... Chunk, Done, each on a QUIC  *)
(* stream of its own over the connection the sender's registry (module     *)
(* Connections) names at the time.  One connection delivers in order, but  *)
(* a stream that cannot be read is passed over; two connections between    *)
(* the same nodes do not keep order with each other.                       *)
(*                                                                         *)
(* A bundle is the sequence of its 64 KiB chunks, a chunk is the version   *)
(* of the bundle it belongs to, 0 is a place nobody wrote whole.           *)
(***************************************************************************)
EXTENDS Connections

CONSTANTS
    Owner, Reader,
    Chunks,       \* Chunks[v]: number of chunks of version v of the bundle
    MaxTransfer,  \* bound: transfers the owner starts
    MaxRequest,   \* bound: requests waiting at the owner
    MaxClear,     \* bound: announcements that invalidate a recorded bundle
    MaxFailure    \* bound, for each of Bootstraps: frames lost, handlers' steps and
                  \* writes that fail, connections that break, nodes that stop

ASSUME ChunksAssumption == Chunks \in Seq(Nat \ {0}) /\ Chunks # <<>>
ASSUME BoundAssumption == {MaxTransfer, MaxRequest, MaxClear} \subseteq Nat
ASSUME FailureAssumption == MaxFailure \in [Bootstraps -> Nat]
ASSUME NodeAssumption == Node = {Owner, Reader} /\ Owner # Reader

Version == 1..Len(Chunks)
Transfer == 1..MaxTransfer
Whole(v) == [i \in 1..Chunks[v] |-> v]

Frame == [transfer : Transfer, kind : {"start", "chunk", "done"},
          version : Version, idx : Nat]

NotServing == [on |-> FALSE]
NoFile == [exists |-> FALSE]
FileOf(chunks) == [exists |-> TRUE, chunks |-> chunks]

VARIABLES
    version,    \* what the owner's git repository was packed to last
    requests,   \* requests waiting for the owner's data handler
    serving,    \* send_bundle at the owner: the transfer and its next frame
    transfers,  \* transfers started
    wire,       \* wire[c]: frames sent on c and not yet handled
    file,       \* the bundle file at the reader
    unwritten,  \* chunks handled whose write a thread has still to do
    data,       \* the reader's data handler: "idle" or "found", within Done
    recorded,   \* repos.bundle at the reader is not empty
    gossip,     \* the reader's gossip handler: "idle" or "removed"
    clears,     \* announcements that invalidated the bundle so far
    failures,   \* losses and failures so far
    writer      \* history: the transfer that wrote the file last, its
                \* connection, whether its Done was handled, and whether
                \* anything else touched the file, or a frame or a write of
                \* it is missing

senderVars == <<version, requests, serving, transfers>>
readerVars == <<file, unwritten, data, recorded, gossip, clears, failures, writer>>
vars == <<senderVars, connectionVars, wire, readerVars>>

TypeOK ==
    /\ ConnectionsTypeOK
    /\ version \in Version
    /\ requests \in 0..MaxRequest
    /\ \/ serving = NotServing
       \/ serving \in [on : {TRUE}, transfer : Transfer, version : Version, next : Nat]
    /\ transfers \in 0..MaxTransfer
    /\ wire \in [Conn -> Seq(Frame)]
    /\ file = NoFile \/ file \in [exists : {TRUE}, chunks : Seq({0} \union Version)]
    /\ unwritten \in SUBSET Frame
    /\ data \in {"idle", "found"}
    /\ recorded \in BOOLEAN
    /\ gossip \in {"idle", "removed"}
    /\ clears \in 0..MaxClear
    /\ failures \in Nat
    /\ writer \in [transfer : {0} \union Transfer, conn : {NoConn} \union Conn,
                  done : BOOLEAN, torn : BOOLEAN]

Init ==
    /\ ConnectionsInit
    /\ version = 1
    /\ requests = 0
    /\ serving = NotServing
    /\ transfers = 0
    /\ wire = [c \in Conn |-> <<>>]
    /\ file = NoFile
    /\ unwritten = {}
    /\ data = "idle"
    /\ recorded = FALSE
    /\ gossip = "idle"
    /\ clears = 0
    /\ failures = 0
    /\ writer = [transfer |-> 0, conn |-> NoConn, done |-> FALSE, torn |-> TRUE]

-----------------------------------------------------------------------------
(* The reader's sync task asks on every tick while no bundle is recorded,   *)
(* whether or not a transfer is on its way.                                 *)
RequestBundle ==
    /\ ~recorded
    /\ Arrives(Reader, Owner)
    /\ requests < MaxRequest
    /\ requests' = requests + 1
    /\ UNCHANGED <<version, serving, transfers, connectionVars, wire, readerVars>>

(* What the owner has committed since goes into the next pack. *)
Later(v) == IF v < Len(Chunks) THEN v + 1 ELSE v

(* Mutation of ServeRequest: serve without a request. *)
ServeUnasked ==
    /\ serving = NotServing
    /\ transfers < MaxTransfer
    /\ requests' = requests - 1
    /\ transfers' = transfers + 1
    /\ version' \in {version, Later(version)}
    /\ serving' = [on |-> TRUE, transfer |-> transfers', version |-> version', next |-> 0]
    /\ UNCHANGED <<connectionVars, wire, readerVars>>

(* handle_bundle_request: pack, read the bundle, begin send_bundle.  The    *)
(* data handler serves one request at a time.                               *)
ServeRequest ==
    /\ serving = NotServing
    /\ requests > 0
    /\ transfers < MaxTransfer
    /\ requests' = requests - 1
    /\ transfers' = transfers + 1
    /\ version' \in {version, Later(version)}
    /\ serving' = [on |-> TRUE, transfer |-> transfers', version |-> version', next |-> 0]
    /\ UNCHANGED <<connectionVars, wire, readerVars>>

(* The frame send_bundle sends next: Start, the chunks, Done. *)
NextFrame ==
    [transfer |-> serving.transfer,
     kind |-> IF serving.next = 0 THEN "start"
              ELSE IF serving.next <= Chunks[serving.version] THEN "chunk" ELSE "done",
     version |-> serving.version,
     idx |-> serving.next]

SendFrame ==
    /\ serving.on
    /\ CanSend(Owner, Reader)
    /\ wire' = IF Arrives(Owner, Reader)
               THEN [wire EXCEPT ![registry[Owner][Reader]] = Append(@, NextFrame)]
               ELSE wire
    /\ serving' = IF NextFrame.kind = "done" THEN NotServing
                  ELSE [serving EXCEPT !.next = @ + 1]
    /\ UNCHANGED <<version, requests, transfers, connectionVars, readerVars>>

(* The first send that fails ends send_bundle; Done is not sent. *)
AbortTransfer ==
    /\ serving.on
    /\ ~CanSend(Owner, Reader)
    /\ serving' = NotServing
    /\ UNCHANGED <<version, requests, transfers, connectionVars, wire, readerVars>>

-----------------------------------------------------------------------------
(* Of all that may go wrong, no more than the bound does. *)
Bounded == faults + failures < MaxFailure[dials]

(* The registries change; whatever the connection, what has been sent on it *)
(* goes on arriving.                                                        *)
Connect ==
    /\ ConnectionStep
    /\ UNCHANGED <<senderVars, wire, readerVars>>

(* A connection breaks; of what was sent on it a first part may have        *)
(* reached the reader, but for the frames LoseFrame takes out of it.        *)
Disconnect(c) ==
    /\ Bounded
    /\ Break(c)
    /\ \E k \in 0..Len(wire[c]) : wire' = [wire EXCEPT ![c] = SubSeq(@, 1, k)]
    /\ UNCHANGED <<senderVars, readerVars>>

RestartOwner ==
    /\ Bounded
    /\ Restart(Owner)
    /\ requests' = 0 /\ serving' = NotServing
    /\ UNCHANGED <<version, transfers, wire, readerVars>>

(* Files and rows are all that is left of the reader's process. *)
RestartReader ==
    /\ Bounded
    /\ Restart(Reader)
    /\ wire' = [c \in Conn |-> <<>>]
    /\ unwritten' = {}
    /\ data' = "idle" /\ gossip' = "idle"
    /\ writer' = [writer EXCEPT !.torn = @ \/ unwritten # {}]
    /\ UNCHANGED <<senderVars, file, recorded, clears, failures>>

-----------------------------------------------------------------------------
(* The reader's data handler takes the next frame of some connection. *)
Take(c, kind) ==
    /\ data = "idle"
    /\ wire[c] # <<>>
    /\ Head(wire[c]).kind = kind
    /\ wire' = [wire EXCEPT ![c] = Tail(@)]
    /\ UNCHANGED <<senderVars, connectionVars, recorded, gossip, clears, failures>>

(* The file goes on being the work of one transfer over one connection, or  *)
(* it does not.                                                             *)
SameWriter(c, f) ==
    writer' = [writer EXCEPT !.done = f.kind = "done",
                             !.torn = @ \/ f.transfer # writer.transfer \/ c # writer.conn]

(* Mutation of HandleStart: an existing file is not truncated. *)
StartOnTop(c) ==
    /\ Take(c, "start")
    /\ file' = IF file.exists THEN file ELSE FileOf(<<>>)
    /\ writer' = [transfer |-> Head(wire[c]).transfer, conn |-> c, done |-> FALSE,
                  torn |-> FALSE]
    /\ UNCHANGED <<unwritten, data>>

(* handle_bundle_start creates the file, or truncates it. *)
HandleStart(c) ==
    /\ Take(c, "start")
    /\ file' = FileOf(<<>>)
    /\ writer' = [transfer |-> Head(wire[c]).transfer, conn |-> c, done |-> FALSE,
                  torn |-> FALSE]
    /\ UNCHANGED <<unwritten, data>>

(* A write at chunk position idx leaves a hole before it if need be. *)
Written(chunks, idx, v) ==
    [i \in 1..(IF idx > Len(chunks) THEN idx ELSE Len(chunks)) |->
        IF i = idx THEN v ELSE IF i <= Len(chunks) THEN chunks[i] ELSE 0]

(* handle_bundle_chunk opens the file without truncation, creating it when  *)
(* there is none, and leaves the write at the chunk's offset to a thread:   *)
(* the file is dropped without a flush.                                     *)
HandleChunk(c) ==
    /\ Take(c, "chunk")
    /\ file' = IF file.exists THEN file ELSE FileOf(<<>>)
    /\ unwritten' = unwritten \union {Head(wire[c])}
    /\ SameWriter(c, Head(wire[c]))
    /\ UNCHANGED data

WriteChunk(f) ==
    /\ f \in unwritten
    /\ unwritten' = unwritten \ {f}
    /\ file' = FileOf(Written(file.chunks, f.idx, f.version))
    /\ writer' = [writer EXCEPT !.torn = @ \/ f.transfer # writer.transfer]
    /\ UNCHANGED <<senderVars, connectionVars, wire, data, recorded, gossip, clears, failures>>

(* handle_bundle_done looks whether the file exists ... *)
HandleDone(c) ==
    /\ Take(c, "done")
    /\ data' = IF file.exists THEN "found" ELSE "idle"
    /\ SameWriter(c, Head(wire[c]))
    /\ UNCHANGED <<file, unwritten>>

(* ... and then records its path. *)
RecordBundle ==
    /\ data = "found"
    /\ data' = "idle"
    /\ recorded' = TRUE
    /\ UNCHANGED <<senderVars, connectionVars, wire, file, unwritten, gossip, clears,
                   failures, writer>>

(* An announcement with other refs: the gossip handler deletes the file the *)
(* row names and, some database calls later, clears the row's path.  Writes *)
(* not yet done go to the file that has no name any more.                   *)
RemoveOutdated ==
    /\ recorded
    /\ gossip = "idle"
    /\ clears < MaxClear
    /\ clears' = clears + 1
    /\ gossip' = "removed"
    /\ file' = NoFile
    /\ unwritten' = {}
    /\ writer' = [writer EXCEPT !.torn = TRUE]
    /\ UNCHANGED <<senderVars, connectionVars, wire, data, recorded, failures>>

ClearBundle ==
    /\ gossip = "removed"
    /\ gossip' = "idle"
    /\ recorded' = FALSE
    /\ UNCHANGED <<senderVars, connectionVars, wire, file, unwritten, data, clears,
                   failures, writer>>

-----------------------------------------------------------------------------
(* What fails is logged at most, and nobody is told. *)
Fail ==
    /\ Bounded
    /\ failures' = failures + 1

(* The stream of a frame cannot be read, or its handler gives up: Start     *)
(* without emptying the file, a chunk before it is written, Done before it  *)
(* is recorded.  The frames behind it are handled all the same.             *)
LoseFrame(c) ==
    /\ Fail
    /\ wire[c] # <<>>
    /\ wire' = [wire EXCEPT ![c] = Tail(@)]
    /\ \/ file' = file
       \/ Head(wire[c]).kind = "chunk" /\ ~file.exists /\ file' = FileOf(<<>>)
    /\ writer' = [writer EXCEPT !.torn = @ \/ Head(wire[c]).transfer = writer.transfer]
    /\ UNCHANGED <<senderVars, connectionVars, unwritten, data, recorded, gossip, clears>>

(* The write fails, before or after a part of the chunk is written. *)
WriteFails(f) ==
    /\ Fail
    /\ f \in unwritten
    /\ unwritten' = unwritten \ {f}
    /\ file' \in {file, FileOf(Written(file.chunks, f.idx, 0))}
    /\ writer' = [writer EXCEPT !.torn = TRUE]
    /\ UNCHANGED <<senderVars, connectionVars, wire, data, recorded, gossip, clears>>

(* Serving a request, recording the path, removing the file or clearing the *)
(* path fails.                                                              *)
HandlerFails ==
    /\ Fail
    /\ \/ /\ serving = NotServing /\ requests > 0
          /\ requests' = requests - 1
          /\ UNCHANGED <<data, gossip, clears>>
       \/ /\ data = "found"
          /\ data' = "idle"
          /\ UNCHANGED <<requests, gossip, clears>>
       \/ /\ recorded /\ gossip = "idle" /\ clears < MaxClear
          /\ clears' = clears + 1 /\ gossip' = "removed"
          /\ UNCHANGED <<requests, data>>
       \/ /\ gossip = "removed"
          /\ gossip' = "idle"
          /\ UNCHANGED <<requests, data, clears>>
    /\ UNCHANGED <<version, serving, transfers, connectionVars, wire, file, unwritten,
                   recorded, writer>>

Next ==
    \/ RequestBundle \/ ServeRequest \/ SendFrame \/ AbortTransfer
    \/ Connect \/ RestartOwner \/ RestartReader
    \/ \E c \in Conn : Disconnect(c) \/ HandleStart(c) \/ HandleChunk(c) \/ HandleDone(c)
                                     \/ LoseFrame(c)
    \/ (\E f \in unwritten : WriteChunk(f) \/ WriteFails(f))
    \/ RecordBundle \/ RemoveOutdated \/ ClearBundle \/ HandlerFails

Spec == Init /\ [][Next]_vars

-----------------------------------------------------------------------------
(* When a transfer is over and its writes are done, the file is its bundle, *)
(* whole and nothing else, if the transfer kept to one connection, no other *)
(* one wrote to the file, and none of its frames and writes is missing:     *)
(* breaks, stops, late writes, and whatever is lost of other transfers      *)
(* leave neither a hole in it nor a tail of a longer bundle behind it.      *)
(* (Nothing in the program notices a frame or a write that is missing.)     *)
UntornIsWhole ==
    writer.done /\ ~writer.torn /\ unwritten = {} =>
        \E v \in Version : file = FileOf(Whole(v))

(* "P2P transfer of Git bundle files between nodes with integrity           *)
(* verification": when nothing is under way, the file that a row names is   *)
(* a whole bundle.                                                          *)
Quiet ==
    /\ serving = NotServing /\ requests = 0
    /\ data = "idle" /\ gossip = "idle"
    /\ unwritten = {}
    /\ \A c \in Conn : wire[c] = <<>>

RecordedIsWhole ==
    Quiet /\ recorded => file.exists /\ \E v \in Version : file = FileOf(Whole(v))
=============================================================================
