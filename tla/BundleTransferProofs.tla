------------------------ MODULE BundleTransferProofs ------------------------
(***************************************************************************)
(* Proofs about module BundleTransfer, for any number of transfers,        *)
(* versions and chunks, connections, breaks and restarts.                  *)
(***************************************************************************)
EXTENDS BundleTransfer, ConnectionsProofs

(* The steps of BundleTransfer are steps of the registries, or leave them   *)
(* alone.                                                                   *)
LEMMA RegistrySteps ==
    [Next]_vars => \/ ConnectionStep
                   \/ \E c \in Conn : Break(c)
                   \/ \E n \in Node : Restart(n)
                   \/ UNCHANGED connectionVars
<1> SUFFICES ASSUME Next
             PROVE  \/ ConnectionStep
                    \/ \E c \in Conn : Break(c)
                    \/ \E n \in Node : Restart(n)
                    \/ UNCHANGED connectionVars
  BY DEF vars
<1>1. CASE Connect
  BY <1>1 DEF Connect
<1>2. CASE \E c \in Conn : Disconnect(c)
  BY <1>2 DEF Disconnect
<1>3. CASE RestartOwner \/ RestartReader
  BY <1>3, NodeAssumption DEF RestartOwner, RestartReader
<1>4. CASE \E c \in Conn : HandleStart(c) \/ HandleChunk(c) \/ HandleDone(c) \/ LoseFrame(c)
  BY <1>4 DEF HandleStart, HandleChunk, HandleDone, Take, LoseFrame
<1>5. CASE \/ RequestBundle \/ ServeRequest \/ SendFrame \/ AbortTransfer
           \/ (\E f \in unwritten : WriteChunk(f) \/ WriteFails(f))
           \/ RecordBundle \/ RemoveOutdated \/ ClearBundle \/ HandlerFails
  BY <1>5
     DEF RequestBundle, ServeRequest, SendFrame, AbortTransfer, WriteChunk, WriteFails,
         RecordBundle, RemoveOutdated, ClearBundle, HandlerFails
<1> QED
  BY <1>1, <1>2, <1>3, <1>4, <1>5 DEF Next

LEMMA NextKeepsConnections ==
    ConnectionsInv /\ [Next]_vars => ConnectionsInv' /\ UsesOnce
<1> SUFFICES ASSUME ConnectionsInv, [Next]_vars
             PROVE  ConnectionsInv' /\ UsesOnce
  OBVIOUS
<1>1. CASE ConnectionStep
  BY <1>1, ConnectionKeeps, ConnectionUsesOnce
<1>2. CASE \E c \in Conn : Break(c)
  BY <1>2, BreakKeeps, BreakUsesOnce
<1>3. CASE \E n \in Node : Restart(n)
  BY <1>3, RestartKeeps, RestartUsesOnce
<1>4. CASE UNCHANGED connectionVars
  <2>1. ConnectionsInv'
    BY <1>4 DEF connectionVars, ConnectionsInv, ConnectionsTypeOK, DialedLinks,
                AcceptedOnce, LatestIsKept, Links, Peers
  <2>2. UsesOnce
    BY <1>4 DEF connectionVars, UsesOnce, Unused, Pending
  <2> QED
    BY <2>1, <2>2
<1> QED
  BY <1>1, <1>2, <1>3, <1>4, RegistrySteps

(* start_connection_cleanup takes out of a registry only connections that   *)
(* have closed: the connection a node registered last for a peer is the one *)
(* it finds in the registry until it breaks, whatever becomes of the        *)
(* earlier connections of that peer.                                        *)
THEOREM RegistryKept == Spec => []LatestIsKept
<1>1. Init => ConnectionsInv
  BY InitConnectionsInv DEF Init
<1>2. ConnectionsInv => LatestIsKept
  BY DEF ConnectionsInv
<1> QED
  BY <1>1, <1>2, NextKeepsConnections, PTL DEF Spec

-----------------------------------------------------------------------------
(* Types. *)

(* Frames of a transfer that are on their way, or about to be sent. *)
WellFormed(f) ==
    /\ f.idx <= Chunks[f.version] + 1
    /\ f.kind = IF f.idx = 0 THEN "start"
                ELSE IF f.idx <= Chunks[f.version] THEN "chunk" ELSE "done"

ServingOK ==
    serving.on => /\ serving.transfer = transfers
                  /\ serving.next <= Chunks[serving.version] + 1

(* There are writes to do only where there is a file. *)
UnwrittenOK ==
    /\ unwritten # {} => file.exists
    /\ \A f \in unwritten : /\ f.kind = "chunk" /\ f.transfer <= transfers
                            /\ f.idx \in 1..Chunks[f.version]

Typed == TypeOK /\ ServingOK /\ UnwrittenOK

LEMMA ChunkCounts == \A v \in Version : Chunks[v] \in Nat \ {0}
BY ChunksAssumption, LenProperties, ElementOfSeq DEF Version

LEMMA Bounds ==
    MaxTransfer \in Nat /\ MaxRequest \in Nat /\ MaxClear \in Nat
BY BoundAssumption

LEMMA NextFrameType ==
    ASSUME Typed, serving.on
    PROVE  NextFrame \in Frame /\ WellFormed(NextFrame)
<1>1. serving \in [on : {TRUE}, transfer : Transfer, version : Version, next : Nat]
  <2>1. NotServing.on = FALSE
    BY DEF NotServing
  <2> QED
    BY <2>1 DEF Typed, TypeOK
<1>2. Chunks[serving.version] \in Nat /\ serving.next <= Chunks[serving.version] + 1
  BY <1>1, ChunkCounts DEF Typed, ServingOK
<1>3. /\ serving.transfer \in Transfer /\ serving.version \in Version /\ serving.next \in Nat
  BY <1>1
<1> QED
  BY <1>2, <1>3 DEF NextFrame, Frame, WellFormed

(* The file after a write at a chunk position. *)
LEMMA WrittenType ==
    ASSUME NEW S, NEW q \in Seq(S), NEW i \in Nat \ {0}, NEW v \in S, 0 \in S
    PROVE  Written(q, i, v) \in Seq(S)
<1>1. Len(q) \in Nat /\ \A j \in 1..Len(q) : q[j] \in S
  BY LenProperties, ElementOfSeq
<1> DEFINE n == IF i > Len(q) THEN i ELSE Len(q)
<1>2. n \in Nat
  BY <1>1
<1>3. Written(q, i, v) \in [1..n -> S]
  BY <1>1 DEF Written
<1> HIDE DEF n
<1> QED
  BY <1>2, <1>3, SeqDef

(* The types of what is the owner's, and what is the reader's. *)
OwnerTypes ==
    /\ version \in Version
    /\ requests \in 0..MaxRequest
    /\ \/ serving = NotServing
       \/ serving \in [on : {TRUE}, transfer : Transfer, version : Version, next : Nat]
    /\ transfers \in 0..MaxTransfer

ReaderTypes ==
    /\ file = NoFile \/ file \in [exists : {TRUE}, chunks : Seq({0} \union Version)]
    /\ unwritten \in SUBSET Frame
    /\ data \in {"idle", "found"}
    /\ recorded \in BOOLEAN
    /\ gossip \in {"idle", "removed"}
    /\ clears \in 0..MaxClear
    /\ failures \in Nat
    /\ writer \in [transfer : {0} \union Transfer, conn : {NoConn} \union Conn,
                  done : BOOLEAN, torn : BOOLEAN]

LEMMA SplitTypes ==
    TypeOK <=> ConnectionsTypeOK /\ OwnerTypes /\ wire \in [Conn -> Seq(Frame)] /\ ReaderTypes
BY DEF TypeOK, OwnerTypes, ReaderTypes

LEMMA InitTyped == Init => Typed
<1> SUFFICES ASSUME Init
             PROVE  Typed
  OBVIOUS
<1>1. ConnectionsTypeOK
  BY InitConnectionsInv DEF Init, ConnectionsInv
<1>2. 1 \in Version
  BY ChunksAssumption, EmptySeq DEF Version
<1>3. wire \in [Conn -> Seq(Frame)]
  BY DEF Init
<1>4. NotServing.on = FALSE
  BY DEF NotServing
<1>5. OwnerTypes
  BY <1>2, Bounds DEF Init, OwnerTypes
<1>6. ReaderTypes
  <2>1. writer \in [transfer : {0} \union Transfer, conn : {NoConn} \union Conn,
                    done : BOOLEAN, torn : BOOLEAN]
    BY DEF Init
  <2>2. file = NoFile /\ unwritten = {} /\ data = "idle" /\ gossip = "idle"
    BY DEF Init
  <2>3. recorded \in BOOLEAN
    BY Zenon DEF Init
  <2>4. clears \in 0..MaxClear /\ failures \in Nat
    BY Bounds DEF Init
  <2> QED
    BY <2>1, <2>2, <2>3, <2>4 DEF ReaderTypes
<1>7. ServingOK /\ UnwrittenOK
  BY <1>4 DEF Init, ServingOK, UnwrittenOK
<1> QED
  BY <1>1, <1>3, <1>5, <1>6, <1>7, SplitTypes DEF Typed

(* The frame a handler takes is one of a connection's. *)
LEMMA TakenFrame ==
    ASSUME Typed, NEW c \in Conn, NEW kind, Take(c, kind)
    PROVE  /\ wire' \in [Conn -> Seq(Frame)]
           /\ wire[c] \in Seq(Frame) /\ wire[c] # <<>>
           /\ Head(wire[c]) \in Frame /\ Head(wire[c]).kind = kind
<1>1. wire \in [Conn -> Seq(Frame)]
  BY DEF Typed, TypeOK
<1>2. wire[c] \in Seq(Frame) /\ wire[c] # <<>>
  BY <1>1 DEF Take
<1>3. Head(wire[c]) \in Frame /\ Tail(wire[c]) \in Seq(Frame)
  BY <1>2, HeadTailProperties
<1> QED
  BY <1>1, <1>2, <1>3 DEF Take

(* What is left of the owner's part, the wire, and the reader's part. *)
Parts ==
    OwnerTypes /\ ServingOK /\ wire \in [Conn -> Seq(Frame)] /\ ReaderTypes /\ UnwrittenOK

LEMMA TypedParts == Typed <=> ConnectionsTypeOK /\ Parts
BY SplitTypes DEF Typed, Parts

LEMMA OwnerKept ==
    ASSUME Parts, UNCHANGED senderVars
    PROVE  OwnerTypes' /\ ServingOK'
BY DEF Parts, senderVars, OwnerTypes, ServingOK

LEMMA ReaderKept ==
    ASSUME Parts, UNCHANGED readerVars, transfers' \in Nat, transfers' >= transfers
    PROVE  ReaderTypes' /\ UnwrittenOK'
<1>1. ReaderTypes'
  BY DEF Parts, readerVars, ReaderTypes
<1>2. \A f \in unwritten : f.transfer \in Nat
  BY DEF Parts, ReaderTypes, Frame, Transfer
<1>3. transfers \in Nat
  BY DEF Parts, OwnerTypes
<1> QED
  BY <1>1, <1>2, <1>3 DEF Parts, readerVars, UnwrittenOK

(* The owner's steps. *)
LEMMA OwnerStepsKeepParts ==
    ASSUME Typed, RequestBundle \/ ServeRequest \/ SendFrame \/ AbortTransfer
    PROVE  Parts'
<1>1. Parts /\ transfers \in Nat
  <2>1. Parts
    BY TypedParts
  <2>2. transfers \in 0..MaxTransfer
    BY <2>1, Zenon DEF Parts, OwnerTypes
  <2> QED
    BY <2>1, <2>2, Bounds
<1>2. CASE RequestBundle
  <2>1. requests' \in 0..MaxRequest
    BY <1>1, <1>2, Bounds DEF RequestBundle, Parts, OwnerTypes
  <2>2. ReaderTypes' /\ UnwrittenOK'
    BY <1>1, <1>2, ReaderKept DEF RequestBundle
  <2> QED
    BY <1>1, <1>2, <2>1, <2>2 DEF RequestBundle, Parts, OwnerTypes, ServingOK
<1>3. CASE ServeRequest
  <2>1. requests' \in 0..MaxRequest /\ transfers' \in 1..MaxTransfer
    BY <1>1, <1>3, Bounds DEF ServeRequest, Parts, OwnerTypes
  <2>2. version' \in Version
    BY <1>1, <1>3, ChunksAssumption, LenProperties
       DEF ServeRequest, Parts, OwnerTypes, Later, Version
  <2>3. serving' \in [on : {TRUE}, transfer : Transfer, version : Version, next : Nat]
    BY <1>3, <2>1, <2>2 DEF ServeRequest, Transfer
  <2>4. ServingOK'
    BY <1>3, <2>2, ChunkCounts DEF ServeRequest, ServingOK
  <2>5. ReaderTypes' /\ UnwrittenOK'
    BY <1>1, <1>3, <2>1, ReaderKept DEF ServeRequest
  <2>6. OwnerTypes'
    <3>1. transfers' \in 0..MaxTransfer
      BY <2>1, Bounds
    <3> QED
      BY <2>1, <2>2, <2>3, <3>1, Zenon DEF OwnerTypes
  <2> QED
    BY <1>1, <1>3, <2>4, <2>5, <2>6 DEF ServeRequest, Parts
<1>4. CASE SendFrame
  <2>1. serving \in [on : {TRUE}, transfer : Transfer, version : Version, next : Nat]
    <3>1. NotServing.on = FALSE
      BY DEF NotServing
    <3> QED
      BY <1>1, <1>4, <3>1 DEF SendFrame, Parts, OwnerTypes
  <2>2. NextFrame \in Frame /\ WellFormed(NextFrame)
    BY <1>4, NextFrameType DEF SendFrame
  <2>3. wire' \in [Conn -> Seq(Frame)]
    BY <1>1, <1>4, <2>2, AppendProperties DEF SendFrame, Parts
  <2>4. OwnerTypes' /\ ServingOK'
    <3>1. CASE NextFrame.kind = "done"
      <4>1. NotServing.on = FALSE
        BY DEF NotServing
      <4> QED
        BY <1>1, <1>4, <3>1, <4>1 DEF SendFrame, Parts, OwnerTypes, ServingOK
    <3>2. CASE NextFrame.kind # "done"
      <4>1. serving' = [serving EXCEPT !.next = @ + 1]
        BY <1>4, <3>2 DEF SendFrame
      <4>2. /\ serving' \in [on : {TRUE}, transfer : Transfer, version : Version, next : Nat]
            /\ serving'.next = serving.next + 1 /\ serving'.transfer = serving.transfer
            /\ serving'.version = serving.version
        <5>1. /\ serving'.on = serving.on /\ serving'.transfer = serving.transfer
              /\ serving'.version = serving.version /\ serving'.next = serving.next + 1
              /\ DOMAIN serving' = {"on", "transfer", "version", "next"}
          BY <2>1, <4>1
        <5>2. serving'.next \in Nat
          BY <2>1, <5>1
        <5>3. serving' = [on |-> TRUE, transfer |-> serving.transfer,
                          version |-> serving.version, next |-> serving.next + 1]
          BY <2>1, <4>1
        <5> QED
          BY <2>1, <5>1, <5>2, <5>3
      <4>3. serving.next <= Chunks[serving.version] /\ Chunks[serving.version] \in Nat
        BY <2>1, <3>2, ChunkCounts DEF NextFrame
      <4>4. OwnerTypes'
        BY <1>1, <1>4, <4>2 DEF SendFrame, Parts, OwnerTypes
      <4>5. ServingOK'
        BY <1>1, <1>4, <2>1, <4>2, <4>3 DEF SendFrame, Parts, ServingOK
      <4> QED
        BY <4>4, <4>5
    <3> QED
      BY <3>1, <3>2
  <2>5. ReaderTypes' /\ UnwrittenOK'
    BY <1>1, <1>4, ReaderKept DEF SendFrame
  <2> QED
    BY <2>3, <2>4, <2>5 DEF Parts
<1>5. CASE AbortTransfer
  <2>1. NotServing.on = FALSE
    BY DEF NotServing
  <2>2. ReaderTypes' /\ UnwrittenOK'
    BY <1>1, <1>5, ReaderKept DEF AbortTransfer
  <2> QED
    BY <1>1, <1>5, <2>1, <2>2 DEF AbortTransfer, Parts, OwnerTypes, ServingOK
<1> QED
  BY <1>2, <1>3, <1>4, <1>5

(* The frames that have been sent. *)
WireOK ==
    \A c \in Conn : \A i \in DOMAIN wire[c] :
        WellFormed(wire[c][i]) /\ wire[c][i].transfer <= transfers

(* The reader's steps. *)
LEMMA ReaderStepsKeepParts ==
    ASSUME Typed, WireOK,
           \/ \E c \in Conn : HandleStart(c) \/ HandleChunk(c) \/ HandleDone(c)
           \/ \E f \in unwritten : WriteChunk(f)
           \/ RecordBundle \/ RemoveOutdated \/ ClearBundle
    PROVE  Parts'
<1>1. Parts
  BY TypedParts
<1>2. UNCHANGED senderVars
  BY DEF HandleStart, HandleChunk, HandleDone, Take, WriteChunk, RecordBundle, RemoveOutdated,
         ClearBundle
<1>3. OwnerTypes' /\ ServingOK'
  BY <1>1, <1>2, OwnerKept
<1>4. transfers' = transfers
  BY <1>2 DEF senderVars
<1>5. FileOf(<<>>) \in [exists : {TRUE}, chunks : Seq({0} \union Version)] /\ FileOf(<<>>).exists
  BY DEF FileOf
<1>6. ASSUME NEW c \in Conn, HandleStart(c)
      PROVE  Parts'
  <2>1. /\ wire' \in [Conn -> Seq(Frame)] /\ Head(wire[c]) \in Frame
        /\ UNCHANGED <<recorded, gossip, clears, failures, unwritten, data>>
        /\ file' = FileOf(<<>>)
    BY <1>6, TakenFrame DEF HandleStart, Take
  <2>2. writer' \in [transfer : {0} \union Transfer, conn : {NoConn} \union Conn,
                     done : BOOLEAN, torn : BOOLEAN]
    <3>1. Head(wire[c]).transfer \in Transfer
      BY <2>1 DEF Frame
    <3> QED
      BY <1>6, <3>1 DEF HandleStart
  <2>3. ReaderTypes'
    BY <1>1, <1>5, <2>1, <2>2 DEF Parts, ReaderTypes
  <2>4. UnwrittenOK'
    BY <1>1, <1>4, <1>5, <2>1 DEF Parts, UnwrittenOK
  <2> QED
    BY <1>3, <2>1, <2>3, <2>4 DEF Parts
<1>7. ASSUME NEW c \in Conn, NEW f \in Frame, SameWriter(c, f)
      PROVE  writer' \in [transfer : {0} \union Transfer, conn : {NoConn} \union Conn,
                          done : BOOLEAN, torn : BOOLEAN]
  <2>1. writer \in [transfer : {0} \union Transfer, conn : {NoConn} \union Conn,
                    done : BOOLEAN, torn : BOOLEAN]
    BY <1>1 DEF Parts, ReaderTypes
  <2> QED
    BY <1>7, <2>1 DEF SameWriter
<1>8. ASSUME NEW c \in Conn, HandleDone(c)
      PROVE  Parts'
  <2>1. /\ wire' \in [Conn -> Seq(Frame)] /\ Head(wire[c]) \in Frame
        /\ UNCHANGED <<recorded, gossip, clears, failures, file, unwritten>>
        /\ data' \in {"idle", "found"}
        /\ SameWriter(c, Head(wire[c]))
    BY <1>8, TakenFrame DEF HandleDone, Take
  <2>2. ReaderTypes'
    BY <1>1, <1>7, <2>1 DEF Parts, ReaderTypes
  <2>3. UnwrittenOK'
    BY <1>1, <1>4, <2>1 DEF Parts, UnwrittenOK
  <2> QED
    BY <1>3, <2>1, <2>2, <2>3 DEF Parts
<1>9. ASSUME NEW c \in Conn, HandleChunk(c)
      PROVE  Parts'
  <2> DEFINE f == Head(wire[c])
  <2>1. /\ wire' \in [Conn -> Seq(Frame)] /\ f \in Frame
        /\ wire[c] \in Seq(Frame) /\ wire[c] # <<>> /\ f.kind = "chunk"
        /\ UNCHANGED <<recorded, gossip, clears, failures, data>>
        /\ file' = IF file.exists THEN file ELSE FileOf(<<>>)
        /\ unwritten' = unwritten \union {f}
        /\ SameWriter(c, f)
    BY <1>9, TakenFrame DEF HandleChunk, Take
  <2>2. WellFormed(f) /\ f.transfer <= transfers
    BY <2>1, Unqueued DEF WireOK
  <2>3. f.idx \in 1..Chunks[f.version]
    <3>1. f.idx \in Nat /\ Chunks[f.version] \in Nat
      BY <2>1, ChunkCounts DEF Frame
    <3> HIDE DEF f
    <3> QED
      BY <2>1, <2>2, <3>1 DEF WellFormed
  <2>4. file' \in [exists : {TRUE}, chunks : Seq({0} \union Version)] /\ file'.exists
    <3>1. NoFile.exists = FALSE
      BY DEF NoFile
    <3> QED
      BY <1>1, <1>5, <2>1, <3>1 DEF Parts, ReaderTypes
  <2> HIDE DEF f
  <2>5. ReaderTypes'
    BY <1>1, <1>7, <2>1, <2>4 DEF Parts, ReaderTypes
  <2>6. UnwrittenOK'
    BY <1>1, <1>4, <2>1, <2>2, <2>3, <2>4 DEF Parts, UnwrittenOK
  <2> QED
    BY <1>3, <2>1, <2>5, <2>6 DEF Parts
<1>10. ASSUME NEW f \in unwritten, WriteChunk(f)
       PROVE  Parts'
  <2>1. /\ UNCHANGED <<wire, recorded, gossip, clears, failures, data>>
        /\ unwritten' = unwritten \ {f}
        /\ file' = FileOf(Written(file.chunks, f.idx, f.version))
        /\ writer' = [writer EXCEPT !.torn = @ \/ f.transfer # writer.transfer]
    BY <1>10 DEF WriteChunk
  <2>2. file.chunks \in Seq({0} \union Version)
    <3>1. /\ file.exists
          /\ file = NoFile \/ file \in [exists : {TRUE}, chunks : Seq({0} \union Version)]
      BY <1>1 DEF Parts, UnwrittenOK, ReaderTypes
    <3>2. NoFile.exists = FALSE
      BY DEF NoFile
    <3> QED
      BY <3>1, <3>2
  <2>3. f.version \in Version /\ f.idx \in Nat \ {0}
    <3>1. f \in Frame /\ f.idx \in 1..Chunks[f.version]
      BY <1>1 DEF Parts, UnwrittenOK, ReaderTypes
    <3>2. f.version \in Version
      BY <3>1 DEF Frame
    <3> QED
      BY <3>1, <3>2, ChunkCounts
  <2>4. Written(file.chunks, f.idx, f.version) \in Seq({0} \union Version)
    BY <2>2, <2>3, WrittenType
  <2>5. file' \in [exists : {TRUE}, chunks : Seq({0} \union Version)] /\ file'.exists
    BY <2>1, <2>4 DEF FileOf
  <2>6. writer' \in [transfer : {0} \union Transfer, conn : {NoConn} \union Conn,
                     done : BOOLEAN, torn : BOOLEAN]
    BY <1>1, <2>1 DEF Parts, ReaderTypes
  <2>7. ReaderTypes'
    BY <1>1, <2>1, <2>5, <2>6 DEF Parts, ReaderTypes
  <2>8. UnwrittenOK'
    BY <1>1, <1>4, <2>1, <2>5 DEF Parts, UnwrittenOK
  <2> QED
    BY <1>1, <1>3, <2>1, <2>7, <2>8 DEF Parts
<1>11. CASE RecordBundle
  <2>1. /\ UNCHANGED <<wire, file, unwritten, gossip, clears, failures, writer>>
        /\ data' = "idle" /\ recorded' = TRUE
    BY <1>11 DEF RecordBundle
  <2>2. ReaderTypes' /\ UnwrittenOK'
    BY <1>1, <1>4, <2>1 DEF Parts, ReaderTypes, UnwrittenOK
  <2> QED
    BY <1>1, <1>3, <2>1, <2>2 DEF Parts
<1>12. CASE RemoveOutdated
  <2>1. /\ UNCHANGED <<wire, data, recorded, failures>> /\ clears' = clears + 1 /\ clears < MaxClear
        /\ gossip' = "removed" /\ file' = NoFile /\ unwritten' = {}
        /\ writer' = [writer EXCEPT !.torn = TRUE]
    BY <1>12 DEF RemoveOutdated
  <2>2. clears' \in 0..MaxClear
    BY <1>1, <2>1, Bounds DEF Parts, ReaderTypes
  <2>3. writer' \in [transfer : {0} \union Transfer, conn : {NoConn} \union Conn,
                     done : BOOLEAN, torn : BOOLEAN]
    BY <1>1, <2>1 DEF Parts, ReaderTypes
  <2>4. ReaderTypes' /\ UnwrittenOK'
    BY <1>1, <2>1, <2>2, <2>3 DEF Parts, ReaderTypes, UnwrittenOK
  <2> QED
    BY <1>1, <1>3, <2>1, <2>4 DEF Parts
<1>13. CASE ClearBundle
  <2>1. /\ UNCHANGED <<wire, file, unwritten, data, clears, failures, writer>>
        /\ gossip' = "idle" /\ recorded' = FALSE
    BY <1>13 DEF ClearBundle
  <2>2. ReaderTypes' /\ UnwrittenOK'
    BY <1>1, <1>4, <2>1 DEF Parts, ReaderTypes, UnwrittenOK
  <2> QED
    BY <1>1, <1>3, <2>1, <2>2 DEF Parts
<1> QED
  BY <1>6, <1>8, <1>9, <1>10, <1>11, <1>12, <1>13

(* What fails. *)
LEMMA FailuresKeepParts ==
    ASSUME Typed,
           \/ \E c \in Conn : LoseFrame(c)
           \/ \E f \in unwritten : WriteFails(f)
           \/ HandlerFails
    PROVE  Parts'
<1>1. Parts /\ failures \in Nat
  BY TypedParts DEF Parts, ReaderTypes
<1>2. failures' \in Nat /\ transfers' = transfers
  BY <1>1, Bounds DEF LoseFrame, WriteFails, HandlerFails, Fail, senderVars
<1>3. writer \in [transfer : {0} \union Transfer, conn : {NoConn} \union Conn,
                  done : BOOLEAN, torn : BOOLEAN]
  BY <1>1 DEF Parts, ReaderTypes
<1>4. ASSUME NEW c \in Conn, LoseFrame(c)
      PROVE  Parts'
  <2>1. /\ UNCHANGED senderVars /\ UNCHANGED <<unwritten, data, recorded, gossip, clears>>
        /\ wire[c] # <<>> /\ wire' = [wire EXCEPT ![c] = Tail(@)]
        /\ file' = file \/ file' = FileOf(<<>>)
        /\ writer' = [writer EXCEPT !.torn = @ \/ Head(wire[c]).transfer = writer.transfer]
    BY <1>4 DEF LoseFrame
  <2>2. wire' \in [Conn -> Seq(Frame)]
    <3>1. wire \in [Conn -> Seq(Frame)] /\ wire[c] \in Seq(Frame)
      BY <1>1 DEF Parts
    <3>2. Tail(wire[c]) \in Seq(Frame)
      BY <2>1, <3>1, HeadTailProperties
    <3> QED
      BY <2>1, <3>1, <3>2
  <2>3. writer' \in [transfer : {0} \union Transfer, conn : {NoConn} \union Conn,
                     done : BOOLEAN, torn : BOOLEAN]
    BY <1>3, <2>1
  <2>4. FileOf(<<>>) \in [exists : {TRUE}, chunks : Seq({0} \union Version)] /\ FileOf(<<>>).exists
    BY DEF FileOf
  <2>5. ReaderTypes'
    BY <1>1, <1>2, <2>1, <2>3, <2>4 DEF Parts, ReaderTypes
  <2>6. UnwrittenOK'
    BY <1>1, <1>2, <2>1, <2>4 DEF Parts, UnwrittenOK
  <2> QED
    BY <1>1, <2>1, <2>2, <2>5, <2>6, OwnerKept DEF Parts
<1>5. ASSUME NEW f \in unwritten, WriteFails(f)
      PROVE  Parts'
  <2>1. /\ UNCHANGED senderVars /\ UNCHANGED <<wire, data, recorded, gossip, clears>>
        /\ unwritten' = unwritten \ {f}
        /\ file' \in {file, FileOf(Written(file.chunks, f.idx, 0))}
        /\ writer' = [writer EXCEPT !.torn = TRUE]
    BY <1>5 DEF WriteFails
  <2>2. file.exists /\ file \in [exists : {TRUE}, chunks : Seq({0} \union Version)]
    <3>1. NoFile.exists = FALSE
      BY DEF NoFile
    <3> QED
      BY <1>1, <3>1 DEF Parts, UnwrittenOK, ReaderTypes
  <2>3. f.idx \in Nat \ {0}
    <3>1. f \in Frame /\ f.idx \in 1..Chunks[f.version]
      BY <1>1 DEF Parts, UnwrittenOK, ReaderTypes
    <3>2. f.version \in Version
      BY <3>1 DEF Frame
    <3> QED
      BY <3>1, <3>2, ChunkCounts
  <2>4. Written(file.chunks, f.idx, 0) \in Seq({0} \union Version)
    BY <2>2, <2>3, WrittenType
  <2>5. file' \in [exists : {TRUE}, chunks : Seq({0} \union Version)] /\ file'.exists
    <3> PICK new \in Seq({0} \union Version) : new = Written(file.chunks, f.idx, 0)
      BY <2>4
    <3>1. /\ FileOf(new) \in [exists : {TRUE}, chunks : Seq({0} \union Version)]
          /\ FileOf(new).exists
      BY DEF FileOf
    <3> QED
      BY <2>1, <2>2, <3>1
  <2>6. writer' \in [transfer : {0} \union Transfer, conn : {NoConn} \union Conn,
                     done : BOOLEAN, torn : BOOLEAN]
    BY <1>3, <2>1
  <2>7. ReaderTypes'
    BY <1>1, <1>2, <2>1, <2>5, <2>6 DEF Parts, ReaderTypes
  <2>8. UnwrittenOK'
    BY <1>1, <1>2, <2>1, <2>5 DEF Parts, UnwrittenOK
  <2> QED
    BY <1>1, <2>1, <2>7, <2>8, OwnerKept DEF Parts
<1>6. CASE HandlerFails
  <2>1. /\ UNCHANGED <<version, serving, transfers, wire, file, unwritten, recorded, writer>>
        /\ data' \in {data, "idle"} /\ gossip' \in {gossip, "idle", "removed"}
    BY <1>6 DEF HandlerFails
  <2>2. requests' \in 0..MaxRequest /\ clears' \in 0..MaxClear
    BY <1>1, <1>6, Bounds DEF HandlerFails, Parts, OwnerTypes, ReaderTypes
  <2>3. OwnerTypes' /\ ServingOK'
    BY <1>1, <2>1, <2>2 DEF Parts, OwnerTypes, ServingOK
  <2>4. ReaderTypes' /\ UnwrittenOK'
    BY <1>1, <1>2, <2>1, <2>2 DEF Parts, ReaderTypes, UnwrittenOK
  <2> QED
    BY <1>1, <2>1, <2>3, <2>4 DEF Parts
<1> QED
  BY <1>4, <1>5, <1>6

(* Connections come and go, and the two processes stop. *)
LEMMA OtherStepsKeepParts ==
    ASSUME Typed,
           \/ Connect \/ RestartOwner \/ RestartReader
           \/ \E c \in Conn : Disconnect(c)
    PROVE  Parts'
<1>1. Parts
  BY TypedParts
<1>2. transfers \in Nat
  <2>1. transfers \in 0..MaxTransfer
    BY <1>1 DEF Parts, OwnerTypes
  <2> QED
    BY <2>1, Bounds
<1>3. CASE Connect
  <2>1. UNCHANGED senderVars /\ UNCHANGED readerVars /\ wire' = wire /\ transfers' = transfers
    BY <1>3 DEF Connect, senderVars
  <2> QED
    BY <1>1, <1>2, <2>1, OwnerKept, ReaderKept DEF Parts
<1>4. ASSUME NEW c \in Conn, Disconnect(c)
      PROVE  Parts'
  <2>1. UNCHANGED senderVars /\ UNCHANGED readerVars /\ transfers' = transfers
    BY <1>4 DEF Disconnect, senderVars
  <2>2. wire' \in [Conn -> Seq(Frame)]
    <3>1. PICK k \in 0..Len(wire[c]) : wire' = [wire EXCEPT ![c] = SubSeq(@, 1, k)]
      BY <1>4 DEF Disconnect
    <3>2. wire \in [Conn -> Seq(Frame)] /\ wire[c] \in Seq(Frame)
      BY <1>1 DEF Parts
    <3>3. \A i \in 1..k : wire[c][i] \in Frame
      BY <3>2, LenProperties, ElementOfSeq
    <3>4. SubSeq(wire[c], 1, k) \in Seq(Frame)
      BY <3>2, <3>3, SubSeqProperties
    <3> QED
      BY <3>1, <3>2, <3>4
  <2> QED
    BY <1>1, <1>2, <2>1, <2>2, OwnerKept, ReaderKept DEF Parts
<1>5. CASE RestartOwner
  <2>1. /\ requests' = 0 /\ serving' = NotServing /\ UNCHANGED readerVars
        /\ wire' = wire /\ version' = version /\ transfers' = transfers
    BY <1>5 DEF RestartOwner
  <2>2. NotServing.on = FALSE
    BY DEF NotServing
  <2>3. OwnerTypes' /\ ServingOK'
    BY <1>1, <2>1, <2>2, Bounds DEF Parts, OwnerTypes, ServingOK
  <2>4. ReaderTypes' /\ UnwrittenOK'
    BY <1>1, <1>2, <2>1, ReaderKept
  <2> QED
    BY <1>1, <2>1, <2>3, <2>4 DEF Parts
<1>6. CASE RestartReader
  <2>1. /\ UNCHANGED senderVars /\ wire' = [c \in Conn |-> <<>>] /\ unwritten' = {}
        /\ data' = "idle" /\ gossip' = "idle" /\ UNCHANGED <<file, recorded, clears, failures>>
        /\ writer' = [writer EXCEPT !.torn = @ \/ unwritten # {}]
    BY <1>6 DEF RestartReader
  <2>2. wire' \in [Conn -> Seq(Frame)]
    BY <2>1
  <2>3. writer' \in [transfer : {0} \union Transfer, conn : {NoConn} \union Conn,
                     done : BOOLEAN, torn : BOOLEAN]
    BY <1>1, <2>1 DEF Parts, ReaderTypes
  <2>4. ReaderTypes' /\ UnwrittenOK'
    BY <1>1, <2>1, <2>3 DEF Parts, ReaderTypes, UnwrittenOK
  <2> QED
    BY <1>1, <2>1, <2>2, <2>4, OwnerKept DEF Parts
<1> QED
  BY <1>3, <1>4, <1>5, <1>6

LEMMA TypedStep ==
    ASSUME ConnectionsInv, Typed, WireOK, [Next]_vars
    PROVE  Typed'
<1>1. ConnectionsTypeOK'
  BY NextKeepsConnections DEF ConnectionsInv
<1>2. Parts'
  <2>1. CASE UNCHANGED vars
    BY <2>1, TypedParts DEF vars, senderVars, readerVars, Parts, OwnerTypes, ReaderTypes,
                            ServingOK, UnwrittenOK
  <2>2. CASE Next
    BY <2>2, OwnerStepsKeepParts, ReaderStepsKeepParts, FailuresKeepParts,
       OtherStepsKeepParts DEF Next
  <2> QED
    BY <2>1, <2>2
<1> QED
  BY <1>1, <1>2 DEF Typed, Parts, TypeOK, OwnerTypes, ReaderTypes

-----------------------------------------------------------------------------
(* What arrives over one connection. *)

(* g may come right after f: the next frame of its transfer, or the Start   *)
(* of a later one.                                                          *)
Follows(f, g) ==
    \/ g.idx = 0 /\ g.transfer > f.transfer
    \/ g.transfer = f.transfer /\ g.version = f.version /\ g.idx = f.idx + 1

(* Frames of transfers up to t, each of which may come after the one before. *)
Chain(q, t) ==
    /\ \A i \in DOMAIN q : WellFormed(q[i]) /\ q[i].transfer <= t
    /\ \A i \in DOMAIN q : i + 1 \in DOMAIN q => Follows(q[i], q[i + 1])

Prefix(r, q) == Len(r) <= Len(q) /\ \A i \in DOMAIN r : r[i] = q[i]

LEMMA FrameFields ==
    \A f \in Frame : /\ f.transfer \in Nat /\ f.idx \in Nat /\ f.version \in Version
                     /\ f.transfer \in Transfer /\ Chunks[f.version] \in Nat \ {0}
BY ChunkCounts DEF Frame, Transfer

LEMMA ChainPrefix ==
    ASSUME NEW q \in Seq(Frame), NEW r \in Seq(Frame), NEW t \in Nat, NEW u \in Nat,
           t <= u, Chain(q, t), Prefix(r, q)
    PROVE  Chain(r, u)
<1>1. DOMAIN q = 1..Len(q) /\ DOMAIN r = 1..Len(r) /\ Len(q) \in Nat /\ Len(r) \in Nat
  BY LenProperties
<1>2. \A i \in DOMAIN r : i \in DOMAIN q /\ r[i] = q[i] /\ q[i].transfer \in Nat
  BY <1>1, ElementOfSeq, FrameFields DEF Prefix
<1> QED
  BY <1>1, <1>2 DEF Chain

LEMMA ChainTail ==
    ASSUME NEW q \in Seq(Frame), q # <<>>, NEW t, Chain(q, t)
    PROVE  /\ Chain(Tail(q), t)
           /\ Tail(q) # <<>> => Follows(Head(q), Head(Tail(q)))
<1>1. /\ Head(q) = q[1] /\ 1 \in DOMAIN q /\ Tail(q) \in Seq(Frame)
      /\ \A i \in DOMAIN Tail(q) : i + 1 \in DOMAIN q /\ Tail(q)[i] = q[i + 1]
  BY Unqueued
<1>2. \A i \in DOMAIN Tail(q) : i \in Nat
  BY <1>1, LenProperties
<1>3. Chain(Tail(q), t)
  BY <1>1, <1>2 DEF Chain
<1>4. Tail(q) # <<>> => Head(Tail(q)) = Tail(q)[1] /\ 1 \in DOMAIN Tail(q)
  BY <1>1, Unqueued
<1> QED
  BY <1>1, <1>3, <1>4 DEF Chain

LEMMA ChainAppend ==
    ASSUME NEW q \in Seq(Frame), NEW g \in Frame, NEW t \in Nat, NEW u \in Nat, t <= u,
           Chain(q, t), WellFormed(g), g.transfer <= u,
           q = <<>> \/ Follows(q[Len(q)], g)
    PROVE  Chain(Append(q, g), u)
<1> DEFINE r == Append(q, g)
<1>1. /\ r \in Seq(Frame) /\ Len(r) = Len(q) + 1 /\ r[Len(q) + 1] = g
      /\ \A i \in 1..Len(q) : r[i] = q[i]
  BY AppendProperties
<1>2. DOMAIN q = 1..Len(q) /\ DOMAIN r = 1..Len(r) /\ Len(q) \in Nat
  BY <1>1, LenProperties
<1>3. \A i \in DOMAIN q : q[i].transfer \in Nat
  BY <1>2, ElementOfSeq, FrameFields
<1>4. q # <<>> => Len(q) # 0
  BY EmptySeq
<1> HIDE DEF r
<1>5. \A i \in DOMAIN r : WellFormed(r[i]) /\ r[i].transfer <= u
  BY <1>1, <1>2, <1>3 DEF Chain
<1>6. \A i \in DOMAIN r : i + 1 \in DOMAIN r => Follows(r[i], r[i + 1])
  <2> SUFFICES ASSUME NEW i \in DOMAIN r, i + 1 \in DOMAIN r
               PROVE  Follows(r[i], r[i + 1])
    OBVIOUS
  <2>1. CASE i + 1 \in DOMAIN q
    BY <1>1, <1>2, <2>1 DEF Chain
  <2>2. CASE i = Len(q)
    <3>1. q # <<>>
      BY <1>1, <1>2, <2>2, EmptySeq
    <3> QED
      BY <1>1, <1>2, <2>2, <3>1
  <2> QED
    BY <1>1, <1>2, <2>1, <2>2
<1>7. Chain(r, u)
  BY <1>5, <1>6 DEF Chain
<1> QED
  BY <1>7 DEF r

(* The frames that reach the reader over c if nothing happens: those on the *)
(* wire, and the one that send_bundle is about to send on it.               *)
Sending(c) == serving.on /\ registry[Owner][Reader] = c /\ c \notin broken
Ahead(c) == IF Sending(c) THEN Append(wire[c], NextFrame) ELSE wire[c]

Chained == \A c \in Conn : Chain(Ahead(c), transfers)

(* Nothing has been sent on a connection that the owner has not registered. *)
UnusedIsEmpty ==
    \A c \in Conn : Unused(Owner, c) =>
        wire[c] = <<>> /\ (writer.conn = c => writer.torn)

(* What is on its way over c is a part of what was, or it has grown by a    *)
(* frame that may follow.                                                   *)
Grows(c) ==
    \E g \in Frame :
        /\ Ahead(c)' = Append(Ahead(c), g)
        /\ WellFormed(g) /\ g.transfer <= transfers'
        /\ \/ Ahead(c) = <<>> /\ Unused(Owner, c)
           \/ Ahead(c) # <<>> /\ Follows(Ahead(c)[Len(Ahead(c))], g)
           \/ g.idx = 0 /\ g.transfer > transfers

Flows(c) == Prefix(Ahead(c)', Ahead(c)) \/ Grows(c)

LEMMA AheadType ==
    ASSUME Typed, NEW c \in Conn
    PROVE  /\ wire[c] \in Seq(Frame) /\ Ahead(c) \in Seq(Frame)
           /\ Prefix(wire[c], Ahead(c))
           /\ ~Sending(c) => Ahead(c) = wire[c]
           /\ Sending(c) => /\ NextFrame \in Frame /\ Ahead(c) = Append(wire[c], NextFrame)
                            /\ Ahead(c)[Len(Ahead(c))] = NextFrame
                            /\ Ahead(c) # <<>>
<1>1. wire[c] \in Seq(Frame)
  BY DEF Typed, TypeOK
<1>2. DOMAIN wire[c] = 1..Len(wire[c]) /\ Len(wire[c]) \in Nat
  BY <1>1, LenProperties
<1>3. CASE Sending(c)
  <2>1. NextFrame \in Frame
    BY <1>3, NextFrameType DEF Sending
  <2>2. /\ Append(wire[c], NextFrame) \in Seq(Frame)
        /\ Len(Append(wire[c], NextFrame)) = Len(wire[c]) + 1
        /\ \A i \in 1..Len(wire[c]) : Append(wire[c], NextFrame)[i] = wire[c][i]
        /\ Append(wire[c], NextFrame)[Len(wire[c]) + 1] = NextFrame
        /\ Append(wire[c], NextFrame) # <<>>
    BY <1>1, <2>1, AppendProperties
  <2> QED
    BY <1>1, <1>2, <1>3, <2>1, <2>2 DEF Ahead, Prefix
<1>4. CASE ~Sending(c)
  BY <1>1, <1>2, <1>4 DEF Ahead, Prefix
<1> QED
  BY <1>3, <1>4

AheadsTyped == \A c \in Conn : Ahead(c) \in Seq(Frame)

LEMMA AheadSeq == Typed => AheadsTyped
BY AheadType DEF AheadsTyped

LEMMA ChainedWireOK == Typed /\ Chained => WireOK
<1> SUFFICES ASSUME Typed, Chained, NEW c \in Conn, NEW i \in DOMAIN wire[c]
             PROVE  WellFormed(wire[c][i]) /\ wire[c][i].transfer <= transfers
  BY DEF WireOK
<1>1. Prefix(wire[c], Ahead(c)) /\ wire[c] \in Seq(Frame) /\ Ahead(c) \in Seq(Frame)
  BY AheadType
<1>2. i \in DOMAIN Ahead(c) /\ wire[c][i] = Ahead(c)[i]
  BY <1>1, LenProperties DEF Prefix
<1> QED
  BY <1>2 DEF Chained, Chain

LEMMA BrokenGrows == [Next]_vars => broken \subseteq broken'
BY RegistrySteps
   DEF ConnectionStep, Dial, DialFails, SaveAccepted, CleanUp, Notice, RegisterDialed, Accept,
       AcceptFails, Break, Restart, connectionVars

(* Where nothing is sent or handled, at most the connection that send_bundle *)
(* uses changes, to one that has not been used.                              *)
LEMMA IdleFlows ==
    ASSUME Typed, UsesOnce, UnusedIsEmpty, broken \subseteq broken',
           serving' \in {serving, NotServing}, transfers' = transfers,
           NEW c \in Conn, wire'[c] = wire[c]
    PROVE  Flows(c)
<1>1. NotServing.on = FALSE /\ c # NoConn
  BY DEF NotServing, Conn, NoConn
<1>2. CASE ~Sending(c)'
  <2>1. Ahead(c)' = wire[c]
    BY <1>2 DEF Ahead
  <2> QED
    BY <2>1, AheadType DEF Flows
<1>3. CASE Sending(c)'
  <2>1. serving' = serving /\ serving.on /\ c \notin broken /\ registry'[Owner][Reader] = c
    BY <1>1, <1>3 DEF Sending
  <2>2. Ahead(c)' = Append(wire[c], NextFrame)
    BY <1>3, <2>1 DEF Ahead, NextFrame
  <2>3. CASE registry[Owner][Reader] = c
    <3>1. Ahead(c)' = Ahead(c)
      BY <2>1, <2>2, <2>3 DEF Ahead, Sending
    <3> QED
      BY <3>1, AheadType, LenProperties DEF Flows, Prefix
  <2>4. CASE registry[Owner][Reader] # c
    <3>1. Unused(Owner, c)
      BY <1>1, <2>1, <2>4, NodeAssumption DEF UsesOnce
    <3>2. Ahead(c) = wire[c] /\ wire[c] = <<>>
      BY <2>4, <3>1 DEF UnusedIsEmpty, Ahead, Sending
    <3>3. NextFrame \in Frame /\ WellFormed(NextFrame)
      BY <2>1, NextFrameType
    <3>4. NextFrame.transfer <= transfers'
      <4>1. NextFrame.transfer = transfers
        BY <2>1 DEF NextFrame, Typed, ServingOK
      <4> QED
        BY <3>3, <4>1, FrameFields
    <3> QED
      BY <2>2, <3>1, <3>2, <3>3, <3>4 DEF Flows, Grows
  <2> QED
    BY <2>3, <2>4
<1> QED
  BY <1>2, <1>3

LEMMA SendFlows ==
    ASSUME Typed, SendFrame
    PROVE  \A c \in Conn : Flows(c)
<1> SUFFICES ASSUME NEW c \in Conn
             PROVE  Flows(c)
  OBVIOUS
<1>1. /\ serving.on /\ UNCHANGED <<registry, broken, transfers>>
      /\ Arrives(Owner, Reader) => wire' = [wire EXCEPT ![registry[Owner][Reader]] =
                                              Append(@, NextFrame)]
      /\ ~Arrives(Owner, Reader) => wire' = wire
      /\ NextFrame.kind = "done" => serving' = NotServing
      /\ NextFrame.kind # "done" => serving' = [serving EXCEPT !.next = @ + 1]
      /\ CanSend(Owner, Reader)
  BY DEF SendFrame, connectionVars
<1>2. Sending(c) => Arrives(Owner, Reader) /\ c = registry[Owner][Reader]
  BY <1>1 DEF Sending, Arrives
<1>3. NotServing.on = FALSE
  BY DEF NotServing
<1>4. wire \in [Conn -> Seq(Frame)]
  BY DEF Typed, TypeOK
<1>5. CASE ~Sending(c)
  <2>1. wire'[c] = wire[c]
    <3>1. Arrives(Owner, Reader) => registry[Owner][Reader] # c
      BY <1>1, <1>5 DEF Sending, Arrives
    <3> QED
      BY <1>1, <1>4, <3>1
  <2>2. ~Sending(c)'
    BY <1>1, <1>5 DEF Sending
  <2>3. Ahead(c)' = wire[c]
    BY <2>1, <2>2 DEF Ahead
  <2> QED
    BY <2>3, AheadType DEF Flows
<1>6. CASE Sending(c)
  <2>1. wire'[c] = Ahead(c)
    BY <1>1, <1>2, <1>4, <1>6 DEF Ahead
  <2>2. CASE NextFrame.kind = "done"
    <3>1. Ahead(c)' = Ahead(c)
      BY <1>1, <1>3, <2>1, <2>2 DEF Ahead, Sending
    <3> QED
      BY <3>1, AheadType, LenProperties DEF Flows, Prefix
  <2>3. CASE NextFrame.kind # "done"
    <3>1. serving \in [on : {TRUE}, transfer : Transfer, version : Version, next : Nat]
      BY <1>1, <1>3 DEF Typed, TypeOK
    <3>2. /\ serving'.on /\ serving'.transfer = serving.transfer
          /\ serving'.version = serving.version /\ serving'.next = serving.next + 1
      BY <1>1, <2>3, <3>1
    <3>3. Ahead(c)' = Append(Ahead(c), NextFrame')
      BY <1>1, <1>6, <2>1, <3>2 DEF Ahead, Sending
    <3>4. PICK g : g = NextFrame'
      OBVIOUS
    <3>5. NextFrame \in Frame /\ WellFormed(NextFrame) /\ serving.next \in Nat
      BY <1>1, <3>1, NextFrameType
    <3>6. /\ NextFrame.transfer = serving.transfer /\ NextFrame.version = serving.version
          /\ NextFrame.idx = serving.next
      BY DEF NextFrame
    <3>7. /\ g.transfer = serving.transfer /\ g.version = serving.version
          /\ g.idx = serving.next + 1
          /\ g.kind = IF serving.next + 1 = 0 THEN "start"
                      ELSE IF serving.next + 1 <= Chunks[serving.version] THEN "chunk" ELSE "done"
      BY <3>2, <3>4 DEF NextFrame
    <3>8. g = [transfer |-> serving.transfer,
               kind |-> IF serving.next + 1 = 0 THEN "start"
                        ELSE IF serving.next + 1 <= Chunks[serving.version] THEN "chunk"
                        ELSE "done",
               version |-> serving.version, idx |-> serving.next + 1]
      BY <3>2, <3>4 DEF NextFrame
    <3>9. g \in Frame
      BY <3>1, <3>5, <3>8 DEF Frame
    <3>10. serving.next <= Chunks[serving.version] /\ Chunks[serving.version] \in Nat
      BY <2>3, <3>1, <3>5, ChunkCounts DEF NextFrame
    <3>11. WellFormed(g)
      BY <3>5, <3>7, <3>10 DEF WellFormed
    <3>12. Follows(NextFrame, g)
      BY <3>6, <3>7 DEF Follows
    <3>13. g.transfer <= transfers'
      BY <1>1, <3>7, <3>9, FrameFields DEF Typed, ServingOK
    <3>14. Ahead(c) # <<>> /\ Ahead(c)[Len(Ahead(c))] = NextFrame
      BY <1>6, AheadType
    <3> QED
      BY <3>3, <3>4, <3>9, <3>11, <3>12, <3>13, <3>14 DEF Flows, Grows
  <2> QED
    BY <2>2, <2>3
<1> QED
  BY <1>5, <1>6

LEMMA ServeFlows ==
    ASSUME Typed, ServeRequest
    PROVE  \A c \in Conn : Flows(c)
<1> SUFFICES ASSUME NEW c \in Conn
             PROVE  Flows(c)
  OBVIOUS
<1>1. /\ serving = NotServing /\ UNCHANGED <<registry, broken, wire>>
      /\ transfers' = transfers + 1 /\ version' \in {version, Later(version)}
      /\ serving' = [on |-> TRUE, transfer |-> transfers', version |-> version', next |-> 0]
  BY DEF ServeRequest, connectionVars
<1>2. Ahead(c) = wire[c]
  <2>1. NotServing.on = FALSE
    BY DEF NotServing
  <2> QED
    BY <1>1, <2>1 DEF Ahead, Sending
<1>3. CASE ~Sending(c)'
  <2>1. Ahead(c)' = wire[c]
    BY <1>1, <1>3 DEF Ahead
  <2> QED
    BY <2>1, AheadType DEF Flows
<1>4. CASE Sending(c)'
  <2>1. Ahead(c)' = Append(wire[c], NextFrame')
    BY <1>1, <1>4 DEF Ahead
  <2>2. PICK g : g = NextFrame'
    OBVIOUS
  <2>3. g = [transfer |-> transfers', kind |-> "start", version |-> version', idx |-> 0]
    BY <1>1, <2>2 DEF NextFrame
  <2>4. transfers \in Nat /\ transfers' \in Transfer /\ transfers' \in Nat
    <3>1. transfers \in 0..MaxTransfer /\ transfers < MaxTransfer
      BY DEF Typed, TypeOK, ServeRequest
    <3> QED
      BY <1>1, <3>1, Bounds DEF Transfer
  <2>5. version' \in Version
    <3>1. version \in Version
      BY DEF Typed, TypeOK
    <3> QED
      BY <1>1, <3>1, ChunksAssumption, LenProperties DEF Later, Version
  <2>6. g \in Frame /\ Chunks[version'] \in Nat \ {0}
    BY <2>3, <2>4, <2>5, ChunkCounts DEF Frame
  <2>7. WellFormed(g) /\ g.transfer <= transfers' /\ g.idx = 0 /\ g.transfer > transfers
    BY <1>1, <2>3, <2>4, <2>6 DEF WellFormed
  <2> QED
    BY <1>2, <2>1, <2>2, <2>6, <2>7 DEF Flows, Grows
<1> QED
  BY <1>3, <1>4

(* A restart of either node breaks the connections between the two. *)
LEMMA RestartBreaks ==
    ASSUME ConnectionsInv, Typed, NEW n \in Node, Restart(n)
    PROVE  \A c \in Conn : ~Sending(c)'
<1> SUFFICES ASSUME NEW c \in Conn, Sending(c)'
             PROVE  FALSE
  OBVIOUS
<1>1. registry'[Owner][Reader] = c /\ c \notin broken' /\ c # NoConn
  BY DEF Sending, Conn, NoConn
<1>2. registry[Owner][Reader] = c
  BY <1>1, NodeAssumption DEF Restart, NoEntries, ConnectionsInv, ConnectionsTypeOK
<1>3. c \in Links(Owner) \intersect Links(Reader)
  BY <1>1, <1>2, NodeAssumption DEF ConnectionsInv, ConnectionsTypeOK
<1> QED
  BY <1>1, <1>3, NodeAssumption DEF Restart

LEMMA EmptyPrefix == \A q \in Seq(Frame) : Prefix(<<>>, q)
BY EmptySeq, LenProperties DEF Prefix

LEMMA DisconnectFlows ==
    ASSUME ConnectionsInv, Typed, UsesOnce, UnusedIsEmpty, NEW d \in Conn, Disconnect(d)
    PROVE  \A c \in Conn : Flows(c)
<1> SUFFICES ASSUME NEW c \in Conn
             PROVE  Flows(c)
  OBVIOUS
<1>1. PICK k \in 0..Len(wire[d]) : wire' = [wire EXCEPT ![d] = SubSeq(@, 1, k)]
  BY DEF Disconnect
<1>2. wire \in [Conn -> Seq(Frame)] /\ wire[c] \in Seq(Frame)
  BY DEF Typed, TypeOK
<1>3. broken' = broken \union {d} /\ UNCHANGED <<serving, transfers>>
  BY DEF Disconnect, Break, senderVars
<1>4. CASE c # d
  BY <1>1, <1>2, <1>3, <1>4, IdleFlows
<1>5. CASE c = d
  <2>1. Ahead(c)' = SubSeq(wire[c], 1, k)
    BY <1>1, <1>2, <1>3, <1>5 DEF Ahead, Sending
  <2>2. k \in 0..Len(wire[c]) /\ Len(wire[c]) \in Nat
    BY <1>2, <1>5, LenProperties
  <2>3. Prefix(SubSeq(wire[c], 1, k), wire[c])
    <3>1. \A i \in 1..k : wire[c][i] \in Frame
      BY <1>2, <2>2, LenProperties, ElementOfSeq
    <3>2. /\ SubSeq(wire[c], 1, k) \in Seq(Frame)
          /\ Len(SubSeq(wire[c], 1, k)) = k
          /\ \A i \in 1..k : SubSeq(wire[c], 1, k)[i] = wire[c][i]
      BY <1>2, <2>2, <3>1, SubSeqProperties
    <3> QED
      BY <2>2, <3>2, LenProperties DEF Prefix
  <2>4. Prefix(wire[c], Ahead(c)) /\ Ahead(c) \in Seq(Frame)
    BY AheadType
  <2>5. /\ DOMAIN wire[c] = 1..Len(wire[c]) /\ Len(Ahead(c)) \in Nat
        /\ SubSeq(wire[c], 1, k) \in Seq(Frame)
    BY <1>2, <2>2, <2>4, SubSeqProperties, LenProperties, ElementOfSeq
  <2>6. Prefix(SubSeq(wire[c], 1, k), Ahead(c))
    BY <2>2, <2>3, <2>4, <2>5, LenProperties DEF Prefix
  <2> QED
    BY <2>1, <2>6 DEF Flows
<1> QED
  BY <1>4, <1>5

LEMMA RestartReaderFlows ==
    ASSUME ConnectionsInv, Typed, RestartReader
    PROVE  \A c \in Conn : Flows(c)
<1> SUFFICES ASSUME NEW c \in Conn
             PROVE  Flows(c)
  OBVIOUS
<1>1. ~Sending(c)'
  BY RestartBreaks, NodeAssumption DEF RestartReader
<1>2. Ahead(c)' = <<>>
  BY <1>1 DEF RestartReader, Ahead
<1> QED
  BY <1>2, AheadType, EmptyPrefix DEF Flows

(* A frame is handled or lost. *)
TakenOff(c) ==
    /\ wire[c] # <<>> /\ wire' = [wire EXCEPT ![c] = Tail(@)]
    /\ UNCHANGED <<senderVars, connectionVars>>

LEMMA TakesOff ==
    ASSUME NEW c, HandleStart(c) \/ HandleChunk(c) \/ HandleDone(c) \/ LoseFrame(c)
    PROVE  TakenOff(c)
BY DEF HandleStart, HandleChunk, HandleDone, LoseFrame, Take, TakenOff

(* The rest is still ahead, and nothing has changed on the other             *)
(* connections.                                                              *)
LEMMA TakeFlows ==
    ASSUME Typed, NEW c \in Conn, TakenOff(c)
    PROVE  /\ Ahead(c) # <<>> /\ Head(Ahead(c)) = Head(wire[c])
           /\ Ahead(c)' = Tail(Ahead(c))
           /\ \A d \in Conn \ {c} : Ahead(d)' = Ahead(d)
<1>1. /\ wire[c] # <<>> /\ wire' = [wire EXCEPT ![c] = Tail(@)]
      /\ UNCHANGED <<serving, registry, broken>>
  BY DEF TakenOff, senderVars, connectionVars
<1>2. wire \in [Conn -> Seq(Frame)] /\ wire[c] \in Seq(Frame)
  BY DEF Typed, TypeOK
<1>3. \A d \in Conn : Sending(d)' = Sending(d)
  BY <1>1 DEF Sending
<1>4. NextFrame' = NextFrame
  BY <1>1 DEF NextFrame
<1>5. \A d \in Conn \ {c} : Ahead(d)' = Ahead(d)
  BY <1>1, <1>2, <1>3, <1>4 DEF Ahead
<1>6. CASE ~Sending(c)
  BY <1>1, <1>2, <1>3, <1>5, <1>6 DEF Ahead
<1>7. CASE Sending(c)
  <2>1. NextFrame \in Frame /\ Ahead(c) = Append(wire[c], NextFrame)
    BY <1>7, AheadType
  <2>2. Ahead(c)' = Append(Tail(wire[c]), NextFrame)
    BY <1>1, <1>2, <1>3, <1>4, <1>7 DEF Ahead
  <2>3. /\ Append(wire[c], NextFrame) # <<>>
        /\ Head(Append(wire[c], NextFrame)) = Head(wire[c])
        /\ Tail(Append(wire[c], NextFrame)) = Append(Tail(wire[c]), NextFrame)
    BY <1>1, <1>2, <2>1, HeadTailAppend
  <2> QED
    BY <1>5, <2>1, <2>2, <2>3
<1> QED
  BY <1>6, <1>7

-----------------------------------------------------------------------------
(* The frames on their way are in order, and there are none on a connection  *)
(* that is still to be registered: invariants of every step.                 *)
StreamInv ==
    ConnectionsInv /\ RegisteredIsUsed /\ Typed /\ Chained /\ UnusedIsEmpty

Handled ==
    \E c \in Conn : HandleStart(c) \/ HandleChunk(c) \/ HandleDone(c) \/ LoseFrame(c)

LEMMA AllFlow ==
    ASSUME StreamInv, [Next]_vars, ~Handled
    PROVE  \A c \in Conn : Flows(c)
<1>1. ConnectionsInv /\ Typed /\ UnusedIsEmpty /\ UsesOnce /\ broken \subseteq broken'
  BY NextKeepsConnections, BrokenGrows DEF StreamInv
<1>2. CASE serving' \in {serving, NotServing} /\ transfers' = transfers /\ wire' = wire
  BY <1>1, <1>2, IdleFlows
<1>3. CASE RequestBundle \/ AbortTransfer \/ Connect \/ RestartOwner \/ UNCHANGED vars
  BY <1>2, <1>3
     DEF RequestBundle, AbortTransfer, Connect, RestartOwner, vars, senderVars
<1>4. CASE \/ \E f \in unwritten : WriteChunk(f) \/ WriteFails(f)
           \/ RecordBundle \/ RemoveOutdated \/ ClearBundle \/ HandlerFails
  BY <1>2, <1>4 DEF WriteChunk, WriteFails, RecordBundle, RemoveOutdated, ClearBundle,
                    HandlerFails, senderVars
<1>5. CASE SendFrame
  BY <1>1, <1>5, SendFlows
<1>6. CASE ServeRequest
  BY <1>1, <1>6, ServeFlows
<1>7. CASE \E c \in Conn : Disconnect(c)
  BY <1>1, <1>7, DisconnectFlows
<1>8. CASE RestartReader
  BY <1>1, <1>8, RestartReaderFlows
<1> QED
  BY <1>3, <1>4, <1>5, <1>6, <1>7, <1>8 DEF Next, Handled

LEMMA TransfersGrow ==
    ASSUME Typed, [Next]_vars
    PROVE  transfers \in Nat /\ transfers' \in Nat /\ transfers <= transfers'
<1>1. transfers \in Nat
  <2>1. transfers \in 0..MaxTransfer
    BY DEF Typed, TypeOK
  <2> QED
    BY <2>1, Bounds
<1>2. transfers' \in {transfers, transfers + 1}
  BY DEF Next, vars, senderVars, RequestBundle, ServeRequest, SendFrame, AbortTransfer, Connect,
         RestartOwner, RestartReader, Disconnect, HandleStart, HandleChunk, HandleDone, Take,
         LoseFrame, WriteChunk, WriteFails, RecordBundle, RemoveOutdated, ClearBundle, HandlerFails
<1> QED
  BY <1>1, <1>2

LEMMA ChainedStep ==
    ASSUME StreamInv, [Next]_vars
    PROVE  Chained'
<1> SUFFICES ASSUME NEW c \in Conn
             PROVE  Chain(Ahead(c), transfers)'
  BY DEF Chained
<1>1. Typed /\ Chain(Ahead(c), transfers) /\ Ahead(c) \in Seq(Frame)
  BY AheadType DEF StreamInv, Chained
<1>2. transfers \in Nat /\ transfers' \in Nat /\ transfers <= transfers'
  BY <1>1, TransfersGrow
<1>3. Typed'
  BY ChainedWireOK, TypedStep DEF StreamInv
<1>4. Ahead(c)' \in Seq(Frame)
  <2>1. (Typed => AheadsTyped)'
    BY AheadSeq, PTL
  <2> QED
    BY <1>3, <2>1 DEF AheadsTyped
<1> PICK r : r = Ahead(c)'
  OBVIOUS
<1>5. CASE Prefix(r, Ahead(c))
  <2>1. Chain(r, transfers')
    BY <1>1, <1>2, <1>4, <1>5, ChainPrefix
  <2> QED
    BY <2>1 DEF Chain, WellFormed, Follows
<1>6. CASE Ahead(c) # <<>> /\ r = Tail(Ahead(c))
  <2>1. Chain(r, transfers) /\ r \in Seq(Frame)
    BY <1>1, <1>4, <1>6, ChainTail
  <2>2. Prefix(r, r)
    BY <2>1, LenProperties DEF Prefix
  <2>3. Chain(r, transfers')
    BY <1>2, <2>1, <2>2, ChainPrefix
  <2> QED
    BY <2>3 DEF Chain, WellFormed, Follows
<1>7. CASE Grows(c)
  <2>1. PICK g \in Frame :
           /\ r = Append(Ahead(c), g)
           /\ WellFormed(g) /\ g.transfer <= transfers'
           /\ \/ Ahead(c) = <<>> /\ Unused(Owner, c)
              \/ Ahead(c) # <<>> /\ Follows(Ahead(c)[Len(Ahead(c))], g)
              \/ g.idx = 0 /\ g.transfer > transfers
    BY <1>7 DEF Grows
  <2>2. Ahead(c) = <<>> \/ Follows(Ahead(c)[Len(Ahead(c))], g)
    <3>1. ASSUME Ahead(c) # <<>>
          PROVE  /\ Ahead(c)[Len(Ahead(c))] \in Frame
                 /\ Ahead(c)[Len(Ahead(c))].transfer <= transfers
      <4>1. Len(Ahead(c)) \in DOMAIN Ahead(c)
        BY <1>1, <3>1, EmptySeq, LenProperties
      <4> QED
        BY <1>1, <4>1, ElementOfSeq, LenProperties DEF Chain
    <3> QED
      BY <1>2, <2>1, <3>1, FrameFields DEF Follows
  <2>3. Chain(r, transfers')
    BY <1>1, <1>2, <2>1, <2>2, ChainAppend
  <2> QED
    BY <2>3 DEF Chain, WellFormed, Follows
<1>8. Flows(c) \/ (Ahead(c) # <<>> /\ Ahead(c)' = Tail(Ahead(c))) \/ Ahead(c)' = Ahead(c)
  <2>1. CASE ~Handled
    BY <2>1, AllFlow
  <2>2. CASE Handled
    BY <1>1, <2>2, TakesOff, TakeFlows DEF Handled
  <2> QED
    BY <2>1, <2>2
<1>9. Prefix(Ahead(c), Ahead(c))
  BY <1>1, LenProperties DEF Prefix
<1> QED
  BY <1>5, <1>6, <1>7, <1>8, <1>9 DEF Flows

LEMMA UnusedStep ==
    ASSUME StreamInv, [Next]_vars
    PROVE  UnusedIsEmpty'
<1> SUFFICES ASSUME NEW c \in Conn, Unused(Owner, c)'
             PROVE  wire'[c] = <<>> /\ (writer'.conn = c => writer'.torn)
  BY DEF UnusedIsEmpty
<1>1. Unused(Owner, c) /\ wire[c] = <<>> /\ (writer.conn = c => writer.torn)
  BY NextKeepsConnections, NodeAssumption DEF StreamInv, UsesOnce, UnusedIsEmpty
<1>2. registry[Owner][Reader] # c
  BY <1>1, NodeAssumption DEF StreamInv, RegisteredIsUsed, Conn, NoConn
<1>3. /\ wire \in [Conn -> Seq(Frame)]
      /\ writer \in [transfer : {0} \union Transfer, conn : {NoConn} \union Conn,
                     done : BOOLEAN, torn : BOOLEAN]
  BY DEF StreamInv, Typed, TypeOK
<1>4. wire'[c] = <<>>
  <2>1. CASE wire' = wire \/ wire' = [d \in Conn |-> <<>>]
    BY <1>1, <2>1
  <2>2. CASE SendFrame
    BY <1>1, <1>2, <1>3, <2>2 DEF SendFrame
  <2>3. ASSUME NEW d \in Conn, Disconnect(d)
        PROVE  wire'[c] = <<>>
    <3>1. PICK k \in 0..Len(wire[d]) : wire' = [wire EXCEPT ![d] = SubSeq(@, 1, k)]
      BY <2>3 DEF Disconnect
    <3>2. CASE d = c
      <4>1. k = 0
        BY <1>1, <3>1, <3>2, EmptySeq
      <4>2. SubSeq(<<>>, 1, 0) = <<>>
        BY SubSeqEmpty, EmptySeq
      <4> QED
        BY <1>1, <1>3, <3>1, <3>2, <4>1, <4>2
    <3> QED
      BY <1>1, <1>3, <3>1, <3>2
  <2>4. CASE Handled
    BY <1>1, <1>3, <2>4, TakesOff DEF Handled, TakenOff
  <2> QED
    BY <2>1, <2>2, <2>3, <2>4
       DEF Next, Handled, vars, RequestBundle, ServeRequest, AbortTransfer, Connect, RestartOwner,
           RestartReader, WriteChunk, WriteFails, RecordBundle, RemoveOutdated, ClearBundle,
           HandlerFails
<1>5. writer'.conn = c => writer'.torn
  <2>1. CASE writer' = writer
    BY <1>1, <2>1
  <2>2. ASSUME NEW f, NEW d, SameWriter(d, f)
        PROVE  writer'.conn = c => writer'.torn
    BY <1>1, <1>3, <2>2 DEF SameWriter
  <2>3. ASSUME NEW d \in Conn, HandleStart(d)
        PROVE  writer'.conn = c => writer'.torn
    BY <1>1, <2>3 DEF HandleStart, Take
  <2>4. CASE RestartReader \/ RemoveOutdated
    BY <1>1, <1>3, <2>4 DEF RestartReader, RemoveOutdated
  <2>5. CASE (\E f \in unwritten : WriteChunk(f) \/ WriteFails(f)) \/ \E d \in Conn : LoseFrame(d)
    BY <1>1, <1>3, <2>5 DEF WriteChunk, WriteFails, LoseFrame
  <2>6. CASE \E d \in Conn : HandleChunk(d) \/ HandleDone(d)
    BY <2>2, <2>6 DEF HandleChunk, HandleDone
  <2>7. CASE \/ RequestBundle \/ ServeRequest \/ SendFrame \/ AbortTransfer
             \/ Connect \/ RestartOwner \/ RecordBundle \/ ClearBundle \/ HandlerFails
             \/ UNCHANGED vars
             \/ \E d \in Conn : Disconnect(d)
    BY <2>1, <2>7
       DEF vars, readerVars, RequestBundle, ServeRequest, SendFrame, AbortTransfer, Connect,
           RestartOwner, Disconnect, RecordBundle, ClearBundle, HandlerFails
  <2> QED
    BY <2>3, <2>4, <2>5, <2>6, <2>7 DEF Next
<1> QED
  BY <1>4, <1>5

LEMMA StreamStep == StreamInv /\ [Next]_vars => StreamInv'
<1> SUFFICES ASSUME StreamInv, [Next]_vars
             PROVE  StreamInv'
  OBVIOUS
<1>1. ConnectionsInv' /\ UsesOnce
  BY NextKeepsConnections DEF StreamInv
<1>2. RegisteredIsUsed'
  BY <1>1, RegisteredStaysUsed DEF StreamInv
<1>3. Typed'
  BY ChainedWireOK, TypedStep DEF StreamInv
<1> QED
  BY <1>1, <1>2, <1>3, ChainedStep, UnusedStep DEF StreamInv

LEMMA InitStream == Init => StreamInv
<1> SUFFICES ASSUME Init
             PROVE  StreamInv
  OBVIOUS
<1>1. ConnectionsInv /\ Typed
  BY InitConnectionsInv, InitTyped DEF Init
<1>2. RegisteredIsUsed
  BY DEF Init, ConnectionsInit, RegisteredIsUsed, NoEntries
<1>3. UnusedIsEmpty
  BY DEF Init, UnusedIsEmpty
<1>4. NotServing.on = FALSE
  BY DEF NotServing
<1>5. \A c \in Conn : Ahead(c) = <<>>
  BY <1>4 DEF Init, Ahead, Sending
<1>6. DOMAIN << >> = {}
  OBVIOUS
<1>7. Chained
  BY <1>5, <1>6 DEF Chained, Chain
<1> QED
  BY <1>1, <1>2, <1>3, <1>7 DEF StreamInv

(* Every variable keeps its type, the registries' among them: a connection   *)
(* in a registry is one between the two nodes, the reader's file is a        *)
(* sequence of chunks of some versions and of holes.                         *)
THEOREM TypeCorrect == Spec => []TypeOK
<1>1. StreamInv => TypeOK
  BY DEF StreamInv, Typed
<1> QED
  BY <1>1, InitStream, StreamStep, PTL DEF Spec

-----------------------------------------------------------------------------
(* The file.  A transfer is of one version of the bundle; ver says which.    *)
VersionsAre(ver) ==
    /\ \A c \in Conn : \A i \in DOMAIN wire[c] : wire[c][i].version = ver[wire[c][i].transfer]
    /\ \A f \in unwritten : f.version = ver[f.transfer]
    /\ serving.on => serving.version = ver[serving.transfer]

(* Chunk i of transfer t has been written, or will be. *)
Have(i, t, v) ==
    \/ i \in DOMAIN file.chunks /\ file.chunks[i] = v
    \/ \E f \in unwritten : f.transfer = t /\ f.idx = i

(* The frame that arrives next over c is the one after frame k of transfer   *)
(* t, or one of a later transfer.                                            *)
NextAhead(c, t, k) ==
    Ahead(c) # <<>> => \/ Head(Ahead(c)).transfer > t
                       \/ Head(Ahead(c)).transfer = t /\ Head(Ahead(c)).idx = k + 1

(* The file while transfer t, of version v, arrives over c: the frames up to *)
(* some k, which goes on at the next, have been handled, and the chunks      *)
(* among them are there.                                                     *)
Progress(c, t, v) ==
    /\ file.exists
    /\ Len(file.chunks) <= Chunks[v]
    /\ \A i \in DOMAIN file.chunks : file.chunks[i] \in {0, v}
    /\ \E k \in 0..(Chunks[v] + 1) :
          /\ \A i \in 1..Chunks[v] : i <= k => Have(i, t, v)
          /\ writer.done => k = Chunks[v] + 1
          /\ NextAhead(c, t, k)

Arriving(ver) ==
    ~writer.torn => \E c \in Conn, t \in Transfer :
        writer.conn = c /\ writer.transfer = t /\ t <= transfers /\ Progress(c, t, ver[t])

FileInv == \E ver \in [Transfer -> Version] : VersionsAre(ver) /\ Arriving(ver)

(* What is on the wire after a step was there before, or is what has been    *)
(* sent.                                                                     *)
LEMMA WireFrames ==
    ASSUME StreamInv, [Next]_vars, NEW c \in Conn, NEW i \in DOMAIN wire'[c]
    PROVE  \/ \E j \in DOMAIN wire[c] : wire'[c][i] = wire[c][j]
           \/ SendFrame /\ wire'[c][i] = NextFrame
<1>1. wire \in [Conn -> Seq(Frame)] /\ wire[c] \in Seq(Frame)
  BY DEF StreamInv, Typed, TypeOK
<1>2. DOMAIN wire[c] = 1..Len(wire[c]) /\ Len(wire[c]) \in Nat
  BY <1>1, LenProperties
<1>3. CASE wire' = wire \/ wire' = [d \in Conn |-> <<>>]
  BY <1>3
<1>4. CASE SendFrame
  <2>1. NextFrame \in Frame
    BY <1>4, NextFrameType DEF StreamInv, SendFrame
  <2>2. wire'[c] \in {wire[c], Append(wire[c], NextFrame)}
    BY <1>1, <1>4 DEF SendFrame
  <2>3. /\ DOMAIN Append(wire[c], NextFrame) = 1..(Len(wire[c]) + 1)
        /\ \A j \in 1..Len(wire[c]) : Append(wire[c], NextFrame)[j] = wire[c][j]
        /\ Append(wire[c], NextFrame)[Len(wire[c]) + 1] = NextFrame
    BY <1>1, <2>1, AppendProperties, LenProperties
  <2> QED
    BY <1>2, <1>4, <2>2, <2>3
<1>5. ASSUME NEW d \in Conn, Disconnect(d)
      PROVE  \E j \in DOMAIN wire[c] : wire'[c][i] = wire[c][j]
  <2>1. PICK k \in 0..Len(wire[d]) : wire' = [wire EXCEPT ![d] = SubSeq(@, 1, k)]
    BY <1>5 DEF Disconnect
  <2>2. CASE c = d
    <3>1. \A j \in 1..k : wire[c][j] \in Frame
      BY <1>1, <1>2, <2>1, <2>2, ElementOfSeq
    <3>2. /\ SubSeq(wire[c], 1, k) \in Seq(Frame)
          /\ Len(SubSeq(wire[c], 1, k)) = k
          /\ \A j \in 1..k : SubSeq(wire[c], 1, k)[j] = wire[c][j]
      BY <1>1, <1>2, <2>1, <2>2, <3>1, SubSeqProperties
    <3>3. i \in 1..k
      BY <1>1, <2>1, <2>2, <3>2, LenProperties
    <3> QED
      BY <1>1, <1>2, <2>1, <2>2, <3>2, <3>3
  <2> QED
    BY <1>1, <2>1, <2>2
<1>6. CASE Handled
  <2>1. PICK d \in Conn : wire[d] # <<>> /\ wire' = [wire EXCEPT ![d] = Tail(@)]
    BY <1>6, TakesOff DEF Handled, TakenOff
  <2> QED
    BY <1>1, <2>1, Unqueued
<1> QED
  BY <1>3, <1>4, <1>5, <1>6
     DEF Next, Handled, vars, RequestBundle, ServeRequest, AbortTransfer, Connect, RestartOwner,
         RestartReader, WriteChunk, WriteFails, RecordBundle, RemoveOutdated, ClearBundle,
         HandlerFails

(* A new transfer gets a version; those of the transfers so far stay.        *)
LEMMA VersionsStep ==
    ASSUME StreamInv, [Next]_vars, NEW ver \in [Transfer -> Version], VersionsAre(ver)
    PROVE  \E new \in [Transfer -> Version] :
              VersionsAre(new)' /\ \A t \in Transfer : t <= transfers => new[t] = ver[t]
<1>1. /\ WireOK /\ Typed /\ wire \in [Conn -> Seq(Frame)] /\ unwritten \subseteq Frame
      /\ \A f \in unwritten : f.transfer <= transfers
  BY ChainedWireOK DEF StreamInv, Typed, TypeOK, UnwrittenOK
<1>2. transfers \in Nat /\ transfers' \in Nat
  BY TransfersGrow DEF StreamInv
<1>3. CASE ServeRequest
  <2> DEFINE new == [ver EXCEPT ![transfers'] = version']
  <2>1. /\ transfers' = transfers + 1 /\ version' \in {version, Later(version)}
        /\ serving' = [on |-> TRUE, transfer |-> transfers', version |-> version', next |-> 0]
        /\ UNCHANGED <<wire, unwritten>> /\ transfers < MaxTransfer
    BY <1>3 DEF ServeRequest, readerVars
  <2>2. transfers' \in Transfer
    BY <1>2, <2>1, Bounds DEF Transfer
  <2>3. version' \in Version
    <3>1. version \in Version
      BY DEF StreamInv, Typed, TypeOK
    <3> QED
      BY <2>1, <3>1, ChunksAssumption, LenProperties DEF Later, Version
  <2>4. /\ new \in [Transfer -> Version] /\ new[transfers'] = version'
        /\ \A t \in Transfer : t <= transfers => new[t] = ver[t]
    BY <1>2, <2>1, <2>2, <2>3
  <2>5. \A c \in Conn : \A i \in DOMAIN wire[c] :
           wire[c][i] \in Frame /\ wire[c][i].transfer <= transfers
    BY <1>1, ElementOfSeq, LenProperties DEF WireOK
  <2> HIDE DEF new
  <2>6. \A f \in Frame : f.transfer \in Transfer
    BY DEF Frame
  <2>7. /\ \A c \in Conn : \A i \in DOMAIN wire[c] :
              wire[c][i].version = new[wire[c][i].transfer]
        /\ \A f \in unwritten : f.version = new[f.transfer]
    BY <1>1, <2>4, <2>5, <2>6 DEF VersionsAre
  <2>8. serving'.version = new[serving'.transfer]
    BY <2>1, <2>4
  <2>9. PICK w : w = new
    OBVIOUS
  <2>10. /\ \A c \in Conn : \A i \in DOMAIN wire'[c] :
               wire'[c][i].version = w[wire'[c][i].transfer]
         /\ \A f \in unwritten' : f.version = w[f.transfer]
         /\ serving'.version = w[serving'.transfer]
    BY <2>1, <2>7, <2>8, <2>9
  <2>11. VersionsAre(w)'
    BY <2>10 DEF VersionsAre
  <2> QED
    BY <2>4, <2>9, <2>11
<1>4. CASE ~ServeRequest
  <2>1. NotServing.on = FALSE
    BY DEF NotServing
  <2>2. /\ NextFrame.version = serving.version /\ NextFrame.transfer = serving.transfer
    BY DEF NextFrame
  <2>3. \A c \in Conn : \A i \in DOMAIN wire'[c] :
           wire'[c][i].version = ver[wire'[c][i].transfer]
    BY <2>2, WireFrames DEF VersionsAre, SendFrame
  <2>4. \A f \in unwritten' : f.version = ver[f.transfer]
    <3>1. unwritten' \subseteq unwritten
             \/ \E c \in Conn : HandleChunk(c) /\ unwritten' = unwritten \union {Head(wire[c])}
      BY DEF Next, vars, readerVars, RequestBundle, ServeRequest, SendFrame, AbortTransfer,
             Connect, RestartOwner, RestartReader, Disconnect, HandleStart, HandleChunk,
             HandleDone, LoseFrame, WriteChunk, WriteFails, RecordBundle, RemoveOutdated,
             ClearBundle, HandlerFails
    <3>2. \A c \in Conn : HandleChunk(c) => \E i \in DOMAIN wire[c] : Head(wire[c]) = wire[c][i]
      BY <1>1, Unqueued DEF HandleChunk, Take
    <3> QED
      BY <3>1, <3>2 DEF VersionsAre
  <2>5. serving'.on => serving.on /\ serving'.version = serving.version
                                  /\ serving'.transfer = serving.transfer
    <3>1. CASE serving' \in {serving, NotServing}
      BY <2>1, <3>1
    <3>2. CASE SendFrame
      <4>1. serving \in [on : {TRUE}, transfer : Transfer, version : Version, next : Nat]
        BY <1>1, <2>1, <3>2 DEF Typed, TypeOK, SendFrame
      <4> QED
        BY <2>1, <3>2, <4>1 DEF SendFrame
    <3> QED
      BY <1>4, <3>1, <3>2
         DEF Next, vars, senderVars, RequestBundle, AbortTransfer,
             Connect, RestartOwner, RestartReader, Disconnect, HandleStart, HandleChunk,
             HandleDone, Take, LoseFrame, WriteChunk, WriteFails, RecordBundle, RemoveOutdated,
             ClearBundle, HandlerFails
  <2> QED
    BY <2>3, <2>4, <2>5 DEF VersionsAre
<1> QED
  BY <1>3, <1>4

(* While nothing is handled, what arrives next over a connection that has    *)
(* been registered is what did before, or a new transfer.                    *)
LEMMA AheadKept ==
    ASSUME StreamInv, [Next]_vars, ~Handled, NEW c \in Conn, ~Unused(Owner, c),
           NEW t \in Transfer, t <= transfers, NEW k, NextAhead(c, t, k)
    PROVE  NextAhead(c, t, k)'
<1>1. Ahead(c) \in Seq(Frame) /\ Flows(c)
  BY AheadType, AllFlow DEF StreamInv
<1>2. PICK r : r = Ahead(c)'
  OBVIOUS
<1>3. r \in Seq(Frame)
  <2>1. Typed' /\ (Typed => AheadsTyped)'
    BY StreamStep, AheadSeq, PTL DEF StreamInv
  <2> QED
    BY <1>2, <2>1 DEF AheadsTyped
<1>4. transfers \in Nat /\ t \in Nat
  BY TransfersGrow DEF StreamInv, Transfer
<1> SUFFICES ASSUME r # <<>>
             PROVE  \/ Head(r).transfer > t
                    \/ Head(r).transfer = t /\ Head(r).idx = k + 1
  BY <1>2 DEF NextAhead
<1>5. CASE Prefix(r, Ahead(c))
  <2>1. Len(r) # 0 /\ Len(r) \in Nat /\ Len(Ahead(c)) \in Nat /\ DOMAIN r = 1..Len(r)
    BY <1>1, <1>3, EmptySeq, LenProperties
  <2>2. Ahead(c) # <<>>
    BY <1>5, <2>1, EmptySeq DEF Prefix
  <2>3. Head(r) = r[1] /\ Head(Ahead(c)) = Ahead(c)[1]
    BY <1>1, <1>3, <2>2, Unqueued
  <2>4. Head(r) = Head(Ahead(c))
    BY <1>5, <2>1, <2>3 DEF Prefix
  <2> QED
    BY <2>2, <2>4 DEF NextAhead
<1>6. CASE Grows(c)
  <2>1. PICK g \in Frame :
           /\ r = Append(Ahead(c), g)
           /\ \/ Ahead(c) = <<>> /\ Unused(Owner, c)
              \/ Ahead(c) # <<>> /\ Follows(Ahead(c)[Len(Ahead(c))], g)
              \/ g.idx = 0 /\ g.transfer > transfers
    BY <1>2, <1>6 DEF Grows
  <2>2. Head(r) = IF Ahead(c) = <<>> THEN g ELSE Head(Ahead(c))
    BY <1>1, <2>1, HeadTailAppend
  <2>3. CASE Ahead(c) # <<>>
    BY <2>2, <2>3 DEF NextAhead
  <2>4. CASE Ahead(c) = <<>>
    BY <1>4, <2>1, <2>2, <2>4, FrameFields
  <2> QED
    BY <2>3, <2>4
<1> QED
  BY <1>1, <1>2, <1>5, <1>6 DEF Flows

(* A frame is handled: after it comes the next one of its transfer.          *)
LEMMA TakenIsNext ==
    ASSUME StreamInv, NEW c \in Conn, NEW kind, Take(c, kind)
    PROVE  \E f \in Frame :
              /\ f = Head(wire[c]) /\ f.kind = kind /\ WellFormed(f) /\ f.transfer <= transfers
              /\ \A t, k : NextAhead(c, t, k) /\ t = f.transfer => f.idx = k + 1
              /\ NextAhead(c, f.transfer, f.idx)'
              /\ \E i \in DOMAIN wire[c] : f = wire[c][i]
<1>1. Typed /\ Chain(Ahead(c), transfers) /\ Ahead(c) \in Seq(Frame) /\ wire[c] \in Seq(Frame)
  BY AheadType DEF StreamInv, Chained
<1>2. /\ Ahead(c) # <<>> /\ Head(Ahead(c)) = Head(wire[c]) /\ Ahead(c)' = Tail(Ahead(c))
  <2>1. TakenOff(c)
    BY DEF Take, TakenOff
  <2> QED
    BY <1>1, <2>1, TakeFlows
<1>3. Tail(Ahead(c)) # <<>> => Follows(Head(Ahead(c)), Head(Tail(Ahead(c))))
  BY <1>1, <1>2, ChainTail
<1> PICK f : f = Head(wire[c])
  OBVIOUS
<1>4. f \in Frame /\ f.kind = kind /\ \E i \in DOMAIN wire[c] : f = wire[c][i]
  BY <1>1, TakenFrame, Unqueued
<1>5. WellFormed(f) /\ f.transfer <= transfers
  BY <1>4, ChainedWireOK DEF StreamInv, WireOK
<1>6. NextAhead(c, f.transfer, f.idx)'
  <2>1. PICK r : r = Ahead(c)'
    OBVIOUS
  <2>2. r # <<>> => Follows(f, Head(r))
    BY <1>2, <1>3, <2>1
  <2>3. r # <<>> => \/ Head(r).transfer > f.transfer
                    \/ Head(r).transfer = f.transfer /\ Head(r).idx = f.idx + 1
    BY <2>2 DEF Follows
  <2> QED
    BY <2>1, <2>3 DEF NextAhead
<1>7. \A t, k : NextAhead(c, t, k) /\ t = f.transfer => f.idx = k + 1
  BY <1>2, <1>4, FrameFields DEF NextAhead
<1> QED
  BY <1>4, <1>5, <1>6, <1>7

(* The file of a transfer that goes on. *)
LEMMA FileOfProgress ==
    ASSUME StreamInv, NEW c, NEW t, NEW v, Progress(c, t, v)
    PROVE  /\ file = FileOf(file.chunks)
           /\ file.chunks \in Seq({0} \union Version)
           /\ DOMAIN file.chunks = 1..Len(file.chunks) /\ Len(file.chunks) \in Nat
<1>1. NoFile.exists = FALSE
  BY DEF NoFile
<1>2. file \in [exists : {TRUE}, chunks : Seq({0} \union Version)]
  BY <1>1 DEF StreamInv, Typed, TypeOK, Progress
<1>3. file = FileOf(file.chunks) /\ file.chunks \in Seq({0} \union Version)
  BY <1>2 DEF FileOf
<1> QED
  BY <1>3, LenProperties

LEMMA StartProgress ==
    ASSUME StreamInv, NEW c \in Conn, HandleStart(c), NEW v \in Version
    PROVE  \E t \in Transfer : /\ t = writer'.transfer /\ writer'.conn = c /\ t <= transfers'
                               /\ Progress(c, t, v)'
<1>1. PICK f \in Frame : /\ f = Head(wire[c]) /\ f.kind = "start" /\ WellFormed(f)
                         /\ f.transfer <= transfers
                         /\ NextAhead(c, f.transfer, f.idx)'
  BY TakenIsNext DEF HandleStart
<1>2. /\ file' = FileOf(<<>>) /\ writer'.transfer = f.transfer /\ writer'.conn = c
      /\ writer'.done = FALSE /\ transfers' = transfers
  BY <1>1 DEF HandleStart, Take, senderVars
<1>3. f.idx = 0
  BY <1>1 DEF WellFormed
<1>4. Chunks[v] \in Nat \ {0}
  BY ChunkCounts
<1>5. file'.exists /\ file'.chunks = <<>>
  BY <1>2 DEF FileOf
<1>6. Len(<<>>) = 0 /\ DOMAIN <<>> = {}
  BY EmptySeq
<1>7. Progress(c, f.transfer, v)'
  <2>1. PICK t : t = f.transfer
    OBVIOUS
  <2>2. NextAhead(c, t, 0)'
    BY <1>1, <1>3, <2>1
  <2>3. \E k \in 0..(Chunks[v] + 1) :
          /\ \A i \in 1..Chunks[v] : i <= k => Have(i, t, v)'
          /\ writer'.done => k = Chunks[v] + 1
          /\ NextAhead(c, t, k)'
    <3>1. 0 \in 0..(Chunks[v] + 1) /\ \A i \in 1..Chunks[v] : ~(i <= 0)
      BY <1>4
    <3> QED
      BY <1>2, <2>2, <3>1
  <2> QED
    BY <1>4, <1>5, <1>6, <2>1, <2>3 DEF Progress
<1> QED
  BY <1>1, <1>2, <1>7, FrameFields

(* The next chunk of the transfer that goes on. *)
LEMMA ChunkProgress ==
    ASSUME StreamInv, NEW d \in Conn, HandleChunk(d), ~writer'.torn,
           NEW ver, VersionsAre(ver), Arriving(ver)
    PROVE  \E c \in Conn, t \in Transfer :
              writer'.conn = c /\ writer'.transfer = t /\ t <= transfers' /\ Progress(c, t, ver[t])'
<1>1. PICK f \in Frame :
         /\ f = Head(wire[d]) /\ f.kind = "chunk" /\ WellFormed(f)
         /\ \A t, k : NextAhead(d, t, k) /\ t = f.transfer => f.idx = k + 1
         /\ NextAhead(d, f.transfer, f.idx)'
         /\ \E i \in DOMAIN wire[d] : f = wire[d][i]
  BY TakenIsNext DEF HandleChunk
<1>2. writer \in [transfer : {0} \union Transfer, conn : {NoConn} \union Conn,
                  done : BOOLEAN, torn : BOOLEAN]
  BY DEF StreamInv, Typed, TypeOK
<1>3. /\ ~writer.torn /\ f.transfer = writer.transfer /\ d = writer.conn
      /\ writer'.done = FALSE /\ writer'.conn = d /\ writer'.transfer = f.transfer
  BY <1>1, <1>2 DEF HandleChunk, SameWriter
<1>4. PICK t \in Transfer :
         writer.transfer = t /\ t <= transfers /\ Progress(d, t, ver[t])
  BY <1>3 DEF Arriving
<1> PICK v : v = ver[t]
  OBVIOUS
<1>5. f.version = v
  BY <1>1, <1>3, <1>4 DEF VersionsAre
<1>6. v \in Version /\ Chunks[v] \in Nat
  BY <1>5, FrameFields
<1>7. /\ file' = file /\ unwritten' = unwritten \union {f} /\ transfers' = transfers
  BY <1>1, <1>4 DEF HandleChunk, Take, senderVars, Progress
<1>8. PICK k \in 0..(Chunks[v] + 1) :
         /\ \A i \in 1..Chunks[v] : i <= k => Have(i, t, v)
         /\ NextAhead(d, t, k)
  BY <1>4 DEF Progress
<1>9. f.idx = k + 1 /\ f.idx <= Chunks[v] + 1 /\ f.idx \in Nat
  BY <1>1, <1>3, <1>4, <1>5, <1>8, FrameFields DEF WellFormed
<1>10. \A i \in 1..Chunks[v] : i <= k + 1 => Have(i, t, v)'
  <2> SUFFICES ASSUME NEW i \in 1..Chunks[v], i <= k + 1
               PROVE  Have(i, t, v)'
    OBVIOUS
  <2>1. CASE i = k + 1
    BY <1>3, <1>4, <1>7, <1>9, <2>1 DEF Have
  <2>2. CASE i <= k
    BY <1>7, <1>8, <2>2 DEF Have
  <2> QED
    BY <1>6, <2>1, <2>2
<1>11. k + 1 \in 0..(Chunks[v] + 1)
  BY <1>6, <1>9
<1>12. NextAhead(d, t, k + 1)'
  <2>1. PICK m : m = k + 1
    OBVIOUS
  <2>2. NextAhead(d, t, m)'
    BY <1>1, <1>3, <1>4, <1>9, <2>1
  <2> QED
    BY <2>1, <2>2
<1>13. Progress(d, t, v)'
  BY <1>3, <1>4, <1>7, <1>10, <1>11, <1>12 DEF Progress
<1> QED
  BY <1>3, <1>4, <1>7, <1>13

(* Its Done: every chunk is there. *)
LEMMA DoneProgress ==
    ASSUME StreamInv, NEW d \in Conn, HandleDone(d), ~writer'.torn,
           NEW ver, VersionsAre(ver), Arriving(ver)
    PROVE  \E c \in Conn, t \in Transfer :
              writer'.conn = c /\ writer'.transfer = t /\ t <= transfers' /\ Progress(c, t, ver[t])'
<1>1. PICK f \in Frame :
         /\ f = Head(wire[d]) /\ f.kind = "done" /\ WellFormed(f)
         /\ \A t, k : NextAhead(d, t, k) /\ t = f.transfer => f.idx = k + 1
         /\ NextAhead(d, f.transfer, f.idx)'
         /\ \E i \in DOMAIN wire[d] : f = wire[d][i]
  BY TakenIsNext DEF HandleDone
<1>2. writer \in [transfer : {0} \union Transfer, conn : {NoConn} \union Conn,
                  done : BOOLEAN, torn : BOOLEAN]
  BY DEF StreamInv, Typed, TypeOK
<1>3. /\ ~writer.torn /\ f.transfer = writer.transfer /\ d = writer.conn
      /\ writer'.conn = d /\ writer'.transfer = f.transfer
  BY <1>1, <1>2 DEF HandleDone, SameWriter
<1>4. PICK t \in Transfer :
         writer.transfer = t /\ t <= transfers /\ Progress(d, t, ver[t])
  BY <1>3 DEF Arriving
<1> PICK v : v = ver[t]
  OBVIOUS
<1>5. f.version = v
  BY <1>1, <1>3, <1>4 DEF VersionsAre
<1>6. v \in Version /\ Chunks[v] \in Nat
  BY <1>5, FrameFields
<1>7. /\ file' = file /\ unwritten' = unwritten /\ transfers' = transfers
  BY DEF HandleDone, Take, senderVars
<1>8. PICK k \in 0..(Chunks[v] + 1) :
         /\ \A i \in 1..Chunks[v] : i <= k => Have(i, t, v)
         /\ NextAhead(d, t, k)
  BY <1>4 DEF Progress
<1>9. f.idx = k + 1 /\ f.idx <= Chunks[v] + 1 /\ f.idx \in Nat
  BY <1>1, <1>3, <1>4, <1>5, <1>8, FrameFields DEF WellFormed
<1>10. k = Chunks[v]
  BY <1>1, <1>5, <1>6, <1>9 DEF WellFormed
<1>11. \A i \in 1..Chunks[v] : Have(i, t, v)'
  BY <1>6, <1>7, <1>8, <1>10 DEF Have
<1>12. NextAhead(d, t, Chunks[v] + 1)'
  <2>1. PICK m : m = k + 1
    OBVIOUS
  <2>2. NextAhead(d, t, m)'
    BY <1>1, <1>3, <1>4, <1>9, <2>1
  <2> QED
    BY <1>10, <2>1, <2>2
<1>13. Chunks[v] + 1 \in 0..(Chunks[v] + 1)
  BY <1>6
<1>14. Progress(d, t, v)'
  BY <1>4, <1>7, <1>11, <1>12, <1>13 DEF Progress
<1> QED
  BY <1>3, <1>4, <1>7, <1>14

(* A chunk of it is written. *)
LEMMA WriteProgress ==
    ASSUME StreamInv, [Next]_vars, NEW f \in unwritten, WriteChunk(f), ~writer'.torn, ~Handled,
           NEW ver, VersionsAre(ver), Arriving(ver)
    PROVE  \E c \in Conn, t \in Transfer :
              writer'.conn = c /\ writer'.transfer = t /\ t <= transfers' /\ Progress(c, t, ver[t])'
<1>1. writer \in [transfer : {0} \union Transfer, conn : {NoConn} \union Conn,
                  done : BOOLEAN, torn : BOOLEAN]
  BY DEF StreamInv, Typed, TypeOK
<1>2. /\ ~writer.torn /\ f.transfer = writer.transfer
      /\ writer'.done = writer.done /\ writer'.conn = writer.conn
      /\ writer'.transfer = writer.transfer
  BY <1>1 DEF WriteChunk
<1>3. PICK c \in Conn, t \in Transfer :
         writer.conn = c /\ writer.transfer = t /\ t <= transfers /\ Progress(c, t, ver[t])
  BY <1>2 DEF Arriving
<1> PICK v : v = ver[t]
  OBVIOUS
<1>4. f.version = v
  BY <1>2, <1>3 DEF VersionsAre
<1>5. f \in Frame /\ f.idx \in 1..Chunks[v]
  BY <1>4 DEF StreamInv, Typed, TypeOK, UnwrittenOK
<1>6. v \in Version /\ Chunks[v] \in Nat /\ f.idx \in Nat \ {0}
  BY <1>4, <1>5, FrameFields
<1>7. /\ file.chunks \in Seq({0} \union Version)
      /\ DOMAIN file.chunks = 1..Len(file.chunks) /\ Len(file.chunks) \in Nat
  BY <1>3, FileOfProgress
<1> DEFINE new == Written(file.chunks, f.idx, v)
<1>8. /\ new \in Seq({0} \union Version)
      /\ Len(new) = IF f.idx > Len(file.chunks) THEN f.idx ELSE Len(file.chunks)
      /\ \A j \in 1..Len(new) :
            new[j] = IF j = f.idx THEN v
                     ELSE IF j <= Len(file.chunks) THEN file.chunks[j] ELSE 0
  <2>1. v \in {0} \union Version
    BY <1>6
  <2>2. new \in Seq({0} \union Version)
    BY <1>6, <1>7, <2>1, WrittenType
  <2> DEFINE n == IF f.idx > Len(file.chunks) THEN f.idx ELSE Len(file.chunks)
  <2>3. n \in Nat
    BY <1>6, <1>7
  <2>4. /\ DOMAIN new = 1..n
        /\ \A j \in 1..n :
              new[j] = IF j = f.idx THEN v
                       ELSE IF j <= Len(file.chunks) THEN file.chunks[j] ELSE 0
    BY DEF Written
  <2>5. DOMAIN new = 1..Len(new) /\ Len(new) \in Nat
    BY <2>2, LenProperties
  <2>6. Len(new) = n
    <3> HIDE DEF n, new
    <3> QED
      BY <2>3, <2>4, <2>5
  <2> QED
    BY <2>2, <2>4, <2>6
<1>9. /\ file'.exists /\ file'.chunks = new /\ unwritten' = unwritten \ {f}
      /\ transfers' = transfers
  BY <1>4 DEF WriteChunk, FileOf, senderVars
<1>10. DOMAIN new = 1..Len(new)
  BY <1>8, LenProperties
<1> HIDE DEF new
<1>11. Len(new) <= Chunks[v]
  BY <1>3, <1>5, <1>6, <1>7, <1>8 DEF Progress
<1>12. \A j \in DOMAIN new : new[j] \in {0, v}
  BY <1>3, <1>7, <1>8, <1>10 DEF Progress
<1>13. \A i \in 1..Chunks[v] : Have(i, t, v) => Have(i, t, v)'
  <2> SUFFICES ASSUME NEW i \in 1..Chunks[v], Have(i, t, v)
               PROVE  Have(i, t, v)'
    OBVIOUS
  <2>1. CASE i = f.idx
    <3>1. i \in DOMAIN new /\ new[i] = v
      BY <1>6, <1>7, <1>8, <1>10, <2>1
    <3> QED
      BY <1>9, <3>1 DEF Have
  <2>2. CASE i # f.idx /\ i \in DOMAIN file.chunks /\ file.chunks[i] = v
    <3>1. i \in DOMAIN new /\ new[i] = v
      BY <1>6, <1>7, <1>8, <1>10, <2>2
    <3> QED
      BY <1>9, <3>1 DEF Have
  <2>3. CASE i # f.idx /\ \E g \in unwritten : g.transfer = t /\ g.idx = i
    BY <1>9, <2>3 DEF Have
  <2> QED
    BY <2>1, <2>2, <2>3 DEF Have
<1>14. PICK k \in 0..(Chunks[v] + 1) :
         /\ \A i \in 1..Chunks[v] : i <= k => Have(i, t, v)
         /\ writer.done => k = Chunks[v] + 1
         /\ NextAhead(c, t, k)
  BY <1>3 DEF Progress
<1>15. ~Unused(Owner, c)
  BY <1>2, <1>3 DEF StreamInv, UnusedIsEmpty
<1>16. NextAhead(c, t, k)'
  BY <1>3, <1>14, <1>15, AheadKept
<1>17. Progress(c, t, v)'
  BY <1>2, <1>9, <1>11, <1>12, <1>13, <1>14, <1>16 DEF Progress
<1> QED
  BY <1>2, <1>3, <1>9, <1>17

(* Nothing happens to it. *)
LEMMA QuietProgress ==
    ASSUME StreamInv, [Next]_vars, ~Handled, ~writer'.torn,
           file' = file, unwritten' = unwritten, writer' = writer,
           NEW ver, VersionsAre(ver), Arriving(ver)
    PROVE  \E c \in Conn, t \in Transfer :
              /\ writer'.conn = c /\ writer'.transfer = t /\ t <= transfers'
              /\ t <= transfers /\ Progress(c, t, ver[t])'
<1>1. PICK c \in Conn, t \in Transfer :
         writer.conn = c /\ writer.transfer = t /\ t <= transfers /\ Progress(c, t, ver[t])
  BY DEF Arriving
<1> PICK v : v = ver[t]
  OBVIOUS
<1>2. PICK k \in 0..(Chunks[v] + 1) :
         /\ \A i \in 1..Chunks[v] : i <= k => Have(i, t, v)
         /\ writer.done => k = Chunks[v] + 1
         /\ NextAhead(c, t, k)
  BY <1>1 DEF Progress
<1>3. ~Unused(Owner, c)
  BY <1>1 DEF StreamInv, UnusedIsEmpty
<1>4. NextAhead(c, t, k)'
  BY <1>1, <1>2, <1>3, AheadKept
<1>5. \A i \in 1..Chunks[v] : i <= k => Have(i, t, v)'
  BY <1>2 DEF Have
<1>6. Progress(c, t, v)'
  BY <1>1, <1>2, <1>4, <1>5 DEF Progress
<1>7. t <= transfers'
  BY <1>1, TransfersGrow DEF StreamInv, Transfer
<1> QED
  BY <1>1, <1>6, <1>7

(* A frame of another transfer is lost. *)
LEMMA LossProgress ==
    ASSUME StreamInv, NEW d \in Conn, LoseFrame(d), ~writer'.torn,
           NEW ver, VersionsAre(ver), Arriving(ver)
    PROVE  \E c \in Conn, t \in Transfer :
              writer'.conn = c /\ writer'.transfer = t /\ t <= transfers' /\ Progress(c, t, ver[t])'
<1>1. writer \in [transfer : {0} \union Transfer, conn : {NoConn} \union Conn,
                  done : BOOLEAN, torn : BOOLEAN]
  BY DEF StreamInv, Typed, TypeOK
<1>2. /\ ~writer.torn /\ Head(wire[d]).transfer # writer.transfer /\ writer' = writer
  BY <1>1 DEF LoseFrame
<1>3. PICK c \in Conn, t \in Transfer :
         writer.conn = c /\ writer.transfer = t /\ t <= transfers /\ Progress(c, t, ver[t])
  BY <1>2 DEF Arriving
<1> PICK v : v = ver[t]
  OBVIOUS
<1>4. file' = file /\ unwritten' = unwritten /\ transfers' = transfers
  BY <1>3 DEF LoseFrame, Progress, senderVars
<1>5. PICK k \in 0..(Chunks[v] + 1) :
         /\ \A i \in 1..Chunks[v] : i <= k => Have(i, t, v)
         /\ writer.done => k = Chunks[v] + 1
         /\ NextAhead(c, t, k)
  BY <1>3 DEF Progress
<1>6. /\ Ahead(d) # <<>> /\ Head(Ahead(d)) = Head(wire[d]) /\ Ahead(d)' = Tail(Ahead(d))
      /\ \A e \in Conn \ {d} : Ahead(e)' = Ahead(e)
  BY TakesOff, TakeFlows DEF StreamInv
<1>7. NextAhead(c, t, k)'
  <2>1. PICK r : r = Ahead(c)'
    OBVIOUS
  <2>2. r # <<>> => \/ Head(r).transfer > t
                    \/ Head(r).transfer = t /\ Head(r).idx = k + 1
    <3>1. CASE c # d
      BY <1>5, <1>6, <2>1, <3>1 DEF NextAhead
    <3>2. CASE c = d
      <4>1. /\ Chain(Ahead(d), transfers) /\ Ahead(d) \in Seq(Frame)
            /\ wire[d] \in Seq(Frame) /\ wire[d] # <<>>
        BY AheadType DEF StreamInv, Chained, LoseFrame
      <4>2. r # <<>> => Follows(Head(Ahead(d)), Head(r))
        BY <1>6, <2>1, <3>2, <4>1, ChainTail
      <4>3. Head(Ahead(d)).transfer > t
        BY <1>2, <1>3, <1>5, <1>6, <3>2 DEF NextAhead
      <4>4. Head(Ahead(d)) \in Frame /\ t \in Nat
        BY <1>6, <4>1, HeadTailProperties DEF Transfer
      <4>5. r # <<>> => Head(r) \in Frame
        <5>1. r \in Seq(Frame)
          BY <1>6, <2>1, <3>2, <4>1, HeadTailProperties
        <5> QED
          BY <5>1, HeadTailProperties
      <4> QED
        BY <4>2, <4>3, <4>4, <4>5, FrameFields DEF Follows
    <3> QED
      BY <3>1, <3>2
  <2> QED
    BY <2>1, <2>2 DEF NextAhead
<1>8. \A i \in 1..Chunks[v] : i <= k => Have(i, t, v)'
  BY <1>4, <1>5 DEF Have
<1>9. Progress(c, t, v)'
  BY <1>2, <1>3, <1>4, <1>5, <1>7, <1>8 DEF Progress
<1> QED
  BY <1>2, <1>3, <1>4, <1>9

LEMMA FileStep ==
    ASSUME StreamInv, FileInv, [Next]_vars
    PROVE  FileInv'
<1>1. PICK ver \in [Transfer -> Version] : VersionsAre(ver) /\ Arriving(ver)
  BY DEF FileInv
<1>2. PICK new \in [Transfer -> Version] :
         VersionsAre(new)' /\ \A t \in Transfer : t <= transfers => new[t] = ver[t]
  BY <1>1, VersionsStep
<1>3. transfers' = transfers \/ ServeRequest
  BY DEF Next, vars, senderVars, RequestBundle, SendFrame, AbortTransfer, Connect,
         RestartOwner, RestartReader, Disconnect, HandleStart, HandleChunk, HandleDone, Take,
         LoseFrame, WriteChunk, WriteFails, RecordBundle, RemoveOutdated, ClearBundle, HandlerFails
<1>4. ASSUME ~writer'.torn
      PROVE  \E c \in Conn, t \in Transfer :
                /\ writer'.conn = c /\ writer'.transfer = t /\ t <= transfers'
                /\ Progress(c, t, new[t])'
  <2>1. ASSUME NEW c \in Conn, HandleStart(c)
        PROVE  \E d \in Conn, t \in Transfer :
                  /\ writer'.conn = d /\ writer'.transfer = t /\ t <= transfers'
                  /\ Progress(d, t, new[t])'
    <3>1. PICK f \in Frame : f = Head(wire[c])
      BY <2>1, TakenIsNext DEF HandleStart
    <3>2. writer'.transfer = f.transfer /\ f.transfer \in Transfer
      BY <2>1, <3>1, FrameFields DEF HandleStart
    <3>3. PICK v \in Version : v = new[f.transfer]
      BY <3>2
    <3>4. \E t \in Transfer : /\ t = writer'.transfer /\ writer'.conn = c /\ t <= transfers'
                              /\ Progress(c, t, v)'
      BY <2>1, StartProgress
    <3> QED
      BY <3>2, <3>3, <3>4
  <2>2. CASE \/ \E d \in Conn : HandleChunk(d) \/ HandleDone(d) \/ LoseFrame(d)
             \/ \E f \in unwritten : WriteChunk(f)
    <3>1. transfers' = transfers
      BY <2>2 DEF HandleChunk, HandleDone, Take, LoseFrame, WriteChunk, senderVars
    <3>2. \E c \in Conn, t \in Transfer :
              writer'.conn = c /\ writer'.transfer = t /\ t <= transfers' /\ Progress(c, t, ver[t])'
      <4>1. CASE Handled /\ \E f \in unwritten : WriteChunk(f)
        <5>1. StreamInv /\ \E d \in Conn : wire[d] # <<>> /\ wire' = [wire EXCEPT ![d] = Tail(@)]
          BY <4>1, TakesOff DEF Handled, TakenOff
        <5>2. wire' = wire
          BY <4>1 DEF WriteChunk
        <5>3. wire \in [Conn -> Seq(Frame)]
          BY DEF StreamInv, Typed, TypeOK
        <5>4. PICK d \in Conn : wire[d] # <<>> /\ wire[d] = Tail(wire[d])
          BY <5>1, <5>2, <5>3
        <5>5. Len(Tail(wire[d])) = Len(wire[d]) - 1 /\ Len(wire[d]) \in Nat
          BY <5>3, <5>4, HeadTailProperties, LenProperties
        <5>6. Len(wire[d]) = Len(wire[d]) - 1
          BY <5>4, <5>5, Zenon
        <5> QED
          BY <5>5, <5>6
      <4>2. CASE ~Handled
        BY <1>1, <1>4, <2>2, <4>2, WriteProgress DEF Handled
      <4>3. CASE \E d \in Conn : HandleChunk(d) \/ HandleDone(d) \/ LoseFrame(d)
        BY <1>1, <1>4, <4>3, ChunkProgress, DoneProgress, LossProgress
      <4> QED
        BY <2>2, <4>1, <4>2, <4>3
    <3> QED
      BY <1>2, <3>1, <3>2
  <2>3. CASE ~Handled /\ file' = file /\ unwritten' = unwritten /\ writer' = writer
    <3>1. \E c \in Conn, t \in Transfer :
              /\ writer'.conn = c /\ writer'.transfer = t /\ t <= transfers'
              /\ t <= transfers /\ Progress(c, t, ver[t])'
      BY <1>1, <1>4, <2>3, QuietProgress
    <3> QED
      BY <1>2, <3>1
  <2>4. CASE RemoveOutdated \/ \E f \in unwritten : WriteFails(f)
    BY <1>4, <2>4 DEF RemoveOutdated, WriteFails, StreamInv, Typed, TypeOK
  <2>5. CASE ~Handled /\ RestartReader
    <3>1. writer \in [transfer : {0} \union Transfer, conn : {NoConn} \union Conn,
                      done : BOOLEAN, torn : BOOLEAN]
      BY DEF StreamInv, Typed, TypeOK
    <3>2. /\ writer' = [writer EXCEPT !.torn = @ \/ unwritten # {}]
          /\ file' = file /\ unwritten' = {}
      BY <2>5 DEF RestartReader
    <3>3. unwritten = {} /\ ~writer.torn
      BY <1>4, <3>1, <3>2
    <3>4. writer' = writer
      BY <3>1, <3>2, <3>3
    <3> QED
      BY <2>3, <2>5, <3>2, <3>3, <3>4
  <2>6. CASE Handled
    BY <2>1, <2>2, <2>6 DEF Handled
  <2> QED
    BY <2>2, <2>3, <2>4, <2>5, <2>6
       DEF Next, Handled, vars, readerVars, RequestBundle, ServeRequest, SendFrame, AbortTransfer,
           Connect, RestartOwner, Disconnect, RecordBundle, ClearBundle, HandlerFails
<1>5. Arriving(new)'
  BY <1>4 DEF Arriving
<1> QED
  BY <1>2, <1>5 DEF FileInv

LEMMA InitFile == Init => FileInv
<1> SUFFICES ASSUME Init
             PROVE  FileInv
  OBVIOUS
<1>1. 1 \in Version
  BY ChunksAssumption, EmptySeq DEF Version
<1> DEFINE ver == [t \in Transfer |-> 1]
<1>2. ver \in [Transfer -> Version]
  BY <1>1
<1>3. NotServing.on = FALSE /\ DOMAIN << >> = {}
  BY DEF NotServing
<1>4. VersionsAre(ver)
  BY <1>3 DEF Init, VersionsAre
<1>5. Arriving(ver)
  BY DEF Init, Arriving
<1> QED
  BY <1>2, <1>4, <1>5 DEF FileInv

(* When Done has been handled and nothing is left to write, all chunks of    *)
(* the version are there, and nothing after them.                            *)
LEMMA ArrivedIsWhole == StreamInv /\ FileInv => UntornIsWhole
<1> SUFFICES ASSUME StreamInv, FileInv, writer.done, ~writer.torn, unwritten = {}
             PROVE  \E v \in Version : file = FileOf(Whole(v))
  BY DEF UntornIsWhole
<1>1. PICK ver \in [Transfer -> Version] : Arriving(ver)
  BY DEF FileInv
<1>2. PICK c \in Conn, t \in Transfer : Progress(c, t, ver[t])
  BY <1>1 DEF Arriving
<1>3. PICK v \in Version : v = ver[t]
  OBVIOUS
<1>4. Chunks[v] \in Nat \ {0}
  BY ChunkCounts
<1>5. /\ file = FileOf(file.chunks) /\ file.chunks \in Seq({0} \union Version)
      /\ DOMAIN file.chunks = 1..Len(file.chunks) /\ Len(file.chunks) \in Nat
  BY <1>2, FileOfProgress
<1>6. \A i \in 1..Chunks[v] : i \in DOMAIN file.chunks /\ file.chunks[i] = v
  BY <1>2, <1>3, <1>4 DEF Progress, Have
<1>7. Len(file.chunks) = Chunks[v]
  <2>1. Len(file.chunks) <= Chunks[v]
    BY <1>2, <1>3 DEF Progress
  <2>2. Chunks[v] \in DOMAIN file.chunks
    BY <1>4, <1>6
  <2> QED
    BY <1>4, <1>5, <2>1, <2>2
<1>8. file.chunks = Whole(v)
  <2>1. file.chunks = [i \in 1..Chunks[v] |-> file.chunks[i]]
    BY <1>5, <1>7
  <2> QED
    BY <1>6, <2>1 DEF Whole
<1> QED
  BY <1>5, <1>8

(* A transfer that keeps to one connection and misses none of its own frames *)
(* and writes leaves its bundle, whole and nothing else, once its Done has   *)
(* been handled and its writes are done, however many transfers, versions    *)
(* and connections there are, in whatever order connections break, nodes     *)
(* stop, other transfers' frames are lost and writes are done.               *)
THEOREM UntornTransfersAreWhole == Spec => []UntornIsWhole
<1>1. Init => StreamInv /\ FileInv
  BY InitStream, InitFile
<1>2. StreamInv /\ FileInv /\ [Next]_vars => StreamInv' /\ FileInv'
  BY StreamStep, FileStep
<1> QED
  BY <1>1, <1>2, ArrivedIsWhole, PTL DEF Spec

=============================================================================
