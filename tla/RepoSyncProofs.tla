--------------------------- MODULE RepoSyncProofs ---------------------------
(***************************************************************************)
(* Proofs about modules Refs and RepoSync, for any nodes, refs, commits,   *)
(* announcements, crashes, clones and failures.                            *)
(***************************************************************************)
EXTENDS RepoSync, FiniteSetTheorems, SequenceTheorems, TLAPS

(* A ref map is a function from refs. *)
LEMMA RefMapDef ==
    \A S, m : m \in RefMaps(S) <=>
        /\ m = [r \in DOMAIN m |-> m[r]]
        /\ DOMAIN m \subseteq Ref
        /\ \A r \in DOMAIN m : m[r] \in S
<1> SUFFICES ASSUME NEW S, NEW m
             PROVE  m \in RefMaps(S) <=>
                        /\ m = [r \in DOMAIN m |-> m[r]]
                        /\ DOMAIN m \subseteq Ref
                        /\ \A r \in DOMAIN m : m[r] \in S
  OBVIOUS
<1>1. m \in RefMaps(S) <=> \E names \in SUBSET Ref : m \in [names -> S]
  BY DEF RefMaps
<1> QED
  BY <1>1

LEMMA RefMapSubset == \A S, T : S \subseteq T => RefMaps(S) \subseteq RefMaps(T)
BY RefMapDef

LEMMA NoRefsType == /\ DOMAIN NoRefs = {}
                    /\ \A S : NoRefs \in RefMaps(S)
<1>1. DOMAIN NoRefs = {} /\ NoRefs = [r \in DOMAIN NoRefs |-> NoRefs[r]]
  BY DEF NoRefs
<1> QED
  BY <1>1, RefMapDef

LEMMA OnlyType ==
    \A S, names : \A m \in RefMaps(S) :
        /\ Only(m, names) \in RefMaps(S)
        /\ DOMAIN Only(m, names) = DOMAIN m \intersect names
        /\ \A r \in DOMAIN m \intersect names : Only(m, names)[r] = m[r]
<1> SUFFICES ASSUME NEW S, NEW names, NEW m \in RefMaps(S)
             PROVE  /\ Only(m, names) \in RefMaps(S)
                    /\ DOMAIN Only(m, names) = DOMAIN m \intersect names
                    /\ \A r \in DOMAIN m \intersect names : Only(m, names)[r] = m[r]
  OBVIOUS
<1>1. /\ DOMAIN Only(m, names) = DOMAIN m \intersect names
      /\ \A r \in DOMAIN m \intersect names : Only(m, names)[r] = m[r]
      /\ Only(m, names) = [r \in DOMAIN Only(m, names) |-> Only(m, names)[r]]
  BY DEF Only
<1> QED
  BY <1>1, RefMapDef

LEMMA BatchSaveType ==
    \A S : \A db, new \in RefMaps(S) :
        /\ BatchSave(db, new) \in RefMaps(S)
        /\ DOMAIN BatchSave(db, new) = DOMAIN db \union DOMAIN new
        /\ \A r \in DOMAIN db \union DOMAIN new :
              BatchSave(db, new)[r] = IF r \in DOMAIN new THEN new[r] ELSE db[r]
<1> SUFFICES ASSUME NEW S, NEW db \in RefMaps(S), NEW new \in RefMaps(S)
             PROVE  /\ BatchSave(db, new) \in RefMaps(S)
                    /\ DOMAIN BatchSave(db, new) = DOMAIN db \union DOMAIN new
                    /\ \A r \in DOMAIN db \union DOMAIN new :
                          BatchSave(db, new)[r] = IF r \in DOMAIN new THEN new[r] ELSE db[r]
  OBVIOUS
<1>1. /\ DOMAIN BatchSave(db, new) = DOMAIN db \union DOMAIN new
      /\ \A r \in DOMAIN db \union DOMAIN new :
            BatchSave(db, new)[r] = IF r \in DOMAIN new THEN new[r] ELSE db[r]
      /\ BatchSave(db, new) =
            [r \in DOMAIN BatchSave(db, new) |-> BatchSave(db, new)[r]]
  BY DEF BatchSave
<1>2. DOMAIN BatchSave(db, new) \subseteq Ref
  BY <1>1, RefMapDef
<1>3. \A r \in DOMAIN BatchSave(db, new) : BatchSave(db, new)[r] \in S
  BY <1>1, RefMapDef
<1> QED
  BY <1>1, <1>2, <1>3, RefMapDef

LEMMA RefFinite == IsFiniteSet(Ref)
<1>1. IsFiniteSet(Heads \union Tags)
  BY RefAssumption, FS_Union
<1>2. IsFiniteSet(Heads \union Tags \union Remotes)
  BY <1>1, RefAssumption, FS_Union
<1>3. IsFiniteSet({HeadRef})
  BY FS_Singleton
<1> QED
  BY <1>2, <1>3, FS_Union DEF Ref

(* has_refs_changed looks up each ref of the database in the current ones   *)
(* and compares the numbers of both: that is enough to tell any two ref     *)
(* maps apart, refs that exist on the current side only among them.         *)
THEOREM RefsComparedWhole ==
    \A S : \A db, current \in RefMaps(S) : HasRefsChanged(db, current) <=> db # current
<1> SUFFICES ASSUME NEW S, NEW db \in RefMaps(S), NEW current \in RefMaps(S)
             PROVE  HasRefsChanged(db, current) <=> db # current
  OBVIOUS
<1>1. /\ db = [r \in DOMAIN db |-> db[r]] /\ DOMAIN db \subseteq Ref
      /\ current = [r \in DOMAIN current |-> current[r]] /\ DOMAIN current \subseteq Ref
  BY RefMapDef
<1>2. HasRefsChanged(db, current) => db # current
  BY DEF HasRefsChanged
<1>3. ASSUME ~HasRefsChanged(db, current)
      PROVE  db = current
  <2>1. /\ DOMAIN db \subseteq DOMAIN current
        /\ \A r \in DOMAIN db : current[r] = db[r]
        /\ Cardinality(DOMAIN db) = Cardinality(DOMAIN current)
    BY <1>3 DEF HasRefsChanged
  <2>2. IsFiniteSet(DOMAIN current)
    BY <1>1, RefFinite, FS_Subset
  <2>3. DOMAIN db = DOMAIN current
    BY <2>1, <2>2, FS_Subset
  <2> QED
    BY <1>1, <2>1, <2>3
<1> QED
  BY <1>2, <1>3

-----------------------------------------------------------------------------
(* Types. *)

LEMMA RefMapOps ==
    /\ NoRefs \in RefMap
    /\ \A names : \A m \in RefMap : Only(m, names) \in RefMap
    /\ \A m \in RefMap : ReadRepoRefs(m) \in RefMap /\ BundleRefs(m) \in RefMap
                         /\ ClonedRefs(m) \in RefMap
    /\ \A db, new \in RefMap : BatchSave(db, new) \in RefMap
BY NoRefsType, OnlyType, BatchSaveType DEF RefMap, ReadRepoRefs, BundleRefs, ClonedRefs

LEMMA Bounds ==
    MaxCommit \in Nat \ {0} /\ MaxQueue \in Nat
BY BoundAssumption

LEMMA FirstCommitType == FirstCommit \in RefMap
<1>1. {1} \subseteq Commit
  BY Bounds DEF Commit
<1> QED
  BY <1>1, FirstCommitAssumption, RefMapSubset DEF RefMap

(* The states of a gossip handler, of a data handler, of a clone command, of *)
(* a bundle file, and what is left.                                         *)
GossipState ==
    {Idle} \union [at : {"insert", "remove", "delete", "save", "clear"},
                   new : RefMap, had : BOOLEAN]
CloneState ==
    {Idle} \union [at : {"loaded", "restored", "saving"}, stale : RefMap, heads : RefMap]
FileState == [exists : BOOLEAN, head : RefMap, rest : RefMap]
DataState == {"start", "head", "rest", "done", "found"}
Scenario ==
    [hears : [Node -> SUBSET Node], requests : Nat, deletes : Nat, crashes : Nat,
     clones : Nat, failures : Nat]

OwnerTypes ==
    /\ git \in RefMap /\ commits \in Commit
    /\ published \in SUBSET RefMap /\ overlaid \in SUBSET Node
ReposTypes ==
    /\ row \in [Node -> {"none", "local", "external"}]
    /\ refs \in [Node -> RefMap]
    /\ recorded \in [Node -> BOOLEAN]
NodeTypes ==
    /\ file \in [Node -> FileState]
    /\ inbox \in [Node -> [Node -> Seq(RefMap)]]
    /\ gossip \in [Node -> GossipState]
ReaderTypes ==
    /\ requests \in [Readers -> Nat]
    /\ packed \in [Readers -> Seq(RefMap)]
    /\ data \in [Readers -> DataState]
    /\ clone \in [Readers -> CloneState]
LeftType == left \in Scenario

LEMMA SplitTypes ==
    TypeOK <=> OwnerTypes /\ ReposTypes /\ NodeTypes /\ ReaderTypes /\ LeftType
BY DEF TypeOK, OwnerTypes, ReposTypes, NodeTypes, ReaderTypes, LeftType, GossipState,
       CloneState, FileState, DataState, Scenario

LEMMA InitTypes == Init => TypeOK
<1> SUFFICES ASSUME Init
             PROVE  TypeOK
  OBVIOUS
<1>1. ReposTypes
  BY FirstCommitType, RefMapOps DEF Init, ReposTypes
<1>2. OwnerTypes
  <2>1. refs[Owner] \in RefMap
    BY <1>1, NodeAssumption DEF ReposTypes
  <2> QED
    BY <2>1, FirstCommitType, Bounds DEF Init, OwnerTypes, Commit
<1>3. NodeTypes
  BY RefMapOps DEF Init, NodeTypes, FileState, NoFile, GossipState
<1>4. ReaderTypes
  BY Bounds DEF Init, ReaderTypes, CloneState, DataState
<1>5. LeftType
  BY ScenariosAssumption DEF Init, LeftType, Scenario
<1> QED
  BY <1>1, <1>2, <1>3, <1>4, <1>5, SplitTypes

(* The owner's steps. *)
LEMMA OwnerStepsType ==
    ASSUME TypeOK, (\E r \in Edited : MakeCommit(r) \/ DeleteRef(r)) \/ CheckRefs
    PROVE  TypeOK'
<1> USE DEF OwnerTypes, ReposTypes, LeftType, Scenario
<1>1. OwnerTypes /\ ReposTypes /\ LeftType
  BY SplitTypes
<1>2. ASSUME NEW r \in Edited, MakeCommit(r)
      PROVE  TypeOK'
  <2>1. commits' \in Commit /\ r \in Ref
    BY <1>1, <1>2, Bounds, FirstCommitAssumption DEF MakeCommit, Commit
  <2>2. PICK k : k = commits'
    OBVIOUS
  <2>3. [x \in {r} |-> k] \in RefMap
    BY <2>1, <2>2, RefMapDef DEF RefMap
  <2>4. git' \in RefMap
    BY <1>1, <1>2, <2>2, <2>3, RefMapOps DEF MakeCommit
  <2> QED
    BY <1>2, <2>1, <2>4 DEF MakeCommit, reposVars, TypeOK
<1>3. ASSUME NEW r \in Edited, DeleteRef(r)
      PROVE  TypeOK'
  <2>1. git' \in RefMap
    BY <1>1, <1>3, RefMapOps DEF DeleteRef
  <2>2. left' \in Scenario
    <3>1. left.deletes - 1 \in Nat
      BY <1>1, <1>3, Bounds DEF DeleteRef
    <3> QED
      BY <1>1, <1>3, <3>1 DEF DeleteRef
  <2> QED
    BY <1>3, <2>1, <2>2 DEF DeleteRef, reposVars, TypeOK
<1>4. CASE CheckRefs
  <2>1. refs' \in [Node -> RefMap]
    BY <1>1, <1>4, RefMapOps DEF CheckRefs
  <2>2. published' \in SUBSET RefMap
    <3>1. refs'[Owner] \in RefMap
      BY <2>1, NodeAssumption
    <3> QED
      BY <1>1, <1>4, <3>1 DEF CheckRefs
  <2> QED
    BY <1>4, <2>1, <2>2 DEF CheckRefs, TypeOK
<1> QED
  BY <1>2, <1>3, <1>4

LEMMA AnnounceType ==
    ASSUME TypeOK, NEW n \in Node, Announce(n)
    PROVE  TypeOK'
<1>1. ReposTypes /\ NodeTypes
  BY SplitTypes
<1>2. \A p \in Node : Append(inbox[p][n], refs[n]) \in Seq(RefMap)
  BY <1>1, AppendProperties DEF ReposTypes, NodeTypes
<1>3. inbox' \in [Node -> [Node -> Seq(RefMap)]]
  BY <1>1, <1>2 DEF Announce, NodeTypes
<1>4. published' \in SUBSET RefMap
  BY <1>1, SplitTypes DEF Announce, ReposTypes, OwnerTypes
<1> QED
  BY <1>3, <1>4 DEF Announce, reposVars, TypeOK

LEMMA GossipStates ==
    /\ Idle.at = "idle"
    /\ \A g \in GossipState :
          \/ g = Idle
          \/ /\ g \in [at : {"insert", "remove", "delete", "save", "clear"},
                       new : RefMap, had : BOOLEAN]
             /\ g.at # "idle" /\ g.new \in RefMap /\ g.had \in BOOLEAN
BY DEF Idle, GossipState

LEMMA AnnouncedType ==
    ASSUME TypeOK, NEW n \in Node, NEW p \in Node, TakeAnnouncement(n, p)
    PROVE  /\ inbox' \in [Node -> [Node -> Seq(RefMap)]]
           /\ Head(inbox[n][p]) \in RefMap
<1>1. inbox \in [Node -> [Node -> Seq(RefMap)]] /\ inbox[n][p] \in Seq(RefMap)
  BY DEF TypeOK
<1>2. Head(inbox[n][p]) \in RefMap /\ Tail(inbox[n][p]) \in Seq(RefMap)
  BY <1>1, HeadTailProperties DEF TakeAnnouncement
<1> QED
  BY <1>1, <1>2 DEF TakeAnnouncement

(* The gossip handler's steps. *)
LEMMA GossipStepsType ==
    ASSUME TypeOK, NEW n \in Node, GossipStep(n)
    PROVE  TypeOK'
<1>1. OwnerTypes /\ ReposTypes /\ NodeTypes /\ ReaderTypes /\ LeftType
  BY SplitTypes
<1>2. gossip \in [Node -> GossipState] /\ gossip[n] \in GossipState
  BY <1>1 DEF NodeTypes
<1>3. \A g \in GossipState : (gossip' = [gossip EXCEPT ![n] = g]) =>
         gossip' \in [Node -> GossipState]
  BY <1>2
<1>4. ASSUME NEW p \in Node, TakeAnnouncement(n, p)
      PROVE  \A at \in {"insert", "remove"}, had \in BOOLEAN :
                Updating(at, Head(inbox[n][p]), had) \in GossipState
  BY <1>4, AnnouncedType DEF Updating, GossipState
<1>5. ASSUME NEW p \in Node, LearnRepo(n, p)
      PROVE  TypeOK'
  <2>1. inbox' \in [Node -> [Node -> Seq(RefMap)]]
    BY <1>5, AnnouncedType DEF LearnRepo
  <2>2. gossip' \in [Node -> GossipState]
    BY <1>3, <1>4, <1>5 DEF LearnRepo
  <2>3. /\ row' \in [Node -> {"none", "local", "external"}]
        /\ recorded' \in [Node -> BOOLEAN]
    BY <1>1, <1>5 DEF LearnRepo, ReposTypes
  <2> QED
    BY <1>5, <2>1, <2>2, <2>3 DEF LearnRepo, envVars, TypeOK, GossipState
<1>6. ASSUME NEW p \in Node, SkipAnnouncement(n, p)
      PROVE  TypeOK'
  <2>1. inbox' \in [Node -> [Node -> Seq(RefMap)]]
    BY <1>6, AnnouncedType DEF SkipAnnouncement
  <2> QED
    BY <1>6, <2>1 DEF SkipAnnouncement, envVars, reposVars, TypeOK
<1>7. ASSUME NEW p \in Node, BeginUpdate(n, p)
      PROVE  TypeOK'
  <2>1. inbox' \in [Node -> [Node -> Seq(RefMap)]]
    BY <1>7, AnnouncedType DEF BeginUpdate
  <2>2. gossip' \in [Node -> GossipState]
    <3>1. recorded[n] \in BOOLEAN
      BY <1>1 DEF ReposTypes
    <3> QED
      BY <1>3, <1>4, <1>7, <3>1 DEF BeginUpdate
  <2> QED
    BY <1>7, <2>1, <2>2 DEF BeginUpdate, envVars, reposVars, TypeOK, GossipState
<1>8. ASSUME NEW from, NEW to \in {"idle", "delete", "save", "clear"}, from # "idle",
             Proceed(n, from, to)
      PROVE  gossip' \in [Node -> GossipState]
  <2>1. gossip[n] \in [at : {"insert", "remove", "delete", "save", "clear"},
                       new : RefMap, had : BOOLEAN]
    BY <1>2, <1>8, GossipStates DEF Proceed
  <2>2. CASE to = "idle"
    BY <1>3, <1>8, <2>2 DEF Proceed, GossipState
  <2>3. CASE to # "idle"
    <3>1. [gossip[n] EXCEPT !.at = to] \in GossipState
      BY <2>1, <2>3 DEF GossipState
    <3> QED
      BY <1>2, <1>8, <2>3, <3>1 DEF Proceed
  <2> QED
    BY <2>2, <2>3
<1>9. CASE RemoveFile(n)
  <2>1. gossip' \in [Node -> GossipState]
    BY <1>8, <1>9 DEF RemoveFile
  <2>2. file' \in [Node -> FileState]
    BY <1>1, <1>9, RefMapOps DEF RemoveFile, NodeTypes, FileState, NoFile
  <2> QED
    BY <1>9, <2>1, <2>2 DEF RemoveFile, Proceed, envVars, TypeOK, GossipState, FileState
<1>10. CASE DeleteRefs(n)
  <2>1. gossip' \in [Node -> GossipState]
    BY <1>8, <1>10 DEF DeleteRefs
  <2>2. refs' \in [Node -> RefMap]
    BY <1>1, <1>10, RefMapOps DEF DeleteRefs, ReposTypes
  <2>3. overlaid' \in SUBSET Node
    BY <1>1, <1>10 DEF DeleteRefs, OwnerTypes
  <2> QED
    BY <1>10, <2>1, <2>2, <2>3 DEF DeleteRefs, Proceed, TypeOK, GossipState
<1>11. ASSUME NEW r \in Ref, SaveRef(n, r)
       PROVE  TypeOK'
  <2>1. /\ gossip[n] \in [at : {"insert", "remove", "delete", "save", "clear"},
                          new : RefMap, had : BOOLEAN]
        /\ gossip[n].new \in RefMap
    BY <1>2, <1>11, GossipStates DEF SaveRef
  <2>2. gossip' \in [Node -> GossipState]
    <3>1. [gossip[n] EXCEPT !.new = Only(@, Ref \ {r})] \in GossipState
      <4>1. Only(gossip[n].new, Ref \ {r}) \in RefMap
        BY <2>1, RefMapOps
      <4> QED
        BY <2>1, <4>1 DEF GossipState
    <3>2. gossip' = [gossip EXCEPT ![n] = [gossip[n] EXCEPT !.new = Only(@, Ref \ {r})]]
      BY <1>2, <1>11 DEF SaveRef
    <3> QED
      BY <1>2, <3>1, <3>2
  <2>3. refs' \in [Node -> RefMap]
    <3>1. BatchSave(refs[n], Only(gossip[n].new, {r})) \in RefMap
      BY <1>1, <2>1, RefMapOps DEF ReposTypes
    <3> QED
      BY <1>1, <1>11, <3>1 DEF SaveRef, ReposTypes
  <2> QED
    BY <1>11, <2>2, <2>3 DEF SaveRef, envVars, TypeOK, GossipState
<1>12. CASE RefsSaved(n)
  <2>1. gossip' \in [Node -> GossipState]
    BY <1>8, <1>12 DEF RefsSaved
  <2> QED
    BY <1>12, <2>1 DEF RefsSaved, Proceed, envVars, TypeOK, GossipState
<1>13. CASE ClearBundle(n)
  <2>1. gossip' \in [Node -> GossipState]
    BY <1>8, <1>13 DEF ClearBundle
  <2>2. recorded' \in [Node -> BOOLEAN]
    BY <1>1, <1>13 DEF ClearBundle, ReposTypes
  <2> QED
    BY <1>13, <2>1, <2>2 DEF ClearBundle, Proceed, envVars, TypeOK, GossipState
<1> QED
  BY <1>5, <1>6, <1>7, <1>9, <1>10, <1>11, <1>12, <1>13 DEF GossipStep

(* Bundles and clones. *)
LEMMA ReaderStepsType ==
    ASSUME TypeOK, NEW n \in Readers,
           RequestBundle(n) \/ ServeRequest(n) \/ DataStep(n) \/ StartClone(n) \/ CloneStep(n)
    PROVE  TypeOK'
<1> USE DEF DataState
<1>1. OwnerTypes /\ ReposTypes /\ NodeTypes /\ ReaderTypes /\ LeftType /\ n \in Node
  BY SplitTypes DEF Readers
<1>2. /\ packed \in [Readers -> Seq(RefMap)] /\ packed[n] \in Seq(RefMap)
      /\ requests[n] \in Nat /\ Len(packed[n]) \in Nat
  BY <1>1, LenProperties, Bounds DEF ReaderTypes
<1>3. CASE RequestBundle(n)
  <2>1. requests' \in [Readers -> Nat]
    <3>1. requests[n] + 1 \in Nat
      BY <1>2, <1>3 DEF RequestBundle
    <3> QED
      BY <1>1, <1>3, <3>1 DEF RequestBundle, ReaderTypes
  <2> QED
    BY <1>3, <2>1 DEF RequestBundle, envVars, reposVars, TypeOK
<1>4. CASE ServeRequest(n)
  <2>1. requests' \in [Readers -> Nat]
    <3>1. requests[n] - 1 \in Nat
      BY <1>2, <1>4 DEF ServeRequest
    <3> QED
      BY <1>1, <1>4, <3>1 DEF ServeRequest, ReaderTypes
  <2>2. packed' \in [Readers -> Seq(RefMap)]
    <3>1. Append(packed[n], BundleRefs(git)) \in Seq(RefMap)
      BY <1>1, <1>2, RefMapOps, AppendProperties DEF OwnerTypes
    <3> QED
      BY <1>2, <1>4, <3>1 DEF ServeRequest
  <2> QED
    BY <1>4, <2>1, <2>2 DEF ServeRequest, envVars, reposVars, TypeOK
<1>5. ASSUME packed[n] # <<>>
      PROVE  /\ Tail(packed[n]) \in Seq(RefMap)
             /\ \A part \in RefMap : /\ FileWith(Head(packed[n]), part) \in FileState
                                    /\ FileWith(part, Head(packed[n])) \in FileState
  BY <1>2, <1>5, HeadTailProperties DEF FileWith, FileState
<1>6. CASE HandleStart(n) \/ HandleHead(n) \/ HandleRest(n) \/ LookForFile(n)
  <2>1. packed[n] # <<>> /\ data' \in [Readers -> DataState]
    BY <1>1, <1>6
       DEF HandleStart, HandleHead, HandleRest, LookForFile, Receive, ReaderTypes
  <2>2. packed' \in [Readers -> Seq(RefMap)]
    BY <1>2, <1>5, <1>6, <2>1 DEF HandleStart, HandleHead, HandleRest, LookForFile
  <2>3. file' \in [Node -> FileState]
    <3>1. /\ file \in [Node -> FileState]
          /\ file[n].head \in RefMap /\ file[n].rest \in RefMap
      BY <1>1 DEF NodeTypes, FileState
    <3>2. FileWith(NoRefs, NoRefs) \in FileState
      BY RefMapOps DEF FileWith, FileState
    <3> QED
      BY <1>1, <1>5, <1>6, <2>1, <3>1, <3>2
         DEF HandleStart, HandleHead, HandleRest, LookForFile
  <2> QED
    BY <1>6, <2>1, <2>2, <2>3
       DEF HandleStart, HandleHead, HandleRest, LookForFile, Receive, reposVars, TypeOK,
           FileState
<1>7. CASE RecordBundle(n)
  <2>1. /\ data' \in [Readers -> DataState]
        /\ recorded' \in [Node -> BOOLEAN]
    BY <1>1, <1>7 DEF RecordBundle, ReaderTypes, ReposTypes
  <2> QED
    BY <1>7, <2>1 DEF RecordBundle, envVars, TypeOK
<1>8. /\ Idle.at = "idle" /\ clone \in [Readers -> CloneState]
      /\ clone[n].at # "idle" =>
           clone[n] \in [at : {"loaded", "restored", "saving"}, stale : RefMap, heads : RefMap]
  <2>1. clone[n] \in CloneState /\ clone \in [Readers -> CloneState] /\ Idle.at = "idle"
    BY <1>1 DEF ReaderTypes, Idle
  <2> QED
    BY <2>1 DEF CloneState
<1>9. CASE StartClone(n)
  <2>1. left' \in Scenario
    <3>1. left.clones - 1 \in Nat
      BY <1>1, <1>9, Bounds DEF StartClone, LeftType, Scenario
    <3> QED
      BY <1>1, <1>9, <3>1 DEF StartClone, LeftType, Scenario
  <2>2. clone' \in [Readers -> CloneState]
    BY <1>1, <1>8, <1>9, RefMapOps DEF StartClone, ReposTypes, CloneState
  <2> QED
    BY <1>9, <2>1, <2>2 DEF StartClone, reposVars, TypeOK, CloneState, Scenario
<1>10. CASE RestoreClone(n)
  <2>1. ClonedRefs(file[n].head) \in RefMap
    BY <1>1, RefMapOps DEF NodeTypes, FileState
  <2>2. clone' \in [Readers -> CloneState]
    <3>1. [clone[n] EXCEPT !.at = "restored", !.heads = ClonedRefs(file[n].head)] \in CloneState
      BY <1>8, <1>10, <2>1 DEF RestoreClone, CloneState
    <3>2. Idle \in CloneState
      BY DEF CloneState
    <3> QED
      BY <1>8, <1>10, <3>1, <3>2 DEF RestoreClone
  <2> QED
    BY <1>10, <2>2 DEF RestoreClone, envVars, reposVars, TypeOK, CloneState
<1>11. CASE SaveCloneRefs(n)
  <2>1. clone[n] \in [at : {"loaded", "restored", "saving"}, stale : RefMap, heads : RefMap]
    BY <1>8, <1>11 DEF SaveCloneRefs
  <2>2. clone' \in [Readers -> CloneState]
    <3>1. [clone[n] EXCEPT !.at = "saving"] \in CloneState
      BY <2>1 DEF CloneState
    <3> QED
      BY <1>8, <1>11, <3>1 DEF SaveCloneRefs
  <2>3. refs' \in [Node -> RefMap]
    BY <1>1, <1>11, <2>1, RefMapOps DEF SaveCloneRefs, ReposTypes
  <2>4. overlaid' \in SUBSET Node
    BY <1>1, <1>11 DEF SaveCloneRefs, OwnerTypes
  <2> QED
    BY <1>11, <2>2, <2>3, <2>4 DEF SaveCloneRefs, TypeOK, CloneState
<1>12. CASE SaveCloneRow(n)
  <2>1. clone[n] \in [at : {"loaded", "restored", "saving"}, stale : RefMap, heads : RefMap]
    BY <1>8, <1>12 DEF SaveCloneRow
  <2>2. /\ clone' \in [Readers -> CloneState]
        /\ recorded' \in [Node -> BOOLEAN]
    BY <1>1, <1>8, <1>12 DEF SaveCloneRow, CloneState, ReposTypes
  <2>3. refs' \in [Node -> RefMap]
    BY <1>1, <1>12, <2>1, RefMapOps DEF SaveCloneRow, ReposTypes
  <2>4. overlaid' \in SUBSET Node
    BY <1>1, <1>12 DEF SaveCloneRow, OwnerTypes
  <2> QED
    BY <1>12, <2>2, <2>3, <2>4 DEF SaveCloneRow, TypeOK, CloneState
<1> QED
  BY <1>3, <1>4, <1>6, <1>7, <1>9, <1>10, <1>11, <1>12 DEF DataStep, CloneStep

LEMMA CrashType ==
    ASSUME TypeOK, NEW n \in Node, Crash(n)
    PROVE  TypeOK'
<1>1. OwnerTypes /\ ReposTypes /\ NodeTypes /\ ReaderTypes /\ LeftType
  BY SplitTypes
<1>2. left' \in Scenario
  <2>1. left.crashes - 1 \in Nat
    BY <1>1, Bounds DEF Crash, LeftType, Scenario
  <2> QED
    BY <1>1, <2>1 DEF Crash, LeftType, Scenario
<1>3. /\ inbox' \in [Node -> [Node -> Seq(RefMap)]]
      /\ gossip' \in [Node -> GossipState]
  BY <1>1 DEF Crash, NodeTypes, GossipState
<1>4. /\ requests' \in [Readers -> Nat]
      /\ packed' \in [Readers -> Seq(RefMap)]
      /\ data' \in [Readers -> DataState]
  BY <1>1, Bounds DEF Crash, ReaderTypes, DataState
<1> QED
  BY <1>2, <1>3, <1>4 DEF Crash, reposVars, TypeOK, GossipState, DataState, Scenario

(* What fails changes where a handler is, and nothing it keeps. *)
LEMMA FailType ==
    ASSUME TypeOK, Fail
    PROVE  left' \in Scenario /\ left'.clones = left.clones
<1>1. left \in Scenario
  BY SplitTypes DEF LeftType
<1>2. left.failures - 1 \in Nat
  BY <1>1 DEF Fail, Scenario
<1> QED
  BY <1>1, <1>2 DEF Fail, Scenario

LEMMA StepFailsType ==
    ASSUME TypeOK, NEW n \in Node, StepFails(n)
    PROVE  TypeOK'
<1>1. /\ gossip \in [Node -> GossipState] /\ gossip[n] \in GossipState
      /\ overlaid \in SUBSET Node
  BY SplitTypes DEF NodeTypes, OwnerTypes
<1>2. PICK from \in {"insert", "remove", "delete", "save", "clear"},
           to \in {"idle", "delete", "save", "clear"} :
         Proceed(n, from, to) /\ overlaid' \in {overlaid, overlaid \union {n}}
         /\ (from # "delete" => overlaid' = overlaid)
  BY DEF StepFails
<1>3. gossip[n] \in [at : {"insert", "remove", "delete", "save", "clear"},
                     new : RefMap, had : BOOLEAN]
  BY <1>1, <1>2, GossipStates DEF Proceed
<1>4. gossip' \in [Node -> GossipState]
  <2>1. Idle \in GossipState /\ (to # "idle" => [gossip[n] EXCEPT !.at = to] \in GossipState)
    BY <1>3 DEF GossipState
  <2> QED
    BY <1>1, <1>2, <2>1 DEF Proceed
<1> QED
  BY <1>1, <1>2, <1>4, FailType
     DEF StepFails, Proceed, TypeOK, GossipState, Scenario

LEMMA LossType ==
    ASSUME TypeOK, NEW n \in Readers, LoseFrame(n) \/ RecordFails(n)
    PROVE  TypeOK'
<1>1. /\ packed \in [Readers -> Seq(RefMap)] /\ packed[n] \in Seq(RefMap)
      /\ data \in [Readers -> DataState]
  BY SplitTypes DEF ReaderTypes
<1>2. left' \in Scenario
  BY FailType DEF LoseFrame, RecordFails
<1>3. data' \in [Readers -> DataState]
  BY <1>1 DEF LoseFrame, RecordFails, Receive, DataState
<1>4. packed' \in [Readers -> Seq(RefMap)]
  <2>1. packed[n] # <<>> => Tail(packed[n]) \in Seq(RefMap)
    BY <1>1, HeadTailProperties
  <2> QED
    BY <1>1, <2>1 DEF LoseFrame, RecordFails, Receive
<1> QED
  BY <1>2, <1>3, <1>4
     DEF LoseFrame, RecordFails, Receive, reposVars, TypeOK, DataState, Scenario

LEMMA NextTypes == TypeOK /\ [Next]_vars => TypeOK'
<1> SUFFICES ASSUME TypeOK, [Next]_vars
             PROVE  TypeOK'
  OBVIOUS
<1>1. CASE UNCHANGED vars
  BY <1>1 DEF vars, TypeOK
<1>2. CASE Next
  <2>1. ASSUME NEW n \in Node, NEW p \in Node, AnnouncementFails(n, p)
        PROVE  TypeOK'
    <3>1. inbox' \in [Node -> [Node -> Seq(RefMap)]]
      BY <2>1, AnnouncedType DEF AnnouncementFails
    <3> QED
      BY <2>1, <3>1, FailType DEF AnnouncementFails, reposVars, TypeOK, Scenario
  <2>2. ASSUME NEW n \in Readers, LoseFrame(n) \/ RecordFails(n)
        PROVE  TypeOK'
    BY <2>2, LossType
  <2> QED
    BY <1>2, <2>1, <2>2, OwnerStepsType, AnnounceType, GossipStepsType, ReaderStepsType,
       CrashType, StepFailsType DEF Next
<1> QED
  BY <1>1, <1>2

(* Every variable keeps its type: whatever is announced, saved, cleared or   *)
(* cloned in between, refs tables and bundle files hold refs and commits     *)
(* that exist.                                                               *)
THEOREM TypeCorrect == Spec => []TypeOK
BY InitTypes, NextTypes, PTL DEF Spec

-----------------------------------------------------------------------------
(* Refs tables.  x is a part of m if m maps every ref of x as x does.        *)
IsPart(x, m) == DOMAIN x \subseteq DOMAIN m /\ \A r \in DOMAIN x : x[r] = m[r]

Part(x) == \E m \in published : IsPart(x, m)

(* Announcements carry parts of published values.  While a handler saves     *)
(* one, what it has saved and what it has still to save are parts of one and *)
(* the same value, unless the table is overlaid; this is why the old refs    *)
(* have to be gone before it begins, and why neither a crash between two     *)
(* refs nor a save that fails part-way does any harm.                        *)
Announced == \A n, p \in Node : \A i \in DOMAIN inbox[n][p] : Part(inbox[n][p][i])

Saving(n) ==
    /\ gossip[n].at # "idle" => Part(gossip[n].new)
    /\ n \notin overlaid =>
          /\ Part(refs[n])
          /\ gossip[n].at \in {"insert", "save"} =>
                \E m \in published : IsPart(gossip[n].new, m) /\ IsPart(refs[n], m)
    /\ row[n] = "none" => gossip[n] = Idle /\ (n \notin overlaid => refs[n] = NoRefs)

(* The owner's row is local: nobody's announcements change it.               *)
OwnerKeeps == row[Owner] = "local" /\ gossip[Owner] = Idle /\ refs[Owner] \in published

Coherent == OwnerKeeps /\ Announced /\ \A n \in Readers : Saving(n)

CoherentInv == TypeOK /\ Coherent

LEMMA PartIsPart ==
    \A m \in RefMap :
        /\ IsPart(m, m) /\ IsPart(NoRefs, m)
        /\ \A names : \A x \in RefMap : IsPart(x, m) => IsPart(Only(x, names), m)
        /\ \A x, y \in RefMap : IsPart(x, m) /\ IsPart(y, m) => IsPart(BatchSave(x, y), m)
<1> SUFFICES ASSUME NEW m \in RefMap
             PROVE  /\ IsPart(m, m) /\ IsPart(NoRefs, m)
                    /\ \A names : \A x \in RefMap : IsPart(x, m) => IsPart(Only(x, names), m)
                    /\ \A x, y \in RefMap :
                          IsPart(x, m) /\ IsPart(y, m) => IsPart(BatchSave(x, y), m)
  OBVIOUS
<1>1. IsPart(m, m) /\ IsPart(NoRefs, m)
  BY NoRefsType DEF IsPart
<1>2. ASSUME NEW x \in RefMap, NEW names, IsPart(x, m)
      PROVE  IsPart(Only(x, names), m)
  <2>1. /\ DOMAIN Only(x, names) = DOMAIN x \intersect names
        /\ \A r \in DOMAIN x \intersect names : Only(x, names)[r] = x[r]
    BY DEF Only
  <2> QED
    BY <1>2, <2>1 DEF IsPart
<1>3. ASSUME NEW x \in RefMap, NEW y \in RefMap, IsPart(x, m), IsPart(y, m)
      PROVE  IsPart(BatchSave(x, y), m)
  <2>1. /\ DOMAIN BatchSave(x, y) = DOMAIN x \union DOMAIN y
        /\ \A r \in DOMAIN x \union DOMAIN y :
              BatchSave(x, y)[r] = IF r \in DOMAIN y THEN y[r] ELSE x[r]
    BY BatchSaveType DEF RefMap
  <2> QED
    BY <1>3, <2>1 DEF IsPart
<1> QED
  BY <1>1, <1>2, <1>3

LEMMA PartIsOnly ==
    \A m, x \in RefMap : IsPart(x, m) => x = Only(m, DOMAIN x)
<1> SUFFICES ASSUME NEW m \in RefMap, NEW x \in RefMap, IsPart(x, m)
             PROVE  x = Only(m, DOMAIN x)
  OBVIOUS
<1>1. x = [r \in DOMAIN x |-> x[r]]
  BY RefMapDef DEF RefMap
<1>2. DOMAIN m \intersect DOMAIN x = DOMAIN x
  BY DEF IsPart
<1> QED
  BY <1>1, <1>2 DEF IsPart, Only

LEMMA CoherentParts == CoherentInv => CoherentRefs
<1> SUFFICES ASSUME CoherentInv, NEW n \in Readers \ overlaid
             PROVE  \E m \in published : refs[n] = Only(m, DOMAIN refs[n])
  BY DEF CoherentRefs
<1>1. Saving(n) /\ refs[n] \in RefMap /\ published \subseteq RefMap
  BY SplitTypes DEF CoherentInv, Coherent, ReposTypes, OwnerTypes, Readers
<1> QED
  BY <1>1, PartIsOnly DEF Saving, Part

LEMMA InitCoherent == Init => CoherentInv
<1> SUFFICES ASSUME Init
             PROVE  CoherentInv
  OBVIOUS
<1>1. TypeOK
  BY InitTypes
<1>2. OwnerKeeps
  BY NodeAssumption DEF Init, OwnerKeeps
<1>3. refs[Owner] \in RefMap /\ published = {refs[Owner]}
  BY <1>1, NodeAssumption DEF Init, TypeOK
<1>4. ASSUME NEW n \in Readers
      PROVE  Saving(n)
  <2>1. refs[n] = NoRefs /\ gossip[n] = Idle
    BY DEF Init, Readers
  <2>2. Part(refs[n])
    BY <1>3, <2>1, PartIsPart DEF Part
  <2> QED
    BY <2>1, <2>2, GossipStates DEF Saving
<1>5. Announced
  <2>1. DOMAIN << >> = {}
    OBVIOUS
  <2> QED
    BY <2>1 DEF Init, Announced
<1> QED
  BY <1>1, <1>2, <1>4, <1>5 DEF CoherentInv, Coherent

(* What enters an inbox, or leaves it. *)
LEMMA AnnouncedTaken ==
    ASSUME TypeOK, Announced, NEW n \in Node, NEW p \in Node, TakeAnnouncement(n, p),
           published' = published
    PROVE  Announced' /\ Part(Head(inbox[n][p]))
<1>1. inbox \in [Node -> [Node -> Seq(RefMap)]] /\ inbox[n][p] \in Seq(RefMap)
  BY DEF TypeOK
<1>2. inbox[n][p] # <<>> /\ inbox' = [inbox EXCEPT ![n][p] = Tail(@)]
  BY DEF TakeAnnouncement
<1>3. /\ Head(inbox[n][p]) = inbox[n][p][1] /\ 1 \in DOMAIN inbox[n][p]
      /\ \A i \in DOMAIN Tail(inbox[n][p]) :
            i + 1 \in DOMAIN inbox[n][p] /\ Tail(inbox[n][p])[i] = inbox[n][p][i + 1]
  <2>1. /\ Head(inbox[n][p]) = inbox[n][p][1]
        /\ Len(Tail(inbox[n][p])) = Len(inbox[n][p]) - 1
        /\ \A i \in 1..Len(Tail(inbox[n][p])) : Tail(inbox[n][p])[i] = inbox[n][p][i + 1]
        /\ Tail(inbox[n][p]) \in Seq(RefMap)
    BY <1>1, <1>2, HeadTailProperties
  <2>2. /\ DOMAIN inbox[n][p] = 1..Len(inbox[n][p]) /\ Len(inbox[n][p]) \in Nat
        /\ DOMAIN Tail(inbox[n][p]) = 1..Len(Tail(inbox[n][p]))
    BY <1>1, <2>1, LenProperties
  <2>3. Len(inbox[n][p]) # 0
    BY <1>1, <1>2, EmptySeq
  <2> QED
    BY <2>1, <2>2, <2>3
<1>4. \A m, q \in Node :
         inbox'[m][q] = IF m = n /\ q = p THEN Tail(inbox[n][p]) ELSE inbox[m][q]
  BY <1>1, <1>2
<1>5. \A m, q \in Node : \A i \in DOMAIN inbox'[m][q] : Part(inbox'[m][q][i])
  <2> SUFFICES ASSUME NEW m \in Node, NEW q \in Node, NEW i \in DOMAIN inbox'[m][q]
               PROVE  Part(inbox'[m][q][i])
    OBVIOUS
  <2>1. \E x, y \in Node : \E j \in DOMAIN inbox[x][y] : inbox'[m][q][i] = inbox[x][y][j]
    <3>1. CASE m = n /\ q = p
      <4>1. inbox'[m][q] = Tail(inbox[n][p])
        BY <1>4, <3>1
      <4> QED
        BY <1>3, <4>1
    <3>2. CASE ~(m = n /\ q = p)
      BY <1>4, <3>2
    <3> QED
      BY <3>1, <3>2
  <2> QED
    BY <2>1 DEF Announced
<1> QED
  BY <1>3, <1>5 DEF Announced, Part

LEMMA SavingKept ==
    ASSUME NEW n, Saving(n), published \subseteq published',
           refs'[n] = refs[n], gossip'[n] = gossip[n], row'[n] = row[n],
           n \in overlaid => n \in overlaid'
    PROVE  Saving(n)'
BY DEF Saving, Part, IsPart

LEMMA AnnouncedKept ==
    ASSUME Announced, published \subseteq published', inbox' = inbox
    PROVE  Announced'
BY DEF Announced, Part, IsPart

(* What the handler of node n does to the rest. *)
LEMMA OthersKept ==
    ASSUME CoherentInv, NEW n \in Readers, published' = published,
           \A m \in Node \ {n} :
              /\ refs'[m] = refs[m] /\ gossip'[m] = gossip[m] /\ row'[m] = row[m]
              /\ m \in overlaid => m \in overlaid',
           Announced', Saving(n)'
    PROVE  Coherent'
<1>1. Owner \in Node \ {n} /\ Readers \subseteq Node
  BY NodeAssumption DEF Readers
<1>2. OwnerKeeps'
  BY <1>1 DEF CoherentInv, Coherent, OwnerKeeps
<1>3. ASSUME NEW m \in Readers
      PROVE  Saving(m)'
  <2>1. CASE m = n
    BY <2>1
  <2>2. CASE m # n
    BY <1>1, <2>2, SavingKept DEF CoherentInv, Coherent
  <2> QED
    BY <2>1, <2>2
<1> QED
  BY <1>2, <1>3 DEF Coherent

(* A busy handler is a reader's, and knows what it saves. *)
LEMMA Busy ==
    ASSUME CoherentInv, NEW n \in Node, gossip[n].at # "idle"
    PROVE  /\ n \in Readers /\ Saving(n) /\ Announced
           /\ gossip \in [Node -> GossipState]
           /\ gossip[n] \in [at : {"insert", "remove", "delete", "save", "clear"},
                             new : RefMap, had : BOOLEAN]
           /\ gossip[n].new \in RefMap
           /\ row[n] # "none"
<1>1. gossip \in [Node -> GossipState] /\ gossip[Owner] = Idle
  BY SplitTypes DEF CoherentInv, Coherent, OwnerKeeps, NodeTypes
<1>2. n \in Readers
  BY <1>1, GossipStates DEF Readers
<1>3. Saving(n) /\ Announced
  BY <1>2 DEF CoherentInv, Coherent
<1> QED
  BY <1>1, <1>2, <1>3, GossipStates DEF Saving

(* A handler goes on with its next step, having left the table as it was or  *)
(* emptied it.                                                               *)
LEMMA ProceedCoherent ==
    ASSUME CoherentInv, NEW n \in Node,
           NEW from \in {"remove", "delete", "insert", "save", "clear"},
           NEW to \in {"idle", "delete", "save", "clear"}, Proceed(n, from, to),
           \A m \in Node \ {n} : refs'[m] = refs[m] /\ (m \in overlaid => m \in overlaid'),
           n \notin overlaid' =>
              \/ refs'[n] = NoRefs
              \/ refs'[n] = refs[n] /\ n \notin overlaid /\ to # "save"
    PROVE  Coherent'
<1>1. gossip[n].at = from /\ gossip[n].at # "idle"
  BY DEF Proceed
<1>2. /\ n \in Readers /\ Saving(n) /\ Announced /\ row[n] # "none"
      /\ gossip \in [Node -> GossipState]
      /\ gossip[n] \in [at : {"insert", "remove", "delete", "save", "clear"},
                        new : RefMap, had : BOOLEAN]
  BY <1>1, Busy
<1>3. /\ UNCHANGED <<published, row, inbox>>
      /\ gossip'[n] = IF to = "idle" THEN Idle ELSE [gossip[n] EXCEPT !.at = to]
      /\ \A m \in Node \ {n} : gossip'[m] = gossip[m]
  BY <1>2 DEF Proceed
<1>4. gossip'[n].at = to /\ (to # "idle" => gossip'[n].new = gossip[n].new)
  BY <1>2, <1>3, GossipStates
<1>5. PICK m \in published : IsPart(gossip[n].new, m) /\ IsPart(NoRefs, m)
  BY <1>1, <1>2, NoRefsType DEF Saving, Part, IsPart
<1>6. n \notin overlaid' =>
         /\ Part(refs'[n])
         /\ to = "save" => \E x \in published : IsPart(gossip[n].new, x) /\ IsPart(refs'[n], x)
  BY <1>2, <1>5 DEF Saving, Part
<1>7. Saving(n)'
  <2>1. to # "idle" => Part(gossip[n].new)'
    BY <1>1, <1>2, <1>3, <1>4 DEF Saving, Part, IsPart
  <2>2. n \notin overlaid' =>
           /\ Part(refs[n])'
           /\ to = "save" =>
                \E x \in published' : IsPart(gossip'[n].new, x) /\ IsPart(refs'[n], x)
    BY <1>3, <1>4, <1>6 DEF Part, IsPart
  <2> QED
    BY <1>2, <1>3, <1>4, <2>1, <2>2 DEF Saving, Part, IsPart
<1> QED
  BY <1>2, <1>3, <1>7, AnnouncedKept, OthersKept

LEMMA GossipCoherent ==
    ASSUME CoherentInv, NEW n \in Node, GossipStep(n)
    PROVE  Coherent'
<1>1. /\ TypeOK /\ row[Owner] = "local" /\ gossip[Owner] = Idle
      /\ refs \in [Node -> RefMap] /\ gossip \in [Node -> GossipState]
      /\ row \in [Node -> {"none", "local", "external"}]
      /\ published \subseteq RefMap /\ Announced
  BY SplitTypes DEF CoherentInv, Coherent, OwnerKeeps, ReposTypes, NodeTypes, OwnerTypes
<1>2. \A m \in RefMap :
         /\ IsPart(m, m) /\ IsPart(NoRefs, m)
         /\ \A names : \A x \in RefMap : IsPart(x, m) => IsPart(Only(x, names), m)
         /\ \A x, y \in RefMap : IsPart(x, m) /\ IsPart(y, m) => IsPart(BatchSave(x, y), m)
  BY PartIsPart
<1>3. n \in Readers => Saving(n)
  BY DEF CoherentInv, Coherent
<1>4. Idle.at = "idle"
  BY GossipStates
<1>5. ASSUME NEW p \in Node, LearnRepo(n, p)
      PROVE  Coherent'
  <2>1. n \in Readers
    BY <1>1, <1>5 DEF LearnRepo, Readers
  <2>2. /\ UNCHANGED <<published, overlaid, refs>> /\ TakeAnnouncement(n, p)
        /\ row' = [row EXCEPT ![n] = "external"] /\ row[n] = "none"
        /\ gossip' = [gossip EXCEPT ![n] = Updating("insert", Head(inbox[n][p]), FALSE)]
    BY <1>5 DEF LearnRepo, envVars
  <2>3. /\ gossip'[n].at = "insert" /\ gossip'[n].new = Head(inbox[n][p])
        /\ row'[n] = "external" /\ refs'[n] = refs[n]
    BY <1>1, <2>2 DEF Updating
  <2>4. Announced' /\ Part(Head(inbox[n][p]))
    BY <1>1, <2>2, AnnouncedTaken
  <2>5. n \notin overlaid => refs[n] = NoRefs
    BY <1>3, <2>1, <2>2 DEF Saving
  <2>6. PICK m \in published : IsPart(Head(inbox[n][p]), m) /\ IsPart(NoRefs, m)
    BY <1>1, <1>2, <2>4 DEF Part
  <2>7. Saving(n)'
    BY <2>2, <2>3, <2>5, <2>6 DEF Saving, Part, IsPart
  <2> QED
    BY <1>1, <2>1, <2>2, <2>4, <2>7, OthersKept
<1>6. ASSUME NEW p \in Node, SkipAnnouncement(n, p)
      PROVE  Coherent'
  <2>1. UNCHANGED <<published, overlaid, refs, gossip, row>> /\ TakeAnnouncement(n, p)
    BY <1>6 DEF SkipAnnouncement, envVars, reposVars
  <2>2. Announced'
    BY <1>1, <2>1, AnnouncedTaken
  <2>3. \A m : Saving(m) => Saving(m)'
    BY <2>1 DEF Saving, Part, IsPart
  <2> QED
    BY <2>1, <2>2, <2>3 DEF Coherent, CoherentInv, OwnerKeeps
<1>7. ASSUME NEW p \in Node, BeginUpdate(n, p)
      PROVE  Coherent'
  <2>1. n \in Readers
    BY <1>1, <1>7 DEF BeginUpdate, Readers
  <2>2. /\ UNCHANGED <<published, overlaid, refs, row>> /\ TakeAnnouncement(n, p)
        /\ row[n] = "external"
        /\ gossip' = [gossip EXCEPT ![n] = Updating("remove", Head(inbox[n][p]), recorded[n])]
    BY <1>7 DEF BeginUpdate, envVars, reposVars
  <2>3. gossip'[n].at = "remove" /\ gossip'[n].new = Head(inbox[n][p])
    BY <1>1, <2>2 DEF Updating
  <2>4. Announced' /\ Part(Head(inbox[n][p]))
    BY <1>1, <2>2, AnnouncedTaken
  <2>5. Saving(n)'
    BY <1>3, <2>1, <2>2, <2>3, <2>4 DEF Saving, Part, IsPart
  <2> QED
    BY <1>1, <2>1, <2>2, <2>4, <2>5, OthersKept
<1>8. ASSUME NEW r \in Ref, SaveRef(n, r)
      PROVE  Coherent'
  <2>1. /\ n \in Readers /\ gossip[n].new \in RefMap /\ row[n] # "none"
        /\ gossip[n] \in [at : {"insert", "remove", "delete", "save", "clear"},
                          new : RefMap, had : BOOLEAN]
    BY <1>8, Busy DEF SaveRef
  <2>2. /\ UNCHANGED <<published, overlaid, row, inbox>>
        /\ gossip[n].at \in {"insert", "save"}
        /\ refs' = [refs EXCEPT ![n] = BatchSave(@, Only(gossip[n].new, {r}))]
        /\ gossip' = [gossip EXCEPT ![n].new = Only(@, Ref \ {r})]
    BY <1>8 DEF SaveRef, envVars
  <2>3. /\ gossip'[n].at = gossip[n].at /\ gossip'[n].new = Only(gossip[n].new, Ref \ {r})
        /\ refs'[n] = BatchSave(refs[n], Only(gossip[n].new, {r}))
        /\ \A m \in Node \ {n} : refs'[m] = refs[m] /\ gossip'[m] = gossip[m]
    BY <1>1, <2>1, <2>2
  <2>4. Part(Only(gossip[n].new, Ref \ {r}))
    BY <1>1, <1>2, <1>3, <2>1, <2>2 DEF Saving, Part
  <2>5. ASSUME n \notin overlaid
        PROVE  \E m \in published : /\ IsPart(Only(gossip[n].new, Ref \ {r}), m)
                                    /\ IsPart(BatchSave(refs[n], Only(gossip[n].new, {r})), m)
    <3>1. PICK m \in published : IsPart(gossip[n].new, m) /\ IsPart(refs[n], m)
      BY <1>3, <2>1, <2>2, <2>5 DEF Saving
    <3>2. m \in RefMap /\ Only(gossip[n].new, {r}) \in RefMap /\ refs[n] \in RefMap
      BY <1>1, <2>1, <3>1, RefMapOps
    <3> QED
      BY <1>2, <2>1, <3>1, <3>2
  <2>6. Saving(n)'
    <3>1. PICK m \in published : IsPart(Only(gossip[n].new, Ref \ {r}), m)
      BY <2>4 DEF Part
    <3>2. n \notin overlaid' =>
             \E x \in published' : IsPart(gossip'[n].new, x) /\ IsPart(refs'[n], x)
      BY <2>2, <2>3, <2>5
    <3>3. m \in published' /\ IsPart(gossip'[n].new, m)
      BY <2>2, <2>3, <3>1
    <3>4. Part(gossip[n].new)'
      BY ONLY <3>3 DEF Part, IsPart
    <3> QED
      BY <2>1, <2>2, <2>3, <3>2, <3>4 DEF Saving, Part, IsPart
  <2>7. Announced'
    BY <1>1, <2>2, AnnouncedKept
  <2> QED
    BY <2>1, <2>2, <2>3, <2>6, <2>7, OthersKept
<1>9. CASE RemoveFile(n)
  <2>1. Proceed(n, "remove", "delete") /\ refs' = refs /\ overlaid' = overlaid
    BY <1>9 DEF RemoveFile
  <2> QED
    BY <2>1, ProceedCoherent
<1>10. CASE DeleteRefs(n)
  <2>1. /\ Proceed(n, "delete", "save")
        /\ refs' = [refs EXCEPT ![n] = NoRefs] /\ overlaid' = overlaid \ {n}
    BY <1>10 DEF DeleteRefs
  <2>2. refs'[n] = NoRefs /\ \A m \in Node \ {n} : refs'[m] = refs[m]
    BY <1>1, <2>1
  <2> QED
    BY <2>1, <2>2, ProceedCoherent
<1>11. CASE RefsSaved(n)
  <2>1. PICK from \in {"insert", "save"}, to \in {"clear", "idle"} :
          Proceed(n, from, to) /\ refs' = refs /\ overlaid' = overlaid
    BY <1>11 DEF RefsSaved
  <2> QED
    BY <2>1, ProceedCoherent
<1>12. CASE ClearBundle(n)
  <2>1. Proceed(n, "clear", "idle") /\ refs' = refs /\ overlaid' = overlaid
    BY <1>12 DEF ClearBundle
  <2> QED
    BY <2>1, ProceedCoherent
<1> QED
  BY <1>5, <1>6, <1>7, <1>8, <1>9, <1>10, <1>11, <1>12 DEF GossipStep

(* A step that fails leaves the table under what is saved next. *)
LEMMA StepFailsCoherent ==
    ASSUME CoherentInv, NEW n \in Node, StepFails(n)
    PROVE  Coherent'
<1>1. PICK from \in {"remove", "delete", "insert", "save", "clear"},
           to \in {"idle", "delete", "save", "clear"} :
        /\ Proceed(n, from, to) /\ (to = "save" <=> from = "delete")
        /\ overlaid' = IF from = "delete" THEN overlaid \union {n} ELSE overlaid
  BY DEF StepFails
<1>2. refs' = refs
  BY DEF StepFails
<1> QED
  BY <1>1, <1>2, ProceedCoherent

(* Where a handler's state and the tables stay, so do the parts. *)
LEMMA QuietCoherent ==
    ASSUME CoherentInv, UNCHANGED <<row, gossip, refs, inbox, published, overlaid>>
    PROVE  Coherent'
<1>1. Announced => Announced'
  BY AnnouncedKept
<1>2. \A n : Saving(n) => Saving(n)'
  BY SavingKept
<1> QED
  BY <1>1, <1>2 DEF CoherentInv, Coherent, OwnerKeeps

LEMMA OwnerCoherent ==
    ASSUME CoherentInv, (\E r \in Edited : MakeCommit(r) \/ DeleteRef(r)) \/ CheckRefs
    PROVE  Coherent'
<1>1. CASE \E r \in Edited : MakeCommit(r)
  BY <1>1, QuietCoherent DEF MakeCommit, reposVars
<1>2. CASE \E r \in Edited : DeleteRef(r)
  BY <1>2, QuietCoherent DEF DeleteRef, reposVars
<1>3. CASE CheckRefs
  <2>1. /\ refs' = [refs EXCEPT ![Owner] = BatchSave(@, ReadRepoRefs(git))]
        /\ published' = published \union {refs'[Owner]}
        /\ UNCHANGED <<row, gossip, inbox, overlaid>>
    BY <1>3 DEF CheckRefs
  <2>2. refs \in [Node -> RefMap]
    BY DEF CoherentInv, Coherent, TypeOK
  <2>3. \A n \in Readers : refs'[n] = refs[n]
    BY <2>1, <2>2 DEF Readers
  <2>4. \A n \in Readers : Saving(n) => Saving(n)'
    BY <2>1, <2>3, SavingKept
  <2>5. Announced => Announced'
    BY <2>1, AnnouncedKept
  <2>6. OwnerKeeps'
    BY <2>1 DEF CoherentInv, Coherent, OwnerKeeps
  <2> QED
    BY <2>1, <2>4, <2>5, <2>6 DEF CoherentInv, Coherent
<1> QED
  BY <1>1, <1>2, <1>3

LEMMA AnnounceCoherent ==
    ASSUME CoherentInv, NEW n \in Node, Announce(n)
    PROVE  Coherent'
<1>1. /\ inbox \in [Node -> [Node -> Seq(RefMap)]] /\ refs \in [Node -> RefMap]
      /\ gossip \in [Node -> GossipState] /\ published \subseteq RefMap
  BY SplitTypes DEF CoherentInv, Coherent, NodeTypes, ReposTypes, OwnerTypes
<1>2. /\ UNCHANGED <<row, gossip, refs, overlaid>> /\ row[n] # "none"
      /\ published' = IF n \in overlaid THEN published \union {refs[n]} ELSE published
      /\ inbox' = [p \in Node |->
                     IF n \in left.hears[p] \ {p} /\ Len(inbox[p][n]) < MaxQueue
                     THEN [inbox[p] EXCEPT ![n] = Append(@, refs[n])]
                     ELSE inbox[p]]
  BY DEF Announce, reposVars
<1>3. \A m : Saving(m) => Saving(m)'
  BY <1>2, SavingKept
<1>4. OwnerKeeps'
  BY <1>2 DEF CoherentInv, Coherent, OwnerKeeps
<1>5. Announced'
  <2>1. \E m \in published' : IsPart(refs[n], m)
    <3>1. refs[n] \in RefMap /\ IsPart(refs[n], refs[n])
      BY <1>1, PartIsPart
    <3>2. CASE n = Owner
      BY <1>2, <3>1, <3>2 DEF CoherentInv, Coherent, OwnerKeeps
    <3>3. CASE n # Owner
      BY <1>2, <3>1, <3>3 DEF CoherentInv, Coherent, Readers, Saving, Part
    <3> QED
      BY <3>2, <3>3
  <2>2. Announced
    BY DEF CoherentInv, Coherent
  <2>3. ASSUME NEW p \in Node, NEW q \in Node, NEW i \in DOMAIN inbox'[p][q]
        PROVE  \E m \in published' : IsPart(inbox'[p][q][i], m)
    <3>1. \/ inbox'[p][q] = inbox[p][q]
          \/ q = n /\ inbox'[p][q] = Append(inbox[p][n], refs[n])
      BY <1>1, <1>2
    <3>2. CASE inbox'[p][q] = inbox[p][q]
      BY <1>2, <2>2, <3>2 DEF Announced, Part
    <3>3. CASE q = n /\ inbox'[p][q] = Append(inbox[p][n], refs[n])
      <4>1. /\ DOMAIN inbox[p][n] = 1..Len(inbox[p][n]) /\ Len(inbox[p][n]) \in Nat
            /\ DOMAIN Append(inbox[p][n], refs[n]) = 1..(Len(inbox[p][n]) + 1)
            /\ \A j \in 1..Len(inbox[p][n]) :
                  Append(inbox[p][n], refs[n])[j] = inbox[p][n][j]
            /\ Append(inbox[p][n], refs[n])[Len(inbox[p][n]) + 1] = refs[n]
        BY <1>1, AppendProperties, LenProperties
      <4>2. \/ i \in DOMAIN inbox[p][n] /\ inbox'[p][q][i] = inbox[p][n][i]
            \/ inbox'[p][q][i] = refs[n]
        BY <3>3, <4>1
      <4> QED
        BY <1>2, <2>1, <2>2, <4>2 DEF Announced, Part
    <3> QED
      BY <3>1, <3>2, <3>3
  <2> QED
    BY <2>3 DEF Announced, Part
<1> QED
  BY <1>2, <1>3, <1>4, <1>5 DEF CoherentInv, Coherent

LEMMA ReaderCoherent ==
    ASSUME CoherentInv, NEW n \in Readers,
           RequestBundle(n) \/ ServeRequest(n) \/ DataStep(n) \/ StartClone(n) \/ CloneStep(n)
    PROVE  Coherent'
<1>1. CASE RequestBundle(n) \/ ServeRequest(n) \/ DataStep(n) \/ StartClone(n)
  BY <1>1, QuietCoherent
     DEF RequestBundle, ServeRequest, DataStep, HandleStart, HandleHead, HandleRest,
         LookForFile, Receive, RecordBundle, StartClone, envVars, reposVars
<1>2. CASE RestoreClone(n)
  BY <1>2, QuietCoherent DEF RestoreClone, envVars, reposVars
<1>3. CASE SaveCloneRefs(n) \/ SaveCloneRow(n)
  <2>1. /\ UNCHANGED <<row, gossip, inbox, published>> /\ overlaid' = overlaid \union {n}
        /\ \E saved : refs' = [refs EXCEPT ![n] = saved]
    BY <1>3 DEF SaveCloneRefs, SaveCloneRow
  <2>2. Announced /\ Saving(n) /\ refs \in [Node -> RefMap]
    BY DEF CoherentInv, Coherent, TypeOK
  <2>3. \A m \in Node \ {n} : refs'[m] = refs[m]
    BY <2>1, <2>2
  <2>4. Saving(n)'
    BY <2>1, <2>2 DEF Saving, Part, IsPart
  <2> QED
    BY <2>1, <2>2, <2>3, <2>4, AnnouncedKept, OthersKept
<1> QED
  BY <1>1, <1>2, <1>3 DEF CloneStep

(* So do the failures that are not the gossip handler's. *)
LEMMA FailureCoherent ==
    ASSUME CoherentInv,
           \/ \E n \in Readers : LoseFrame(n) \/ RecordFails(n)
           \/ \E n, p \in Node : AnnouncementFails(n, p)
    PROVE  Coherent'
<1>1. ASSUME NEW n \in Readers, LoseFrame(n) \/ RecordFails(n)
      PROVE  Coherent'
  BY <1>1, QuietCoherent DEF LoseFrame, RecordFails, Receive, reposVars
<1>2. ASSUME NEW n \in Node, NEW p \in Node, AnnouncementFails(n, p)
      PROVE  Coherent'
  <2>1. UNCHANGED <<published, overlaid, refs, gossip, row>> /\ TakeAnnouncement(n, p)
    BY <1>2 DEF AnnouncementFails, reposVars
  <2>2. Announced'
    BY <2>1, AnnouncedTaken DEF CoherentInv, Coherent
  <2>3. \A m : Saving(m) => Saving(m)'
    BY <2>1 DEF Saving, Part, IsPart
  <2> QED
    BY <2>1, <2>2, <2>3 DEF Coherent, CoherentInv, OwnerKeeps
<1> QED
  BY <1>1, <1>2

LEMMA CrashCoherent ==
    ASSUME CoherentInv, NEW n \in Node, Crash(n)
    PROVE  Coherent'
<1>1. /\ inbox \in [Node -> [Node -> Seq(RefMap)]] /\ gossip \in [Node -> GossipState]
      /\ published \subseteq RefMap
  BY SplitTypes DEF CoherentInv, Coherent, NodeTypes, OwnerTypes
<1>2. /\ UNCHANGED <<row, refs, published, overlaid>>
      /\ inbox' = [inbox EXCEPT ![n] = [p \in Node |-> <<>>]]
      /\ gossip' = [gossip EXCEPT ![n] = Idle]
  BY <1>1 DEF Crash, reposVars
<1>3. OwnerKeeps'
  BY <1>1, <1>2 DEF CoherentInv, Coherent, OwnerKeeps
<1>4. Announced' /\ \A m \in Readers : Saving(m)'
  <2>1. Announced'
    <3>1. DOMAIN << >> = {}
      OBVIOUS
    <3>2. \A p, q \in Node : inbox'[p][q] \in {inbox[p][q], << >>}
      BY <1>1, <1>2
    <3> QED
      BY <1>2, <3>1, <3>2 DEF CoherentInv, Coherent, Announced, Part
  <2>2. ASSUME NEW m \in Readers
        PROVE  Saving(m)'
    <3>1. Saving(m) /\ m \in Node
      BY DEF CoherentInv, Coherent, Readers
    <3>4. CASE m = n
      <4>1. gossip'[m] = Idle
        BY <1>1, <1>2, <3>1, <3>4
      <4> QED
        BY <1>2, <3>1, <4>1, GossipStates DEF Saving, Part, IsPart
    <3>5. CASE m # n
      BY <1>1, <1>2, <3>1, <3>5, SavingKept
    <3> QED
      BY <3>4, <3>5
  <2> QED
    BY <2>1, <2>2
<1> QED
  BY <1>2, <1>3, <1>4 DEF CoherentInv, Coherent

LEMMA NextCoherent == CoherentInv /\ [Next]_vars => CoherentInv'
<1> SUFFICES ASSUME CoherentInv, [Next]_vars
             PROVE  CoherentInv'
  OBVIOUS
<1>1. TypeOK'
  BY NextTypes DEF CoherentInv, Coherent
<1>2. Coherent'
  <2>1. CASE UNCHANGED vars
    BY <2>1, QuietCoherent DEF vars
  <2>2. CASE Next
    BY <2>2, OwnerCoherent, AnnounceCoherent, GossipCoherent, ReaderCoherent, CrashCoherent,
       StepFailsCoherent, FailureCoherent DEF Next
  <2> QED
    BY <2>1, <2>2
<1> QED
  BY <1>1, <1>2 DEF Coherent, CoherentInv

(* Announcements are relayed, outdated, saved ref by ref, interrupted by     *)
(* crashes and by statements that fail, and the owner goes on committing and *)
(* deleting: unless a delete failed on it, or a clone saved over it, since   *)
(* it was last emptied, a reader's refs table is a part of one value that    *)
(* the owner's table had or that a table so overlaid announced, for any      *)
(* number of nodes, relays, refs, commits and failures.                      *)
THEOREM RefsStayCoherent == Spec => []CoherentRefs
BY InitCoherent, NextCoherent, CoherentParts, PTL DEF Spec

-----------------------------------------------------------------------------
(* The owner's table follows its git repository. *)

(* Commits are made in order, and the table is behind what git holds.       *)
Follows ==
    /\ \A r \in DOMAIN git : git[r] <= commits
    /\ \A r \in DOMAIN refs[Owner] : refs[Owner][r] <= commits
    /\ \A r \in DOMAIN refs[Owner] \intersect DOMAIN git : refs[Owner][r] <= git[r]

(* All but the owner's own work leaves it alone. *)
LEMMA OwnerLeftAlone ==
    ASSUME CoherentInv, Next, ~(\E r \in Edited : MakeCommit(r) \/ DeleteRef(r)), ~CheckRefs
    PROVE  git' = git /\ commits' = commits /\ refs'[Owner] = refs[Owner]
<1> USE DEF envVars, reposVars
<1>1. /\ refs \in [Node -> RefMap] /\ row[Owner] = "local" /\ gossip[Owner] = Idle
  BY DEF CoherentInv, Coherent, OwnerKeeps, TypeOK
<1>2. ASSUME NEW n \in Node, GossipStep(n)
      PROVE  git' = git /\ commits' = commits /\ refs'[Owner] = refs[Owner]
  <2>1. ASSUME NEW p \in Node, LearnRepo(n, p) \/ SkipAnnouncement(n, p) \/ BeginUpdate(n, p)
        PROVE  git' = git /\ commits' = commits /\ refs' = refs
    BY <2>1 DEF LearnRepo, SkipAnnouncement, BeginUpdate
  <2>2. CASE RemoveFile(n) \/ RefsSaved(n) \/ ClearBundle(n)
    BY <2>2 DEF RemoveFile, RefsSaved, ClearBundle, Proceed
  <2>3. CASE DeleteRefs(n)
    <3>1. n # Owner
      BY <1>1, <2>3 DEF DeleteRefs, Proceed, Idle
    <3> QED
      BY <1>1, <2>3, <3>1 DEF DeleteRefs, Proceed
  <2>4. ASSUME NEW r \in Ref, SaveRef(n, r)
        PROVE  git' = git /\ commits' = commits /\ refs'[Owner] = refs[Owner]
    <3>1. n # Owner
      BY <1>1, <2>4 DEF SaveRef, Idle
    <3> QED
      BY <1>1, <2>4, <3>1 DEF SaveRef
  <2> QED
    BY <1>2, <2>1, <2>2, <2>3, <2>4 DEF GossipStep
<1>3. ASSUME NEW n \in Node, Announce(n) \/ Crash(n)
      PROVE  git' = git /\ commits' = commits /\ refs' = refs
  BY <1>3 DEF Announce, Crash
<1>4. ASSUME NEW n \in Readers,
             \/ RequestBundle(n) \/ ServeRequest(n) \/ DataStep(n) \/ StartClone(n)
             \/ LoseFrame(n) \/ RecordFails(n)
      PROVE  git' = git /\ commits' = commits /\ refs' = refs
  BY <1>4 DEF RequestBundle, ServeRequest, DataStep, HandleStart, HandleHead, HandleRest,
              LookForFile, Receive, RecordBundle, StartClone, LoseFrame, RecordFails
<1>6. ASSUME NEW n \in Node,
             StepFails(n) \/ (\E p \in Node : AnnouncementFails(n, p))
      PROVE  git' = git /\ commits' = commits /\ refs' = refs
  BY <1>6 DEF StepFails, Proceed, AnnouncementFails
<1>5. ASSUME NEW n \in Readers, CloneStep(n)
      PROVE  git' = git /\ commits' = commits /\ refs'[Owner] = refs[Owner]
  <2>1. n # Owner
    BY DEF Readers
  <2>2. CASE RestoreClone(n)
    BY <2>2 DEF RestoreClone
  <2>3. CASE SaveCloneRefs(n) \/ SaveCloneRow(n)
    <3>1. \E saved : refs' = [refs EXCEPT ![n] = saved]
      BY <2>3 DEF SaveCloneRefs, SaveCloneRow
    <3>2. git' = git /\ commits' = commits
      BY <2>3 DEF SaveCloneRefs, SaveCloneRow
    <3> QED
      BY <1>1, <2>1, <3>1, <3>2
  <2> QED
    BY <1>5, <2>2, <2>3 DEF CloneStep
<1> QED
  BY <1>2, <1>3, <1>4, <1>5, <1>6 DEF Next

(* What each step does to the owner's table, and that it follows still. *)
LEMMA OwnerFollows ==
    ASSUME CoherentInv, Follows, [Next]_vars
    PROVE  /\ Follows'
           /\ \A r \in DOMAIN refs[Owner] :
                 r \in DOMAIN refs'[Owner] /\ refs[Owner][r] <= refs'[Owner][r]
<1>1. /\ refs \in [Node -> RefMap] /\ git \in RefMap /\ commits \in Commit /\ Owner \in Node
  BY NodeAssumption DEF CoherentInv, TypeOK
<1>2. PICK table \in RefMap : table = refs[Owner]
  BY <1>1
<1>3. /\ commits \in Nat
      /\ \A r \in DOMAIN table : table[r] \in Nat
      /\ \A r \in DOMAIN git : git[r] \in Nat
  <2>1. Commit \subseteq Nat
    BY Bounds DEF Commit
  <2>2. \A r \in DOMAIN table : table[r] \in Commit
    BY RefMapDef DEF RefMap
  <2>3. \A r \in DOMAIN git : git[r] \in Commit
    BY <1>1, RefMapDef DEF RefMap
  <2> QED
    BY <1>1, <2>1, <2>2, <2>3
<1>4. ASSUME NEW r \in Edited, MakeCommit(r)
      PROVE  Follows' /\ refs' = refs
  <2>1. PICK next \in Nat : next = commits + 1 /\ commits' = next
    BY <1>3, <1>4 DEF MakeCommit
  <2>2. /\ DOMAIN git' = DOMAIN git \union {r}
        /\ \A x \in DOMAIN git' : git'[x] = IF x = r THEN next ELSE git[x]
    BY <1>4, <2>1 DEF MakeCommit, BatchSave
  <2>3. refs' = refs
    BY <1>4 DEF MakeCommit, reposVars
  <2> QED
    BY <1>2, <1>3, <2>1, <2>2, <2>3 DEF Follows
<1>5. ASSUME NEW r \in Edited, DeleteRef(r)
      PROVE  Follows' /\ refs' = refs
  <2>1. /\ DOMAIN git' \subseteq DOMAIN git
        /\ \A x \in DOMAIN git' : git'[x] = git[x]
    BY <1>5 DEF DeleteRef, Only
  <2>2. refs' = refs /\ commits' = commits
    BY <1>5 DEF DeleteRef, reposVars
  <2> QED
    BY <2>1, <2>2 DEF Follows
<1>6. CASE CheckRefs
  <2>1. PICK current \in RefMap : current = ReadRepoRefs(git)
    BY <1>1, RefMapOps
  <2>2. DOMAIN current \subseteq DOMAIN git /\ \A r \in DOMAIN current : current[r] = git[r]
    BY <2>1 DEF ReadRepoRefs, Only
  <2>3. /\ DOMAIN refs'[Owner] = DOMAIN table \union DOMAIN current
        /\ \A r \in DOMAIN refs'[Owner] :
              refs'[Owner][r] = IF r \in DOMAIN current THEN current[r] ELSE table[r]
    <3>1. refs'[Owner] = BatchSave(table, current)
      BY <1>1, <1>2, <1>6, <2>1 DEF CheckRefs
    <3> QED
      BY <3>1 DEF BatchSave
  <2>4. git' = git /\ commits' = commits
    BY <1>6 DEF CheckRefs
  <2>5. Follows'
    BY <1>2, <1>3, <2>2, <2>3, <2>4 DEF Follows
  <2>6. \A r \in DOMAIN table : r \in DOMAIN refs'[Owner] /\ table[r] <= refs'[Owner][r]
    BY <1>2, <1>3, <2>2, <2>3 DEF Follows
  <2> QED
    BY <1>2, <2>5, <2>6
<1>7. CASE UNCHANGED <<git, commits, refs>> \/
           (git' = git /\ commits' = commits /\ refs'[Owner] = refs[Owner])
  BY <1>2, <1>3, <1>7 DEF Follows
<1>8. CASE UNCHANGED vars
  BY <1>7, <1>8 DEF vars
<1>9. \A r \in DOMAIN refs[Owner] : refs[Owner][r] <= refs[Owner][r]
  BY <1>2, <1>3
<1> QED
  BY <1>4, <1>5, <1>6, <1>7, <1>8, <1>9, OwnerLeftAlone

(* However long announcements circulate, over however many relays, what the  *)
(* owner tells of its own repository is never an older version than it told  *)
(* before: its table keeps every ref and moves it forward only.              *)
THEOREM OwnerMovesForward == Spec => OwnerNeverSetBack
<1>1. Init => Follows
  <2> SUFFICES ASSUME Init PROVE Follows
    OBVIOUS
  <2>1. /\ git \in RefMaps({1}) /\ commits = 1 /\ refs[Owner] = Only(git, Heads \union Tags)
    BY FirstCommitAssumption, NodeAssumption DEF Init, ReadRepoRefs
  <2>2. \A r \in DOMAIN git : git[r] = 1
    BY <2>1, RefMapDef
  <2>3. /\ DOMAIN refs[Owner] \subseteq DOMAIN git
        /\ \A r \in DOMAIN refs[Owner] : refs[Owner][r] = git[r]
    BY <2>1 DEF Only
  <2> QED
    BY <2>1, <2>2, <2>3 DEF Follows
<1>2. CoherentInv /\ Follows /\ [Next]_vars =>
        /\ Follows'
        /\ [\A r \in DOMAIN refs[Owner] :
               r \in DOMAIN refs'[Owner] /\ refs[Owner][r] <= refs'[Owner][r]]_vars
  BY OwnerFollows
<1> QED
  BY <1>1, <1>2, InitCoherent, NextCoherent, PTL DEF Spec, OwnerNeverSetBack

=============================================================================
