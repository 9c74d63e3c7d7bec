-------------------------- MODULE NodeStartProofs ---------------------------
(***************************************************************************)
(* Proofs about modules Database and NodeStart, for any files and tables   *)
(* that a node may start on, and any number of processes, repositories,    *)
(* stops and lost files.                                                   *)
(***************************************************************************)
EXTENDS NodeStart, DatabaseProofs

(* Files are missing, torn or whole. *)
LEMMA FileStates ==
    /\ None # Torn /\ \A n : Pair(n) # None /\ Pair(n) # Torn
    /\ None.is # "whole" /\ Torn.is # "whole" /\ \A n : Pair(n).is = "whole"
<1>1. None.is = "none" /\ Torn.is = "torn" /\ \A n : Pair(n).is = "whole"
  BY DEF None, Torn, Pair
<1> QED
  BY <1>1

(* What is left to write of a pair of files. *)
LEMMA PairWrites ==
    \A f, g \in File :
        /\ <<f, g>> \in Seq(File) /\ <<g>> \in Seq(File) /\ <<>> \in Seq(File)
        /\ Head(<<f, g>>) = f /\ Tail(<<f, g>>) = <<g>>
        /\ Head(<<g>>) = g /\ Tail(<<g>>) = <<>>
        /\ <<f, g>> # <<>> /\ <<g>> # <<>> /\ \A h \in File : <<f, g>> # <<h>>
<1> SUFFICES ASSUME NEW f \in File, NEW g \in File
             PROVE  /\ <<f, g>> \in Seq(File) /\ <<g>> \in Seq(File) /\ <<>> \in Seq(File)
                    /\ Head(<<f, g>>) = f /\ Tail(<<f, g>>) = <<g>>
                    /\ Head(<<g>>) = g /\ Tail(<<g>>) = <<>>
                    /\ <<f, g>> # <<>> /\ <<g>> # <<>> /\ \A h \in File : <<f, g>> # <<h>>
  OBVIOUS
<1>1. <<f, g>> \in Seq(File) /\ <<g>> \in Seq(File) /\ <<>> \in Seq(File)
  OBVIOUS
<1>2. Len(<<f, g>>) = 2 /\ Len(<<g>>) = 1 /\ \A h \in File : Len(<<h>>) = 1
  OBVIOUS
<1>3. Head(<<f, g>>) = f /\ Tail(<<f, g>>) = <<g>>
  OBVIOUS
<1>4. Head(<<g>>) = g /\ Tail(<<g>>) = <<>>
  OBVIOUS
<1> QED
  BY <1>1, <1>2, <1>3, <1>4

-----------------------------------------------------------------------------
(* The invariant of the files. *)

FileTypes ==
    /\ files \in [File -> {None, Torn} \union {Pair(n) : n \in 0..made}]
    /\ made \in Nat
    /\ boot \in Boot
    /\ remake \in BOOLEAN /\ half \in BOOLEAN /\ auth \in BOOLEAN
    /\ writes \in Seq(File)
    /\ losses \in 0..MaxLoss

(* A start writes the CA's files before it goes on to the server's, and     *)
(* these before it loads them.                                              *)
WritesInOrder ==
    /\ half => writes # <<>>
    /\ boot \notin {"server", "load"} => writes = <<>>
    /\ boot = "server" => writes \in {<<>>, <<"ca_key">>, <<"ca_cert", "ca_key">>}
    /\ boot = "load" => writes \in {<<>>, <<"key">>, <<"cert", "key">>}

(* What the CA's files are when the server's are seen to. *)
CaThere ==
    boot = "server" =>
        /\ writes # <<"ca_cert", "ca_key">> => Exists("ca_cert")
        /\ writes = <<>> => Exists("ca_key")

(* What has become of the server's files: those that will do are there, the *)
(* others are removed before any is made.                                   *)
ServersFiles ==
    /\ boot \in {"remove_cert", "remove_key"} => remake
    /\ boot = "remove_key" => ~Exists("cert")
    /\ boot \in {"ca", "server"} =>
          IF remake THEN ~Exists("cert") /\ ~Exists("key") ELSE Exists("cert") /\ Exists("key")
    /\ boot = "load" =>
          /\ writes = <<"cert", "key">> => ~Whole("cert") /\ ~Exists("key")
          /\ writes = <<"key">> => files["cert"] = Pair(made)
          /\ writes = <<>> => Exists("cert") /\ Exists("key")

FileInv == FileTypes /\ WritesInOrder /\ CaThere /\ ServersFiles /\ PairMatches

LEMMA Kinds ==
    ASSUME FileTypes, NEW f \in File
    PROVE  /\ files[f] \in {None, Torn} \union {Pair(n) : n \in 0..made}
           /\ Whole(f) => Exists(f)
           /\ ~Whole(f) /\ Exists(f) => files[f] = Torn
<1>1. files[f] \in {None, Torn} \union {Pair(n) : n \in 0..made}
  BY DEF FileTypes
<1> QED
  BY <1>1, FileStates DEF Whole, Exists

(* Nothing happens to the files. *)
LEMMA FilesRest == ASSUME FileInv, UNCHANGED fileVars PROVE FileInv'
BY DEF FileInv, fileVars, FileTypes, WritesInOrder, CaThere, ServersFiles, PairMatches,
       Whole, Exists

LEMMA BeginStartKeeps == ASSUME FileInv, BeginStart PROVE FileInv'
<1>1. FileTypes'
  BY DEF BeginStart, FileInv, FileTypes, Boot, Exists
<1>2. writes = <<>>
  BY DEF BeginStart, FileInv, WritesInOrder
<1>3. WritesInOrder' /\ CaThere' /\ PairMatches'
  BY <1>2 DEF BeginStart, FileInv, WritesInOrder, CaThere, PairMatches, Whole
<1>4. ServersFiles'
  BY DEF BeginStart, ServersFiles, Exists
<1> QED
  BY <1>1, <1>3, <1>4 DEF FileInv

(* One file changes. *)
LEMMA ChangeFile ==
    ASSUME FileTypes, NEW f \in File, NEW s, files' = [files EXCEPT ![f] = s]
    PROVE  files'[f] = s /\ \A g \in File \ {f} : files'[g] = files[g]
BY DEF FileTypes

LEMMA Members == {"ca_cert", "ca_key", "cert", "key", "keypair"} \subseteq File
BY DEF File

LEMMA RemovePairKeeps == ASSUME FileInv, RemovePair PROVE FileInv'
<1>1. FileTypes'
  BY DEF RemovePair, FileInv, FileTypes, Boot
<1>2. writes = <<>> /\ UNCHANGED <<writes, half>>
  BY DEF RemovePair, FileInv, WritesInOrder
<1>3. WritesInOrder' /\ CaThere'
  BY <1>2 DEF RemovePair, FileInv, WritesInOrder, CaThere
<1>4. CASE boot = "remove_cert"
  <2>1. /\ boot' = "remove_key" /\ files' = [files EXCEPT !["cert"] = None]
        /\ remake' = remake /\ remake
    BY <1>4 DEF RemovePair, FileInv, ServersFiles
  <2>2. files'["cert"] = None
    BY <2>1, ChangeFile, Members DEF FileInv
  <2> QED
    BY <1>1, <1>3, <2>1, <2>2, FileStates DEF FileInv, ServersFiles, PairMatches, Whole, Exists
<1>5. CASE boot = "remove_key"
  <2>1. /\ boot' = "ca" /\ files' = [files EXCEPT !["key"] = None]
        /\ files["cert"] = None /\ remake' = remake /\ remake
    BY <1>5 DEF RemovePair, FileInv, ServersFiles, Exists
  <2>2. files'["key"] = None /\ files'["cert"] = None
    BY <2>1, ChangeFile, Members DEF FileInv
  <2> QED
    BY <1>1, <1>3, <2>1, <2>2, FileStates DEF FileInv, ServersFiles, PairMatches, Whole, Exists
<1> QED
  BY <1>4, <1>5 DEF RemovePair

LEMMA EnsureCaKeeps == ASSUME FileInv, EnsureCa PROVE FileInv'
<1>1. /\ boot = "ca" /\ boot' = "server" /\ writes = <<>> /\ ~half
      /\ UNCHANGED <<files, remake, half, auth, losses>>
  BY DEF EnsureCa, MakePair, FileInv, WritesInOrder, FileTypes
<1>2. CASE Exists("ca_cert") /\ Exists("ca_key")
  <2>1. writes' = <<>> /\ made' = made
    BY <1>1, <1>2 DEF EnsureCa, MakePair
  <2> QED
    BY <1>1, <1>2, <2>1
       DEF FileInv, FileTypes, Boot, WritesInOrder, CaThere, ServersFiles, PairMatches,
           Whole, Exists
<1>3. CASE ~(Exists("ca_cert") /\ Exists("ca_key"))
  <2>1. writes' = <<"ca_cert", "ca_key">> /\ made' = made + 1
    BY <1>1, <1>3 DEF EnsureCa, MakePair
  <2>2. writes' \in Seq(File) /\ writes' # <<>>
    BY <2>1, PairWrites, Members
  <2>3. FileTypes'
    BY <1>1, <2>1, <2>2 DEF FileInv, FileTypes, Boot
  <2>4. WritesInOrder' /\ CaThere'
    BY <1>1, <2>1, <2>2 DEF WritesInOrder, CaThere
  <2> QED
    BY <1>1, <2>3, <2>4 DEF FileInv, ServersFiles, PairMatches, Whole, Exists
<1> QED
  BY <1>2, <1>3

LEMMA EnsureServerKeeps == ASSUME FileInv, EnsureServer PROVE FileInv'
<1>1. /\ boot = "server" /\ writes = <<>> /\ ~half
      /\ UNCHANGED <<files, remake, half, auth, losses>>
  BY DEF EnsureServer, FileInv, WritesInOrder
<1>2. CASE boot' = "down" /\ UNCHANGED <<writes, made>>
  BY <1>1, <1>2
     DEF FileInv, FileTypes, Boot, WritesInOrder, CaThere, ServersFiles, PairMatches, Whole, Exists
<1>3. CASE boot' = "load" /\ ~remake /\ UNCHANGED <<writes, made>>
  <2>1. writes' # <<"key">> /\ writes' # <<"cert", "key">>
    BY <1>1, <1>3, PairWrites, Members
  <2> QED
    BY <1>1, <1>3, <2>1
       DEF FileInv, FileTypes, Boot, WritesInOrder, CaThere, ServersFiles, PairMatches,
           Whole, Exists
<1>4. CASE boot' = "load" /\ remake /\ writes' = <<"cert", "key">> /\ made' = made + 1
  <2>1. writes' \in Seq(File) /\ writes' # <<>> /\ writes' # <<"key">>
    BY <1>4, PairWrites, Members
  <2>2. FileTypes'
    BY <1>1, <1>4, <2>1 DEF FileInv, FileTypes, Boot
  <2>3. WritesInOrder' /\ CaThere'
    BY <1>1, <1>4, <2>1 DEF WritesInOrder, CaThere
  <2>4. ~Exists("cert") /\ ~Exists("key") /\ ~Whole("cert")
    BY <1>1, <1>4, FileStates DEF FileInv, ServersFiles, Exists, Whole
  <2>5. ServersFiles'
    BY <1>1, <1>4, <2>1, <2>4 DEF ServersFiles, Exists, Whole
  <2>6. PairMatches'
    BY <1>1 DEF FileInv, PairMatches, Whole
  <2> QED
    BY <2>2, <2>3, <2>5, <2>6 DEF FileInv
<1> QED
  BY <1>2, <1>3, <1>4 DEF EnsureServer, MakePair, Fail

LEMMA EmptyKeeps == ASSUME FileInv, Empty PROVE FileInv'
<1>1. /\ writes # <<>> /\ half' = TRUE /\ boot \in {"server", "load"}
      /\ UNCHANGED <<made, boot, remake, writes, auth, losses>>
  BY DEF Empty, FileInv, WritesInOrder
<1>2. PICK f \in File : f = Head(writes)
  BY <1>1, HeadTailProperties DEF FileInv, FileTypes
<1>3. files'[f] = Torn /\ \A g \in File \ {f} : files'[g] = files[g]
  <2>1. files' = [files EXCEPT ![f] = Torn]
    BY <1>2 DEF Empty
  <2> QED
    BY <2>1, ChangeFile DEF FileInv
<1>4. FileTypes'
  BY <1>1 DEF Empty, FileInv, FileTypes
<1>5. WritesInOrder'
  BY <1>1 DEF FileInv, WritesInOrder
<1>6. PairMatches'
  <2>1. files'["cert"] = Torn \/ files'["cert"] = files["cert"]
    BY <1>3, Members
  <2>2. files'["key"] = Torn \/ files'["key"] = files["key"]
    BY <1>3, Members
  <2> QED
    BY <2>1, <2>2, FileStates DEF FileInv, PairMatches, Whole
<1>7. CASE boot = "server"
  <2>1. f \in {"ca_cert", "ca_key"}
    BY <1>1, <1>2, <1>7, PairWrites, Members DEF FileInv, WritesInOrder
  <2>2. files'["cert"] = files["cert"] /\ files'["key"] = files["key"]
    BY <1>3, <2>1, Members
  <2>3. Exists("ca_cert") => files'["ca_cert"] # None
    BY <1>3, Members, FileStates DEF Exists
  <2> QED
    BY <1>1, <1>4, <1>5, <1>6, <1>7, <2>2, <2>3
       DEF FileInv, CaThere, ServersFiles, Exists, Whole
<1>8. CASE boot = "load"
  <2>1. \/ writes = <<"cert", "key">> /\ f = "cert"
        \/ writes = <<"key">> /\ f = "key"
    BY <1>1, <1>2, <1>8, PairWrites, Members DEF FileInv, WritesInOrder
  <2>2. CASE writes = <<"cert", "key">> /\ f = "cert"
    <3>1. files'["cert"] = Torn /\ files'["key"] = files["key"] /\ writes # <<"key">>
      BY <1>3, <2>2, Members, PairWrites
    <3> QED
      BY <1>1, <1>4, <1>5, <1>6, <1>8, <2>2, <3>1, FileStates
         DEF FileInv, CaThere, ServersFiles, Exists, Whole
  <2>3. CASE writes = <<"key">> /\ f = "key"
    <3>1. files'["cert"] = files["cert"] /\ writes # <<"cert", "key">>
      BY <1>3, <2>3, Members, PairWrites
    <3> QED
      BY <1>1, <1>4, <1>5, <1>6, <1>8, <2>3, <3>1
         DEF FileInv, CaThere, ServersFiles, Exists, Whole
  <2> QED
    BY <2>1, <2>2, <2>3
<1> QED
  BY <1>1, <1>7, <1>8

LEMMA FillKeeps == ASSUME FileInv, Fill PROVE FileInv'
<1>1. /\ writes # <<>> /\ half' = FALSE /\ boot \in {"server", "load"}
      /\ writes' = Tail(writes)
      /\ UNCHANGED <<made, boot, remake, auth, losses>>
  BY DEF Fill, FileInv, WritesInOrder
<1>2. PICK f \in File : f = Head(writes)
  BY <1>1, HeadTailProperties DEF FileInv, FileTypes
<1>3. files'[f] = Pair(made) /\ \A g \in File \ {f} : files'[g] = files[g]
  <2>1. files' = [files EXCEPT ![f] = Pair(made)]
    BY <1>2 DEF Fill
  <2> QED
    BY <2>1, ChangeFile DEF FileInv
<1>4. FileTypes'
  <2>1. Tail(writes) \in Seq(File)
    BY <1>1, HeadTailProperties DEF FileInv, FileTypes
  <2>2. Pair(made) \in {Pair(n) : n \in 0..made}
    BY DEF FileInv, FileTypes
  <2> QED
    BY <1>1, <2>1, <2>2 DEF Fill, FileInv, FileTypes
<1>5. CASE boot = "server"
  <2>1. \/ f = "ca_cert" /\ writes = <<"ca_cert", "ca_key">> /\ writes' = <<"ca_key">>
        \/ f = "ca_key" /\ writes = <<"ca_key">> /\ writes' = <<>>
    <3>1. writes \in {<<"ca_key">>, <<"ca_cert", "ca_key">>}
      BY <1>1, <1>5 DEF FileInv, WritesInOrder
    <3>2. /\ Head(<<"ca_cert", "ca_key">>) = "ca_cert"
          /\ Tail(<<"ca_cert", "ca_key">>) = <<"ca_key">>
          /\ Head(<<"ca_key">>) = "ca_key" /\ Tail(<<"ca_key">>) = <<>>
      BY PairWrites, Members
    <3> QED
      BY <1>1, <1>2, <3>1, <3>2
  <2>2. files'["cert"] = files["cert"] /\ files'["key"] = files["key"]
    BY <1>3, <2>1, Members
  <2>3. ServersFiles' /\ PairMatches'
    BY <1>1, <1>5, <2>2 DEF FileInv, ServersFiles, PairMatches, Exists, Whole
  <2>4. WritesInOrder'
    BY <1>1, <1>5, <2>1 DEF WritesInOrder
  <2>5. CaThere'
    <3>1. CASE f = "ca_cert" /\ writes' = <<"ca_key">>
      <4>1. files'["ca_cert"] # None /\ writes' # <<>>
        BY <1>3, <3>1, FileStates, PairWrites, Members
      <4> QED
        BY <4>1 DEF CaThere, Exists
    <3>2. CASE f = "ca_key" /\ writes = <<"ca_key">>
      <4>1. writes # <<"ca_cert", "ca_key">>
        BY <3>2, PairWrites, Members
      <4>2. files["ca_cert"] # None
        BY <1>5, <4>1 DEF FileInv, CaThere, Exists
      <4>3. files'["ca_cert"] # None /\ files'["ca_key"] # None
        BY <1>3, <3>2, <4>2, FileStates, Members
      <4> QED
        BY <4>3 DEF CaThere, Exists
    <3> QED
      BY <2>1, <3>1, <3>2
  <2> QED
    BY <1>4, <2>3, <2>4, <2>5 DEF FileInv
<1>6. CASE boot = "load"
  <2>1. \/ f = "cert" /\ writes = <<"cert", "key">> /\ writes' = <<"key">>
        \/ f = "key" /\ writes = <<"key">> /\ writes' = <<>>
    <3>1. writes \in {<<"key">>, <<"cert", "key">>}
      BY <1>1, <1>6 DEF FileInv, WritesInOrder
    <3>2. /\ Head(<<"cert", "key">>) = "cert" /\ Tail(<<"cert", "key">>) = <<"key">>
          /\ Head(<<"key">>) = "key" /\ Tail(<<"key">>) = <<>>
      BY PairWrites, Members
    <3> QED
      BY <1>1, <1>2, <3>1, <3>2
  <2>2. WritesInOrder' /\ CaThere'
    BY <1>1, <1>6, <2>1 DEF WritesInOrder, CaThere
  <2>3. CASE f = "cert" /\ writes = <<"cert", "key">> /\ writes' = <<"key">>
    <3>1. /\ files'["cert"] = Pair(made) /\ files'["key"] = None
          /\ writes' # <<>> /\ writes' # <<"cert", "key">>
      BY <1>3, <1>6, <2>3, PairWrites, Members DEF FileInv, ServersFiles, Exists
    <3> QED
      BY <1>1, <1>4, <1>6, <2>2, <2>3, <3>1, FileStates
         DEF FileInv, ServersFiles, PairMatches, Whole
  <2>4. CASE f = "key" /\ writes = <<"key">> /\ writes' = <<>>
    <3>1. /\ files'["key"] = Pair(made) /\ files'["cert"] = Pair(made)
          /\ writes' # <<"key">> /\ writes' # <<"cert", "key">>
      BY <1>3, <1>6, <2>4, PairWrites, Members DEF FileInv, ServersFiles
    <3> QED
      BY <1>1, <1>4, <1>6, <2>2, <3>1, FileStates
         DEF FileInv, ServersFiles, PairMatches, Exists
  <2> QED
    BY <2>1, <2>3, <2>4
<1> QED
  BY <1>1, <1>5, <1>6

LEMMA LoadKeeps == ASSUME FileInv, Load PROVE FileInv'
<1>1. /\ boot' \in {"up", "down"} /\ writes = <<>>
      /\ UNCHANGED <<files, made, remake, writes, half, auth, losses>>
  BY DEF Load, Fail
<1> QED
  BY <1>1
     DEF FileInv, FileTypes, Boot, WritesInOrder, CaThere, ServersFiles, PairMatches, Whole, Exists

LEMMA AuthKeeps == ASSUME FileInv, AuthInit \/ AuthWritten \/ StopAuth PROVE FileInv'
<1>1. /\ UNCHANGED <<made, boot, remake, writes, half, losses>> /\ auth' \in BOOLEAN
      /\ \/ files' = files
         \/ \E s \in {Torn, Pair(made)} : files' = [files EXCEPT !["keypair"] = s]
  BY DEF AuthInit, AuthWritten, StopAuth
<1>2. \A f \in {"ca_cert", "ca_key", "cert", "key"} : files'[f] = files[f]
  BY <1>1, ChangeFile, Members DEF FileInv
<1>3. FileTypes'
  <2>1. Pair(made) \in {Pair(n) : n \in 0..made}
    BY DEF FileInv, FileTypes
  <2> QED
    BY <1>1, <2>1 DEF FileInv, FileTypes
<1> QED
  BY <1>1, <1>2, <1>3
     DEF FileInv, WritesInOrder, CaThere, ServersFiles, PairMatches, Whole, Exists

LEMMA StopNodeKeeps == ASSUME FileInv, StopNode PROVE FileInv'
<1>1. /\ boot' = "down" /\ writes' = <<>> /\ half' = FALSE
      /\ UNCHANGED <<files, made, remake, auth, losses>>
  BY DEF StopNode
<1>2. <<>> \in Seq(File)
  OBVIOUS
<1> QED
  BY <1>1, <1>2
     DEF FileInv, FileTypes, Boot, WritesInOrder, CaThere, ServersFiles, PairMatches, Whole

LEMMA LoseFileKeeps == ASSUME FileInv, NEW f \in File, LoseFile(f) PROVE FileInv'
<1>1. /\ boot = "down" /\ UNCHANGED <<made, boot, remake, writes, half, auth>>
      /\ losses' \in 0..MaxLoss
  BY LossAssumption DEF LoseFile, FileInv, FileTypes
<1>2. files'[f] = None /\ \A g \in File \ {f} : files'[g] = files[g]
  <2>1. files' = [files EXCEPT ![f] = None]
    BY DEF LoseFile
  <2> QED
    BY <2>1, ChangeFile DEF FileInv
<1>3. FileTypes'
  BY <1>1 DEF LoseFile, FileInv, FileTypes
<1>4. PairMatches'
  <2>1. files'["cert"] = None \/ files'["cert"] = files["cert"]
    BY <1>2, Members
  <2>2. files'["key"] = None \/ files'["key"] = files["key"]
    BY <1>2, Members
  <2> QED
    BY <2>1, <2>2, FileStates DEF FileInv, PairMatches, Whole
<1> QED
  BY <1>1, <1>3, <1>4 DEF FileInv, WritesInOrder, CaThere, ServersFiles

-----------------------------------------------------------------------------
(* What a node starts on, and every step. *)

NodeInv == DatabaseInv /\ FileInv

LEMMA InitNode == Init => NodeInv
<1> SUFFICES ASSUME Init
             PROVE  NodeInv
  OBVIOUS
<1>1. PICK s \in Starts : DatabaseInit(s.stored) /\ files = s.files
  BY DEF Init
<1>2. s.files \in [File -> {None, Torn, Pair(0)}] /\ StoredBySomeVersion(s.stored)
  BY StartsAssumption
<1>3. DatabaseInv
  BY <1>1, <1>2, InitDatabase
<1>4. FileTypes
  <2>1. {None, Torn, Pair(0)} \subseteq {None, Torn} \union {Pair(n) : n \in 0..0}
    OBVIOUS
  <2>2. files \in [File -> {None, Torn} \union {Pair(n) : n \in 0..made}]
    BY <1>1, <1>2, <2>1 DEF Init
  <2>3. <<>> \in Seq(File) /\ 0 \in 0..MaxLoss
    BY LossAssumption
  <2> QED
    BY <2>2, <2>3 DEF Init, FileTypes, Boot
<1>5. PairMatches
  <2>1. files["cert"] \in {None, Torn, Pair(0)} /\ files["key"] \in {None, Torn, Pair(0)}
    BY <1>1, <1>2, Members
  <2> QED
    BY <2>1, FileStates DEF PairMatches, Whole
<1>6. WritesInOrder /\ CaThere /\ ServersFiles
  BY DEF Init, WritesInOrder, CaThere, ServersFiles
<1> QED
  BY <1>3, <1>4, <1>5, <1>6 DEF NodeInv, FileInv

LEMMA NextFiles == ASSUME FileInv, [Next]_vars PROVE FileInv'
<1>1. CASE UNCHANGED vars
  BY <1>1, FilesRest DEF vars
<1>2. CASE UseDatabase
  BY <1>2, FilesRest DEF UseDatabase
<1>3. CASE BeginStart \/ BootStep
  BY <1>3, BeginStartKeeps, RemovePairKeeps, EnsureCaKeeps, EnsureServerKeeps, EmptyKeeps,
     FillKeeps, LoadKeeps DEF BootStep
<1> QED
  BY <1>1, <1>2, <1>3, AuthKeeps, StopNodeKeeps, LoseFileKeeps DEF Next

LEMMA NextDatabase == ASSUME DatabaseInv, [Next]_vars PROVE StepKeeps
<1>1. aborts \in 0..MaxAbort /\ (aborts < MaxAbort => aborts + 1 \in 0..MaxAbort)
  BY AbortAssumption DEF DatabaseInv, DatabaseTypeOK
<1>2. CASE UNCHANGED dbVars
  BY <1>1, <1>2, DatabaseRests DEF dbVars
<1>3. CASE UseDatabase
  BY <1>3, DatabaseStepKeeps, AbortKeeps, OpenKeeps DEF UseDatabase
<1>4. CASE StopNode
  <2>1. CASE \E n \in NodeProc : Abort(n)
    BY <2>1, ProcessAssumption, AbortKeeps
  <2>2. CASE ~\E n \in NodeProc : Abort(n)
    BY <1>1, <1>4, <2>2, DatabaseRests DEF StopNode
  <2> QED
    BY <2>1, <2>2
<1>5. CASE StopAuth
  BY <1>1, <1>5, DatabaseRests DEF StopAuth
<1>6. CASE BeginStart \/ BootStep \/ AuthInit \/ AuthWritten \/ \E f \in File : LoseFile(f)
  BY <1>2, <1>6
     DEF BeginStart, BootStep, RemovePair, EnsureCa, EnsureServer, Empty, Fill, Load, AuthInit,
         AuthWritten, LoseFile
<1> QED
  BY <1>2, <1>3, <1>4, <1>5, <1>6 DEF Next, vars

LEMMA NodeInvariant == Spec => []NodeInv
<1>1. NodeInv /\ [Next]_vars => NodeInv'
  BY NextFiles, NextDatabase DEF NodeInv, StepKeeps
<1> QED
  BY <1>1, InitNode, PTL DEF Spec

-----------------------------------------------------------------------------
(* The theorems. *)

(* Types, and that at most one process holds SQLite's write lock, whoever   *)
(* opens, migrates, writes, stops or fails.                                 *)
THEOREM TypeCorrect == Spec => []TypeOK
<1>1. NodeInv => TypeOK
  BY DEF NodeInv, DatabaseInv, FileInv, FileTypes, TypeOK
<1> QED
  BY <1>1, NodeInvariant, PTL

(* A process that has the database open finds exactly the columns it needs  *)
(* to insert rows (ensure_schema), whichever versions wrote the tables and  *)
(* whoever migrates them at the same time.                                  *)
THEOREM OpenMeansCurrent == Spec => []OpenIsCurrent
<1>1. NodeInv => OpenIsCurrent
  BY CurrentWhenOpen DEF NodeInv, OpenIsCurrent
<1> QED
  BY <1>1, NodeInvariant, PTL

(* A migration (rebuild_repos_table) keeps the values that were written,    *)
(* unless it copies by what it asked before another's was committed.        *)
THEOREM MigrationKeepsValues == Spec => []MigrationKeeps
<1>1. NodeInv => MigrationKeeps
  BY DEF NodeInv, DatabaseInv, KnownRows, MigrationKeeps
<1> QED
  BY <1>1, NodeInvariant, PTL

(* No step of any process, nor a stop between any two statements of a       *)
(* rebuild, loses a row of repos; rows of refs go only in one statement of  *)
(* the gossip handler (delete_refs_for_repo), for the repository it updates. *)
THEOREM NoRowIsLost == Spec => RowsKept
<1>1. NodeInv /\ [Next]_vars =>
         [\A t \in Table : db[t].exists =>
             /\ db'[t].exists
             /\ \A r \in Repo : db[t].rows[r] # NoRow =>
                   db'[t].rows[r] # NoRow
                   \/ (t = "refs" /\ \E p \in Process : Updated(p, r))]_db
  BY NextDatabase DEF NodeInv, StepKeeps, Grows
<1> QED
  BY <1>1, NodeInvariant, PTL DEF Spec, RowsKept

(* The certificate and the key of the server are of one pair, whatever      *)
(* stops and losses there were (ensure_certificates).                       *)
THEOREM PairsMatch == Spec => []PairMatches
<1>1. NodeInv => PairMatches
  BY DEF NodeInv, FileInv
<1> QED
  BY <1>1, NodeInvariant, PTL

(* A start fails only for want of a keypair or for a torn file, never for   *)
(* a set of files that is incomplete.                                       *)
THEOREM StartsOnWhatIsLeft == Spec => FailsOnlyIfDamaged
<1>1. ASSUME NodeInv, Next, StartFails
      PROVE  ~Exists("keypair") \/ \E f \in File : files[f] = Torn
  <2>1. EnsureServer \/ Load
    <3>1. aborts + 1 # aborts
      BY <1>1, AbortAssumption DEF NodeInv, DatabaseInv, DatabaseTypeOK
    <3>2. ~StopNode /\ boot # "down" /\ boot' # boot /\ boot \in {"server", "load"}
      BY <1>1, <3>1 DEF StopNode, Abort, StartFails
    <3> QED
      BY <1>1, <3>2
         DEF Next, BeginStart, BootStep, RemovePair, EnsureCa, Empty, Fill, AuthInit, AuthWritten,
             StopAuth, LoseFile, UseDatabase, fileVars
  <2>2. \A f \in File : ~Whole(f) /\ Exists(f) => files[f] = Torn
    BY <1>1, Kinds DEF NodeInv, FileInv
  <2>3. CASE EnsureServer
    <3>1. Exists("ca_cert") /\ Exists("ca_key")
      <4>1. boot = "server" /\ writes = <<>> /\ writes # <<"ca_cert", "ca_key">>
        BY <2>3, PairWrites, Members DEF EnsureServer
      <4> QED
        BY <1>1, <4>1 DEF NodeInv, FileInv, CaThere
    <3>2. ~Whole("ca_cert") \/ ~Whole("ca_key")
      BY <1>1, <2>3 DEF EnsureServer, MakePair, StartFails
    <3> QED
      BY <2>2, <3>1, <3>2, Members
  <2>4. CASE Load
    <3>1. Exists("cert") /\ Exists("key")
      BY <1>1, <2>4 DEF Load, NodeInv, FileInv, ServersFiles
    <3>2. ~Whole("keypair") \/ ~Whole("cert") \/ ~Whole("key")
      BY <1>1, <2>4 DEF Load, StartFails, NodeInv, FileInv, PairMatches
    <3> QED
      BY <2>2, <3>1, <3>2, Members
  <2> QED
    BY <2>1, <2>3, <2>4
<1>2. NodeInv /\ [Next]_vars =>
         [StartFails => ~Exists("keypair") \/ \E f \in File : files[f] = Torn]_vars
  BY <1>1
<1> QED
  BY <1>2, NodeInvariant, PTL DEF Spec, FailsOnlyIfDamaged

LEMMA NextRecords == ASSUME NodeInv, NodeInv', [Next]_vars PROVE RecordsStep
<1>1. DatabaseInv /\ DatabaseInv'
  BY DEF NodeInv
<1>2. ASSUME UNCHANGED <<db, stale>>
      PROVE  RecordsStep
  BY <1>2, RowsStay DEF RowsOf
<1>3. CASE UseDatabase
  <2>1. CASE \E p \in Process : Abort(p) \/ Open(p)
    BY <1>2, <2>1 DEF Abort, Open
  <2> QED
    BY <1>1, <1>3, <2>1, DatabaseRecords DEF UseDatabase
<1>4. CASE StopNode
  BY <1>2, <1>4 DEF StopNode, Abort
<1>5. CASE BeginStart \/ BootStep \/ AuthInit \/ AuthWritten \/ StopAuth
           \/ \E f \in File : LoseFile(f)
  BY <1>2, <1>5
     DEF BeginStart, BootStep, RemovePair, EnsureCa, EnsureServer, Empty, Fill, Load, AuthInit,
         AuthWritten, StopAuth, LoseFile, dbVars
<1>6. CASE UNCHANGED vars
  BY <1>2, <1>6 DEF vars, dbVars
<1> QED
  BY <1>3, <1>4, <1>5, <1>6 DEF Next

(* Whatever versions wrote the tables, whichever processes create, migrate  *)
(* and write them (ensure_schema, save_repo_to_db, update_repo_bundle) and  *)
(* wherever they stop, readers and writers of rows see one pair of tables   *)
(* in which rows are saved, get their bundle, and then their refs; only a   *)
(* rebuild that went by old answers can be noticed.                         *)
THEOREM DatabaseImplementsRecords == Spec => ImplementsRecords
<1>1. Init => Records!Init
  <2> SUFFICES ASSUME Init
               PROVE  Records!Init
    OBVIOUS
  <2>1. DatabaseTypeOK /\ stale = FALSE
    BY InitNode DEF Init, DatabaseInit, NodeInv, DatabaseInv
  <2>2. RowsOf("repos") \in [Repo -> Records!Row \union {NoRow}]
    BY <2>1, RecordTypes DEF Table
  <2> QED
    BY <2>1, <2>2 DEF Records!Init
<1>2. NodeInv /\ NodeInv' /\ [Next]_vars => [Records!Next]_(Records!vars)
  BY NextRecords DEF RecordsStep
<1> QED
  BY <1>1, <1>2, NodeInvariant, PTL DEF Spec, ImplementsRecords, Records!Spec

=============================================================================
