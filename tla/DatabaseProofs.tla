--------------------------- MODULE DatabaseProofs ---------------------------
(***************************************************************************)
(* What the steps of module Database keep, for any number of processes,    *)
(* repositories and openings that end early, and for any tables that some  *)
(* version may have stored.                                                *)
(***************************************************************************)
EXTENDS Database, SequenceTheorems, TLAPS

(* The columns, spelled out. *)
LEMMA Names ==
    /\ Range(Added) = {"language", "size", "latest_commit_at"}
    /\ Canonical["repos"] = {"language", "size", "latest_commit_at", "bundle",
                             "is_external", "created_at", "updated_at"}
    /\ Canonical["refs"] = {"created_at", "updated_at", "key"}
    /\ Range(Asked["repos"]) = {"bundle", "is_external", "created_at", "updated_at",
                                "timestamp"}
<1>1. Range(Added) = {"language", "size", "latest_commit_at"}
  <2>1. DOMAIN Added = 1..3
    BY DEF Added
  <2> QED
    BY <2>1 DEF Added, Range
<1>2. Range(Asked["repos"]) =
          {"bundle", "is_external", "created_at", "updated_at", "timestamp"}
  <2>1. Asked["repos"] = <<"bundle", "is_external", "created_at", "updated_at", "timestamp">>
    BY DEF Asked, Table
  <2> DEFINE s == <<"bundle", "is_external", "created_at", "updated_at", "timestamp">>
  <2>2. DOMAIN s = 1..5
    OBVIOUS
  <2>3. Range(s) = {s[1], s[2], s[3], s[4], s[5]}
    BY <2>2 DEF Range
  <2> QED
    BY <2>1, <2>3
<1>3. Range(Asked["refs"]) = {"created_at", "updated_at"}
  <2>1. Asked["refs"] = <<"created_at", "updated_at">>
    BY DEF Asked, Table
  <2> QED
    BY <2>1 DEF Range
<1> QED
  BY <1>1, <1>2, <1>3 DEF Canonical, Table

LEMMA ColumnTypes ==
    /\ \A t \in Table : Canonical[t] \subseteq Column /\ Asked[t] \in Seq(Column)
    /\ Added \in Seq(Column)
<1>1. \A t \in Table : Canonical[t] \subseteq Column /\ Range(Asked[t]) \subseteq Column
  BY DEF Column
<1>2. \A t \in Table : Asked[t] \in Seq(Column)
  <2>1. Asked["repos"] \in Seq(Column)
    <3>1. Asked["repos"] =
              <<"bundle", "is_external", "created_at", "updated_at", "timestamp">>
      BY DEF Asked, Table
    <3>2. {"bundle", "is_external", "created_at", "updated_at", "timestamp"} \subseteq Column
      BY <1>1, Names DEF Table
    <3> QED
      BY <3>1, <3>2
  <2>2. Asked["refs"] \in Seq(Column)
    <3>1. Asked["refs"] = <<"created_at", "updated_at">>
      BY DEF Asked, Table
    <3>2. {"created_at", "updated_at"} \subseteq Column
      BY <1>1, Names DEF Table
    <3> QED
      BY <3>1, <3>2
  <2> QED
    BY <2>1, <2>2 DEF Table
<1>3. Added \in Seq(Column)
  <2>1. {"language", "size", "latest_commit_at"} \subseteq Column
    BY <1>1, Names DEF Table
  <2> QED
    BY <2>1 DEF Added
<1> QED
  BY <1>1, <1>2, <1>3

(* A row is no missing row, and a missing table is no table. *)
LEMMA RowTypes == \A row \in Row : row # NoRow
<1> SUFFICES ASSUME NEW row \in Row
             PROVE  row # NoRow
  OBVIOUS
<1>1. DOMAIN row = Attr
  BY DEF Row
<1>2. "bundle" \in Attr
  BY DEF Attr
<1>3. DOMAIN NoRow = {"none"}
  BY DEF NoRow
<1> QED
  BY <1>1, <1>2, <1>3

LEMMA TableTypes ==
    /\ \A tab \in Tables :
          /\ tab.exists \in BOOLEAN
          /\ ~tab.exists => tab = NoTable
          /\ tab.exists =>
                /\ tab.cols \in SUBSET Column
                /\ tab.rows \in [Repo -> Row \union {NoRow}]
                /\ tab = TableWith(tab.cols, tab.rows)
    /\ NoTable \in Tables /\ NoTable.exists = FALSE
    /\ \A cols \in SUBSET Column : \A rows \in [Repo -> Row \union {NoRow}] :
          /\ TableWith(cols, rows) \in Tables
          /\ TableWith(cols, rows).exists
          /\ TableWith(cols, rows).cols = cols
          /\ TableWith(cols, rows).rows = rows
<1>1. NoTable \in Tables
  BY DEF Tables
<1>2. NoTable.exists = FALSE
  BY Zenon DEF NoTable
<1>3. ASSUME NEW cols \in SUBSET Column, NEW rows \in [Repo -> Row \union {NoRow}]
      PROVE  /\ TableWith(cols, rows) \in Tables
             /\ TableWith(cols, rows).exists
             /\ TableWith(cols, rows).cols = cols
             /\ TableWith(cols, rows).rows = rows
  BY <1>3 DEF TableWith, Tables
<1>4. ASSUME NEW tab \in Tables
      PROVE  /\ tab.exists \in BOOLEAN
             /\ ~tab.exists => tab = NoTable
             /\ tab.exists =>
                   /\ tab.cols \in SUBSET Column
                   /\ tab.rows \in [Repo -> Row \union {NoRow}]
                   /\ tab = TableWith(tab.cols, tab.rows)
  <2>1. CASE tab = NoTable
    BY <2>1, <1>2
  <2>2. CASE tab \in [exists : {TRUE}, cols : SUBSET Column,
                      rows : [Repo -> Row \union {NoRow}]]
    BY <2>2 DEF TableWith
  <2> QED
    BY <1>4, <2>1, <2>2 DEF Tables
<1> QED
  BY <1>1, <1>2, <1>3, <1>4

LEMMA NewTableTypes ==
    \A t \in Table :
        /\ NewTable(t) \in Tables /\ NewTable(t).exists
        /\ NewTable(t).cols = Canonical[t]
        /\ NewTable(t).rows = [r \in Repo |-> NoRow]
<1>1. [r \in Repo |-> NoRow] \in [Repo -> Row \union {NoRow}]
  OBVIOUS
<1> QED
  BY <1>1, ColumnTypes, TableTypes DEF NewTable

-----------------------------------------------------------------------------
(* The invariant. *)

(* A transaction goes on while its process has the lock, and only then. *)
Holding(p) == at[p] \in {"copy", "drop", "rename", "commit"}
InTransaction == \A p \in Process : p \in writer <=> Holding(p)

(* The tables are those that some version could have stored. *)
Versioned ==
    /\ db["repos"].exists =>
          /\ \/ "timestamp" \in db["repos"].cols
             \/ db["repos"].cols \union Range(Added) = Canonical["repos"]
          /\ \A r \in Repo : RowOf(r) # NoRow =>
                \A c \in Attr : RowOf(r)[c] => Kept(c, db["repos"].cols)
    /\ (db["refs"].exists /\ {"key", "created_at"} \subseteq db["refs"].cols) =>
          db["refs"].cols = Canonical["refs"]

(* The rows of repos are what was last written. *)
KnownRows ==
    IF db["repos"].exists
    THEN stale \/ \A r \in Repo : RowOf(r) = known[r]
    ELSE \A r \in Repo : known[r] = NoRow

(* Steps of calls that have seen the row of their repository. *)
OfARow == {"update", "refs", "drop", "clear"}

(* What a process that has come so far relies on: the tables are there, the *)
(* columns are added, the tables it is done with need no rebuild.           *)
Stage(p) ==
    /\ at[p] \in {"create", "alter"} => table[p] = "repos"
    /\ at[p] = "alter" =>
          /\ Range(todo[p]) \subseteq Range(Added)
          /\ Range(Added) \subseteq db["repos"].cols \union Range(todo[p])
    /\ at[p] \notin {"closed", "create"} => \A t \in Table : db[t].exists
    /\ at[p] \notin {"closed", "create", "alter"} => Range(Added) \subseteq db["repos"].cols
    /\ at[p] \notin {"closed", "create", "alter"} /\ table[p] = "refs" => ~NeedsRebuild("repos")
    /\ at[p] = "open" => table[p] = "refs" /\ ~NeedsRebuild("refs")
    /\ doing[p] # Idle =>
          /\ at[p] = "open"
          /\ doing[p].step \in OfARow => RowOf(doing[p].repo) # NoRow

(* The table that is to take the place of the one p is migrating has its    *)
(* rows, no value that is not there, and if it asked in time all of them.   *)
New(p) == IF at[p] = "commit" THEN work.old ELSE work.new

Rebuilding(p) ==
    /\ at[p] = "copy" => work = [new |-> NewTable(table[p]), old |-> db[table[p]]]
    /\ at[p] \in {"drop", "rename", "commit"} =>
          /\ New(p).exists /\ New(p).cols = Canonical[table[p]]
          /\ \A r \in Repo : New(p).rows[r] = NoRow <=> db[table[p]].rows[r] = NoRow
          /\ \A r \in Repo : New(p).rows[r] # NoRow =>
                \A c \in Attr : New(p).rows[r][c] => db[table[p]].rows[r][c]
          /\ ~stale /\ table[p] = "repos" => \A r \in Repo : New(p).rows[r] = known[r]

DatabaseInv ==
    /\ DatabaseTypeOK
    /\ InTransaction /\ Versioned /\ KnownRows
    /\ \A p \in Process : Stage(p) /\ Rebuilding(p)

(* No step takes a table, a row or an added column away, nor brings back    *)
(* what a rebuild removes; but refs go when an update replaces them.        *)
Grows(t) ==
    db[t].exists =>
        /\ db'[t].exists
        /\ \A r \in Repo : db[t].rows[r] # NoRow =>
              db'[t].rows[r] # NoRow \/ (t = "refs" /\ \E p \in Process : Updated(p, r))
        /\ t = "repos" => Range(Added) \intersect db[t].cols \subseteq db'[t].cols
        /\ ~NeedsRebuild(t) => ~NeedsRebuild(t)'

StepKeeps == DatabaseInv' /\ \A t \in Table : Grows(t)

(* Nothing changes for the processes other than p. *)
OthersStay(p) ==
    \A q \in Process \ {p} :
        /\ at'[q] = at[q] /\ table'[q] = table[q] /\ todo'[q] = todo[q]
        /\ doing'[q] = doing[q]
        /\ Holding(q) => UNCHANGED <<db, work, known, stale>>

LEMMA OtherStages ==
    ASSUME DatabaseInv, NEW p \in Process, OthersStay(p), \A t \in Table : Grows(t),
           NEW q \in Process \ {p}
    PROVE  Stage(q)'
<1>1. /\ at'[q] = at[q] /\ table'[q] = table[q] /\ todo'[q] = todo[q]
      /\ doing'[q] = doing[q] /\ Stage(q)
  BY DEF OthersStay, DatabaseInv
<1>2. Grows("repos") /\ Grows("refs")
  BY DEF Table
<1>3. (at[q] \notin {"closed", "create"} => \A t \in Table : db[t].exists)'
  BY <1>1, <1>2 DEF Stage, Grows, Table
<1>4. (at[q] = "alter" =>
          /\ Range(todo[q]) \subseteq Range(Added)
          /\ Range(Added) \subseteq db["repos"].cols \union Range(todo[q]))'
  <2> SUFFICES ASSUME at[q] = "alter"
               PROVE  /\ Range(todo'[q]) \subseteq Range(Added)
                      /\ Range(Added) \subseteq db'["repos"].cols \union Range(todo'[q])
    BY <1>1
  <2>1. db["repos"].exists
    BY <1>1 DEF Stage, Table
  <2> QED
    BY <1>1, <1>2, <2>1 DEF Stage, Grows
<1>5. (at[q] \notin {"closed", "create", "alter"} =>
          Range(Added) \subseteq db["repos"].cols)'
  BY <1>1, <1>2 DEF Stage, Grows, Table
<1>6. (at[q] \notin {"closed", "create", "alter"} /\ table[q] = "refs" =>
          ~NeedsRebuild("repos"))'
  BY <1>1, <1>2 DEF Stage, Grows, Table
<1>7. (at[q] = "open" => table[q] = "refs" /\ ~NeedsRebuild("refs"))'
  BY <1>1, <1>2 DEF Stage, Grows, Table
<1>8. (doing[q] # Idle =>
          /\ at[q] = "open"
          /\ doing[q].step \in OfARow => RowOf(doing[q].repo) # NoRow)'
  <2> SUFFICES ASSUME doing[q] # Idle
               PROVE  /\ at'[q] = "open"
                      /\ doing[q].step \in OfARow =>
                            db'["repos"].rows[doing[q].repo] # NoRow
    BY <1>1 DEF RowOf
  <2>1. at[q] = "open" /\ db["repos"].exists
    BY <1>1 DEF Stage, Table
  <2>2. ASSUME doing[q].step \in OfARow
        PROVE  doing[q].repo \in Repo
    BY <2>2, <1>1 DEF DatabaseInv, DatabaseTypeOK, OfARow
  <2> QED
    BY <1>1, <1>2, <2>1, <2>2 DEF Stage, Grows, RowOf
<1> QED
  BY <1>1, <1>3, <1>4, <1>5, <1>6, <1>7, <1>8 DEF Stage

LEMMA OtherRebuilds ==
    ASSUME DatabaseInv, NEW p \in Process, OthersStay(p), NEW q \in Process \ {p}
    PROVE  Rebuilding(q)'
<1>1. /\ at'[q] = at[q] /\ table'[q] = table[q] /\ Rebuilding(q)
      /\ Holding(q) => UNCHANGED <<db, work, known, stale>>
  BY DEF OthersStay, DatabaseInv
<1>2. CASE Holding(q)
  BY <1>1, <1>2 DEF Rebuilding, New
<1>3. CASE ~Holding(q)
  BY <1>1, <1>3 DEF Rebuilding, Holding
<1> QED
  BY <1>2, <1>3

(* What is left to show of a step of p. *)
LEMMA Together ==
    ASSUME DatabaseInv, NEW p \in Process, OthersStay(p), \A t \in Table : Grows(t),
           DatabaseTypeOK', InTransaction', Versioned', KnownRows', Stage(p)', Rebuilding(p)'
    PROVE  StepKeeps
<1>1. ASSUME NEW q \in Process
      PROVE  Stage(q)' /\ Rebuilding(q)'
  BY OtherStages, OtherRebuilds
<1> QED
  BY <1>1 DEF StepKeeps, DatabaseInv

-----------------------------------------------------------------------------
(* Steps outside of transactions that leave the tables as they are. *)

LEMMA QuietStep ==
    ASSUME DatabaseInv, NEW p \in Process,
           UNCHANGED <<db, writer, work, known, stale>>,
           ~Holding(p), ~Holding(p)',
           \A q \in Process \ {p} : /\ at'[q] = at[q] /\ table'[q] = table[q]
                                    /\ todo'[q] = todo[q] /\ doing'[q] = doing[q],
           DatabaseTypeOK', Stage(p)'
    PROVE  StepKeeps
<1>1. OthersStay(p)
  BY DEF OthersStay
<1>2. \A t \in Table : Grows(t)
  BY DEF Grows, NeedsRebuild
<1>3. InTransaction'
  BY DEF InTransaction, DatabaseInv, Holding
<1>4. Versioned' /\ KnownRows'
  BY DEF DatabaseInv, Versioned, KnownRows, RowOf
<1>5. Rebuilding(p)'
  BY DEF Rebuilding, Holding
<1> QED
  BY <1>1, <1>2, <1>3, <1>4, <1>5, Together

LEMMA OpenKeeps == ASSUME DatabaseInv, NEW p \in Process, Open(p) PROVE StepKeeps
<1>1. at \in [Process -> Migrating \union {"closed", "open"}] /\ at' = [at EXCEPT ![p] = "create"]
  BY DEF Open, Goto, DatabaseInv, DatabaseTypeOK
<1>2. DatabaseTypeOK'
  BY <1>1 DEF Open, DatabaseInv, DatabaseTypeOK, Migrating, Table
<1>3. Stage(p)'
  BY <1>1 DEF Open, DatabaseInv, DatabaseTypeOK, Stage
<1> QED
  BY <1>1, <1>2, <1>3, QuietStep DEF Open, Holding, DatabaseInv, DatabaseTypeOK

LEMMA TablesCreatedKeeps ==
    ASSUME DatabaseInv, NEW p \in Process, TablesCreated(p) PROVE StepKeeps
<1>1. at \in [Process -> Migrating \union {"closed", "open"}] /\ at' = [at EXCEPT ![p] = "alter"]
  BY DEF TablesCreated, Goto, DatabaseInv, DatabaseTypeOK
<1>2. todo \in [Process -> Seq(Column)] /\ todo' = [todo EXCEPT ![p] = Added]
  BY DEF TablesCreated, DatabaseInv, DatabaseTypeOK
<1>3. DatabaseTypeOK'
  <2>1. todo' \in [Process -> Seq(Column)]
    BY <1>2, ColumnTypes
  <2> QED
    BY <1>1, <2>1 DEF TablesCreated, DatabaseInv, DatabaseTypeOK, Migrating
<1>4. Stage(p)'
  BY <1>1, <1>2 DEF TablesCreated, DatabaseInv, Stage
<1> QED
  BY <1>1, <1>2, <1>3, <1>4, QuietStep DEF TablesCreated, Holding, DatabaseInv, DatabaseTypeOK

LEMMA ColumnsAddedKeeps ==
    ASSUME DatabaseInv, NEW p \in Process, ColumnsAdded(p) PROVE StepKeeps
<1>1. at \in [Process -> Migrating \union {"closed", "open"}] /\ at' = [at EXCEPT ![p] = "check"]
  BY DEF ColumnsAdded, Goto, DatabaseInv, DatabaseTypeOK
<1>2. DatabaseTypeOK'
  BY <1>1 DEF ColumnsAdded, DatabaseInv, DatabaseTypeOK, Migrating
<1>3. Stage(p)'
  <2>1. Range(todo[p]) = {}
    BY DEF ColumnsAdded, Range
  <2> QED
    BY <1>1, <2>1 DEF ColumnsAdded, DatabaseInv, Stage
<1> QED
  BY <1>1, <1>2, <1>3, QuietStep DEF ColumnsAdded, Holding

(* To the next table, or done. *)
LEMMA TableDoneStage ==
    ASSUME DatabaseInv, NEW p \in Process, TableDone(p),
           at[p] \notin {"closed", "create", "alter", "open"},
           doing'[p] = doing[p],
           \A t \in Table : Grows(t),
           ~NeedsRebuild("repos")' \/ table[p] # "repos",
           ~NeedsRebuild("refs")' \/ table[p] # "refs"
    PROVE  Stage(p)' /\ ~Holding(p)'
<1>0. Stage(p)
  BY DEF DatabaseInv
<1>1. /\ at' = [at EXCEPT ![p] = IF table[p] = "repos" THEN "check" ELSE "open"]
      /\ table' = [table EXCEPT ![p] = "refs"]
      /\ at'[p] = (IF table[p] = "repos" THEN "check" ELSE "open")
      /\ table'[p] = "refs"
  BY DEF TableDone, Goto, DatabaseInv, DatabaseTypeOK, Table
<1>2. \A t \in Table : db[t].exists
  BY <1>0 DEF Stage
<1>3. \A t \in Table : db'[t].exists
  BY <1>2 DEF Grows
<1>4. Range(Added) \subseteq db'["repos"].cols
  BY <1>0, <1>2 DEF Stage, Grows, Table
<1>5. ~NeedsRebuild("repos")'
  BY <1>0, <1>2 DEF Stage, Grows, DatabaseInv, DatabaseTypeOK, Table
<1>6. table[p] = "repos" \/ ~NeedsRebuild("refs")'
  BY DEF DatabaseInv, DatabaseTypeOK, Table
<1>7. doing'[p] = Idle
  BY <1>0 DEF Stage
<1> QED
  BY <1>1, <1>3, <1>4, <1>5, <1>6, <1>7 DEF Stage, Holding

LEMMA TableDoneTypes ==
    ASSUME DatabaseTypeOK, NEW p \in Process, TableDone(p)
    PROVE  /\ at' \in [Process -> Migrating \union {"closed", "open"}]
           /\ table' \in [Process -> Table]
           /\ \A q \in Process \ {p} : at'[q] = at[q] /\ table'[q] = table[q]
BY DEF TableDone, Goto, DatabaseTypeOK, Migrating, Table

LEMMA CheckKeeps == ASSUME DatabaseInv, NEW p \in Process, Check(p) PROVE StepKeeps
<1>1. /\ at \in [Process -> Migrating \union {"closed", "open"}]
      /\ todo \in [Process -> Seq(Column)] /\ table \in [Process -> Table]
  BY DEF DatabaseInv, DatabaseTypeOK
<1>2. CASE NeedsRebuild(table[p])
  <2>1. /\ at' = [at EXCEPT ![p] = "ask"]
        /\ todo' = [todo EXCEPT ![p] = Asked[table[p]]]
    BY <1>2 DEF Check, Goto
  <2>2. DatabaseTypeOK'
    <3>1. todo' \in [Process -> Seq(Column)]
      BY <1>1, <2>1, ColumnTypes
    <3> QED
      BY <1>1, <1>2, <2>1, <3>1 DEF Check, DatabaseInv, DatabaseTypeOK, Migrating
  <2>3. Stage(p)'
    BY <1>1, <1>2, <2>1 DEF Check, DatabaseInv, Stage, NeedsRebuild
  <2> QED
    BY <1>1, <1>2, <2>1, <2>2, <2>3, QuietStep DEF Check, Holding
<1>3. CASE ~NeedsRebuild(table[p])
  <2>1. TableDone(p) /\ UNCHANGED <<todo, found>>
    BY <1>3 DEF Check
  <2>2. DatabaseTypeOK'
    BY <2>1, TableDoneTypes DEF Check, DatabaseInv, DatabaseTypeOK
  <2>3. Stage(p)' /\ ~Holding(p)'
    <3>1. \A t \in Table : Grows(t)
      BY DEF Check, Grows, NeedsRebuild
    <3>2. /\ ~NeedsRebuild("repos")' \/ table[p] # "repos"
          /\ ~NeedsRebuild("refs")' \/ table[p] # "refs"
      BY <1>3 DEF Check, NeedsRebuild
    <3> QED
      BY <2>1, <3>1, <3>2, TableDoneStage DEF Check
  <2> QED
    BY <1>1, <2>1, <2>2, <2>3, TableDoneTypes, QuietStep DEF Check, Holding, DatabaseInv
<1> QED
  BY <1>2, <1>3

LEMMA AskColumnKeeps == ASSUME DatabaseInv, NEW p \in Process, AskColumn(p) PROVE StepKeeps
<1>1. todo \in [Process -> Seq(Column)] /\ todo' = [todo EXCEPT ![p] = Tail(@)]
  BY DEF AskColumn, DatabaseInv, DatabaseTypeOK
<1>2. todo[p] \in Seq(Column) /\ Head(todo[p]) \in Column /\ Tail(todo[p]) \in Seq(Column)
  BY <1>1, HeadTailProperties DEF AskColumn
<1>3. DatabaseTypeOK'
  <2>1. todo' \in [Process -> Seq(Column)]
    BY <1>1, <1>2
  <2>2. found' \in [Process -> SUBSET Column]
    BY <1>2 DEF AskColumn, DatabaseInv, DatabaseTypeOK
  <2> QED
    BY <2>1, <2>2 DEF AskColumn, DatabaseInv, DatabaseTypeOK
<1>4. Stage(p)'
  BY DEF AskColumn, DatabaseInv, Stage, NeedsRebuild, RowOf
<1> QED
  BY <1>1, <1>3, <1>4, QuietStep DEF AskColumn, Holding

-----------------------------------------------------------------------------
(* Calls. *)

SaveCalls == [op : {"learn", "add"}, repo : Repo, step : {"find", "insert", "update", "refs"}]
RefreshCalls == [op : {"refresh"}, repo : Repo, step : {"drop", "refs", "clear"}]
HearCalls == [op : {"hear"}, step : {"delete", "renew"}]
Calls == {Idle} \union SaveCalls \union RefreshCalls \union HearCalls

LEMMA CallTypes ==
    ASSUME DatabaseTypeOK, NEW p \in Process
    PROVE  /\ doing[p] # Idle /\ doing[p].step \in {"find", "insert", "update"} =>
                doing[p] \in SaveCalls
           /\ doing[p] # Idle /\ doing[p].step = "refs" =>
                doing[p] \in SaveCalls \union RefreshCalls
           /\ doing[p] # Idle /\ doing[p].step \in {"drop", "clear"} => doing[p] \in RefreshCalls
           /\ doing[p].op = "hear" => doing[p] \in HearCalls /\ doing[p] # Idle
<1>1. doing[p] \in Calls
  BY DEF DatabaseTypeOK, Calls, SaveCalls, RefreshCalls, HearCalls
<1>2. Idle.op # "hear"
  BY DEF Idle
<1>3. \A call \in SaveCalls :
         call.op # "hear" /\ call.step \in {"find", "insert", "update", "refs"}
  BY DEF SaveCalls
<1>4. \A call \in RefreshCalls : call.op # "hear" /\ call.step \in {"drop", "refs", "clear"}
  BY DEF RefreshCalls
<1>5. \A call \in HearCalls : call.step \in {"delete", "renew"}
  BY DEF HearCalls
<1> QED
  BY <1>1, <1>2, <1>3, <1>4, <1>5 DEF Calls

(* A call goes on. *)
LEMMA StepTypes ==
    ASSUME DatabaseTypeOK, NEW p \in Process, NEW s, Step(p, s)
    PROVE  /\ doing[p] \in SaveCalls /\ s \in {"find", "insert", "update", "refs"} =>
                /\ doing'[p] \in SaveCalls /\ doing'[p].step = s
                /\ doing'[p].repo = doing[p].repo /\ doing'[p].op = doing[p].op
           /\ doing[p] \in RefreshCalls /\ s \in {"refs", "clear"} =>
                /\ doing'[p] \in RefreshCalls /\ doing'[p].step = s
                /\ doing'[p].repo = doing[p].repo /\ doing'[p].op = doing[p].op
           /\ doing[p] \in HearCalls /\ s \in {"delete", "renew"} =>
                /\ doing'[p] \in HearCalls /\ doing'[p].step = s
           /\ \A q \in Process \ {p} : doing'[q] = doing[q]
           /\ DOMAIN doing' = Process /\ doing' = [q \in Process |-> doing'[q]]
<1>1. /\ doing' = [doing EXCEPT ![p] = [doing[p] EXCEPT !.step = s]]
      /\ DOMAIN doing = Process
  BY DEF Step, DatabaseTypeOK
<1>2. /\ doing'[p] = [doing[p] EXCEPT !.step = s]
      /\ \A q \in Process \ {p} : doing'[q] = doing[q]
      /\ DOMAIN doing' = Process /\ doing' = [q \in Process |-> doing'[q]]
  BY <1>1
<1>3. ASSUME doing[p] \in SaveCalls, s \in {"find", "insert", "update", "refs"}
      PROVE  /\ doing'[p] \in SaveCalls /\ doing'[p].step = s
             /\ doing'[p].repo = doing[p].repo /\ doing'[p].op = doing[p].op
  BY <1>2, <1>3 DEF SaveCalls
<1>4. ASSUME doing[p] \in HearCalls, s \in {"delete", "renew"}
      PROVE  doing'[p] \in HearCalls /\ doing'[p].step = s
  BY <1>2, <1>4 DEF HearCalls
<1>5. ASSUME doing[p] \in RefreshCalls, s \in {"refs", "clear"}
      PROVE  /\ doing'[p] \in RefreshCalls /\ doing'[p].step = s
             /\ doing'[p].repo = doing[p].repo /\ doing'[p].op = doing[p].op
  BY <1>2, <1>5 DEF RefreshCalls
<1> QED
  BY <1>2, <1>3, <1>4, <1>5

LEMMA DoingTypes ==
    ASSUME DatabaseTypeOK, NEW p \in Process, NEW call \in Calls,
           doing' = [doing EXCEPT ![p] = call]
    PROVE  /\ doing'[p] = call
           /\ \A q \in Process \ {p} : doing'[q] = doing[q]
           /\ doing' \in [Process -> Calls]
BY DEF DatabaseTypeOK, Calls, SaveCalls, RefreshCalls, HearCalls

LEMMA SaveKeeps ==
    ASSUME DatabaseInv, NEW p \in Process, NEW r \in Repo, NEW op \in {"learn", "add"},
           Save(p, op, r)
    PROVE  StepKeeps
<1> DEFINE call == [op |-> op, repo |-> r, step |-> "find"]
<1>1. call \in SaveCalls /\ call.step = "find"
  BY DEF SaveCalls
<1>2. /\ doing'[p] = call /\ \A q \in Process \ {p} : doing'[q] = doing[q]
      /\ doing' \in [Process -> Calls]
  <2>1. doing' = [doing EXCEPT ![p] = call] /\ DatabaseTypeOK
    BY DEF Save, DatabaseInv
  <2> QED
    BY <1>1, <2>1, DoingTypes DEF Calls
<1> HIDE DEF call
<1>3. DatabaseTypeOK'
  BY <1>2
     DEF Save, openVars, DatabaseInv, DatabaseTypeOK, Calls, SaveCalls, RefreshCalls, HearCalls
<1>4. Stage(p)'
  BY <1>1, <1>2 DEF Save, openVars, DatabaseInv, Stage, OfARow, NeedsRebuild
<1> QED
  BY <1>2, <1>3, <1>4, QuietStep DEF Save, openVars, Holding

LEMMA RefreshKeeps ==
    ASSUME DatabaseInv, NEW p \in Process, NEW r \in Repo, Refresh(p, r) PROVE StepKeeps
<1> DEFINE call == [op |-> "refresh", repo |-> r, step |-> "drop"]
<1>1. call \in RefreshCalls /\ call.repo = r
  BY DEF RefreshCalls
<1>2. /\ doing'[p] = call /\ \A q \in Process \ {p} : doing'[q] = doing[q]
      /\ doing' \in [Process -> Calls]
  <2>1. doing' = [doing EXCEPT ![p] = call] /\ DatabaseTypeOK
    BY DEF Refresh, DatabaseInv
  <2> QED
    BY <1>1, <2>1, DoingTypes DEF Calls
<1> HIDE DEF call
<1>3. DatabaseTypeOK'
  BY <1>2
     DEF Refresh, openVars, DatabaseInv, DatabaseTypeOK, Calls, SaveCalls, RefreshCalls, HearCalls
<1>4. Stage(p)'
  BY <1>1, <1>2 DEF Refresh, openVars, DatabaseInv, Stage, NeedsRebuild, RowOf
<1> QED
  BY <1>2, <1>3, <1>4, QuietStep DEF Refresh, openVars, Holding

LEMMA SaveNodeKeeps == ASSUME DatabaseInv, NEW p \in Process, SaveNode(p) PROVE StepKeeps
<1> DEFINE call == [op |-> "hear", step |-> "delete"]
<1>1. call \in HearCalls /\ call.step = "delete"
  BY DEF HearCalls
<1>2. /\ doing'[p] = call /\ \A q \in Process \ {p} : doing'[q] = doing[q]
      /\ doing' \in [Process -> Calls]
  <2>1. doing' = [doing EXCEPT ![p] = call] /\ DatabaseTypeOK
    BY DEF SaveNode, DatabaseInv
  <2> QED
    BY <1>1, <2>1, DoingTypes DEF Calls
<1> HIDE DEF call
<1>3. DatabaseTypeOK'
  BY <1>2
     DEF SaveNode, openVars, DatabaseInv, DatabaseTypeOK, Calls, SaveCalls, RefreshCalls, HearCalls
<1>4. Stage(p)'
  BY <1>1, <1>2 DEF SaveNode, openVars, DatabaseInv, Stage, OfARow, NeedsRebuild
<1> QED
  BY <1>2, <1>3, <1>4, QuietStep DEF SaveNode, openVars, Holding

LEMMA FindKeeps == ASSUME DatabaseInv, NEW p \in Process, Find(p) PROVE StepKeeps
<1> DEFINE s == IF RowOf(doing[p].repo) = NoRow THEN "insert" ELSE "update"
<1>1. Step(p, s) /\ s \in {"insert", "update"} /\ doing[p] \in SaveCalls /\ doing[p] # Idle
  BY CallTypes DEF Find, DatabaseInv
<1>2. s = "update" => RowOf(doing[p].repo) # NoRow
  OBVIOUS
<1> HIDE DEF s
<1>3. /\ doing'[p] \in SaveCalls /\ doing'[p].step = s /\ doing'[p].repo = doing[p].repo
      /\ \A q \in Process \ {p} : doing'[q] = doing[q]
      /\ doing' = [q \in Process |-> doing'[q]]
  BY <1>1, StepTypes DEF DatabaseInv
<1>4. DatabaseTypeOK'
  <2>1. doing' \in [Process -> Calls]
    BY <1>3 DEF DatabaseInv, DatabaseTypeOK, Calls, SaveCalls, RefreshCalls, HearCalls
  <2> QED
    BY <2>1
       DEF Find, openVars, DatabaseInv, DatabaseTypeOK, Calls, SaveCalls, RefreshCalls, HearCalls
<1>5. Stage(p)'
  <2>1. Stage(p)
    BY DEF DatabaseInv
  <2> QED
    BY <1>1, <1>2, <1>3, <2>1 DEF Find, openVars, Stage, OfARow, NeedsRebuild, RowOf
<1>6. at[p] = "open"
  BY <1>1 DEF DatabaseInv, Stage
<1> QED
  BY <1>3, <1>4, <1>5, <1>6, QuietStep DEF Find, openVars, Holding

(* The steps that delete and insert the row of another node. *)
LEMMA NodeRowKeeps ==
    ASSUME DatabaseInv, NEW p \in Process, DeleteNode(p) \/ InsertNode(p)
    PROVE  StepKeeps
<1>1. doing[p] \in HearCalls /\ doing[p] # Idle
  BY CallTypes DEF DeleteNode, InsertNode, DatabaseInv
<1>2. /\ doing'[p] \in HearCalls \union {Idle}
      /\ \A q \in Process \ {p} : doing'[q] = doing[q]
      /\ doing' \in [Process -> Calls]
  <2>1. CASE DeleteNode(p)
    <3>1. Step(p, "renew")
      BY <2>1 DEF DeleteNode
    <3>2. /\ doing'[p] \in HearCalls /\ \A q \in Process \ {p} : doing'[q] = doing[q]
          /\ doing' = [q \in Process |-> doing'[q]]
      BY <1>1, <3>1, StepTypes DEF DatabaseInv
    <3> QED
      BY <3>2 DEF DatabaseInv, DatabaseTypeOK, Calls, SaveCalls, RefreshCalls, HearCalls
  <2>2. CASE InsertNode(p)
    <3>1. doing' = [doing EXCEPT ![p] = Idle] /\ DatabaseTypeOK
      BY <2>2 DEF InsertNode, DatabaseInv
    <3> QED
      BY <3>1, DoingTypes DEF Calls
  <2> QED
    BY <2>1, <2>2
<1>3. UNCHANGED <<db, writer, work, openVars, aborts, known, stale>> /\ peer' \in BOOLEAN
  BY DEF DeleteNode, InsertNode
<1>4. DatabaseTypeOK'
  BY <1>2, <1>3
     DEF openVars, DatabaseInv, DatabaseTypeOK, Calls, SaveCalls, RefreshCalls, HearCalls
<1>5. at[p] = "open" /\ Stage(p)
  BY <1>1 DEF DatabaseInv, Stage
<1>6. Stage(p)'
  <2>1. doing'[p] # Idle => doing'[p].step \notin OfARow
    BY <1>2 DEF HearCalls, OfARow
  <2> QED
    BY <1>3, <1>5, <2>1 DEF openVars, Stage, NeedsRebuild
<1> QED
  BY <1>2, <1>3, <1>4, <1>5, <1>6, QuietStep DEF openVars, Holding

-----------------------------------------------------------------------------
(* Steps outside of transactions that write. *)

LEMMA WritingStep ==
    ASSUME DatabaseInv, NEW p \in Process, MayWrite(p),
           UNCHANGED <<at, writer, work, table, stale>>,
           ~Holding(p),
           \A q \in Process \ {p} : todo'[q] = todo[q] /\ doing'[q] = doing[q],
           \A t \in Table : Grows(t),
           DatabaseTypeOK', Versioned', KnownRows', Stage(p)'
    PROVE  StepKeeps
<1>1. \A q \in Process : ~Holding(q)
  BY DEF DatabaseInv, InTransaction, MayWrite
<1>2. OthersStay(p)
  BY <1>1 DEF OthersStay
<1>3. InTransaction'
  BY DEF InTransaction, DatabaseInv, Holding
<1>4. Rebuilding(p)'
  BY DEF Rebuilding, Holding
<1> QED
  BY <1>2, <1>3, <1>4, Together

(* A process that has the database open finds the columns of this version. *)
LEMMA CurrentWhenOpen ==
    ASSUME DatabaseInv, NEW p \in Process, at[p] = "open", NEW t \in Table
    PROVE  db[t].exists /\ db[t].cols = Canonical[t]
<1>1. /\ db["repos"].exists /\ db["refs"].exists
      /\ Range(Added) \subseteq db["repos"].cols
      /\ ~NeedsRebuild("repos") /\ ~NeedsRebuild("refs")
  BY DEF DatabaseInv, Stage, Table
<1>2. db["repos"].cols = Canonical["repos"]
  BY <1>1 DEF DatabaseInv, Versioned, NeedsRebuild
<1>3. db["refs"].cols = Canonical["refs"]
  BY <1>1 DEF DatabaseInv, Versioned, NeedsRebuild
<1> QED
  BY <1>1, <1>2, <1>3 DEF Table

LEMMA StoredTypes ==
    ASSUME DatabaseTypeOK, NEW t \in Table
    PROVE  /\ db[t] \in Tables /\ db[t].exists \in BOOLEAN
           /\ db[t].exists =>
                 /\ db[t].cols \in SUBSET Column
                 /\ db[t].rows \in [Repo -> Row \union {NoRow}]
                 /\ db[t] = TableWith(db[t].cols, db[t].rows)
BY TableTypes DEF DatabaseTypeOK

LEMMA CreateTableKeeps ==
    ASSUME DatabaseInv, NEW p \in Process, NEW t \in Table, CreateTable(p, t)
    PROVE  StepKeeps
<1>1. /\ db \in [Table -> Tables] /\ db' = [db EXCEPT ![t] = NewTable(t)]
      /\ ~db[t].exists /\ at[p] = "create"
  BY DEF CreateTable, DatabaseInv, DatabaseTypeOK
<1>2. /\ db'[t] = NewTable(t) /\ db'[t].exists /\ db'[t].cols = Canonical[t]
      /\ \A r \in Repo : db'[t].rows[r] = NoRow
      /\ \A u \in Table \ {t} : db'[u] = db[u]
  BY <1>1, NewTableTypes
<1>3. \A u \in Table : Grows(u)
  BY <1>1, <1>2 DEF Grows, NeedsRebuild
<1>4. DatabaseTypeOK'
  <2>1. db' \in [Table -> Tables]
    BY <1>1, NewTableTypes
  <2> QED
    BY <2>1 DEF CreateTable, openVars, DatabaseInv, DatabaseTypeOK
<1>5. Versioned'
  <2>1. CASE t = "repos"
    <3>1. db'["refs"] = db["refs"]
      BY <1>2, <2>1 DEF Table
    <3>2. \A r \in Repo : RowOf(r)' = NoRow
      BY <1>2, <2>1 DEF RowOf
    <3> QED
      BY <1>2, <2>1, <3>1, <3>2, Names DEF DatabaseInv, Versioned
  <2>2. CASE t = "refs"
    <3>1. db'["repos"] = db["repos"]
      BY <1>2, <2>2 DEF Table
    <3> QED
      BY <1>2, <2>2, <3>1 DEF DatabaseInv, Versioned, RowOf
  <2> QED
    BY <2>1, <2>2 DEF Table
<1>6. KnownRows'
  <2>1. CASE t = "repos"
    <3>1. \A r \in Repo : known[r] = NoRow
      BY <1>1, <2>1 DEF DatabaseInv, KnownRows
    <3> QED
      BY <1>2, <2>1, <3>1 DEF CreateTable, KnownRows, RowOf
  <2>2. CASE t = "refs"
    <3>1. db'["repos"] = db["repos"]
      BY <1>2, <2>2 DEF Table
    <3> QED
      BY <3>1 DEF CreateTable, DatabaseInv, KnownRows, RowOf
  <2> QED
    BY <2>1, <2>2 DEF Table
<1>7. Stage(p)'
  BY <1>1 DEF CreateTable, openVars, DatabaseInv, Stage
<1> QED
  BY <1>1, <1>3, <1>4, <1>5, <1>6, <1>7, WritingStep DEF CreateTable, openVars, Holding

LEMMA AddColumnKeeps == ASSUME DatabaseInv, NEW p \in Process, AddColumn(p) PROVE StepKeeps
<1> DEFINE c == Head(todo[p])
           tab == db["repos"]
<1>1. /\ todo \in [Process -> Seq(Column)] /\ todo' = [todo EXCEPT ![p] = Tail(@)]
      /\ at[p] = "alter" /\ todo[p] # <<>> /\ Stage(p)
  BY DEF AddColumn, DatabaseInv, DatabaseTypeOK
<1>2. /\ c \in Range(todo[p]) /\ Tail(todo[p]) \in Seq(Column)
      /\ Range(todo[p]) = {c} \union Range(Tail(todo[p]))
  <2>1. todo[p] \in Seq(Column)
    BY <1>1
  <2>2. /\ Tail(todo[p]) \in Seq(Column) /\ Len(Tail(todo[p])) = Len(todo[p]) - 1
        /\ \A i \in 1..Len(Tail(todo[p])) : Tail(todo[p])[i] = todo[p][i + 1]
        /\ c = todo[p][1] /\ Len(todo[p]) \in Nat \ {0}
    BY <1>1, <2>1, HeadTailProperties, EmptySeq, LenProperties
  <2>3. DOMAIN todo[p] = 1..Len(todo[p]) /\ DOMAIN Tail(todo[p]) = 1..(Len(todo[p]) - 1)
    BY <2>1, <2>2, LenProperties
  <2> HIDE DEF c
  <2>5. ASSUME NEW i \in 1..Len(todo[p])
        PROVE  todo[p][i] \in {c} \union Range(Tail(todo[p]))
    <3>1. CASE i = 1
      BY <2>2, <3>1
    <3>2. CASE i # 1
      <4>1. i - 1 \in 1..(Len(todo[p]) - 1) /\ (i - 1) + 1 = i
        BY <2>2, <3>2
      <4>2. Tail(todo[p])[i - 1] = todo[p][i]
        BY <2>2, <4>1
      <4> QED
        BY <2>3, <4>1, <4>2 DEF Range
    <3> QED
      BY <3>1, <3>2
  <2>6. ASSUME NEW i \in 1..(Len(todo[p]) - 1)
        PROVE  Tail(todo[p])[i] \in Range(todo[p])
    BY <2>2, <2>3 DEF Range
  <2>7. c \in Range(todo[p])
    BY <2>2, <2>3 DEF Range
  <2> QED
    BY <2>2, <2>3, <2>5, <2>6, <2>7 DEF Range
<1>3. c \in Range(Added) /\ c \in Column
  BY <1>1, <1>2, Names, ColumnTypes DEF Stage, Table
<1>4. tab.exists /\ tab \in Tables /\ tab = TableWith(tab.cols, tab.rows)
      /\ tab.cols \in SUBSET Column /\ tab.rows \in [Repo -> Row \union {NoRow}]
  BY <1>1, StoredTypes DEF Stage, DatabaseInv, Table
<1> HIDE DEF c
<1>5. /\ db'["repos"] = TableWith(tab.cols \union {c}, tab.rows)
      /\ db'["refs"] = db["refs"] /\ db' \in [Table -> Tables]
  <2>1. /\ db \in [Table -> Tables]
        /\ db' = [db EXCEPT !["repos"] = [tab EXCEPT !.cols = @ \union {c}]]
    BY DEF AddColumn, DatabaseInv, DatabaseTypeOK, c
  <2>2. [tab EXCEPT !.cols = @ \union {c}] = TableWith(tab.cols \union {c}, tab.rows)
    <3> DEFINE new == [tab EXCEPT !.cols = tab.cols \union {c}]
    <3>1. tab \in [exists : {TRUE}, cols : SUBSET Column, rows : [Repo -> Row \union {NoRow}]]
      BY <1>4 DEF TableWith
    <3>2. /\ new \in [exists : {TRUE}, cols : SUBSET Column,
                      rows : [Repo -> Row \union {NoRow}]]
          /\ new.cols = tab.cols \union {c} /\ new.rows = tab.rows
      BY <1>3, <1>4, <3>1
    <3> HIDE DEF new
    <3>3. new = TableWith(new.cols, new.rows)
      BY <3>2 DEF TableWith
    <3> QED
      BY <3>2, <3>3 DEF new
  <2>3. TableWith(tab.cols \union {c}, tab.rows) \in Tables
    BY <1>3, <1>4, TableTypes
  <2> QED
    BY <2>1, <2>2, <2>3 DEF Table
<1>6. /\ db'["repos"].exists /\ db'["repos"].cols = tab.cols \union {c}
      /\ db'["repos"].rows = tab.rows
  BY <1>3, <1>4, <1>5, TableTypes
<1>7. c \in tab.cols => db' = db
  <2>1. c \in tab.cols => db'["repos"] = db["repos"]
    BY <1>4, <1>5
  <2>2. db \in [Table -> Tables]
    BY DEF DatabaseInv, DatabaseTypeOK
  <2>3. ASSUME c \in tab.cols, NEW t \in Table
        PROVE  db'[t] = db[t]
    BY <1>5, <2>1, <2>3 DEF Table
  <2> QED
    BY <1>5, <2>2, <2>3
<1>8. \A t \in Table : Grows(t)
  <2>1. c # "timestamp"
    BY <1>3, Names
  <2> QED
    BY <1>5, <1>6, <2>1 DEF Grows, NeedsRebuild, Table
<1>9. DatabaseTypeOK'
  <2>1. todo' \in [Process -> Seq(Column)]
    BY <1>1, <1>2
  <2> QED
    BY <1>5, <2>1 DEF AddColumn, DatabaseInv, DatabaseTypeOK
<1>10. Versioned'
  <2>1. ASSUME NEW r \in Repo, RowOf(r) # NoRow, NEW a \in Attr, RowOf(r)[a]
        PROVE  Kept(a, tab.cols \union {c})
    BY <1>4, <2>1 DEF DatabaseInv, Versioned, Kept
  <2>2. \/ "timestamp" \in tab.cols \union {c}
        \/ (tab.cols \union {c}) \union Range(Added) = Canonical["repos"]
    BY <1>3, <1>4 DEF DatabaseInv, Versioned
  <2>3. (db["refs"].exists /\ {"key", "created_at"} \subseteq db["refs"].cols) =>
            db["refs"].cols = Canonical["refs"]
    BY DEF DatabaseInv, Versioned
  <2> QED
    BY <1>5, <1>6, <2>1, <2>2, <2>3 DEF Versioned, RowOf
<1>11. KnownRows'
  BY <1>4, <1>6 DEF AddColumn, DatabaseInv, KnownRows, RowOf
<1>12. Stage(p)'
  <2>1. todo'[p] = Tail(todo[p]) /\ at'[p] = "alter" /\ table'[p] = table[p]
        /\ doing'[p] = doing[p]
    BY <1>1 DEF AddColumn
  <2>2. \A t \in Table : db'[t].exists
    BY <1>1, <1>5, <1>6 DEF Stage, Table
  <2>3. Range(Added) \subseteq (tab.cols \union {c}) \union Range(Tail(todo[p]))
    BY <1>1, <1>2 DEF Stage
  <2> QED
    BY <1>1, <1>2, <1>6, <2>1, <2>2, <2>3 DEF Stage
<1>13. OthersStay(p)
  <2>1. c \in tab.cols \/ \A q \in Process : ~Holding(q)
    BY <1>1 DEF AddColumn, MayWrite, DatabaseInv, InTransaction, Holding, c
  <2>2. \A q \in Process \ {p} : todo'[q] = todo[q]
    BY <1>1
  <2> QED
    BY <1>7, <2>1, <2>2 DEF AddColumn, OthersStay
<1>14. InTransaction' /\ Rebuilding(p)'
  BY <1>1 DEF AddColumn, DatabaseInv, InTransaction, Rebuilding, Holding
<1> QED
  BY <1>8, <1>9, <1>10, <1>11, <1>12, <1>13, <1>14, Together

(* What a row that is written does to the tables. *)
LEMMA RowWritten ==
    ASSUME DatabaseTypeOK, NEW t \in Table, NEW r \in Repo, NEW row \in Row \union {NoRow},
           db[t].exists, db' = [db EXCEPT ![t].rows[r] = row]
    PROVE  /\ db' \in [Table -> Tables]
           /\ db'[t].exists /\ db'[t].cols = db[t].cols
           /\ \A s \in Repo : db'[t].rows[s] = IF s = r THEN row ELSE db[t].rows[s]
           /\ \A u \in Table \ {t} : db'[u] = db[u]
           /\ row # NoRow \/ (t = "refs" /\ \E p \in Process : Updated(p, r)) =>
                 \A u \in Table : Grows(u)
<1> DEFINE tab == db[t]
           new == [tab EXCEPT !.rows = [tab.rows EXCEPT ![r] = row]]
           Whole == [exists : {TRUE}, cols : SUBSET Column, rows : [Repo -> Row \union {NoRow}]]
<1>1. tab \in Tables /\ tab.exists
  BY StoredTypes
<1>2. tab \in Whole /\ tab.rows \in [Repo -> Row \union {NoRow}]
  <2>1. NoTable.exists = FALSE
    BY TableTypes
  <2> QED
    BY <1>1, <2>1 DEF Tables
<1>3. [tab.rows EXCEPT ![r] = row] \in [Repo -> Row \union {NoRow}]
  BY <1>2
<1>4. new \in Whole /\ new.cols = tab.cols /\ new.rows = [tab.rows EXCEPT ![r] = row]
  BY <1>2, <1>3
<1>5. db' = [db EXCEPT ![t] = new]
  OBVIOUS
<1>6. \A s \in Repo : new.rows[s] = IF s = r THEN row ELSE tab.rows[s]
  BY <1>2, <1>4
<1>7. new \in Tables /\ new.exists
  BY <1>4 DEF Tables
<1> HIDE DEF new
<1>8. /\ db' \in [Table -> Tables] /\ db'[t] = new
      /\ \A u \in Table \ {t} : db'[u] = db[u]
  <2>1. \A x \in Tables : db' = [db EXCEPT ![t] = x] =>
           /\ db' \in [Table -> Tables] /\ db'[t] = x
           /\ \A u \in Table \ {t} : db'[u] = db[u]
    BY DEF DatabaseTypeOK
  <2> QED
    BY <1>5, <1>7, <2>1
<1>9. ASSUME row # NoRow \/ (t = "refs" /\ \E p \in Process : Updated(p, r))
      PROVE  \A u \in Table : Grows(u)
  BY <1>4, <1>6, <1>7, <1>8, <1>9 DEF Grows, NeedsRebuild
<1> QED
  BY <1>4, <1>6, <1>7, <1>8, <1>9

LEMMA RowSaved ==
    ASSUME DatabaseTypeOK, NEW t \in Table, NEW r \in Repo, NEW row \in Row,
           db[t].exists, db' = [db EXCEPT ![t].rows[r] = row]
    PROVE  /\ db' \in [Table -> Tables]
           /\ db'[t].exists /\ db'[t].cols = db[t].cols
           /\ \A s \in Repo : db'[t].rows[s] = IF s = r THEN row ELSE db[t].rows[s]
           /\ \A u \in Table \ {t} : db'[u] = db[u]
           /\ \A u \in Table : Grows(u)
<1>1. db[t].exists /\ db' = [db EXCEPT ![t].rows[r] = row]
  OBVIOUS
<1>2. DatabaseTypeOK /\ t \in Table /\ r \in Repo /\ row \in Row \union {NoRow}
  OBVIOUS
<1>3. /\ db' \in [Table -> Tables]
      /\ db'[t].exists /\ db'[t].cols = db[t].cols
      /\ \A s \in Repo : db'[t].rows[s] = IF s = r THEN row ELSE db[t].rows[s]
      /\ \A u \in Table \ {t} : db'[u] = db[u]
      /\ row # NoRow \/ (t = "refs" /\ \E p \in Process : Updated(p, r)) =>
            \A u \in Table : Grows(u)
  BY ONLY <1>1, <1>2, RowWritten, Zenon
<1> QED
  BY <1>3, RowTypes

LEMMA RepoWritten ==
    ASSUME DatabaseInv, NEW p \in Process, at[p] = "open", NEW r \in Repo, NEW row \in Row,
           Write(r, row), UNCHANGED stale
    PROVE  /\ db' \in [Table -> Tables] /\ known' \in [Repo -> Row \union {NoRow}]
           /\ Versioned' /\ KnownRows'
           /\ \A t \in Table : Grows(t)
           /\ \A t \in Table : db'[t].exists /\ db'[t].cols = db[t].cols
           /\ \A s \in Repo : RowOf(s)' # NoRow <=> s = r \/ RowOf(s) # NoRow
<1>1. \A t \in Table : db[t].exists /\ db[t].cols = Canonical[t]
  BY CurrentWhenOpen
<1>2. known \in [Repo -> Row \union {NoRow}] /\ known' = [known EXCEPT ![r] = row]
  BY DEF Write, DatabaseInv, DatabaseTypeOK
<1>3. /\ db' \in [Table -> Tables]
      /\ db'["repos"].exists /\ db'["repos"].cols = db["repos"].cols
      /\ \A s \in Repo : db'["repos"].rows[s] = IF s = r THEN row ELSE db["repos"].rows[s]
      /\ \A u \in Table \ {"repos"} : db'[u] = db[u]
      /\ \A u \in Table : Grows(u)
  <2>1. db' = [db EXCEPT !["repos"].rows[r] = row] /\ "repos" \in Table
    BY DEF Write, Table
  <2> QED
    BY <1>1, <2>1, RowSaved DEF DatabaseInv
<1>4. Versioned'
  <2>1. db["repos"].cols = Canonical["repos"] /\ Attr \subseteq Canonical["repos"]
    BY <1>1, Names DEF Table, Attr
  <2>2. \A a \in Attr : Kept(a, db'["repos"].cols)
    BY <1>3, <2>1 DEF Kept
  <2>3. db'["repos"].cols \union Range(Added) = Canonical["repos"]
    BY <1>3, <2>1, Names
  <2>4. db'["refs"] = db["refs"]
    BY <1>3 DEF Table
  <2> QED
    BY <2>2, <2>3, <2>4 DEF DatabaseInv, Versioned
<1>5. KnownRows'
  <2>1. stale \/ \A s \in Repo : RowOf(s) = known[s]
    BY <1>1 DEF DatabaseInv, KnownRows, Table
  <2> QED
    BY <1>2, <1>3, <2>1 DEF KnownRows, RowOf
<1>6. \A s \in Repo : RowOf(s)' # NoRow <=> s = r \/ RowOf(s) # NoRow
  BY <1>3, RowTypes DEF RowOf
<1> QED
  BY <1>1, <1>2, <1>3, <1>4, <1>5, <1>6 DEF Table

LEMMA SetBundleKeeps ==
    ASSUME DatabaseInv, NEW p \in Process, NEW r \in Repo, SetBundle(p, r)
    PROVE  StepKeeps
<1> DEFINE row == [RowOf(r) EXCEPT !["bundle"] = TRUE]
<1>1. row \in Row
  <2>1. db["repos"].exists
    BY CurrentWhenOpen DEF SetBundle, Table
  <2>2. RowOf(r) \in Row
    BY <2>1, StoredTypes DEF SetBundle, RowOf, DatabaseInv, Table
  <2> QED
    BY <2>2 DEF Row, Attr
<1>2. Write(r, row)
  BY DEF SetBundle
<1> HIDE DEF row
<1>3. /\ db' \in [Table -> Tables] /\ known' \in [Repo -> Row \union {NoRow}]
      /\ Versioned' /\ KnownRows'
      /\ \A t \in Table : Grows(t)
      /\ \A t \in Table : db'[t].exists /\ db'[t].cols = db[t].cols
      /\ \A s \in Repo : RowOf(s)' # NoRow <=> s = r \/ RowOf(s) # NoRow
  BY <1>1, <1>2, RepoWritten DEF SetBundle
<1>4. DatabaseTypeOK'
  BY <1>3 DEF SetBundle, openVars, DatabaseInv, DatabaseTypeOK
<1>5. Stage(p)'
  <2>1. Stage(p)
    BY DEF DatabaseInv
  <2>2. doing[p] # Idle /\ doing[p].step \in OfARow => doing[p].repo \in Repo
    BY CallTypes DEF DatabaseInv, SaveCalls, RefreshCalls, OfARow
  <2> QED
    BY <1>3, <2>1, <2>2 DEF SetBundle, openVars, Stage, NeedsRebuild, RowOf, Table
<1> QED
  BY <1>3, <1>4, <1>5, WritingStep DEF SetBundle, openVars, Holding

LEMMA SavedAsRow ==
    ASSUME NEW p, NEW created \in BOOLEAN PROVE SavedAs(p, created) \in Row
<1>1. ASSUME NEW c \in Attr
      PROVE  SavedAs(p, created)[c] \in BOOLEAN
  BY <1>1 DEF SavedAs, Attr
<1>2. SavedAs(p, created) = [c \in Attr |-> SavedAs(p, created)[c]]
  <2> DEFINE value(c) == CASE c = "bundle" -> FALSE
                           [] c = "is_external" -> doing[p].op = "learn"
                           [] c = "created_at" -> created
             row == [c \in Attr |-> value(c)]
  <2>1. SavedAs(p, created) = row
    BY Zenon DEF SavedAs
  <2> HIDE DEF value
  <2>2. row = [c \in Attr |-> row[c]]
    OBVIOUS
  <2> QED
    BY <2>1, <2>2
<1> QED
  BY <1>1, <1>2 DEF Row

(* A save has written the row; then come the refs. *)
LEMMA SavedRepoKeeps ==
    ASSUME DatabaseInv, NEW p \in Process, NEW row \in Row,
           doing[p] \in SaveCalls, doing[p] # Idle, Write(doing[p].repo, row), Step(p, "refs"),
           MayWrite(p), UNCHANGED <<writer, work, openVars, peer, aborts, stale>>
    PROVE  StepKeeps
<1>1. at[p] = "open" /\ Stage(p)
  BY DEF DatabaseInv, Stage
<1>2. doing[p].repo \in Repo
  BY DEF SaveCalls
<1>3. /\ db' \in [Table -> Tables] /\ known' \in [Repo -> Row \union {NoRow}]
      /\ Versioned' /\ KnownRows'
      /\ \A t \in Table : Grows(t)
      /\ \A t \in Table : db'[t].exists /\ db'[t].cols = db[t].cols
      /\ db'["repos"].rows[doing[p].repo] # NoRow
  BY <1>1, <1>2, RepoWritten DEF RowOf
<1>4. /\ doing'[p] \in SaveCalls /\ doing'[p].step = "refs"
      /\ doing'[p].repo = doing[p].repo
      /\ \A q \in Process \ {p} : doing'[q] = doing[q]
      /\ doing' = [q \in Process |-> doing'[q]]
  BY StepTypes DEF DatabaseInv
<1>5. DatabaseTypeOK'
  <2>1. doing' \in [Process -> Calls]
    BY <1>4 DEF DatabaseInv, DatabaseTypeOK, Calls, SaveCalls, RefreshCalls, HearCalls
  <2> QED
    BY <1>3, <2>1
       DEF openVars, DatabaseInv, DatabaseTypeOK, Calls, SaveCalls, RefreshCalls, HearCalls
<1>6. Stage(p)'
  BY <1>1, <1>3, <1>4 DEF openVars, Stage, NeedsRebuild, RowOf, Table
<1> QED
  BY <1>1, <1>3, <1>4, <1>5, <1>6, WritingStep DEF openVars, Holding

LEMMA InsertKeeps == ASSUME DatabaseInv, NEW p \in Process, Insert(p) PROVE StepKeeps
<1>1. doing[p] \in SaveCalls /\ doing[p] # Idle
  BY CallTypes DEF Insert, DatabaseInv
<1>2. CASE RowOf(doing[p].repo) = NoRow
  BY <1>1, <1>2, SavedAsRow, SavedRepoKeeps DEF Insert
<1>3. CASE RowOf(doing[p].repo) # NoRow
  <2>1. /\ doing' = [doing EXCEPT ![p] = Idle]
        /\ UNCHANGED <<db, known, writer, work, openVars, peer, aborts, stale>>
    BY <1>3 DEF Insert
  <2>2. /\ doing'[p] = Idle /\ \A q \in Process \ {p} : doing'[q] = doing[q]
        /\ doing' \in [Process -> Calls]
    BY <2>1, DoingTypes DEF DatabaseInv, Calls
  <2>3. DatabaseTypeOK'
    BY <2>1, <2>2
       DEF openVars, DatabaseInv, DatabaseTypeOK, Calls, SaveCalls, RefreshCalls, HearCalls
  <2>4. at[p] = "open" /\ Stage(p)
    BY <1>1 DEF DatabaseInv, Stage
  <2>5. Stage(p)'
    BY <2>1, <2>2, <2>4 DEF openVars, Stage, NeedsRebuild
  <2> QED
    BY <2>1, <2>2, <2>3, <2>4, <2>5, QuietStep DEF openVars, Holding
<1> QED
  BY <1>2, <1>3

LEMMA UpdateKeeps == ASSUME DatabaseInv, NEW p \in Process, Update(p) PROVE StepKeeps
<1>1. doing[p] \in SaveCalls /\ doing[p] # Idle
  BY CallTypes DEF Update, DatabaseInv
<1>2. RowOf(doing[p].repo)["created_at"] \in BOOLEAN
  <2>1. RowOf(doing[p].repo) # NoRow /\ at[p] = "open"
    BY <1>1 DEF Update, DatabaseInv, Stage, OfARow
  <2>2. doing[p].repo \in Repo /\ db["repos"].exists
    BY <1>1, <2>1, CurrentWhenOpen DEF SaveCalls, Table
  <2>3. RowOf(doing[p].repo) \in Row
    BY <2>1, <2>2, StoredTypes DEF RowOf, DatabaseInv, Table
  <2> QED
    BY <2>3 DEF Row, Attr
<1> QED
  BY <1>1, <1>2, SavedAsRow, SavedRepoKeeps DEF Update

(* A statement of a save or of an update, and its call goes on or ends. *)
RefStep(p) ==
    /\ doing[p] \in SaveCalls \union RefreshCalls /\ doing[p] # Idle
    /\ doing[p].step \in OfARow
    /\ doing'[p] \in Calls
    /\ doing'[p] # Idle => doing'[p].step \in OfARow /\ doing'[p].repo = doing[p].repo
    /\ \A q \in Process \ {p} : doing'[q] = doing[q]
    /\ doing' \in [Process -> Calls]

LEMMA RefSteps ==
    ASSUME DatabaseInv, NEW p \in Process, DropRefs(p) \/ SaveRefs(p) \/ ClearBundle(p)
    PROVE  RefStep(p) /\ UNCHANGED <<writer, work, openVars, peer, aborts, stale>>
<1>1. UNCHANGED <<writer, work, openVars, peer, aborts, stale>>
  BY DEF DropRefs, SaveRefs, ClearBundle
<1>2. /\ doing[p] \in SaveCalls \union RefreshCalls /\ doing[p] # Idle
      /\ doing[p].step \in OfARow /\ DatabaseTypeOK
  BY CallTypes DEF DropRefs, SaveRefs, ClearBundle, DatabaseInv, OfARow
<1>3. CASE doing' = [doing EXCEPT ![p] = Idle]
  <2>1. /\ doing'[p] = Idle /\ \A q \in Process \ {p} : doing'[q] = doing[q]
        /\ doing' \in [Process -> Calls]
    BY <1>2, <1>3, DoingTypes DEF Calls
  <2> QED
    BY <1>1, <1>2, <2>1 DEF RefStep, Calls
<1>4. ASSUME NEW s \in {"refs", "clear"}, doing[p] \in RefreshCalls, Step(p, s)
      PROVE  RefStep(p)
  <2>1. /\ doing'[p] \in RefreshCalls /\ doing'[p].step = s
        /\ doing'[p].repo = doing[p].repo
        /\ \A q \in Process \ {p} : doing'[q] = doing[q]
        /\ doing' = [q \in Process |-> doing'[q]]
    BY <1>2, <1>4, StepTypes
  <2>2. doing' \in [Process -> Calls]
    BY <1>2, <2>1 DEF DatabaseTypeOK, Calls, SaveCalls, RefreshCalls, HearCalls
  <2> QED
    BY <1>2, <2>1, <2>2 DEF RefStep, OfARow, Calls
<1>5. CASE DropRefs(p)
  BY <1>1, <1>2, <1>4, <1>5, CallTypes DEF DropRefs
<1>6. CASE SaveRefs(p)
  <2>1. CASE doing[p].op = "refresh"
    <3>1. doing[p] \in RefreshCalls
      BY <1>2, <2>1 DEF SaveCalls
    <3> QED
      BY <1>1, <1>4, <1>6, <2>1, <3>1 DEF SaveRefs
  <2>2. CASE doing[p].op # "refresh"
    BY <1>1, <1>3, <1>6, <2>2 DEF SaveRefs
  <2> QED
    BY <2>1, <2>2
<1>7. CASE ClearBundle(p)
  BY <1>1, <1>3, <1>7 DEF ClearBundle
<1> QED
  BY <1>5, <1>6, <1>7

(* It may fail, or have nothing to write. *)
LEMMA NothingWrittenKeeps ==
    ASSUME DatabaseInv, NEW p \in Process, RefStep(p),
           UNCHANGED <<db, known, writer, work, openVars, peer, aborts, stale>>
    PROVE  StepKeeps
<1>1. DatabaseTypeOK'
  BY DEF RefStep, openVars, DatabaseInv, DatabaseTypeOK, Calls, SaveCalls, RefreshCalls, HearCalls
<1>2. at[p] = "open" /\ Stage(p)
  BY DEF RefStep, DatabaseInv, Stage
<1>3. Stage(p)'
  BY <1>2 DEF RefStep, openVars, Stage, NeedsRebuild, RowOf
<1> QED
  BY <1>1, <1>2, <1>3, QuietStep DEF RefStep, openVars, Holding

(* It may write or delete refs. *)
LEMMA RefsWrittenKeeps ==
    ASSUME DatabaseInv, NEW p \in Process, RefStep(p), NEW row \in Row \union {NoRow},
           db' = [db EXCEPT !["refs"].rows[doing[p].repo] = row],
           row # NoRow \/ Updated(p, doing[p].repo), MayWrite(p),
           UNCHANGED <<known, writer, work, openVars, peer, aborts, stale>>
    PROVE  StepKeeps
<1>1. at[p] = "open" /\ Stage(p)
  BY DEF RefStep, DatabaseInv, Stage
<1>2. PICK r \in Repo : r = doing[p].repo
  BY DEF RefStep, SaveCalls, RefreshCalls
<1>3. "refs" \in Table /\ db["refs"].exists /\ DatabaseTypeOK
  BY <1>1, CurrentWhenOpen DEF Table, DatabaseInv
<1>4. db' = [db EXCEPT !["refs"].rows[r] = row]
  BY <1>2
<1>5. /\ db' \in [Table -> Tables]
      /\ db'["refs"].exists /\ db'["refs"].cols = db["refs"].cols
      /\ \A u \in Table \ {"refs"} : db'[u] = db[u]
      /\ row # NoRow \/ ("refs" = "refs" /\ \E q \in Process : Updated(q, r)) =>
            \A u \in Table : Grows(u)
  BY <1>3, <1>4, RowWritten
<1>6. db'["repos"] = db["repos"] /\ \A u \in Table : Grows(u)
  BY <1>2, <1>5 DEF Table
<1>7. DatabaseTypeOK'
  BY <1>5 DEF RefStep, openVars, DatabaseInv, DatabaseTypeOK, Calls, SaveCalls, RefreshCalls,
              HearCalls
<1>8. Versioned' /\ KnownRows'
  BY <1>3, <1>5, <1>6 DEF DatabaseInv, Versioned, KnownRows, RowOf
<1>9. Stage(p)'
  BY <1>1, <1>5, <1>6 DEF RefStep, openVars, Stage, NeedsRebuild, RowOf, Table
<1> QED
  BY <1>1, <1>6, <1>7, <1>8, <1>9, WritingStep DEF RefStep, openVars, Holding

LEMMA DropRefsKeeps == ASSUME DatabaseInv, NEW p \in Process, DropRefs(p) PROVE StepKeeps
<1>1. RefStep(p) /\ UNCHANGED <<writer, work, openVars, peer, aborts, stale, known>>
  BY RefSteps DEF DropRefs
<1>2. CASE UNCHANGED db
  BY <1>1, <1>2, NothingWrittenKeeps
<1>3. CASE MayWrite(p) /\ db' = [db EXCEPT !["refs"].rows[doing[p].repo] = NoRow]
  <2>1. doing[p] \in RefreshCalls /\ doing[p].step = "drop" /\ Step(p, "refs")
    BY CallTypes DEF DropRefs, DatabaseInv
  <2>2. doing'[p].step = "refs"
    BY <2>1, StepTypes DEF DatabaseInv
  <2>3. Updated(p, doing[p].repo)
    BY <2>1, <2>2 DEF Updated, RefreshCalls
  <2> QED
    BY <1>1, <1>3, <2>3, RefsWrittenKeeps
<1> QED
  BY <1>2, <1>3 DEF DropRefs

LEMMA SaveRefsKeeps == ASSUME DatabaseInv, NEW p \in Process, SaveRefs(p) PROVE StepKeeps
<1> DEFINE row == [c \in Attr |-> FALSE]
<1>1. RefStep(p) /\ UNCHANGED <<writer, work, openVars, peer, aborts, stale, known>>
  BY RefSteps DEF SaveRefs
<1>2. CASE UNCHANGED db
  BY <1>1, <1>2, NothingWrittenKeeps
<1>3. CASE MayWrite(p) /\ db' = [db EXCEPT !["refs"].rows[doing[p].repo] = row]
  <2>1. row \in Row /\ row # NoRow
    <3>1. row \in Row
      BY DEF Row
    <3> QED
      BY <3>1, RowTypes
  <2> HIDE DEF row
  <2> QED
    BY <1>1, <1>3, <2>1, RefsWrittenKeeps
<1> QED
  BY <1>2, <1>3 DEF SaveRefs

LEMMA ClearBundleKeeps == ASSUME DatabaseInv, NEW p \in Process, ClearBundle(p) PROVE StepKeeps
<1> DEFINE row == [RowOf(doing[p].repo) EXCEPT !["bundle"] = FALSE]
<1>1. RefStep(p) /\ UNCHANGED <<writer, work, openVars, peer, aborts, stale>>
  BY RefSteps
<1>2. CASE UNCHANGED <<db, known>>
  BY <1>1, <1>2, NothingWrittenKeeps
<1>3. CASE MayWrite(p) /\ Write(doing[p].repo, row)
  <2>1. /\ at[p] = "open" /\ Stage(p) /\ doing[p].repo \in Repo
        /\ RowOf(doing[p].repo) # NoRow
    BY <1>1 DEF RefStep, DatabaseInv, Stage, SaveCalls, RefreshCalls
  <2>2. row \in Row
    <3>1. RowOf(doing[p].repo) \in Row
      BY <2>1, CurrentWhenOpen, StoredTypes DEF RowOf, DatabaseInv, Table
    <3> QED
      BY <3>1 DEF Row, Attr
  <2> HIDE DEF row
  <2>3. /\ db' \in [Table -> Tables] /\ known' \in [Repo -> Row \union {NoRow}]
        /\ Versioned' /\ KnownRows'
        /\ \A t \in Table : Grows(t)
        /\ \A t \in Table : db'[t].exists /\ db'[t].cols = db[t].cols
        /\ \A s \in Repo : RowOf(s)' # NoRow <=> s = doing[p].repo \/ RowOf(s) # NoRow
    BY <1>1, <1>3, <2>1, <2>2, RepoWritten
  <2>4. DatabaseTypeOK'
    BY <1>1, <2>3
       DEF RefStep, openVars, DatabaseInv, DatabaseTypeOK, Calls, SaveCalls, RefreshCalls,
           HearCalls
  <2>5. Stage(p)'
    BY <1>1, <2>1, <2>3 DEF RefStep, openVars, Stage, NeedsRebuild, RowOf, Table
  <2> QED
    BY <1>1, <1>3, <2>1, <2>3, <2>4, <2>5, WritingStep DEF RefStep, openVars, Holding
<1> QED
  BY <1>2, <1>3 DEF ClearBundle

-----------------------------------------------------------------------------
(* Steps of a transaction: no other process is in one. *)

LEMMA TransactionStep ==
    ASSUME DatabaseInv, NEW p \in Process,
           writer \subseteq {p}, writer' \subseteq {p}, p \in writer' <=> Holding(p)',
           \A q \in Process \ {p} : /\ at'[q] = at[q] /\ table'[q] = table[q]
                                    /\ todo'[q] = todo[q] /\ doing'[q] = doing[q],
           \A t \in Table : Grows(t),
           DatabaseTypeOK', Versioned', KnownRows', Stage(p)', Rebuilding(p)'
    PROVE  StepKeeps
<1>1. \A q \in Process \ {p} : ~Holding(q)
  BY DEF DatabaseInv, InTransaction
<1>2. OthersStay(p)
  BY <1>1 DEF OthersStay
<1>3. InTransaction'
  <2> SUFFICES ASSUME NEW q \in Process
               PROVE  q \in writer' <=> Holding(q)'
    BY DEF InTransaction
  <2>1. CASE q = p
    BY <2>1
  <2>2. CASE q # p
    BY <1>1, <2>2 DEF Holding
  <2> QED
    BY <2>1, <2>2
<1> QED
  BY <1>2, <1>3, Together

LEMMA HoldingAlone ==
    ASSUME DatabaseInv, NEW p \in Process, Holding(p) PROVE writer = {p}
BY DEF DatabaseInv, DatabaseTypeOK, InTransaction

LEMMA BeginKeeps == ASSUME DatabaseInv, NEW p \in Process, Begin(p) PROVE StepKeeps
<1>1. /\ at \in [Process -> Migrating \union {"closed", "open"}] /\ at' = [at EXCEPT ![p] = "copy"]
      /\ table[p] \in Table
  BY DEF Begin, Goto, DatabaseInv, DatabaseTypeOK
<1>2. DatabaseTypeOK'
  <2>1. NewTable(table[p]) \in Tables /\ db[table[p]] \in Tables
    BY <1>1, NewTableTypes DEF DatabaseInv, DatabaseTypeOK
  <2> QED
    BY <1>1, <2>1 DEF Begin, DatabaseInv, DatabaseTypeOK, Migrating, Transaction
<1>3. \A t \in Table : Grows(t)
  BY DEF Begin, Grows, NeedsRebuild
<1>4. Versioned' /\ KnownRows'
  BY DEF Begin, DatabaseInv, Versioned, KnownRows, RowOf
<1>5. Stage(p)'
  BY <1>1 DEF Begin, DatabaseInv, Stage, NeedsRebuild
<1>6. Rebuilding(p)'
  BY <1>1 DEF Begin, Rebuilding
<1>7. writer = {} /\ writer' = {p} /\ Holding(p)'
  BY <1>1 DEF Begin, Holding
<1>8. \A q \in Process \ {p} : at'[q] = at[q] /\ table'[q] = table[q]
                               /\ todo'[q] = todo[q] /\ doing'[q] = doing[q]
  BY <1>1 DEF Begin
<1> QED
  BY <1>2, <1>3, <1>4, <1>5, <1>6, <1>7, <1>8, TransactionStep

(* Steps of p's transaction that leave the tables as they are. *)
LEMMA UncommittedStep ==
    ASSUME DatabaseInv, NEW p \in Process, Holding(p), NEW to \in {"drop", "rename", "commit"},
           Goto(p, to), UNCHANGED <<db, writer, table, todo, found, peer, doing, aborts, known>>,
           stale' \in BOOLEAN, stale => stale', work' \in [new : Tables, old : Tables],
           Rebuilding(p)'
    PROVE  StepKeeps
<1>1. at \in [Process -> Migrating \union {"closed", "open"}] /\ at' = [at EXCEPT ![p] = to]
  BY DEF Goto, DatabaseInv, DatabaseTypeOK
<1>2. DatabaseTypeOK'
  BY <1>1 DEF DatabaseInv, DatabaseTypeOK, Migrating, Transaction
<1>3. \A t \in Table : Grows(t)
  BY DEF Grows, NeedsRebuild
<1>4. Versioned' /\ KnownRows'
  BY DEF DatabaseInv, Versioned, KnownRows, RowOf
<1>5. Stage(p)'
  BY <1>1 DEF DatabaseInv, Stage, NeedsRebuild, Holding
<1>6. writer = {p} /\ Holding(p)'
  BY <1>1, HoldingAlone DEF Holding
<1>7. \A q \in Process \ {p} : at'[q] = at[q] /\ table'[q] = table[q]
                               /\ todo'[q] = todo[q] /\ doing'[q] = doing[q]
  BY <1>1
<1> QED
  BY <1>2, <1>3, <1>4, <1>5, <1>6, <1>7, TransactionStep

LEMMA WorkTypes ==
    ASSUME DatabaseTypeOK
    PROVE  /\ work.new \in Tables /\ work.old \in Tables
           /\ \A new \in Tables : \A old \in Tables :
                 /\ [new |-> new, old |-> old] \in [new : Tables, old : Tables]
                 /\ [new |-> new, old |-> old].new = new
                 /\ [new |-> new, old |-> old].old = old
BY DEF DatabaseTypeOK

LEMMA CopyKeeps == ASSUME DatabaseInv, NEW p \in Process, Copy(p) PROVE StepKeeps
<1> DEFINE t == table[p]
           copy(r) == IF db[t].rows[r] = NoRow \/ t = "refs" THEN db[t].rows[r]
                      ELSE [c \in Attr |-> db[t].rows[r][c] /\ Kept(c, found[p])]
           rows == [r \in Repo |-> copy(r)]
           new == TableWith(Canonical[t], rows)
<1>1. /\ t \in Table /\ at[p] = "copy" /\ Holding(p)
      /\ work = [new |-> NewTable(t), old |-> db[t]]
  BY DEF Copy, DatabaseInv, DatabaseTypeOK, Rebuilding, Holding
<1>2. /\ db[t].exists /\ db[t].rows \in [Repo -> Row \union {NoRow}]
      /\ db[t] \in Tables
  BY <1>1, StoredTypes DEF DatabaseInv, Stage
<1>3. \A r \in Repo : /\ copy(r) \in Row \union {NoRow}
                      /\ copy(r) = NoRow <=> db[t].rows[r] = NoRow
  <2> SUFFICES ASSUME NEW r \in Repo, db[t].rows[r] # NoRow, t # "refs"
               PROVE  copy(r) \in Row
    BY <1>2, RowTypes
  <2>1. copy(r) = [c \in Attr |-> db[t].rows[r][c] /\ Kept(c, found[p])]
    OBVIOUS
  <2>2. \A c \in Attr : db[t].rows[r][c] \in BOOLEAN
    BY <1>2 DEF Row
  <2>3. \A c \in Attr : (db[t].rows[r][c] /\ Kept(c, found[p])) \in BOOLEAN
    BY <2>2 DEF Kept
  <2> QED
    BY <2>1, <2>3 DEF Row
<1>4. rows \in [Repo -> Row \union {NoRow}]
  BY <1>3
<1>5. /\ new \in Tables /\ new.exists /\ new.cols = Canonical[t]
      /\ new.rows = rows
  <2>1. Canonical[t] \in SUBSET Column
    BY <1>1, ColumnTypes
  <2> HIDE DEF rows
  <2> QED
    BY <1>4, <2>1, TableTypes
<1>6. work' = [new |-> new, old |-> db[t]]
  <2>1. work' = [work EXCEPT !.new.rows = rows]
    BY <1>1 DEF Copy
  <2>2. work' = [new |-> [NewTable(t) EXCEPT !.rows = rows], old |-> db[t]]
    BY <1>1, <2>1
  <2>3. [NewTable(t) EXCEPT !.rows = rows] = new
    <3> DEFINE full == [NewTable(t) EXCEPT !.rows = rows]
               Full == [exists : {TRUE}, cols : SUBSET Column,
                        rows : [Repo -> Row \union {NoRow}]]
    <3>1. NewTable(t) \in Full /\ NewTable(t).cols = Canonical[t]
      <4>1. NewTable(t) \in Tables /\ NewTable(t) # NoTable
        BY <1>1, NewTableTypes, TableTypes
      <4> QED
        BY <1>1, <4>1, NewTableTypes DEF Tables
    <3> HIDE DEF rows
    <3>2. full \in Full /\ full.cols = Canonical[t] /\ full.rows = rows
      BY <1>4, <3>1
    <3> HIDE DEF full
    <3>3. full = TableWith(full.cols, full.rows)
      BY <3>2 DEF TableWith
    <3> QED
      BY <3>2, <3>3 DEF full
  <2> QED
    BY <2>2, <2>3
<1>7. ASSUME ~stale', t = "repos"
      PROVE  \A r \in Repo : rows[r] = known[r]
  <2>1. ~stale /\ found[p] = Range(Asked["repos"]) \intersect db["repos"].cols
    BY <1>1, <1>7 DEF Copy
  <2>2. \A r \in Repo : db["repos"].rows[r] = known[r]
    BY <1>2, <1>7, <2>1 DEF DatabaseInv, KnownRows, RowOf
  <2>3. \A c \in Attr : Kept(c, db["repos"].cols) => Kept(c, found[p])
    BY <2>1, Names DEF Kept, Attr
  <2>4. ASSUME NEW r \in Repo, db["repos"].rows[r] # NoRow
        PROVE  copy(r) = db["repos"].rows[r]
    <3>1. db["repos"].rows[r] \in Row
      BY <1>2, <1>7, <2>4
    <3>2. \A c \in Attr : db["repos"].rows[r][c] => Kept(c, found[p])
      BY <1>2, <1>7, <2>3, <2>4 DEF DatabaseInv, Versioned, RowOf
    <3>3. copy(r) = [c \in Attr |-> db["repos"].rows[r][c] /\ Kept(c, found[p])]
      BY <1>7, <2>4
    <3>4. \A c \in Attr : copy(r)[c] = db["repos"].rows[r][c]
      BY <3>1, <3>2, <3>3 DEF Row
    <3> QED
      BY <3>1, <3>3, <3>4 DEF Row
  <2>5. ASSUME NEW r \in Repo, db["repos"].rows[r] = NoRow
        PROVE  copy(r) = db["repos"].rows[r]
    BY <1>7, <2>5
  <2> QED
    BY <2>2, <2>4, <2>5
<1>8. \A r \in Repo : rows[r] = NoRow <=> db[t].rows[r] = NoRow
  BY <1>3
<1>9. ASSUME NEW r \in Repo, rows[r] # NoRow, NEW c \in Attr, rows[r][c]
       PROVE  db[t].rows[r][c]
  <2>1. rows[r] = copy(r)
    OBVIOUS
  <2>2. CASE db[t].rows[r] = NoRow \/ t = "refs"
    BY <1>9, <2>1, <2>2
  <2>3. CASE db[t].rows[r] # NoRow /\ t # "refs"
    <3>1. rows[r][c] = (db[t].rows[r][c] /\ Kept(c, found[p]))
      BY <2>3
    <3> QED
      BY <1>9, <3>1
  <2> QED
    BY <2>2, <2>3
<1> HIDE DEF new, rows
<1>10. /\ Goto(p, "drop") /\ at'[p] = "drop" /\ table'[p] = t
      /\ UNCHANGED <<db, writer, table, todo, found, peer, doing, aborts, known>>
      /\ stale' \in BOOLEAN /\ (stale => stale')
  BY DEF Copy, Goto, DatabaseInv, DatabaseTypeOK
<1>11. work' \in [new : Tables, old : Tables] /\ work'.new = new
  BY <1>2, <1>5, <1>6
<1>12. Rebuilding(p)'
  <2>1. New(p)' = new
    BY <1>10, <1>11 DEF New
  <2> QED
    BY <1>5, <1>7, <1>8, <1>10, <1>9, <2>1 DEF Rebuilding
<1> QED
  BY <1>1, <1>10, <1>11, <1>12, UncommittedStep

LEMMA DropKeeps == ASSUME DatabaseInv, NEW p \in Process, Drop(p) PROVE StepKeeps
<1>1. /\ at[p] = "drop" /\ Holding(p) /\ Goto(p, "rename") /\ at'[p] = "rename"
      /\ UNCHANGED <<db, writer, table, todo, found, peer, doing, aborts, known, stale>>
  BY DEF Drop, Goto, Holding, DatabaseInv, DatabaseTypeOK
<1>2. work' \in [new : Tables, old : Tables] /\ work'.new = work.new
  <2>1. NoTable \in Tables
    BY TableTypes
  <2> QED
    BY <2>1 DEF Drop, DatabaseInv, DatabaseTypeOK
<1>3. New(p)' = New(p)
  BY <1>1, <1>2 DEF New
<1>4. Rebuilding(p)'
  BY <1>1, <1>3 DEF DatabaseInv, Rebuilding
<1>5. stale \in BOOLEAN
  BY DEF DatabaseInv, DatabaseTypeOK
<1> QED
  BY <1>1, <1>2, <1>4, <1>5, UncommittedStep

LEMMA RenameKeeps == ASSUME DatabaseInv, NEW p \in Process, Rename(p) PROVE StepKeeps
<1>1. /\ at[p] = "rename" /\ Holding(p) /\ Goto(p, "commit") /\ at'[p] = "commit"
      /\ UNCHANGED <<db, writer, table, todo, found, peer, doing, aborts, known, stale>>
  BY DEF Rename, Goto, Holding, DatabaseInv, DatabaseTypeOK
<1>2. work' \in [new : Tables, old : Tables] /\ work'.old = work.new
  <2>1. NoTable \in Tables
    BY TableTypes
  <2> QED
    BY <2>1 DEF Rename, DatabaseInv, DatabaseTypeOK
<1>3. New(p)' = New(p)
  BY <1>1, <1>2 DEF New
<1>4. Rebuilding(p)'
  BY <1>1, <1>3 DEF DatabaseInv, Rebuilding
<1>5. stale \in BOOLEAN
  BY DEF DatabaseInv, DatabaseTypeOK
<1> QED
  BY <1>1, <1>2, <1>4, <1>5, UncommittedStep

LEMMA CopyFailsKeeps == ASSUME DatabaseInv, NEW p \in Process, CopyFails(p) PROVE StepKeeps
<1>1. /\ at \in [Process -> Migrating \union {"closed", "open"}]
      /\ at' = [at EXCEPT ![p] = "closed"]
      /\ at[p] = "copy" /\ Holding(p) /\ doing[p] = Idle /\ Stage(p)
  BY DEF CopyFails, Goto, DatabaseInv, DatabaseTypeOK, Holding, Stage
<1>2. DatabaseTypeOK'
  <2>1. NoWork \in [new : Tables, old : Tables]
    BY TableTypes DEF NoWork
  <2> QED
    BY <1>1, <2>1 DEF CopyFails, DatabaseInv, DatabaseTypeOK
<1>3. \A t \in Table : Grows(t)
  BY DEF CopyFails, Grows, NeedsRebuild
<1>4. Versioned' /\ KnownRows'
  BY DEF CopyFails, DatabaseInv, Versioned, KnownRows, RowOf
<1>5. Stage(p)' /\ Rebuilding(p)'
  BY <1>1 DEF CopyFails, Stage, Rebuilding
<1>6. writer = {p} /\ writer' = {} /\ ~Holding(p)'
  BY <1>1, HoldingAlone DEF CopyFails, Holding
<1>7. \A q \in Process \ {p} : at'[q] = at[q] /\ table'[q] = table[q]
                               /\ todo'[q] = todo[q] /\ doing'[q] = doing[q]
  BY <1>1 DEF CopyFails
<1> QED
  BY <1>2, <1>3, <1>4, <1>5, <1>6, <1>7, TransactionStep

LEMMA CommitKeeps == ASSUME DatabaseInv, NEW p \in Process, Commit(p) PROVE StepKeeps
<1>0. PICK t \in Table : t = table[p]
  BY DEF DatabaseInv, DatabaseTypeOK
<1>1. /\ at[p] = "commit" /\ Holding(p) /\ doing[p] = Idle
      /\ TableDone(p) /\ db' = [db EXCEPT ![t] = work.old]
      /\ UNCHANGED <<todo, found, peer, doing, aborts, known, stale>>
  BY <1>0 DEF Commit, Holding, DatabaseInv, DatabaseTypeOK, Stage
<1>2. /\ work.old \in Tables /\ work.old.exists /\ work.old.cols = Canonical[t]
      /\ \A r \in Repo : work.old.rows[r] = NoRow <=> db[t].rows[r] = NoRow
      /\ ~stale /\ t = "repos" => \A r \in Repo : work.old.rows[r] = known[r]
  BY <1>0, <1>1, WorkTypes DEF DatabaseInv, Rebuilding, New
<1>3. /\ db' \in [Table -> Tables] /\ db'[t] = work.old
      /\ \A u \in Table \ {t} : db'[u] = db[u]
  BY <1>1, <1>2 DEF DatabaseInv, DatabaseTypeOK
<1>4. ~NeedsRebuild(t)'
  <2>1. CASE t = "repos"
    <3>1. "timestamp" \notin db'["repos"].cols
      BY <1>2, <1>3, <2>1, Names
    <3> QED
      BY <2>1, <3>1 DEF NeedsRebuild
  <2>2. CASE t = "refs"
    <3>1. {"key", "created_at"} \subseteq db'["refs"].cols
      BY <1>2, <1>3, <2>2, Names
    <3> QED
      BY <2>2, <3>1 DEF NeedsRebuild
  <2> QED
    BY <2>1, <2>2 DEF Table
<1>5. \A u \in Table : Grows(u)
  <2>1. Grows(t)
    <3>1. t = "repos" => Range(Added) \intersect db[t].cols \subseteq db'[t].cols
      BY <1>2, <1>3, Names
    <3> QED
      BY <1>2, <1>3, <1>4, <3>1 DEF Grows
  <2>2. ASSUME NEW u \in Table \ {t}
        PROVE  Grows(u)
    BY <1>3 DEF Grows, NeedsRebuild
  <2> QED
    BY <2>1, <2>2
<1>6. /\ at' \in [Process -> Migrating \union {"closed", "open"}] /\ table' \in [Process -> Table]
      /\ \A q \in Process \ {p} : at'[q] = at[q] /\ table'[q] = table[q]
  BY <1>1, TableDoneTypes DEF DatabaseInv
<1>7. DatabaseTypeOK'
  <2>1. NoWork \in [new : Tables, old : Tables]
    BY TableTypes DEF NoWork
  <2> QED
    BY <1>1, <1>3, <1>6, <2>1 DEF Commit, DatabaseInv, DatabaseTypeOK
<1>8. Stage(p)' /\ ~Holding(p)'
  <2>1. /\ ~NeedsRebuild("repos")' \/ table[p] # "repos"
        /\ ~NeedsRebuild("refs")' \/ table[p] # "refs"
    BY <1>0, <1>4
  <2> QED
    BY <1>1, <1>5, <2>1, TableDoneStage
<1>9. Versioned'
  <2>1. CASE t = "repos"
    <3>1. db'["refs"] = db["refs"]
      BY <1>3, <2>1 DEF Table
    <3>2. \A cols : cols = Canonical["repos"] =>
             cols \union Range(Added) = Canonical["repos"] /\ \A c \in Attr : Kept(c, cols)
      BY Names DEF Kept, Attr
    <3>3. db'["repos"].cols = Canonical["repos"]
      BY <1>2, <1>3, <2>1
    <3> QED
      BY <3>1, <3>2, <3>3 DEF DatabaseInv, Versioned
  <2>2. CASE t = "refs"
    <3>1. db'["repos"] = db["repos"] /\ db'["refs"].cols = Canonical["refs"]
      BY <1>2, <1>3, <2>2 DEF Table
    <3> QED
      BY <3>1 DEF DatabaseInv, Versioned, RowOf
  <2> QED
    BY <2>1, <2>2 DEF Table
<1>10. KnownRows'
  <2>1. CASE t = "repos"
    BY <1>1, <1>2, <1>3, <2>1 DEF KnownRows, RowOf
  <2>2. CASE t = "refs"
    <3>1. db'["repos"] = db["repos"]
      BY <1>3, <2>2 DEF Table
    <3> QED
      BY <1>1, <3>1 DEF DatabaseInv, KnownRows, RowOf
  <2> QED
    BY <2>1, <2>2 DEF Table
<1>11. Rebuilding(p)'
  BY <1>8 DEF Rebuilding, Holding
<1>12. writer = {p} /\ writer' = {}
  BY <1>1, HoldingAlone DEF Commit
<1> QED
  BY <1>1, <1>5, <1>6, <1>7, <1>8, <1>9, <1>10, <1>11, <1>12, TransactionStep

LEMMA AbortKeeps == ASSUME DatabaseInv, NEW p \in Process, Abort(p) PROVE StepKeeps
<1>1. /\ at \in [Process -> Migrating \union {"closed", "open"}]
      /\ at' = [at EXCEPT ![p] = "closed"]
      /\ writer \in SUBSET Process /\ writer' = writer \ {p}
      /\ UNCHANGED <<db, table, todo, found, peer, known, stale>>
  BY DEF Abort, Goto, DatabaseInv, DatabaseTypeOK
<1>2. /\ doing'[p] = Idle /\ \A q \in Process \ {p} : doing'[q] = doing[q]
      /\ doing' \in [Process -> Calls]
  <2>1. doing' = [doing EXCEPT ![p] = Idle] /\ DatabaseTypeOK
    BY DEF Abort, DatabaseInv
  <2> QED
    BY <2>1, DoingTypes DEF Calls
<1>3. DatabaseTypeOK'
  <2>1. NoWork \in [new : Tables, old : Tables]
    BY TableTypes DEF NoWork
  <2>2. aborts' \in 0..MaxAbort
    BY AbortAssumption DEF Abort, DatabaseInv, DatabaseTypeOK
  <2>3. work' \in [new : Tables, old : Tables]
    BY <2>1 DEF Abort, DatabaseInv, DatabaseTypeOK
  <2> QED
    BY <1>1, <1>2, <2>2, <2>3
       DEF DatabaseInv, DatabaseTypeOK, Calls, SaveCalls, RefreshCalls, HearCalls
<1>4. \A t \in Table : Grows(t)
  BY <1>1 DEF Grows, NeedsRebuild
<1>5. Versioned' /\ KnownRows'
  BY <1>1 DEF DatabaseInv, Versioned, KnownRows, RowOf
<1>6. Stage(p)' /\ Rebuilding(p)'
  BY <1>1, <1>2 DEF Stage, Rebuilding
<1>7. InTransaction'
  <2> SUFFICES ASSUME NEW q \in Process
               PROVE  q \in writer' <=> Holding(q)'
    BY DEF InTransaction
  <2>1. CASE q = p
    BY <1>1, <2>1 DEF Holding
  <2>2. CASE q # p
    BY <1>1, <2>2 DEF DatabaseInv, InTransaction, Holding
  <2> QED
    BY <2>1, <2>2
<1>8. OthersStay(p)
  <2>1. ASSUME NEW q \in Process \ {p}, Holding(q)
        PROVE  work' = work
    <3>1. writer = {q}
      BY <2>1, HoldingAlone
    <3> QED
      BY <3>1 DEF Abort
  <2> QED
    BY <1>1, <1>2, <2>1 DEF OthersStay
<1> QED
  BY <1>3, <1>4, <1>5, <1>6, <1>7, <1>8, Together

-----------------------------------------------------------------------------
(* All of them. *)

LEMMA InitDatabase ==
    ASSUME NEW stored, StoredBySomeVersion(stored), DatabaseInit(stored)
    PROVE  DatabaseInv
<1>1. db = stored /\ db \in [Table -> Tables]
  BY DEF StoredBySomeVersion, DatabaseInit
<1>2. DatabaseTypeOK
  <2>1. known \in [Repo -> Row \union {NoRow}]
    <3>1. "repos" \in Table
      BY DEF Table
    <3>2. CASE db["repos"].exists
      BY <1>1, <3>1, <3>2, TableTypes DEF DatabaseInit
    <3>3. CASE ~db["repos"].exists
      BY <3>3 DEF DatabaseInit
    <3> QED
      BY <3>2, <3>3
  <2>2. NoWork \in [new : Tables, old : Tables]
    BY TableTypes DEF NoWork
  <2>3. <<>> \in Seq(Column)
    OBVIOUS
  <2>4. /\ writer \in SUBSET Process /\ \A p, q \in writer : p = q
        /\ at \in [Process -> Migrating \union {"closed", "open"}]
        /\ table \in [Process -> Table]
        /\ todo \in [Process -> Seq(Column)]
        /\ found \in [Process -> SUBSET Column]
    BY <2>3 DEF DatabaseInit, Table
  <2>5. 0 \in 0..MaxAbort
    BY AbortAssumption
  <2>6. doing \in [Process -> Calls]
    BY DEF DatabaseInit, Calls
  <2> QED
    BY <1>1, <2>1, <2>2, <2>4, <2>5, <2>6
       DEF DatabaseInit, DatabaseTypeOK, Calls, SaveCalls, RefreshCalls, HearCalls
<1>3. InTransaction
  BY DEF DatabaseInit, InTransaction, Holding
<1>4. Versioned
  <2>1. ASSUME db["repos"].exists, NEW r \in Repo, RowOf(r) # NoRow, NEW c \in Attr, RowOf(r)[c]
        PROVE  Kept(c, db["repos"].cols)
    <3>1. CASE c = "created_at"
      BY <1>1, <2>1, <3>1, Names DEF StoredBySomeVersion, Kept
    <3>2. CASE c # "created_at"
      BY <1>1, <2>1, <3>2 DEF StoredBySomeVersion, Kept, RowOf
    <3> QED
      BY <3>1, <3>2
  <2> QED
    BY <1>1, <2>1 DEF StoredBySomeVersion, Versioned
<1>5. KnownRows
  BY DEF DatabaseInit, KnownRows, RowOf
<1>6. \A p \in Process : Stage(p) /\ Rebuilding(p)
  BY DEF DatabaseInit, Stage, Rebuilding
<1> QED
  BY <1>2, <1>3, <1>4, <1>5, <1>6 DEF DatabaseInv

LEMMA DatabaseStepKeeps == DatabaseInv /\ DatabaseStep => StepKeeps
<1> SUFFICES ASSUME DatabaseInv, DatabaseStep
             PROVE  StepKeeps
  OBVIOUS
<1>1. ASSUME NEW p \in Process, OpenStep(p)
      PROVE  StepKeeps
  BY <1>1, CreateTableKeeps, TablesCreatedKeeps, AddColumnKeeps, ColumnsAddedKeeps, CheckKeeps,
     AskColumnKeeps, BeginKeeps, CopyKeeps, CopyFailsKeeps, DropKeeps, RenameKeeps, CommitKeeps
     DEF OpenStep
<1>2. ASSUME NEW p \in Process, CallStep(p)
      PROVE  StepKeeps
  BY <1>2, FindKeeps, InsertKeeps, UpdateKeeps, SaveRefsKeeps, DropRefsKeeps, ClearBundleKeeps,
     NodeRowKeeps DEF CallStep
<1> QED
  BY <1>1, <1>2, SaveNodeKeeps, SetBundleKeeps, RefreshKeeps, SaveKeeps DEF DatabaseStep

(* Nothing happens to the database. *)
LEMMA DatabaseRests ==
    ASSUME DatabaseInv, UNCHANGED <<db, writer, work, openVars, peer, doing, known, stale>>,
           aborts' \in 0..MaxAbort
    PROVE  StepKeeps
<1>1. DatabaseTypeOK'
  BY DEF openVars, DatabaseInv, DatabaseTypeOK
<1>2. InTransaction' /\ Versioned' /\ KnownRows'
  BY DEF openVars, DatabaseInv, InTransaction, Holding, Versioned, KnownRows, RowOf
<1>3. ASSUME NEW p \in Process
      PROVE  Stage(p)' /\ Rebuilding(p)'
  BY DEF openVars, DatabaseInv, Stage, Rebuilding, New, NeedsRebuild, RowOf
<1>4. \A t \in Table : Grows(t)
  BY DEF Grows, NeedsRebuild
<1> QED
  BY <1>1, <1>2, <1>3, <1>4 DEF StepKeeps, DatabaseInv

-----------------------------------------------------------------------------
(* What the steps are to those who read and write rows. *)

RecordsStep == [Records!Next]_(Records!vars)

LEMMA RecordTypes ==
    /\ Records!Row = Row
    /\ DatabaseTypeOK => \A t \in Table : RowsOf(t) \in [Repo -> Row \union {NoRow}]
    /\ DatabaseTypeOK' => \A t \in Table : RowsOf(t)' \in [Repo -> Row \union {NoRow}]
<1>1. Records!Row = Row
  BY DEF Records!Row, Row, Attr
<1>2. \A d \in [Table -> Tables] : \A t \in Table :
         (IF d[t].exists THEN d[t].rows ELSE [r \in Repo |-> NoRow])
            \in [Repo -> Row \union {NoRow}]
  BY TableTypes
<1> QED
  BY <1>1, <1>2 DEF DatabaseTypeOK, RowsOf

LEMMA RowsStay ==
    ASSUME RowsOf("repos")' = RowsOf("repos"), RowsOf("refs")' = RowsOf("refs"),
           stale' = stale \/ stale' = TRUE
    PROVE  RecordsStep
BY DEF RecordsStep, Records!Next, Records!GoByOldAnswers, Records!vars

(* A table that is created has no rows, as if it had been there. *)
LEMMA CreateTableRecords ==
    ASSUME DatabaseInv, NEW p \in Process, NEW t \in Table, CreateTable(p, t)
    PROVE  RecordsStep
<1>1. /\ db \in [Table -> Tables] /\ db' = [db EXCEPT ![t] = NewTable(t)]
      /\ ~db[t].exists /\ stale' = stale
  BY DEF CreateTable, DatabaseInv, DatabaseTypeOK
<1>2. /\ db'[t].exists /\ db'[t].rows = [r \in Repo |-> NoRow]
      /\ \A u \in Table \ {t} : db'[u] = db[u]
  BY <1>1, NewTableTypes
<1>3. \A u \in Table : RowsOf(u)' = RowsOf(u)
  BY <1>1, <1>2 DEF RowsOf
<1> QED
  BY <1>1, <1>3, RowsStay DEF Table

LEMMA AddColumnRecords ==
    ASSUME DatabaseInv, NEW p \in Process, AddColumn(p) PROVE RecordsStep
<1> DEFINE tab == db["repos"]
           cols == tab.cols \union {Head(todo[p])}
           new == [tab EXCEPT !.cols = cols]
<1>1. tab \in [exists : {TRUE}, cols : SUBSET Column, rows : [Repo -> Row \union {NoRow}]]
  <2>1. tab.exists /\ tab = TableWith(tab.cols, tab.rows)
        /\ tab.cols \in SUBSET Column /\ tab.rows \in [Repo -> Row \union {NoRow}]
    BY StoredTypes DEF AddColumn, Stage, DatabaseInv, Table
  <2> QED
    BY <2>1 DEF TableWith
<1>2. db' = [db EXCEPT !["repos"] = new] /\ stale' = stale
  BY DEF AddColumn
<1> HIDE DEF cols
<1>3. new.exists = tab.exists /\ new.rows = tab.rows
  BY <1>1
<1> HIDE DEF new
<1>4. db'["repos"] = new /\ db'["refs"] = db["refs"]
  BY <1>2 DEF DatabaseInv, DatabaseTypeOK, Table
<1>5. RowsOf("repos")' = RowsOf("repos") /\ RowsOf("refs")' = RowsOf("refs")
  BY <1>3, <1>4 DEF RowsOf
<1> QED
  BY <1>2, <1>5, RowsStay

(* The rows of a rebuilt table are those of the old one, or it went by old  *)
(* answers and none of their values is made up.                             *)
LEMMA CommitRecords ==
    ASSUME DatabaseInv, DatabaseInv', NEW p \in Process, Commit(p) PROVE RecordsStep
<1>0. PICK t \in Table : t = table[p]
  BY DEF DatabaseInv, DatabaseTypeOK
<1>1. /\ at[p] = "commit" /\ stale' = stale /\ stale \in BOOLEAN
      /\ db' = [db EXCEPT ![t] = work.old]
  BY <1>0 DEF Commit, DatabaseInv, DatabaseTypeOK
<1>2. /\ work.old \in Tables /\ work.old.exists
      /\ \A r \in Repo : work.old.rows[r] = NoRow <=> db[t].rows[r] = NoRow
      /\ \A r \in Repo : work.old.rows[r] # NoRow =>
            \A c \in Attr : work.old.rows[r][c] => db[t].rows[r][c]
      /\ ~stale /\ t = "repos" => \A r \in Repo : work.old.rows[r] = known[r]
  BY <1>0, <1>1, WorkTypes DEF DatabaseInv, Rebuilding, New
<1>3. /\ db'[t] = work.old /\ \A u \in Table \ {t} : db'[u] = db[u]
      /\ \A u \in Table : db[u].exists
  BY <1>1 DEF DatabaseInv, DatabaseTypeOK, Stage
<1>4. RowsOf(t) = db[t].rows /\ RowsOf(t)' = work.old.rows
  BY <1>2, <1>3 DEF RowsOf
<1>5. /\ \A u \in Table : /\ RowsOf(u) \in [Repo -> Row \union {NoRow}]
                          /\ RowsOf(u)' \in [Repo -> Row \union {NoRow}]
      /\ \A u \in Table \ {t} : RowsOf(u)' = RowsOf(u)
  <2>1. DatabaseTypeOK /\ DatabaseTypeOK'
    BY DEF DatabaseInv
  <2>2. \A u \in Table : RowsOf(u)' \in [Repo -> Row \union {NoRow}]
    BY <2>1, RecordTypes
  <2> QED
    BY <1>3, <2>1, <2>2, RecordTypes DEF RowsOf
<1>6. {r \in Repo : RowsOf("refs")'[r] # NoRow} = {r \in Repo : RowsOf("refs")[r] # NoRow}
  BY <1>2, <1>4, <1>5 DEF Table
<1>7. CASE stale
  <2>1. RowsOf("repos")' \in [Repo -> Records!Row \union {NoRow}]
    BY <1>5, RecordTypes DEF Table
  <2>2. ASSUME NEW r \in Repo
        PROVE  /\ RowsOf("repos")'[r] = NoRow <=> RowsOf("repos")[r] = NoRow
               /\ RowsOf("repos")[r] # NoRow =>
                     \A c \in DOMAIN RowsOf("repos")[r] :
                        RowsOf("repos")'[r][c] => RowsOf("repos")[r][c]
    <3>1. CASE t = "repos"
      <4>1. RowsOf("repos")[r] # NoRow => DOMAIN RowsOf("repos")[r] = Attr
        BY <1>5 DEF Row, Table
      <4> QED
        BY <1>2, <1>4, <3>1, <4>1
    <3>2. CASE t # "repos"
      BY <1>5, <3>2 DEF Table
    <3> QED
      BY <3>1, <3>2
  <2> QED
    BY <1>1, <1>6, <1>7, <2>1, <2>2 DEF RecordsStep, Records!Next, Records!SetToDefault
<1>8. CASE ~stale
  <2>1. RowsOf("repos")' = RowsOf("repos")
    <3>1. CASE t = "repos"
      <4>1. \A r \in Repo : db["repos"].rows[r] = known[r]
        BY <1>3, <1>8 DEF DatabaseInv, KnownRows, RowOf, Table
      <4>2. \A r \in Repo : RowsOf("repos")'[r] = RowsOf("repos")[r]
        BY <1>2, <1>4, <1>8, <3>1, <4>1
      <4> QED
        BY <1>5, <4>2 DEF Table
    <3>2. CASE t # "repos"
      BY <1>5, <3>2 DEF Table
    <3> QED
      BY <3>1, <3>2
  <2> QED
    BY <1>1, <1>6, <2>1 DEF RecordsStep, Records!vars
<1> QED
  BY <1>1, <1>7, <1>8

(* A call writes one row. *)
LEMMA RowWrittenRecords ==
    ASSUME DatabaseInv, DatabaseInv', NEW p \in Process, at[p] = "open", NEW t \in Table,
           NEW r \in Repo, NEW row \in Row \union {NoRow}, db' = [db EXCEPT ![t].rows[r] = row]
    PROVE  /\ RowsOf(t)' = [RowsOf(t) EXCEPT ![r] = row]
           /\ \A u \in Table \ {t} : RowsOf(u)' = RowsOf(u)
           /\ \A u \in Table : RowsOf(u) = db[u].rows
<1>1. DatabaseTypeOK /\ \A u \in Table : db[u].exists
  BY CurrentWhenOpen DEF DatabaseInv
<1>2. /\ db'[t].exists
      /\ \A s \in Repo : db'[t].rows[s] = IF s = r THEN row ELSE db[t].rows[s]
      /\ \A u \in Table \ {t} : db'[u] = db[u]
  <2>1. db[t].exists /\ db' = [db EXCEPT ![t].rows[r] = row]
    BY <1>1
  <2>2. DatabaseTypeOK /\ t \in Table /\ r \in Repo /\ row \in Row \union {NoRow}
    BY <1>1
  <2>3. /\ db' \in [Table -> Tables]
        /\ db'[t].exists /\ db'[t].cols = db[t].cols
        /\ \A s \in Repo : db'[t].rows[s] = IF s = r THEN row ELSE db[t].rows[s]
        /\ \A u \in Table \ {t} : db'[u] = db[u]
        /\ row # NoRow \/ (t = "refs" /\ \E q \in Process : Updated(q, r)) =>
              \A u \in Table : Grows(u)
    BY ONLY <2>1, <2>2, RowWritten, Zenon
  <2> QED
    BY <2>3
<1>3. RowsOf(t) = db[t].rows /\ RowsOf(t)' = db'[t].rows
  BY <1>1, <1>2 DEF RowsOf
<1>4. /\ RowsOf(t) \in [Repo -> Row \union {NoRow}]
      /\ RowsOf(t)' \in [Repo -> Row \union {NoRow}]
  <2>1. DatabaseTypeOK /\ DatabaseTypeOK'
    BY DEF DatabaseInv
  <2> QED
    BY <2>1, RecordTypes
<1>5. RowsOf(t)' = [RowsOf(t) EXCEPT ![r] = row]
  BY <1>2, <1>3, <1>4
<1> QED
  BY <1>1, <1>2, <1>5 DEF RowsOf

LEMMA SetBundleRecords ==
    ASSUME DatabaseInv, DatabaseInv', NEW p \in Process, NEW r \in Repo, SetBundle(p, r)
    PROVE  RecordsStep
<1> DEFINE row == [RowOf(r) EXCEPT !["bundle"] = TRUE]
<1>1. /\ at[p] = "open" /\ RowOf(r) # NoRow /\ stale' = stale
      /\ db' = [db EXCEPT !["repos"].rows[r] = row]
  BY DEF SetBundle, Write
<1>2. RowOf(r) \in Row
  BY <1>1, CurrentWhenOpen, StoredTypes DEF RowOf, DatabaseInv, Table
<1>3. row \in Row
  BY <1>2 DEF Row, Attr
<1> HIDE DEF row
<1>4. /\ RowsOf("repos")' = [RowsOf("repos") EXCEPT ![r] = row]
      /\ RowsOf("refs")' = RowsOf("refs")
      /\ RowsOf("repos") = db["repos"].rows
  BY <1>1, <1>3, RowWrittenRecords DEF Table
<1>5. row = [RowsOf("repos")[r] EXCEPT !["bundle"] = TRUE] /\ RowsOf("repos")[r] # NoRow
  BY <1>1, <1>4 DEF RowOf, row
<1>6. Records!SetBundle(r)
  BY <1>1, <1>4, <1>5 DEF Records!SetBundle
<1> QED
  BY <1>6 DEF RecordsStep, Records!Next

(* A save that writes what it stores and keeps the time of creation.        *)
LEMMA SavedRecords ==
    ASSUME DatabaseInv, DatabaseInv', NEW p \in Process, at[p] = "open", NEW r \in Repo,
           NEW created \in BOOLEAN, Write(r, SavedAs(p, created)), UNCHANGED stale,
           created <=> (RowOf(r) = NoRow \/ RowOf(r)["created_at"])
    PROVE  RecordsStep
<1> DEFINE row == SavedAs(p, created)
<1>1. /\ row \in Row
      /\ ~row["bundle"] /\ row["created_at"] = created
  BY SavedAsRow DEF SavedAs, Attr
<1>2. db' = [db EXCEPT !["repos"].rows[r] = row]
  BY DEF Write
<1> HIDE DEF row
<1>3. /\ RowsOf("repos")' = [RowsOf("repos") EXCEPT ![r] = row]
      /\ RowsOf("refs")' = RowsOf("refs")
      /\ RowsOf("repos") = db["repos"].rows
  BY <1>1, <1>2, RowWrittenRecords DEF Table
<1>4. row["created_at"] <=>
          (RowsOf("repos")[r] = NoRow \/ RowsOf("repos")[r]["created_at"])
  BY <1>1, <1>3 DEF RowOf
<1>5. Records!Save(r, row)
  BY <1>1, <1>3, <1>4 DEF Records!Save
<1>6. row \in Records!Row
  BY <1>1, RecordTypes
<1> QED
  BY <1>5, <1>6 DEF RecordsStep, Records!Next

LEMMA InsertRecords ==
    ASSUME DatabaseInv, DatabaseInv', NEW p \in Process, Insert(p) PROVE RecordsStep
<1>1. doing[p] \in SaveCalls /\ doing[p] # Idle
  BY CallTypes DEF Insert, DatabaseInv
<1>2. at[p] = "open" /\ doing[p].repo \in Repo
  BY <1>1 DEF DatabaseInv, Stage, SaveCalls
<1>3. CASE RowOf(doing[p].repo) = NoRow
  <2>1. Write(doing[p].repo, SavedAs(p, TRUE)) /\ UNCHANGED stale
    BY <1>3 DEF Insert
  <2> QED
    BY <1>2, <1>3, <2>1, SavedRecords
<1>4. CASE RowOf(doing[p].repo) # NoRow
  BY <1>4, RowsStay DEF Insert, RowsOf
<1> QED
  BY <1>3, <1>4

LEMMA UpdateRecords ==
    ASSUME DatabaseInv, DatabaseInv', NEW p \in Process, Update(p) PROVE RecordsStep
<1> DEFINE created == RowOf(doing[p].repo)["created_at"]
<1>1. doing[p] \in SaveCalls /\ doing[p] # Idle
  BY CallTypes DEF Update, DatabaseInv
<1>2. at[p] = "open" /\ doing[p].repo \in Repo /\ RowOf(doing[p].repo) # NoRow
  BY <1>1 DEF Update, DatabaseInv, Stage, OfARow, SaveCalls
<1>3. created \in BOOLEAN
  <2>1. RowOf(doing[p].repo) \in Row
    BY <1>2, CurrentWhenOpen, StoredTypes DEF RowOf, DatabaseInv, Table
  <2> QED
    BY <2>1 DEF Row, Attr
<1>4. Write(doing[p].repo, SavedAs(p, created)) /\ UNCHANGED stale
  BY DEF Update
<1>5. created <=> (RowOf(doing[p].repo) = NoRow \/ RowOf(doing[p].repo)["created_at"])
  BY <1>2
<1> HIDE DEF created
<1> QED
  BY <1>2, <1>3, <1>4, <1>5, SavedRecords

(* The row that is there when refs are saved or replaced was written, or    *)
(* seen, by the same call, and nothing has taken it away since.             *)
LEMMA RefsWrittenRecords ==
    ASSUME DatabaseInv, DatabaseInv', NEW p \in Process, at[p] = "open",
           NEW r \in Repo, RowOf(r) # NoRow, NEW row \in Row \union {NoRow},
           db' = [db EXCEPT !["refs"].rows[r] = row], UNCHANGED stale
    PROVE  RecordsStep
<1>1. /\ RowsOf("refs")' = [RowsOf("refs") EXCEPT ![r] = row]
      /\ RowsOf("repos")' = RowsOf("repos")
      /\ RowsOf("repos") = db["repos"].rows
      /\ RowsOf("refs") \in [Repo -> Row \union {NoRow}]
  <2>1. DatabaseTypeOK
    BY DEF DatabaseInv
  <2> QED
    BY <2>1, RowWrittenRecords, RecordTypes DEF Table
<1>2. CASE row # NoRow
  <2>1. {s \in Repo : RowsOf("refs")'[s] # NoRow} =
            {s \in Repo : RowsOf("refs")[s] # NoRow} \union {r}
    BY <1>1, <1>2
  <2>2. Records!SaveRefs(r)
    BY <1>1, <2>1 DEF Records!SaveRefs, RowOf
  <2> QED
    BY <2>2 DEF RecordsStep, Records!Next
<1>3. CASE row = NoRow
  <2>1. {s \in Repo : RowsOf("refs")'[s] # NoRow} =
            {s \in Repo : RowsOf("refs")[s] # NoRow} \ {r}
    BY <1>1, <1>3
  <2>2. Records!DropRefs(r)
    BY <1>1, <2>1 DEF Records!DropRefs, RowOf
  <2> QED
    BY <2>2 DEF RecordsStep, Records!Next
<1> QED
  BY <1>2, <1>3

LEMMA RefsRecords ==
    ASSUME DatabaseInv, DatabaseInv', NEW p \in Process, SaveRefs(p) \/ DropRefs(p)
    PROVE  RecordsStep
<1> DEFINE row == [c \in Attr |-> FALSE]
<1>1. PICK r \in Repo : r = doing[p].repo /\ at[p] = "open" /\ RowOf(r) # NoRow
  BY RefSteps DEF RefStep, DatabaseInv, Stage, SaveCalls, RefreshCalls
<1>2. UNCHANGED stale
  BY DEF SaveRefs, DropRefs
<1>3. row \in Row
  BY DEF Row
<1>4. \/ UNCHANGED db
      \/ db' = [db EXCEPT !["refs"].rows[r] = row]
      \/ db' = [db EXCEPT !["refs"].rows[r] = NoRow]
  BY <1>1 DEF SaveRefs, DropRefs
<1> HIDE DEF row
<1>5. CASE UNCHANGED db
  BY <1>2, <1>5, RowsStay DEF RowsOf
<1>6. CASE db' = [db EXCEPT !["refs"].rows[r] = row]
  BY <1>1, <1>2, <1>3, <1>6, RefsWrittenRecords
<1>7. CASE db' = [db EXCEPT !["refs"].rows[r] = NoRow]
  BY <1>1, <1>2, <1>7, RefsWrittenRecords
<1> QED
  BY <1>4, <1>5, <1>6, <1>7

LEMMA ClearBundleRecords ==
    ASSUME DatabaseInv, DatabaseInv', NEW p \in Process, ClearBundle(p) PROVE RecordsStep
<1>1. PICK r \in Repo : r = doing[p].repo /\ at[p] = "open" /\ RowOf(r) # NoRow
  BY RefSteps DEF RefStep, DatabaseInv, Stage, SaveCalls, RefreshCalls
<1> DEFINE row == [RowOf(r) EXCEPT !["bundle"] = FALSE]
<1>2. stale' = stale /\ (db' = db \/ db' = [db EXCEPT !["repos"].rows[r] = row])
  BY <1>1 DEF ClearBundle, Write
<1>3. RowOf(r) \in Row
  BY <1>1, CurrentWhenOpen, StoredTypes DEF RowOf, DatabaseInv, Table
<1>4. row \in Row
  BY <1>3 DEF Row, Attr
<1> HIDE DEF row
<1>5. CASE db' = db
  BY <1>2, <1>5, RowsStay DEF RowsOf
<1>6. CASE db' = [db EXCEPT !["repos"].rows[r] = row]
  <2>1. /\ RowsOf("repos")' = [RowsOf("repos") EXCEPT ![r] = row]
        /\ RowsOf("refs")' = RowsOf("refs")
        /\ RowsOf("repos") = db["repos"].rows
    BY <1>1, <1>4, <1>6, RowWrittenRecords DEF Table
  <2>2. row = [RowsOf("repos")[r] EXCEPT !["bundle"] = FALSE] /\ RowsOf("repos")[r] # NoRow
    BY <1>1, <2>1 DEF RowOf, row
  <2>3. Records!ClearBundle(r)
    BY <1>2, <2>1, <2>2 DEF Records!ClearBundle
  <2> QED
    BY <2>3 DEF RecordsStep, Records!Next
<1> QED
  BY <1>2, <1>5, <1>6

(* Every step of the database is one of these, or none for its users. *)
LEMMA DatabaseRecords ==
    ASSUME DatabaseInv, DatabaseInv', DatabaseStep PROVE RecordsStep
<1>1. ASSUME UNCHANGED <<db, stale>>
      PROVE  RecordsStep
  BY <1>1, RowsStay DEF RowsOf
<1>2. ASSUME NEW p \in Process, OpenStep(p)
      PROVE  RecordsStep
  <2>1. CASE TablesCreated(p) \/ ColumnsAdded(p) \/ Check(p) \/ AskColumn(p) \/ Begin(p)
             \/ CopyFails(p) \/ Drop(p) \/ Rename(p)
    BY <1>1, <2>1
       DEF TablesCreated, ColumnsAdded, Check, AskColumn, Begin, CopyFails, Drop, Rename
  <2>2. CASE Copy(p)
    <3>1. db' = db /\ (stale' = stale \/ stale' = TRUE)
      BY <2>2 DEF Copy, DatabaseInv, DatabaseTypeOK
    <3> QED
      BY <3>1, RowsStay DEF RowsOf
  <2> QED
    BY <1>2, <2>1, <2>2, CreateTableRecords, AddColumnRecords, CommitRecords DEF OpenStep
<1>3. ASSUME NEW p \in Process, CallStep(p)
      PROVE  RecordsStep
  <2>1. CASE Find(p) \/ DeleteNode(p) \/ InsertNode(p)
    BY <1>1, <2>1 DEF Find, DeleteNode, InsertNode
  <2> QED
    BY <1>3, <2>1, InsertRecords, UpdateRecords, RefsRecords, ClearBundleRecords DEF CallStep
<1>4. ASSUME NEW p \in Process,
             \/ SaveNode(p) \/ \E r \in Repo : Refresh(p, r)
             \/ \E r \in Repo, op \in {"learn", "add"} : Save(p, op, r)
      PROVE  RecordsStep
  BY <1>1, <1>4 DEF SaveNode, Refresh, Save
<1> QED
  BY <1>2, <1>3, <1>4, SetBundleRecords DEF DatabaseStep

=============================================================================
