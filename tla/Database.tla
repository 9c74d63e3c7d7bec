------------------------------ MODULE Database ------------------------------
(***************************************************************************)
(* The SQLite database that the node process and the commands share: how   *)
(* a process that opens it creates its tables or brings those of an older  *)
(* version up to date (storage/mod.rs), and what the processes then write  *)
(* into the repos table (storage/repo_model.rs) and into the nodes table   *)
(* (storage/node_model.rs).                                                *)
(*                                                                         *)
(* Only columns that versions differ in are followed.  A value is TRUE if  *)
(* it is the one that was written last: a bundle path, an external         *)
(* repository, the time a row was created; FALSE stands for the default.   *)
(* The refs of a repository, which have a row each, are followed as one:   *)
(* what is said of its row is that some are stored.                        *)
(***************************************************************************)
EXTENDS Naturals, Sequences, SequencesExt

CONSTANTS
    Process,   \* processes that open the database
    NodeProc,  \* those of them that run a node; the others are commands
    Repo,      \* the keys of both tables that are followed
    MaxAbort   \* bound: openings that end early

ASSUME ProcessAssumption == NodeProc \subseteq Process
ASSUME AbortAssumption == MaxAbort \in Nat

Table == {"repos", "refs"}

(* What ALTER adds one by one, and what a rebuild asks for one by one; the  *)
(* composite key of refs counts as a column.  A rebuild asks for the added  *)
(* columns too, which are there by then.                                    *)
Added == <<"language", "size", "latest_commit_at">>
Asked == [t \in Table |-> IF t = "repos"
             THEN <<"bundle", "is_external", "created_at", "updated_at", "timestamp">>
             ELSE <<"created_at", "updated_at">>]
Canonical == [t \in Table |-> IF t = "repos"
                 THEN Range(Added) \union (Range(Asked[t]) \ {"timestamp"})
                 ELSE Range(Asked[t]) \union {"key"}]
Column == UNION {Range(Asked[t]) \union Canonical[t] : t \in Table}

Attr == {"bundle", "is_external", "created_at"}
Row == [Attr -> BOOLEAN]
NoRow == [none |-> TRUE]
NoTable == [exists |-> FALSE]
TableWith(cols, rows) == [exists |-> TRUE, cols |-> cols, rows |-> rows]
Tables == {NoTable} \union [exists : {TRUE}, cols : SUBSET Column,
                            rows : [Repo -> Row \union {NoRow}]]
NewTable(t) == TableWith(Canonical[t], [r \in Repo |-> NoRow])

Transaction == {"begin", "copy", "drop", "rename", "commit"}
Migrating == {"create", "alter", "check", "ask"} \union Transaction
Idle == [op |-> "none"]

VARIABLES
    db,      \* db[t]: what is committed
    writer,  \* processes that hold SQLite's write lock, at most one
    work,    \* the writer's table that is to be renamed, and its view of the old
    at,      \* at[p]: where p is in get_db_conn
    table,   \* table[p]: the table p is migrating
    todo,    \* todo[p]: columns p has still to add or to ask for
    found,   \* found[p]: columns it found
    peer,    \* there is a row for the other node that announces itself
    doing,   \* doing[p]: save_repo_to_db, save_node_info_to_db, or the update p is in
    aborts,  \* openings that ended early
    known,   \* history: what the calls of the processes have written
    stale    \* history: a rebuild copied without a column the table has

openVars == <<at, table, todo, found>>
dbVars == <<db, writer, work, openVars, peer, doing, aborts, known, stale>>

DatabaseTypeOK ==
    /\ db \in [Table -> Tables]
    /\ writer \in SUBSET Process /\ \A p, q \in writer : p = q
    /\ work \in [new : Tables, old : Tables]
    /\ at \in [Process -> Migrating \union {"closed", "open"}]
    /\ table \in [Process -> Table]
    /\ todo \in [Process -> Seq(Column)]
    /\ found \in [Process -> SUBSET Column]
    /\ peer \in BOOLEAN
    /\ doing \in [Process -> {Idle} \union
                     [op : {"learn", "add"}, repo : Repo,
                      step : {"find", "insert", "update", "refs"}] \union
                     [op : {"refresh"}, repo : Repo, step : {"drop", "refs", "clear"}] \union
                     [op : {"hear"}, step : {"delete", "renew"}]]
    /\ aborts \in 0..MaxAbort
    /\ known \in [Repo -> Row \union {NoRow}]
    /\ stale \in BOOLEAN

NoWork == [new |-> NoTable, old |-> NoTable]

(* What some version of the program stored.  A repos table has timestamp,   *)
(* or all columns but, maybe, those that ALTER adds; a refs table that has  *)
(* the key and created_at lacks nothing.  A value that is not the default   *)
(* is in a column the table has; when a row was created is always known.    *)
(* Assumed of the rows besides: none is NULL where the copy's WHERE asks    *)
(* that it is not; and rows of refs with one name, of which a table without *)
(* the key may have several and the copy's REPLACE keeps one, count as one. *)
StoredBySomeVersion(stored) ==
    /\ stored \in [Table -> Tables]
    /\ stored["repos"].exists =>
          /\ \/ "timestamp" \in stored["repos"].cols
             \/ stored["repos"].cols \union Range(Added) = Canonical["repos"]
          /\ \A r \in Repo : stored["repos"].rows[r] # NoRow =>
                \A c \in Attr \ {"created_at"} :
                   stored["repos"].rows[r][c] => c \in stored["repos"].cols
    /\ (stored["refs"].exists /\ {"key", "created_at"} \subseteq stored["refs"].cols) =>
          stored["refs"].cols = Canonical["refs"]

DatabaseInit(stored) ==
    /\ db = stored
    /\ writer = {} /\ work = NoWork
    /\ at = [p \in Process |-> "closed"]
    /\ table = [p \in Process |-> "repos"]
    /\ todo = [p \in Process |-> <<>>]
    /\ found = [p \in Process |-> {}]
    /\ peer = FALSE
    /\ doing = [p \in Process |-> Idle]
    /\ aborts = 0
    /\ known = IF db["repos"].exists THEN db["repos"].rows ELSE [r \in Repo |-> NoRow]
    /\ stale = FALSE

-----------------------------------------------------------------------------
(* Opening. *)

Goto(p, step) == at' = [at EXCEPT ![p] = step]
MayWrite(p) == writer \subseteq {p}

Open(p) ==
    /\ at[p] = "closed"
    /\ Goto(p, "create")
    /\ table' = [table EXCEPT ![p] = "repos"]
    /\ UNCHANGED <<db, writer, work, todo, found, peer, doing, aborts, known, stale>>

(* CREATE TABLE IF NOT EXISTS, for each table. *)
CreateTable(p, t) ==
    /\ at[p] = "create"
    /\ ~db[t].exists
    /\ MayWrite(p)
    /\ db' = [db EXCEPT ![t] = NewTable(t)]
    /\ UNCHANGED <<writer, work, openVars, peer, doing, aborts, known, stale>>

TablesCreated(p) ==
    /\ at[p] = "create"
    /\ \A t \in Table : db[t].exists
    /\ Goto(p, "alter")
    /\ todo' = [todo EXCEPT ![p] = Added]
    /\ UNCHANGED <<db, writer, work, table, found, peer, doing, aborts, known, stale>>

(* Mutation of AddColumn: the error for a column that exists is not ignored. *)
AddColumnOrFail(p) ==
    /\ at[p] = "alter" /\ todo[p] # <<>>
    /\ todo' = [todo EXCEPT ![p] = Tail(@)]
    /\ IF Head(todo[p]) \in db["repos"].cols
       THEN Goto(p, "closed") /\ UNCHANGED db
       ELSE /\ MayWrite(p)
            /\ db' = [db EXCEPT !["repos"].cols = @ \union {Head(todo[p])}]
            /\ UNCHANGED at
    /\ UNCHANGED <<writer, work, table, found, peer, doing, aborts, known, stale>>

(* ALTER TABLE repos ADD COLUMN; that it exists is no error. *)
AddColumn(p) ==
    /\ at[p] = "alter" /\ todo[p] # <<>>
    /\ todo' = [todo EXCEPT ![p] = Tail(@)]
    /\ Head(todo[p]) \in db["repos"].cols \/ MayWrite(p)
    /\ db' = [db EXCEPT !["repos"].cols = @ \union {Head(todo[p])}]
    /\ UNCHANGED <<at, writer, work, table, found, peer, doing, aborts, known, stale>>

ColumnsAdded(p) ==
    /\ at[p] = "alter" /\ todo[p] = <<>>
    /\ Goto(p, "check")
    /\ UNCHANGED <<db, writer, work, table, todo, found, peer, doing, aborts, known, stale>>

(* Mutation of NeedsRebuild: repos is asked what refs is. *)
NeedsRebuildForTimes(t) == ~({"created_at"} \subseteq db[t].cols)

(* repos_table_needs_rebuild, refs_table_needs_rebuild. *)
NeedsRebuild(t) ==
    IF t = "repos" THEN "timestamp" \in db[t].cols
    ELSE ~({"key", "created_at"} \subseteq db[t].cols)

(* After repos come refs; then the database is open. *)
TableDone(p) ==
    IF table[p] = "repos"
    THEN Goto(p, "check") /\ table' = [table EXCEPT ![p] = "refs"]
    ELSE Goto(p, "open") /\ UNCHANGED table

Check(p) ==
    /\ at[p] = "check"
    /\ IF NeedsRebuild(table[p])
       THEN /\ Goto(p, "ask")
            /\ todo' = [todo EXCEPT ![p] = Asked[table[p]]]
            /\ found' = [found EXCEPT ![p] = {}]
            /\ UNCHANGED table
       ELSE TableDone(p) /\ UNCHANGED <<todo, found>>
    /\ UNCHANGED <<db, writer, work, peer, doing, aborts, known, stale>>

(* sqlite_has_column, outside any transaction. *)
AskColumn(p) ==
    /\ at[p] = "ask" /\ todo[p] # <<>>
    /\ todo' = [todo EXCEPT ![p] = Tail(@)]
    /\ found' = [found EXCEPT ![p] = @ \union ({Head(todo[p])} \intersect db[table[p]].cols)]
    /\ UNCHANGED <<db, writer, work, at, table, peer, doing, aborts, known, stale>>

(* Mutation of Begin: the lock is not waited for. *)
BeginUnlocked(p) ==
    /\ at[p] = "ask" /\ todo[p] = <<>>
    /\ writer' = writer \union {p}
    /\ work' = [new |-> NewTable(table[p]), old |-> db[table[p]]]
    /\ Goto(p, "copy")
    /\ UNCHANGED <<db, table, todo, found, peer, doing, aborts, known, stale>>

(* CREATE TABLE ..._new: the transaction's first statement takes the lock.  *)
Begin(p) ==
    /\ at[p] = "ask" /\ todo[p] = <<>>
    /\ writer = {}
    /\ writer' = {p}
    /\ work' = [new |-> NewTable(table[p]), old |-> db[table[p]]]
    /\ Goto(p, "copy")
    /\ UNCHANGED <<db, table, todo, found, peer, doing, aborts, known, stale>>

(* Mutation of Kept: the column is not copied. *)
KeptWithoutBundle(c, cols) ==
    \/ c # "bundle" /\ c \in cols
    \/ c = "created_at" /\ "timestamp" \in cols

(* The value of c is copied when c was found; timestamp, the column of old, *)
(* stands in for the time of creation.                                      *)
Kept(c, cols) == c \in cols \/ (c = "created_at" /\ "timestamp" \in cols)

(* Columns the INSERT ... SELECT names. *)
Named(p) ==
    IF table[p] = "repos" /\ "created_at" \in found[p]
    THEN found[p] \ {"timestamp"} ELSE found[p]

Copy(p) ==
    /\ at[p] = "copy"
    /\ Named(p) \subseteq work.old.cols
    /\ work' = [work EXCEPT !.new.rows =
                  [r \in Repo |->
                     LET row == work.old.rows[r] IN
                     IF row = NoRow \/ table[p] = "refs" THEN row
                     ELSE [c \in Attr |-> row[c] /\ Kept(c, found[p])]]]
    /\ stale' = (stale \/ found[p] # Range(Asked[table[p]]) \intersect work.old.cols)
    /\ Goto(p, "drop")
    /\ UNCHANGED <<db, writer, table, todo, found, peer, doing, aborts, known>>

(* "no such column": the transaction is rolled back and the opening fails. *)
CopyFails(p) ==
    /\ at[p] = "copy"
    /\ ~(Named(p) \subseteq work.old.cols)
    /\ writer' = {} /\ work' = NoWork
    /\ Goto(p, "closed")
    /\ UNCHANGED <<db, table, todo, found, peer, doing, aborts, known, stale>>

(* Mutation of Drop: the statement is not part of the transaction. *)
DropAtOnce(p) ==
    /\ at[p] = "drop"
    /\ work' = [work EXCEPT !.old = NoTable]
    /\ db' = [db EXCEPT ![table[p]].rows = [r \in Repo |-> NoRow]]
    /\ Goto(p, "rename")
    /\ UNCHANGED <<writer, table, todo, found, peer, doing, aborts, known, stale>>

Drop(p) ==
    /\ at[p] = "drop"
    /\ work' = [work EXCEPT !.old = NoTable]
    /\ Goto(p, "rename")
    /\ UNCHANGED <<db, writer, table, todo, found, peer, doing, aborts, known, stale>>

Rename(p) ==
    /\ at[p] = "rename"
    /\ work' = [new |-> NoTable, old |-> work.new]
    /\ Goto(p, "commit")
    /\ UNCHANGED <<db, writer, table, todo, found, peer, doing, aborts, known, stale>>

Commit(p) ==
    /\ at[p] = "commit"
    /\ db' = [db EXCEPT ![table[p]] = work.old]
    /\ writer' = {} /\ work' = NoWork
    /\ TableDone(p)
    /\ UNCHANGED <<todo, found, peer, doing, aborts, known, stale>>

(* The process stops, or a statement fails, for the lock or for the disk:   *)
(* what is not committed is gone.  The cell of get_db_conn stays empty.     *)
Abort(p) ==
    /\ at[p] # "closed"
    /\ aborts < MaxAbort
    /\ aborts' = aborts + 1
    /\ Goto(p, "closed")
    /\ writer' = writer \ {p}
    /\ work' = IF p \in writer THEN NoWork ELSE work
    /\ doing' = [doing EXCEPT ![p] = Idle]
    /\ UNCHANGED <<db, table, todo, found, peer, known, stale>>

OpenStep(p) ==
    \/ \E t \in Table : CreateTable(p, t)
    \/ TablesCreated(p) \/ AddColumn(p) \/ ColumnsAdded(p) \/ Check(p) \/ AskColumn(p)
    \/ Begin(p) \/ Copy(p) \/ CopyFails(p) \/ Drop(p) \/ Rename(p) \/ Commit(p)

-----------------------------------------------------------------------------
(* The calls that write rows. *)

RowOf(r) == db["repos"].rows[r]

(* The gossip handler has loaded no repository r and saves it as external,  *)
(* a command adds r as local whatever there is.                             *)
Save(p, op, r) ==
    /\ at[p] = "open" /\ doing[p] = Idle
    /\ op = (IF p \in NodeProc THEN "learn" ELSE "add")
    /\ op = "learn" => RowOf(r) = NoRow
    /\ doing' = [doing EXCEPT ![p] = [op |-> op, repo |-> r, step |-> "find"]]
    /\ UNCHANGED <<db, writer, work, openVars, peer, aborts, known, stale>>

Step(p, s) == doing' = [doing EXCEPT ![p].step = s]
SavedAs(p, created) ==
    [c \in Attr |-> CASE c = "bundle" -> FALSE
                      [] c = "is_external" -> doing[p].op = "learn"
                      [] c = "created_at" -> created]

(* save_repo_to_db looks for the row, then writes it, then the refs. *)
Find(p) ==
    /\ doing[p] # Idle /\ doing[p].step = "find"
    /\ Step(p, IF RowOf(doing[p].repo) = NoRow THEN "insert" ELSE "update")
    /\ UNCHANGED <<db, writer, work, openVars, peer, aborts, known, stale>>

Write(r, row) ==
    /\ db' = [db EXCEPT !["repos"].rows[r] = row]
    /\ known' = [known EXCEPT ![r] = row]

(* INSERT fails if the row has come in between. *)
Insert(p) ==
    /\ doing[p] # Idle /\ doing[p].step = "insert"
    /\ MayWrite(p)
    /\ IF RowOf(doing[p].repo) = NoRow
       THEN Write(doing[p].repo, SavedAs(p, TRUE)) /\ Step(p, "refs")
       ELSE doing' = [doing EXCEPT ![p] = Idle] /\ UNCHANGED <<db, known>>
    /\ UNCHANGED <<writer, work, openVars, peer, aborts, stale>>

(* Mutation of Update: the row gets another time of creation. *)
UpdateAnew(p) ==
    /\ doing[p] # Idle /\ doing[p].step = "update"
    /\ MayWrite(p)
    /\ Write(doing[p].repo, SavedAs(p, FALSE))
    /\ Step(p, "refs")
    /\ UNCHANGED <<writer, work, openVars, peer, aborts, stale>>

Update(p) ==
    /\ doing[p] # Idle /\ doing[p].step = "update"
    /\ MayWrite(p)
    /\ Write(doing[p].repo, SavedAs(p, RowOf(doing[p].repo)["created_at"]))
    /\ Step(p, "refs")
    /\ UNCHANGED <<writer, work, openVars, peer, aborts, stale>>

(* The gossip handler has found repository r, external and with other refs  *)
(* than those announced.  It replaces its refs and clears its bundle, in    *)
(* three statements, and goes on to the next whether they succeed or fail.  *)
Refresh(p, r) ==
    /\ at[p] = "open" /\ doing[p] = Idle /\ p \in NodeProc
    /\ RowOf(r) # NoRow /\ RowOf(r)["is_external"]
    /\ doing' = [doing EXCEPT ![p] = [op |-> "refresh", repo |-> r, step |-> "drop"]]
    /\ UNCHANGED <<db, writer, work, openVars, peer, aborts, known, stale>>

(* delete_refs_for_repo. *)
DropRefs(p) ==
    /\ doing[p] # Idle /\ doing[p].step = "drop"
    /\ \/ MayWrite(p) /\ db' = [db EXCEPT !["refs"].rows[doing[p].repo] = NoRow]
       \/ UNCHANGED db
    /\ Step(p, "refs")
    /\ UNCHANGED <<writer, work, openVars, peer, aborts, known, stale>>

(* batch_save_refs, which does nothing for a repository without refs; when  *)
(* it fails, an update goes on and a save is at its end.                    *)
SaveRefs(p) ==
    /\ doing[p] # Idle /\ doing[p].step = "refs"
    /\ \/ /\ MayWrite(p)
          /\ db' = [db EXCEPT !["refs"].rows[doing[p].repo] = [c \in Attr |-> FALSE]]
       \/ UNCHANGED db
    /\ IF doing[p].op = "refresh" THEN Step(p, "clear")
       ELSE doing' = [doing EXCEPT ![p] = Idle]
    /\ UNCHANGED <<writer, work, openVars, peer, aborts, known, stale>>

(* update_repo_bundle with no path, by an update. *)
ClearBundle(p) ==
    /\ doing[p] # Idle /\ doing[p].step = "clear"
    /\ \/ /\ MayWrite(p)
          /\ Write(doing[p].repo, [RowOf(doing[p].repo) EXCEPT !["bundle"] = FALSE])
       \/ UNCHANGED <<db, known>>
    /\ doing' = [doing EXCEPT ![p] = Idle]
    /\ UNCHANGED <<writer, work, openVars, peer, aborts, stale>>

(* update_repo_bundle, by the data handler of a node. *)
SetBundle(p, r) ==
    /\ at[p] = "open" /\ p \in NodeProc
    /\ RowOf(r) # NoRow
    /\ MayWrite(p)
    /\ Write(r, [RowOf(r) EXCEPT !["bundle"] = TRUE])
    /\ UNCHANGED <<writer, work, openVars, peer, doing, aborts, stale>>

(* The gossip handler saves the node an announcement is about: its row is   *)
(* deleted, an error of that being ignored, and inserted again.             *)
SaveNode(p) ==
    /\ at[p] = "open" /\ p \in NodeProc /\ doing[p] = Idle
    /\ doing' = [doing EXCEPT ![p] = [op |-> "hear", step |-> "delete"]]
    /\ UNCHANGED <<db, writer, work, openVars, peer, aborts, known, stale>>

DeleteNode(p) ==
    /\ doing[p].op = "hear" /\ doing[p].step = "delete"
    /\ MayWrite(p)
    /\ peer' = FALSE
    /\ Step(p, "renew")
    /\ UNCHANGED <<db, writer, work, openVars, aborts, known, stale>>

(* Mutation of InsertNode: UPDATE. *)
UpdateNode(p) ==
    /\ doing[p].op = "hear" /\ doing[p].step = "renew"
    /\ MayWrite(p)
    /\ doing' = [doing EXCEPT ![p] = Idle]
    /\ UNCHANGED <<db, writer, work, openVars, peer, aborts, known, stale>>

InsertNode(p) ==
    /\ doing[p].op = "hear" /\ doing[p].step = "renew"
    /\ MayWrite(p)
    /\ peer' = TRUE
    /\ doing' = [doing EXCEPT ![p] = Idle]
    /\ UNCHANGED <<db, writer, work, openVars, aborts, known, stale>>

CallStep(p) ==
    \/ Find(p) \/ Insert(p) \/ Update(p) \/ SaveRefs(p) \/ DropRefs(p) \/ ClearBundle(p)
    \/ DeleteNode(p) \/ InsertNode(p)

DatabaseStep ==
    \E p \in Process :
        \/ OpenStep(p) \/ CallStep(p) \/ SaveNode(p)
        \/ \E r \in Repo :
              SetBundle(p, r) \/ Refresh(p, r) \/ \E op \in {"learn", "add"} : Save(p, op, r)

-----------------------------------------------------------------------------
(* No row is lost: not by a rebuild that stops between any two statements,  *)
(* nor by one that another process does at the same time, nor by one that   *)
(* goes by what it asked before the other's was committed.  Only the rows   *)
(* of refs go, and only those of the repository that a node is updating.    *)
Updated(p, r) ==
    doing[p] = [op |-> "refresh", repo |-> r, step |-> "drop"] /\ doing'[p] # doing[p]
RowsKept ==
    [][\A t \in Table : db[t].exists =>
          /\ db'[t].exists
          /\ \A r \in Repo : db[t].rows[r] # NoRow =>
                db'[t].rows[r] # NoRow \/ (t = "refs" /\ \E p \in Process : Updated(p, r))]_db

(* A rebuild keeps what was written: the bundle, whether a repository is    *)
(* external, when the row was created; unless it asked for the columns      *)
(* before another process's rebuild was committed, and copied after: then   *)
(* it takes what the other process has written since for the default.       *)
MigrationKeeps ==
    stale \/ \A r \in Repo : db["repos"].exists => RowOf(r) = known[r]

(* For those who read and write rows it is as if nobody ever created or     *)
(* rebuilt a table: a row keeps its time of creation, refs come to a        *)
(* repository that is there and all go at once, a bundle is set or cleared  *)
(* in a row that is there, and whoever opens or stops changes no row.       *)
RowsOf(t) == IF db[t].exists THEN db[t].rows ELSE [r \in Repo |-> NoRow]
Records == INSTANCE Records WITH
    row <- RowsOf("repos"), listed <- {r \in Repo : RowsOf("refs")[r] # NoRow}, late <- stale
ImplementsRecords == Records!Spec

(* A node whose row was deleted by a save that did not end, for a restart   *)
(* or an error, comes back with a later announcement, whatever else is      *)
(* going on in the database.                                                *)
NodeComesBack ==
    \A p \in NodeProc : (at[p] = "open" /\ ~peer) ~> (at[p] # "open" \/ peer)

(* A process that has the database open can insert rows: the column that    *)
(* older versions fill is gone, and no other process brings it back.        *)
OpenIsCurrent ==
    \A p \in Process : at[p] = "open" => \A t \in Table : db[t].cols = Canonical[t]
=============================================================================
