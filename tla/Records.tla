------------------------------- MODULE Records -------------------------------
(***************************************************************************)
(* The tables repos and refs as those see them who read and write rows:    *)
(* one table each, with all its columns, which nobody creates, alters or   *)
(* rebuilds and nobody stops half way.  What is left of the migrations is  *)
(* that one that goes by outdated answers may set values to their default. *)
(***************************************************************************)
CONSTANTS Repo, NoRow

Row == [{"bundle", "is_external", "created_at"} -> BOOLEAN]

VARIABLES
    row,    \* row[r]: the row of r in repos
    listed, \* repositories with rows in refs
    late    \* a migration has gone by outdated answers

vars == <<row, listed, late>>

Init ==
    /\ row \in [Repo -> Row \union {NoRow}]
    /\ listed \in SUBSET Repo
    /\ late = FALSE

(* The time of creation is that of the row that is there. *)
Save(r, saved) ==
    /\ ~saved["bundle"]
    /\ saved["created_at"] <=> (row[r] = NoRow \/ row[r]["created_at"])
    /\ row' = [row EXCEPT ![r] = saved]
    /\ UNCHANGED <<listed, late>>

SetBundle(r) ==
    /\ row[r] # NoRow
    /\ row' = [row EXCEPT ![r]["bundle"] = TRUE]
    /\ UNCHANGED <<listed, late>>

ClearBundle(r) ==
    /\ row[r] # NoRow
    /\ row' = [row EXCEPT ![r]["bundle"] = FALSE]
    /\ UNCHANGED <<listed, late>>

(* Refs are saved, and replaced, for a repository that is there. *)
SaveRefs(r) ==
    /\ row[r] # NoRow
    /\ listed' = listed \union {r}
    /\ UNCHANGED <<row, late>>

DropRefs(r) ==
    /\ row[r] # NoRow
    /\ listed' = listed \ {r}
    /\ UNCHANGED <<row, late>>

GoByOldAnswers ==
    /\ late' = TRUE
    /\ UNCHANGED <<row, listed>>

(* No row comes or goes, and no value is made up. *)
SetToDefault ==
    /\ late
    /\ row' \in [Repo -> Row \union {NoRow}]
    /\ \A r \in Repo :
          /\ row'[r] = NoRow <=> row[r] = NoRow
          /\ row[r] # NoRow => \A c \in DOMAIN row[r] : row'[r][c] => row[r][c]
    /\ UNCHANGED <<listed, late>>

Next ==
    \/ \E r \in Repo : \/ SetBundle(r) \/ ClearBundle(r) \/ SaveRefs(r) \/ DropRefs(r)
                       \/ \E saved \in Row : Save(r, saved)
    \/ GoByOldAnswers \/ SetToDefault

Spec == Init /\ [][Next]_vars
=============================================================================
