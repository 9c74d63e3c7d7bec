---------------------------- MODULE NodeStartMC ----------------------------
(* Instances of NodeStart for TLC. *)
EXTENDS NodeStart

CONSTANTS node, cli, repo

NoFiles == [f \in File |-> None]
AllFiles == [f \in File |-> Pair(0)]

(* Tables with these columns, and a row in each. *)
Stored(reposColumns, refsColumns) ==
    [repos |-> TableWith(reposColumns,
                 [r \in Repo |-> [c \in Attr |-> c = "created_at" \/ c \in reposColumns]]),
     refs |-> TableWith(refsColumns, [r \in Repo |-> [c \in Attr |-> FALSE]])]

Fresh == [t \in Table |-> NoTable]
Oldest == Stored({"timestamp"}, {"updated_at"})
Older == Stored({"timestamp", "bundle", "is_external", "created_at", "updated_at"},
                Canonical["refs"])

FirstStart == [files |-> NoFiles, stored |-> Fresh]
Upgrades == {[files |-> AllFiles, stored |-> s] : s \in {Oldest, Older}}
AllStarts == {FirstStart} \union Upgrades
=============================================================================
