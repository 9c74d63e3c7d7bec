-------------------------------- MODULE Refs --------------------------------
(***************************************************************************)
(* Ref maps: what storage/ref_model.rs keeps for a repository, what        *)
(* git/git_repo.rs reads from a working repository and what git/pack.rs    *)
(* puts into, and reads back from, a bundle.  A ref map is a function from *)
(* some of the refs to commits.                                            *)
(***************************************************************************)
EXTENDS Naturals, FiniteSets

CONSTANTS
    Heads,     \* refs/heads/...
    Tags,      \* refs/tags/...
    Remotes,   \* refs/remotes/..., the remote-tracking branches
    HeadRef,   \* HEAD
    CheckedOut \* the branches a clone checks out: main and master

ASSUME RefAssumption ==
    /\ IsFiniteSet(Heads) /\ IsFiniteSet(Tags) /\ IsFiniteSet(Remotes)
    /\ Heads \intersect Tags = {}
    /\ Heads \intersect Remotes = {}
    /\ Tags \intersect Remotes = {}
    /\ CheckedOut \subseteq Heads
    /\ HeadRef \notin Heads \union Tags \union Remotes

Ref == Heads \union Tags \union Remotes \union {HeadRef}

RefMaps(commits) == UNION {[names -> commits] : names \in SUBSET Ref}

NoRefs == [r \in {} |-> 0]

Only(map, names) == [r \in DOMAIN map \intersect names |-> map[r]]

(* batch_save_refs: insert or update each ref of new, delete none. *)
BatchSave(db, new) ==
    [r \in DOMAIN db \union DOMAIN new |-> IF r \in DOMAIN new THEN new[r] ELSE db[r]]

(* has_refs_changed: compare the numbers of refs, then look up every ref of *)
(* the database in the current ones.                                        *)
HasRefsChanged(db, current) ==
    \/ Cardinality(DOMAIN db) # Cardinality(DOMAIN current)
    \/ \E r \in DOMAIN db : r \in DOMAIN current => current[r] # db[r]

(* read_repo_refs: local branches and tags. *)
ReadRepoRefs(git) == Only(git, Heads \union Tags)

(* pack_repo_bundle: local and remote-tracking branches, HEAD if there is   *)
(* none; extract_bundle_refs lists the same names again.                    *)
BundleRefs(git) ==
    IF DOMAIN Only(git, Heads \union Remotes) # {}
    THEN Only(git, Heads \union Remotes)
    ELSE Only(git, {HeadRef})

(* What read_repo_refs finds in a fresh clone of a bundle: git clone makes  *)
(* remote-tracking branches, restore_repo_from_bundle then checks out main  *)
(* and master.                                                              *)
ClonedRefs(bundle) == Only(bundle, CheckedOut)
=============================================================================
