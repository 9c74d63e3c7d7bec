----------------------------- MODULE RepoSyncMC -----------------------------
(* Instances of RepoSync for TLC. *)
EXTENDS RepoSync

CONSTANTS main, dev, v1, o, a, b

OnlyMain == [r \in {main} |-> 1]
MainAndTag == [r \in {main, v1} |-> 1]

(* The reader hears the owner; it and the owner hear each other; a and b    *)
(* hear the owner, and b hears a.                                           *)
OneWay == [n \in Node |-> {Owner} \ {n}]
Echo == [n \in Node |-> CASE n = o -> {a} [] n = a -> {o} [] OTHER -> {}]
Relay == [n \in Node |-> CASE n = o -> {} [] n = a -> {o} [] OTHER -> {o, a}]

Undisturbed(hears, overlap) ==
    [hears |-> hears, requests |-> overlap, deletes |-> 0, crashes |-> 0, clones |-> 0,
     failures |-> 0]

Quiet == {Undisturbed(OneWay, 1)}

(* Two requests on their way, a restart and a failure; a clone and a        *)
(* restart; a clone and a failure.                                          *)
Disturbed ==
    {[Undisturbed(OneWay, 2) EXCEPT !.crashes = 1, !.failures = 1],
     [Undisturbed(OneWay, 1) EXCEPT !.clones = 1, !.crashes = 1],
     [Undisturbed(OneWay, 1) EXCEPT !.clones = 1, !.failures = 1]}

(* A relay, a restart and a failure; what the owner announced comes back to *)
(* it, while it deletes a ref, a node restarts and a step fails.            *)
Relayed ==
    {[Undisturbed(Relay, 0) EXCEPT !.crashes = 1, !.failures = 1],
     [Undisturbed(Echo, 0) EXCEPT !.deletes = 1, !.crashes = 1, !.failures = 1]}
=============================================================================
