-------------------------- MODULE BundleTransferMC --------------------------
(* Instances of BundleTransfer for TLC. *)
EXTENDS BundleTransfer

CONSTANTS owner, reader

(* The bundle shrinks, as after a force push. *)
Shrinking == <<2, 1>>

(* The reader is bootstrapped to the owner, or each of them to the other. *)
OneWay == {<<reader, owner>>}
Mutual == OneWay \union {<<owner, reader>>}
BothWays == {OneWay, Mutual}
OnlyMutual == {Mutual}
TwoOneWay == [d \in BothWays |-> IF d = OneWay THEN 2 ELSE 0]
TwoOrOne == [d \in BothWays |-> IF d = OneWay THEN 2 ELSE 1]
Faultless == [d \in OnlyMutual |-> 0]
=============================================================================
