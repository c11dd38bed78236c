--------------------------- MODULE MCConnections ---------------------------
(* Symmetry is sound: the properties are invariants and nothing orders the *)
(* organisations or the slots.                                             *)
EXTENDS Connections, TLC
OneSite == [h \in Hosts |-> CHOOSE k \in Keys : TRUE]
Symmetry == Permutations(Orgs) \union Permutations(Slots)
=============================================================================
