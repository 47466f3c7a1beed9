---------------------------- MODULE MCRosterFold ----------------------------
(* Instances of RosterFold small enough to explore.                          *)
EXTENDS RosterFold, TLC

\* Neither devices nor nonces are ordered by the rules.
Symmetry == Permutations(Node) \union Permutations(Nonce)
=============================================================================
