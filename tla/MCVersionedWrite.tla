------------------------- MODULE MCVersionedWrite -------------------------
(* VersionedWrite instantiated for TLC. *)
EXTENDS VersionedWrite, TLC

Symmetry == Permutations(Client) \union Permutations(Part)
=============================================================================
