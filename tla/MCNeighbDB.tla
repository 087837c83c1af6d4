----------------------------- MODULE MCNeighbDB -----------------------------
(* Small instances of NeighbDB for TLC. *)
EXTENDS NeighbDB, TLC

ThreeInterfaces == {1, 2, 3}
MacSymmetry == Permutations(Macs)
=============================================================================
