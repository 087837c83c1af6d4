---------------------------- MODULE MCNeighbTable ----------------------------
(* Small instances of NeighbTable and NeighbLife for TLC. *)
EXTENDS NeighbLife, TLC

ThreeInterfaces == {1, 2, 3}
MacSymmetry == Permutations(Macs)
=============================================================================
