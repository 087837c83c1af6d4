----------------------------- MODULE MCMsgQueue -----------------------------
(* Small instances of MsgQueue for TLC. *)
EXTENDS MsgQueue, TLC

Symmetry == Permutations(Threads) \cup Permutations(Msgs) \cup Permutations(Nodes)
=============================================================================
