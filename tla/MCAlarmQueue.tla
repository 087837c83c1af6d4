---------------------------- MODULE MCAlarmQueue ----------------------------
(* Small instances of AlarmQueue for TLC. *)
EXTENDS AlarmQueue, TLC

Symmetry == Permutations(Msgs)
=============================================================================
