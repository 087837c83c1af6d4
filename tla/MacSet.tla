------------------------------- MODULE MacSet -------------------------------
(***************************************************************************)
(* What the table of user-defined MAC addresses promises to the client of  *)
(* requests D5 (ddp_platform_set_if_asv_usr_def_mac): a set of at most     *)
(* Capacity keys, in which adding answers success only for a key that was  *)
(* not in it, and removing only for one that was.  The key that stands for *)
(* a free slot is no member; removing it succeeds as long as one is free.  *)
(***************************************************************************)
EXTENDS Integers, FiniteSets

CONSTANTS
  Keys,      \* what tells two addresses apart
  NoKey,     \* the key of a free slot
  Capacity   \* how many addresses the table holds

VARIABLES
  members,   \* the keys in the table
  answer     \* the last answer: to which order, for which key, and its code

vars == <<members, answer>>

HasRoom == Cardinality(members) < Capacity

Init == members = {} /\ answer.order = "none"

Answer(order, k, code) == answer' = [order |-> order, key |-> k, code |-> code]

Add(k) ==
  IF k # NoKey /\ k \notin members /\ HasRoom
  THEN Answer("add", k, "ok") /\ members' = members \cup {k}
  ELSE Answer("add", k, "fail") /\ UNCHANGED members

Remove(k) ==
  IF k \in members \/ (k = NoKey /\ HasRoom)
  THEN Answer("del", k, "ok") /\ members' = members \ {k}
  ELSE Answer("del", k, "fail") /\ UNCHANGED members

\* Another request, a wrong password, an order that is neither of the two.
Other == answer'.order = "none" /\ UNCHANGED members

Next == Other \/ \E k \in Keys : Add(k) \/ Remove(k)

Spec == Init /\ [][Next]_vars
=============================================================================
