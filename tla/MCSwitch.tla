------------------------------ MODULE MCSwitch ------------------------------
(* Three VLANs, one of them a multiple of 8 and one asked for without a name; *)
(* two settings of the ASV, one with a state that is not defined; a table of  *)
(* two MAC addresses, and four to choose from: two that differ in their       *)
(* description only, one that begins with a zero and one that ends with one.  *)
EXTENDS Switch

MCVlan(n, v, t) ==
  [name |-> n, id |-> v, tagType |-> 1, tags |-> t, untagType |-> 0, untags |-> t + 1]
MCVlanMenu == {MCVlan(2, 7, 1), MCVlan(3, 8, 1), MCVlan(0, 8, 2)}
MCAsvMenu ==
  {[id |-> <<0, 5>>, priority |-> <<2, 0>>, state |-> 1, tagType |-> 0, tags |-> 1],
   [id |-> <<3, 5>>, priority |-> <<0, 1>>, state |-> 2, tagType |-> 1, tags |-> 2]}
MCMacMenu ==
  {[addr |-> <<5, 6>>, desc |-> <<7, 0>>], [addr |-> <<5, 6>>, desc |-> <<8, 0>>],
   [addr |-> <<0, 6>>, desc |-> <<7, 0>>], [addr |-> <<5, 0>>, desc |-> <<7, 0>>]}
MCUnits == <<<<1, 12>>, <<2, 24>>>>
=============================================================================
