---------------------------- MODULE NeighbTable ----------------------------
(***************************************************************************)
(* What a switch's neighbour database promises to the proc thread, the     *)
(* only thread that uses it: a table with at most one record per neighbour *)
(* (its port and a time to live), refreshed by the neighbour's reports and *)
(* aged by the switch's own.  No list, no pointer, no heap: NeighbDB, the  *)
(* code of ddp_proto_switch.c, is shown to implement this module.          *)
(***************************************************************************)
EXTENDS Integers, FiniteSets

CONSTANTS
  Macs,        \* the neighbours' addresses
  PortNumber,  \* kDDP_SWITCH_PORT_NUMBER: the ports are 1..PortNumber
  IfIndexes,   \* the kernel indexes of the switch's interfaces
  MaxEntry,    \* kDDP_SWITCH_MAX_ENTRY_PER_PACKET
  UpdateTTL,   \* kDDP_SWITCH_UPDATE_TTL
  Nobody       \* the record of an unknown neighbour

ASSUME TableAssumption ==
  /\ PortNumber \in Nat /\ MaxEntry \in Nat /\ UpdateTTL \in Nat
  /\ IsFiniteSet(Macs)
  /\ IfIndexes \subseteq Nat \ {0} /\ IsFiniteSet(IfIndexes) /\ IfIndexes # {}
  /\ Nobody \notin [port : 1..PortNumber, ttl : 0..UpdateTTL]

VARIABLES
  known,       \* known[m]: the port m was last heard on and its time to live
  count        \* the number of neighbours the last QUERY reply announced

tableVars == <<known, count>>

Ports == 1..PortNumber
Record == [port : Ports, ttl : 0..UpdateTTL]
On(p) == {m \in Macs : known[m] # Nobody /\ known[m].port = p}
Passes == Cardinality(IfIndexes)

TableInit ==
  /\ known = [m \in Macs |-> Nobody]
  /\ count = 0

\* A report from m on port p.  What was known of m is forgotten first; the
\* new record is kept unless more than MaxEntry others are known on the port.
Learn(m, p) ==
  /\ known' = [known EXCEPT ![m] =
                 IF Cardinality(On(p) \ {m}) > MaxEntry THEN Nobody
                 ELSE [port |-> p, ttl |-> UpdateTTL]]
  /\ UNCHANGED count

\* MUTANT: a record expires one pass early.
Age_TooFar ==
  /\ known' = [m \in Macs |->
                 IF known[m] = Nobody \/ known[m].ttl <= Passes THEN Nobody
                 ELSE [known[m] EXCEPT !.ttl = @ - Passes]]
  /\ UNCHANGED count

\* One general report of the switch: it is sent on every interface, and every
\* sending ages every record by one.
Age ==
  /\ known' = [m \in Macs |->
                 IF known[m] = Nobody \/ known[m].ttl < Passes THEN Nobody
                 ELSE [known[m] EXCEPT !.ttl = @ - Passes]]
  /\ UNCHANGED count

\* A QUERY on the interface of index i; beyond the last port nobody is known.
Answer(i) ==
  /\ count' = Cardinality(On(i))
  /\ UNCHANGED known

TableNext ==
  \/ \E i \in IfIndexes : Answer(i)
  \/ Age
  \/ \E m \in Macs, p \in IfIndexes \cap Ports : Learn(m, p)

TableSpec == TableInit /\ [][TableNext]_tableVars

-----------------------------------------------------------------------------
(* Properties. *)

\* Every record names a port of the switch and a time to live in range.
TableTypeOK ==
  /\ known \in [Macs -> Record \cup {Nobody}]
  /\ count \in Nat

\* "Each port supports max %d devices." (ddp_proto_switch.c:931), with MaxEntry for
\* the number.
PortBound == \A p \in Ports : Cardinality(On(p)) <= MaxEntry

\* "When node's TTL equals to zero, the entry is phased-out and should be purged.
\* Every time switch sends a general report, it also use this function check and
\* update nodes' TTL." (ddp_proto_switch.c:430-432): a report of the switch drops
\* no record whose time to live is not zero.
PhasedOutAtZero ==
  [][Age => \A m \in Macs : known[m] # Nobody /\ known[m].ttl > 0 => known'[m] # Nobody]_tableVars
=============================================================================
