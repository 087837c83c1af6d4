---------------------------- MODULE NeighbLife ----------------------------
(***************************************************************************)
(* How long the neighbour table keeps a record: NeighbTable with a history *)
(* of the reports that were recorded, for any number of interfaces.        *)
(***************************************************************************)
EXTENDS NeighbTable

VARIABLE
  heard        \* history: heard[m].port, where the last recorded report of m came, and
               \* heard[m].reports, how many the switch has sent since, up to Never

lifeVars == <<known, count, heard>>

\* No report was recorded, or it is out of date by any count.
Never == UpdateTTL + 1

LifeInit == TableInit /\ heard = [m \in Macs |-> [port |-> 0, reports |-> Never]]

LifeLearn(m, p) ==
  /\ Learn(m, p)
  /\ heard' = [heard EXCEPT ![m] = [port |-> p, reports |-> IF known'[m] = Nobody THEN Never ELSE 0]]

LifeAge ==
  /\ Age
  /\ heard' = [m \in Macs |-> [heard[m] EXCEPT !.reports = IF @ = Never THEN @ ELSE @ + 1]]

LifeAnswer(i) == Answer(i) /\ UNCHANGED heard

LifeNext ==
  \/ \E m \in Macs, p \in IfIndexes \cap Ports : LifeLearn(m, p)
  \/ LifeAge
  \/ \E i \in IfIndexes : LifeAnswer(i)

LifeSpec == LifeInit /\ [][LifeNext]_lifeVars

-----------------------------------------------------------------------------

\* However the neighbours' reports, the switch's own and the moves between ports
\* are interleaved, a neighbour is listed on the port of its last recorded report,
\* and for as many reports of the switch after it as UpdateTTL has sendings on all
\* interfaces: with more interfaces than UpdateTTL not even for one
\* (ddp_proto_basic.c:132-164, ddp_proto_switch.c:459-488).
Lifespan ==
  \A m \in Macs :
    LET passes == heard[m].reports * Passes IN
      known[m] = IF passes > UpdateTTL THEN Nobody
                 ELSE [port |-> heard[m].port, ttl |-> UpdateTTL - passes]
=============================================================================
