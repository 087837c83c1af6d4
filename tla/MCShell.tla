------------------------------ MODULE MCShell ------------------------------
EXTENDS Shell

MCMenu == {[kind |-> "DISCOVERY", known |-> TRUE], [kind |-> "SET_BASIC_INFO", known |-> TRUE]}
=============================================================================
