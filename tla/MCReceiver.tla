----------------------------- MODULE MCReceiver -----------------------------
EXTENDS Receiver

Msg(id, ver, mac, mode) ==
  [id |-> id, ver |-> ver, mac |-> mac, mode |-> mode, op |-> TRUE, known |-> TRUE, whole |-> TRUE]
At(s, m) == [sock |-> s, msg |-> m]

MCMenu ==
  {At("cli4", Msg("REQ", 4, "all", "zero")),
   At("cli6", [Msg("REPORT", 6, "own", "zero") EXCEPT !.op = FALSE]),
   At("srv4", Msg("RELAY", 4, "all", "zero")),
   At("srv4", Msg("REPLY", 4, "foreign", "zero")),
   At("v1", Msg("REPLY", 4, "own", "zero"))}
=============================================================================
