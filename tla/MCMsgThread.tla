---------------------------- MODULE MCMsgThread ----------------------------
(* Instances of MsgThread for TLC.                                         *)
EXTENDS MsgThread

CONSTANTS c1, c2

MCClients == {c1, c2}
MCDelays == {0, 1}

=============================================================================
