-------------------------- MODULE MCCommandBridge --------------------------
(* Two devices and three commands: enough for two commands in one list, a  *)
(* third that arrives while the list is being drained, and commands to two *)
(* devices in one round.                                                   *)
EXTENDS CommandBridge

CONSTANTS battery_1, regulator
=============================================================================
