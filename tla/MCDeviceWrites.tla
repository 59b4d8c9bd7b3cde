--------------------------- MODULE MCDeviceWrites ---------------------------
(* Two payloads on one of two connections, or one on each, or a command    *)
(* with several of them; and the polls.                                    *)
EXTENDS DeviceWrites
=============================================================================
