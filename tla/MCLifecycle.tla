----------------------------- MODULE MCLifecycle -----------------------------
(* Two devices that work and one section with a plugin that cannot be      *)
(* loaded.                                                                 *)
EXTENDS Lifecycle

CONSTANTS battery_1, regulator, inverter
=============================================================================
