--------------------------- MODULE MCConnections ---------------------------
EXTENDS Connections

CONSTANTS battery_1, battery_2, regulator
=============================================================================
