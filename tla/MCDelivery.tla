----------------------------- MODULE MCDelivery -----------------------------
(* One switch (QoS 1) and one sensor (QoS 0), two values each.             *)
EXTENDS Delivery

CONSTANTS switch, sensor
=============================================================================
