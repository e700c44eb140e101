-------------------------- MODULE MCEventBackbone --------------------------
(* The instances of EventBackbone that TLC checks.                         *)
EXTENDS EventBackbone, TLC

CONSTANTS e1, e2, c1, c2

OneConsumer == <<c1>>
TwoConsumers == <<c1, c2>>
=============================================================================
