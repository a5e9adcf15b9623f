---------------------------- MODULE MCMqttBridge ----------------------------
(***************************************************************************)
(* A swarm of two, v that follows and w that leads, and a third vehicle x    *)
(* that is on the ground.                                                   *)
(***************************************************************************)
EXTENDS MqttBridge

CONSTANTS v, w, x

MCOrder == <<v, w>>
=============================================================================
