-------------------------- MODULE MCMavlinkStreams --------------------------
(***************************************************************************)
(* The link of the mesh (MAVLINK_MODE_SWARM): positions are streamed, a      *)
(* SWARM_STATUS is sent on request only.                                     *)
(***************************************************************************)
EXTENDS MavlinkStreams

MCStreams == {"LOCAL_POSITION_NED", "SWARM_STATUS"}
MCDefault == [n \in MCStreams |-> IF n = "SWARM_STATUS" THEN "off" ELSE "on"]
=============================================================================
