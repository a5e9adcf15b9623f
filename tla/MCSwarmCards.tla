---------------------------- MODULE MCSwarmCards ----------------------------
(***************************************************************************)
(* Two or three vehicles. Deployments of the same two that exchange slots,   *)
(* leader and mode; and a swarm of three that loses two to another one.      *)
(***************************************************************************)
EXTENDS SwarmCards

CONSTANTS u, v, w, front, west, east, s, t

Placing(x, y, z) == [n \in Node |-> IF n = v THEN x ELSE IF n = w THEN y ELSE z]

Deployment(id, leader, members, slots, mode) ==
  [swarm |-> id, leader |-> leader, members |-> members, slots |-> slots, mode |-> mode]

SameVehicles == {Deployment(s, v, {v, w}, Placing(front, west, east), "internal"),
                 Deployment(t, w, {v, w}, Placing(west, front, east), "external")}

LosesVehicles == {Deployment(s, v, {u, v, w}, Placing(front, west, east), "internal"),
                  Deployment(t, w, {v, w}, Placing(west, front, east), "internal")}

MCFormations == {Placing(front, west, east), Placing(west, front, east)}
=============================================================================
