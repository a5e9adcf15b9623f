----------------------------- MODULE MCSwarmMode -----------------------------
(***************************************************************************)
(* The node of one vehicle, v, and a neighbour, w, that leads swarm s. The   *)
(* node is told of s, of a new formation of s, and of a swarm t that it      *)
(* leads itself.                                                             *)
(***************************************************************************)
EXTENDS SwarmMode

CONSTANTS v, w, a, b, s, t

Create(id, n, leader) == [type |-> "create", swarm |-> id, count |-> n, leader |-> leader]
Update(id, n, leader) == [type |-> "update", swarm |-> id, count |-> n, leader |-> leader]
SlotOf(id, n, slot) == [swarm |-> id, node |-> n, slot |-> slot]

MCManagement == {Create(s, 2, w), Update(s, 2, w), Create(t, 2, v)}
MCNodes == {SlotOf(s, v, a), SlotOf(s, w, b)}
MCPositions == {[node |-> w, fast |-> TRUE]}
=============================================================================
