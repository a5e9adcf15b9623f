------------------------- MODULE MCFlightTaskSwarm -------------------------
(***************************************************************************)
(* One vehicle, v, among three, under configuration messages a ground       *)
(* station could have sent in any order and with any of them lost: v is a   *)
(* follower, or the leader, of one of two swarms.                           *)
(***************************************************************************)
EXTENDS FlightTaskSwarm

CONSTANTS v, w, x, a, b, s, t

Create(id, n, leader) == [type |-> "create", swarm |-> id, count |-> n, leader |-> leader]
Update(id, n, leader) == [type |-> "update", swarm |-> id, count |-> n, leader |-> leader]
SlotOf(id, n, slot) == [swarm |-> id, node |-> n, slot |-> slot]

\* A swarm of three that is updated to two, and a second swarm that v leads.
MCManagement == {Create(s, 3, w), Update(s, 2, w), Create(t, 2, v)}
MCNodes == {SlotOf(s, n, a) : n \in {v, w, x}} \cup {SlotOf(s, w, b)}
MCInformation == {<<w, "position">>}
=============================================================================
