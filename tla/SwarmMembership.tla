--------------------------- MODULE SwarmMembership ---------------------------
(***************************************************************************)
(* What a Swarm mode promises, the PX4 flight task and the ROS 2 external    *)
(* mode alike: a vehicle that takes part in a swarm holds slots of some of   *)
(* its nodes, and perhaps those of a formation that is to replace them. When *)
(* it computes a velocity it is coupled to its neighbours by nothing but the *)
(* slots it holds, and only if it holds all of them. There is no counter and *)
(* no second list here: completeness and coupling are read off the slots.    *)
(*                                                                           *)
(* It is NOT promised that the coupling ends with the formation it was       *)
(* computed from: a vehicle that is no longer whole, or in another swarm,    *)
(* may keep its last velocity. FlightTaskSwarm does (update() leaves          *)
(* _velocity_setpoint alone until the formation is complete), though         *)
(* docs/swarm_gcs.md says that its setpoints are unset before that.          *)
(***************************************************************************)
EXTENDS Naturals, FiniteSets

CONSTANTS
  Node, Slot,
  NoNode, NoSlot, NoSwarm,
  Participant,     \* the vehicles that run the mode
  Announcements,   \* the SWARM_MANAGEMENT and
  Placements,      \* the SWARM_NODE messages there are
  Outside,         \* not in the mode
  NoChange         \* no replacement is being collected

VARIABLES
  member,    \* member[v]: Outside, or the formation v takes part in
  coupling   \* coupling[v]: the differences of slots v's velocity is computed from

Nobody == [n \in Node |-> NoSlot]
Placed(slots) == {n \in Node : slots[n] # NoSlot}
Whole(part) == Cardinality(Placed(part.slots)) = part.expected

Fresh == [swarm |-> NoSwarm, expected |-> 0, leader |-> NoNode, slots |-> Nobody, next |-> NoChange]

-----------------------------------------------------------------------------
\* An update of the own swarm opens a replacement; any other message makes the
\* vehicle a member, without slots if the swarm is another one.
Configured(c, m) ==
  IF m.type = "update" /\ c.swarm # NoSwarm /\ m.swarm = c.swarm
  THEN [c EXCEPT !.next = [expected |-> m.count, leader |-> m.leader, slots |-> Nobody]]
  ELSE [swarm |-> m.swarm, expected |-> m.count, leader |-> m.leader,
        slots |-> IF c.swarm = m.swarm THEN c.slots ELSE Nobody, next |-> NoChange]

\* A slot of the replacement; the last one puts all of it in place at once.
Replaced(c, m) ==
  LET next == [c.next EXCEPT !.slots[m.node] = m.slot]
  IN  IF Whole(next)
      THEN [swarm |-> c.swarm, expected |-> next.expected, leader |-> next.leader,
            slots |-> next.slots, next |-> NoChange]
      ELSE [c EXCEPT !.next = next]

\* A slot that is held changes by replacement only.
PlacedIn(c, m) ==
  IF c.next # NoChange THEN IF m.swarm = c.swarm THEN Replaced(c, m) ELSE c
  ELSE IF c.slots[m.node] = NoSlot THEN [c EXCEPT !.slots[m.node] = m.slot] ELSE c

\* A mode may handle a message of each kind in one go: c becomes d.
Configurations(c) == {c} \cup {Configured(c, m) : m \in Announcements}

Becomes(c, d) ==
  \/ d \in Configurations(c)
  \/ d \in {PlacedIn(e, m) : e \in Configurations(c), m \in Placements}

\* v, a member c, is coupled to listed nodes only, by the slots c holds.
CoupledBy(c, v, p) ==
  /\ Whole(c) /\ c.expected > 1
  /\ \A n \in Node : p[n] # NoSlot =>
       n # v /\ {v, n} \subseteq Placed(c.slots) /\ p[n] = <<c.slots[v], c.slots[n]>>

-----------------------------------------------------------------------------
Init ==
  /\ member = [v \in Participant |-> Outside]
  /\ coupling = [v \in Participant |-> Nobody]

\* v, a member as c says, is told something, or computes its velocity anew, or
\* both. What it does not compute anew stays as it is, whatever it was told.
Take(v, c) ==
  /\ Becomes(c, member'[v])
  /\ member' = [member EXCEPT ![v] = member'[v]]
  /\ coupling' = [coupling EXCEPT ![v] = coupling'[v]]
  /\ coupling'[v] \in {coupling[v], Nobody} \/ CoupledBy(member'[v], v, coupling'[v])

Enter(v) == member[v] = Outside /\ Take(v, Fresh)

Stay(v) == member[v] # Outside /\ Take(v, member[v])

Leave(v) ==
  /\ member[v] # Outside
  /\ member' = [member EXCEPT ![v] = Outside]
  /\ coupling' = [coupling EXCEPT ![v] = Nobody]

Next == \E v \in Participant : Enter(v) \/ Stay(v) \/ Leave(v)

Spec == Init /\ [][Next]_<<member, coupling>>
=============================================================================
