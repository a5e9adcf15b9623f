------------------------------ MODULE SwarmMode ------------------------------
(***************************************************************************)
(* The ROS 2 side of the Swarm mode (ros2/swarm_mode): a node beside the     *)
(* autopilot that registers an external flight mode. It handles the same     *)
(* messages by the same rules as FlightTaskSwarm, but takes them from a UDP  *)
(* socket instead of uORB, throws away what arrives while the mode is off,   *)
(* learns over DDS that PX4 entered or left the mode, and flies a VTOL in    *)
(* its fixed-wing phase too.                                                 *)
(*                                                                           *)
(* All callbacks run on one executor thread, so each is one step; the socket *)
(* and PX4's navigation state change between them.                           *)
(***************************************************************************)
EXTENDS SwarmFormation, Sequences

CONSTANTS
  Ros2,             \* the vehicles with a node
  ManagementSent, NodeSent,   \* the configuration messages,
  PositionSent,     \* the neighbours' LOCAL_POSITION_NED
  AttitudeSent,     \* and ATTITUDE, and the requests for
  RequestSent,      \* SWARM_STATUS that the environment sends
  Phases,           \* what vtol_vehicle_status may report
  SocketBound,      \* bound on datagrams waiting in a socket
  Nothing           \* no setpoint

\* A neighbour is fast enough for its course to mean something, or not.
PositionMessage == [node : Node, fast : BOOLEAN]

ASSUME Ros2Assumption == Ros2 \subseteq Node
ASSUME ModeSentAssumption ==
  /\ ManagementSent \subseteq Management
  /\ NodeSent \subseteq NodeMessage
  /\ PositionSent \subseteq PositionMessage
  /\ AttitudeSent \subseteq Node
  /\ RequestSent \subseteq {"swarm_status"}
ASSUME NothingAssumption == Nothing \notin Replacement \cup Member(Nothing)
ASSUME PhasesAssumption == Phases \subseteq {"multicopter", "fixedWing", "transition"}
ASSUME SocketAssumption == SocketBound \in Nat \ {0}

VARIABLES
  nav,        \* nav[v]: PX4's navigation state, "Swarm" or any "Other"
  phase,      \* phase[v]: VTOL state; a multicopter stays "multicopter"
  active,     \* active[v]: _active
  formation,  \* formation[v]: its formation
  reference,  \* reference[v]: whose altitude and yaw _ref_z and _ref_yaw hold
  velocity,   \* velocity[v]: whose velocity _leader_velocity holds, if valid
  course,     \* course[v]: whose course _leader_course holds, and if it is valid
  socket,     \* socket[v]: datagrams that wait
  output,     \* output[v]: the last setpoint
  holdAsked,  \* holdAsked[v]: a Hold command waits for Commander
  asked,      \* asked[v]: a request for it is not answered yet (history)
  heard       \* heard[v]: slots, positions and attitudes handled since the mode
              \* was entered (history)

px4Vars == <<nav, phase, holdAsked>>
leaderVars == <<reference, velocity, course>>
modeVars == <<px4Vars, active, formation, leaderVars, socket, output, asked, heard>>

Packet == [kind : {"management"}, message : Management]
            \cup [kind : {"node"}, message : NodeMessage]
            \cup [kind : {"position"}, message : PositionMessage]
            \cup [kind : {"attitude"}, message : Node]
            \cup [kind : {"request"}, message : {"swarm_status"}]

PacketsSent ==
  [kind : {"management"}, message : ManagementSent]
    \cup [kind : {"node"}, message : NodeSent]
    \cup [kind : {"position"}, message : PositionSent]
    \cup [kind : {"attitude"}, message : AttitudeSent]
    \cup [kind : {"request"}, message : RequestSent]

-----------------------------------------------------------------------------
(***************************************************************************)
(* MAVLink: pollMavlink() hands every waiting datagram to handleMessage().   *)
(***************************************************************************)
take(v) == socket' = [socket EXCEPT ![v] = Tail(@)]

handleSwarmManagement(v, m) ==
  /\ formation' = [formation EXCEPT ![v] = onManagement(@, m)]
  /\ holdAsked' = [holdAsked EXCEPT ![v] = @ \/ AsksForHold(formation[v], m, v)]
  /\ UNCHANGED <<nav, phase, active, leaderVars, output, asked, heard>>

\* A slot is taken without looking whether an update runs (the operators named
\* ...Wrong are plausible mistakes, see SwarmFormation).
handleSwarmNodeWrong(v, m) ==
  /\ formation' = [formation EXCEPT ![v] =
       buildConsensus([@ EXCEPT !.nodes = upsertNode(@, m.node, m.slot)], v)]
  /\ heard' = [heard EXCEPT ![v] = @ \cup {<<m.node, m.slot>>}]
  /\ UNCHANGED <<px4Vars, active, leaderVars, output, asked>>

\* Completeness is _nodes.size() = _no_of_nodes here; the counter of
\* SwarmFormation is that size (CountIsSize).
handleSwarmNode(v, m) ==
  /\ formation' = [formation EXCEPT ![v] = onNode(@, m, v)]
  /\ heard' = [heard EXCEPT ![v] = @ \cup {<<m.node, m.slot>>}]
  /\ UNCHANGED <<px4Vars, active, leaderVars, output, asked>>

\* A slow leader has no course of its own: its yaw stands in for it.
updateLeaderCourse(c, m, r) ==
  IF m.fast THEN [of |-> m.node, valid |-> TRUE] ELSE [of |-> r.yaw, valid |-> FALSE]

handleNeighbourPosition(v, m) ==
  /\ formation' = [formation EXCEPT ![v] = locate(@, {m.node})]
  /\ IF m.node = formation[v].leader
     THEN /\ reference' = [reference EXCEPT ![v].z = m.node]
          /\ velocity' = [velocity EXCEPT ![v] = m.node]
          /\ course' = [course EXCEPT ![v] = updateLeaderCourse(@, m, reference[v])]
     ELSE UNCHANGED leaderVars
  /\ heard' = [heard EXCEPT ![v] = @ \cup {<<m.node, "position">>}]
  /\ UNCHANGED <<px4Vars, active, output, asked>>

handleAttitude(v, n) ==
  /\ n = formation[v].leader
  /\ reference' = [reference EXCEPT ![v].yaw = n]
  /\ heard' = [heard EXCEPT ![v] = @ \cup {<<n, "attitude">>}]
  /\ UNCHANGED <<px4Vars, active, formation, velocity, course, output, asked>>

ignore == UNCHANGED <<px4Vars, active, formation, leaderVars, output, asked, heard>>

\* The answer says what the formation says; that it is given is what counts.
sendSwarmStatus(v) ==
  /\ asked' = [asked EXCEPT ![v] = FALSE]
  /\ UNCHANGED <<px4Vars, active, formation, leaderVars, output, heard>>

\* Whether the mode is active is asked first.
handleMessageWrong(v, packet) ==
  \/ ~active[v] /\ ignore
  \/ /\ active[v]
     /\ \/ packet.kind = "request" /\ sendSwarmStatus(v)
        \/ packet.kind = "management" /\ handleSwarmManagement(v, packet.message)
        \/ packet.kind = "node" /\ handleSwarmNode(v, packet.message)

\* Requests for the status are answered in any mode, the rest is for the mode;
\* what the vehicle says of itself is not a neighbour's.
handleMessage(v, packet) ==
  \/ packet.kind = "request" /\ sendSwarmStatus(v)
  \/ packet.kind # "request" /\ ~active[v] /\ ignore
  \/ /\ active[v]
     /\ \/ packet.kind = "management" /\ handleSwarmManagement(v, packet.message)
        \/ packet.kind = "node" /\ handleSwarmNode(v, packet.message)
        \/ /\ packet.kind = "position"
           /\ IF packet.message.node # v THEN handleNeighbourPosition(v, packet.message)
                                         ELSE ignore
        \/ /\ packet.kind = "attitude"
           /\ IF packet.message \in {formation[v].leader} \ {v}
              THEN handleAttitude(v, packet.message) ELSE ignore

pollMavlink(v) ==
  /\ socket[v] # <<>>
  /\ handleMessage(v, Head(socket[v]))
  /\ take(v)

-----------------------------------------------------------------------------
(***************************************************************************)
(* The mode: px4_ros2::ModeBase calls back when PX4 entered or left it, and  *)
(* for setpoints while it is active.                                         *)
(***************************************************************************)
\* The formation of the last time is kept.
onActivateKeepsWrong(v) ==
  /\ nav[v] = "Swarm" /\ ~active[v]
  /\ active' = [active EXCEPT ![v] = TRUE]
  /\ reference' = [reference EXCEPT ![v] = [z |-> v, yaw |-> v]]
  /\ velocity' = [velocity EXCEPT ![v] = NoNode]
  /\ course' = [course EXCEPT ![v].valid = FALSE]
  /\ heard' = [heard EXCEPT ![v] = {}]
  /\ UNCHANGED <<px4Vars, formation, socket, output, asked>>

\* Everything starts anew, except _leader_course, of which only the flag is
\* cleared, and the leader's id.
onActivate(v) ==
  /\ nav[v] = "Swarm" /\ ~active[v]
  /\ active' = [active EXCEPT ![v] = TRUE]
  /\ formation' = [formation EXCEPT ![v] = reset(@)]
  /\ reference' = [reference EXCEPT ![v] = [z |-> v, yaw |-> v]]
  /\ velocity' = [velocity EXCEPT ![v] = NoNode]
  /\ course' = [course EXCEPT ![v].valid = FALSE]
  /\ heard' = [heard EXCEPT ![v] = {}]
  /\ UNCHANGED <<px4Vars, socket, output, asked>>

onDeactivate(v) ==
  /\ nav[v] # "Swarm" /\ active[v]
  /\ active' = [active EXCEPT ![v] = FALSE]
  /\ output' = [output EXCEPT ![v] = Nothing]
  /\ UNCHANGED <<px4Vars, formation, leaderVars, socket, asked, heard>>

located(f) == [n \in Node |-> IF n \in f.located THEN f.offset[n] ELSE NoSlot]

\* Velocity and yaw, as the flight task: the offsets, and the leader's altitude
\* and yaw as they stand.
updateMulticopter(v) == [kind |-> "multicopter", offset |-> located(formation[v])]

\* Course, airspeed and height rate; the offsets turn with the leader's course as
\* it stands, valid or not, which is also the direction of travel until the
\* leader's velocity is known.
updateFixedWing(v) ==
  [kind |-> "fixedWing", offset |-> located(formation[v]), course |-> course[v].of]

\* The position, or the course, with which the mode was entered.
hold(v) == [kind |-> IF phase[v] = "fixedWing" THEN "holdCourse" ELSE "holdPosition"]

setpointOf(v) ==
  CASE phase[v] = "transition" -> [kind |-> "transition"]
    [] phase[v] # "transition" /\ ~Flying(formation[v]) -> hold(v)
    [] phase[v] = "fixedWing" /\ Flying(formation[v]) -> updateFixedWing(v)
    [] phase[v] = "multicopter" /\ Flying(formation[v]) -> updateMulticopter(v)

updateSetpoint(v) ==
  /\ active[v]
  /\ output' = [output EXCEPT ![v] = setpointOf(v)]
  /\ UNCHANGED <<px4Vars, active, formation, leaderVars, socket, asked, heard>>

-----------------------------------------------------------------------------
(***************************************************************************)
(* PX4 and the links around the node.                                        *)
(***************************************************************************)
EnterHold(v) ==
  /\ holdAsked[v]
  /\ holdAsked' = [holdAsked EXCEPT ![v] = FALSE]
  /\ nav' = [nav EXCEPT ![v] = "Other"]
  /\ UNCHANGED <<phase, active, formation, leaderVars, socket, output, asked, heard>>

SetMode(v, mode) ==
  /\ nav' = [nav EXCEPT ![v] = mode]
  /\ UNCHANGED <<phase, holdAsked, active, formation, leaderVars, socket, output, asked,
                 heard>>

Transition(v, p) ==
  /\ phase' = [phase EXCEPT ![v] = p]
  /\ UNCHANGED <<nav, holdAsked, active, formation, leaderVars, socket, output, asked,
                 heard>>

arrive(v, packet) ==
  /\ Len(socket[v]) < SocketBound
  /\ socket' = [socket EXCEPT ![v] = Append(@, packet)]
  /\ asked' = [asked EXCEPT ![v] = @ \/ packet.kind = "request"]
  /\ UNCHANGED <<px4Vars, active, formation, leaderVars, output, heard>>

-----------------------------------------------------------------------------
ModeInit ==
  /\ nav       = [v \in Ros2 |-> "Other"]
  /\ phase     \in [Ros2 -> Phases \ {"transition"}]
  /\ active    = [v \in Ros2 |-> FALSE]
  /\ formation = [v \in Ros2 |-> NewFormation]
  /\ reference = [v \in Ros2 |-> [z |-> NoNode, yaw |-> NoNode]]
  /\ velocity  = [v \in Ros2 |-> NoNode]
  /\ course    = [v \in Ros2 |-> [of |-> NoNode, valid |-> FALSE]]
  /\ socket    = [v \in Ros2 |-> <<>>]
  /\ output    = [v \in Ros2 |-> Nothing]
  /\ holdAsked = [v \in Ros2 |-> FALSE]
  /\ asked     = [v \in Ros2 |-> FALSE]
  /\ heard     = [v \in Ros2 |-> {}]

Executor(v) == pollMavlink(v) \/ onActivate(v) \/ onDeactivate(v) \/ updateSetpoint(v)

Outer(v) ==
  \/ EnterHold(v)
  \/ \E mode \in {"Swarm", "Other"} : SetMode(v, mode)
  \/ \E p \in Phases : Transition(v, p)
  \/ \E packet \in PacketsSent : arrive(v, packet)

ModeNext == \E v \in Ros2 : Executor(v) \/ Outer(v)

\* The poll timer fires every 5 ms. Nothing else needs to happen.
ModeSpec == ModeInit /\ [][ModeNext]_modeVars /\ \A v \in Ros2 : WF_modeVars(pollMavlink(v))

-----------------------------------------------------------------------------
Whose == Node \cup {NoNode}
Offsets == [Node -> (Slot \X Slot) \cup {NoSlot}]

Setpoint ==
  [kind : {"transition", "holdCourse", "holdPosition"}]
    \cup [kind : {"multicopter"}, offset : Offsets]
    \cup [kind : {"fixedWing"}, offset : Offsets, course : Whose]

\* Type invariant.
ModeTypeOK ==
  /\ nav       \in [Ros2 -> {"Swarm", "Other"}]
  /\ phase     \in [Ros2 -> {"multicopter", "fixedWing", "transition"}]
  /\ active    \in [Ros2 -> BOOLEAN]
  /\ formation \in [Ros2 -> Formation]
  /\ reference \in [Ros2 -> [z : Whose, yaw : Whose]]
  /\ velocity  \in [Ros2 -> Whose]
  /\ course    \in [Ros2 -> [of : Whose, valid : BOOLEAN]]
  /\ socket    \in [Ros2 -> Seq(Packet)]
  /\ output    \in [Ros2 -> Setpoint \cup {Nothing}]
  /\ holdAsked \in [Ros2 -> BOOLEAN]
  /\ asked     \in [Ros2 -> BOOLEAN]
  /\ heard     \in [Ros2 -> SUBSET (Node \X (Slot \cup {"position", "attitude"}))]

\* It is v's own, or of a vehicle that v has heard since it entered the mode.
OfThisActivation(v, n) ==
  n = v \/ <<n, "position">> \in heard[v] \/ <<n, "attitude">> \in heard[v]

FliesFormation(v) == output[v] # Nothing /\ output[v].kind \in {"multicopter", "fixedWing"}

\* "FlightTaskSwarm starts from scratch every time the mode is entered": every slot
\* a node holds or collects, the velocity, altitude and yaw it follows, and a course
\* that is marked valid reached it after it entered the mode, or are its own; whatever
\* it was told or flew before, and whatever was sent while the mode was off. The one
\* exception is the course by which slots turn: the code keeps it over activations,
\* and a follower flies it, but no longer than until it hears the leader's velocity.
FormationStartsFromScratch ==
  \A v \in Ros2 : active[v] =>
    /\ \A n \in Node :
         /\ formation[v].nodes[n] # NoSlot => <<n, formation[v].nodes[n]>> \in heard[v]
         /\ formation[v].pending[n] # NoSlot => <<n, formation[v].pending[n]>> \in heard[v]
         /\ n \in formation[v].located => <<n, "position">> \in heard[v]
    /\ velocity[v] # NoNode => <<velocity[v], "position">> \in heard[v]
    /\ reference[v].z # v => <<reference[v].z, "position">> \in heard[v]
    /\ reference[v].yaw # v => <<reference[v].yaw, "attitude">> \in heard[v]
    /\ course[v].valid => <<course[v].of, "position">> \in heard[v]
    /\ velocity[v] # NoNode => OfThisActivation(v, course[v].of)

\* A ground station that asks for the membership is answered, whether the mode
\* is active or not.
EveryRequestAnswered == \A v \in Ros2 : asked[v] ~> ~asked[v]

Membership ==
  INSTANCE SwarmMembership WITH
    Participant <- Ros2, Announcements <- ManagementSent, Placements <- NodeSent,
    Outside <- Nothing, NoChange <- Nothing,
    member   <- [v \in Ros2 |-> IF active[v] THEN MemberOf(formation[v], Nothing) ELSE Nothing],
    coupling <- [v \in Ros2 |-> IF FliesFormation(v) THEN output[v].offset ELSE EmptyList]

\* The node keeps the promise the flight task keeps.
ModeKeepsPromise == Membership!Spec
=============================================================================
