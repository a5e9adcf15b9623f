-------------------------- MODULE FlightTaskSwarm --------------------------
(***************************************************************************)
(* The PX4 side of the Swarm mode: on every vehicle a FlightTaskSwarm that  *)
(* FlightModeManager constructs when the navigation state becomes SWARM and *)
(* destroys when it stops being SWARM, the uORB topics MavlinkReceiver      *)
(* fills, and the command topic over which a leader asks Commander for Hold.*)
(*                                                                          *)
(* Three threads meet in the topics: the receiver publishes, the flight     *)
(* mode manager polls (one update() per loop), Commander changes the mode.  *)
(* uORB keeps the last message of a topic after its reader is gone, and a   *)
(* subscription constructed later is handed that message.                   *)
(*                                                                          *)
(* The environment may publish any message at any moment; SwarmFleet says   *)
(* what a ground station really sends.                                      *)
(***************************************************************************)
EXTENDS SwarmFormation

CONSTANTS
  Px4,             \* the vehicles that fly the internal mode
  ManagementSent,  \* the management, node and information messages the
  NodeSent,        \* environment sends
  InformationSent,
  StatusDue,       \* whether the 500 ms status timer has run out in a loop
  Nothing          \* an empty topic; an unset setpoint

InformationMessage == Node \X {"position", "attitude"}

ASSUME Px4Assumption == Px4 \subseteq Node
ASSUME SentAssumption ==
  /\ ManagementSent \subseteq Management
  /\ NodeSent \subseteq NodeMessage
  /\ InformationSent \subseteq InformationMessage
  /\ StatusDue \subseteq BOOLEAN
ASSUME NothingAssumption == Nothing \notin Management \cup NodeMessage \cup InformationMessage
ASSUME OutsideAssumption == Nothing \notin Replacement \cup Member(Nothing)

VARIABLES
  nav,         \* nav[v]: navigation state, "Swarm" or any "Other"
  task,        \* task[v]: a FlightTaskSwarm object exists
  formation,   \* formation[v]: its formation
  reference,   \* reference[v]: whose altitude and yaw _ref_z and _ref_yaw hold
  setpoint,    \* setpoint[v]: what the last computed velocity was computed from
  management,  \* management[v]: topic swarm_management, queue of one
  node,        \* node[v]: topic swarm_node, queue of one
  information, \* information[v]: topic swarm_information, queue of 32
  status,      \* status[v]: topic swarm_status
  holdAsked    \* holdAsked[v]: a Hold command waits for Commander

taskVars  == <<task, formation, reference, setpoint, status>>
topicVars == <<management, node, information>>
vars == <<nav, taskVars, topicVars, holdAsked>>

-----------------------------------------------------------------------------
(***************************************************************************)
(* uORB, as the task uses it.                                               *)
(***************************************************************************)
EmptyTopic == [last |-> Nothing, unread |-> {}]

\* A queue of one holds the newest message, read or not.
publishOne(topic, m) == [last |-> m, unread |-> {m}]

\* The long queue is drained on every update, so only the set of what arrived
\* since matters; without a reader only the newest stays available.
publishQueued(topic, m, read) ==
  [last |-> m, unread |-> IF read THEN topic.unread \cup {m} ELSE {m}]

readAll(topic) == [topic EXCEPT !.unread = {}]

\* What a subscription constructed now is handed.
resubscribed(topic) ==
  [topic EXCEPT !.unread = IF topic.last = Nothing THEN {} ELSE {topic.last}]

-----------------------------------------------------------------------------
(***************************************************************************)
(* MavlinkReceiver: one publication per MAVLink message, whatever the mode. *)
(***************************************************************************)
handle_message_swarm_management(v, m) ==
  /\ management' = [management EXCEPT ![v] = publishOne(@, m)]
  /\ UNCHANGED <<nav, taskVars, node, information, holdAsked>>

handle_message_swarm_node(v, m) ==
  /\ node' = [node EXCEPT ![v] = publishOne(@, m)]
  /\ UNCHANGED <<nav, taskVars, management, information, holdAsked>>

\* LOCAL_POSITION_NED carries no yaw, ATTITUDE no position.
handle_message_information(v, m) ==
  /\ information' = [information EXCEPT ![v] = publishQueued(@, m, task[v])]
  /\ UNCHANGED <<nav, taskVars, management, node, holdAsked>>

-----------------------------------------------------------------------------
(***************************************************************************)
(* FlightTaskSwarm::update(), the handlers in the order of the code.        *)
(***************************************************************************)
Unread(topic) == topic.unread # {}

afterManagement(f, v) ==
  IF Unread(management[v]) THEN onManagement(f, management[v].last) ELSE f

afterNode(f, v) ==
  IF Unread(node[v]) THEN onNode(f, node[v].last, v) ELSE f

positionsRead(v)  == {n \in Node : <<n, "position">> \in information[v].unread}
attitudesRead(v) == {n \in Node : <<n, "attitude">> \in information[v].unread}

\* Altitude and yaw are taken over from whoever leads once both messages are in.
newReference(r, f, v) ==
  [z   |-> IF f.leader \in positionsRead(v) THEN f.leader ELSE r.z,
   yaw |-> IF f.leader \in attitudesRead(v) THEN f.leader ELSE r.yaw]

\* What the velocity is computed from: the neighbours that have a position,
\* with their offsets, and the leader's altitude and yaw.
controlLaw(f, r) ==
  [offset |-> [n \in Node |-> IF n \in f.located THEN f.offset[n] ELSE NoSlot],
   z |-> r.z, yaw |-> r.yaw]

statusOf(f) ==
  [state |-> State(f), swarm |-> f.swarm, leader |-> f.leader, expected |-> f.expected,
   nodes |-> f.nodes]

noStatus ==
  [state |-> "none", swarm |-> NoSwarm, leader |-> NoNode, expected |-> 0, nodes |-> EmptyList]

\* The references of a constructed task are uninitialised: nobody's.
newReferences == [z |-> NoNode, yaw |-> NoNode]

update(v, f0, r0, s0, statusDue) ==
  LET f1 == afterManagement(f0, v)
      f2 == locate(afterNode(f1, v), positionsRead(v))
      r  == newReference(r0, f2, v)
  IN  /\ formation' = [formation EXCEPT ![v] = f2]
      /\ reference' = [reference EXCEPT ![v] = r]
      /\ setpoint'  = [setpoint EXCEPT ![v] = IF Flying(f2) THEN controlLaw(f2, r) ELSE s0]
      /\ status'    = [status EXCEPT ![v] = IF statusDue THEN statusOf(f2) ELSE @]
      /\ holdAsked' = [holdAsked EXCEPT ![v] =
                         @ \/ (Unread(management[v]) /\ AsksForHold(f0, management[v].last, v))]
      /\ management'  = [management EXCEPT ![v] = readAll(@)]
      /\ node'        = [node EXCEPT ![v] = readAll(@)]
      /\ information' = [information EXCEPT ![v] = readAll(@)]

-----------------------------------------------------------------------------
(***************************************************************************)
(* FlightModeManager::Run() and Commander.                                  *)
(***************************************************************************)
\* The first loop in the Swarm mode constructs and activates the task and
\* updates it, without looking at what the topics were for. The status timer
\* starts at 0, so the first update publishes.
StartTask(v) ==
  /\ nav[v] = "Swarm" /\ ~task[v]
  /\ task' = [task EXCEPT ![v] = TRUE]
  /\ update(v, NewFormation, newReferences, Nothing, TRUE)
  /\ UNCHANGED nav

\* Every later loop; the 500 ms status timer may or may not have run out.
RunTask(v, statusDue) ==
  /\ nav[v] = "Swarm" /\ task[v]
  /\ update(v, formation[v], reference[v], setpoint[v], statusDue)
  /\ UNCHANGED <<nav, task>>

\* The first loop in another mode destroys the task.
StopTask(v) ==
  /\ nav[v] # "Swarm" /\ task[v]
  /\ task'      = [task EXCEPT ![v] = FALSE]
  /\ formation' = [formation EXCEPT ![v] = NewFormation]
  /\ reference' = [reference EXCEPT ![v] = newReferences]
  /\ setpoint'  = [setpoint EXCEPT ![v] = Nothing]
  /\ status'    = [status EXCEPT ![v] = noStatus]
  /\ management'  = [management EXCEPT ![v] = resubscribed(@)]
  /\ node'        = [node EXCEPT ![v] = resubscribed(@)]
  /\ information' = [information EXCEPT ![v] = resubscribed(@)]
  /\ UNCHANGED <<nav, holdAsked>>

\* Commander accepts the Hold a leader's task asked for.
EnterHold(v) ==
  /\ holdAsked[v]
  /\ holdAsked' = [holdAsked EXCEPT ![v] = FALSE]
  /\ nav' = [nav EXCEPT ![v] = "Other"]
  /\ UNCHANGED <<taskVars, topicVars>>

\* Commander carries out DO_SET_MODE from a ground station, or a failsafe.
SetMode(v, mode) ==
  /\ nav' = [nav EXCEPT ![v] = mode]
  /\ UNCHANGED <<taskVars, topicVars, holdAsked>>

-----------------------------------------------------------------------------
Init ==
  /\ nav         = [v \in Px4 |-> "Other"]
  /\ task        = [v \in Px4 |-> FALSE]
  /\ formation   = [v \in Px4 |-> NewFormation]
  /\ reference   = [v \in Px4 |-> newReferences]
  /\ setpoint    = [v \in Px4 |-> Nothing]
  /\ management  = [v \in Px4 |-> EmptyTopic]
  /\ node        = [v \in Px4 |-> EmptyTopic]
  /\ information = [v \in Px4 |-> EmptyTopic]
  /\ status      = [v \in Px4 |-> noStatus]
  /\ holdAsked   = [v \in Px4 |-> FALSE]

\* The vehicle's own steps.
Vehicle(v) ==
  \/ StartTask(v)
  \/ \E statusDue \in StatusDue : RunTask(v, statusDue)
  \/ StopTask(v)
  \/ EnterHold(v)

\* Messages are received, modes are set.
Environment(v) ==
  \/ \E m \in ManagementSent : handle_message_swarm_management(v, m)
  \/ \E m \in NodeSent : handle_message_swarm_node(v, m)
  \/ \E m \in InformationSent : handle_message_information(v, m)
  \/ \E mode \in {"Swarm", "Other"} : SetMode(v, mode)

Next == \E v \in Px4 : Vehicle(v) \/ Environment(v)

Spec == Init /\ [][Next]_vars

-----------------------------------------------------------------------------
Reference == [z : Node \cup {NoNode}, yaw : Node \cup {NoNode}]

Setpoint == [offset : [Node -> (Slot \X Slot) \cup {NoSlot}],
             z : Node \cup {NoNode}, yaw : Node \cup {NoNode}]

Status == [state : {"none", "idle", "collecting", "active", "updating"},
           swarm : Swarm \cup {NoSwarm}, leader : Node \cup {NoNode}, expected : 0..255,
           nodes : List]

Topic(Message) == [last : Message \cup {Nothing}, unread : SUBSET Message]

\* Type invariant.
TypeOK ==
  /\ nav         \in [Px4 -> {"Swarm", "Other"}]
  /\ task        \in [Px4 -> BOOLEAN]
  /\ formation   \in [Px4 -> Formation]
  /\ reference   \in [Px4 -> Reference]
  /\ setpoint    \in [Px4 -> Setpoint \cup {Nothing}]
  /\ management  \in [Px4 -> Topic(Management)]
  /\ node        \in [Px4 -> Topic(NodeMessage)]
  /\ information \in [Px4 -> Topic(InformationMessage)]
  /\ status      \in [Px4 -> Status]
  /\ holdAsked   \in [Px4 -> BOOLEAN]

(***************************************************************************)
(* What the bookkeeping must keep true at the end of every update(),        *)
(* whatever configuration messages arrive, in whatever order.               *)
(***************************************************************************)
\* The hand-kept _node_count is the size of the list it stands for; it alone
\* decides when a formation is complete.
CountIsSize == \A v \in Px4 : CountsNodes(formation[v])

\* A vehicle couples to a neighbour at the difference of the two slots it
\* reports in SWARM_STATUS, never to itself, and never while its own slot is
\* missing: what a ground station restores is what is flown.
FliesReportedSlots == \A v \in Px4 : CouplesListed(formation[v], v)

\* A replacement formation never lies complete but unused: it is applied in
\* the update() that completes it, and nothing is pending outside an update.
PendingIsIncomplete == \A v \in Px4 : PendingUnfinished(formation[v])

\* Only neighbours have a position, so the control law never reads a position
\* for which it has no offset.
LocatedAreNeighbours == \A v \in Px4 : LocatesNeighbours(formation[v])

\* A vehicle that reports its formation as flown reports all of it: as many
\* slots as it says the swarm has nodes. A ground station restores from that.
ActiveReportIsWhole ==
  \A v \in Px4 : status[v].state = "active" => Size(status[v].nodes) = status[v].expected

\* A vehicle without a task has no formation left and reports none.
NothingSurvivesTask ==
  \A v \in Px4 : ~task[v] =>
    formation[v] = NewFormation /\ setpoint[v] = Nothing /\ status[v] = noStatus

\* Within a swarm a slot that is already flown, or already collected, only
\* moves or disappears in the step that puts a whole formation in its place.
SlotsMoveTogether ==
  [][\A v \in Px4 :
       LET f == formation[v] IN LET g == formation'[v] IN
       /\ task[v] /\ task'[v] /\ f.swarm = g.swarm
       /\ \E n \in Node : f.nodes[n] \notin {NoSlot, g.nodes[n]}
       => Complete(g) /\ ~g.updating]_vars

\* From the message that announces a replacement until all of it is there, the
\* old formation is flown untouched, behind the old leader.
FliesOldWhileUpdating ==
  [][\A v \in Px4 : formation'[v].updating => Flown(formation'[v]) = Flown(formation[v])]_vars

\* A neighbour's known position is not forgotten by a formation change that
\* keeps the neighbour, so the velocity does not jump.
PositionsSurviveSwitch ==
  [][\A v \in Px4 :
       task[v] /\ task'[v] /\ formation[v].swarm = formation'[v].swarm =>
         formation[v].located \cap Neighbours(formation'[v]) \subseteq formation'[v].located]_vars

-----------------------------------------------------------------------------
Membership ==
  INSTANCE SwarmMembership WITH
    Participant <- Px4, Announcements <- ManagementSent, Placements <- NodeSent,
    Outside <- Nothing, NoChange <- Nothing,
    member   <- [v \in Px4 |-> IF task[v] THEN MemberOf(formation[v], Nothing) ELSE Nothing],
    coupling <- [v \in Px4 |-> IF setpoint[v] = Nothing THEN EmptyList ELSE setpoint[v].offset]

\* The flight task implements SwarmMembership: its counter, its consensus list
\* and its pending list never show but as what the slots it was sent say.
KeepsPromise == Membership!Spec
=============================================================================
