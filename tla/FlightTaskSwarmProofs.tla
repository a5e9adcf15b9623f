----------------------- MODULE FlightTaskSwarmProofs -----------------------
(***************************************************************************)
(* The bookkeeping of FlightTaskSwarm is sound after every step, for any    *)
(* fleet, any set of messages sent and any interleaving of the receiver,    *)
(* the flight mode manager and Commander.                                   *)
(***************************************************************************)
EXTENDS FlightTaskSwarm, SwarmFormationProofs

\* A topic with something unread holds a message.
Readable(topic, Message) ==
  topic \in Topic(Message) /\ (Unread(topic) => topic.last \in Message)

\* The inductive invariant: the formation of every vehicle is sound, whatever
\* update() reads next is a message, and nothing is left without a task.
IInv ==
  /\ TypeOK
  /\ \A v \in Px4 : /\ Sound(formation[v], v)
                    /\ Readable(management[v], Management)
                    /\ Readable(node[v], NodeMessage)
  /\ NothingSurvivesTask
  /\ ActiveReportIsWhole

-----------------------------------------------------------------------------
LEMMA TopicOperations ==
  ASSUME NEW Message, NEW topic \in Topic(Message)
  PROVE  /\ readAll(topic) \in Topic(Message) /\ ~Unread(readAll(topic))
         /\ resubscribed(topic) \in Topic(Message)
         /\ Nothing \notin Message => Readable(resubscribed(topic), Message)
         /\ \A m \in Message : /\ Readable(publishOne(topic, m), Message)
                               /\ \A b \in BOOLEAN : publishQueued(topic, m, b) \in Topic(Message)
<1>1. readAll(topic) \in Topic(Message) /\ ~Unread(readAll(topic))
  BY DEF readAll, Topic, Unread
<1>2. resubscribed(topic) \in Topic(Message)
  <2> DEFINE again == IF topic.last = Nothing THEN {} ELSE {topic.last}
  <2>1. again \in SUBSET Message
    BY DEF Topic
  <2> HIDE DEF again
  <2>2. [topic EXCEPT !.unread = again] \in Topic(Message)
    BY <2>1 DEF Topic
  <2> QED
    BY <2>2 DEF resubscribed, again
<1>3. Nothing \notin Message /\ Unread(resubscribed(topic))
        => resubscribed(topic).last \in Message
  BY DEF resubscribed, Topic, Unread
<1>4. ASSUME NEW m \in Message
      PROVE  /\ Readable(publishOne(topic, m), Message)
             /\ \A b \in BOOLEAN : publishQueued(topic, m, b) \in Topic(Message)
  <2>1. publishOne(topic, m) \in Topic(Message) /\ publishOne(topic, m).last = m
    BY DEF publishOne, Topic
  <2>2. ASSUME NEW b \in BOOLEAN
        PROVE  publishQueued(topic, m, b) \in Topic(Message)
    <3> DEFINE waiting == IF b THEN topic.unread \cup {m} ELSE {m}
    <3>1. waiting \in SUBSET Message
      BY DEF Topic
    <3> HIDE DEF waiting
    <3>2. [last |-> m, unread |-> waiting] \in Topic(Message)
      BY <3>1 DEF Topic
    <3> QED
      BY <3>2 DEF publishQueued, waiting
  <2> QED
    BY <2>1, <2>2 DEF Readable
<1> QED
  BY <1>1, <1>2, <1>3, <1>4 DEF Readable

LEMMA FreshValues ==
  /\ newReferences \in Reference
  /\ noStatus \in Status
  /\ \A Message : EmptyTopic \in Topic(Message)
  /\ \A Message : Readable(EmptyTopic, Message)
BY EmptyListEmpty
DEF newReferences, Reference, noStatus, Status, EmptyTopic, Topic, Readable, Unread

LEMMA StatusType ==
  ASSUME NEW f \in Formation
  PROVE  statusOf(f) \in Status
<1>1. State(f) \in {"none", "idle", "collecting", "active", "updating"}
  BY DEF State
<1>2. /\ f.swarm \in Swarm \cup {NoSwarm} /\ f.leader \in Node \cup {NoNode}
      /\ f.expected \in 0..255 /\ f.nodes \in List
  BY DEF Formation
<1> QED
  BY <1>1, <1>2 DEF statusOf, Status

LEMMA ControlLawType ==
  ASSUME NEW f \in Formation, NEW r \in Reference
  PROVE  controlLaw(f, r) \in Setpoint
<1> DEFINE used == [n \in Node |-> IF n \in f.located THEN f.offset[n] ELSE NoSlot]
<1>1. used \in [Node -> (Slot \X Slot) \cup {NoSlot}]
  BY DEF Formation
<1>2. r.z \in Node \cup {NoNode} /\ r.yaw \in Node \cup {NoNode}
  BY DEF Reference
<1>3. controlLaw(f, r) = [offset |-> used, z |-> r.z, yaw |-> r.yaw]
  BY DEF controlLaw
<1> HIDE DEF used
<1> QED
  BY <1>1, <1>2, <1>3 DEF Setpoint

LEMMA ReferenceType ==
  ASSUME NEW r \in Reference, NEW f \in Formation, NEW v \in Px4
  PROVE  newReference(r, f, v) \in Reference
BY DEF newReference, Reference, Formation

-----------------------------------------------------------------------------
\* One pass through update() on a sound formation, whatever the three topics
\* hold.
LEMMA UpdateSound ==
  ASSUME IInv, NEW v \in Px4,
         NEW f0, Sound(f0, v), NEW r0 \in Reference, NEW s0 \in Setpoint \cup {Nothing},
         NEW due \in BOOLEAN, update(v, f0, r0, s0, due),
         NEW t \in [Px4 -> BOOLEAN], task' = t, t[v], \A u \in Px4 \ {v} : t[u] = task[u],
         nav' = nav
  PROVE  IInv'
<1> DEFINE f1 == afterManagement(f0, v)
           f2 == locate(afterNode(f1, v), positionsRead(v))
           r  == newReference(r0, f2, v)
<1>1. v \in Node
  BY Px4Assumption
<1>2. Sound(f1, v)
  BY <1>1, ManagementSound DEF IInv, Readable, afterManagement
<1>3. Sound(afterNode(f1, v), v)
  <2> HIDE DEF f1
  <2> QED
    BY <1>1, <1>2, NodeSound DEF IInv, Readable, afterNode
<1>4. Sound(f2, v)
  <2>1. positionsRead(v) \in SUBSET Node
    BY DEF positionsRead
  <2> QED
    BY <1>1, <1>3, <2>1, LocateSound
<1>5. /\ formation' = [formation EXCEPT ![v] = f2]
      /\ reference' = [reference EXCEPT ![v] = r]
      /\ setpoint'  = [setpoint EXCEPT ![v] = IF Flying(f2) THEN controlLaw(f2, r) ELSE s0]
      /\ status'    = [status EXCEPT ![v] = IF due THEN statusOf(f2) ELSE @]
      /\ holdAsked' = [holdAsked EXCEPT ![v] =
                         @ \/ (Unread(management[v]) /\ AsksForHold(f0, management[v].last, v))]
      /\ management'  = [management EXCEPT ![v] = readAll(@)]
      /\ node'        = [node EXCEPT ![v] = readAll(@)]
      /\ information' = [information EXCEPT ![v] = readAll(@)]
  BY DEF update
<1> HIDE DEF f1, f2
<1>6. f2 \in Formation
  BY <1>4 DEF Sound
<1>7. r \in Reference
  BY <1>6, ReferenceType
<1> HIDE DEF r
<1>8. controlLaw(f2, r) \in Setpoint /\ statusOf(f2) \in Status
  BY <1>6, <1>7, ControlLawType, StatusType
<1>9. TypeOK'
  <2> USE DEF IInv, TypeOK
  <2>1. formation' \in [Px4 -> Formation] /\ reference' \in [Px4 -> Reference]
    BY <1>5, <1>6, <1>7
  <2>2. setpoint' \in [Px4 -> Setpoint \cup {Nothing}]
    BY <1>5, <1>8
  <2>3. status' \in [Px4 -> Status]
    BY <1>5, <1>8
  <2>4. holdAsked' \in [Px4 -> BOOLEAN]
    BY <1>5
  <2>5. management' \in [Px4 -> Topic(Management)] /\ node' \in [Px4 -> Topic(NodeMessage)]
    BY <1>5, TopicOperations
  <2>6. information' \in [Px4 -> Topic(InformationMessage)]
    BY <1>5, TopicOperations
  <2>7. nav' \in [Px4 -> {"Swarm", "Other"}] /\ task' \in [Px4 -> BOOLEAN]
    OBVIOUS
  <2> QED
    BY <2>1, <2>2, <2>3, <2>4, <2>5, <2>6, <2>7
<1>10. ASSUME NEW u \in Px4
       PROVE  /\ Sound(formation'[u], u)
              /\ Readable(management'[u], Management) /\ Readable(node'[u], NodeMessage)
  <2>1. Sound(formation'[u], u)
    BY <1>4, <1>5 DEF IInv, TypeOK
  <2>2. Readable(management'[u], Management) /\ Readable(node'[u], NodeMessage)
    BY <1>5, TopicOperations DEF IInv, TypeOK, Readable
  <2> QED
    BY <2>1, <2>2
<1>11. NothingSurvivesTask'
  BY <1>5 DEF IInv, TypeOK, NothingSurvivesTask, ActiveReportIsWhole
<1>12. Sound(f2, v) => (statusOf(f2).state = "active"
                           => Size(statusOf(f2).nodes) = statusOf(f2).expected)
  BY DEF statusOf, State, Complete, Sound, CountsNodes
<1>13. ActiveReportIsWhole'
  BY <1>4, <1>5, <1>12 DEF IInv, TypeOK, ActiveReportIsWhole
<1> QED
  BY <1>9, <1>10, <1>11, <1>13 DEF IInv

LEMMA InitSound == Init => IInv
<1> SUFFICES ASSUME Init PROVE IInv
  OBVIOUS
<1>1. \A v \in Px4 : Sound(NewFormation, v)
  BY NewFormationSound, Px4Assumption
<1>2. \A v \in Px4 : NewFormation \in Formation
  BY <1>1 DEF Sound
<1>3. TypeOK
  BY <1>2, FreshValues DEF Init, TypeOK
<1>4. NothingSurvivesTask
  BY DEF Init, NothingSurvivesTask
<1>5. ActiveReportIsWhole
  BY DEF Init, ActiveReportIsWhole, noStatus
<1> QED
  BY <1>1, <1>3, <1>4, <1>5, FreshValues DEF Init, IInv

-----------------------------------------------------------------------------
\* The vehicle's own steps.
LEMMA VehicleSound ==
  ASSUME IInv, NEW v \in Px4, Vehicle(v)
  PROVE  IInv'
<1>1. CASE StartTask(v)
  <2> DEFINE t == [task EXCEPT ![v] = TRUE]
  <2>1. t \in [Px4 -> BOOLEAN] /\ task' = t /\ t[v] /\ \A u \in Px4 \ {v} : t[u] = task[u]
    BY <1>1 DEF StartTask, IInv, TypeOK
  <2>2. Sound(NewFormation, v)
    BY NewFormationSound, Px4Assumption
  <2>3. update(v, NewFormation, newReferences, Nothing, TRUE) /\ nav' = nav
    BY <1>1 DEF StartTask
  <2> HIDE DEF t
  <2> QED
    BY <2>1, <2>2, <2>3, FreshValues, UpdateSound
<1>2. ASSUME NEW due \in StatusDue, RunTask(v, due) PROVE IInv'
  <2>1. /\ update(v, formation[v], reference[v], setpoint[v], due)
        /\ nav' = nav /\ task' = task /\ task[v]
    BY <1>2 DEF RunTask
  <2>2. /\ Sound(formation[v], v) /\ reference[v] \in Reference
        /\ setpoint[v] \in Setpoint \cup {Nothing} /\ task \in [Px4 -> BOOLEAN]
    BY DEF IInv, TypeOK
  <2>3. due \in BOOLEAN
    BY SentAssumption
  <2> QED
    BY <2>1, <2>2, <2>3, UpdateSound
<1>3. CASE StopTask(v)
  <2>1. \A u \in Px4 : Sound(NewFormation, u) /\ NewFormation \in Formation
    BY NewFormationSound, Px4Assumption DEF Sound
  <2>2. TypeOK'
    BY <1>3, <2>1, FreshValues, TopicOperations DEF StopTask, IInv, TypeOK
  <2>3. \A u \in Px4 : /\ Sound(formation'[u], u)
                       /\ Readable(management'[u], Management)
                       /\ Readable(node'[u], NodeMessage)
    BY <1>3, <2>1, TopicOperations, NothingAssumption DEF StopTask, IInv, TypeOK
  <2>4. NothingSurvivesTask'
    BY <1>3 DEF StopTask, IInv, TypeOK, NothingSurvivesTask
  <2>5. ActiveReportIsWhole'
    BY <1>3 DEF StopTask, IInv, TypeOK, ActiveReportIsWhole, noStatus
  <2> QED
    BY <2>2, <2>3, <2>4, <2>5 DEF IInv
<1>4. CASE EnterHold(v)
  BY <1>4
  DEF EnterHold, taskVars, topicVars, IInv, TypeOK, NothingSurvivesTask, ActiveReportIsWhole
<1> QED
  BY <1>1, <1>2, <1>3, <1>4 DEF Vehicle

\* Messages of any sender.
LEMMA ManagementReceivedSound ==
  ASSUME IInv, NEW v \in Px4, NEW m \in Management, handle_message_swarm_management(v, m)
  PROVE  IInv'
<1>1. TypeOK'
  BY TopicOperations DEF handle_message_swarm_management, taskVars, IInv, TypeOK, Readable
<1>2. \A u \in Px4 : Readable(management'[u], Management)
  BY TopicOperations DEF handle_message_swarm_management, IInv, TypeOK
<1> QED
  BY <1>1, <1>2
  DEF handle_message_swarm_management, taskVars, IInv, NothingSurvivesTask, ActiveReportIsWhole

LEMMA NodeReceivedSound ==
  ASSUME IInv, NEW v \in Px4, NEW m \in NodeMessage, handle_message_swarm_node(v, m)
  PROVE  IInv'
<1>1. TypeOK'
  BY TopicOperations DEF handle_message_swarm_node, taskVars, IInv, TypeOK, Readable
<1>2. \A u \in Px4 : Readable(node'[u], NodeMessage)
  BY TopicOperations DEF handle_message_swarm_node, IInv, TypeOK
<1> QED
  BY <1>1, <1>2
  DEF handle_message_swarm_node, taskVars, IInv, NothingSurvivesTask, ActiveReportIsWhole

LEMMA ModeSetSound ==
  ASSUME IInv, NEW v \in Px4, NEW mode \in {"Swarm", "Other"}, SetMode(v, mode)
  PROVE  IInv'
BY DEF SetMode, taskVars, topicVars, IInv, TypeOK, NothingSurvivesTask, ActiveReportIsWhole

LEMMA StepSound == IInv /\ [Next]_vars => IInv'
<1> SUFFICES ASSUME IInv, [Next]_vars PROVE IInv'
  OBVIOUS
<1>1. ASSUME NEW v \in Px4, NEW m \in ManagementSent, handle_message_swarm_management(v, m)
      PROVE  IInv'
  BY <1>1, SentAssumption, ManagementReceivedSound
<1>2. ASSUME NEW v \in Px4, NEW m \in NodeSent, handle_message_swarm_node(v, m) PROVE IInv'
  BY <1>2, SentAssumption, NodeReceivedSound
<1>3. ASSUME NEW v \in Px4, NEW m \in InformationSent, handle_message_information(v, m)
      PROVE  IInv'
  <2>1. m \in InformationMessage
    BY SentAssumption
  <2>2. information' \in [Px4 -> Topic(InformationMessage)]
    BY <1>3, <2>1, TopicOperations DEF handle_message_information, IInv, TypeOK
  <2>3. TypeOK'
    BY <1>3, <2>2 DEF handle_message_information, taskVars, IInv, TypeOK
  <2> QED
    BY <1>3, <2>3
    DEF handle_message_information, taskVars, IInv, NothingSurvivesTask, ActiveReportIsWhole
<1>4. CASE UNCHANGED vars
  BY <1>4 DEF vars, taskVars, topicVars, IInv, TypeOK, NothingSurvivesTask, ActiveReportIsWhole
<1> QED
  BY <1>1, <1>2, <1>3, <1>4, VehicleSound, ModeSetSound DEF Next, Environment

LEMMA Inductive == Spec => []IInv
BY InitSound, StepSound, PTL DEF Spec

(***************************************************************************)
(* The invariants the runs check, for every value of the constants.         *)
(***************************************************************************)
\* Every variable keeps its type.
THEOREM TypeCorrect == Spec => []TypeOK
BY Inductive, PTL DEF IInv

\* _node_count always is the length of the node list.
THEOREM CountCorrect == Spec => []CountIsSize
<1>1. IInv => CountIsSize
  BY DEF IInv, CountIsSize, Sound
<1> QED
  BY Inductive, <1>1, PTL

\* A vehicle flies the slots it reports.
THEOREM FlownAsReported == Spec => []FliesReportedSlots
<1>1. IInv => FliesReportedSlots
  BY DEF IInv, FliesReportedSlots, Sound
<1> QED
  BY Inductive, <1>1, PTL

\* A complete replacement formation is never left waiting.
THEOREM PendingCorrect == Spec => []PendingIsIncomplete
<1>1. IInv => PendingIsIncomplete
  BY DEF IInv, PendingIsIncomplete, Sound
<1> QED
  BY Inductive, <1>1, PTL

\* No position is kept of a vehicle that has no offset.
THEOREM LocatedCorrect == Spec => []LocatedAreNeighbours
<1>1. IInv => LocatedAreNeighbours
  BY DEF IInv, LocatedAreNeighbours, Sound
<1> QED
  BY Inductive, <1>1, PTL

\* Destroying the task destroys the formation and its setpoint.
THEOREM NothingSurvives == Spec => []NothingSurvivesTask
BY Inductive, PTL DEF IInv

\* A follower that reports "active" reports a formation of the size it flies.
THEOREM ReportsWhole == Spec => []ActiveReportIsWhole
BY Inductive, PTL DEF IInv

-----------------------------------------------------------------------------
(***************************************************************************)
(* What one step may do, for every value of the constants.                  *)
(***************************************************************************)
\* One pass through update() takes at most one message of each kind.
LEMMA UpdateTransition ==
  ASSUME IInv, NEW v \in Px4, NEW f0, Sound(f0, v), NEW r0, NEW s0, NEW due,
         update(v, f0, r0, s0, due)
  PROVE  /\ \A u \in Px4 \ {v} : formation'[u] = formation[u]
         /\ formation'[v].updating => Flown(formation'[v]) = Flown(f0)
         /\ formation'[v].swarm = f0.swarm
              /\ (\E n \in Node : f0.nodes[n] \notin {NoSlot, formation'[v].nodes[n]})
              => Complete(formation'[v]) /\ ~formation'[v].updating
         /\ formation'[v].swarm = f0.swarm
              => f0.located \cap Neighbours(formation'[v]) \subseteq formation'[v].located
<1> DEFINE f1 == afterManagement(f0, v)
           f2 == afterNode(f1, v)
           f3 == locate(f2, positionsRead(v))
<1>1. v \in Node /\ f0 \in Formation
  BY Px4Assumption DEF Sound
<1>2. /\ Sound(f1, v)
      /\ f1.updating => Flown(f1) = Flown(f0)
      /\ f1.swarm = f0.swarm => f1.nodes = f0.nodes /\ f1.located = f0.located
  BY <1>1, ManagementSound, ManagementTransition DEF IInv, Readable, afterManagement
<1>3. formation' = [formation EXCEPT ![v] = f3]
  BY DEF update
<1> HIDE DEF f1
<1>4. /\ f2.swarm = f1.swarm
      /\ f2.updating => Flown(f2) = Flown(f1)
      /\ (\E n \in Node : f1.nodes[n] \notin {NoSlot, f2.nodes[n]})
            => Complete(f2) /\ ~f2.updating
      /\ f1.located \cap Neighbours(f2) \subseteq f2.located
      /\ f2 \in Formation
  <2>1. CASE Unread(node[v])
    BY <1>1, <1>2, <2>1, NodeSound, NodeTransition DEF IInv, Readable, afterNode, Sound
  <2>2. CASE ~Unread(node[v])
    <3>1. f2 = f1
      BY <2>2 DEF afterNode
    <3>2. LocatesNeighbours(f1) /\ f1 \in Formation
      BY <1>2 DEF Sound
    <3> QED
      BY <3>1, <3>2
  <2> QED
    BY <2>1, <2>2
<1>5. f2.updating => f1.updating
  <2>1. ASSUME ~f1.updating, Unread(node[v])
        PROVE  f2.updating = FALSE
    BY <1>1, <1>2, <2>1, CollectNodeTransition DEF IInv, Readable, afterNode, onNode
  <2>2. ~Unread(node[v]) => f2 = f1
    BY DEF afterNode
  <2> QED
    BY <2>1, <2>2
<1> HIDE DEF f2
<1>6. /\ f3.swarm = f2.swarm /\ f3.nodes = f2.nodes /\ f3.offset = f2.offset
      /\ f3.expected = f2.expected /\ f3.count = f2.count /\ f3.leader = f2.leader
      /\ f3.updating = f2.updating /\ f2.located \subseteq f3.located
  BY <1>4, LocateTransition
<1> HIDE DEF f3
<1>7. formation'[v] = f3 /\ \A u \in Px4 \ {v} : formation'[u] = formation[u]
  BY <1>3 DEF IInv, TypeOK
<1>8. Flown(f3) = Flown(f2) /\ Complete(f3) = Complete(f2) /\ Neighbours(f3) = Neighbours(f2)
  BY <1>6 DEF Flown, Complete, Neighbours
<1> QED
  BY <1>2, <1>4, <1>5, <1>6, <1>7, <1>8

\* Every step either passes through update() for one vehicle, or leaves the
\* formations alone, or destroys one task.
LEMMA StepTransition ==
  ASSUME IInv, Next, NEW v \in Px4
  PROVE  \/ formation'[v] = formation[v]
         \/ /\ formation'[v].updating => Flown(formation'[v]) = Flown(formation[v])
            /\ formation'[v].swarm = formation[v].swarm
                 /\ (\E n \in Node : formation[v].nodes[n] \notin {NoSlot, formation'[v].nodes[n]})
                 => Complete(formation'[v]) /\ ~formation'[v].updating
            /\ formation'[v].swarm = formation[v].swarm
                 => formation[v].located \cap Neighbours(formation'[v])
                      \subseteq formation'[v].located
         \/ ~task'[v] /\ formation'[v].updating = FALSE
<1>1. ASSUME NEW u \in Px4, StartTask(u)
      PROVE  \E r0, s0, due : update(u, formation[u], r0, s0, due)
  <2>1. formation[u] = NewFormation
    BY <1>1 DEF StartTask, IInv, NothingSurvivesTask
  <2> QED
    BY <1>1, <2>1 DEF StartTask
<1>2. ASSUME NEW u \in Px4, NEW due \in StatusDue, RunTask(u, due)
      PROVE  \E r0, s0, d : update(u, formation[u], r0, s0, d)
  BY <1>2 DEF RunTask
<1>3. ASSUME NEW u \in Px4, NEW r0, NEW s0, NEW due, update(u, formation[u], r0, s0, due)
      PROVE  \/ formation'[v] = formation[v]
             \/ /\ formation'[v].updating => Flown(formation'[v]) = Flown(formation[v])
                /\ formation'[v].swarm = formation[v].swarm
                     /\ (\E n \in Node :
                           formation[v].nodes[n] \notin {NoSlot, formation'[v].nodes[n]})
                     => Complete(formation'[v]) /\ ~formation'[v].updating
                /\ formation'[v].swarm = formation[v].swarm
                     => formation[v].located \cap Neighbours(formation'[v])
                          \subseteq formation'[v].located
  <2>1. Sound(formation[u], u)
    BY DEF IInv
  <2>2. CASE u = v
    BY <1>3, <2>1, <2>2, UpdateTransition
  <2>3. CASE u # v
    BY <1>3, <2>1, <2>3, UpdateTransition
  <2> QED
    BY <2>2, <2>3
<1>4. ASSUME NEW u \in Px4, StopTask(u)
      PROVE  \/ formation'[v] = formation[v]
             \/ ~task'[v] /\ formation'[v].updating = FALSE
  <2>1. CASE u = v
    BY <1>4, <2>1 DEF StopTask, NewFormation, IInv, TypeOK
  <2>2. CASE u # v
    BY <1>4, <2>2 DEF StopTask, IInv, TypeOK
  <2> QED
    BY <2>1, <2>2
<1>5. ASSUME NEW u \in Px4, Environment(u) \/ EnterHold(u)
      PROVE  formation' = formation
  BY <1>5 DEF Environment, handle_message_swarm_management, handle_message_swarm_node,
              handle_message_information, SetMode, EnterHold, taskVars
<1> QED
  BY <1>1, <1>2, <1>3, <1>4, <1>5 DEF Next, Vehicle

\* No formation update is flown before all of it has arrived.
THEOREM FliesOld == Spec => FliesOldWhileUpdating
<1>1. IInv /\ [Next]_vars
        => [\A v \in Px4 :
              formation'[v].updating => Flown(formation'[v]) = Flown(formation[v])]_vars
  BY StepTransition
<1> QED
  BY Inductive, <1>1, PTL DEF Spec, FliesOldWhileUpdating

\* Slots in use move only together.
THEOREM MoveTogether == Spec => SlotsMoveTogether
<1>1. IInv /\ [Next]_vars
        => [\A v \in Px4 :
              LET f == formation[v] IN LET g == formation'[v] IN
              /\ task[v] /\ task'[v] /\ f.swarm = g.swarm
              /\ \E n \in Node : f.nodes[n] \notin {NoSlot, g.nodes[n]}
              => Complete(g) /\ ~g.updating]_vars
  <2> SUFFICES ASSUME IInv, Next, NEW v \in Px4, task'[v],
                      formation[v].swarm = formation'[v].swarm,
                      NEW n \in Node, formation[v].nodes[n] \notin {NoSlot, formation'[v].nodes[n]}
               PROVE  Complete(formation'[v]) /\ ~formation'[v].updating
    OBVIOUS
  <2> QED
    BY StepTransition
<1> QED
  BY Inductive, <1>1, PTL DEF Spec, SlotsMoveTogether

\* Positions of neighbours that stay are kept.
THEOREM PositionsKept == Spec => PositionsSurviveSwitch
<1>1. IInv /\ [Next]_vars
        => [\A v \in Px4 :
              task[v] /\ task'[v] /\ formation[v].swarm = formation'[v].swarm =>
                formation[v].located \cap Neighbours(formation'[v])
                  \subseteq formation'[v].located]_vars
  <2> SUFFICES ASSUME IInv, Next, NEW v \in Px4, task'[v],
                      formation[v].swarm = formation'[v].swarm
               PROVE  formation[v].located \cap Neighbours(formation'[v])
                        \subseteq formation'[v].located
    OBVIOUS
  <2>1. LocatesNeighbours(formation[v])
    BY DEF IInv, Sound
  <2> QED
    BY <2>1, StepTransition
<1> QED
  BY Inductive, <1>1, PTL DEF Spec, PositionsSurviveSwitch

-----------------------------------------------------------------------------
(***************************************************************************)
(* The task keeps the promise of SwarmMembership: what stands for member and *)
(* coupling, one vehicle at a time.                                          *)
(***************************************************************************)
Mem(v) == IF task[v] THEN MemberOf(formation[v], Nothing) ELSE Nothing
Coupling(v) == IF setpoint[v] = Nothing THEN EmptyList ELSE setpoint[v].offset

\* Besides the invariant, a topic holds what the environment sends.
PromiseInv ==
  /\ IInv
  /\ \A v \in Px4 : Readable(management[v], ManagementSent) /\ Readable(node[v], NodeSent)

LEMMA PromiseInductive == Spec => []PromiseInv
<1>1. Init => PromiseInv
  BY InitSound, FreshValues DEF PromiseInv, Init
<1>2. PromiseInv /\ [Next]_vars => PromiseInv'
  <2> SUFFICES ASSUME PromiseInv, [Next]_vars, NEW u \in Px4
               PROVE  Readable(management'[u], ManagementSent) /\ Readable(node'[u], NodeSent)
    BY StepSound DEF PromiseInv
  <2>1. /\ Readable(management[u], ManagementSent) /\ Readable(node[u], NodeSent)
        /\ management[u] \in Topic(ManagementSent) /\ node[u] \in Topic(NodeSent)
        /\ management \in [Px4 -> Topic(Management)] /\ node \in [Px4 -> Topic(NodeMessage)]
    BY DEF PromiseInv, IInv, TypeOK, Readable
  <2>2. ASSUME NEW v \in Px4, NEW f, NEW r, NEW s, NEW due, update(v, f, r, s, due)
        PROVE  Readable(management'[u], ManagementSent) /\ Readable(node'[u], NodeSent)
    <3>1. /\ management' = [management EXCEPT ![v] = readAll(@)]
          /\ node' = [node EXCEPT ![v] = readAll(@)]
      BY <2>2 DEF update
    <3>2. /\ management'[u] \in {management[u], readAll(management[u])}
          /\ node'[u] \in {node[u], readAll(node[u])}
      BY <2>1, <3>1
    <3>3. /\ Readable(readAll(management[u]), ManagementSent)
          /\ Readable(readAll(node[u]), NodeSent)
      BY <2>1, TopicOperations DEF Readable
    <3> QED
      BY <2>1, <3>2, <3>3
  <2>3. ASSUME NEW v \in Px4, StopTask(v)
        PROVE  Readable(management'[u], ManagementSent) /\ Readable(node'[u], NodeSent)
    <3>1. /\ management' = [management EXCEPT ![v] = resubscribed(@)]
          /\ node' = [node EXCEPT ![v] = resubscribed(@)]
      BY <2>3 DEF StopTask
    <3>2. /\ management'[u] \in {management[u], resubscribed(management[u])}
          /\ node'[u] \in {node[u], resubscribed(node[u])}
      BY <2>1, <3>1
    <3>3. Nothing \notin ManagementSent /\ Nothing \notin NodeSent
      BY NothingAssumption, SentAssumption
    <3>4. /\ Readable(resubscribed(management[u]), ManagementSent)
          /\ Readable(resubscribed(node[u]), NodeSent)
      BY <2>1, <3>3, TopicOperations
    <3> QED
      BY <2>1, <3>2, <3>4
  <2>4. ASSUME NEW v \in Px4, NEW m \in ManagementSent, handle_message_swarm_management(v, m)
        PROVE  Readable(management'[u], ManagementSent) /\ Readable(node'[u], NodeSent)
    <3>1. management'[u] \in {management[u], publishOne(management[u], m)} /\ UNCHANGED node
      BY <2>1, <2>4 DEF handle_message_swarm_management
    <3> QED
      BY <2>1, <3>1, TopicOperations
  <2>5. ASSUME NEW v \in Px4, NEW m \in NodeSent, handle_message_swarm_node(v, m)
        PROVE  Readable(management'[u], ManagementSent) /\ Readable(node'[u], NodeSent)
    <3>1. node'[u] \in {node[u], publishOne(node[u], m)} /\ UNCHANGED management
      BY <2>1, <2>5 DEF handle_message_swarm_node
    <3> QED
      BY <2>1, <3>1, TopicOperations
  <2>6. ASSUME NEW v \in Px4,
               \/ EnterHold(v)
               \/ \E m \in InformationSent : handle_message_information(v, m)
               \/ \E mode \in {"Swarm", "Other"} : SetMode(v, mode)
        PROVE  UNCHANGED <<management, node>>
    BY <2>6 DEF EnterHold, handle_message_information, SetMode, topicVars
  <2> QED
    BY <2>1, <2>2, <2>3, <2>4, <2>5, <2>6
    DEF Next, Vehicle, Environment, StartTask, RunTask, vars, topicVars
<1> QED
  BY <1>1, <1>2, PTL DEF Spec

-----------------------------------------------------------------------------
\* SwarmMembership counts as FiniteSets does.
LEMMA SameCardinality == \A S : Membership!Cardinality(S) = Cardinality(S)
BY DEF Membership!Cardinality, Membership!IsFiniteSet, Cardinality, IsFiniteSet

\* A configuration message does to the formation what Configured does to the
\* member, and a slot what PlacedIn does.
LEMMA ConfiguredAsPromised ==
  ASSUME NEW f \in Formation, NEW m \in Management
  PROVE  MemberOf(onManagement(f, m), Nothing)
           = Membership!Configured(MemberOf(f, Nothing), m)
<1> DEFINE c == MemberOf(f, Nothing)
<1>1. Membership!Nobody = EmptyList
  BY DEF Membership!Nobody, EmptyList
<1>2. MemberOf(onManagement(f, m), Nothing) =
        IF m.type = "update" /\ c.swarm # NoSwarm /\ m.swarm = c.swarm
        THEN [c EXCEPT !.next = [expected |-> m.count, leader |-> m.leader, slots |-> EmptyList]]
        ELSE [swarm |-> m.swarm, expected |-> m.count, leader |-> m.leader,
              slots |-> IF c.swarm = m.swarm THEN c.slots ELSE EmptyList, next |-> Nothing]
  BY ConfiguredMember
<1> HIDE DEF c
<1>3. MemberOf(onManagement(f, m), Nothing) = Membership!Configured(c, m)
  BY <1>1, <1>2 DEF Membership!Configured
<1> QED
  BY <1>3 DEF c

LEMMA PlacedAsPromised ==
  ASSUME NEW own \in Node, NEW f, Sound(f, own), NEW m \in NodeMessage
  PROVE  MemberOf(onNode(f, m, own), Nothing) = Membership!PlacedIn(MemberOf(f, Nothing), m)
<1> DEFINE c == MemberOf(f, Nothing)
           next == [c.next EXCEPT !.slots[m.node] = m.slot]
<1>1. MemberOf(onNode(f, m, own), Nothing) =
        IF c.next # Nothing
        THEN IF m.swarm = c.swarm
             THEN IF Size(next.slots) = next.expected
                  THEN [swarm |-> c.swarm, expected |-> next.expected,
                        leader |-> next.leader, slots |-> next.slots, next |-> Nothing]
                  ELSE [c EXCEPT !.next = next]
             ELSE c
        ELSE IF c.slots[m.node] = NoSlot THEN [c EXCEPT !.slots[m.node] = m.slot] ELSE c
  BY PlacedMember, OutsideAssumption
<1>2. Membership!Replaced(c, m) =
        IF Membership!Whole(next)
        THEN [swarm |-> c.swarm, expected |-> next.expected, leader |-> next.leader,
              slots |-> next.slots, next |-> Nothing]
        ELSE [c EXCEPT !.next = next]
  BY DEF Membership!Replaced
<1> HIDE DEF c, next
<1>3. Membership!Whole(next) <=> Size(next.slots) = next.expected
  BY SameCardinality DEF Size, Listed, Membership!Whole, Membership!Placed
<1>4. MemberOf(onNode(f, m, own), Nothing) = Membership!PlacedIn(c, m)
  BY <1>1, <1>2, <1>3 DEF Membership!PlacedIn
<1> QED
  BY <1>4 DEF c

\* One pass through update(): at most one configuration message and one slot
\* make f0 what it is afterwards, and what was flown before is flown on, or
\* the differences of the slots of a whole formation are.
LEMMA UpdatePromised ==
  ASSUME PromiseInv, NEW v \in Px4, NEW f0, Sound(f0, v), NEW r0 \in Reference, NEW s0,
         NEW due \in BOOLEAN, update(v, f0, r0, s0, due)
  PROVE  LET d == MemberOf(formation'[v], Nothing) IN
         /\ \A u \in Px4 \ {v} : formation'[u] = formation[u] /\ setpoint'[u] = setpoint[u]
         /\ Membership!Becomes(MemberOf(f0, Nothing), d)
         /\ setpoint'[v] = s0 \/ Membership!CoupledBy(d, v, setpoint'[v].offset)
<1> DEFINE f1 == afterManagement(f0, v)
           h  == afterNode(f1, v)
           f2 == locate(h, positionsRead(v))
           r  == newReference(r0, f2, v)
<1>1. v \in Node /\ formation \in [Px4 -> Formation] /\ setpoint \in [Px4 -> Setpoint \cup {Nothing}]
  BY Px4Assumption DEF PromiseInv, IInv, TypeOK
<1>2. Sound(f1, v)
  BY <1>1, ManagementSound DEF PromiseInv, IInv, Readable, afterManagement
<1>3. \/ MemberOf(f1, Nothing) = MemberOf(f0, Nothing)
      \/ \E m \in ManagementSent :
           MemberOf(f1, Nothing) = Membership!Configured(MemberOf(f0, Nothing), m)
  <2>1. f0 \in Formation
    BY DEF Sound
  <2>2. Unread(management[v]) => /\ management[v].last \in ManagementSent
                                 /\ management[v].last \in Management
    BY SentAssumption DEF PromiseInv, Readable
  <2> QED
    BY <2>1, <2>2, ConfiguredAsPromised DEF afterManagement
<1> HIDE DEF f1
<1>4. Sound(h, v)
  BY <1>1, <1>2, NodeSound DEF PromiseInv, IInv, Readable, afterNode
<1>5. \/ MemberOf(h, Nothing) = MemberOf(f1, Nothing)
      \/ \E m \in NodeSent : MemberOf(h, Nothing) = Membership!PlacedIn(MemberOf(f1, Nothing), m)
  <2>1. Unread(node[v]) => node[v].last \in NodeSent /\ node[v].last \in NodeMessage
    BY SentAssumption DEF PromiseInv, Readable
  <2> QED
    BY <1>1, <1>2, <2>1, PlacedAsPromised DEF afterNode
<1> HIDE DEF h
<1>6. MemberOf(f2, Nothing) = MemberOf(h, Nothing)
  BY <1>4 DEF locate, MemberOf, Sound, Formation
<1>7. Sound(f2, v)
  BY <1>1, <1>4, LocateSound DEF positionsRead
<1>8. /\ formation' = [formation EXCEPT ![v] = f2]
      /\ setpoint' = [setpoint EXCEPT ![v] = IF Flying(f2) THEN controlLaw(f2, r) ELSE s0]
  BY DEF update, f1, h
<1> HIDE DEF f2, r
<1>9. /\ \A u \in Px4 \ {v} : formation'[u] = formation[u] /\ setpoint'[u] = setpoint[u]
      /\ formation'[v] = f2
      /\ setpoint'[v] = IF Flying(f2) THEN controlLaw(f2, r) ELSE s0
  BY <1>1, <1>8
<1>10. Membership!Becomes(MemberOf(f0, Nothing), MemberOf(f2, Nothing))
  BY <1>3, <1>5, <1>6 DEF Membership!Becomes, Membership!Configurations
<1>11. ASSUME Flying(f2)
       PROVE  Membership!CoupledBy(MemberOf(f2, Nothing), v, controlLaw(f2, r).offset)
  <2> DEFINE used == controlLaw(f2, r).offset
             d == MemberOf(f2, Nothing)
  <2>1. \A n \in Node : used[n] # NoSlot => n \in f2.located /\ used[n] = f2.offset[n]
    BY DEF controlLaw
  <2>2. d.slots = f2.nodes /\ d.expected = f2.expected
    BY DEF MemberOf
  <2>3. Membership!Placed(f2.nodes) = Listed(f2.nodes)
    BY DEF Membership!Placed, Listed
  <2>4. Size(f2.nodes) = f2.expected /\ f2.expected > 1
    BY <1>7, <1>11 DEF Sound, Flying, Complete, CountsNodes
  <2>5. \A n \in f2.located : n # v /\ {v, n} \subseteq Listed(f2.nodes)
                              /\ f2.offset[n] = <<f2.nodes[v], f2.nodes[n]>>
    BY <1>1, <1>7, <1>11, FlownIsWhole
  <2> HIDE DEF used, d
  <2>6. Membership!Whole(d) /\ d.expected > 1
    BY <2>2, <2>3, <2>4, SameCardinality DEF Membership!Whole, Size
  <2>7. Membership!CoupledBy(d, v, used)
    BY <2>1, <2>2, <2>3, <2>5, <2>6 DEF Membership!CoupledBy
  <2> QED
    BY <2>7 DEF used, d
<1> QED
  BY <1>9, <1>10, <1>11

\* Nothing that SwarmMembership speaks of changes.
Stutters(v) == Mem(v)' = Mem(v) /\ Coupling(v)' = Coupling(v)

LEMMA StartPromised ==
  ASSUME PromiseInv, NEW v \in Px4, StartTask(v)
  PROVE  Membership!Next
<1>1. /\ update(v, NewFormation, newReferences, Nothing, TRUE)
      /\ ~task[v] /\ task' = [task EXCEPT ![v] = TRUE] /\ task \in [Px4 -> BOOLEAN]
  BY DEF StartTask, PromiseInv, IInv, TypeOK
<1>2. v \in Node /\ Sound(NewFormation, v) /\ NewFormation \in Formation
  BY Px4Assumption, NewFormationSound DEF Sound
<1>3. setpoint[v] = Nothing /\ Mem(v) = Nothing
  BY <1>1 DEF PromiseInv, IInv, NothingSurvivesTask, Mem
<1>4. MemberOf(NewFormation, Nothing) = Membership!Fresh
  BY <1>2, FreshMember DEF Membership!Fresh, Membership!Nobody, EmptyList
<1>5. LET d == MemberOf(formation'[v], Nothing) IN
      /\ \A u \in Px4 \ {v} : formation'[u] = formation[u] /\ setpoint'[u] = setpoint[u]
      /\ Membership!Becomes(Membership!Fresh, d)
      /\ setpoint'[v] = Nothing \/ Membership!CoupledBy(d, v, setpoint'[v].offset)
  <2>1. newReferences \in Reference /\ TRUE \in BOOLEAN
    BY FreshValues
  <2> QED
    BY <1>1, <1>2, <1>4, <2>1, UpdatePromised
<1>6. task'[v] /\ \A u \in Px4 \ {v} : task'[u] = task[u]
  BY <1>1
<1>7. Mem(v)' = MemberOf(formation'[v], Nothing)
  BY <1>6 DEF Mem, MemberOf
<1>8. \A u \in Px4 \ {v} : Mem(u)' = Mem(u) /\ Coupling(u)' = Coupling(u)
  BY <1>5, <1>6 DEF Mem, MemberOf, Coupling
<1>9. \/ Coupling(v)' \in {Coupling(v), EmptyList}
      \/ Membership!CoupledBy(Mem(v)', v, Coupling(v)')
  BY <1>5, <1>7 DEF Coupling
<1>10. Membership!Becomes(Membership!Fresh, Mem(v)')
  BY <1>5, <1>7
<1>11. [u \in Px4 |-> IF task[u] THEN MemberOf(formation[u], Nothing) ELSE Nothing][v] = Nothing
  BY <1>3 DEF Mem
<1>12. Membership!Enter(v)
  BY <1>8, <1>9, <1>10, <1>11
  DEF Membership!Enter, Membership!Take, Mem, Coupling, Membership!Nobody, EmptyList
<1> QED
  BY <1>12 DEF Membership!Next

LEMMA RunPromised ==
  ASSUME PromiseInv, NEW v \in Px4, NEW due \in StatusDue, RunTask(v, due)
  PROVE  Membership!Next
<1>1. /\ update(v, formation[v], reference[v], setpoint[v], due)
      /\ task[v] /\ UNCHANGED task
  BY DEF RunTask
<1>2. Sound(formation[v], v) /\ reference[v] \in Reference /\ formation[v] \in Formation
  BY DEF PromiseInv, IInv, TypeOK, Sound
<1>3. Mem(v) = MemberOf(formation[v], Nothing) /\ Mem(v) # Nothing
  BY <1>1, <1>2, MemberType, OutsideAssumption DEF Mem
<1>4. LET d == MemberOf(formation'[v], Nothing) IN
      /\ \A u \in Px4 \ {v} : formation'[u] = formation[u] /\ setpoint'[u] = setpoint[u]
      /\ Membership!Becomes(Mem(v), d)
      /\ setpoint'[v] = setpoint[v] \/ Membership!CoupledBy(d, v, setpoint'[v].offset)
  <2>1. due \in BOOLEAN
    BY SentAssumption
  <2> QED
    BY <1>1, <1>2, <1>3, <2>1, UpdatePromised
<1>5. Mem(v)' = MemberOf(formation'[v], Nothing)
  BY <1>1 DEF Mem, MemberOf
<1>6. \A u \in Px4 \ {v} : Mem(u)' = Mem(u) /\ Coupling(u)' = Coupling(u)
  BY <1>1, <1>4 DEF Mem, MemberOf, Coupling
<1>7. \/ Coupling(v)' \in {Coupling(v), EmptyList}
      \/ Membership!CoupledBy(Mem(v)', v, Coupling(v)')
  BY <1>4, <1>5 DEF Coupling
<1>8. Membership!Becomes(Mem(v), Mem(v)')
  BY <1>4, <1>5
<1>9. [u \in Px4 |-> IF task[u] THEN MemberOf(formation[u], Nothing) ELSE Nothing][v] = Mem(v)
  BY DEF Mem
<1>10. Membership!Stay(v)
  BY <1>3, <1>6, <1>7, <1>8, <1>9
  DEF Membership!Stay, Membership!Take, Mem, Coupling, Membership!Nobody, EmptyList
<1> QED
  BY <1>10 DEF Membership!Next

LEMMA StopPromised ==
  ASSUME PromiseInv, NEW v \in Px4, StopTask(v)
  PROVE  Membership!Next
<1>1. /\ task[v] /\ task' = [task EXCEPT ![v] = FALSE]
      /\ formation' = [formation EXCEPT ![v] = NewFormation]
      /\ setpoint' = [setpoint EXCEPT ![v] = Nothing]
  BY DEF StopTask
<1>2. /\ task \in [Px4 -> BOOLEAN] /\ formation \in [Px4 -> Formation]
      /\ setpoint \in [Px4 -> Setpoint \cup {Nothing}]
  BY DEF PromiseInv, IInv, TypeOK
<1>3. Mem(v) # Nothing
  BY <1>1, <1>2, MemberType, OutsideAssumption DEF Mem
<1>4. /\ ~task'[v] /\ setpoint'[v] = Nothing
      /\ \A u \in Px4 \ {v} : /\ task'[u] = task[u] /\ formation'[u] = formation[u]
                              /\ setpoint'[u] = setpoint[u]
  BY <1>1, <1>2
<1>5. Mem(v)' = Nothing /\ Coupling(v)' = Membership!Nobody
  BY <1>4 DEF Mem, Coupling, EmptyList, Membership!Nobody
<1>6. \A u \in Px4 \ {v} : Mem(u)' = Mem(u) /\ Coupling(u)' = Coupling(u)
  BY <1>4 DEF Mem, MemberOf, Coupling
<1>7. Membership!Leave(v)
  BY <1>3, <1>5, <1>6 DEF Membership!Leave, Mem, Coupling
<1> QED
  BY <1>7 DEF Membership!Next

\* The flight task implements SwarmMembership: its counter, its consensus list
\* and its pending list never show but as what the slots it was sent say.
THEOREM PromiseKept == Spec => KeepsPromise
<1>1. Init => Membership!Init
  BY DEF Init, Membership!Init, EmptyList, Membership!Nobody
<1>2. PromiseInv /\ [Next]_vars
        => [Membership!Next]_<<[v \in Px4 |-> IF task[v] THEN MemberOf(formation[v], Nothing)
                                                         ELSE Nothing],
                               [v \in Px4 |-> IF setpoint[v] = Nothing THEN EmptyList
                                                                       ELSE setpoint[v].offset]>>
  <2> SUFFICES ASSUME PromiseInv, [Next]_vars
               PROVE  Membership!Next \/ \A u \in Px4 : Stutters(u)
    BY DEF Stutters, Mem, Coupling
  <2>1. ASSUME NEW v \in Px4, Environment(v) \/ EnterHold(v)
        PROVE  \A u \in Px4 : Stutters(u)
    BY <2>1 DEF Environment, handle_message_swarm_management, handle_message_swarm_node,
                handle_message_information, SetMode, EnterHold, taskVars,
                Stutters, Mem, Coupling
  <2>2. CASE UNCHANGED vars
    BY <2>2 DEF vars, taskVars, Stutters, Mem, Coupling
  <2> QED
    BY <2>1, <2>2, StartPromised, RunPromised, StopPromised DEF Next, Vehicle
<1> QED
  BY <1>1, <1>2, PromiseInductive, PTL DEF Spec, KeepsPromise, Membership!Spec
=============================================================================
