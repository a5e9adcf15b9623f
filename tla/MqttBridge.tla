----------------------------- MODULE MqttBridge -----------------------------
(***************************************************************************)
(* mavlink_mqtt_bridge between the ground station's page and the vehicles.   *)
(* Two of its threads share the registries under a lock: the UDP thread      *)
(* enters who sends telemetry, the MQTT thread looks up where to send. The   *)
(* MQTT thread handles one message after the other and sleeps in the middle  *)
(* of a take-off.                                                           *)
(*                                                                          *)
(* Time passes in ticks of 150 ms, the shortest pause of a script. In a tick *)
(* a message crosses the broker and a vehicle runs some loops: both take     *)
(* about 20 ms. Nothing is lost here.                                       *)
(***************************************************************************)
EXTENDS Integers, FiniteSets, Sequences

CONSTANTS
  Vehicle,
  Order,          \* the members of the swarm as the page lists them
  Leader,
  Fleets,         \* the sets of vehicles that may carry a ROS 2 node
  CustomMode,     \* the external modes PX4 gives to nodes
  NoMode,         \* custom_mode 0: not registered
  Down,           \* the node does not run
  Absent,         \* the vehicle carries none
  Nothing,        \* nothing unread in a topic
  TakeOffs,       \* the take-off commands there are
  MaxTakeOffs, MaxCrashes        \* bounds

Members == {Order[i] : i \in 1..Len(Order)}

ASSUME BridgeAssumption ==
  /\ Members \subseteq Vehicle /\ Cardinality(Members) = Len(Order) /\ Leader \in Members
  /\ Fleets \subseteq SUBSET Vehicle
  /\ {NoMode, Down, Absent} \cap CustomMode = {} /\ Cardinality({NoMode, Down, Absent}) = 3
  /\ Nothing \notin Vehicle
  /\ TakeOffs \subseteq {"takeoff", "vtol_takeoff"}
  /\ MaxTakeOffs \in Nat /\ MaxCrashes \in Nat

VARIABLES
  todo,          \* what the script has yet to publish
  wait,          \* ticks until it does
  queue,         \* messages for the MQTT thread
  callback,      \* what is left of the message it handles
  asleep,        \* ticks it sleeps before it goes on
  uav_registry, companion_registry,      \* whose autopilot, whose node is known
  has_global,    \* whose global position is known
  companion_custom_mode,                 \* what selects the node's mode
  datagram,      \* a node's heartbeat between the two locks of the UDP thread
  craft,         \* the autopilots
  node,          \* node[v]: custom_mode of v's node, NoMode before it registered
  socket,        \* datagrams on their way to nodes
  begun,         \* a script was started: "no", "internal" or "external"
  disturbed,     \* a take-off was ordered while it ran (history)
  changed,       \* nodes whose mode the bridge had wrong then, or that crashed since (history)
  ordered,       \* vehicles ordered to take off (history)
  blind,         \* those ordered so while their position was needed and unknown (history)
  reported,      \* those whose take-off was reported as failed (history)
  takeOffs, crashes      \* counted for the bounds

bridge  == <<callback, asleep, uav_registry, companion_registry, has_global, companion_custom_mode,
             datagram>>
history == <<begun, disturbed, changed, ordered, blind, reported, takeOffs, crashes>>
vars    == <<todo, wait, queue, bridge, craft, node, socket, history>>

-----------------------------------------------------------------------------
(***************************************************************************)
(* Messages of the page.                                                    *)
(***************************************************************************)
Scripted       == {"internal", "external", "management", "node"}
Configurations == {"management", "node"}
Ordered        == {"takeoff", "vtol_takeoff"}
Commands       == {"param", "arm", "takeoff", "nav_vtol"}   \* what an order is cut into

\* Messages of these kinds, for some vehicles, about at most one member.
Post(kinds) == [kind : kinds, ids : SUBSET Vehicle, member : Members \cup {Nothing}]

Message(kind, ids) == [kind |-> kind, ids |-> ids, member |-> Nothing]
SwarmNode(v) == [kind |-> "node", ids |-> Members, member |-> v]

deployScript(external) ==
  <<Message(IF external THEN "external" ELSE "internal", Members), Message("management", Members)>>
    \o [i \in 1..Len(Order) |-> SwarmNode(Order[i])]

\* The sleeps of 1500, 500 and 150 ms after a message.
pause(kind) == CASE kind \in {"internal", "external"} -> 10
                 [] kind = "management" -> 3
                 [] kind = "node" -> 1

\* A take-off is sent without waiting for the vehicle to arm.
burstsWrong(m) ==
  CASE m.kind = "takeoff"      -> <<Message("takeoff", m.ids), Message("arm", m.ids)>>
    [] m.kind = "vtol_takeoff" -> <<Message("param", m.ids), Message("nav_vtol", m.ids), Message("arm", m.ids)>>
    [] OTHER                   -> <<m>>

\* What is sent in one go; the callback sleeps 300 ms between two of these.
bursts(m) ==
  CASE m.kind = "takeoff"      -> <<Message("arm", m.ids), Message("takeoff", m.ids)>>
    [] m.kind = "vtol_takeoff" -> <<Message("param", m.ids), Message("arm", m.ids), Message("nav_vtol", m.ids)>>
    [] OTHER                   -> <<m>>

SleepTicks == 2

-----------------------------------------------------------------------------
(***************************************************************************)
(* What a message does to an autopilot and to a node.                       *)
(***************************************************************************)
\* PX4 refuses an external mode that no node holds.
selected(v, c) ==
  IF companion_custom_mode[v] # NoMode /\ companion_custom_mode[v] = node[v]
  THEN [c EXCEPT !.mode = node[v]] ELSE c

\* A topic keeps one message: the one before it is gone, read or not.
told(v, c, m) ==
  CASE m.kind = "internal"   -> [c EXCEPT !.mode = "internal"]
    [] m.kind = "external"   -> selected(v, c)
    [] m.kind = "management" -> [c EXCEPT !.management = TRUE]
    [] m.kind = "node"       -> [c EXCEPT !.slot = m.member]
    [] m.kind = "arm"        -> [c EXCEPT !.flight = IF @ = "landed" THEN "arming" ELSE @]
    [] m.kind \in {"takeoff", "nav_vtol"} ->
         [c EXCEPT !.flight = IF @ = "armed" THEN "airborne" ELSE @]
    [] m.kind = "param"      -> c

\* The loiter point of a VTOL is reckoned from its global position. Who has none
\* is armed by now; its take-off is not sent and reported as failed.
Refused(m) == IF m.kind = "nav_vtol" THEN m.ids \ has_global ELSE {}

\* The nodes get the management messages only.
sendWrong(m) ==
  /\ craft' = [v \in Vehicle |-> IF v \in (m.ids \ Refused(m)) \cap uav_registry
                                 THEN told(v, craft[v], m) ELSE craft[v]]
  /\ socket' = [v \in Vehicle |->
                  IF v \in m.ids \cap companion_registry /\ m.kind = "management"
                  THEN Append(socket[v], m) ELSE socket[v]]
  /\ reported' = reported \cup Refused(m)

\* To the autopilots that are known; a configuration also to the nodes.
send(m) ==
  /\ craft' = [v \in Vehicle |-> IF v \in (m.ids \ Refused(m)) \cap uav_registry
                                 THEN told(v, craft[v], m) ELSE craft[v]]
  /\ socket' = [v \in Vehicle |->
                  IF v \in m.ids \cap companion_registry /\ m.kind \in Configurations
                  THEN Append(socket[v], m) ELSE socket[v]]
  /\ reported' = reported \cup Refused(m)

-----------------------------------------------------------------------------
(***************************************************************************)
(* The MQTT thread.                                                         *)
(***************************************************************************)
continue(rest) ==
  /\ send(Head(rest))
  /\ callback' = Tail(rest)
  /\ asleep' = IF Len(rest) > 1 THEN SleepTicks ELSE 0
  /\ UNCHANGED <<uav_registry, companion_registry, has_global, companion_custom_mode, datagram>>
  /\ UNCHANGED <<todo, wait, node>>
  /\ UNCHANGED <<begun, disturbed, changed, ordered, blind, takeOffs, crashes>>

on_message ==
  /\ callback = <<>> /\ queue # <<>>
  /\ continue(bursts(Head(queue)))
  /\ queue' = Tail(queue)

wakeUp ==
  /\ callback # <<>> /\ asleep = 0
  /\ continue(callback)
  /\ UNCHANGED queue

-----------------------------------------------------------------------------
(***************************************************************************)
(* The UDP thread.                                                          *)
(***************************************************************************)
\* Any telemetry of an autopilot.
discover(v) ==
  /\ v \notin uav_registry /\ datagram = Nothing
  /\ uav_registry' = uav_registry \cup {v}
  /\ UNCHANGED <<todo, wait, queue, callback, asleep, companion_registry, has_global,
                 companion_custom_mode, datagram, craft, node, socket, history>>

\* Its position, which may come long after. Nothing here asks for the one of a
\* vehicle that flies.
locate(v) ==
  /\ v \in uav_registry \ has_global /\ craft[v].flight # "airborne" /\ datagram = Nothing
  /\ has_global' = has_global \cup {v}
  /\ UNCHANGED <<todo, wait, queue, callback, asleep, uav_registry, companion_registry,
                 companion_custom_mode, datagram, craft, node, socket, history>>

\* The mode is stored before the node is entered.
discoverNodeWrong(v) ==
  /\ node[v] \in CustomMode \cup {NoMode} /\ datagram = Nothing
  /\ v \notin companion_registry \/ companion_custom_mode[v] # node[v]
  /\ companion_custom_mode' = [companion_custom_mode EXCEPT ![v] = node[v]]
  /\ datagram' = [from |-> v, custom_mode |-> node[v]]
  /\ UNCHANGED <<todo, wait, queue, callback, asleep, uav_registry, companion_registry, has_global,
                 craft, node, socket, history>>

\* A node's heartbeat enters the node under one lock ...
discoverNode(v) ==
  /\ node[v] \in CustomMode \cup {NoMode} /\ datagram = Nothing
  /\ v \notin companion_registry \/ companion_custom_mode[v] # node[v]
  /\ companion_registry' = companion_registry \cup {v}
  /\ datagram' = [from |-> v, custom_mode |-> node[v]]
  /\ UNCHANGED <<todo, wait, queue, callback, asleep, uav_registry, has_global, companion_custom_mode,
                 craft, node, socket, history>>

\* ... and its mode under another. Neither is ever taken out again.
handle_mavlink ==
  /\ datagram # Nothing
  /\ companion_custom_mode' = [companion_custom_mode EXCEPT ![datagram.from] = datagram.custom_mode]
  /\ datagram' = Nothing
  /\ UNCHANGED <<todo, wait, queue, callback, asleep, uav_registry, companion_registry, has_global,
                 craft, node, socket, history>>

-----------------------------------------------------------------------------
(***************************************************************************)
(* The page.                                                                *)
(***************************************************************************)
\* Vehicles are listed once their telemetry came, nodes once they registered.
\* Bound: a swarm whose vehicles carry nodes is deployed to their mode.
deploySwarm(external) ==
  /\ begun = "no"
  /\ Members \subseteq uav_registry
  /\ external = \A v \in Members : node[v] # Absent
  /\ external => \A v \in Members : companion_custom_mode[v] # NoMode
  /\ begun' = IF external THEN "external" ELSE "internal"
  /\ todo' = deployScript(external)
  /\ wait' = 0
  /\ disturbed' = (queue # <<>> \/ callback # <<>>)
  /\ changed' = {v \in Members : companion_custom_mode[v] # node[v]}
                 \cup {v \in Members : datagram # Nothing /\ datagram.from = v}
  /\ UNCHANGED <<queue, bridge, craft, node, socket, ordered, blind, reported, takeOffs, crashes>>

publishNext ==
  /\ todo # <<>> /\ wait = 0
  /\ queue' = Append(queue, Head(todo))
  /\ wait' = pause(Head(todo).kind)
  /\ todo' = Tail(todo)
  /\ UNCHANGED <<bridge, craft, node, socket, history>>

\* A vehicle on the ground, in no swarm yet, is sent up.
takeOff(kind, v) ==
  /\ takeOffs < MaxTakeOffs
  /\ v \in uav_registry \ ordered /\ craft[v].flight = "landed"
  /\ queue' = Append(queue, Message(kind, {v}))
  /\ ordered' = ordered \cup {v}
  /\ blind' = IF kind = "vtol_takeoff" /\ v \notin has_global THEN blind \cup {v} ELSE blind
  /\ disturbed' = (disturbed \/ todo # <<>>)
  /\ takeOffs' = takeOffs + 1
  /\ UNCHANGED <<todo, wait, bridge, craft, node, socket, begun, changed, reported, crashes>>

-----------------------------------------------------------------------------
(***************************************************************************)
(* Vehicles and time.                                                       *)
(***************************************************************************)
Reads(c) == c.mode = "internal" /\ (c.management \/ c.slot # Nothing)
Busy(v) == Reads(craft[v]) \/ craft[v].flight = "arming" \/ socket[v] # <<>>

\* One loop of PX4. The swarm task reads the last message of each topic; the
\* leader leaves for Hold.
loop(v) ==
  LET c     == craft[v]
      flies == IF c.flight = "arming" THEN "armed" ELSE c.flight
      read  == [c EXCEPT !.management = FALSE, !.slot = Nothing, !.flight = flies,
                         !.configured = @ \/ c.management,
                         !.slots = @ \cup ({c.slot} \ {Nothing}),
                         !.mode = IF c.management /\ v = Leader THEN "Other" ELSE @]
  IN  /\ Reads(c) \/ c.flight = "arming"
      /\ craft' = [craft EXCEPT ![v] = IF Reads(c) THEN read ELSE [c EXCEPT !.flight = flies]]
      /\ UNCHANGED <<todo, wait, queue, bridge, node, socket, history>>

\* The node takes one datagram; while another mode is flown it is dropped.
pollMavlink(v) ==
  LET c     == craft[v]
      m     == Head(socket[v])
      taken == [c EXCEPT !.configured = @ \/ m.kind = "management",
                         !.slots = @ \cup ({m.member} \ {Nothing}),
                         !.mode = IF m.kind = "management" /\ v = Leader THEN "Other" ELSE @]
  IN  /\ socket[v] # <<>>
      /\ socket' = [socket EXCEPT ![v] = Tail(@)]
      /\ craft' = [craft EXCEPT ![v] = IF node[v] \in CustomMode /\ c.mode = node[v]
                                       THEN taken ELSE c]
      /\ UNCHANGED <<todo, wait, queue, bridge, node, history>>

startNode(v) ==
  /\ node[v] = Down
  /\ node' = [node EXCEPT ![v] = NoMode]
  /\ UNCHANGED <<todo, wait, queue, bridge, craft, socket, history>>

registerNode(v, m) ==
  /\ node[v] = NoMode
  /\ node' = [node EXCEPT ![v] = m]
  /\ UNCHANGED <<todo, wait, queue, bridge, craft, socket, history>>

\* PX4 leaves the mode of a node that died; the next one may get another mode.
crash(v) ==
  /\ node[v] \in CustomMode \cup {NoMode} /\ crashes < MaxCrashes
  /\ node' = [node EXCEPT ![v] = Down]
  /\ socket' = [socket EXCEPT ![v] = <<>>]
  /\ craft' = [craft EXCEPT ![v].mode = IF @ = node[v] THEN "Other" ELSE @]
  /\ changed' = changed \cup {v}
  /\ crashes' = crashes + 1
  /\ UNCHANGED <<todo, wait, queue, bridge, begun, disturbed, ordered, blind, reported, takeOffs>>

\* 150 ms pass when nothing can be done sooner.
tick ==
  /\ asleep > 0 \/ (callback = <<>> /\ queue = <<>>)
  /\ ~(todo # <<>> /\ wait = 0)
  /\ \A v \in Vehicle : ~Busy(v)
  /\ datagram = Nothing
  /\ wait > 0 \/ asleep > 0
  /\ wait' = IF wait > 0 THEN wait - 1 ELSE 0
  /\ asleep' = IF asleep > 0 THEN asleep - 1 ELSE 0
  /\ UNCHANGED <<todo, queue, callback, uav_registry, companion_registry, has_global,
                 companion_custom_mode, datagram, craft, node, socket, history>>

Init ==
  /\ todo = <<>> /\ wait = 0 /\ queue = <<>>
  /\ callback = <<>> /\ asleep = 0
  /\ uav_registry = {} /\ companion_registry = {} /\ has_global = {}
  /\ companion_custom_mode = [v \in Vehicle |-> NoMode]
  /\ datagram = Nothing
  /\ craft = [v \in Vehicle |->
                [mode |-> "Other", management |-> FALSE, slot |-> Nothing, configured |-> FALSE,
                 slots |-> {}, flight |-> IF v \in Members THEN "airborne" ELSE "landed"]]
  /\ \E carriers \in Fleets : node = [v \in Vehicle |-> IF v \in carriers THEN Down ELSE Absent]
  /\ socket = [v \in Vehicle |-> <<>>]
  /\ begun = "no" /\ disturbed = FALSE /\ changed = {} /\ ordered = {} /\ blind = {} /\ reported = {}
  /\ takeOffs = 0 /\ crashes = 0

Bridge == on_message \/ wakeUp \/ handle_mavlink

Works(v) == loop(v) \/ pollMavlink(v)

Page ==
  \/ \E external \in BOOLEAN : deploySwarm(external)
  \/ publishNext
  \/ \E kind \in TakeOffs, v \in Vehicle : takeOff(kind, v)

Environment(v) ==
  discover(v) \/ locate(v) \/ discoverNode(v) \/ startNode(v) \/ crash(v) \/ \E m \in CustomMode : registerNode(v, m)

Next == Bridge \/ Page \/ tick \/ \E v \in Vehicle : Works(v) \/ Environment(v)

\* Threads run, timers run out, time passes: whatever is under way goes on.
\* Nobody has to send telemetry, start a node or press a button.
UnderWay == Bridge \/ publishNext \/ tick \/ \E v \in Vehicle : Works(v)

Fairness == WF_vars(UnderWay)

Spec == Init /\ [][Next]_vars /\ Fairness

-----------------------------------------------------------------------------
\* What an autopilot has latched, and what a node says of itself.
Craft == [mode : {"Other", "internal"} \cup CustomMode, management : BOOLEAN,
          slot : Members \cup {Nothing}, configured : BOOLEAN, slots : SUBSET Members,
          flight : {"landed", "arming", "armed", "airborne"}]
Heartbeat == [from : Vehicle, custom_mode : CustomMode \cup {NoMode}]

\* Type invariant. A message is about a member, if about anybody; the order to
\* take off is cut before anything of it is sent, so none comes to a vehicle
\* whole; a node is sent configurations only. The mode and the address of a node
\* are entered under two locks: a vehicle whose node has a mode can also be sent
\* its slots.
BridgeTypeOK ==
  /\ todo \in Seq(Post(Scripted)) /\ wait \in 0..10
  /\ queue \in Seq(Post(Scripted \cup Ordered))
  /\ callback \in Seq(Post(Scripted \cup Commands)) /\ asleep \in 0..SleepTicks
  /\ socket \in [Vehicle -> Seq(Post(Configurations))]
  /\ uav_registry \subseteq Vehicle /\ companion_registry \subseteq Vehicle
  /\ has_global \subseteq uav_registry
  /\ companion_custom_mode \in [Vehicle -> CustomMode \cup {NoMode}]
  /\ datagram # Nothing => datagram \in Heartbeat /\ datagram.from \in companion_registry
  /\ \A v \in Vehicle : companion_custom_mode[v] # NoMode => v \in companion_registry
  /\ craft \in [Vehicle -> Craft]
  /\ node \in [Vehicle -> CustomMode \cup {NoMode, Down, Absent}]
  /\ changed \subseteq Vehicle /\ ordered \subseteq Vehicle
  /\ blind \subseteq ordered /\ reported \subseteq Vehicle
  /\ takeOffs \in 0..MaxTakeOffs /\ crashes \in 0..MaxCrashes

Formed(v) ==
  craft[v].configured /\ craft[v].slots = Members /\ craft[v].mode \notin {"Other"}

\* The pauses of the script are long enough: a follower has every slot in the
\* end. In the external mode that is so whatever else the bridge has to send,
\* if the node lives; in the internal mode, if no take-off was ordered.
EveryDeploymentForms ==
  begun # "no" ~>
    /\ todo = <<>>
    /\ \A v \in Members \ {Leader} :
         \/ Formed(v)
         \/ begun = "internal" /\ disturbed
         \/ begun = "external" /\ v \in changed

\* "Arm first": the pause between the two commands is long enough to arm, also
\* when several take-offs and a script wait for the same thread. A VTOL whose
\* position was unknown when it was ordered may stay on the ground, and then the
\* page is told so; no other is refused, and nobody flies who was reported.
EveryTakeOffFlies ==
  ordered # {} ~>
    \A v \in ordered :
      IF v \in reported THEN v \in blind /\ craft[v].flight # "airborne"
                        ELSE craft[v].flight = "airborne"

(***************************************************************************)
(* A promise of a comment that the code does not keep; a run shows how.      *)
(***************************************************************************)
\* "spaced out because the uORB topics have a queue of 1": no slot takes the
\* place of one that the vehicle has not read.
SlotsAreSpaced ==
  [][\A v \in Vehicle :
       craft[v].mode = "internal" /\ craft[v].slot # Nothing =>
         craft'[v].slot \in {Nothing, craft[v].slot}]_vars
=============================================================================
