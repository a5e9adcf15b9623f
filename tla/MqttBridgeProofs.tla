-------------------------- MODULE MqttBridgeProofs --------------------------
(***************************************************************************)
(* Proofs about the bridge, for any fleet, any swarm and any number of       *)
(* take-offs and crashes: what waits in each place where messages wait is of  *)
(* the kinds that may come there. No order the bridge has to cut into         *)
(* commands is ever sent whole, and no node is sent a command.                *)
(***************************************************************************)
EXTENDS MqttBridge, TLAPS

-----------------------------------------------------------------------------
\* Members of the swarm are vehicles.
LEMMA MembersAreVehicles == Members \subseteq Vehicle
  BY BridgeAssumption

\* Taking the first message and adding one keep a queue's type.
LEMMA HeadTailAppend ==
  ASSUME NEW S, NEW s \in Seq(S)
  PROVE  /\ s # <<>> => Head(s) \in S /\ Tail(s) \in Seq(S)
         /\ \A m \in S : Append(s, m) \in Seq(S)
OBVIOUS

\* More kinds, more posts.
LEMMA PostsGrow ==
  ASSUME NEW A, NEW B, A \subseteq B
  PROVE  Post(A) \subseteq Post(B)
BY DEF Post

\* A deployment is a sequence of scripted messages.
LEMMA ScriptType ==
  ASSUME NEW external \in BOOLEAN
  PROVE  deployScript(external) \in Seq(Post(Scripted))
<1> DEFINE S == Post(Scripted)
           mode == Message(IF external THEN "external" ELSE "internal", Members)
           management == Message("management", Members)
           nodes == [i \in 1..Len(Order) |-> SwarmNode(Order[i])]
<1>1. mode \in S /\ management \in S
  BY MembersAreVehicles DEF Message, Post, Scripted
<1>2. \A i \in 1..Len(Order) : SwarmNode(Order[i]) \in S
  BY MembersAreVehicles DEF SwarmNode, Post, Scripted, Members
<1>3. Len(Order) \in Nat
  BY BridgeAssumption
<1>4. nodes \in Seq(S)
  BY <1>2, <1>3
<1>5. deployScript(external) = <<mode, management>> \o nodes
  BY DEF deployScript
<1> HIDE DEF S, mode, management, nodes
<1>6. <<mode, management>> \in Seq(S)
  BY <1>1
<1>7. deployScript(external) \in Seq(S)
  BY <1>4, <1>5, <1>6
<1> QED
  BY <1>7 DEF S

\* The pauses of a script are bounded.
LEMMA PauseType ==
  ASSUME NEW kind \in Scripted
  PROVE  pause(kind) \in 0..10
BY DEF pause, Scripted

\* What is sent in one go are commands and configurations, at least one.
LEMMA BurstsType ==
  ASSUME NEW m \in Post(Scripted \cup Ordered)
  PROVE  /\ bursts(m) \in Seq(Post(Scripted \cup Commands))
         /\ bursts(m) # <<>>
<1> DEFINE S == Post(Scripted \cup Commands)
<1>1. Message("arm", m.ids) \in S /\ Message("takeoff", m.ids) \in S /\ Message("param", m.ids) \in S
      /\ Message("nav_vtol", m.ids) \in S
  BY DEF Message, Post, Commands
<1>2. m.kind \notin Ordered => m \in S
  BY DEF Post
<1> HIDE DEF S
<1>3. CASE m.kind = "takeoff"
  BY <1>1, <1>3 DEF bursts, S
<1>4. CASE m.kind = "vtol_takeoff"
  BY <1>1, <1>4 DEF bursts, S
<1>5. CASE m.kind \notin Ordered
  <2>1. bursts(m) = <<m>>
    BY <1>5 DEF bursts, Ordered
  <2>2. <<m>> \in Seq(S) /\ <<m>> # <<>>
    BY <1>2, <1>5
  <2> QED
    BY <2>1, <2>2 DEF S
<1> QED
  BY <1>3, <1>4, <1>5 DEF Ordered

\* A command or a configuration leaves an autopilot in a state it can be in.
LEMMA ToldType ==
  ASSUME BridgeTypeOK, NEW v \in Vehicle, NEW m \in Post(Scripted \cup Commands)
  PROVE  told(v, craft[v], m) \in Craft
<1>1. craft[v] \in Craft /\ m.member \in Members \cup {Nothing}
  BY DEF BridgeTypeOK, Post
<1>2. companion_custom_mode[v] # NoMode /\ companion_custom_mode[v] = node[v] => node[v] \in CustomMode
  BY DEF BridgeTypeOK
<1>3. selected(v, craft[v]) \in Craft
  BY <1>1, <1>2 DEF selected, Craft
<1>4. m.kind \in Scripted \cup Commands
  BY DEF Post
<1>5. /\ [craft[v] EXCEPT !.mode = "internal"] \in Craft
      /\ [craft[v] EXCEPT !.management = TRUE] \in Craft
      /\ [craft[v] EXCEPT !.slot = m.member] \in Craft
      /\ [craft[v] EXCEPT !.flight = IF @ = "landed" THEN "arming" ELSE @] \in Craft
      /\ [craft[v] EXCEPT !.flight = IF @ = "armed" THEN "airborne" ELSE @] \in Craft
  BY <1>1 DEF Craft
<1> QED
  BY <1>1, <1>3, <1>4, <1>5 DEF told, Scripted, Commands

-----------------------------------------------------------------------------
\* At first nothing is on its way.
LEMMA InitType == Init => BridgeTypeOK
<1> SUFFICES ASSUME Init PROVE BridgeTypeOK
  OBVIOUS
<1>1. craft \in [Vehicle -> Craft]
  BY DEF Init, Craft
<1>2. node \in [Vehicle -> CustomMode \cup {NoMode, Down, Absent}]
  BY DEF Init
<1>3. takeOffs \in 0..MaxTakeOffs /\ crashes \in 0..MaxCrashes
  BY BridgeAssumption DEF Init
<1> QED
  BY <1>1, <1>2, <1>3 DEF Init, BridgeTypeOK, SleepTicks

\* One burst of the MQTT thread.
LEMMA ContinueKeeps ==
  ASSUME BridgeTypeOK, NEW rest \in Seq(Post(Scripted \cup Commands)), rest # <<>>, continue(rest),
         queue' \in Seq(Post(Scripted \cup Ordered))
  PROVE  BridgeTypeOK'
<1> DEFINE m == Head(rest)
<1>1. m \in Post(Scripted \cup Commands) /\ Tail(rest) \in Seq(Post(Scripted \cup Commands))
  BY HeadTailAppend
<1>2. /\ send(m) /\ callback' = Tail(rest)
      /\ asleep' = IF Len(rest) > 1 THEN SleepTicks ELSE 0
  BY DEF continue
<1> HIDE DEF m
<1>3. craft' \in [Vehicle -> Craft]
  <2>1. \A v \in Vehicle : told(v, craft[v], m) \in Craft /\ craft[v] \in Craft
    BY <1>1, ToldType DEF BridgeTypeOK
  <2> QED
    BY <1>2, <2>1 DEF send
<1>4. socket' \in [Vehicle -> Seq(Post(Configurations))]
  <2> DEFINE S == Seq(Post(Configurations))
             addressed(v) == v \in m.ids \cap companion_registry /\ m.kind \in Configurations
  <2>1. socket' = [v \in Vehicle |-> IF addressed(v) THEN Append(socket[v], m) ELSE socket[v]]
    BY <1>2 DEF send
  <2>2. ASSUME NEW v \in Vehicle
        PROVE  socket[v] \in S /\ (addressed(v) => Append(socket[v], m) \in S)
    <3>1. addressed(v) => m \in Post(Configurations)
      BY <1>1 DEF Post
    <3>2. socket[v] \in Seq(Post(Configurations))
      BY DEF BridgeTypeOK
    <3> QED
      BY <3>1, <3>2, HeadTailAppend
  <2> HIDE DEF S, addressed
  <2>3. socket' \in [Vehicle -> S]
    BY <2>1, <2>2
  <2> QED
    BY <2>3 DEF S
<1>5. asleep' \in 0..SleepTicks
  BY <1>2 DEF SleepTicks
<1>6. reported' \subseteq Vehicle
  BY <1>1, <1>2 DEF send, Refused, Post, BridgeTypeOK
<1>7. /\ UNCHANGED <<uav_registry, companion_registry, has_global, companion_custom_mode, datagram>>
      /\ UNCHANGED <<todo, wait, node, begun, disturbed, changed, ordered, blind, takeOffs, crashes>>
  BY DEF continue
<1> QED
  BY <1>1, <1>2, <1>3, <1>4, <1>5, <1>6, <1>7 DEF BridgeTypeOK

\* The bridge takes a message, sends and sleeps.
LEMMA BridgeKeeps == BridgeTypeOK /\ Bridge => BridgeTypeOK'
<1> SUFFICES ASSUME BridgeTypeOK, Bridge PROVE BridgeTypeOK'
  OBVIOUS
<1>1. CASE on_message
  <2>1. Head(queue) \in Post(Scripted \cup Ordered) /\ Tail(queue) \in Seq(Post(Scripted \cup Ordered))
    BY <1>1, HeadTailAppend DEF on_message, BridgeTypeOK
  <2> QED
    BY <1>1, <2>1, BurstsType, ContinueKeeps DEF on_message
<1>2. CASE wakeUp
  BY <1>2, ContinueKeeps DEF wakeUp, BridgeTypeOK
<1>3. CASE handle_mavlink
  <2>1. datagram \in Heartbeat /\ datagram.from \in companion_registry
    BY <1>3 DEF handle_mavlink, BridgeTypeOK
  <2>2. companion_custom_mode' = [companion_custom_mode EXCEPT ![datagram.from] = datagram.custom_mode]
    BY <1>3 DEF handle_mavlink
  <2>3. companion_custom_mode' \in [Vehicle -> CustomMode \cup {NoMode}]
    BY <2>1, <2>2 DEF BridgeTypeOK, Heartbeat
  <2>4. \A v \in Vehicle : companion_custom_mode'[v] # NoMode => v \in companion_registry
    BY <2>1, <2>2 DEF BridgeTypeOK, Heartbeat
  <2> QED
    BY <1>3, <2>3, <2>4 DEF handle_mavlink, BridgeTypeOK, history
<1> QED
  BY <1>1, <1>2, <1>3 DEF Bridge

\* The page runs a script or gives an order.
LEMMA PageKeeps == BridgeTypeOK /\ Page => BridgeTypeOK'
<1> SUFFICES ASSUME BridgeTypeOK, Page PROVE BridgeTypeOK'
  OBVIOUS
<1>1. ASSUME NEW external \in BOOLEAN, deploySwarm(external) PROVE BridgeTypeOK'
  <2>1. todo' \in Seq(Post(Scripted))
    BY <1>1, ScriptType DEF deploySwarm
  <2>2. changed' \subseteq Vehicle
    BY <1>1, MembersAreVehicles DEF deploySwarm
  <2>3. wait' \in 0..10
    BY <1>1 DEF deploySwarm
  <2>4. /\ UNCHANGED <<queue, callback, asleep, socket, uav_registry, companion_registry>>
        /\ UNCHANGED <<has_global, companion_custom_mode, datagram, craft, node>>
        /\ UNCHANGED <<ordered, blind, reported, takeOffs, crashes>>
    BY <1>1 DEF deploySwarm, bridge
  <2> QED
    BY <2>1, <2>2, <2>3, <2>4 DEF BridgeTypeOK
<1>2. CASE publishNext
  <2>1. Head(todo) \in Post(Scripted) /\ todo' \in Seq(Post(Scripted))
    BY <1>2, HeadTailAppend DEF publishNext, BridgeTypeOK
  <2>2. wait' \in 0..10
    BY <1>2, <2>1, PauseType DEF publishNext, Post
  <2>3. queue' \in Seq(Post(Scripted \cup Ordered))
    <3>1. Head(todo) \in Post(Scripted \cup Ordered)
      BY <2>1, PostsGrow
    <3> QED
      BY <1>2, <3>1, HeadTailAppend DEF publishNext, BridgeTypeOK
  <2> QED
    BY <1>2, <2>1, <2>2, <2>3 DEF publishNext, bridge, history, BridgeTypeOK
<1>3. ASSUME NEW kind \in TakeOffs, NEW v \in Vehicle, takeOff(kind, v) PROVE BridgeTypeOK'
  <2>1. Message(kind, {v}) \in Post(Scripted \cup Ordered)
    BY BridgeAssumption DEF Message, Post, Ordered
  <2>2. queue' \in Seq(Post(Scripted \cup Ordered))
    BY <1>3, <2>1, HeadTailAppend DEF takeOff, BridgeTypeOK
  <2>3. takeOffs' \in 0..MaxTakeOffs
    BY <1>3, BridgeAssumption DEF takeOff, BridgeTypeOK
  <2>4. blind' \subseteq ordered' /\ ordered' \subseteq Vehicle
    BY <1>3 DEF takeOff, BridgeTypeOK
  <2> QED
    BY <1>3, <2>2, <2>3, <2>4 DEF takeOff, bridge, BridgeTypeOK
<1> QED
  BY <1>1, <1>2, <1>3 DEF Page

\* Nodes and autopilots.
LEMMA WorksKeeps ==
  ASSUME BridgeTypeOK, NEW v \in Vehicle, Works(v)
  PROVE  BridgeTypeOK'
<1> DEFINE c == craft[v]
<1>0. c \in Craft
  BY DEF BridgeTypeOK
<1>1. CASE loop(v)
  <2> DEFINE flies == IF c.flight = "arming" THEN "armed" ELSE c.flight
             read == [c EXCEPT !.management = FALSE, !.slot = Nothing, !.flight = flies,
                               !.configured = @ \/ c.management,
                               !.slots = @ \cup ({c.slot} \ {Nothing}),
                               !.mode = IF c.management /\ v = Leader THEN "Other" ELSE @]
  <2>1. read \in Craft /\ [c EXCEPT !.flight = flies] \in Craft
    BY <1>0 DEF Craft
  <2>2. craft' = [craft EXCEPT ![v] = IF Reads(c) THEN read ELSE [c EXCEPT !.flight = flies]]
    BY <1>1 DEF loop
  <2> HIDE DEF c, flies, read
  <2>3. craft' \in [Vehicle -> Craft]
    BY <2>1, <2>2 DEF BridgeTypeOK, c
  <2> QED
    BY <1>1, <2>3 DEF loop, bridge, history, BridgeTypeOK
<1>2. CASE pollMavlink(v)
  <2> DEFINE m == Head(socket[v])
             taken == [c EXCEPT !.configured = @ \/ m.kind = "management",
                                !.slots = @ \cup ({m.member} \ {Nothing}),
                                !.mode = IF m.kind = "management" /\ v = Leader THEN "Other" ELSE @]
  <2>1. m \in Post(Configurations) /\ Tail(socket[v]) \in Seq(Post(Configurations))
    BY <1>2, HeadTailAppend DEF pollMavlink, BridgeTypeOK
  <2>2. m.member \in Members \cup {Nothing}
    BY <2>1 DEF Post
  <2>3. /\ socket' = [socket EXCEPT ![v] = Tail(@)]
        /\ craft' = [craft EXCEPT ![v] = IF node[v] \in CustomMode /\ c.mode = node[v]
                                         THEN taken ELSE c]
    BY <1>2 DEF pollMavlink
  <2> HIDE DEF m
  <2>4. taken \in Craft
    BY <1>0, <2>2 DEF Craft
  <2> HIDE DEF c, taken
  <2>5. craft' \in [Vehicle -> Craft]
    BY <1>0, <2>3, <2>4 DEF BridgeTypeOK
  <2>6. socket' \in [Vehicle -> Seq(Post(Configurations))]
    BY <2>1, <2>3 DEF BridgeTypeOK
  <2> QED
    BY <1>2, <2>5, <2>6 DEF pollMavlink, bridge, history, BridgeTypeOK
<1> QED
  BY <1>1, <1>2 DEF Works

\* Crashes, reconnections and other faults.
LEMMA EnvironmentKeeps ==
  ASSUME BridgeTypeOK, NEW v \in Vehicle, Environment(v)
  PROVE  BridgeTypeOK'
<1>1. CASE discover(v)
  BY <1>1 DEF discover, history, BridgeTypeOK
<1>6. CASE locate(v)
  BY <1>6 DEF locate, history, BridgeTypeOK
<1>2. CASE discoverNode(v)
  <2>1. datagram' \in Heartbeat /\ datagram'.from \in companion_registry'
    BY <1>2 DEF discoverNode, Heartbeat
  <2> QED
    BY <1>2, <2>1 DEF discoverNode, history, BridgeTypeOK
<1>3. CASE startNode(v)
  BY <1>3 DEF startNode, bridge, history, BridgeTypeOK
<1>4. CASE crash(v)
  <2>1. craft' \in [Vehicle -> Craft]
    <3> DEFINE left == IF craft[v].mode = node[v] THEN "Other" ELSE craft[v].mode
    <3>1. craft[v] \in Craft
      BY DEF BridgeTypeOK
    <3>2. left \in {"Other", "internal"} \cup CustomMode
      BY <3>1 DEF Craft
    <3>3. craft' = [craft EXCEPT ![v].mode = left]
      BY <1>4 DEF crash
    <3> HIDE DEF left
    <3>4. [craft[v] EXCEPT !.mode = left] \in Craft
      BY <3>1, <3>2 DEF Craft
    <3> QED
      BY <3>3, <3>4 DEF BridgeTypeOK
  <2>2. socket' \in [Vehicle -> Seq(Post(Configurations))]
    <3>1. <<>> \in Seq(Post(Configurations)) /\ socket' = [socket EXCEPT ![v] = <<>>]
      BY <1>4 DEF crash
    <3> QED
      BY <3>1 DEF BridgeTypeOK
  <2>3. crashes' \in 0..MaxCrashes /\ changed' \subseteq Vehicle
    BY <1>4, BridgeAssumption DEF crash, BridgeTypeOK
  <2> QED
    BY <1>4, <2>1, <2>2, <2>3 DEF crash, bridge, BridgeTypeOK
<1>5. ASSUME NEW m \in CustomMode, registerNode(v, m) PROVE BridgeTypeOK'
  BY <1>5 DEF registerNode, bridge, history, BridgeTypeOK
<1> QED
  BY <1>1, <1>2, <1>3, <1>4, <1>5, <1>6 DEF Environment

\* Time passes.
LEMMA TickKeeps == BridgeTypeOK /\ tick => BridgeTypeOK'
<1> SUFFICES ASSUME BridgeTypeOK, tick PROVE BridgeTypeOK'
  OBVIOUS
<1>1. wait' \in 0..10 /\ asleep' \in 0..SleepTicks
  BY DEF tick, BridgeTypeOK, SleepTicks
<1> QED
  BY <1>1 DEF tick, history, BridgeTypeOK

\* Every variable keeps its type, and a vehicle whose node has a mode can also
\* be sent its slots.
THEOREM BridgeTypeCorrect == Spec => []BridgeTypeOK
<1>1. BridgeTypeOK /\ [Next]_vars => BridgeTypeOK'
  <2> SUFFICES ASSUME BridgeTypeOK, [Next]_vars PROVE BridgeTypeOK'
    OBVIOUS
  <2>1. CASE UNCHANGED vars
    BY <2>1 DEF vars, bridge, history, BridgeTypeOK
  <2> QED
    BY <2>1, BridgeKeeps, PageKeeps, WorksKeeps, EnvironmentKeeps, TickKeeps DEF Next
<1> QED
  BY InitType, <1>1, PTL DEF Spec
=============================================================================
