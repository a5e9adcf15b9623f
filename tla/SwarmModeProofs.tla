--------------------------- MODULE SwarmModeProofs ---------------------------
(***************************************************************************)
(* The ROS 2 node keeps its formation sound, and all it flies by is of this  *)
(* activation, the leader's course as soon as the leader is heard, for any   *)
(* set of vehicles, any datagrams and any length of the socket's queue.     *)
(***************************************************************************)
EXTENDS SwarmMode, SwarmFormationProofs

\* The part of FormationStartsFromScratch that is about v.
FromScratch(v) ==
  /\ \A n \in Node :
       /\ formation[v].nodes[n] # NoSlot => <<n, formation[v].nodes[n]>> \in heard[v]
       /\ formation[v].pending[n] # NoSlot => <<n, formation[v].pending[n]>> \in heard[v]
       /\ n \in formation[v].located => <<n, "position">> \in heard[v]
  /\ velocity[v] # NoNode => <<velocity[v], "position">> \in heard[v]
  /\ reference[v].z # v => <<reference[v].z, "position">> \in heard[v]
  /\ reference[v].yaw # v => <<reference[v].yaw, "attitude">> \in heard[v]
  /\ course[v].valid => <<course[v].of, "position">> \in heard[v]
  /\ velocity[v] # NoNode => OfThisActivation(v, course[v].of)

\* The inductive invariant.
ModeIInv ==
  /\ ModeTypeOK
  /\ \A v \in Ros2 : Sound(formation[v], v)
  /\ \A v \in Ros2 : active[v] => FromScratch(v)

-----------------------------------------------------------------------------
\* No handler makes a slot up: what is listed afterwards was listed or pending
\* before, or is the slot of the message.
LEMMA ManagementInvents ==
  ASSUME NEW f \in Formation, NEW m \in Management
  PROVE  /\ \A n \in Node : onManagement(f, m).nodes[n] \in {NoSlot, f.nodes[n]}
         /\ \A n \in Node : onManagement(f, m).pending[n] = NoSlot
         /\ onManagement(f, m).located \subseteq f.located
<1> DEFINE g == onManagement(f, m)
<1>1. /\ g.nodes \in {f.nodes, EmptyList} /\ g.pending = EmptyList
      /\ g.located \in {f.located, {}}
  BY ManagementFields
<1> HIDE DEF g
<1>2. \A n \in Node : EmptyList[n] = NoSlot
  BY DEF EmptyList
<1>3. /\ \A n \in Node : g.nodes[n] \in {NoSlot, f.nodes[n]}
      /\ \A n \in Node : g.pending[n] = NoSlot
      /\ g.located \subseteq f.located
  BY <1>1, <1>2
<1> QED
  BY <1>3 DEF g

LEMMA UpsertInvents ==
  ASSUME NEW list \in List, NEW m \in NodeMessage, NEW n \in Node
  PROVE  \/ upsertNode(list, m.node, m.slot)[n] = list[n]
         \/ n = m.node /\ upsertNode(list, m.node, m.slot)[n] = m.slot
BY DEF upsertNode, List, NodeMessage

LEMMA NodeInvents ==
  ASSUME NEW own \in Node, NEW f \in Formation, NEW m \in NodeMessage
  PROVE  /\ \A n \in Node : \/ onNode(f, m, own).nodes[n] \in {NoSlot, f.nodes[n], f.pending[n]}
                            \/ n = m.node /\ onNode(f, m, own).nodes[n] = m.slot
         /\ \A n \in Node : \/ onNode(f, m, own).pending[n] \in {NoSlot, f.pending[n]}
                            \/ n = m.node /\ onNode(f, m, own).pending[n] = m.slot
         /\ onNode(f, m, own).located \subseteq f.located
<1> DEFINE g == onNode(f, m, own)
           longer == upsertNode(f.nodes, m.node, m.slot)
           further == upsertNode(f.pending, m.node, m.slot)
<1>1. /\ g.nodes \in {f.nodes, longer, further}
      /\ g.pending \in {f.pending, EmptyList, further}
      /\ g.located \subseteq f.located
  <2>1. CASE ~f.updating
    BY <2>1, CollectNodeFields DEF onNode
  <2>2. CASE f.updating /\ m.swarm = f.swarm
    <3>1. g = collectPending(f, m, own)
      BY <2>2 DEF onNode
    <3> HIDE DEF g
    <3> QED
      BY <3>1, CollectPendingFields
  <2>3. CASE f.updating /\ m.swarm # f.swarm
    BY <2>3 DEF onNode
  <2> QED
    BY <2>1, <2>2, <2>3
<1>2. f.nodes \in List /\ f.pending \in List
  BY DEF Formation
<1>3. \A n \in Node : /\ longer[n] = f.nodes[n] \/ (n = m.node /\ longer[n] = m.slot)
                      /\ further[n] = f.pending[n] \/ (n = m.node /\ further[n] = m.slot)
                      /\ EmptyList[n] = NoSlot
  BY <1>2, UpsertInvents DEF EmptyList
<1> HIDE DEF g, longer, further
<1>4. /\ \A n \in Node : \/ g.nodes[n] \in {NoSlot, f.nodes[n], f.pending[n]}
                         \/ n = m.node /\ g.nodes[n] = m.slot
      /\ \A n \in Node : \/ g.pending[n] \in {NoSlot, f.pending[n]}
                         \/ n = m.node /\ g.pending[n] = m.slot
  BY <1>1, <1>3
<1> QED
  BY <1>1, <1>4 DEF g

-----------------------------------------------------------------------------
LEMMA PacketKinds ==
  ASSUME NEW packet \in Packet
  PROVE  /\ packet.kind = "management" => packet.message \in Management
         /\ packet.kind = "node" => packet.message \in NodeMessage
         /\ packet.kind = "position" => packet.message \in PositionMessage
         /\ packet.kind = "attitude" => packet.message \in Node
BY DEF Packet

LEMMA PacketsArePackets == PacketsSent \subseteq Packet
BY ModeSentAssumption DEF PacketsSent, Packet

\* A step that gives v's formation another sound value.
LEMMA FormationChanges ==
  ASSUME ModeIInv, NEW v \in Ros2, NEW g, Sound(g, v),
         formation' = [formation EXCEPT ![v] = g]
  PROVE  /\ formation' \in [Ros2 -> Formation]
         /\ \A u \in Ros2 : Sound(formation'[u], u)
         /\ formation'[v] = g
         /\ \A u \in Ros2 \ {v} : formation'[u] = formation[u]
<1>1. g \in Formation /\ formation \in [Ros2 -> Formation]
  BY DEF Sound, ModeIInv, ModeTypeOK
<1>2. \A u \in Ros2 : Sound(formation[u], u)
  BY DEF ModeIInv
<1> QED
  BY <1>1, <1>2

\* A step after which only v may have something new to account for.
LEMMA OthersAsBefore ==
  ASSUME ModeIInv, NEW v \in Ros2, NEW u \in Ros2, u # v,
         active'[u] = active[u], formation'[u] = formation[u], velocity'[u] = velocity[u],
         reference'[u] = reference[u], course'[u] = course[u], heard'[u] = heard[u]
  PROVE  active'[u] => FromScratch(u)'
BY DEF ModeIInv, FromScratch, OfThisActivation
-----------------------------------------------------------------------------
(***************************************************************************)
(* The handlers, one lemma each. socket' is what take leaves.               *)
(***************************************************************************)
LEMMA HandleManagement ==
  ASSUME ModeIInv, NEW v \in Ros2, NEW m \in Management, active[v],
         socket' \in [Ros2 -> Seq(Packet)], handleSwarmManagement(v, m)
  PROVE  ModeIInv'
<1> DEFINE g == onManagement(formation[v], m)
<1>1. v \in Node /\ Sound(formation[v], v) /\ formation[v] \in Formation
  BY Ros2Assumption DEF ModeIInv, Sound
<1>2. Sound(g, v)
  BY <1>1, ManagementSound
<1>3. /\ \A n \in Node : g.nodes[n] \in {NoSlot, formation[v].nodes[n]}
      /\ \A n \in Node : g.pending[n] = NoSlot
      /\ g.located \subseteq formation[v].located
  BY <1>1, ManagementInvents
<1>4. /\ formation' = [formation EXCEPT ![v] = g]
      /\ holdAsked' = [holdAsked EXCEPT ![v] = @ \/ AsksForHold(formation[v], m, v)]
      /\ UNCHANGED <<nav, phase, active, leaderVars, output, asked, heard>>
  BY DEF handleSwarmManagement
<1> HIDE DEF g
<1>5. /\ formation' \in [Ros2 -> Formation] /\ \A u \in Ros2 : Sound(formation'[u], u)
      /\ formation'[v] = g /\ \A u \in Ros2 \ {v} : formation'[u] = formation[u]
  BY <1>2, <1>4, FormationChanges
<1>6. ModeTypeOK'
  BY <1>4, <1>5 DEF ModeIInv, ModeTypeOK, leaderVars
<1>7. FromScratch(v)'
  BY <1>3, <1>4, <1>5 DEF ModeIInv, FromScratch, OfThisActivation, leaderVars
<1>8. \A u \in Ros2 \ {v} : active'[u] => FromScratch(u)'
  BY <1>4, <1>5, OthersAsBefore DEF leaderVars
<1> QED
  BY <1>5, <1>6, <1>7, <1>8 DEF ModeIInv

LEMMA HandleNode ==
  ASSUME ModeIInv, NEW v \in Ros2, NEW m \in NodeMessage, active[v],
         socket' \in [Ros2 -> Seq(Packet)], handleSwarmNode(v, m)
  PROVE  ModeIInv'
<1> DEFINE g == onNode(formation[v], m, v)
<1>1. v \in Node /\ Sound(formation[v], v) /\ formation[v] \in Formation
  BY Ros2Assumption DEF ModeIInv, Sound
<1>2. Sound(g, v)
  BY <1>1, NodeSound
<1>3. /\ \A n \in Node : \/ g.nodes[n] \in {NoSlot, formation[v].nodes[n], formation[v].pending[n]}
                         \/ n = m.node /\ g.nodes[n] = m.slot
      /\ \A n \in Node : \/ g.pending[n] \in {NoSlot, formation[v].pending[n]}
                         \/ n = m.node /\ g.pending[n] = m.slot
      /\ g.located \subseteq formation[v].located
  BY <1>1, NodeInvents
<1>4. /\ formation' = [formation EXCEPT ![v] = g]
      /\ heard' = [heard EXCEPT ![v] = @ \cup {<<m.node, m.slot>>}]
      /\ UNCHANGED <<px4Vars, active, leaderVars, output, asked>>
  BY DEF handleSwarmNode
<1> HIDE DEF g
<1>5. /\ formation' \in [Ros2 -> Formation] /\ \A u \in Ros2 : Sound(formation'[u], u)
      /\ formation'[v] = g /\ \A u \in Ros2 \ {v} : formation'[u] = formation[u]
  BY <1>2, <1>4, FormationChanges
<1>6. /\ heard' \in [Ros2 -> SUBSET (Node \X (Slot \cup {"position", "attitude"}))]
      /\ heard'[v] = heard[v] \cup {<<m.node, m.slot>>}
      /\ \A u \in Ros2 \ {v} : heard'[u] = heard[u]
  BY <1>4 DEF ModeIInv, ModeTypeOK, NodeMessage
<1>7. ModeTypeOK'
  BY <1>4, <1>5, <1>6 DEF ModeIInv, ModeTypeOK, px4Vars, leaderVars
<1>8. FromScratch(v)'
  <2>1. FromScratch(v)
    BY DEF ModeIInv
  <2>2. UNCHANGED leaderVars
    BY <1>4
  <2>3. ASSUME NEW n \in Node
        PROVE  /\ g.nodes[n] # NoSlot => <<n, g.nodes[n]>> \in heard'[v]
               /\ g.pending[n] # NoSlot => <<n, g.pending[n]>> \in heard'[v]
               /\ n \in g.located => <<n, "position">> \in heard'[v]
    <3>1. g.nodes[n] # NoSlot => <<n, g.nodes[n]>> \in heard'[v]
      BY <1>3, <1>6, <2>1 DEF FromScratch
    <3>2. g.pending[n] # NoSlot => <<n, g.pending[n]>> \in heard'[v]
      BY <1>3, <1>6, <2>1 DEF FromScratch
    <3>3. n \in g.located => <<n, "position">> \in heard'[v]
      BY <1>3, <1>6, <2>1 DEF FromScratch
    <3> QED
      BY <3>1, <3>2, <3>3
  <2>4. velocity'[v] # NoNode => OfThisActivation(v, course[v].of)'
    BY <1>6, <2>1, <2>2 DEF FromScratch, OfThisActivation, leaderVars
  <2> QED
    BY <1>5, <1>6, <2>1, <2>2, <2>3, <2>4 DEF FromScratch, leaderVars
<1>9. \A u \in Ros2 \ {v} : active'[u] => FromScratch(u)'
  BY <1>4, <1>5, <1>6, OthersAsBefore DEF leaderVars
<1> QED
  BY <1>5, <1>7, <1>8, <1>9 DEF ModeIInv

LEMMA HandlePosition ==
  ASSUME ModeIInv, NEW v \in Ros2, NEW m \in PositionMessage, active[v],
         socket' \in [Ros2 -> Seq(Packet)], handleNeighbourPosition(v, m)
  PROVE  ModeIInv'
<1> DEFINE g == locate(formation[v], {m.node})
<1>1. /\ v \in Node /\ Sound(formation[v], v) /\ formation[v] \in Formation
      /\ m.node \in Node /\ m.fast \in BOOLEAN
  BY Ros2Assumption DEF ModeIInv, Sound, PositionMessage
<1>2. Sound(g, v)
  BY <1>1, LocateSound
<1>3. g.nodes = formation[v].nodes /\ g.pending = formation[v].pending
        /\ g.located \subseteq formation[v].located \cup {m.node}
  BY <1>1 DEF locate, Formation
<1>4. /\ formation' = [formation EXCEPT ![v] = g]
      /\ heard' = [heard EXCEPT ![v] = @ \cup {<<m.node, "position">>}]
      /\ UNCHANGED <<px4Vars, active, output, asked>>
      /\ \/ UNCHANGED leaderVars
         \/ /\ reference' = [reference EXCEPT ![v].z = m.node]
            /\ velocity' = [velocity EXCEPT ![v] = m.node]
            /\ course' = [course EXCEPT ![v] = updateLeaderCourse(@, m, reference[v])]
  BY DEF handleNeighbourPosition
<1> HIDE DEF g
<1>5. /\ formation' \in [Ros2 -> Formation] /\ \A u \in Ros2 : Sound(formation'[u], u)
      /\ formation'[v] = g /\ \A u \in Ros2 \ {v} : formation'[u] = formation[u]
  BY <1>2, <1>4, FormationChanges
<1>6. /\ heard' \in [Ros2 -> SUBSET (Node \X (Slot \cup {"position", "attitude"}))]
      /\ heard'[v] = heard[v] \cup {<<m.node, "position">>}
      /\ \A u \in Ros2 \ {v} : heard'[u] = heard[u]
  BY <1>1, <1>4 DEF ModeIInv, ModeTypeOK
<1>7. /\ reference' \in [Ros2 -> [z : Whose, yaw : Whose]]
      /\ velocity' \in [Ros2 -> Whose]
      /\ course' \in [Ros2 -> [of : Whose, valid : BOOLEAN]]
  <2>1. updateLeaderCourse(course[v], m, reference[v]) \in [of : Whose, valid : BOOLEAN]
    BY <1>1 DEF updateLeaderCourse, Whose, ModeIInv, ModeTypeOK
  <2>2. /\ reference \in [Ros2 -> [z : Whose, yaw : Whose]]
        /\ velocity \in [Ros2 -> Whose]
        /\ course \in [Ros2 -> [of : Whose, valid : BOOLEAN]]
        /\ m.node \in Whose
    BY <1>1 DEF Whose, ModeIInv, ModeTypeOK
  <2>3. CASE UNCHANGED leaderVars
    BY <2>2, <2>3 DEF leaderVars
  <2>4. CASE /\ reference' = [reference EXCEPT ![v].z = m.node]
             /\ velocity' = [velocity EXCEPT ![v] = m.node]
             /\ course' = [course EXCEPT ![v] = updateLeaderCourse(@, m, reference[v])]
    <3>1. reference' \in [Ros2 -> [z : Whose, yaw : Whose]]
      BY <2>2, <2>4
    <3>2. velocity' \in [Ros2 -> Whose]
      BY <2>2, <2>4
    <3>3. course' \in [Ros2 -> [of : Whose, valid : BOOLEAN]]
      BY <2>1, <2>2, <2>4
    <3> QED
      BY <3>1, <3>2, <3>3
  <2> QED
    BY <1>4, <2>3, <2>4
<1>8. /\ velocity'[v] \in {velocity[v], m.node} /\ reference'[v].z \in {reference[v].z, m.node}
      /\ reference'[v].yaw = reference[v].yaw
      /\ \A u \in Ros2 \ {v} : velocity'[u] = velocity[u] /\ reference'[u] = reference[u]
  BY <1>4 DEF leaderVars, ModeIInv, ModeTypeOK
<1>12. /\ course'[v].valid => course'[v].of = m.node \/ course'[v] = course[v]
       /\ \A u \in Ros2 \ {v} : course'[u] = course[u]
  BY <1>4 DEF leaderVars, updateLeaderCourse, ModeIInv, ModeTypeOK
<1>9. ModeTypeOK'
  BY <1>4, <1>5, <1>6, <1>7 DEF ModeIInv, ModeTypeOK, px4Vars
<1>10. FromScratch(v)'
  <2>1. FromScratch(v)
    BY DEF ModeIInv
  <2>2. ASSUME NEW n \in Node
        PROVE  /\ g.nodes[n] # NoSlot => <<n, g.nodes[n]>> \in heard'[v]
               /\ g.pending[n] # NoSlot => <<n, g.pending[n]>> \in heard'[v]
               /\ n \in g.located => <<n, "position">> \in heard'[v]
    BY <1>3, <1>6, <2>1 DEF FromScratch
  <2>3. velocity'[v] # NoNode => <<velocity'[v], "position">> \in heard'[v]
    BY <1>6, <1>8, <2>1 DEF FromScratch
  <2>4. reference'[v].z # v => <<reference'[v].z, "position">> \in heard'[v]
    BY <1>6, <1>8, <2>1 DEF FromScratch
  <2>5. reference'[v].yaw # v => <<reference'[v].yaw, "attitude">> \in heard'[v]
    BY <1>6, <1>8, <2>1 DEF FromScratch
  <2>6. course'[v].valid => <<course'[v].of, "position">> \in heard'[v]
    BY <1>6, <1>12, <2>1 DEF FromScratch
  <2>7. velocity'[v] # NoNode => OfThisActivation(v, course[v].of)'
    <3>1. CASE UNCHANGED leaderVars
      BY <1>6, <2>1, <3>1 DEF FromScratch, OfThisActivation, leaderVars
    <3>2. CASE course' = [course EXCEPT ![v] = updateLeaderCourse(@, m, reference[v])]
      <4>1. course'[v].of \in {m.node, reference[v].yaw}
        BY <3>2 DEF updateLeaderCourse, ModeIInv, ModeTypeOK
      <4> QED
        BY <1>6, <2>1, <4>1 DEF FromScratch, OfThisActivation
    <3> QED
      BY <1>4, <3>1, <3>2
  <2> QED
    BY <1>5, <2>2, <2>3, <2>4, <2>5, <2>6, <2>7 DEF FromScratch
<1>11. \A u \in Ros2 \ {v} : active'[u] => FromScratch(u)'
  BY <1>4, <1>5, <1>6, <1>8, <1>12, OthersAsBefore
<1> QED
  BY <1>5, <1>9, <1>10, <1>11 DEF ModeIInv

LEMMA HandleAttitude ==
  ASSUME ModeIInv, NEW v \in Ros2, NEW n \in Node, active[v],
         socket' \in [Ros2 -> Seq(Packet)], handleAttitude(v, n)
  PROVE  ModeIInv'
<1>1. /\ reference' = [reference EXCEPT ![v].yaw = n]
      /\ heard' = [heard EXCEPT ![v] = @ \cup {<<n, "attitude">>}]
      /\ UNCHANGED <<px4Vars, active, formation, velocity, course, output, asked>>
  BY DEF handleAttitude
<1>2. /\ heard' \in [Ros2 -> SUBSET (Node \X (Slot \cup {"position", "attitude"}))]
      /\ heard'[v] = heard[v] \cup {<<n, "attitude">>}
      /\ \A u \in Ros2 \ {v} : heard'[u] = heard[u]
  BY <1>1 DEF ModeIInv, ModeTypeOK
<1>3. /\ reference' \in [Ros2 -> [z : Whose, yaw : Whose]]
      /\ reference'[v].z = reference[v].z /\ reference'[v].yaw = n
      /\ \A u \in Ros2 \ {v} : reference'[u] = reference[u]
  <2>1. reference \in [Ros2 -> [z : Whose, yaw : Whose]] /\ n \in Whose
    BY DEF Whose, ModeIInv, ModeTypeOK
  <2> QED
    BY <1>1, <2>1
<1>4. ModeTypeOK'
  BY <1>1, <1>2, <1>3 DEF ModeIInv, ModeTypeOK, px4Vars
<1>5. FromScratch(v)'
  <2>1. FromScratch(v)
    BY DEF ModeIInv
  <2>2. UNCHANGED <<formation, velocity, course>>
    BY <1>1
  <2>3. heard[v] \subseteq heard'[v] /\ <<n, "attitude">> \in heard'[v]
    BY <1>2
  <2>4. reference'[v].z # v => <<reference'[v].z, "position">> \in heard'[v]
    BY <1>3, <2>1, <2>3 DEF FromScratch
  <2>5. velocity'[v] # NoNode => OfThisActivation(v, course[v].of)'
    BY <2>1, <2>2, <2>3 DEF FromScratch, OfThisActivation
  <2> QED
    BY <1>3, <2>1, <2>2, <2>3, <2>4, <2>5 DEF FromScratch
<1>6. \A u \in Ros2 \ {v} : active'[u] => FromScratch(u)'
  BY <1>1, <1>2, <1>3, OthersAsBefore
<1> QED
  BY <1>1, <1>4, <1>5, <1>6 DEF ModeIInv

LEMMA HandleSound ==
  ASSUME ModeIInv, NEW v \in Ros2, NEW packet \in Packet,
         socket' \in [Ros2 -> Seq(Packet)], handleMessage(v, packet)
  PROVE  ModeIInv'
<1>1. CASE ignore
  BY <1>1 DEF ignore, px4Vars, leaderVars, ModeIInv, ModeTypeOK, FromScratch, OfThisActivation
<1>2. CASE sendSwarmStatus(v)
  BY <1>2 DEF sendSwarmStatus, px4Vars, leaderVars, ModeIInv, ModeTypeOK, FromScratch, OfThisActivation
<1>3. CASE active[v] /\ packet.kind = "management" /\ handleSwarmManagement(v, packet.message)
  BY <1>3, PacketKinds, HandleManagement
<1>4. CASE active[v] /\ packet.kind = "node" /\ handleSwarmNode(v, packet.message)
  BY <1>4, PacketKinds, HandleNode
<1>5. CASE active[v] /\ packet.kind = "position" /\ handleNeighbourPosition(v, packet.message)
  BY <1>5, PacketKinds, HandlePosition
<1>6. CASE active[v] /\ packet.kind = "attitude" /\ handleAttitude(v, packet.message)
  BY <1>6, PacketKinds, HandleAttitude
<1> QED
  BY <1>1, <1>2, <1>3, <1>4, <1>5, <1>6 DEF handleMessage

-----------------------------------------------------------------------------
(***************************************************************************)
(* The callbacks of the executor.                                            *)
(***************************************************************************)
LEMMA PollSound ==
  ASSUME ModeIInv, NEW v \in Ros2, pollMavlink(v)
  PROVE  ModeIInv'
<1>1. socket \in [Ros2 -> Seq(Packet)] /\ socket[v] # <<>>
  BY DEF ModeIInv, ModeTypeOK, pollMavlink
<1>2. Head(socket[v]) \in Packet /\ Tail(socket[v]) \in Seq(Packet)
  BY <1>1
<1>3. socket' \in [Ros2 -> Seq(Packet)]
  BY <1>1, <1>2 DEF pollMavlink, take
<1> QED
  BY <1>2, <1>3, HandleSound DEF pollMavlink

LEMMA ActivateSound ==
  ASSUME ModeIInv, NEW v \in Ros2, onActivate(v)
  PROVE  ModeIInv'
<1>1. v \in Node /\ formation[v] \in Formation
  BY Ros2Assumption DEF ModeIInv, ModeTypeOK
<1> DEFINE g == reset(formation[v])
<1>2. Sound(g, v)
  BY <1>1, ResetSound
<1>3. g.nodes = EmptyList /\ g.pending = EmptyList /\ g.located = {}
  BY DEF reset, NewFormation
<1>4. formation' = [formation EXCEPT ![v] = g]
  BY DEF onActivate
<1> HIDE DEF g
<1>5. /\ formation' \in [Ros2 -> Formation] /\ \A u \in Ros2 : Sound(formation'[u], u)
      /\ formation'[v] = g /\ \A u \in Ros2 \ {v} : formation'[u] = formation[u]
  BY <1>2, <1>4, FormationChanges
<1>6. /\ reference' \in [Ros2 -> [z : Whose, yaw : Whose]]
      /\ velocity' \in [Ros2 -> Whose]
      /\ course' \in [Ros2 -> [of : Whose, valid : BOOLEAN]]
      /\ reference'[v] = [z |-> v, yaw |-> v] /\ velocity'[v] = NoNode /\ ~course'[v].valid
      /\ \A u \in Ros2 \ {v} :
           velocity'[u] = velocity[u] /\ reference'[u] = reference[u] /\ course'[u] = course[u]
  BY <1>1 DEF onActivate, Whose, ModeIInv, ModeTypeOK
<1>7. /\ heard' \in [Ros2 -> SUBSET (Node \X (Slot \cup {"position", "attitude"}))]
      /\ active' \in [Ros2 -> BOOLEAN]
      /\ \A u \in Ros2 \ {v} : active'[u] = active[u] /\ heard'[u] = heard[u]
  BY DEF onActivate, ModeIInv, ModeTypeOK
<1>8. ModeTypeOK'
  BY <1>5, <1>6, <1>7 DEF onActivate, px4Vars, ModeIInv, ModeTypeOK
<1>9. FromScratch(v)'
  BY <1>3, <1>5, <1>6 DEF FromScratch, EmptyList
<1>10. \A u \in Ros2 \ {v} : active'[u] => FromScratch(u)'
  BY <1>5, <1>6, <1>7, OthersAsBefore
<1> QED
  BY <1>5, <1>8, <1>9, <1>10 DEF ModeIInv

LEMMA DeactivateSound ==
  ASSUME ModeIInv, NEW v \in Ros2, onDeactivate(v)
  PROVE  ModeIInv'
<1>1. ModeTypeOK'
  BY DEF onDeactivate, px4Vars, leaderVars, ModeIInv, ModeTypeOK
<1>2. UNCHANGED <<formation, leaderVars, heard>> /\ \A u \in Ros2 : active'[u] => active[u]
  BY DEF onDeactivate, ModeIInv, ModeTypeOK
<1> QED
  BY <1>1, <1>2 DEF ModeIInv, FromScratch, OfThisActivation, leaderVars

LEMMA SetpointType ==
  ASSUME ModeTypeOK, NEW v \in Ros2
  PROVE  setpointOf(v) \in Setpoint
<1>1. phase[v] \in {"multicopter", "fixedWing", "transition"} /\ formation[v] \in Formation
  BY DEF ModeTypeOK
<1>2. located(formation[v]) \in Offsets
  BY <1>1 DEF located, Offsets, Formation
<1>3. CASE phase[v] = "transition"
  BY <1>3 DEF setpointOf, Setpoint
<1>4. CASE phase[v] # "transition" /\ ~Flying(formation[v])
  BY <1>1, <1>4 DEF setpointOf, hold, Setpoint
<1>5. CASE phase[v] = "fixedWing" /\ Flying(formation[v])
  <2>1. course[v].of \in Whose
    BY DEF ModeTypeOK
  <2> QED
    BY <1>2, <1>5, <2>1 DEF setpointOf, updateFixedWing, Setpoint
<1>6. CASE phase[v] = "multicopter" /\ Flying(formation[v])
  BY <1>2, <1>6 DEF setpointOf, updateMulticopter, Setpoint
<1> QED
  BY <1>1, <1>3, <1>4, <1>5, <1>6

LEMMA SetpointSound ==
  ASSUME ModeIInv, NEW v \in Ros2, updateSetpoint(v)
  PROVE  ModeIInv'
<1>1. setpointOf(v) \in Setpoint
  BY SetpointType DEF ModeIInv
<1>2. output' \in [Ros2 -> Setpoint \cup {Nothing}]
  BY <1>1 DEF updateSetpoint, ModeIInv, ModeTypeOK
<1>3. ModeTypeOK'
  BY <1>2 DEF updateSetpoint, px4Vars, leaderVars, ModeIInv, ModeTypeOK
<1> QED
  BY <1>3 DEF updateSetpoint, leaderVars, ModeIInv, FromScratch, OfThisActivation

-----------------------------------------------------------------------------
(***************************************************************************)
(* What happens around the node, and the induction.                          *)
(***************************************************************************)
LEMMA OuterSound ==
  ASSUME ModeIInv, NEW v \in Ros2, Outer(v)
  PROVE  ModeIInv'
<1>1. UNCHANGED <<active, formation, leaderVars, output, heard>>
  BY DEF Outer, EnterHold, SetMode, Transition, arrive
<1>2. CASE EnterHold(v)
  BY <1>2 DEF EnterHold, leaderVars, ModeIInv, ModeTypeOK, FromScratch, OfThisActivation
<1>3. ASSUME NEW mode \in {"Swarm", "Other"}, SetMode(v, mode) PROVE ModeIInv'
  BY <1>3 DEF SetMode, leaderVars, ModeIInv, ModeTypeOK, FromScratch, OfThisActivation
<1>4. ASSUME NEW p \in Phases, Transition(v, p) PROVE ModeIInv'
  BY <1>4, PhasesAssumption DEF Transition, leaderVars, ModeIInv, ModeTypeOK, FromScratch, OfThisActivation
<1>5. ASSUME NEW packet \in PacketsSent, arrive(v, packet) PROVE ModeIInv'
  <2>1. packet \in Packet /\ socket \in [Ros2 -> Seq(Packet)]
    BY PacketsArePackets DEF ModeIInv, ModeTypeOK
  <2>2. socket' \in [Ros2 -> Seq(Packet)]
    BY <1>5, <2>1 DEF arrive
  <2>3. asked' \in [Ros2 -> BOOLEAN]
    BY <1>5 DEF arrive, ModeIInv, ModeTypeOK
  <2>4. UNCHANGED px4Vars
    BY <1>5 DEF arrive
  <2> QED
    BY <1>1, <2>2, <2>3, <2>4 DEF px4Vars, leaderVars, ModeIInv, ModeTypeOK, FromScratch, OfThisActivation
<1> QED
  BY <1>2, <1>3, <1>4, <1>5 DEF Outer

LEMMA ModeInitSound == ModeInit => ModeIInv
<1> SUFFICES ASSUME ModeInit PROVE ModeIInv
  OBVIOUS
<1>1. \A v \in Ros2 : Sound(NewFormation, v) /\ NewFormation \in Formation
  BY Ros2Assumption, NewFormationSound DEF Sound
<1>2. formation \in [Ros2 -> Formation] /\ \A v \in Ros2 : Sound(formation[v], v)
  BY <1>1 DEF ModeInit
<1>3. socket \in [Ros2 -> Seq(Packet)]
  BY DEF ModeInit
<1>4. ModeTypeOK
  BY <1>2, <1>3, PhasesAssumption DEF ModeInit, ModeTypeOK, Whose
<1> QED
  BY <1>2, <1>4 DEF ModeInit, ModeIInv

LEMMA ModeStepSound == ModeIInv /\ [ModeNext]_modeVars => ModeIInv'
<1> SUFFICES ASSUME ModeIInv, [ModeNext]_modeVars PROVE ModeIInv'
  OBVIOUS
<1>1. CASE ModeNext
  <2>1. PICK v \in Ros2 : Executor(v) \/ Outer(v)
    BY <1>1 DEF ModeNext
  <2> QED
    BY <2>1, PollSound, ActivateSound, DeactivateSound, SetpointSound, OuterSound DEF Executor
<1>2. CASE UNCHANGED modeVars
  BY <1>2 DEF modeVars, px4Vars, leaderVars, ModeIInv, ModeTypeOK, FromScratch, OfThisActivation
<1> QED
  BY <1>1, <1>2

LEMMA ModeInductive == ModeSpec => []ModeIInv
BY ModeInitSound, ModeStepSound, PTL DEF ModeSpec

\* The node's bookkeeping, its setpoints and what waits in its socket are what
\* swarm_mode.hpp declares them to be.
THEOREM ModeTypeCorrect == ModeSpec => []ModeTypeOK
<1>1. ModeIInv => ModeTypeOK
  BY DEF ModeIInv
<1> QED
  BY <1>1, ModeInductive, PTL

\* Everything swarm_mode.cpp flies by is of this activation, the course by which the
\* slots turn as soon as the leader's velocity is known.
THEOREM FormationScratchCorrect == ModeSpec => []FormationStartsFromScratch
<1>1. ModeIInv => FormationStartsFromScratch
  BY DEF ModeIInv, FromScratch, FormationStartsFromScratch
<1> QED
  BY <1>1, ModeInductive, PTL

-----------------------------------------------------------------------------
(***************************************************************************)
(* The node keeps the promise of SwarmMembership: what stands for member and *)
(* coupling, one vehicle at a time.                                          *)
(***************************************************************************)
Mem(v) == IF active[v] THEN MemberOf(formation[v], Nothing) ELSE Nothing
Coupling(v) == IF FliesFormation(v) THEN output[v].offset ELSE EmptyList

\* Besides the invariant, only what the environment sends waits in a socket.
PromiseInv == ModeIInv /\ socket \in [Ros2 -> Seq(PacketsSent)]

LEMMA PromiseInductive == ModeSpec => []PromiseInv
<1>1. ModeInit => PromiseInv
  BY ModeInitSound DEF PromiseInv, ModeInit
<1>2. PromiseInv /\ [ModeNext]_modeVars => PromiseInv'
  <2> SUFFICES ASSUME PromiseInv, [ModeNext]_modeVars
               PROVE  socket' \in [Ros2 -> Seq(PacketsSent)]
    BY ModeStepSound DEF PromiseInv
  <2>1. socket \in [Ros2 -> Seq(PacketsSent)]
    BY DEF PromiseInv
  <2>2. ASSUME NEW v \in Ros2, pollMavlink(v)
        PROVE  socket' \in [Ros2 -> Seq(PacketsSent)]
    <3>1. socket[v] \in Seq(PacketsSent) /\ socket[v] # <<>>
      BY <2>1, <2>2 DEF pollMavlink
    <3>2. Tail(socket[v]) \in Seq(PacketsSent)
      BY <3>1
    <3> QED
      BY <2>1, <2>2, <3>2 DEF pollMavlink, take
  <2>3. ASSUME NEW v \in Ros2, NEW packet \in PacketsSent, arrive(v, packet)
        PROVE  socket' \in [Ros2 -> Seq(PacketsSent)]
    <3>1. Append(socket[v], packet) \in Seq(PacketsSent)
      BY <2>1
    <3> QED
      BY <2>1, <2>3, <3>1 DEF arrive
  <2>4. ASSUME NEW v \in Ros2,
               \/ onActivate(v) \/ onDeactivate(v) \/ updateSetpoint(v) \/ EnterHold(v)
               \/ \E mode \in {"Swarm", "Other"} : SetMode(v, mode)
               \/ \E p \in Phases : Transition(v, p)
        PROVE  UNCHANGED socket
    BY <2>4 DEF onActivate, onDeactivate, updateSetpoint, EnterHold, SetMode, Transition
  <2> QED
    BY <2>1, <2>2, <2>3, <2>4 DEF ModeNext, Executor, Outer, modeVars
<1> QED
  BY <1>1, <1>2, PTL DEF ModeSpec

\* A vehicle is no member or holds the slots of its formation.
LEMMA MemType ==
  ASSUME PromiseInv, NEW v \in Ros2
  PROVE  /\ formation[v] \in Formation /\ Sound(formation[v], v) /\ v \in Node
         /\ active[v] \in BOOLEAN
         /\ active[v] => Mem(v) # Nothing /\ Mem(v) = MemberOf(formation[v], Nothing)
         /\ ~active[v] => Mem(v) = Nothing
BY MemberType, NothingAssumption, Ros2Assumption
DEF PromiseInv, ModeIInv, ModeTypeOK, Mem

\* Of a step that leaves the other vehicles alone only v's part matters.
LEMMA TakeSuffices ==
  ASSUME NEW v \in Ros2, NEW c, Membership!Becomes(c, Mem(v)'),
         \A u \in Ros2 \ {v} : Mem(u)' = Mem(u) /\ Coupling(u)' = Coupling(u),
         \/ Coupling(v)' \in {Coupling(v), EmptyList}
         \/ Membership!CoupledBy(Mem(v)', v, Coupling(v)')
  PROVE  Membership!Take(v, c)
BY DEF Membership!Take, Mem, Coupling, Membership!Nobody, EmptyList

\* SwarmMembership counts as FiniteSets does.
LEMMA SameCardinality == \A S : Membership!Cardinality(S) = Cardinality(S)
BY DEF Membership!Cardinality, Membership!IsFiniteSet, Cardinality, IsFiniteSet

\* A configuration message does to the formation what Configured does to the
\* member, and a slot what PlacedIn does.
LEMMA ConfiguredAsPromised ==
  ASSUME NEW f \in Formation, NEW m \in Management
  PROVE  MemberOf(onManagement(f, m), Nothing)
           = Membership!Configured(MemberOf(f, Nothing), m)
<1> DEFINE c == MemberOf(f, Nothing)
<1>1. Membership!Nobody = EmptyList
  BY DEF Membership!Nobody, EmptyList
<1>2. MemberOf(onManagement(f, m), Nothing) =
        IF m.type = "update" /\ c.swarm # NoSwarm /\ m.swarm = c.swarm
        THEN [c EXCEPT !.next = [expected |-> m.count, leader |-> m.leader, slots |-> EmptyList]]
        ELSE [swarm |-> m.swarm, expected |-> m.count, leader |-> m.leader,
              slots |-> IF c.swarm = m.swarm THEN c.slots ELSE EmptyList, next |-> Nothing]
  BY ConfiguredMember
<1> HIDE DEF c
<1>3. MemberOf(onManagement(f, m), Nothing) = Membership!Configured(c, m)
  BY <1>1, <1>2 DEF Membership!Configured
<1> QED
  BY <1>3 DEF c

LEMMA PlacedAsPromised ==
  ASSUME NEW own \in Node, NEW f, Sound(f, own), NEW m \in NodeMessage
  PROVE  MemberOf(onNode(f, m, own), Nothing) = Membership!PlacedIn(MemberOf(f, Nothing), m)
<1> DEFINE c == MemberOf(f, Nothing)
           next == [c.next EXCEPT !.slots[m.node] = m.slot]
<1>1. MemberOf(onNode(f, m, own), Nothing) =
        IF c.next # Nothing
        THEN IF m.swarm = c.swarm
             THEN IF Size(next.slots) = next.expected
                  THEN [swarm |-> c.swarm, expected |-> next.expected,
                        leader |-> next.leader, slots |-> next.slots, next |-> Nothing]
                  ELSE [c EXCEPT !.next = next]
             ELSE c
        ELSE IF c.slots[m.node] = NoSlot THEN [c EXCEPT !.slots[m.node] = m.slot] ELSE c
  BY PlacedMember, NothingAssumption
<1>2. Membership!Replaced(c, m) =
        IF Membership!Whole(next)
        THEN [swarm |-> c.swarm, expected |-> next.expected, leader |-> next.leader,
              slots |-> next.slots, next |-> Nothing]
        ELSE [c EXCEPT !.next = next]
  BY DEF Membership!Replaced
<1> HIDE DEF c, next
<1>3. Membership!Whole(next) <=> Size(next.slots) = next.expected
  BY SameCardinality DEF Size, Listed, Membership!Whole, Membership!Placed
<1>4. MemberOf(onNode(f, m, own), Nothing) = Membership!PlacedIn(c, m)
  BY <1>1, <1>2, <1>3 DEF Membership!PlacedIn
<1> QED
  BY <1>4 DEF c

-----------------------------------------------------------------------------
\* Nothing that SwarmMembership speaks of changes.
Stutters(v) == Mem(v)' = Mem(v) /\ Coupling(v)' = Coupling(v)

LEMMA StayPromised ==
  ASSUME NEW v \in Ros2, Mem(v) # Nothing, Membership!Becomes(Mem(v), Mem(v)'),
         \A u \in Ros2 \ {v} : Mem(u)' = Mem(u) /\ Coupling(u)' = Coupling(u),
         \/ Coupling(v)' \in {Coupling(v), EmptyList}
         \/ Membership!CoupledBy(Mem(v)', v, Coupling(v)')
  PROVE  Membership!Next
<1>1. [u \in Ros2 |-> IF active[u] THEN MemberOf(formation[u], Nothing) ELSE Nothing][v] = Mem(v)
  BY DEF Mem
<1>2. Membership!Stay(v)
  BY <1>1 DEF Membership!Stay, Membership!Take, Mem, Coupling, Membership!Nobody, EmptyList
<1> QED
  BY <1>2 DEF Membership!Next

\* A step that changes at most v's formation, and this as Becomes says.
LEMMA FormationPromised ==
  ASSUME PromiseInv, NEW v \in Ros2, active[v], UNCHANGED <<active, output>>,
         \A u \in Ros2 \ {v} : formation'[u] = formation[u],
         Membership!Becomes(MemberOf(formation[v], Nothing), MemberOf(formation'[v], Nothing))
  PROVE  Membership!Next
<1>1. Mem(v) # Nothing /\ Mem(v) = MemberOf(formation[v], Nothing)
  BY MemType
<1>2. Mem(v)' = MemberOf(formation'[v], Nothing)
  BY DEF Mem, MemberOf
<1>3. \A u \in Ros2 : Coupling(u)' = Coupling(u)
  BY DEF Coupling, FliesFormation
<1>4. \A u \in Ros2 \ {v} : Mem(u)' = Mem(u)
  BY DEF Mem, MemberOf
<1> QED
  BY <1>1, <1>2, <1>3, <1>4, StayPromised

LEMMA MessagePromised ==
  ASSUME PromiseInv, NEW v \in Ros2, pollMavlink(v)
  PROVE  Membership!Next \/ \A u \in Ros2 : Stutters(u)
<1> DEFINE packet == Head(socket[v])
<1>1. packet \in PacketsSent /\ handleMessage(v, packet)
  BY DEF PromiseInv, pollMavlink
<1>2. formation[v] \in Formation /\ Sound(formation[v], v) /\ v \in Node
        /\ formation \in [Ros2 -> Formation]
  BY MemType DEF PromiseInv, ModeIInv, ModeTypeOK
<1>3. /\ packet.kind = "management" => packet.message \in ManagementSent
      /\ packet.kind = "node" => packet.message \in NodeSent
  BY <1>1 DEF PacketsSent
<1> HIDE DEF packet
<1>4. CASE UNCHANGED <<active, formation, output>>
  BY <1>4 DEF Stutters, Mem, Coupling, FliesFormation
<1>5. CASE ignore \/ sendSwarmStatus(v) \/ handleAttitude(v, packet.message)
  BY <1>4, <1>5 DEF ignore, sendSwarmStatus, handleAttitude
<1>6. ASSUME active[v], packet.kind = "management", handleSwarmManagement(v, packet.message)
      PROVE  Membership!Next
  <2>1. packet.message \in ManagementSent /\ packet.message \in Management
    BY <1>3, <1>6, ModeSentAssumption
  <2>2. /\ UNCHANGED <<active, output>>
        /\ formation' = [formation EXCEPT ![v] = onManagement(@, packet.message)]
    BY <1>6 DEF handleSwarmManagement
  <2>3. formation'[v] = onManagement(formation[v], packet.message)
    BY <1>2, <2>2
  <2>4. Membership!Becomes(MemberOf(formation[v], Nothing), MemberOf(formation'[v], Nothing))
    BY <1>2, <2>1, <2>3, ConfiguredAsPromised DEF Membership!Becomes, Membership!Configurations
  <2> QED
    BY <1>2, <1>6, <2>2, <2>4, FormationPromised
<1>7. ASSUME active[v], packet.kind = "node", handleSwarmNode(v, packet.message)
      PROVE  Membership!Next
  <2>1. packet.message \in NodeSent /\ packet.message \in NodeMessage
    BY <1>3, <1>7, ModeSentAssumption
  <2>2. /\ UNCHANGED <<active, output>>
        /\ formation' = [formation EXCEPT ![v] = onNode(@, packet.message, v)]
    BY <1>7 DEF handleSwarmNode
  <2>3. formation'[v] = onNode(formation[v], packet.message, v)
    BY <1>2, <2>2
  <2>4. Membership!Becomes(MemberOf(formation[v], Nothing), MemberOf(formation'[v], Nothing))
    BY <1>2, <2>1, <2>3, PlacedAsPromised DEF Membership!Becomes, Membership!Configurations
  <2> QED
    BY <1>2, <1>7, <2>2, <2>4, FormationPromised
<1>8. ASSUME active[v], handleNeighbourPosition(v, packet.message)
      PROVE  Membership!Next
  <2>1. /\ UNCHANGED <<active, output>>
        /\ formation' = [formation EXCEPT ![v] = locate(@, {packet.message.node})]
    BY <1>8 DEF handleNeighbourPosition
  <2>2. MemberOf(formation'[v], Nothing) = MemberOf(formation[v], Nothing)
    BY <1>2, <2>1 DEF MemberOf, locate, Formation
  <2>3. Membership!Becomes(MemberOf(formation[v], Nothing), MemberOf(formation'[v], Nothing))
    BY <2>2 DEF Membership!Becomes, Membership!Configurations
  <2> QED
    BY <1>2, <1>8, <2>1, <2>3, FormationPromised
<1> QED
  BY <1>1, <1>5, <1>6, <1>7, <1>8 DEF handleMessage

LEMMA ActivatePromised ==
  ASSUME PromiseInv, NEW v \in Ros2, onActivate(v)
  PROVE  Membership!Next
<1>1. /\ UNCHANGED output /\ ~active[v] /\ active' = [active EXCEPT ![v] = TRUE]
      /\ formation' = [formation EXCEPT ![v] = reset(@)]
  BY DEF onActivate
<1>2. formation[v] \in Formation /\ Mem(v) = Nothing
      /\ formation \in [Ros2 -> Formation] /\ active \in [Ros2 -> BOOLEAN]
  BY <1>1, MemType DEF PromiseInv, ModeIInv, ModeTypeOK
<1>3. MemberOf(reset(formation[v]), Nothing) = Membership!Fresh
  BY <1>2, FreshMember DEF Membership!Fresh, Membership!Nobody, EmptyList
<1>4. formation'[v] = reset(formation[v]) /\ active'[v]
      /\ \A u \in Ros2 \ {v} : formation'[u] = formation[u] /\ active'[u] = active[u]
  BY <1>1, <1>2
<1>5. Mem(v)' = Membership!Fresh
  BY <1>3, <1>4 DEF Mem, MemberOf
<1>6. Membership!Becomes(Membership!Fresh, Mem(v)')
  BY <1>5 DEF Membership!Becomes, Membership!Configurations
<1>7. \A u \in Ros2 : Coupling(u)' = Coupling(u)
  BY <1>1 DEF Coupling, FliesFormation
<1>8. \A u \in Ros2 \ {v} : Mem(u)' = Mem(u)
  BY <1>4 DEF Mem, MemberOf
<1>9. Membership!Take(v, Membership!Fresh)
  BY <1>6, <1>7, <1>8, TakeSuffices
<1> QED
  BY <1>2, <1>9 DEF Membership!Next, Membership!Enter, Mem

LEMMA DeactivatePromised ==
  ASSUME PromiseInv, NEW v \in Ros2, onDeactivate(v)
  PROVE  Membership!Next
<1>1. /\ active[v] /\ active' = [active EXCEPT ![v] = FALSE]
      /\ output' = [output EXCEPT ![v] = Nothing] /\ UNCHANGED formation
  BY DEF onDeactivate
<1>2. Mem(v) # Nothing /\ active \in [Ros2 -> BOOLEAN]
      /\ output \in [Ros2 -> Setpoint \cup {Nothing}]
  BY <1>1, MemType DEF PromiseInv, ModeIInv, ModeTypeOK
<1>3. /\ ~active'[v] /\ output'[v] = Nothing
      /\ \A u \in Ros2 \ {v} : active'[u] = active[u] /\ output'[u] = output[u]
  BY <1>1, <1>2
<1>4. Mem(v)' = Nothing /\ Coupling(v)' = Membership!Nobody
  BY <1>3 DEF Mem, Coupling, FliesFormation, EmptyList, Membership!Nobody
<1>5. \A u \in Ros2 \ {v} : Mem(u)' = Mem(u) /\ Coupling(u)' = Coupling(u)
  BY <1>1, <1>3 DEF Mem, Coupling, FliesFormation
<1>6. Membership!Leave(v)
  BY <1>2, <1>4, <1>5 DEF Membership!Leave, Mem, Coupling
<1> QED
  BY <1>6 DEF Membership!Next

LEMMA SetpointPromised ==
  ASSUME PromiseInv, NEW v \in Ros2, updateSetpoint(v)
  PROVE  Membership!Next
<1> DEFINE f == formation[v]
<1>1. /\ active[v] /\ output' = [output EXCEPT ![v] = setpointOf(v)]
      /\ UNCHANGED <<active, formation>>
  BY DEF updateSetpoint
<1>2. f \in Formation /\ Sound(f, v) /\ v \in Node /\ Mem(v) # Nothing
      /\ Mem(v) = MemberOf(f, Nothing) /\ output \in [Ros2 -> Setpoint \cup {Nothing}]
      /\ phase[v] \in {"multicopter", "fixedWing", "transition"}
  BY <1>1, MemType DEF PromiseInv, ModeIInv, ModeTypeOK
<1>3. /\ output'[v] = setpointOf(v) /\ \A u \in Ros2 \ {v} : output'[u] = output[u]
  BY <1>1, <1>2
<1>4. \A u \in Ros2 : Mem(u)' = Mem(u)
  BY <1>1 DEF Mem
<1>5. \A u \in Ros2 \ {v} : Coupling(u)' = Coupling(u)
  BY <1>3 DEF Coupling, FliesFormation
<1>6. \/ /\ Flying(f) /\ setpointOf(v).kind \in {"multicopter", "fixedWing"}
         /\ setpointOf(v).offset = located(f)
      \/ setpointOf(v).kind \notin {"multicopter", "fixedWing"}
  BY <1>2 DEF setpointOf, hold, updateFixedWing, updateMulticopter
<1>7. Membership!Becomes(Mem(v), Mem(v)')
  BY <1>4 DEF Membership!Becomes, Membership!Configurations
<1>8. CASE ~FliesFormation(v)'
  <2>1. Coupling(v)' = EmptyList
    BY <1>8 DEF Coupling
  <2> QED
    BY <1>2, <1>4, <1>5, <1>7, <2>1, StayPromised
<1>9. CASE FliesFormation(v)'
  <2>1. Flying(f) /\ Coupling(v)' = located(f)
    BY <1>3, <1>6, <1>9 DEF Coupling, FliesFormation
  <2>2. \A n \in Node : located(f)[n] # NoSlot =>
          n \in f.located /\ located(f)[n] = f.offset[n]
    BY DEF located
  <2>3. Mem(v).slots = f.nodes /\ Mem(v).expected = f.expected
    BY <1>2 DEF MemberOf
  <2>4. Membership!Placed(f.nodes) = Listed(f.nodes)
    BY DEF Membership!Placed, Listed
  <2>5. Size(f.nodes) = f.expected /\ f.expected > 1
    BY <1>2, <2>1 DEF Sound, Flying, Complete, CountsNodes
  <2>6. \A n \in f.located : n # v /\ {v, n} \subseteq Listed(f.nodes)
                             /\ f.offset[n] = <<f.nodes[v], f.nodes[n]>>
    BY <1>2, <2>1, FlownIsWhole
  <2>7. Membership!Whole(Mem(v)) /\ Mem(v).expected > 1
    BY <2>3, <2>4, <2>5, SameCardinality DEF Membership!Whole, Size
  <2>8. Membership!CoupledBy(Mem(v), v, located(f))
    BY <2>2, <2>3, <2>4, <2>6, <2>7 DEF Membership!CoupledBy
  <2>9. Membership!CoupledBy(Mem(v)', v, Coupling(v)')
    BY <1>4, <2>1, <2>8
  <2> QED
    BY <1>2, <1>4, <1>5, <1>7, <2>9, StayPromised
<1> QED
  BY <1>8, <1>9

LEMMA OuterPromised ==
  ASSUME NEW v \in Ros2, Outer(v)
  PROVE  \A u \in Ros2 : Stutters(u)
BY DEF Outer, EnterHold, SetMode, Transition, arrive, Stutters, Mem, Coupling, FliesFormation

\* The node implements SwarmMembership: swarm_mode.cpp's lists never show but as
\* what the slots it was sent since it entered the mode say.
THEOREM ModePromiseKept == ModeSpec => ModeKeepsPromise
<1>1. ModeInit => Membership!Init
  BY DEF ModeInit, Membership!Init, FliesFormation, EmptyList, Membership!Nobody
<1>2. PromiseInv /\ [ModeNext]_modeVars
        => [Membership!Next]_<<[v \in Ros2 |-> IF active[v] THEN MemberOf(formation[v], Nothing)
                                                           ELSE Nothing],
                               [v \in Ros2 |-> IF FliesFormation(v) THEN output[v].offset
                                                                    ELSE EmptyList]>>
  <2> SUFFICES ASSUME PromiseInv, [ModeNext]_modeVars
               PROVE  Membership!Next \/ \A u \in Ros2 : Stutters(u)
    BY DEF Stutters, Mem, Coupling
  <2>1. CASE ModeNext
    BY <2>1, MessagePromised, ActivatePromised, DeactivatePromised, SetpointPromised,
       OuterPromised
    DEF ModeNext, Executor
  <2>2. CASE UNCHANGED modeVars
    BY <2>2 DEF modeVars, Stutters, Mem, Coupling, FliesFormation
  <2> QED
    BY <2>1, <2>2
<1> QED
  BY <1>1, <1>2, PromiseInductive, PTL DEF ModeSpec, ModeKeepsPromise, Membership!Spec
=============================================================================
