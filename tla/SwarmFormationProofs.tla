------------------------ MODULE SwarmFormationProofs ------------------------
(***************************************************************************)
(* Every handler of the formation bookkeeping maps a sound formation to a   *)
(* sound formation, for any fleet, any slots and any message.               *)
(***************************************************************************)
EXTENDS SwarmFormation, FiniteSetTheorems, TLAPS

\* A formation that is well typed and keeps the four parts of the bookkeeping.
Sound(f, own) ==
  /\ f \in Formation
  /\ CountsNodes(f)
  /\ CouplesListed(f, own)
  /\ PendingUnfinished(f)
  /\ LocatesNeighbours(f)

-----------------------------------------------------------------------------
\* A list has at most as many entries as there are vehicles, so its size is a
\* uint8_t.
LEMMA SizeBound ==
  ASSUME NEW list
  PROVE  /\ IsFiniteSet(Listed(list))
         /\ Size(list) \in Nat
         /\ Size(list) <= 255
         /\ Size(list) \in 0..255
<1>1. IsFiniteSet(Node) /\ Cardinality(Node) <= 255 /\ Cardinality(Node) \in Nat
  BY NodeAssumption
<1>2. Listed(list) \subseteq Node
  BY DEF Listed
<1>3. IsFiniteSet(Listed(list)) /\ Cardinality(Listed(list)) <= Cardinality(Node)
  BY <1>1, <1>2, FS_Subset
<1>4. Cardinality(Listed(list)) \in Nat
  BY <1>3, FS_CardinalityType
<1> QED
  BY <1>1, <1>3, <1>4 DEF Size

LEMMA EmptyListEmpty ==
  /\ EmptyList \in List
  /\ Listed(EmptyList) = {}
  /\ Size(EmptyList) = 0
<1>1. EmptyList \in List /\ Listed(EmptyList) = {}
  BY DEF EmptyList, List, Listed
<1> QED
  BY <1>1, FS_EmptySet DEF Size

\* A new entry makes the list one longer; an overwritten one leaves its size.
LEMMA UpsertSize ==
  ASSUME NEW list \in List, NEW n \in Node, NEW slot \in Slot
  PROVE  /\ upsertNode(list, n, slot) \in List
         /\ Listed(upsertNode(list, n, slot)) = Listed(list) \cup {n}
         /\ list[n] = NoSlot => Size(upsertNode(list, n, slot)) = Size(list) + 1
         /\ list[n] # NoSlot => Size(upsertNode(list, n, slot)) = Size(list)
<1> DEFINE new == upsertNode(list, n, slot)
<1>1. new \in List /\ Listed(new) = Listed(list) \cup {n}
  BY SlotAssumption DEF upsertNode, List, Listed
<1>2. IsFiniteSet(Listed(list))
  BY SizeBound
<1>3. list[n] = NoSlot => n \notin Listed(list)
  BY DEF Listed
<1>4. list[n] # NoSlot => Listed(list) \cup {n} = Listed(list)
  BY DEF Listed
<1>5. list[n] = NoSlot => Cardinality(Listed(list) \cup {n}) = Cardinality(Listed(list)) + 1
  BY <1>2, <1>3, FS_AddElement
<1> QED
  BY <1>1, <1>4, <1>5 DEF Size

-----------------------------------------------------------------------------
\* Updating one field of a record keeps it in its type, whatever the types are;
\* stated for the one Boolean field, which SMT cannot treat directly.
LEMMA FieldUpdate ==
  ASSUME NEW S, NEW E, NEW L, NEW I, NEW C, NEW O, NEW P, NEW U, NEW X,
         NEW f \in [swarm : S, expected : E, leader : L, nodes : I, count : C, offset : O,
                    located : P, updating : U, pending : I, pendingExpected : X,
                    pendingLeader : L],
         NEW b \in U
  PROVE  [f EXCEPT !.updating = b]
           \in [swarm : S, expected : E, leader : L, nodes : I, count : C, offset : O,
                located : P, updating : U, pending : I, pendingExpected : X, pendingLeader : L]
OBVIOUS

LEMMA SetUpdating ==
  ASSUME NEW f \in Formation, NEW b \in BOOLEAN
  PROVE  [f EXCEPT !.updating = b] \in Formation
BY FieldUpdate DEF Formation

-----------------------------------------------------------------------------
LEMMA NewFormationSound ==
  ASSUME NEW own \in Node
  PROVE  Sound(NewFormation, own)
<1>1. NewFormation \in Formation
  BY EmptyListEmpty DEF NewFormation, Formation, EmptyList, List
<1>2. CountsNodes(NewFormation)
  BY EmptyListEmpty DEF NewFormation, CountsNodes
<1>3. Neighbours(NewFormation) = {}
  BY DEF NewFormation, Neighbours, EmptyList
<1> QED
  BY <1>1, <1>2, <1>3
  DEF Sound, CouplesListed, PendingUnfinished, LocatesNeighbours, NewFormation

\* Resetting forgets everything but the two leader ids.
LEMMA ResetSound ==
  ASSUME NEW own \in Node, NEW f \in Formation
  PROVE  Sound(reset(f), own) /\ reset(f).swarm = NoSwarm
<1> DEFINE led == [NewFormation EXCEPT !.leader = f.leader]
           g == reset(f)
<1>1. g \in Formation
  <2>1. NewFormation \in Formation
    BY NewFormationSound DEF Sound
  <2>2. f.leader \in Node \cup {NoNode} /\ f.pendingLeader \in Node \cup {NoNode}
    BY DEF Formation
  <2>3. led \in Formation
    BY <2>1, <2>2 DEF Formation
  <2> HIDE DEF led
  <2>4. [led EXCEPT !.pendingLeader = f.pendingLeader] \in Formation
    BY <2>2, <2>3 DEF Formation
  <2> QED
    BY <2>4 DEF reset, led
<1>2. g.nodes = EmptyList /\ g.count = 0 /\ g.offset = EmptyList /\ g.located = {}
      /\ g.updating = FALSE /\ g.pending = EmptyList /\ g.swarm = NoSwarm
  BY DEF reset, NewFormation
<1>3. CountsNodes(g)
  BY <1>2, EmptyListEmpty DEF CountsNodes
<1>4. Neighbours(g) = {}
  BY <1>2 DEF Neighbours, EmptyList
<1> QED
  BY <1>1, <1>2, <1>3, <1>4 DEF Sound, CouplesListed, PendingUnfinished, LocatesNeighbours

\* Whatever the offsets were, rebuilding them from the list makes them agree
\* with it.
LEMMA BuildConsensusSound ==
  ASSUME NEW own \in Node, NEW f \in Formation, CountsNodes(f), PendingUnfinished(f)
  PROVE  Sound(buildConsensus(f, own), own)
<1> DEFINE g == buildConsensus(f, own)
           near == IF f.nodes[own] = NoSlot THEN {} ELSE Listed(f.nodes) \ {own}
           couple == [n \in Node |-> IF n \in near THEN <<f.nodes[own], f.nodes[n]>> ELSE NoSlot]
           coupled == [f EXCEPT !.offset = couple]
<1>1. g = [coupled EXCEPT !.located = f.located \cap near]
  BY DEF buildConsensus
<1>2. \A n \in near : n \in Node /\ n # own /\ f.nodes[own] \in Slot /\ f.nodes[n] \in Slot
  BY DEF Formation, List, Listed
<1>3. couple \in [Node -> (Slot \X Slot) \cup {NoSlot}]
  <2>1. \A n \in near : <<f.nodes[own], f.nodes[n]>> \in Slot \X Slot
    BY <1>2
  <2> QED
    BY <2>1
<1>4. g \in Formation
  <2> HIDE DEF couple, near
  <2>1. coupled \in Formation
    BY <1>3 DEF Formation
  <2>2. f.located \cap near \in SUBSET Node
    BY DEF Formation
  <2> HIDE DEF coupled
  <2> QED
    BY <1>1, <2>1, <2>2 DEF Formation
<1>5. /\ g.nodes = f.nodes /\ g.count = f.count /\ g.updating = f.updating
      /\ g.pending = f.pending /\ g.pendingExpected = f.pendingExpected /\ g.swarm = f.swarm
      /\ g.offset = couple /\ g.located = f.located \cap near
  BY DEF buildConsensus, Formation
<1>6. \A n \in near : <<f.nodes[own], f.nodes[n]>> # NoSlot
  BY <1>2, SlotAssumption
<1>7. Neighbours(g) = near
  BY <1>2, <1>5, <1>6 DEF Neighbours
<1>8. CouplesListed(g, own)
  BY <1>2, <1>5, <1>7, SlotAssumption DEF CouplesListed
<1> QED
  BY <1>4, <1>5, <1>7, <1>8 DEF Sound, CountsNodes, PendingUnfinished, LocatesNeighbours

\* Applying a replacement that has slots for all its nodes.
LEMMA ApplyPendingSound ==
  ASSUME NEW own \in Node, NEW f \in Formation
  PROVE  /\ Sound(applyPendingFormation(f, own), own)
         /\ applyPendingFormation(f, own).nodes = f.pending
         /\ applyPendingFormation(f, own).expected = f.pendingExpected
         /\ applyPendingFormation(f, own).count = Size(f.pending)
         /\ applyPendingFormation(f, own).updating = FALSE
<1> DEFINE f1 == [f EXCEPT !.nodes = f.pending]
           f2 == [f1 EXCEPT !.count = Size(f.pending)]
           f3 == [f2 EXCEPT !.pending = EmptyList]
           f4 == [f3 EXCEPT !.expected = f.pendingExpected]
           f5 == [f4 EXCEPT !.leader = f.pendingLeader]
           f6 == [f5 EXCEPT !.updating = FALSE]
<1>1. /\ f.pending \in List /\ f.pendingExpected \in 0..255
      /\ f.pendingLeader \in Node \cup {NoNode}
      /\ Size(f.pending) \in 0..255 /\ EmptyList \in List
  BY SizeBound, EmptyListEmpty DEF Formation
<1>2. f6 \in Formation
  <2>1. f1 \in Formation  BY <1>1 DEF Formation
  <2> HIDE DEF f1
  <2>2. f2 \in Formation  BY <1>1, <2>1 DEF Formation
  <2> HIDE DEF f2
  <2>3. f3 \in Formation  BY <1>1, <2>2 DEF Formation
  <2> HIDE DEF f3
  <2>4. f4 \in Formation  BY <1>1, <2>3 DEF Formation
  <2> HIDE DEF f4
  <2>5. f5 \in Formation  BY <1>1, <2>4 DEF Formation
  <2> HIDE DEF f5
  <2> QED  BY <2>5, SetUpdating, FALSE \in BOOLEAN, Zenon
<1>3. /\ f6.nodes = f.pending /\ f6.count = Size(f.pending) /\ f6.pending = EmptyList
      /\ f6.updating = FALSE /\ f6.expected = f.pendingExpected
  BY DEF Formation
<1>4. applyPendingFormation(f, own) = buildConsensus(f6, own)
  BY DEF applyPendingFormation
<1>5. CountsNodes(f6) /\ PendingUnfinished(f6)
  BY <1>3 DEF CountsNodes, PendingUnfinished
<1> HIDE DEF f6
<1>6. Sound(buildConsensus(f6, own), own)
  BY <1>2, <1>5, BuildConsensusSound
<1>7. \A g \in Formation :
        /\ buildConsensus(g, own).nodes = g.nodes
        /\ buildConsensus(g, own).expected = g.expected
        /\ buildConsensus(g, own).count = g.count
        /\ buildConsensus(g, own).updating = g.updating
  BY DEF buildConsensus, Formation
<1> QED
  BY <1>2, <1>3, <1>4, <1>6, <1>7

-----------------------------------------------------------------------------
\* A management message either opens an update or (re)creates the swarm.
LEMMA ManagementSound ==
  ASSUME NEW own \in Node, NEW f, Sound(f, own), NEW m \in Management
  PROVE  Sound(onManagement(f, m), own)
<1>1. /\ f \in Formation
      /\ m.count \in 0..255 /\ m.count > 0
      /\ m.leader \in Node /\ m.swarm \in Swarm
  BY NodeAssumption DEF Sound, Management
<1>2. CASE StartsUpdate(f, m)
  <2> DEFINE f1 == [f EXCEPT !.pending = EmptyList]
             f2 == [f1 EXCEPT !.pendingExpected = m.count]
             f3 == [f2 EXCEPT !.pendingLeader = m.leader]
             g  == [f3 EXCEPT !.updating = TRUE]
  <2>1. onManagement(f, m) = g
    BY <1>2 DEF onManagement
  <2>2. g \in Formation
    <3>1. f1 \in Formation  BY <1>1, EmptyListEmpty DEF Formation
    <3> HIDE DEF f1
    <3>2. f2 \in Formation  BY <1>1, <3>1 DEF Formation
    <3> HIDE DEF f2
    <3>3. f3 \in Formation  BY <1>1, <3>2 DEF Formation
    <3> HIDE DEF f3
    <3> QED  BY <3>3, SetUpdating, TRUE \in BOOLEAN, Zenon
  <2>3. /\ g.nodes = f.nodes /\ g.count = f.count /\ g.offset = f.offset
        /\ g.located = f.located /\ g.swarm = f.swarm
        /\ g.updating = TRUE /\ g.pending = EmptyList /\ g.pendingExpected = m.count
    BY <1>1 DEF Formation
  <2>4. Neighbours(g) = Neighbours(f)
    BY <2>3 DEF Neighbours
  <2>5. PendingUnfinished(g)
    BY <1>1, <1>2, <2>3, EmptyListEmpty DEF PendingUnfinished, StartsUpdate
  <2> HIDE DEF g
  <2> QED
    BY <2>1, <2>2, <2>3, <2>4, <2>5
    DEF Sound, CountsNodes, CouplesListed, LocatesNeighbours
<1>3. CASE ~StartsUpdate(f, m)
  <2> DEFINE e  == IF f.swarm # m.swarm THEN reset(f) ELSE f
             e1 == [e EXCEPT !.updating = FALSE]
             e2 == [e1 EXCEPT !.pending = EmptyList]
             e3 == [e2 EXCEPT !.expected = m.count]
             e4 == [e3 EXCEPT !.leader = m.leader]
             g  == [e4 EXCEPT !.swarm = m.swarm]
  <2>1. onManagement(f, m) = g
    BY <1>3 DEF onManagement
  <2>2. Sound(e, own)
    BY <1>1, ResetSound
  <2>3. e \in Formation
    BY <2>2 DEF Sound
  <2> HIDE DEF e
  <2>4. g \in Formation
    <3>1. e1 \in Formation  BY <2>3, SetUpdating, FALSE \in BOOLEAN, Zenon
    <3> HIDE DEF e1
    <3>2. e2 \in Formation  BY <3>1, EmptyListEmpty DEF Formation
    <3> HIDE DEF e2
    <3>3. e3 \in Formation  BY <1>1, <3>2 DEF Formation
    <3> HIDE DEF e3
    <3>4. e4 \in Formation  BY <1>1, <3>3 DEF Formation
    <3> HIDE DEF e4
    <3> QED  BY <1>1, <3>4 DEF Formation
  <2>5. /\ g.nodes = e.nodes /\ g.count = e.count /\ g.offset = e.offset
        /\ g.located = e.located /\ g.updating = FALSE /\ g.pending = EmptyList
    BY <2>3 DEF Formation
  <2>6. Neighbours(g) = Neighbours(e)
    BY <2>5 DEF Neighbours
  <2> HIDE DEF g
  <2> QED
    BY <2>1, <2>2, <2>4, <2>5, <2>6
    DEF Sound, CountsNodes, CouplesListed, LocatesNeighbours, PendingUnfinished
<1> QED
  BY <1>2, <1>3

\* A slot that arrives while a replacement is collected.
LEMMA CollectPendingSound ==
  ASSUME NEW own \in Node, NEW f, Sound(f, own), f.updating, NEW m \in NodeMessage
  PROVE  Sound(collectPending(f, m, own), own)
<1> DEFINE new == upsertNode(f.pending, m.node, m.slot)
           g == [f EXCEPT !.pending = new]
<1>1. f \in Formation /\ m.node \in Node /\ m.slot \in Slot
  BY DEF Sound, NodeMessage
<1>2. f.pending \in List /\ f.pendingExpected \in 0..255
  BY <1>1 DEF Formation
<1>3. g \in Formation
  <2>1. new \in List
    BY <1>1, <1>2, UpsertSize
  <2> HIDE DEF new
  <2> QED
    BY <1>1, <2>1 DEF Formation
<1>4. /\ g.nodes = f.nodes /\ g.count = f.count /\ g.offset = f.offset
      /\ g.located = f.located /\ g.swarm = f.swarm /\ g.updating = f.updating
      /\ g.pendingExpected = f.pendingExpected
      /\ g.pending = upsertNode(f.pending, m.node, m.slot)
  <2> HIDE DEF new
  <2>1. /\ g.nodes = f.nodes /\ g.count = f.count /\ g.offset = f.offset
        /\ g.located = f.located /\ g.swarm = f.swarm
        /\ g.pendingExpected = f.pendingExpected /\ g.pending = new
    BY <1>1 DEF Formation
  <2>2. g.updating = f.updating
    BY <1>1 DEF Formation
  <2> QED
    BY <2>1, <2>2 DEF new
<1>5. collectPending(f, m, own)
        = IF Size(g.pending) = g.pendingExpected THEN applyPendingFormation(g, own) ELSE g
  BY DEF collectPending
<1>6. Size(g.pending) <= Size(f.pending) + 1 /\ Size(g.pending) \in Nat /\ Size(f.pending) \in Nat
  BY <1>1, <1>2, <1>4, UpsertSize, SizeBound
<1>7. Size(f.pending) < f.pendingExpected /\ f.swarm # NoSwarm
  BY DEF Sound, PendingUnfinished
<1>8. Neighbours(g) = Neighbours(f)
  BY <1>4 DEF Neighbours
<1> HIDE DEF g
<1>9. CASE Size(g.pending) = g.pendingExpected
  BY <1>3, <1>5, <1>9, ApplyPendingSound
<1>10. CASE Size(g.pending) # g.pendingExpected
  <2>1. Size(g.pending) < g.pendingExpected
    <3>1. g.pendingExpected = f.pendingExpected /\ f.pendingExpected \in Nat
      BY <1>2, <1>4
    <3> QED
      BY <1>6, <1>7, <1>10, <3>1
  <2>2. PendingUnfinished(g)
    BY <1>4, <1>7, <2>1 DEF PendingUnfinished
  <2> QED
    BY <1>3, <1>4, <1>5, <1>8, <1>10, <2>2
    DEF Sound, CountsNodes, CouplesListed, LocatesNeighbours
<1> QED
  BY <1>9, <1>10

\* A slot that arrives while the formation itself is collected. The 8-bit
\* counter cannot wrap: there is still a vehicle that is not in the list.
LEMMA CollectNodeSound ==
  ASSUME NEW own \in Node, NEW f, Sound(f, own), ~f.updating, NEW m \in NodeMessage
  PROVE  Sound(collectNode(f, m, own), own)
<1> DEFINE longer == [f EXCEPT !.nodes = upsertNode(f.nodes, m.node, m.slot)]
           g == [longer EXCEPT !.count = (f.count + 1) % 256]
<1>1. f \in Formation /\ m.node \in Node /\ m.slot \in Slot
  BY DEF Sound, NodeMessage
<1>2. CASE f.nodes[m.node] # NoSlot
  BY <1>2 DEF collectNode
<1>3. CASE f.nodes[m.node] = NoSlot
  <2>1. f.nodes \in List /\ f.count \in 0..255
    BY <1>1 DEF Formation
  <2>2. /\ upsertNode(f.nodes, m.node, m.slot) \in List
        /\ Size(upsertNode(f.nodes, m.node, m.slot)) = Size(f.nodes) + 1
    BY <1>1, <1>3, <2>1, UpsertSize
  <2>3. f.count = Size(f.nodes)
    BY DEF Sound, CountsNodes
  <2>4. Size(upsertNode(f.nodes, m.node, m.slot)) <= 255
    BY SizeBound
  <2>5. (f.count + 1) % 256 = f.count + 1 /\ f.count + 1 \in 0..255
    BY <2>1, <2>2, <2>3, <2>4
  <2>6. g \in Formation
    <3>1. longer \in Formation  BY <1>1, <2>2 DEF Formation
    <3> HIDE DEF longer
    <3> QED  BY <2>5, <3>1 DEF Formation
  <2>7. /\ g.nodes = upsertNode(f.nodes, m.node, m.slot) /\ g.count = f.count + 1
        /\ g.offset = f.offset /\ g.located = f.located /\ g.swarm = f.swarm
        /\ g.updating = f.updating /\ g.pending = f.pending
        /\ g.pendingExpected = f.pendingExpected
    BY <1>1, <2>5 DEF Formation
  <2>8. CountsNodes(g) /\ PendingUnfinished(g)
    BY <2>2, <2>3, <2>7 DEF Sound, CountsNodes, PendingUnfinished
  <2>9. Neighbours(g) = Neighbours(f)
    BY <2>7 DEF Neighbours
  <2>10. \A n \in Node : f.nodes[n] # NoSlot => g.nodes[n] = f.nodes[n]
    BY <1>3, <2>1, <2>7 DEF upsertNode, List
  <2>11. CouplesListed(g, own)
    BY <2>7, <2>9, <2>10 DEF Sound, CouplesListed, Neighbours
  <2>12. collectNode(f, m, own) = IF g.count = g.expected THEN buildConsensus(g, own) ELSE g
    BY <1>3 DEF collectNode
  <2> HIDE DEF g
  <2>13. Sound(g, own)
    BY <2>6, <2>7, <2>8, <2>9, <2>11 DEF Sound, LocatesNeighbours
  <2>14. Sound(buildConsensus(g, own), own)
    BY <2>6, <2>8, BuildConsensusSound
  <2> QED
    BY <2>12, <2>13, <2>14
<1> QED
  BY <1>2, <1>3

LEMMA NodeSound ==
  ASSUME NEW own \in Node, NEW f, Sound(f, own), NEW m \in NodeMessage
  PROVE  Sound(onNode(f, m, own), own)
<1>1. CASE f.updating /\ m.swarm = f.swarm
  BY <1>1, CollectPendingSound DEF onNode
<1>2. CASE ~f.updating
  BY <1>2, CollectNodeSound DEF onNode
<1>3. CASE f.updating /\ m.swarm # f.swarm
  BY <1>3 DEF onNode
<1> QED
  BY <1>1, <1>2, <1>3

LEMMA LocateSound ==
  ASSUME NEW own \in Node, NEW f, Sound(f, own), NEW positions \in SUBSET Node
  PROVE  Sound(locate(f, positions), own)
<1> DEFINE found == {n \in positions : f.offset[n] # NoSlot}
           g == locate(f, positions)
<1>1. f \in Formation
  BY DEF Sound
<1>2. f.located \cup found \in SUBSET Node
  BY <1>1 DEF Formation
<1>3. g \in Formation
  <2> DEFINE known == f.located \cup found
  <2>1. known \in SUBSET Node
    BY <1>2
  <2>2. g = [f EXCEPT !.located = known]
    BY DEF locate
  <2> HIDE DEF known, g
  <2> QED
    BY <1>1, <2>1, <2>2 DEF Formation
<1>4. /\ g.nodes = f.nodes /\ g.count = f.count /\ g.offset = f.offset /\ g.swarm = f.swarm
      /\ g.updating = f.updating /\ g.pending = f.pending
      /\ g.pendingExpected = f.pendingExpected /\ g.located = f.located \cup found
  BY <1>1 DEF locate, Formation
<1>5. Neighbours(g) = Neighbours(f) /\ found \subseteq Neighbours(f)
  BY <1>4 DEF Neighbours
<1> QED
  BY <1>3, <1>4, <1>5
  DEF Sound, CountsNodes, CouplesListed, LocatesNeighbours, PendingUnfinished

-----------------------------------------------------------------------------
(***************************************************************************)
(* What one message may change: the steps of the action properties.         *)
(***************************************************************************)
LEMMA ManagementTransition ==
  ASSUME NEW f \in Formation, NEW m \in Management
  PROVE  /\ onManagement(f, m).updating => Flown(onManagement(f, m)) = Flown(f)
         /\ onManagement(f, m).swarm = f.swarm
              => /\ onManagement(f, m).nodes = f.nodes
                 /\ onManagement(f, m).located = f.located
<1> DEFINE g == onManagement(f, m)
<1>1. CASE StartsUpdate(f, m)
  <2>1. g = [f EXCEPT !.pending = EmptyList, !.pendingExpected = m.count,
                      !.pendingLeader = m.leader, !.updating = TRUE]
    BY <1>1 DEF onManagement
  <2>2. g.nodes = f.nodes /\ g.offset = f.offset /\ g.expected = f.expected
          /\ g.leader = f.leader /\ g.located = f.located
    BY <2>1 DEF Formation
  <2> HIDE DEF g
  <2> QED
    BY <2>2 DEF Flown, g
<1>2. CASE ~StartsUpdate(f, m)
  <2> DEFINE base == IF f.swarm # m.swarm THEN reset(f) ELSE f
  <2>1. base \in Formation /\ (f.swarm = m.swarm => base = f)
    BY ResetSound, NodeAssumption, FS_EmptySet DEF Sound
  <2>2. g = [base EXCEPT !.updating = FALSE, !.pending = EmptyList,
                         !.expected = m.count, !.leader = m.leader, !.swarm = m.swarm]
    BY <1>2 DEF onManagement
  <2> HIDE DEF base
  <2>3. g.updating = FALSE /\ g.swarm = m.swarm /\ g.nodes = base.nodes
          /\ g.located = base.located
    BY <2>1, <2>2 DEF Formation
  <2> HIDE DEF g
  <2> QED
    BY <2>1, <2>3 DEF g
<1> QED
  BY <1>1, <1>2

LEMMA BuildConsensusTransition ==
  ASSUME NEW f \in Formation, NEW own \in Node
  PROVE  /\ \A field \in {"swarm", "expected", "leader", "nodes", "count", "updating"} :
              buildConsensus(f, own)[field] = f[field]
         /\ f.located \cap Neighbours(buildConsensus(f, own))
              \subseteq buildConsensus(f, own).located
<1> DEFINE near == IF f.nodes[own] = NoSlot THEN {} ELSE Listed(f.nodes) \ {own}
           couple == [n \in Node |-> IF n \in near THEN <<f.nodes[own], f.nodes[n]>> ELSE NoSlot]
           g == buildConsensus(f, own)
<1>1. g = [f EXCEPT !.offset = couple, !.located = @ \cap near]
  BY DEF buildConsensus
<1>2. \A n \in Node : couple[n] # NoSlot => n \in near
  OBVIOUS
<1> HIDE DEF near, couple
<1>3. g.offset = couple /\ g.located = f.located \cap near
  BY <1>1 DEF Formation
<1>4. \A field \in {"swarm", "expected", "leader", "nodes", "count", "updating"} :
        g[field] = f[field]
  BY <1>1 DEF Formation
<1> HIDE DEF g
<1>5. Neighbours(g) \subseteq near
  BY <1>2, <1>3 DEF Neighbours
<1> QED
  BY <1>3, <1>4, <1>5 DEF g

LEMMA CollectNodeTransition ==
  ASSUME NEW own \in Node, NEW f, Sound(f, own), ~f.updating, NEW m \in NodeMessage
  PROVE  /\ collectNode(f, m, own).swarm = f.swarm
         /\ collectNode(f, m, own).updating = FALSE
         /\ \A n \in Node : f.nodes[n] \in {NoSlot, collectNode(f, m, own).nodes[n]}
         /\ f.located \cap Neighbours(collectNode(f, m, own))
              \subseteq collectNode(f, m, own).located
<1> DEFINE new == upsertNode(f.nodes, m.node, m.slot)
           longer == [f EXCEPT !.nodes = new]
           g == [longer EXCEPT !.count = (f.count + 1) % 256]
<1>1. f \in Formation /\ m.node \in Node /\ m.slot \in Slot /\ f.updating = FALSE
  BY DEF Sound, NodeMessage, Formation
<1>2. CASE f.nodes[m.node] # NoSlot
  BY <1>1, <1>2 DEF collectNode
<1>3. CASE f.nodes[m.node] = NoSlot
  <2>1. new \in List /\ \A n \in Node : n # m.node => new[n] = f.nodes[n]
    BY <1>1, UpsertSize DEF upsertNode, List, Formation
  <2> HIDE DEF new
  <2>2. longer \in Formation
    BY <1>1, <2>1 DEF Formation
  <2>3. longer.swarm = f.swarm /\ longer.updating = FALSE /\ longer.located = f.located
          /\ longer.offset = f.offset /\ longer.nodes = new
    BY <1>1, <2>1 DEF Formation
  <2> HIDE DEF longer
  <2>4. f.count \in 0..255
    BY <1>1 DEF Formation
  <2>5. (f.count + 1) % 256 \in 0..255
    BY <2>4
  <2>6. g \in Formation
    BY <2>2, <2>5 DEF Formation
  <2>7. g.swarm = f.swarm /\ g.updating = FALSE /\ g.located = f.located /\ g.nodes = new
    BY <2>2, <2>3 DEF Formation
  <2>8. \A n \in Node : f.nodes[n] \in {NoSlot, new[n]}
    BY <1>3, <2>1
  <2>9. collectNode(f, m, own) = IF g.count = g.expected THEN buildConsensus(g, own) ELSE g
    BY <1>3 DEF collectNode, g, longer, new
  <2>10. LocatesNeighbours(f)
    BY DEF Sound
  <2> HIDE DEF g
  <2>11. CASE g.count = g.expected
    BY <2>6, <2>7, <2>8, <2>9, <2>11, BuildConsensusTransition
  <2>12. CASE g.count # g.expected
    BY <2>7, <2>8, <2>9, <2>12
  <2> QED
    BY <2>11, <2>12
<1> QED
  BY <1>2, <1>3

LEMMA ApplyPendingTransition ==
  ASSUME NEW own \in Node, NEW f \in Formation
  PROVE  /\ applyPendingFormation(f, own).swarm = f.swarm
         /\ f.located \cap Neighbours(applyPendingFormation(f, own))
              \subseteq applyPendingFormation(f, own).located
<1> DEFINE f1 == [f EXCEPT !.nodes = f.pending]
           f2 == [f1 EXCEPT !.count = Size(f.pending)]
           f3 == [f2 EXCEPT !.pending = EmptyList]
           f4 == [f3 EXCEPT !.expected = f.pendingExpected]
           f5 == [f4 EXCEPT !.leader = f.pendingLeader]
           f6 == [f5 EXCEPT !.updating = FALSE]
<1>1. applyPendingFormation(f, own) = buildConsensus(f6, own)
  BY DEF applyPendingFormation
<1>2. f.pending \in List /\ f.pendingExpected \in 0..255 /\ f.pendingLeader \in Node \cup {NoNode}
      /\ Size(f.pending) \in 0..255
  BY SizeBound DEF Formation
<1>3. f1 \in Formation /\ f1.swarm = f.swarm /\ f1.located = f.located
  BY <1>2 DEF Formation
<1> HIDE DEF f1
<1>4. f2 \in Formation /\ f2.swarm = f.swarm /\ f2.located = f.located
  BY <1>2, <1>3 DEF Formation
<1> HIDE DEF f2
<1>5. f3 \in Formation /\ f3.swarm = f.swarm /\ f3.located = f.located
  BY <1>4, EmptyListEmpty DEF Formation
<1> HIDE DEF f3
<1>6. f4 \in Formation /\ f4.swarm = f.swarm /\ f4.located = f.located
  BY <1>2, <1>5 DEF Formation
<1> HIDE DEF f4
<1>7. f5 \in Formation /\ f5.swarm = f.swarm /\ f5.located = f.located
  BY <1>2, <1>6 DEF Formation
<1> HIDE DEF f5
<1>8. FALSE \in BOOLEAN
  OBVIOUS
<1>9. f6 \in Formation
  BY <1>7, <1>8, SetUpdating, Zenon
<1>10. f6.swarm = f.swarm /\ f6.located = f.located
  BY <1>7 DEF Formation
<1> HIDE DEF f6
<1> QED
  BY <1>1, <1>9, <1>10, BuildConsensusTransition

LEMMA CollectPendingTransition ==
  ASSUME NEW own \in Node, NEW f, Sound(f, own), f.updating, NEW m \in NodeMessage
  PROVE  /\ collectPending(f, m, own).swarm = f.swarm
         /\ collectPending(f, m, own).updating => Flown(collectPending(f, m, own)) = Flown(f)
         /\ ~collectPending(f, m, own).updating => Complete(collectPending(f, m, own))
         /\ f.located \cap Neighbours(collectPending(f, m, own))
              \subseteq collectPending(f, m, own).located
<1> DEFINE new == upsertNode(f.pending, m.node, m.slot)
           g == [f EXCEPT !.pending = new]
<1>1. f \in Formation /\ new \in List
  BY UpsertSize DEF Sound, NodeMessage, Formation
<1> HIDE DEF new
<1>2. g \in Formation /\ Flown(g) = Flown(f)
  <2>1. g \in Formation
    BY <1>1 DEF Formation
  <2>2. g.nodes = f.nodes /\ g.offset = f.offset /\ g.expected = f.expected
          /\ g.leader = f.leader
    BY <1>1 DEF Formation
  <2> QED
    BY <2>1, <2>2 DEF Flown
<1>3. g.swarm = f.swarm /\ g.located = f.located /\ g.updating = f.updating
      /\ g.pendingExpected = f.pendingExpected
  BY <1>1 DEF Formation
<1>4. collectPending(f, m, own)
        = IF Size(g.pending) = g.pendingExpected THEN applyPendingFormation(g, own) ELSE g
  BY DEF collectPending, g, new
<1> HIDE DEF g
<1>5. CASE Size(g.pending) = g.pendingExpected
  BY <1>2, <1>3, <1>4, <1>5, ApplyPendingSound, ApplyPendingTransition DEF Complete
<1>6. CASE Size(g.pending) # g.pendingExpected
  BY <1>2, <1>3, <1>4, <1>6
<1> QED
  BY <1>5, <1>6

LEMMA NodeTransition ==
  ASSUME NEW own \in Node, NEW f, Sound(f, own), NEW m \in NodeMessage
  PROVE  /\ onNode(f, m, own).swarm = f.swarm
         /\ onNode(f, m, own).updating => Flown(onNode(f, m, own)) = Flown(f)
         /\ (\E n \in Node : f.nodes[n] \notin {NoSlot, onNode(f, m, own).nodes[n]})
              => Complete(onNode(f, m, own)) /\ ~onNode(f, m, own).updating
         /\ f.located \cap Neighbours(onNode(f, m, own)) \subseteq onNode(f, m, own).located
<1>1. CASE ~f.updating
  BY <1>1, CollectNodeTransition DEF onNode
<1>2. CASE f.updating /\ m.swarm = f.swarm
  <2>1. onNode(f, m, own) = collectPending(f, m, own)
    BY <1>2 DEF onNode
  <2>2. collectPending(f, m, own).updating => collectPending(f, m, own).nodes = f.nodes
    BY <1>2, CollectPendingTransition DEF Flown
  <2> QED
    BY <1>2, <2>1, <2>2, CollectPendingTransition
<1>3. CASE f.updating /\ m.swarm # f.swarm
  BY <1>3 DEF onNode
<1> QED
  BY <1>1, <1>2, <1>3

LEMMA LocateTransition ==
  ASSUME NEW f \in Formation, NEW positions
  PROVE  /\ \A field \in {"swarm", "expected", "leader", "nodes", "count", "offset", "updating"} :
              locate(f, positions)[field] = f[field]
         /\ f.located \subseteq locate(f, positions).located
BY DEF locate, Formation
-----------------------------------------------------------------------------
(***************************************************************************)
(* What a message leaves, field by field.                                   *)
(***************************************************************************)
LEMMA ManagementFields ==
  ASSUME NEW f \in Formation, NEW m \in Management
  PROVE  LET g == onManagement(f, m) IN
         /\ StartsUpdate(f, m) =>
              /\ g.swarm = f.swarm /\ g.expected = f.expected /\ g.leader = f.leader
              /\ g.nodes = f.nodes /\ g.located = f.located
              /\ g.updating = TRUE /\ g.pending = EmptyList
              /\ g.pendingExpected = m.count /\ g.pendingLeader = m.leader
         /\ ~StartsUpdate(f, m) =>
              /\ g.swarm = m.swarm /\ g.expected = m.count /\ g.leader = m.leader
              /\ g.nodes = (IF f.swarm = m.swarm THEN f.nodes ELSE EmptyList)
              /\ g.located = (IF f.swarm = m.swarm THEN f.located ELSE {})
              /\ g.updating = FALSE /\ g.pending = EmptyList
<1> DEFINE g == onManagement(f, m)
<1>1. ASSUME StartsUpdate(f, m)
      PROVE  /\ g.swarm = f.swarm /\ g.expected = f.expected /\ g.leader = f.leader
             /\ g.nodes = f.nodes /\ g.located = f.located
             /\ g.updating = TRUE /\ g.pending = EmptyList
             /\ g.pendingExpected = m.count /\ g.pendingLeader = m.leader
  <2>1. g = [f EXCEPT !.pending = EmptyList, !.pendingExpected = m.count,
                      !.pendingLeader = m.leader, !.updating = TRUE]
    BY <1>1 DEF onManagement
  <2> QED
    BY <2>1 DEF Formation
<1>2. ASSUME ~StartsUpdate(f, m)
      PROVE  /\ g.swarm = m.swarm /\ g.expected = m.count /\ g.leader = m.leader
             /\ g.nodes = (IF f.swarm = m.swarm THEN f.nodes ELSE EmptyList)
             /\ g.located = (IF f.swarm = m.swarm THEN f.located ELSE {})
             /\ g.updating = FALSE /\ g.pending = EmptyList
  <2> DEFINE base == IF f.swarm # m.swarm THEN reset(f) ELSE f
  <2>1. base \in Formation
    BY ResetSound, NodeAssumption, FS_EmptySet DEF Sound
  <2>2. /\ base.nodes = (IF f.swarm = m.swarm THEN f.nodes ELSE EmptyList)
        /\ base.located = (IF f.swarm = m.swarm THEN f.located ELSE {})
    BY DEF reset, NewFormation
  <2>3. g = [base EXCEPT !.updating = FALSE, !.pending = EmptyList,
                         !.expected = m.count, !.leader = m.leader, !.swarm = m.swarm]
    BY <1>2 DEF onManagement
  <2> HIDE DEF base
  <2> QED
    BY <2>1, <2>2, <2>3 DEF Formation
<1> HIDE DEF g
<1>3. onManagement(f, m) = g
  BY DEF g
<1> QED
  BY <1>1, <1>2, <1>3

\* Rebuilding the consensus touches no list of slots.
LEMMA BuildConsensusFields ==
  ASSUME NEW f \in Formation, NEW own
  PROVE  LET g == buildConsensus(f, own) IN
         /\ g.swarm = f.swarm /\ g.expected = f.expected /\ g.leader = f.leader
         /\ g.nodes = f.nodes /\ g.updating = f.updating /\ g.pending = f.pending
         /\ g.pendingExpected = f.pendingExpected /\ g.pendingLeader = f.pendingLeader
         /\ g.located \subseteq f.located
BY DEF buildConsensus, Formation

LEMMA CollectNodeFields ==
  ASSUME NEW own, NEW f \in Formation, NEW m \in NodeMessage
  PROVE  LET g == collectNode(f, m, own) IN
         /\ g.swarm = f.swarm /\ g.expected = f.expected /\ g.leader = f.leader
         /\ g.nodes = (IF f.nodes[m.node] = NoSlot THEN upsertNode(f.nodes, m.node, m.slot)
                                                   ELSE f.nodes)
         /\ g.updating = f.updating /\ g.pending = f.pending
         /\ g.pendingExpected = f.pendingExpected /\ g.pendingLeader = f.pendingLeader
         /\ g.located \subseteq f.located
<1> DEFINE new == upsertNode(f.nodes, m.node, m.slot)
           longer == [f EXCEPT !.nodes = new]
           h == [longer EXCEPT !.count = (f.count + 1) % 256]
           g == collectNode(f, m, own)
<1>1. new \in List /\ (f.count + 1) % 256 \in 0..255
  BY UpsertSize DEF Formation, NodeMessage
<1>2. CASE f.nodes[m.node] # NoSlot
  BY <1>2 DEF collectNode
<1>3. CASE f.nodes[m.node] = NoSlot
  <2>1. g = IF h.count = h.expected THEN buildConsensus(h, own) ELSE h
    BY <1>3 DEF collectNode
  <2> HIDE DEF new, g
  <2>2. longer \in Formation
    BY <1>1 DEF Formation
  <2>3. /\ longer.swarm = f.swarm /\ longer.expected = f.expected /\ longer.leader = f.leader
        /\ longer.nodes = new /\ longer.updating = f.updating /\ longer.pending = f.pending
        /\ longer.pendingExpected = f.pendingExpected /\ longer.pendingLeader = f.pendingLeader
        /\ longer.located = f.located
    BY DEF Formation
  <2> HIDE DEF longer
  <2>4. h \in Formation
    BY <1>1, <2>2 DEF Formation
  <2>5. /\ h.swarm = f.swarm /\ h.expected = f.expected /\ h.leader = f.leader
        /\ h.nodes = new /\ h.updating = f.updating /\ h.pending = f.pending
        /\ h.pendingExpected = f.pendingExpected /\ h.pendingLeader = f.pendingLeader
        /\ h.located = f.located
    BY <2>2, <2>3 DEF Formation
  <2> HIDE DEF h
  <2>6. /\ g.swarm = f.swarm /\ g.expected = f.expected /\ g.leader = f.leader
        /\ g.nodes = new /\ g.updating = f.updating /\ g.pending = f.pending
        /\ g.pendingExpected = f.pendingExpected /\ g.pendingLeader = f.pendingLeader
        /\ g.located \subseteq f.located
    <3>1. CASE h.count = h.expected
      BY <2>1, <2>4, <2>5, <3>1, BuildConsensusFields
    <3>2. CASE h.count # h.expected
      BY <2>1, <2>5, <3>2
    <3> QED
      BY <3>1, <3>2
  <2> QED
    BY <1>3, <2>6 DEF g, new
<1> QED
  BY <1>2, <1>3

\* The pending list becomes the list of nodes, with the leader and the size
\* that were announced.
LEMMA ApplyPendingFields ==
  ASSUME NEW own \in Node, NEW f \in Formation
  PROVE  LET g == applyPendingFormation(f, own) IN
         /\ g.swarm = f.swarm /\ g.expected = f.pendingExpected /\ g.leader = f.pendingLeader
         /\ g.nodes = f.pending /\ g.updating = FALSE /\ g.pending = EmptyList
         /\ g.located \subseteq f.located
<1> DEFINE f1 == [f EXCEPT !.nodes = f.pending]
           f2 == [f1 EXCEPT !.count = Size(f.pending)]
           f3 == [f2 EXCEPT !.pending = EmptyList]
           f4 == [f3 EXCEPT !.expected = f.pendingExpected]
           f5 == [f4 EXCEPT !.leader = f.pendingLeader]
           f6 == [f5 EXCEPT !.updating = FALSE]
<1>1. applyPendingFormation(f, own) = buildConsensus(f6, own)
  BY DEF applyPendingFormation
<1>2. f.pending \in List /\ f.pendingExpected \in 0..255 /\ f.pendingLeader \in Node \cup {NoNode}
      /\ Size(f.pending) \in 0..255
  BY SizeBound DEF Formation
<1>3. f1 \in Formation /\ f1.swarm = f.swarm /\ f1.located = f.located /\ f1.nodes = f.pending
  BY <1>2 DEF Formation
<1> HIDE DEF f1
<1>4. f2 \in Formation /\ f2.swarm = f.swarm /\ f2.located = f.located /\ f2.nodes = f.pending
  BY <1>2, <1>3 DEF Formation
<1> HIDE DEF f2
<1>5. f3 \in Formation /\ f3.swarm = f.swarm /\ f3.located = f.located /\ f3.nodes = f.pending
        /\ f3.pending = EmptyList
  BY <1>4, EmptyListEmpty DEF Formation
<1> HIDE DEF f3
<1>6. f4 \in Formation /\ f4.swarm = f.swarm /\ f4.located = f.located /\ f4.nodes = f.pending
        /\ f4.pending = EmptyList /\ f4.expected = f.pendingExpected
  BY <1>2, <1>5 DEF Formation
<1> HIDE DEF f4
<1>7. f5 \in Formation /\ f5.swarm = f.swarm /\ f5.located = f.located /\ f5.nodes = f.pending
        /\ f5.pending = EmptyList /\ f5.expected = f.pendingExpected
        /\ f5.leader = f.pendingLeader
  BY <1>2, <1>6 DEF Formation
<1> HIDE DEF f5
<1>8. FALSE \in BOOLEAN
  OBVIOUS
<1>9. f6 \in Formation
  BY <1>7, <1>8, SetUpdating, Zenon
<1>10. /\ f6.swarm = f.swarm /\ f6.located = f.located /\ f6.nodes = f.pending
       /\ f6.pending = EmptyList /\ f6.expected = f.pendingExpected
       /\ f6.leader = f.pendingLeader /\ f6.updating = FALSE
  BY <1>7 DEF Formation
<1> HIDE DEF f6
<1> QED
  BY <1>1, <1>9, <1>10, BuildConsensusFields

LEMMA CollectPendingFields ==
  ASSUME NEW own \in Node, NEW f \in Formation, NEW m \in NodeMessage
  PROVE  LET g == collectPending(f, m, own)
             new == upsertNode(f.pending, m.node, m.slot)
         IN
         /\ g.swarm = f.swarm /\ g.located \subseteq f.located
         /\ Size(new) = f.pendingExpected =>
              /\ g.expected = f.pendingExpected /\ g.leader = f.pendingLeader
              /\ g.nodes = new /\ g.updating = FALSE /\ g.pending = EmptyList
         /\ Size(new) # f.pendingExpected =>
              /\ g.expected = f.expected /\ g.leader = f.leader /\ g.nodes = f.nodes
              /\ g.updating = f.updating /\ g.pending = new
              /\ g.pendingExpected = f.pendingExpected /\ g.pendingLeader = f.pendingLeader
<1> DEFINE new == upsertNode(f.pending, m.node, m.slot)
           h == [f EXCEPT !.pending = new]
           g == collectPending(f, m, own)
<1>1. new \in List
  BY UpsertSize DEF NodeMessage, Formation
<1>2. g = IF Size(h.pending) = h.pendingExpected THEN applyPendingFormation(h, own) ELSE h
  BY DEF collectPending
<1> HIDE DEF new, g
<1>3. h \in Formation
  BY <1>1 DEF Formation
<1>4. /\ h.swarm = f.swarm /\ h.expected = f.expected /\ h.leader = f.leader
      /\ h.nodes = f.nodes /\ h.updating = f.updating /\ h.pending = new
      /\ h.pendingExpected = f.pendingExpected /\ h.pendingLeader = f.pendingLeader
      /\ h.located = f.located
  BY DEF Formation
<1> HIDE DEF h
<1>5. /\ g.swarm = f.swarm /\ g.located \subseteq f.located
      /\ Size(new) = f.pendingExpected =>
           /\ g.expected = f.pendingExpected /\ g.leader = f.pendingLeader
           /\ g.nodes = new /\ g.updating = FALSE /\ g.pending = EmptyList
      /\ Size(new) # f.pendingExpected =>
           /\ g.expected = f.expected /\ g.leader = f.leader /\ g.nodes = f.nodes
           /\ g.updating = f.updating /\ g.pending = new
           /\ g.pendingExpected = f.pendingExpected /\ g.pendingLeader = f.pendingLeader
  <2>1. CASE Size(new) = f.pendingExpected
    <3>1. g = applyPendingFormation(h, own)
      BY <1>2, <1>4, <2>1
    <3>2. /\ g.swarm = h.swarm /\ g.expected = h.pendingExpected /\ g.leader = h.pendingLeader
          /\ g.nodes = h.pending /\ g.updating = FALSE /\ g.pending = EmptyList
          /\ g.located \subseteq h.located
      BY <1>3, <3>1, ApplyPendingFields
    <3> QED
      BY <1>4, <2>1, <3>2
  <2>2. CASE Size(new) # f.pendingExpected
    BY <1>2, <1>4, <2>2
  <2> QED
    BY <2>1, <2>2
<1> QED
  BY <1>5 DEF g, new

-----------------------------------------------------------------------------
(***************************************************************************)
(* What a message leaves, in the terms of SwarmMembership: no counter, no   *)
(* second list.                                                             *)
(***************************************************************************)
LEMMA MemberType ==
  ASSUME NEW f \in Formation, NEW x
  PROVE  MemberOf(f, x) \in Member(x)
BY DEF MemberOf, Member, Replacement, Formation

LEMMA FreshMember ==
  ASSUME NEW f \in Formation, NEW x
  PROVE  /\ MemberOf(NewFormation, x) =
              [swarm |-> NoSwarm, expected |-> 0, leader |-> NoNode, slots |-> EmptyList,
               next |-> x]
         /\ MemberOf(reset(f), x) = MemberOf(NewFormation, x)
BY DEF MemberOf, reset, NewFormation

LEMMA ConfiguredMember ==
  ASSUME NEW f \in Formation, NEW m \in Management, NEW x
  PROVE  LET c == MemberOf(f, x) IN
         MemberOf(onManagement(f, m), x) =
           IF m.type = "update" /\ c.swarm # NoSwarm /\ m.swarm = c.swarm
           THEN [c EXCEPT !.next = [expected |-> m.count, leader |-> m.leader,
                                    slots |-> EmptyList]]
           ELSE [swarm |-> m.swarm, expected |-> m.count, leader |-> m.leader,
                 slots |-> IF c.swarm = m.swarm THEN c.slots ELSE EmptyList, next |-> x]
<1> DEFINE g == onManagement(f, m)
           c == MemberOf(f, x)
<1>1. m.swarm # NoSwarm
  BY SwarmAssumption DEF Management
<1>2. c.swarm = f.swarm /\ c.slots = f.nodes
  BY DEF MemberOf
<1>3. ASSUME StartsUpdate(f, m)
      PROVE  MemberOf(g, x) = [c EXCEPT !.next = [expected |-> m.count, leader |-> m.leader,
                                                  slots |-> EmptyList]]
  <2>1. /\ g.swarm = f.swarm /\ g.expected = f.expected /\ g.leader = f.leader
        /\ g.nodes = f.nodes /\ g.updating = TRUE /\ g.pending = EmptyList
        /\ g.pendingExpected = m.count /\ g.pendingLeader = m.leader
    BY <1>3, ManagementFields
  <2> HIDE DEF g
  <2> QED
    BY <2>1 DEF MemberOf
<1>4. ASSUME ~StartsUpdate(f, m)
      PROVE  MemberOf(g, x) =
               [swarm |-> m.swarm, expected |-> m.count, leader |-> m.leader,
                slots |-> IF f.swarm = m.swarm THEN f.nodes ELSE EmptyList, next |-> x]
  <2>1. /\ g.swarm = m.swarm /\ g.expected = m.count /\ g.leader = m.leader
        /\ g.nodes = (IF f.swarm = m.swarm THEN f.nodes ELSE EmptyList)
        /\ g.updating = FALSE
    BY <1>4, ManagementFields
  <2> HIDE DEF g
  <2> QED
    BY <1>1, <2>1 DEF MemberOf
<1>5. StartsUpdate(f, m) <=> m.type = "update" /\ c.swarm # NoSwarm /\ m.swarm = c.swarm
  BY <1>2 DEF StartsUpdate
<1> HIDE DEF g, c
<1>6. MemberOf(g, x) =
        IF m.type = "update" /\ c.swarm # NoSwarm /\ m.swarm = c.swarm
        THEN [c EXCEPT !.next = [expected |-> m.count, leader |-> m.leader, slots |-> EmptyList]]
        ELSE [swarm |-> m.swarm, expected |-> m.count, leader |-> m.leader,
              slots |-> IF c.swarm = m.swarm THEN c.slots ELSE EmptyList, next |-> x]
  BY <1>2, <1>3, <1>4, <1>5
<1> QED
  BY <1>6 DEF g, c

LEMMA PlacedMember ==
  ASSUME NEW own \in Node, NEW f, Sound(f, own), NEW m \in NodeMessage,
         NEW x, x \notin Replacement
  PROVE  LET c == MemberOf(f, x)
             next == [c.next EXCEPT !.slots[m.node] = m.slot]
         IN
         MemberOf(onNode(f, m, own), x) =
           IF c.next # x
           THEN IF m.swarm = c.swarm
                THEN IF Size(next.slots) = next.expected
                     THEN [swarm |-> c.swarm, expected |-> next.expected,
                           leader |-> next.leader, slots |-> next.slots, next |-> x]
                     ELSE [c EXCEPT !.next = next]
                ELSE c
           ELSE IF c.slots[m.node] = NoSlot THEN [c EXCEPT !.slots[m.node] = m.slot] ELSE c
<1> DEFINE c == MemberOf(f, x)
           g == onNode(f, m, own)
           longer == upsertNode(f.nodes, m.node, m.slot)
           new == upsertNode(f.pending, m.node, m.slot)
           next == [c.next EXCEPT !.slots[m.node] = m.slot]
<1>1. f \in Formation /\ (f.updating => f.swarm # NoSwarm)
  BY DEF Sound, PendingUnfinished
<1>2. /\ c.swarm = f.swarm /\ c.slots = f.nodes
      /\ ~f.updating => c.next = x
      /\ f.updating => c.next = [expected |-> f.pendingExpected, leader |-> f.pendingLeader,
                                 slots |-> f.pending]
  BY DEF MemberOf
<1>3. f.updating => c.next # x
  <2>1. f.updating => c.next \in Replacement
    BY <1>1, <1>2 DEF Replacement, Formation
  <2> QED
    BY <2>1
<1>4. f.updating => next = [expected |-> f.pendingExpected, leader |-> f.pendingLeader,
                            slots |-> new]
  BY <1>2 DEF upsertNode
<1>5. ASSUME ~f.updating
      PROVE  MemberOf(g, x) = IF f.nodes[m.node] = NoSlot THEN [c EXCEPT !.slots = longer] ELSE c
  <2>1. g = collectNode(f, m, own) /\ f.updating = FALSE
    BY <1>1, <1>5 DEF onNode, Formation
  <2> HIDE DEF g
  <2>2. /\ g.swarm = f.swarm /\ g.expected = f.expected /\ g.leader = f.leader
        /\ g.nodes = (IF f.nodes[m.node] = NoSlot THEN longer ELSE f.nodes)
        /\ g.updating = FALSE
    BY <1>1, <2>1, CollectNodeFields
  <2> HIDE DEF longer
  <2> QED
    BY <1>5, <2>2 DEF MemberOf
<1>6. ASSUME f.updating, m.swarm # f.swarm PROVE MemberOf(g, x) = c
  BY <1>6 DEF onNode
<1>7. ASSUME f.updating, m.swarm = f.swarm
      PROVE  /\ Size(new) = f.pendingExpected =>
                  MemberOf(g, x) = [swarm |-> f.swarm, expected |-> f.pendingExpected,
                                    leader |-> f.pendingLeader, slots |-> new, next |-> x]
             /\ Size(new) # f.pendingExpected =>
                  MemberOf(g, x) =
                    [c EXCEPT !.next = [expected |-> f.pendingExpected,
                                        leader |-> f.pendingLeader, slots |-> new]]
  <2>1. g = collectPending(f, m, own)
    BY <1>7 DEF onNode
  <2> HIDE DEF g
  <2>2. /\ g.swarm = f.swarm
        /\ Size(new) = f.pendingExpected =>
             /\ g.expected = f.pendingExpected /\ g.leader = f.pendingLeader
             /\ g.nodes = new /\ g.updating = FALSE
        /\ Size(new) # f.pendingExpected =>
             /\ g.expected = f.expected /\ g.leader = f.leader /\ g.nodes = f.nodes
             /\ g.updating = f.updating /\ g.pending = new
             /\ g.pendingExpected = f.pendingExpected /\ g.pendingLeader = f.pendingLeader
    BY <1>1, <2>1, CollectPendingFields
  <2> HIDE DEF new
  <2>3. CASE Size(new) = f.pendingExpected
    <3>1. /\ g.swarm = f.swarm /\ g.expected = f.pendingExpected
          /\ g.leader = f.pendingLeader /\ g.nodes = new /\ ~g.updating
      BY <2>2, <2>3
    <3> QED
      BY <1>1, <1>7, <2>3, <3>1 DEF MemberOf
  <2>4. CASE Size(new) # f.pendingExpected
    <3>1. /\ g.swarm = f.swarm /\ g.expected = f.expected /\ g.leader = f.leader
          /\ g.nodes = f.nodes /\ g.updating /\ g.pending = new
          /\ g.pendingExpected = f.pendingExpected /\ g.pendingLeader = f.pendingLeader
      BY <1>7, <2>2, <2>4
    <3> QED
      BY <1>7, <2>4, <3>1 DEF MemberOf
  <2> QED
    BY <2>3, <2>4
<1>8. [c EXCEPT !.slots[m.node] = m.slot] = [c EXCEPT !.slots = longer]
  BY <1>2 DEF upsertNode
<1> HIDE DEF c, g, longer, new, next
<1>9. CASE ~f.updating
  <2>1. MemberOf(g, x) = IF c.slots[m.node] = NoSlot THEN [c EXCEPT !.slots[m.node] = m.slot] ELSE c
    BY <1>2, <1>5, <1>8, <1>9
  <2> QED
    BY <1>2, <1>9, <2>1 DEF c, g
<1>10. CASE f.updating /\ m.swarm # f.swarm
  <2>1. MemberOf(g, x) = c /\ c.next # x /\ m.swarm # c.swarm
    BY <1>2, <1>3, <1>6, <1>10
  <2> QED
    BY <2>1 DEF c, g
<1>11. CASE f.updating /\ m.swarm = f.swarm
  <2>1. c.next # x /\ m.swarm = c.swarm
    BY <1>2, <1>3, <1>11
  <2>2. next.expected = f.pendingExpected /\ next.leader = f.pendingLeader /\ next.slots = new
    BY <1>4, <1>11
  <2>3. MemberOf(g, x) = IF Size(next.slots) = next.expected
                         THEN [swarm |-> c.swarm, expected |-> next.expected,
                               leader |-> next.leader, slots |-> next.slots, next |-> x]
                         ELSE [c EXCEPT !.next = next]
    BY <1>2, <1>4, <1>7, <1>11, <2>2
  <2> QED
    BY <2>1, <2>3 DEF c, g, next
<1> QED
  BY <1>9, <1>10, <1>11

\* A formation that is flown is whole, and the offsets of the neighbours whose
\* position is known are differences of its slots.
LEMMA FlownIsWhole ==
  ASSUME NEW own \in Node, NEW f, Sound(f, own), Flying(f), NEW n \in f.located
  PROVE  /\ Size(f.nodes) = f.expected /\ f.expected > 1 /\ n # own
         /\ {own, n} \subseteq Listed(f.nodes) /\ f.offset[n] = <<f.nodes[own], f.nodes[n]>>
BY DEF Sound, Formation, Flying, Complete, CountsNodes, CouplesListed, LocatesNeighbours,
       Neighbours, Listed
=============================================================================
