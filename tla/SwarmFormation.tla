--------------------------- MODULE SwarmFormation ---------------------------
(***************************************************************************)
(* The formation bookkeeping of one vehicle, as PX4's FlightTaskSwarm keeps *)
(* it: which swarm the vehicle is in, the slots it has collected, the       *)
(* neighbours the control law couples to, and the replacement formation     *)
(* that is collected while the current one is flown.                        *)
(*                                                                          *)
(* No variables: a formation is a record, a handler maps it to a record.    *)
(* An x/y offset is abstracted to a slot; the offset of a neighbour, which  *)
(* the code computes as own.x - node.x, is the pair of slots subtracted.    *)
(***************************************************************************)
EXTENDS Integers, FiniteSets

CONSTANTS
  Node,      \* system ids of the vehicles
  Slot,      \* the offsets a SWARM_NODE can carry
  Swarm,     \* swarm ids a GCS hands out
  NoNode,    \* leader id 0 of a task that never saw a management message
  NoSlot,    \* "not in this list"
  NoSwarm    \* swarm id 0

ASSUME NodeAssumption ==
  /\ IsFiniteSet(Node)
  /\ Cardinality(Node) \in 1..255     \* ids and counters are uint8_t
  /\ NoNode \notin Node
ASSUME SlotAssumption == NoSlot \notin Slot /\ NoSlot \notin Slot \X Slot
ASSUME SwarmAssumption == NoSwarm \notin Swarm

(***************************************************************************)
(* Messages as mavlink_receiver.cpp publishes them. The count is a uint8_t;  *)
(* the ground station counts the slots it sends, and there is one or more.   *)
(***************************************************************************)
Management ==
  [type : {"create", "update"}, swarm : Swarm, count : 1..255, leader : Node]

NodeMessage == [swarm : Swarm, node : Node, slot : Slot]

(***************************************************************************)
(* Lists keyed by node id (IntrusiveSortedList<Node *>, _node_list and      *)
(* _pending_list).                                                          *)
(***************************************************************************)
List == [Node -> Slot \cup {NoSlot}]
EmptyList == [n \in Node |-> NoSlot]
Listed(list) == {n \in Node : list[n] # NoSlot}
Size(list) == Cardinality(Listed(list))

upsertNode(list, n, slot) == [list EXCEPT ![n] = slot]

Formation ==
  [swarm           : Swarm \cup {NoSwarm},             \* _swarm_id
   expected        : 0..255,                           \* _no_of_nodes
   leader          : Node \cup {NoNode},               \* _leader_id
   nodes           : List,                             \* _node_list
   count           : 0..255,                           \* _node_count
   offset          : [Node -> (Slot \X Slot) \cup {NoSlot}],  \* _consensus_list
   located         : SUBSET Node,                      \* its has_position flags
   updating        : BOOLEAN,                          \* _updating_formation
   pending         : List,                             \* _pending_list
   pendingExpected : 0..255,                           \* _pending_expected
   pendingLeader   : Node \cup {NoNode}]               \* _pending_leader_id

\* A task as its constructor leaves it.
NewFormation ==
  [swarm |-> NoSwarm, expected |-> 0, leader |-> NoNode, nodes |-> EmptyList, count |-> 0,
   offset |-> EmptyList, located |-> {}, updating |-> FALSE, pending |-> EmptyList,
   pendingExpected |-> 0, pendingLeader |-> NoNode]

(***************************************************************************)
(* The operators named ...Wrong are plausible mistakes in the operator that *)
(* follows them. No specification uses them: a run in which one takes the   *)
(* place of the right operator must report a violation.                     *)
(***************************************************************************)
\* The collected slots survive a reset.
resetWrong(f) ==
  [NewFormation EXCEPT !.nodes = f.nodes, !.count = f.count,
                       !.leader = f.leader, !.pendingLeader = f.pendingLeader]

\* The leader id survives a reset: reset() does not touch it.
reset(f) ==
  [NewFormation EXCEPT !.leader = f.leader, !.pendingLeader = f.pendingLeader]

\* Positions of neighbours that stay are not copied.
buildConsensusWrong(f, own) ==
  LET neighbours == IF f.nodes[own] = NoSlot THEN {} ELSE Listed(f.nodes) \ {own}
  IN  [f EXCEPT
         !.offset  = [n \in Node |-> IF n \in neighbours THEN <<f.nodes[own], f.nodes[n]>>
                                                         ELSE NoSlot],
         !.located = {}]

\* A vehicle missing from its own list is not noticed.
buildUncheckedWrong(f, own) ==
  LET neighbours == Listed(f.nodes) \ {own}
  IN  [f EXCEPT
         !.offset  = [n \in Node |-> IF n \in neighbours THEN <<f.nodes[own], f.nodes[n]>>
                                                         ELSE NoSlot],
         !.located = @ \cap neighbours]

\* Offsets are rebuilt from the node list; a vehicle missing from its own
\* list couples to nobody; neighbours that stay keep their position.
buildConsensus(f, own) ==
  LET neighbours == IF f.nodes[own] = NoSlot THEN {} ELSE Listed(f.nodes) \ {own}
  IN  [f EXCEPT
         !.offset  = [n \in Node |-> IF n \in neighbours THEN <<f.nodes[own], f.nodes[n]>>
                                                         ELSE NoSlot],
         !.located = @ \cap neighbours]

\* The consensus is not rebuilt.
applyPendingFormationWrong(f, own) ==
  [f EXCEPT !.nodes = f.pending, !.count = Size(f.pending), !.pending = EmptyList,
            !.expected = f.pendingExpected, !.leader = f.pendingLeader, !.updating = FALSE]

applyPendingFormation(f, own) ==
  buildConsensus([f EXCEPT !.nodes = f.pending, !.count = Size(f.pending),
                           !.pending = EmptyList, !.expected = f.pendingExpected,
                           !.leader = f.pendingLeader, !.updating = FALSE],
                 own)

(***************************************************************************)
(* The two configuration messages.                                          *)
(***************************************************************************)
StartsUpdate(f, m) == m.type = "update" /\ f.swarm # NoSwarm /\ m.swarm = f.swarm

\* An update already expects the new number of nodes.
updateWrong(f, m) ==
  IF StartsUpdate(f, m)
  THEN [f EXCEPT !.pending = EmptyList, !.pendingExpected = m.count, !.expected = m.count,
                 !.pendingLeader = m.leader, !.updating = TRUE]
  ELSE [(IF f.swarm # m.swarm THEN reset(f) ELSE f) EXCEPT
          !.updating = FALSE, !.pending = EmptyList,
          !.expected = m.count, !.leader = m.leader, !.swarm = m.swarm]

\* A create for the swarm the vehicle is in forgets to drop a pending update.
createWrong(f, m) ==
  IF StartsUpdate(f, m)
  THEN [f EXCEPT !.pending = EmptyList, !.pendingExpected = m.count,
                 !.pendingLeader = m.leader, !.updating = TRUE]
  ELSE [(IF f.swarm # m.swarm THEN reset(f) ELSE f) EXCEPT
          !.updating = FALSE, !.expected = m.count, !.leader = m.leader, !.swarm = m.swarm]

onManagement(f, m) ==
  IF StartsUpdate(f, m)
  THEN [f EXCEPT !.pending = EmptyList, !.pendingExpected = m.count,
                 !.pendingLeader = m.leader, !.updating = TRUE]
  ELSE [(IF f.swarm # m.swarm THEN reset(f) ELSE f) EXCEPT
          !.updating = FALSE, !.pending = EmptyList,
          !.expected = m.count, !.leader = m.leader, !.swarm = m.swarm]

\* A vehicle that is told to create a swarm it leads asks for Hold.
AsksForHold(f, m, own) == ~StartsUpdate(f, m) /\ m.leader = own

collectPending(f, m, own) ==
  LET g == [f EXCEPT !.pending = upsertNode(@, m.node, m.slot)]
  IN  IF Size(g.pending) = g.pendingExpected THEN applyPendingFormation(g, own) ELSE g

\* A node that is sent again is counted again.
collectNodeWrong(f, m, own) ==
  LET g == [f EXCEPT !.nodes = upsertNode(@, m.node, m.slot), !.count = (@ + 1) % 256]
  IN  IF g.count = g.expected THEN buildConsensus(g, own) ELSE g

\* The nodes that are missing are counted down, also when none is expected.
collectMissingWrong(f, m, own) ==
  LET g == [f EXCEPT !.nodes = upsertNode(@, m.node, m.slot), !.expected = @ - 1]
  IN  IF f.nodes[m.node] # NoSlot THEN f
      ELSE IF g.expected = 0 THEN buildConsensus(g, own) ELSE g

\* Outside an update the swarm id is not compared, and a known node is kept.
collectNode(f, m, own) ==
  LET g == [f EXCEPT !.nodes = upsertNode(@, m.node, m.slot), !.count = (@ + 1) % 256]
  IN  IF f.nodes[m.node] # NoSlot THEN f
      ELSE IF g.count = g.expected THEN buildConsensus(g, own) ELSE g

\* An offset that arrives during an update is used at once.
onNodeWrong(f, m, own) ==
  IF ~f.updating THEN collectNode(f, m, own)
  ELSE IF m.swarm = f.swarm
       THEN buildConsensus([f EXCEPT !.nodes = upsertNode(@, m.node, m.slot)], own) ELSE f

onNode(f, m, own) ==
  IF ~f.updating THEN collectNode(f, m, own)
  ELSE IF m.swarm = f.swarm THEN collectPending(f, m, own) ELSE f

\* The position of any vehicle is kept.
locateWrong(f, positions) == [f EXCEPT !.located = @ \cup positions]

\* Positions are only kept of the neighbours the consensus is built on.
locate(f, positions) ==
  [f EXCEPT !.located = @ \cup {n \in positions : f.offset[n] # NoSlot}]

(***************************************************************************)
(* What the control law and SWARM_STATUS read off a formation.              *)
(***************************************************************************)
Complete(f) == f.count = f.expected
Flying(f) == Complete(f) /\ f.expected > 1

Neighbours(f) == {n \in Node : f.offset[n] # NoSlot}

\* All that decides how the formation is flown.
Flown(f) == <<f.nodes, f.offset, f.expected, f.leader>>

State(f) ==
  CASE f.updating           -> "updating"
    [] ~f.updating /\ f.swarm = NoSwarm -> "idle"
    [] ~f.updating /\ f.swarm # NoSwarm /\ Complete(f)  -> "active"
    [] ~f.updating /\ f.swarm # NoSwarm /\ ~Complete(f) -> "collecting"

Replacement == [expected : 0..255, leader : Node \cup {NoNode}, slots : List]
Member(noChange) ==
  [swarm : Swarm \cup {NoSwarm}, expected : 0..255, leader : Node \cup {NoNode},
   slots : List, next : Replacement \cup {noChange}]

\* What SwarmMembership knows of a formation: whom the vehicle would follow is
\* nobody's business until it is in a swarm.
MemberOf(f, noChange) ==
  [swarm |-> f.swarm, expected |-> f.expected,
   leader |-> IF f.swarm = NoSwarm THEN NoNode ELSE f.leader, slots |-> f.nodes,
   next |-> IF f.updating
            THEN [expected |-> f.pendingExpected, leader |-> f.pendingLeader, slots |-> f.pending]
            ELSE noChange]

(***************************************************************************)
(* What the bookkeeping of a vehicle must keep true between two handlers.   *)
(***************************************************************************)
\* The hand-kept counter is the size of the list it stands for.
CountsNodes(f) == f.count = Size(f.nodes)

\* own couples to its neighbours at the difference of the listed slots.
CouplesListed(f, own) ==
  \A n \in Neighbours(f) :
    /\ n # own
    /\ f.nodes[own] # NoSlot /\ f.nodes[n] # NoSlot
    /\ f.offset[n] = <<f.nodes[own], f.nodes[n]>>

\* A complete replacement is never left waiting, and none waits for nothing.
PendingUnfinished(f) ==
  /\ f.updating => f.swarm # NoSwarm /\ Size(f.pending) < f.pendingExpected
  /\ ~f.updating => f.pending = EmptyList

\* Positions are known of neighbours only.
LocatesNeighbours(f) == f.located \subseteq Neighbours(f)
=============================================================================
