-------------------------- MODULE SwarmFleetProofs --------------------------
(***************************************************************************)
(* Proofs about the ground station's scripts and the fleet, for any number  *)
(* of vehicles, operations and faults:                                      *)
(*   - types (FInv), whatever happens;                                      *)
(*   - a script without faults ends with every vehicle in the formation on  *)
(*     the card, whatever went wrong before it (Tracks);                    *)
(*   - nobody flies a mix of two formations, also when slots and changes of *)
(*     mode are lost (Routes).                                              *)
(* The last two rest on what a new swarm needs (News): nobody knows its id.   *)
(***************************************************************************)
EXTENDS SwarmFleet, FlightTaskSwarmProofs, SequenceTheorems, FunctionTheorems

\* The number of members, which every announcement gives.
Total == Len(Members)

\* What a script announces: a swarm, its leader, its slots.
Aim == [swarm : Swarm, leader : Node, slots : Formations]

\* The slots of the members in K.
Chosen(slots, K) == [m \in Node |-> IF m \in K THEN slots[m] ELSE NoSlot]

\* The first k members.
First(k) == {Members[i] : i \in 1..k}

\* The formation, or the one being collected, holds exactly the slots of K that a
\* announces. An update that is complete is flown: K # Node.
Collected(f, a, K) ==
  /\ f.swarm = a.swarm
  /\ \/ /\ f.updating /\ K # Node
        /\ f.pending = Chosen(a.slots, K) /\ f.pendingExpected = Total
        /\ f.pendingLeader = a.leader
     \/ /\ ~f.updating
        /\ f.nodes = Chosen(a.slots, K) /\ f.expected = Total /\ f.leader = a.leader

\* The two messages of a script with aim a: its announcement, and the slot of n.
Announcing(m, a) == m.swarm = a.swarm /\ m.count = Total /\ m.leader = a.leader
Placing(a, n) == [swarm |-> a.swarm, node |-> n, slot |-> a.slots[n]]

\* v has taken in the announcement of a and the slots of K, the last message perhaps
\* not yet read by its task. Only the creation of a swarm v is not in starts a list.
OnTheWay(v, a, K) ==
  \/ Collected(formation[v], a, K) /\ ~Unread(management[v]) /\ ~Unread(node[v])
  \/ /\ K = {} /\ Unread(management[v]) /\ ~Unread(node[v])
     /\ Announcing(management[v].last, a)
     /\ management[v].last.type = "create" => formation[v].swarm # a.swarm
  \/ \E n \in Node, L \in SUBSET Node :
       /\ K = L \cup {n} /\ ~Unread(management[v]) /\ Unread(node[v])
       /\ node[v].last = Placing(a, n) /\ Collected(formation[v], a, L)

\* Everything v has yet to get, on its link or still to be published.
Rest(v) == link[v] \o todo

\* Announcements of swarm id; v may have taken in one, read or not.
About(packet, id) == packet.kind = "management" /\ packet.message.swarm = id
Heard(v, id) ==
  formation[v].swarm = id \/ (management[v].last # Nothing /\ management[v].last.swarm = id)

\* Types, and what the panel relies on: a card has a status, one with a leader has
\* slots, and a script has an aim as long as it runs, alone if it is clean.
FInv ==
  /\ IInv /\ FleetTypeOK
  /\ \A id \in Swarm : /\ record[id] # NoRecord => record[id].status # "none"
                       /\ record[id].leader # NoNode => record[id].slots \in Formations
  /\ script # NoScript => script.swarm \in Swarm /\ script.slots \in Formations
  /\ script = NoScript => todo = <<>>
  /\ \A e \in earlier : e.script.swarm \in Swarm /\ e.script.slots \in Formations
  /\ earlier # {} => overlapped /\ ~clean

\* The announcement that creates swarm id. Unheard: v knows nothing of swarm id, and
\* the next d messages do not change that.
Creates(packet, id) == About(packet, id) /\ packet.message.type = "create"
Unheard(v, id, d) == ~Heard(v, id) /\ \A j \in 1..d : ~About(Rest(v)[j], id)

\* Nobody knew the id of a new swarm so far and no scripts overlapped, or at least
\* since the script began that places its slots after the d-th message to v.
Trusted(v, d) == (~reused /\ ~overlapped) \/ (clean /\ Len(Rest(v)) = d + Total)

\* Whoever gets such an announcement that creates a swarm has not heard of it: a
\* list starts empty.
News ==
  \A id \in Swarm, v \in Px4 : \A d \in 1..Len(Rest(v)) :
    Trusted(v, d) /\ Creates(Rest(v)[d], id) => Unheard(v, id, d - 1)

\* At most one card has members. Without a fault, a Dissolve or another script the
\* script that runs finds it there when it ends, with the slots of a deployment.
Cards ==
  /\ \A i, j \in Swarm : record[i].leader # NoNode /\ record[j].leader # NoNode => i = j
  /\ clean /\ script # NoScript =>
       /\ record[script.swarm].leader # NoNode
       /\ script.type # "update" => record[script.swarm].slots = script.slots

\* What the ground station wants of swarm id: the formation of the script that
\* runs, otherwise the one on the card.
AimedAt(a, id) ==
  /\ record[id].leader # NoNode
  /\ a = [swarm |-> id, leader |-> record[id].leader,
          slots |-> IF script # NoScript THEN script.slots ELSE record[id].slots]

\* Counted from the end of what v has yet to get: the last Total messages place the
\* members in order, the one before them announces a, and as soon as that is taken
\* in v has collected exactly the members whose slots it got.
OnTrack(v, a) ==
  LET R == Rest(v) IN
  /\ \A j \in 1..Len(R), k \in 1..Total : j + Total = Len(R) + k =>
       R[j] = Place(Placing(a, Members[k]))
  /\ \A d \in 1..Len(R) : Len(R) = d + Total =>
       R[d].kind = "management" /\ Announcing(R[d].message, a)
  /\ \A k \in 0..Total : Len(R) + k = Total /\ nav[v] = "Swarm" =>
       task[v] /\ OnTheWay(v, a, First(k))

\* Since a script began without a fault, everybody is somewhere on its track.
Tracks ==
  clean => \A id \in Swarm, v \in Px4, a \in Aim : AimedAt(a, id) => OnTrack(v, a)

\* What is inductive about scripts without faults.
CleanInv == FInv /\ News /\ Cards /\ Tracks

\* A formation that was sent for a swarm.
Scripted(a) == a \in Aim /\ a.slots \in sent[a.swarm]

\* No announcement lies between the d-th and the j-th message.
Follows(S, d, j) == d < j /\ \A i \in 1..(j - 1) : d < i => S[i].kind # "management"

\* Up to the next announcement all slots are those of a, and none comes after a
\* change to the Swarm mode.
Serves(S, d, a) ==
  \A j \in 1..Len(S) : Follows(S, d, j) /\ S[j].kind = "node" =>
    /\ \E n \in Node : S[j].message = Placing(a, n)
    /\ \A i \in 1..(j - 1) : d < i => S[i] # Mode("Swarm")

\* No slot comes before the next announcement.
Bare(S) == \A j \in 1..Len(S) : Follows(S, 0, j) => S[j].kind # "node"

\* v has collected some of the slots of a, or has left the mode and forgotten them.
Reached(v, a) == nav[v] = "Swarm" => task[v] /\ \E K \in SUBSET Node : OnTheWay(v, a, K)

\* v has nothing unread that could change what it flies.
Idle(v) == nav[v] = "Swarm" /\ task[v] => ~Unread(management[v]) /\ ~Unread(node[v])

\* Whatever is announced was sent, and only its own slots follow it.
Announced(S) ==
  \A d \in 1..Len(S) : S[d].kind = "management" =>
    \E a : Scripted(a) /\ Announcing(S[d].message, a) /\ Serves(S, d, a)

\* Where v is: the slots that come next belong to what it collects, or none come
\* before another announcement.
Here(v, S) ==
  \/ \E a : Scripted(a) /\ Reached(v, a) /\ Serves(S, 0, a)
  \/ Idle(v) /\ Bare(S)

\* What v flies is one formation that was sent for its swarm.
NotMixed(v) ==
  Flying(formation[v]) =>
    formation[v].swarm \in Swarm /\ formation[v].nodes \in sent[formation[v].swarm]

\* What v flies, will read and has collected belong together.
OnRoute(v) == NotMixed(v) /\ \E S : S = Rest(v) /\ Announced(S) /\ Here(v, S)

\* Slots may be missing, but none is taken for one of another formation.
Routes ==
  announced /\ rushed = 0 /\ ~overlapped /\ ~reused => \A v \in Px4 : OnRoute(v)

\* What is inductive about scripts of which slots and mode changes are lost.
RouteInv == FInv /\ News /\ Routes

-----------------------------------------------------------------------------
\* The members are numbered without gaps or repetitions.
LEMMA MembersFacts ==
  /\ Total \in 1..255 /\ Total = Cardinality(Node)
  /\ Members \in [1..Total -> Node] /\ \A i \in 1..Total : Members[i] \in Node
  /\ \A m \in Node : \E i \in 1..Total : m = Members[i]
  /\ \A i, j \in 1..Total : Members[i] = Members[j] => i = j
<1>1. Total = Cardinality(Node) /\ Total \in 1..255 /\ IsFiniteSet(Node)
  BY FleetAssumption, NodeAssumption DEF Total
<1>2. Members \in [1..Total -> Node] /\ DOMAIN Members = 1..Total
  BY FleetAssumption, LenProperties DEF Total
<1>3. \A m \in Node : \E i \in 1..Total : m = Members[i]
  BY <1>2, FleetAssumption DEF ToSet
<1>4. Members \in Surjection(1..Total, Node)
  BY <1>2, <1>3 DEF Surjection
<1>5. IsFiniteSet(1..Total) /\ Cardinality(1..Total) = Cardinality(Node)
  <2>1. 1 \in Int /\ Total \in Int /\ ~(1 > Total) /\ Total - 1 + 1 = Total
    BY <1>1
  <2>2. IsFiniteSet(1..Total)
        /\ Cardinality(1..Total) = IF 1 > Total THEN 0 ELSE Total - 1 + 1
    BY <2>1, FS_Interval
  <2> QED
    BY <1>1, <2>1, <2>2
<1>6. Members \in Injection(1..Total, Node)
  BY <1>4, <1>5, FS_Surjection
<1>7. \A i, j \in 1..Total : Members[i] = Members[j] => i = j
  BY <1>6 DEF Injection, IsInjective
<1> QED
  BY <1>1, <1>2, <1>3, <1>7

\* A number of members for arithmetic.
LEMMA SomeMember == Total \in Nat \ {0}
<1>1. Total \in 1..255
  BY MembersFacts, Zenon
<1> QED
  BY <1>1

\* A list is complete when everybody is chosen; a slot adds its vehicle.
LEMMA ChosenFacts ==
  ASSUME NEW slots \in Formations, NEW K \in SUBSET Node
  PROVE  /\ Chosen(slots, {}) = EmptyList /\ Chosen(slots, Node) = slots
         /\ Size(Chosen(slots, K)) = Total <=> K = Node
         /\ \A n \in Node :
              /\ upsertNode(Chosen(slots, K), n, slots[n]) = Chosen(slots, K \cup {n})
              /\ Chosen(slots, K)[n] # NoSlot => K \cup {n} = K
<1>1. slots \in [Node -> Slot]
  BY FleetAssumption
<1>2. Chosen(slots, {}) = EmptyList /\ Chosen(slots, Node) = slots
  BY <1>1 DEF Chosen, EmptyList
<1>3. Listed(Chosen(slots, K)) = K
  BY <1>1, SlotAssumption DEF Listed, Chosen
<1>4. Size(Chosen(slots, K)) = Total <=> K = Node
  <2>1. IsFiniteSet(Node) /\ Cardinality(Node) = Total
    BY MembersFacts, NodeAssumption
  <2>2. Cardinality(K) = Cardinality(Node) => K = Node
    BY <2>1, FS_Subset
  <2> QED
    BY <1>3, <2>1, <2>2 DEF Size
<1>5. ASSUME NEW n \in Node
      PROVE  /\ upsertNode(Chosen(slots, K), n, slots[n]) = Chosen(slots, K \cup {n})
             /\ Chosen(slots, K)[n] # NoSlot => K \cup {n} = K
  BY DEF Chosen, upsertNode
<1> QED
  BY <1>2, <1>4, <1>5

\* The members that were placed grow by one with each slot.
LEMMA FirstMembers ==
  /\ First(0) = {} /\ First(Total) = Node
  /\ \A k \in 0..Total : First(k) \in SUBSET Node
  /\ \A k \in 1..Total : Members[k] \in Node /\ First(k) = First(k - 1) \cup {Members[k]}
<1>1. First(0) = {} /\ First(Total) = Node
  BY MembersFacts DEF First
<1>2. ASSUME NEW k \in 0..Total PROVE First(k) \in SUBSET Node
  <2>1. \A i \in 1..k : i \in 1..Total
    BY SomeMember
  <2> QED
    BY <2>1, MembersFacts DEF First
<1>3. ASSUME NEW k \in 1..Total
      PROVE  Members[k] \in Node /\ First(k) = First(k - 1) \cup {Members[k]}
  <2>1. \A i : i \in 1..k <=> i \in 1..(k - 1) \/ i = k
    BY SomeMember
  <2> QED
    BY <2>1, MembersFacts DEF First
<1> QED
  BY <1>1, <1>2, <1>3

\* A slot that a script sends is a SWARM_NODE.
LEMMA PlacingType ==
  ASSUME NEW a \in Aim, NEW n \in Node
  PROVE  Placing(a, n) \in NodeMessage
<1>1. a.slots \in [Node -> Slot] /\ a.swarm \in Swarm
  BY FleetAssumption DEF Aim
<1> QED
  BY <1>1 DEF Placing, NodeMessage

\* An announcement starts an empty list.
LEMMA CollectedStarts ==
  ASSUME NEW f \in Formation, NEW m \in Management, NEW a \in Aim, Announcing(m, a),
         m.type = "create" => f.swarm # a.swarm
  PROVE  Collected(onManagement(f, m), a, {})
<1> DEFINE g == onManagement(f, m)
<1>1. Chosen(a.slots, {}) = EmptyList /\ {} # Node
  BY ChosenFacts, NodeAssumption DEF Aim
<1>2. m.swarm \in Swarm /\ m.type \in {"create", "update"}
  BY DEF Management
<1>3. CASE StartsUpdate(f, m)
  <2>1. /\ g.swarm = f.swarm /\ g.updating = TRUE /\ g.pending = EmptyList
        /\ g.pendingExpected = m.count /\ g.pendingLeader = m.leader /\ f.swarm = m.swarm
    BY <1>3, ManagementFields DEF StartsUpdate
  <2> HIDE DEF g
  <2> QED
    BY <1>1, <2>1 DEF Collected, Announcing, g
<1>4. CASE ~StartsUpdate(f, m)
  <2>1. /\ g.swarm = m.swarm /\ g.expected = m.count /\ g.leader = m.leader
        /\ g.nodes = (IF f.swarm = m.swarm THEN f.nodes ELSE EmptyList)
        /\ g.updating = FALSE
    BY <1>4, ManagementFields
  <2>2. f.swarm # m.swarm
    BY <1>2, <1>4, SwarmAssumption DEF StartsUpdate, Announcing
  <2> HIDE DEF g
  <2> QED
    BY <1>1, <2>1, <2>2 DEF Collected, Announcing, g
<1> QED
  BY <1>3, <1>4

\* A slot of the announced formation is added to what was collected.
LEMMA CollectedGoesOn ==
  ASSUME NEW own \in Node, NEW f, Sound(f, own), NEW a \in Aim, NEW K \in SUBSET Node,
         Collected(f, a, K), NEW n \in Node
  PROVE  Collected(onNode(f, Placing(a, n), own), a, K \cup {n})
<1> DEFINE m == Placing(a, n)
           g == onNode(f, m, own)
           new == Chosen(a.slots, K \cup {n})
<1>1. a.slots \in Formations /\ K \cup {n} \in SUBSET Node
  BY DEF Aim
<1>2. /\ upsertNode(Chosen(a.slots, K), m.node, m.slot) = new
      /\ Chosen(a.slots, K)[m.node] # NoSlot => new = Chosen(a.slots, K)
      /\ m.swarm = a.swarm
  BY <1>1, ChosenFacts DEF Placing
<1>3. Size(new) = Total <=> K \cup {n} = Node
  BY <1>1, ChosenFacts
<1>4. f \in Formation /\ m \in NodeMessage
  BY PlacingType DEF Sound
<1> HIDE DEF m
<1>5. CASE f.updating
  <2>1. f.pending = Chosen(a.slots, K) /\ f.pendingExpected = Total /\ f.pendingLeader = a.leader
        /\ f.swarm = a.swarm
    BY <1>5 DEF Collected
  <2>2. g = collectPending(f, m, own)
    BY <1>2, <1>5, <2>1 DEF onNode
  <2> HIDE DEF g
  <2> DEFINE up == upsertNode(f.pending, m.node, m.slot)
  <2>3. up = new
    BY <1>2, <2>1
  <2>4. /\ g.swarm = f.swarm
        /\ Size(up) = f.pendingExpected =>
             /\ g.expected = f.pendingExpected /\ g.leader = f.pendingLeader
             /\ g.nodes = up /\ g.updating = FALSE
        /\ Size(up) # f.pendingExpected =>
             /\ g.updating = f.updating /\ g.pending = up
             /\ g.pendingExpected = f.pendingExpected /\ g.pendingLeader = f.pendingLeader
    BY <1>4, <2>2, CollectPendingFields
  <2> HIDE DEF new, up
  <2>5. CASE K \cup {n} = Node
    <3>1. g.swarm = a.swarm /\ g.expected = Total /\ g.leader = a.leader /\ g.nodes = new /\ ~g.updating
      BY <1>3, <2>1, <2>3, <2>4, <2>5
    <3> QED
      BY <3>1 DEF Collected, new, g, m
  <2>6. CASE K \cup {n} # Node
    <3>1. /\ g.swarm = a.swarm /\ g.updating /\ g.pending = new
          /\ g.pendingExpected = Total /\ g.pendingLeader = a.leader
      BY <1>3, <1>5, <2>1, <2>3, <2>4, <2>6
    <3> QED
      BY <2>6, <3>1 DEF Collected, new, g, m
  <2> QED
    BY <2>5, <2>6
<1>6. CASE ~f.updating
  <2>1. f.nodes = Chosen(a.slots, K) /\ f.expected = Total /\ f.leader = a.leader /\ f.swarm = a.swarm
    BY <1>6 DEF Collected
  <2>2. g = collectNode(f, m, own)
    BY <1>6 DEF onNode
  <2> HIDE DEF g
  <2>3. /\ g.swarm = f.swarm /\ g.expected = f.expected /\ g.leader = f.leader
        /\ g.nodes = (IF f.nodes[m.node] = NoSlot THEN upsertNode(f.nodes, m.node, m.slot)
                                                  ELSE f.nodes)
        /\ g.updating = f.updating
    BY <1>4, <2>2, CollectNodeFields
  <2> HIDE DEF new
  <2>4. g.nodes = new
    BY <1>2, <2>1, <2>3
  <2>5. Collected(g, a, K \cup {n})
    BY <1>6, <2>1, <2>3, <2>4 DEF Collected, new
  <2> QED
    BY <2>5 DEF g, m
<1> QED
  BY <1>5, <1>6

-----------------------------------------------------------------------------
(***************************************************************************)
(* One vehicle.                                                             *)
(***************************************************************************)
\* Everything of u that the invariants speak of.
Unmoved(u) ==
  /\ nav'[u] = nav[u] /\ task'[u] = task[u] /\ formation'[u] = formation[u]
  /\ management'[u] = management[u] /\ node'[u] = node[u]

\* One loop of the task reads the announcement, then the slot, then the positions;
\* nothing stays unread, and no other vehicle is touched.
LEMMA UpdateEffect ==
  ASSUME IInv, NEW v \in Px4, NEW f0, Sound(f0, v), NEW r0, NEW s0, NEW due,
         update(v, f0, r0, s0, due)
  PROVE  LET f1 == afterManagement(f0, v)
             f2 == afterNode(f1, v)
         IN
         /\ formation'[v] = locate(f2, positionsRead(v))
         /\ Sound(f1, v) /\ Sound(f2, v)
         /\ formation'[v].swarm = f1.swarm
         /\ ~Unread(management'[v]) /\ ~Unread(node'[v])
         /\ management'[v].last = management[v].last /\ node'[v].last = node[v].last
         /\ \A u \in Px4 \ {v} : formation'[u] = formation[u] /\ management'[u] = management[u]
                                   /\ node'[u] = node[u]
<1> DEFINE f1 == afterManagement(f0, v)
           f2 == afterNode(f1, v)
<1>1. v \in Node
  BY Px4Assumption
<1>2. Sound(f1, v)
  BY <1>1, ManagementSound DEF IInv, Readable, afterManagement
<1>3. /\ formation' = [formation EXCEPT ![v] = locate(f2, positionsRead(v))]
      /\ management'  = [management EXCEPT ![v] = readAll(@)]
      /\ node'        = [node EXCEPT ![v] = readAll(@)]
  BY DEF update
<1> HIDE DEF f1
<1>4. Sound(f2, v) /\ f2.swarm = f1.swarm
  BY <1>1, <1>2, NodeSound, NodeTransition DEF IInv, Readable, afterNode
<1> HIDE DEF f2
<1>5. locate(f2, positionsRead(v)).swarm = f2.swarm
  BY <1>4, LocateTransition DEF Sound
<1>6. \A t : readAll(t) = [t EXCEPT !.unread = {}]
  BY DEF readAll
<1>7. /\ management[v] \in Topic(Management) /\ node[v] \in Topic(NodeMessage)
      /\ formation \in [Px4 -> Formation] /\ management \in [Px4 -> Topic(Management)]
      /\ node \in [Px4 -> Topic(NodeMessage)]
  BY DEF IInv, TypeOK
<1>8. /\ readAll(management[v]).last = management[v].last /\ readAll(node[v]).last = node[v].last
      /\ ~Unread(readAll(management[v])) /\ ~Unread(readAll(node[v]))
  BY <1>7 DEF readAll, Topic, Unread
<1>9. /\ formation'[v] = locate(f2, positionsRead(v))
      /\ ~Unread(management'[v]) /\ ~Unread(node'[v])
      /\ management'[v].last = management[v].last /\ node'[v].last = node[v].last
      /\ \A u \in Px4 \ {v} : formation'[u] = formation[u] /\ management'[u] = management[u]
                                /\ node'[u] = node[u]
  BY <1>3, <1>7, <1>8
<1> QED
  BY <1>2, <1>4, <1>5, <1>9 DEF f1, f2

\* Where a vehicle stands in a script does not depend on positions.
LEMMA LocateCollected ==
  ASSUME NEW f \in Formation, NEW positions, NEW a, NEW K, Collected(f, a, K)
  PROVE  Collected(locate(f, positions), a, K)
BY DEF locate, Formation, Collected

\* One loop of the task takes in what is unread; only an announcement of the
\* swarm the vehicle is in leaves it updating.
LEMMA UpdateCollects ==
  ASSUME IInv, NEW v \in Px4, NEW a \in Aim, NEW K \in SUBSET Node, OnTheWay(v, a, K),
         NEW r0, NEW s0, NEW due, update(v, formation[v], r0, s0, due)
  PROVE  /\ Collected(formation'[v], a, K)
         /\ ~Unread(management'[v]) /\ ~Unread(node'[v])
         /\ formation'[v].updating => formation[v].swarm = a.swarm
<1> DEFINE f0 == formation[v]
           f1 == afterManagement(f0, v)
           f2 == afterNode(f1, v)
<1>1. /\ Sound(f0, v) /\ v \in Node /\ f0 \in Formation
      /\ Readable(management[v], Management) /\ Readable(node[v], NodeMessage)
  BY Px4Assumption DEF IInv, Sound
<1>2. /\ formation'[v] = locate(f2, positionsRead(v)) /\ Sound(f1, v) /\ Sound(f2, v)
      /\ ~Unread(management'[v]) /\ ~Unread(node'[v])
  BY <1>1, UpdateEffect
<1>3. Collected(f2, a, K)
  <2>1. CASE Collected(f0, a, K) /\ ~Unread(management[v]) /\ ~Unread(node[v])
    BY <2>1 DEF afterManagement, afterNode
  <2>2. CASE /\ K = {} /\ Unread(management[v]) /\ ~Unread(node[v])
             /\ Announcing(management[v].last, a)
             /\ management[v].last.type = "create" => f0.swarm # a.swarm
    <3>1. management[v].last \in Management
      BY <1>1, <2>2 DEF Readable
    <3>2. Collected(onManagement(f0, management[v].last), a, {})
      BY <1>1, <2>2, <3>1, CollectedStarts
    <3> QED
      BY <2>2, <3>2 DEF afterManagement, afterNode
  <2>3. ASSUME NEW n \in Node, NEW L \in SUBSET Node, K = L \cup {n},
               ~Unread(management[v]), Unread(node[v]),
               node[v].last = Placing(a, n), Collected(f0, a, L)
        PROVE  Collected(f2, a, K)
    <3>1. Collected(onNode(f0, Placing(a, n), v), a, L \cup {n})
      BY <1>1, <2>3, CollectedGoesOn
    <3> QED
      BY <2>3, <3>1 DEF afterManagement, afterNode
  <2> QED
    BY <2>1, <2>2, <2>3 DEF OnTheWay
<1>4. f2.updating => f0.swarm = a.swarm
  <2>1. CASE Collected(f0, a, K) \/ \E L : Collected(f0, a, L)
    BY <2>1 DEF Collected
  <2>2. CASE /\ Unread(management[v]) /\ ~Unread(node[v])
             /\ Announcing(management[v].last, a)
    <3> DEFINE m == management[v].last
               g == onManagement(f0, m)
    <3>1. m \in Management /\ f2 = g
      BY <1>1, <2>2 DEF Readable, afterManagement, afterNode
    <3>2. ~StartsUpdate(f0, m) => g.updating = FALSE
      BY <1>1, <3>1, ManagementFields
    <3> HIDE DEF g
    <3> QED
      BY <2>2, <3>1, <3>2 DEF StartsUpdate, Announcing
  <2> QED
    BY <2>1, <2>2 DEF OnTheWay
<1> HIDE DEF f2
<1>5. locate(f2, positionsRead(v)).updating = f2.updating
  BY <1>2, LocateTransition DEF Sound
<1> QED
  BY <1>2, <1>3, <1>4, <1>5, LocateCollected DEF Sound

\* A vehicle knows of a swarm only what it heard.
LEMMA UpdateHears ==
  ASSUME IInv, NEW v \in Px4, NEW f0, Sound(f0, v), NEW r0, NEW s0, NEW due,
         update(v, f0, r0, s0, due), NEW id \in Swarm,
         f0.swarm # id, management[v].last # Nothing => management[v].last.swarm # id
  PROVE  ~Heard(v, id)'
<1> DEFINE f1 == afterManagement(f0, v)
<1>1. /\ formation'[v].swarm = f1.swarm /\ management'[v].last = management[v].last
  BY UpdateEffect
<1>2. Unread(management[v]) => /\ management[v].last \in Management
                               /\ management[v].last # Nothing
  BY NothingAssumption DEF IInv, Readable
<1>3. f0 \in Formation
  BY DEF Sound
<1>4. f1.swarm # id
  <2>1. CASE Unread(management[v])
    <3> DEFINE m == management[v].last
               g == onManagement(f0, m)
    <3>1. f1 = g /\ m \in Management /\ m.swarm # id
      BY <1>2, <2>1 DEF afterManagement
    <3> HIDE DEF m, g
    <3>2. g.swarm \in {f0.swarm, m.swarm}
      BY <1>3, <3>1, ManagementFields DEF g
    <3> QED
      BY <3>1, <3>2
  <2>2. CASE ~Unread(management[v])
    BY <2>2 DEF afterManagement
  <2> QED
    BY <2>1, <2>2
<1> HIDE DEF f1
<1> QED
  BY <1>1, <1>4 DEF Heard

\* A step of v touches no other vehicle; v hears of no swarm by itself, and stays
\* where it is in its script as long as it stays in the mode.
LEMMA VehicleStep ==
  ASSUME IInv, NEW v \in Px4, Vehicle(v)
  PROVE  /\ \A u \in Px4 \ {v} : Unmoved(u)
         /\ \A id \in Swarm : ~Heard(v, id) => ~Heard(v, id)'
         /\ \A a \in Aim, K \in SUBSET Node :
              (nav[v] = "Swarm" => task[v] /\ OnTheWay(v, a, K)) =>
              (nav'[v] = "Swarm" => task'[v] /\ OnTheWay(v, a, K)')
<1>0. /\ nav \in [Px4 -> {"Swarm", "Other"}] /\ task \in [Px4 -> BOOLEAN]
      /\ formation \in [Px4 -> Formation] /\ management \in [Px4 -> Topic(Management)]
      /\ node \in [Px4 -> Topic(NodeMessage)] /\ Sound(formation[v], v)
  BY DEF IInv, TypeOK
<1>1. CASE StartTask(v)
  <2>1. /\ update(v, NewFormation, newReferences, Nothing, TRUE) /\ UNCHANGED nav
        /\ nav[v] = "Swarm" /\ ~task[v] /\ task' = [task EXCEPT ![v] = TRUE]
    BY <1>1 DEF StartTask
  <2>2. Sound(NewFormation, v) /\ NewFormation.swarm = NoSwarm
    BY NewFormationSound, Px4Assumption DEF NewFormation
  <2>3. \A u \in Px4 \ {v} : Unmoved(u)
    BY <1>0, <2>1, <2>2, UpdateEffect DEF Unmoved
  <2>4. \A id \in Swarm : ~Heard(v, id) => ~Heard(v, id)'
    BY <2>1, <2>2, UpdateHears, SwarmAssumption DEF Heard
  <2> QED
    BY <2>1, <2>3, <2>4
<1>2. ASSUME NEW due \in StatusDue, RunTask(v, due)
      PROVE  /\ \A u \in Px4 \ {v} : Unmoved(u)
             /\ \A id \in Swarm : ~Heard(v, id) => ~Heard(v, id)'
             /\ \A a \in Aim, K \in SUBSET Node :
                  (nav[v] = "Swarm" => task[v] /\ OnTheWay(v, a, K)) =>
                  (nav'[v] = "Swarm" => task'[v] /\ OnTheWay(v, a, K)')
  <2>1. /\ update(v, formation[v], reference[v], setpoint[v], due) /\ UNCHANGED <<nav, task>>
    BY <1>2 DEF RunTask
  <2>2. \A u \in Px4 \ {v} : Unmoved(u)
    BY <1>0, <2>1, UpdateEffect DEF Unmoved
  <2>3. \A id \in Swarm : ~Heard(v, id) => ~Heard(v, id)'
    BY <1>0, <2>1, UpdateHears DEF Heard
  <2>4. \A a \in Aim, K \in SUBSET Node : OnTheWay(v, a, K) => OnTheWay(v, a, K)'
    <3> SUFFICES ASSUME NEW a \in Aim, NEW K \in SUBSET Node, OnTheWay(v, a, K)
                 PROVE  OnTheWay(v, a, K)'
      OBVIOUS
    <3>1. Collected(formation'[v], a, K) /\ ~Unread(management'[v]) /\ ~Unread(node'[v])
      BY <2>1, UpdateCollects
    <3> QED
      BY <3>1 DEF OnTheWay
  <2> QED
    BY <2>1, <2>2, <2>3, <2>4
<1>3. CASE StopTask(v)
  <2>1. /\ nav[v] # "Swarm" /\ UNCHANGED nav
        /\ task' = [task EXCEPT ![v] = FALSE]
        /\ formation' = [formation EXCEPT ![v] = NewFormation]
        /\ management' = [management EXCEPT ![v] = resubscribed(@)]
        /\ node' = [node EXCEPT ![v] = resubscribed(@)]
    BY <1>3 DEF StopTask
  <2>2. \A u \in Px4 \ {v} : Unmoved(u)
    BY <1>0, <2>1 DEF Unmoved
  <2>3. resubscribed(management[v]).last = management[v].last
    BY <1>0 DEF resubscribed, Topic
  <2>4. formation'[v].swarm = NoSwarm /\ management'[v].last = management[v].last
    BY <1>0, <2>1, <2>3 DEF NewFormation
  <2>5. \A id \in Swarm : ~Heard(v, id) => ~Heard(v, id)'
    BY <2>4, SwarmAssumption DEF Heard
  <2> QED
    BY <2>1, <2>2, <2>5
<1>4. CASE EnterHold(v)
  <2>1. nav' = [nav EXCEPT ![v] = "Other"] /\ UNCHANGED <<task, formation, management, node>>
    BY <1>4 DEF EnterHold, taskVars, topicVars
  <2>2. \A u \in Px4 \ {v} : Unmoved(u)
    BY <1>0, <2>1 DEF Unmoved
  <2>3. nav'[v] # "Swarm"
    BY <1>0, <2>1
  <2> QED
    BY <2>1, <2>2, <2>3 DEF Heard
<1> QED
  BY <1>1, <1>2, <1>3, <1>4 DEF Vehicle

\* The message at the head of a link is handled.
LEMMA ReceiveStep ==
  ASSUME IInv, NEW v \in Px4, link[v] # <<>>, Head(link[v]) \in Packet, receive(v)
  PROVE  LET p == Head(link[v]) IN
         /\ IInv'
         /\ \A u \in Px4 \ {v} : Unmoved(u)
         /\ task'[v] = task[v] /\ formation'[v] = formation[v]
         /\ p.kind = "mode" =>
              /\ p.mode \in {"Swarm", "Other"} /\ nav'[v] = p.mode
              /\ management'[v] = management[v] /\ node'[v] = node[v]
         /\ p.kind = "management" =>
              /\ p.message \in Management /\ nav'[v] = nav[v]
              /\ management'[v].last = p.message /\ Unread(management'[v]) /\ node'[v] = node[v]
         /\ p.kind = "node" =>
              /\ p.message \in NodeMessage /\ nav'[v] = nav[v]
              /\ node'[v].last = p.message /\ Unread(node'[v]) /\ management'[v] = management[v]
         /\ \A id \in Swarm : ~Heard(v, id) /\ ~About(p, id) => ~Heard(v, id)'
<1> DEFINE p == Head(link[v])
<1>0. /\ nav \in [Px4 -> {"Swarm", "Other"}] /\ task \in [Px4 -> BOOLEAN]
      /\ formation \in [Px4 -> Formation] /\ management \in [Px4 -> Topic(Management)]
      /\ node \in [Px4 -> Topic(NodeMessage)]
  BY DEF IInv, TypeOK
<1>1. p.kind \in {"mode", "management", "node"}
  BY DEF Packet
<1>2. /\ p.kind = "mode" => p.mode \in {"Swarm", "Other"} /\ SetMode(v, p.mode)
      /\ p.kind = "management" =>
           p.message \in Management /\ handle_message_swarm_management(v, p.message)
      /\ p.kind = "node" => p.message \in NodeMessage /\ handle_message_swarm_node(v, p.message)
  BY DEF receive, Packet
<1> HIDE DEF p
<1>3. CASE p.kind = "mode"
  <2>1. /\ IInv' /\ nav' = [nav EXCEPT ![v] = p.mode]
        /\ UNCHANGED <<task, formation, management, node>>
    BY <1>2, <1>3, ModeSetSound DEF SetMode, taskVars, topicVars
  <2> QED
    BY <1>0, <1>2, <1>3, <2>1 DEF p, Unmoved, Heard
<1>4. CASE p.kind = "management"
  <2>1. /\ IInv' /\ management' = [management EXCEPT ![v] = publishOne(@, p.message)]
        /\ UNCHANGED <<task, formation, nav, node>>
    BY <1>2, <1>4, ManagementReceivedSound DEF handle_message_swarm_management, taskVars
  <2>2. management'[v].last = p.message /\ Unread(management'[v])
    BY <1>0, <2>1 DEF publishOne, Unread
  <2>3. \A u \in Px4 \ {v} : Unmoved(u)
    BY <1>0, <2>1 DEF Unmoved
  <2> QED
    BY <1>2, <1>4, <2>1, <2>2, <2>3 DEF p, Heard, About
<1>5. CASE p.kind = "node"
  <2>1. /\ IInv' /\ node' = [node EXCEPT ![v] = publishOne(@, p.message)]
        /\ UNCHANGED <<task, formation, nav, management>>
    BY <1>2, <1>5, NodeReceivedSound DEF handle_message_swarm_node, taskVars
  <2>2. node'[v].last = p.message /\ Unread(node'[v])
    BY <1>0, <2>1 DEF publishOne, Unread
  <2>3. \A u \in Px4 \ {v} : Unmoved(u)
    BY <1>0, <2>1 DEF Unmoved
  <2> QED
    BY <1>2, <1>5, <2>1, <2>2, <2>3 DEF p, Heard
<1> QED
  BY <1>1, <1>3, <1>4, <1>5 DEF p

\* A vehicle of which nothing moves stays where it is in its script.
LEMMA UnmovedStays ==
  ASSUME NEW u, Unmoved(u)
  PROVE  /\ \A id : Heard(u, id)' = Heard(u, id)
         /\ \A a, k : OnTheWay(u, a, k)' = OnTheWay(u, a, k)
BY DEF Unmoved, Heard, OnTheWay

-----------------------------------------------------------------------------
(***************************************************************************)
(* What is on the way to a vehicle.                                         *)
(***************************************************************************)
\* What is on the way is a sequence of messages, the link before the script.
LEMMA RestType ==
  ASSUME NEW v \in Px4, link \in [Px4 -> Seq(Packet)], todo \in Seq(Packet)
  PROVE  /\ Rest(v) \in Seq(Packet) /\ Len(Rest(v)) \in Nat
         /\ Len(Rest(v)) = Len(link[v]) + Len(todo)
         /\ \A j \in 1..Len(Rest(v)) :
              Rest(v)[j] = IF j <= Len(link[v]) THEN link[v][j] ELSE todo[j - Len(link[v])]
<1>1. link[v] \in Seq(Packet)
  OBVIOUS
<1> QED
  BY <1>1, ConcatProperties, LenProperties DEF Rest

\* The head of the link is taken.
LEMMA RestTaken ==
  ASSUME NEW v \in Px4, link \in [Px4 -> Seq(Packet)], todo \in Seq(Packet), link[v] # <<>>,
         link' = [link EXCEPT ![v] = Tail(@)], UNCHANGED todo
  PROVE  /\ Head(link[v]) \in Packet /\ link' \in [Px4 -> Seq(Packet)]
         /\ Len(Rest(v)) \in Nat \ {0} /\ Rest(v)[1] = Head(link[v])
         /\ Len(Rest(v)') = Len(Rest(v)) - 1
         /\ \A j \in 1..Len(Rest(v)') : Rest(v)'[j] = Rest(v)[j + 1]
         /\ \A u \in Px4 \ {v} : Rest(u)' = Rest(u)
<1>1. /\ link[v] \in Seq(Packet) /\ Len(link[v]) \in Nat /\ Len(todo) \in Nat
      /\ link'[v] = Tail(link[v])
  BY LenProperties
<1>2. /\ Head(link[v]) \in Packet /\ Tail(link[v]) \in Seq(Packet)
      /\ Len(Tail(link[v])) = Len(link[v]) - 1
      /\ \A i \in 1..Len(Tail(link[v])) : Tail(link[v])[i] = link[v][i + 1]
  BY <1>1, HeadTailProperties
<1>3. link' \in [Px4 -> Seq(Packet)]
  BY <1>2
<1>4. Len(link[v]) > 0 /\ Head(link[v]) = link[v][1]
  BY <1>1, EmptySeq
<1>5. /\ Len(Rest(v)) = Len(link[v]) + Len(todo)
      /\ \A j \in 1..Len(Rest(v)) :
           Rest(v)[j] = IF j <= Len(link[v]) THEN link[v][j] ELSE todo[j - Len(link[v])]
  BY RestType
<1>6. /\ Len(Rest(v)') = Len(link'[v]) + Len(todo)
      /\ \A j \in 1..Len(Rest(v)') :
           Rest(v)'[j] = IF j <= Len(link'[v]) THEN link'[v][j] ELSE todo[j - Len(link'[v])]
  BY <1>1, <1>2, ConcatProperties DEF Rest
<1>7. \A j \in 1..Len(Rest(v)') : Rest(v)'[j] = Rest(v)[j + 1]
  <2> SUFFICES ASSUME NEW j \in 1..Len(Rest(v)')
               PROVE  Rest(v)'[j] = Rest(v)[j + 1]
    OBVIOUS
  <2>1. j + 1 \in 1..Len(Rest(v))
    BY <1>1, <1>2, <1>5, <1>6
  <2>2. CASE j <= Len(link'[v])
    <3>1. Rest(v)'[j] = link[v][j + 1] /\ j + 1 <= Len(link[v])
      BY <1>1, <1>2, <1>6, <2>2
    <3> QED
      BY <1>5, <2>1, <3>1
  <2>3. CASE ~(j <= Len(link'[v]))
    <3>1. Rest(v)'[j] = todo[j - Len(link'[v])] /\ ~(j + 1 <= Len(link[v]))
          /\ j - Len(link'[v]) = (j + 1) - Len(link[v])
      BY <1>1, <1>2, <1>6, <2>3
    <3> QED
      BY <1>5, <2>1, <3>1
  <2> QED
    BY <2>2, <2>3
<1>8. \A u \in Px4 \ {v} : Rest(u)' = Rest(u)
  BY DEF Rest
<1>9. Len(Rest(v)) \in Nat \ {0} /\ Rest(v)[1] = Head(link[v]) /\ Len(Rest(v)') = Len(Rest(v)) - 1
  BY <1>1, <1>2, <1>4, <1>5, <1>6
<1> QED
  BY <1>2, <1>3, <1>7, <1>8, <1>9

\* Publishing moves the head of the script to the end of each link.
LEMMA RestPublished ==
  ASSUME link \in [Px4 -> Seq(Packet)], todo \in Seq(Packet), publishNext
  PROVE  /\ link' \in [Px4 -> Seq(Packet)] /\ todo' \in Seq(Packet)
         /\ \A v \in Px4 : Rest(v)' = Rest(v)
<1>1. /\ Head(todo) \in Packet /\ Tail(todo) \in Seq(Packet) /\ Len(Tail(todo)) = Len(todo) - 1
      /\ \A i \in 1..Len(Tail(todo)) : Tail(todo)[i] = todo[i + 1]
      /\ Len(todo) \in Nat /\ Len(todo) > 0 /\ Head(todo) = todo[1]
      /\ todo' = Tail(todo) /\ link' = [v \in Px4 |-> Append(link[v], Head(todo))]
  BY HeadTailProperties, LenProperties, EmptySeq DEF publishNext, broadcast
<1>2. ASSUME NEW v \in Px4
      PROVE  link'[v] \in Seq(Packet) /\ Rest(v)' = Rest(v)
  <2>1. /\ link[v] \in Seq(Packet) /\ Len(link[v]) \in Nat
        /\ link'[v] = Append(link[v], Head(todo))
    BY <1>1, LenProperties
  <2>2. /\ link'[v] \in Seq(Packet) /\ Len(link'[v]) = Len(link[v]) + 1
        /\ \A i \in 1..Len(link[v]) : link'[v][i] = link[v][i]
        /\ link'[v][Len(link[v]) + 1] = Head(todo)
    BY <1>1, <2>1, AppendProperties
  <2>3. /\ Rest(v) \in Seq(Packet) /\ Len(Rest(v)) = Len(link[v]) + Len(todo)
        /\ \A j \in 1..Len(Rest(v)) :
             Rest(v)[j] = IF j <= Len(link[v]) THEN link[v][j] ELSE todo[j - Len(link[v])]
    BY RestType
  <2>4. /\ Rest(v)' \in Seq(Packet) /\ Len(Rest(v)') = Len(link'[v]) + Len(todo')
        /\ \A j \in 1..Len(link'[v]) + Len(todo') :
             Rest(v)'[j] = IF j <= Len(link'[v]) THEN link'[v][j] ELSE todo'[j - Len(link'[v])]
    BY <1>1, <2>2, ConcatProperties DEF Rest
  <2>5. Len(Rest(v)') = Len(Rest(v))
    BY <1>1, <2>1, <2>2, <2>3, <2>4
  <2>6. ASSUME NEW j \in 1..Len(Rest(v)')
        PROVE  Rest(v)'[j] = Rest(v)[j]
    <3>1. j \in 1..Len(Rest(v)) /\ j \in 1..Len(link'[v]) + Len(todo')
      BY <2>4, <2>5
    <3>2. CASE j <= Len(link[v])
      <4>1. j <= Len(link'[v]) /\ j \in 1..Len(link[v])
        BY <2>1, <2>2, <3>2
      <4> QED
        BY <2>2, <2>3, <2>4, <3>1, <3>2, <4>1
    <3>3. CASE j = Len(link[v]) + 1
      <4>1. j <= Len(link'[v]) /\ ~(j <= Len(link[v])) /\ j - Len(link[v]) = 1
        BY <2>1, <2>2, <3>3
      <4> QED
        BY <1>1, <2>2, <2>3, <2>4, <3>1, <3>3, <4>1
    <3>4. CASE j > Len(link[v]) + 1
      <4>1. /\ ~(j <= Len(link'[v])) /\ ~(j <= Len(link[v]))
            /\ j - Len(link'[v]) \in 1..Len(Tail(todo))
            /\ j - Len(link'[v]) + 1 = j - Len(link[v])
        BY <1>1, <2>1, <2>2, <2>3, <3>1, <3>4
      <4>2. Tail(todo)[j - Len(link'[v])] = todo[j - Len(link[v])]
        BY <1>1, <4>1
      <4> QED
        BY <1>1, <2>3, <2>4, <3>1, <4>1, <4>2
    <3> QED
      BY <2>1, <3>1, <3>2, <3>3, <3>4
  <2> QED
    BY <2>2, <2>3, <2>4, <2>5, <2>6, SeqEqual
<1>3. link' \in [Px4 -> Seq(Packet)]
  BY <1>1, <1>2
<1> QED
  BY <1>1, <1>2, <1>3

\* A script begins when there is no other.
LEMMA RestBegun ==
  ASSUME link \in [Px4 -> Seq(Packet)], todo = <<>>, NEW messages \in Seq(Packet),
         UNCHANGED link, todo' = messages, NEW v \in Px4
  PROVE  /\ Rest(v) = link[v] /\ Len(Rest(v)) \in Nat
         /\ Len(Rest(v)') = Len(Rest(v)) + Len(messages)
         /\ \A j \in 1..Len(Rest(v)') :
              Rest(v)'[j] = IF j <= Len(Rest(v)) THEN Rest(v)[j] ELSE messages[j - Len(Rest(v))]
<1>1. link[v] \in Seq(Packet)
  OBVIOUS
<1>2. Rest(v) = link[v]
  BY <1>1, ConcatEmptySeq DEF Rest
<1> QED
  BY <1>1, <1>2, ConcatProperties, LenProperties DEF Rest

\* A message is sent between what is published of a script and what is not.
LEMMA RestBroadcast ==
  ASSUME link \in [Px4 -> Seq(Packet)], todo \in Seq(Packet), NEW p \in Packet,
         broadcast(p), UNCHANGED todo
  PROVE  /\ link' \in [Px4 -> Seq(Packet)]
         /\ \A v \in Px4 :
              LET c == Len(link[v]) IN
              /\ c \in Nat /\ Len(Rest(v)) \in Nat /\ c <= Len(Rest(v))
              /\ Len(Rest(v)') = Len(Rest(v)) + 1
              /\ \A j \in 1..Len(Rest(v)') :
                   Rest(v)'[j] = IF j <= c THEN Rest(v)[j]
                                 ELSE IF j = c + 1 THEN p ELSE Rest(v)[j - 1]
<1>1. ASSUME NEW v \in Px4
      PROVE  LET c == Len(link[v]) IN
             /\ link'[v] \in Seq(Packet)
             /\ c \in Nat /\ Len(Rest(v)) \in Nat /\ c <= Len(Rest(v))
             /\ Len(Rest(v)') = Len(Rest(v)) + 1
             /\ \A j \in 1..Len(Rest(v)') :
                  Rest(v)'[j] = IF j <= c THEN Rest(v)[j]
                                ELSE IF j = c + 1 THEN p ELSE Rest(v)[j - 1]
  <2> DEFINE c == Len(link[v])
  <2>1. /\ link[v] \in Seq(Packet) /\ c \in Nat /\ link'[v] = Append(link[v], p)
        /\ Len(todo) \in Nat
    BY LenProperties DEF broadcast
  <2>2. /\ link'[v] \in Seq(Packet) /\ Len(link'[v]) = c + 1
        /\ \A i \in 1..c : link'[v][i] = link[v][i]
        /\ link'[v][c + 1] = p
    BY <2>1, AppendProperties
  <2>3. /\ Len(Rest(v)) = c + Len(todo)
        /\ \A j \in 1..Len(Rest(v)) : Rest(v)[j] = IF j <= c THEN link[v][j] ELSE todo[j - c]
    BY RestType
  <2>4. /\ Len(Rest(v)') = Len(link'[v]) + Len(todo)
        /\ \A j \in 1..Len(link'[v]) + Len(todo) :
             Rest(v)'[j] = IF j <= Len(link'[v]) THEN link'[v][j] ELSE todo[j - Len(link'[v])]
    <3>1. Rest(v)' = link'[v] \o todo
      BY DEF Rest
    <3>2. link'[v] \in Seq(Packet) /\ todo \in Seq(Packet)
      BY <2>2
    <3> QED
      BY <3>1, <3>2, ConcatProperties
  <2> HIDE DEF c
  <2>5. ASSUME NEW j \in 1..Len(Rest(v)')
        PROVE  Rest(v)'[j] = IF j <= c THEN Rest(v)[j] ELSE IF j = c + 1 THEN p ELSE Rest(v)[j - 1]
    <3>1. j \in 1..c + 1 + Len(todo) /\ j \in 1..Len(link'[v]) + Len(todo)
      BY <2>2, <2>4
    <3>2. CASE j <= c
      <4>1. j \in 1..c /\ j <= c + 1 /\ j \in 1..Len(Rest(v))
        BY <2>1, <2>3, <3>1, <3>2
      <4> QED
        BY <2>2, <2>3, <2>4, <3>1, <3>2, <4>1
    <3>3. CASE j = c + 1
      <4>1. ~(j <= c) /\ j <= c + 1 /\ Rest(v)'[j] = link'[v][j]
        BY <2>1, <2>2, <2>4, <3>1, <3>3
      <4> QED
        BY <2>2, <3>3, <4>1
    <3>4. CASE j > c + 1
      <4>1. /\ ~(j <= c + 1) /\ ~(j - 1 <= c) /\ j - (c + 1) = (j - 1) - c
            /\ j - 1 \in 1..Len(Rest(v)) /\ ~(j <= c) /\ j # c + 1
        BY <2>1, <2>3, <3>1, <3>4
      <4> QED
        BY <2>2, <2>3, <2>4, <3>1, <4>1
    <3> QED
      BY <2>1, <3>1, <3>2, <3>3, <3>4
  <2> QED
    BY <2>1, <2>2, <2>3, <2>4, <2>5 DEF c
<1>2. link' \in [Px4 -> Seq(Packet)]
  BY <1>1 DEF broadcast
<1> QED
  BY <1>1, <1>2

-----------------------------------------------------------------------------
(***************************************************************************)
(* The scripts.                                                             *)
(***************************************************************************)
\* The three kinds of messages.
LEMMA PacketTypes ==
  /\ \A mode \in {"Swarm", "Other"} : Mode(mode) \in Packet
  /\ \A m \in Management : Configure(m) \in Packet
  /\ \A m \in NodeMessage : Place(m) \in Packet
BY DEF Packet, Mode, Configure, Place

\* One script part follows another.
LEMMA Joined ==
  ASSUME NEW s \in Seq(Packet), NEW t \in Seq(Packet)
  PROVE  /\ s \o t \in Seq(Packet) /\ Len(s \o t) = Len(s) + Len(t)
         /\ \A i \in 1..Len(s) : (s \o t)[i] = s[i]
         /\ \A j \in 1..Len(t) : (s \o t)[j + Len(s)] = t[j]
<1>1. /\ s \o t \in Seq(Packet) /\ Len(s \o t) = Len(s) + Len(t)
      /\ \A i \in 1..Len(s) + Len(t) : (s \o t)[i] = IF i <= Len(s) THEN s[i] ELSE t[i - Len(s)]
  BY ConcatProperties
<1>2. Len(s) \in Nat /\ Len(t) \in Nat
  BY LenProperties
<1> DEFINE u == s \o t
<1> HIDE DEF u
<1>3. \A i \in 1..Len(s) + Len(t) : u[i] = IF i <= Len(s) THEN s[i] ELSE t[i - Len(s)]
  BY <1>1 DEF u
<1>4. ASSUME NEW i \in 1..Len(s) PROVE u[i] = s[i]
  <2>1. i \in 1..Len(s) + Len(t) /\ i <= Len(s)
    BY <1>2
  <2> QED
    BY <1>3, <2>1
<1>5. ASSUME NEW j \in 1..Len(t) PROVE u[j + Len(s)] = t[j]
  <2>1. j + Len(s) \in 1..Len(s) + Len(t) /\ ~(j + Len(s) <= Len(s)) /\ j + Len(s) - Len(s) = j
    BY <1>2
  <2> QED
    BY <1>3, <2>1
<1> QED
  BY <1>1, <1>4, <1>5 DEF u

\* A script announces its aim and then places the members in their order.
LEMMA ScriptsAnnounce ==
  ASSUME NEW a \in Aim
  PROVE  /\ deployScript(a.swarm, a.leader, a.slots) \in Seq(Packet)
         /\ Len(deployScript(a.swarm, a.leader, a.slots)) = Total + 2
         /\ deployScript(a.swarm, a.leader, a.slots)[1] = Mode("Swarm")
         /\ deployScript(a.swarm, a.leader, a.slots)[2]
              = Configure([type |-> "create", swarm |-> a.swarm, count |-> Total,
                           leader |-> a.leader])
         /\ \A j \in 1..Total :
              deployScript(a.swarm, a.leader, a.slots)[j + 2] = Place(Placing(a, Members[j]))
         /\ updateScript(a.swarm, a.leader, a.slots) \in Seq(Packet)
         /\ Len(updateScript(a.swarm, a.leader, a.slots)) = Total + 1
         /\ updateScript(a.swarm, a.leader, a.slots)[1]
              = Configure([type |-> "update", swarm |-> a.swarm, count |-> Total,
                           leader |-> a.leader])
         /\ \A j \in 1..Total :
              updateScript(a.swarm, a.leader, a.slots)[j + 1] = Place(Placing(a, Members[j]))
<1> DEFINE places == node_messages(a.swarm, a.slots)
           announce(type) == management_message(type, a.swarm, a.leader)
           opening == <<Mode("Swarm"), announce("create")>>
           change == <<announce("update")>>
<1>1. Total \in Nat /\ Total \in 1..255 /\ a.swarm \in Swarm /\ a.leader \in Node
  BY MembersFacts DEF Aim
<1>2. places = [i \in 1..Total |-> Place(Placing(a, Members[i]))]
  BY DEF node_messages, Placing, Total
<1>3. \A i \in 1..Total : Place(Placing(a, Members[i])) \in Packet
  BY MembersFacts, PlacingType, PacketTypes
<1>4. places \in Seq(Packet) /\ Len(places) = Total
  <2>1. places \in [1..Total -> Packet]
    BY <1>2, <1>3
  <2> HIDE DEF places
  <2>2. places \in Seq(Packet) /\ DOMAIN places = 1..Total
    BY <1>1, <2>1, SeqDef
  <2> QED
    BY <1>1, <2>2, LenProperties
<1>5. \A j \in 1..Total : places[j] = Place(Placing(a, Members[j]))
  BY <1>2
<1>6. \A type \in {"create", "update"} :
        /\ announce(type) \in Packet
        /\ announce(type) = Configure([type |-> type, swarm |-> a.swarm, count |-> Total,
                                       leader |-> a.leader])
  <2> SUFFICES ASSUME NEW type \in {"create", "update"}
               PROVE  /\ announce(type) \in Packet
                      /\ announce(type) = Configure([type |-> type, swarm |-> a.swarm,
                                                     count |-> Total, leader |-> a.leader])
    OBVIOUS
  <2>1. [type |-> type, swarm |-> a.swarm, count |-> Total, leader |-> a.leader] \in Management
    BY <1>1 DEF Management
  <2>2. announce(type) = Configure([type |-> type, swarm |-> a.swarm, count |-> Total,
                                    leader |-> a.leader])
    BY DEF management_message, Total
  <2> QED
    BY <2>1, <2>2, PacketTypes
<1> HIDE DEF places, announce
<1>7. /\ opening \in Seq(Packet) /\ Len(opening) = 2
      /\ opening[1] = Mode("Swarm") /\ opening[2] = announce("create")
  <2>1. Mode("Swarm") \in Packet /\ announce("create") \in Packet
    BY <1>6, PacketTypes
  <2> QED
    BY <2>1
<1>8. change \in Seq(Packet) /\ Len(change) = 1 /\ change[1] = announce("update")
  <2>1. announce("update") \in Packet
    BY <1>6
  <2> QED
    BY <2>1
<1> HIDE DEF opening, change
<1>9. /\ opening \o places \in Seq(Packet) /\ Len(opening \o places) = Total + 2
      /\ (opening \o places)[1] = Mode("Swarm")
      /\ (opening \o places)[2] = announce("create")
      /\ \A j \in 1..Total : (opening \o places)[j + 2] = Place(Placing(a, Members[j]))
  <2> DEFINE all == opening \o places
  <2>1. /\ all \in Seq(Packet) /\ Len(all) = Len(opening) + Len(places)
        /\ \A i \in 1..Len(opening) : all[i] = opening[i]
        /\ \A j \in 1..Len(places) : all[j + Len(opening)] = places[j]
    <3>1. opening \in Seq(Packet) /\ places \in Seq(Packet)
      BY <1>4, <1>7
    <3> QED
      BY <3>1, Joined
  <2> HIDE DEF all
  <2>2. /\ Len(all) = Total + 2
        /\ \A i \in 1..2 : all[i] = opening[i]
        /\ \A j \in 1..Total : all[j + 2] = places[j]
    BY <1>1, <1>4, <1>7, <2>1
  <2>3. all[1] = opening[1] /\ all[2] = opening[2]
    BY <2>2
  <2> QED
    BY <1>5, <1>7, <2>1, <2>2, <2>3 DEF all
<1>10. /\ change \o places \in Seq(Packet) /\ Len(change \o places) = Total + 1
       /\ (change \o places)[1] = announce("update")
       /\ \A j \in 1..Total : (change \o places)[j + 1] = Place(Placing(a, Members[j]))
  <2> DEFINE all == change \o places
  <2>1. /\ all \in Seq(Packet) /\ Len(all) = Len(change) + Len(places)
        /\ \A i \in 1..Len(change) : all[i] = change[i]
        /\ \A j \in 1..Len(places) : all[j + Len(change)] = places[j]
    <3>1. change \in Seq(Packet) /\ places \in Seq(Packet)
      BY <1>4, <1>8
    <3> QED
      BY <3>1, Joined
  <2> HIDE DEF all
  <2>2. /\ Len(all) = Total + 1
        /\ \A i \in 1..1 : all[i] = change[i]
        /\ \A j \in 1..Total : all[j + 1] = places[j]
    BY <1>1, <1>4, <1>8, <2>1
  <2>3. all[1] = change[1]
    BY <2>2
  <2> QED
    BY <1>5, <1>8, <2>1, <2>2, <2>3 DEF all
<1>11. /\ deployScript(a.swarm, a.leader, a.slots) = opening \o places
       /\ updateScript(a.swarm, a.leader, a.slots) = change \o places
  BY DEF deployScript, updateScript, opening, change, places, announce
<1> QED
  BY <1>6, <1>9, <1>10, <1>11

-----------------------------------------------------------------------------
(***************************************************************************)
(* Types.                                                                   *)
(***************************************************************************)
\* The invariant of the vehicles holds while they rest.
LEMMA AtRestSound == IInv /\ UNCHANGED vars => IInv'
BY StepSound

\* The bounds are numbers.
LEMMA BoundsAssumed == MaxFaults \in Nat /\ MaxOperations \in Nat
BY FleetAssumption

\* One more thing may go wrong.
LEMMA FaultsBounded ==
  ASSUME FleetTypeOK, MayFail
  PROVE  lost + 1 \in 0..MaxFaults /\ rushed + 1 \in 0..MaxFaults /\ switched + 1 \in 0..MaxFaults
<1>1. /\ lost \in Nat /\ rushed \in Nat /\ switched \in Nat
      /\ lost + rushed + switched < MaxFaults
  BY BoundsAssumed DEF FleetTypeOK, MayFail
<1> QED
  BY <1>1, BoundsAssumed

\* No card has no leader, and no script is a script as far as its parts go.
LEMMA NoLeaderOnNoCard == NoRecord \in Card /\ NoRecord.leader = NoNode
  /\ NoScript \in Script /\ \A f \in Formations : f \in List
BY FleetAssumption DEF NoRecord, NoScript, Script, Card, List, EmptyList

\* Nothing is sent and nobody flies at first.
LEMMA FleetInitSound == FleetInit => FInv
<1> SUFFICES ASSUME FleetInit PROVE FInv
  OBVIOUS
<1>1. IInv
  BY InitSound DEF FleetInit
<1>2. TypeOK /\ record \in [Swarm -> Card] /\ sent \in [Swarm -> SUBSET Formations]
  BY <1>1, NoLeaderOnNoCard DEF FleetInit, IInv
<1>3. <<>> \in Seq(Packet)
  OBVIOUS
<1>4. link \in [Px4 -> Seq(Packet)] /\ todo \in Seq(Packet)
  BY <1>3 DEF FleetInit
<1>5. /\ lost \in 0..MaxFaults /\ rushed \in 0..MaxFaults /\ switched \in 0..MaxFaults
      /\ operations \in 0..MaxOperations
  BY BoundsAssumed DEF FleetInit
<1>6. /\ clean \in BOOLEAN /\ announced \in BOOLEAN /\ overlapped \in BOOLEAN /\ reused \in BOOLEAN
      /\ earlier \subseteq Running /\ busy \in BOOLEAN
  BY DEF FleetInit
<1>7. FleetTypeOK
  BY <1>2, <1>4, <1>5, <1>6, NoLeaderOnNoCard DEF FleetInit, FleetTypeOK
<1> QED
  BY <1>1, <1>7, NoLeaderOnNoCard DEF FleetInit, FInv

\* A vehicle's step leaves the ground station and the links alone.
LEMMA FlightSound ==
  ASSUME FInv, NEW v \in Px4, Flight(v)
  PROVE  FInv'
<1>1. IInv' /\ UNCHANGED fleetVars
  BY VehicleSound DEF FInv, Flight
<1> QED
  BY <1>1 DEF FInv, FleetTypeOK, IInv, fleetVars, station, counted

\* A message is taken from a link, handled or lost.
LEMMA TakenSound ==
  ASSUME FInv, NEW v \in Px4, deliver(v) \/ rush(v) \/ lose(v)
  PROVE  FInv'
<1>1. /\ link[v] # <<>> /\ link' = [link EXCEPT ![v] = Tail(@)]
      /\ UNCHANGED <<record, script, todo, earlier, busy, overlapped, reused, switched, operations,
                     sent>>
      /\ receive(v) \/ UNCHANGED vars
      /\ \/ UNCHANGED <<clean, lost, rushed>>
         \/ clean' = FALSE /\ MayFail /\ rushed' = rushed + 1 /\ UNCHANGED lost
         \/ clean' = FALSE /\ MayFail /\ lost' = lost + 1 /\ UNCHANGED rushed
      /\ announced' = announced \/ announced' = (announced /\ Head(link[v]).kind # "management")
  BY DEF deliver, rush, lose, station, counted
<1>2. link' \in [Px4 -> Seq(Packet)] /\ Head(link[v]) \in Packet
  BY <1>1, RestTaken DEF FInv, FleetTypeOK
<1>3. IInv'
  BY <1>1, <1>2, ReceiveStep, AtRestSound DEF FInv
<1>4. lost' \in 0..MaxFaults /\ rushed' \in 0..MaxFaults
  BY <1>1, FaultsBounded DEF FInv, FleetTypeOK
<1>5. clean' \in BOOLEAN /\ announced' \in BOOLEAN
  BY <1>1 DEF FInv, FleetTypeOK
<1> QED
  BY <1>1, <1>2, <1>3, <1>4, <1>5 DEF FInv, FleetTypeOK, IInv

\* The next message of a script goes to all links.
LEMMA PublishSound ==
  ASSUME FInv, publishNext
  PROVE  FInv'
<1>1. link' \in [Px4 -> Seq(Packet)] /\ todo' \in Seq(Packet)
  BY RestPublished DEF FInv, FleetTypeOK
<1>2. /\ UNCHANGED <<vars, record, script, earlier, busy, clean, overlapped, reused, announced,
                      lost, rushed, switched, operations, sent>>
      /\ todo # <<>>
  BY DEF publishNext, counted
<1>3. IInv'
  BY <1>2, AtRestSound DEF FInv
<1> QED
  BY <1>1, <1>2, <1>3 DEF FInv, FleetTypeOK, IInv

\* A message joins the end of each link.
LEMMA BroadcastTyped ==
  ASSUME link \in [Px4 -> Seq(Packet)], NEW p \in Packet, broadcast(p)
  PROVE  link' \in [Px4 -> Seq(Packet)]
<1>1. \A v \in Px4 : Append(link[v], p) \in Seq(Packet)
  BY AppendProperties
<1> QED
  BY <1>1 DEF broadcast

\* So does the next message of a script that began before the last one.
LEMMA PublishEarlierSound ==
  ASSUME FInv, NEW e \in earlier, publishEarlier(e)
  PROVE  FInv'
<1> DEFINE f == [e EXCEPT !.todo = Tail(@)]
<1>1. /\ e.todo # <<>> /\ broadcast(Head(e.todo)) /\ earlier' = (earlier \ {e}) \cup {f}
      /\ UNCHANGED <<vars, record, script, todo, busy, clean, overlapped, reused, announced,
                     lost, rushed, switched, operations, sent>>
  BY DEF publishEarlier, counted
<1>2. /\ e \in Running /\ e.todo \in Seq(Packet)
      /\ e.script.swarm \in Swarm /\ e.script.slots \in Formations /\ overlapped /\ ~clean
  BY DEF FInv, FleetTypeOK, Running
<1>3. Head(e.todo) \in Packet /\ Tail(e.todo) \in Seq(Packet)
  BY <1>1, <1>2, HeadTailProperties
<1>4. link' \in [Px4 -> Seq(Packet)]
  BY <1>1, <1>3, BroadcastTyped DEF FInv, FleetTypeOK
<1>5. f \in Running /\ f.script = e.script
  BY <1>2, <1>3 DEF Running
<1> HIDE DEF f
<1>6. earlier' \subseteq Running
  BY <1>1, <1>5 DEF FInv, FleetTypeOK
<1>7. \A d \in earlier' : d.script.swarm \in Swarm /\ d.script.slots \in Formations
  BY <1>1, <1>2, <1>5 DEF FInv
<1>8. IInv'
  BY <1>1, AtRestSound DEF FInv
<1>9. FleetTypeOK'
  BY <1>1, <1>4, <1>6, <1>8 DEF FInv, FleetTypeOK, IInv
<1> QED
  BY <1>1, <1>2, <1>7, <1>8, <1>9 DEF FInv

\* The panel forgets what it shows of a script, and nothing else.
LEMMA SwitchSound ==
  ASSUME FInv, switchTab
  PROVE  FInv'
<1>1. /\ UNCHANGED <<vars, record, script, todo, earlier, link, clean, overlapped, reused, announced,
                     lost, rushed, operations, sent>>
      /\ busy' = FALSE /\ MayFail /\ switched' = switched + 1
  BY DEF switchTab
<1>2. IInv'
  BY <1>1, AtRestSound DEF FInv
<1>3. switched' \in 0..MaxFaults
  BY <1>1, FaultsBounded DEF FInv
<1> QED
  BY <1>1, <1>2, <1>3 DEF FInv, FleetTypeOK, IInv

\* A script begins about a card that has slots; one that runs already goes on.
LEMMA BeginSound ==
  ASSUME FInv, NEW id \in Swarm, NEW slots \in Formations, NEW messages \in Seq(Packet),
         NEW type \in {"create", "update"}, Ready, begin(type, id, slots, messages),
         record' \in [Swarm -> Card],
         \A i \in Swarm : record'[i] = record[i] \/ record'[i] = NoRecord
                            \/ (record'[i].status # "none" /\ record'[i].slots \in Formations),
         clean' \in BOOLEAN, clean' => Alone, reused' \in BOOLEAN
  PROVE  FInv'
<1> DEFINE last == [number |-> operations, script |-> script, todo |-> todo]
<1>1. /\ script' = [type |-> type, swarm |-> id, slots |-> slots] /\ todo' = messages
      /\ sent' = [sent EXCEPT ![id] = @ \cup {slots}]
      /\ operations' = operations + 1 /\ busy' = TRUE
      /\ overlapped' = (overlapped \/ ~Alone)
      /\ UNCHANGED <<vars, link, announced, lost, rushed, switched>>
      /\ operations < MaxOperations
  BY DEF begin, Ready, Usable
<1>2. earlier' = IF script = NoScript THEN earlier ELSE earlier \cup {last}
  BY DEF begin
<1>3. IInv'
  BY <1>1, AtRestSound DEF FInv
<1>4. script'.swarm \in Swarm /\ script'.slots \in Formations /\ script' # NoScript
      /\ script' \in Script
  BY <1>1, NoLeaderOnNoCard, SwarmAssumption DEF NoScript, Script
<1>5. operations' \in 0..MaxOperations
  BY <1>1, BoundsAssumed DEF FInv, FleetTypeOK
<1>6. sent' \in [Swarm -> SUBSET Formations]
  BY <1>1 DEF FInv, FleetTypeOK
<1>7. last \in Running /\ last.script = script
  BY DEF FInv, FleetTypeOK, Running
<1> HIDE DEF last
<1>8. /\ earlier' \subseteq Running
      /\ \A e \in earlier' : e.script.swarm \in Swarm /\ e.script.slots \in Formations
  BY <1>2, <1>7 DEF FInv, FleetTypeOK
<1>9. earlier' # {} => overlapped' /\ ~clean'
  BY <1>1, <1>2 DEF Alone
<1>10. overlapped' \in BOOLEAN
  BY <1>1 DEF FInv, FleetTypeOK
<1>11. FleetTypeOK'
  BY <1>1, <1>3, <1>4, <1>5, <1>6, <1>8, <1>10 DEF FInv, FleetTypeOK, IInv
<1>12. \A i \in Swarm : /\ record'[i] # NoRecord => record'[i].status # "none"
                        /\ record'[i].leader # NoNode => record'[i].slots \in Formations
  BY NoLeaderOnNoCard DEF FInv
<1> QED
  BY <1>3, <1>4, <1>8, <1>9, <1>11, <1>12 DEF FInv

\* A deployment puts its card in place of all others.
LEMMA DeploySound ==
  ASSUME FInv, NEW id \in Swarm, NEW leader \in Leaders, NEW slots \in Formations,
         deploySwarm(id, leader, slots)
  PROVE  FInv'
<1> DEFINE a == [swarm |-> id, leader |-> leader, slots |-> slots]
           card == [leader |-> leader, slots |-> slots, status |-> "deploying"]
<1>1. a \in Aim /\ a.swarm = id /\ a.leader = leader /\ a.slots = slots
  BY FleetAssumption DEF Aim
<1>2. deployScript(id, leader, slots) \in Seq(Packet)
  BY <1>1, ScriptsAnnounce
<1>3. /\ record' = [i \in Swarm |-> IF i = id THEN card ELSE NoRecord]
      /\ Ready /\ begin("create", id, slots, deployScript(id, leader, slots))
      /\ clean' \in BOOLEAN /\ (clean' => Alone) /\ reused' \in BOOLEAN
  BY DEF deploySwarm, Alone, FInv, FleetTypeOK
<1>4. card \in Card /\ card.status # "none" /\ card.slots \in Formations
  BY FleetAssumption, NoLeaderOnNoCard DEF Card
<1> HIDE DEF card
<1>5. record' \in [Swarm -> Card]
  BY <1>3, <1>4, NoLeaderOnNoCard
<1>6. \A i \in Swarm : record'[i] = NoRecord
                         \/ (record'[i].status # "none" /\ record'[i].slots \in Formations)
  BY <1>3, <1>4
<1> QED
  BY <1>2, <1>3, <1>5, <1>6, BeginSound

\* A card on the panel without a leader would have stopped it: the script of a
\* change has one.
LEMMA UpdateAims ==
  ASSUME FInv, NEW id \in Swarm, NEW slots \in Formations, updateFormation(id, slots)
  PROVE  [swarm |-> id, leader |-> record[id].leader, slots |-> slots] \in Aim
<1>1. record[id] \in Card /\ record[id].status # "none" /\ ~Ghost(id)
  BY DEF updateFormation, Ready, Usable, FInv, FleetTypeOK
<1>2. record[id].leader \in Node
  BY <1>1 DEF Ghost, Card
<1> QED
  BY <1>2 DEF Aim

\* A change of formation leaves the cards as they are.
LEMMA UpdateFormationSound ==
  ASSUME FInv, NEW id \in Swarm, NEW slots \in Formations, updateFormation(id, slots)
  PROVE  FInv'
<1>1. updateScript(id, record[id].leader, slots) \in Seq(Packet)
  <2> DEFINE a == [swarm |-> id, leader |-> record[id].leader, slots |-> slots]
  <2>1. a \in Aim /\ a.swarm = id /\ a.leader = record[id].leader /\ a.slots = slots
    BY UpdateAims
  <2> QED
    BY <2>1, ScriptsAnnounce
<1>2. /\ Ready /\ begin("update", id, slots, updateScript(id, record[id].leader, slots))
      /\ UNCHANGED record
      /\ clean' \in BOOLEAN /\ (clean' => Alone) /\ reused' \in BOOLEAN
  BY DEF updateFormation, Alone, FInv, FleetTypeOK
<1>3. record' \in [Swarm -> Card]
  BY <1>2 DEF FInv, FleetTypeOK
<1> QED
  BY <1>1, <1>2, <1>3, BeginSound

\* The end of a script writes into its card, also into one that was dissolved
\* meanwhile, which then has no leader.
LEMMA Merged ==
  ASSUME FInv, NEW s, s.swarm \in Swarm, s.slots \in Formations, merge(s)
  PROVE  /\ record' \in [Swarm -> Card]
         /\ \A i \in Swarm : /\ record'[i] # NoRecord => record'[i].status # "none"
                             /\ record'[i].leader # NoNode => record'[i].slots \in Formations
                             /\ record'[i].leader = record[i].leader
         /\ \A i \in Swarm \ {s.swarm} : record'[i] = record[i]
         /\ record'[s.swarm].slots
              = IF s.type = "update" THEN s.slots ELSE record[s.swarm].slots
<1> DEFINE c == record[s.swarm]
           slots == IF s.type = "update" THEN s.slots ELSE c.slots
<1>1. record \in [Swarm -> Card] /\ c \in Card /\ s.slots \in List
  BY NoLeaderOnNoCard DEF FInv, FleetTypeOK
<1>2. /\ record'[s.swarm] = [leader |-> c.leader, slots |-> slots, status |-> "active"]
      /\ \A i \in Swarm \ {s.swarm} : record'[i] = record[i]
      /\ record' \in [Swarm -> Card]
  BY <1>1 DEF merge, Card
<1>3. c.leader # NoNode => slots \in Formations
  BY DEF FInv
<1>4. \A i \in Swarm : /\ record'[i] # NoRecord => record'[i].status # "none"
                       /\ record'[i].leader # NoNode => record'[i].slots \in Formations
                       /\ record'[i].leader = record[i].leader
  BY <1>2, <1>3 DEF FInv
<1> QED
  BY <1>2, <1>4

\* A script ends, the last or one that began before it.
LEMMA FinishSound ==
  ASSUME FInv, finishScript
  PROVE  FInv'
<1>1. /\ script # NoScript /\ todo = <<>> /\ script' = NoScript /\ busy' = FALSE /\ merge(script)
      /\ UNCHANGED <<vars, todo, earlier, link, clean, overlapped, reused, announced,
                     lost, rushed, switched, operations, sent>>
  BY DEF finishScript, counted
<1>2. IInv'
  BY <1>1, AtRestSound DEF FInv
<1>3. /\ record' \in [Swarm -> Card]
      /\ \A i \in Swarm : /\ record'[i] # NoRecord => record'[i].status # "none"
                          /\ record'[i].leader # NoNode => record'[i].slots \in Formations
  BY <1>1, Merged DEF FInv
<1>4. FleetTypeOK'
  BY <1>1, <1>2, <1>3, NoLeaderOnNoCard DEF FInv, FleetTypeOK, IInv
<1> QED
  BY <1>1, <1>2, <1>3, <1>4 DEF FInv

\* One that began before it ends.
LEMMA FinishEarlierSound ==
  ASSUME FInv, NEW e \in earlier, finishEarlier(e)
  PROVE  FInv'
<1>1. /\ merge(e.script) /\ earlier' = earlier \ {e}
      /\ UNCHANGED <<vars, script, todo, busy, link, clean, overlapped, reused, announced,
                     lost, rushed, switched, operations, sent>>
  BY DEF finishEarlier, counted
<1>2. IInv'
  BY <1>1, AtRestSound DEF FInv
<1>3. e.script.swarm \in Swarm /\ e.script.slots \in Formations
  BY DEF FInv
<1>4. /\ record' \in [Swarm -> Card]
      /\ \A i \in Swarm : /\ record'[i] # NoRecord => record'[i].status # "none"
                          /\ record'[i].leader # NoNode => record'[i].slots \in Formations
  BY <1>1, <1>3, Merged
<1>5. FleetTypeOK'
  BY <1>1, <1>2, <1>4 DEF FInv, FleetTypeOK, IInv
<1> QED
  BY <1>1, <1>2, <1>4, <1>5 DEF FInv

\* A dissolved swarm has no card.
LEMMA DissolveSound ==
  ASSUME FInv, NEW id \in Swarm, dissolveSwarm(id)
  PROVE  FInv'
<1>1. /\ record' = [record EXCEPT ![id] = NoRecord] /\ broadcast(Mode("Other"))
      /\ clean' = FALSE /\ operations' = operations + 1 /\ operations < MaxOperations
      /\ UNCHANGED <<vars, script, todo, earlier, busy, overlapped, reused, announced,
                     lost, rushed, switched, sent>>
  BY DEF dissolveSwarm, Usable
<1>2. IInv'
  BY <1>1, AtRestSound DEF FInv
<1>3. link' \in [Px4 -> Seq(Packet)]
  BY <1>1, PacketTypes, BroadcastTyped DEF FInv, FleetTypeOK
<1>4. operations' \in 0..MaxOperations
  BY <1>1, BoundsAssumed DEF FInv, FleetTypeOK
<1>5. record' \in [Swarm -> Card]
  BY <1>1, NoLeaderOnNoCard DEF FInv, FleetTypeOK
<1>6. FleetTypeOK'
  BY <1>1, <1>2, <1>3, <1>4, <1>5 DEF FInv, FleetTypeOK, IInv
<1>7. \A i \in Swarm : record'[i] = record[i] \/ record'[i] = NoRecord
  BY <1>1 DEF FInv, FleetTypeOK
<1>8. \A i \in Swarm : /\ record'[i] # NoRecord => record'[i].status # "none"
                       /\ record'[i].leader # NoNode => record'[i].slots \in Formations
  BY <1>7, NoLeaderOnNoCard DEF FInv
<1> QED
  BY <1>1, <1>2, <1>6, <1>8 DEF FInv

\* Every step keeps types and cards.
LEMMA FleetStepSound == FInv /\ [FleetNext]_allVars => FInv'
<1> SUFFICES ASSUME FInv, [FleetNext]_allVars PROVE FInv'
  OBVIOUS
<1>1. CASE UNCHANGED allVars
  <2>1. IInv'
    BY <1>1, AtRestSound DEF FInv, allVars
  <2> QED
    BY <1>1, <2>1 DEF FInv, FleetTypeOK, IInv, allVars, fleetVars, station, counted
<1>2. CASE GroundStation
  BY <1>2, DeploySound, UpdateFormationSound, DissolveSound, SwitchSound, PublishSound,
     FinishSound, PublishEarlierSound, FinishEarlierSound
  DEF GroundStation, Timers
<1>3. ASSUME NEW v \in Px4, Flight(v) \/ deliver(v) \/ rush(v) \/ lose(v)
      PROVE  FInv'
  BY <1>3, FlightSound, TakenSound
<1> QED
  BY <1>1, <1>2, <1>3 DEF FleetNext

\* Types and cards, whatever is lost, bunched or dissolved.
LEMMA FleetInductive == FleetSpec => []FInv
<1>1. FInv /\ [FleetNext]_allVars => FInv'
  BY FleetStepSound
<1> QED
  BY <1>1, FleetInitSound, PTL DEF FleetSpec

\* The type invariant of vehicles, links, scripts and cards, for any fleet and any
\* number of operations, lost and bunched messages.
THEOREM FleetTypeCorrect == FleetSpec => []FleetTypeOK
<1>1. FInv => FleetTypeOK
  BY DEF FInv
<1> QED
  BY <1>1, FleetInductive, PTL

-----------------------------------------------------------------------------
(***************************************************************************)
(* A new swarm is news to everybody.                                         *)
(***************************************************************************)
\* Nobody has heard of anything.
LEMMA NewsInit == FleetInit => News
<1> SUFFICES ASSUME FleetInit PROVE News
  OBVIOUS
<1>1. ASSUME NEW v \in Px4
      PROVE  Len(Rest(v)) = 0 /\ \A id \in Swarm : ~Heard(v, id)
  <2>1. formation[v] = NewFormation /\ management[v] = EmptyTopic /\ link[v] = <<>> /\ todo = <<>>
    BY DEF FleetInit, Init
  <2>2. \A id \in Swarm : ~Heard(v, id)
    BY <2>1, SwarmAssumption DEF Heard, NewFormation, EmptyTopic
  <2>3. <<>> \in Seq(Packet) /\ Len(<<>>) = 0
    OBVIOUS
  <2>4. Rest(v) = <<>> \o <<>>
    BY <2>1 DEF Rest
  <2> QED
    BY <2>2, <2>3, <2>4, ConcatProperties
<1> QED
  BY <1>1 DEF News, Unheard

\* Nothing is sent, and nobody hears anything.
LEMMA NewsKept ==
  ASSUME News, UNCHANGED <<clean, overlapped, reused>>, \A v \in Px4 : Rest(v)' = Rest(v),
         \A v \in Px4, id \in Swarm : ~Heard(v, id) => ~Heard(v, id)'
  PROVE  News'
BY DEF News, Trusted, Unheard, About, Creates

\* While scripts overlap nothing is claimed.
LEMMA NewsVoid ==
  ASSUME overlapped', ~clean'
  PROVE  News'
BY DEF News, Trusted

\* A vehicle that flies hears of nothing new.
LEMMA NewsFlight ==
  ASSUME FInv, News, NEW v \in Px4, Flight(v)
  PROVE  News'
<1>1. UNCHANGED <<clean, overlapped, reused, link, todo>> /\ Vehicle(v)
  BY DEF Flight, fleetVars, station
<1>2. \A u \in Px4 : Rest(u)' = Rest(u)
  BY <1>1 DEF Rest
<1>3. \A u \in Px4, id \in Swarm : ~Heard(u, id) => ~Heard(u, id)'
  BY <1>1, VehicleStep, UnmovedStays DEF FInv
<1> QED
  BY <1>1, <1>2, <1>3, NewsKept

\* Whoever takes a message in hears of what it announces, and of nothing else.
LEMMA NewsTaken ==
  ASSUME FInv, News, NEW v \in Px4, deliver(v) \/ rush(v) \/ lose(v)
  PROVE  News'
<1> DEFINE p == Head(link[v])
<1>1. /\ link[v] # <<>> /\ link' = [link EXCEPT ![v] = Tail(@)]
      /\ UNCHANGED <<todo, overlapped, reused>> /\ (clean' => clean)
      /\ receive(v) \/ UNCHANGED vars
  BY DEF deliver, rush, lose, station
<1>2. /\ p \in Packet /\ Len(Rest(v)) \in Nat \ {0}
      /\ Rest(v)[1] = p /\ Len(Rest(v)') = Len(Rest(v)) - 1
      /\ \A j \in 1..Len(Rest(v)') : Rest(v)'[j] = Rest(v)[j + 1]
      /\ \A u \in Px4 \ {v} : Rest(u)' = Rest(u)
  BY <1>1, RestTaken DEF FInv, FleetTypeOK
<1>3. \A u \in Px4 \ {v}, id \in Swarm : ~Heard(u, id) => ~Heard(u, id)'
  <2>1. CASE receive(v)
    BY <1>1, <1>2, <2>1, ReceiveStep, UnmovedStays DEF FInv
  <2>2. CASE UNCHANGED vars
    BY <2>2 DEF Heard, vars, taskVars, topicVars
  <2> QED
    BY <1>1, <2>1, <2>2
<1>4. \A id \in Swarm : ~Heard(v, id) /\ ~About(p, id) => ~Heard(v, id)'
  <2>1. CASE receive(v)
    BY <1>1, <1>2, <2>1, ReceiveStep DEF FInv
  <2>2. CASE UNCHANGED vars
    BY <2>2 DEF Heard, vars, taskVars, topicVars
  <2> QED
    BY <1>1, <2>1, <2>2
<1> HIDE DEF p
<1>5. ASSUME NEW id \in Swarm, NEW d \in 0..Len(Rest(v)'), Unheard(v, id, d + 1)
      PROVE  Unheard(v, id, d)'
  <2>1. ~About(p, id)
    <3>1. 1 \in 1..d + 1
      BY <1>2
    <3> QED
      BY <1>2, <1>5, <3>1 DEF Unheard
  <2>2. \A j \in 1..d : j + 1 \in 1..d + 1 /\ Rest(v)'[j] = Rest(v)[j + 1]
    BY <1>2
  <2> QED
    BY <1>4, <1>5, <2>1, <2>2 DEF Unheard, About
<1>6. ASSUME NEW id \in Swarm, NEW u \in Px4, NEW d \in 1..Len(Rest(u)'),
             Trusted(u, d)', Creates(Rest(u)'[d], id)
      PROVE  Unheard(u, id, d - 1)'
  <2>1. CASE u = v
    <3>1. /\ d + 1 \in 1..Len(Rest(v)) /\ Rest(v)'[d] = Rest(v)[d + 1]
          /\ d - 1 \in 0..Len(Rest(v)') /\ (d - 1) + 1 = (d + 1) - 1
          /\ Len(Rest(v)') = d + Total => Len(Rest(v)) = (d + 1) + Total
      BY <1>2, <2>1, SomeMember
    <3>2. Trusted(v, d + 1)
      BY <1>1, <1>6, <2>1, <3>1 DEF Trusted
    <3>3. Unheard(v, id, (d - 1) + 1)
      BY <1>6, <2>1, <3>1, <3>2 DEF News
    <3> QED
      BY <1>5, <2>1, <3>1, <3>3
  <2>2. CASE u # v
    <3>1. Unheard(u, id, d - 1)
      BY <1>1, <1>2, <1>6, <2>2 DEF News, Trusted
    <3> QED
      BY <1>2, <1>3, <2>2, <3>1 DEF Unheard, About
  <2> QED
    BY <2>1, <2>2
<1> QED
  BY <1>6 DEF News, Creates, About, Trusted

\* A script speaks of its own swarm only, and the announcement comes first.
LEMMA ScriptsSpeak ==
  ASSUME NEW a \in Aim, NEW messages,
         \/ messages = deployScript(a.swarm, a.leader, a.slots)
         \/ messages = updateScript(a.swarm, a.leader, a.slots)
  PROVE  \A j \in 1..Len(messages), id \in Swarm :
           /\ About(messages[j], id) => id = a.swarm
           /\ Creates(messages[j], id) =>
                /\ messages = deployScript(a.swarm, a.leader, a.slots)
                /\ \A i \in 1..j - 1 : ~About(messages[i], id)
<1> SUFFICES ASSUME NEW j \in 1..Len(messages), NEW id \in Swarm
             PROVE  /\ About(messages[j], id) => id = a.swarm
                    /\ Creates(messages[j], id) =>
                         /\ messages = deployScript(a.swarm, a.leader, a.slots)
                         /\ \A i \in 1..j - 1 : ~About(messages[i], id)
  OBVIOUS
<1>1. \A p : p = Mode("Swarm") => ~About(p, id)
  BY DEF About, Mode
<1>2. \A type, p : p = Configure([type |-> type, swarm |-> a.swarm, count |-> Total,
                                  leader |-> a.leader])
        => (About(p, id) => id = a.swarm) /\ (Creates(p, id) => type = "create")
  BY DEF About, Creates, Configure
<1>3. \A m, p : p = Place(m) => ~About(p, id) /\ ~Creates(p, id)
  BY DEF About, Creates, Place
<1>4. CASE messages = deployScript(a.swarm, a.leader, a.slots)
  <2>1. j = 1 \/ j = 2 \/ (j - 2 \in 1..Total /\ (j - 2) + 2 = j)
    <3>1. Len(messages) = Total + 2
      BY <1>4, ScriptsAnnounce
    <3> QED
      BY <3>1, SomeMember
  <2>2. messages[1] = Mode("Swarm")
    BY <1>4, ScriptsAnnounce
  <2>3. CASE j = 1
    BY <1>1, <2>2, <2>3 DEF Creates
  <2>4. CASE j = 2
    <3>1. messages[2] = Configure([type |-> "create", swarm |-> a.swarm, count |-> Total,
                                   leader |-> a.leader])
      BY <1>4, ScriptsAnnounce
    <3>2. \A i \in 1..j - 1 : i = 1
      BY <2>4
    <3> QED
      BY <1>1, <1>2, <1>4, <2>2, <2>4, <3>1, <3>2
  <2>5. CASE j - 2 \in 1..Total /\ (j - 2) + 2 = j
    <3>1. messages[(j - 2) + 2] = Place(Placing(a, Members[j - 2]))
      BY <1>4, <2>5, ScriptsAnnounce
    <3> QED
      BY <1>3, <2>5, <3>1
  <2> QED
    BY <2>1, <2>3, <2>4, <2>5
<1>5. CASE messages = updateScript(a.swarm, a.leader, a.slots)
  <2>1. j = 1 \/ (j - 1 \in 1..Total /\ (j - 1) + 1 = j)
    <3>1. Len(messages) = Total + 1
      BY <1>5, ScriptsAnnounce
    <3> QED
      BY <3>1, SomeMember
  <2>2. CASE j = 1
    <3>1. messages[1] = Configure([type |-> "update", swarm |-> a.swarm, count |-> Total,
                                   leader |-> a.leader])
      BY <1>5, ScriptsAnnounce
    <3>2. "update" # "create"
      OBVIOUS
    <3> QED
      BY <1>2, <2>2, <3>1, <3>2
  <2>3. CASE j - 1 \in 1..Total /\ (j - 1) + 1 = j
    <3>1. messages[(j - 1) + 1] = Place(Placing(a, Members[j - 1]))
      BY <1>5, <2>3, ScriptsAnnounce
    <3> QED
      BY <1>3, <2>3, <3>1
  <2> QED
    BY <2>1, <2>2, <2>3
<1> QED
  BY <1>4, <1>5

\* A script that begins alone announces its own swarm only, and creates it only if
\* nobody has heard of it.
LEMMA NewsBegun ==
  ASSUME FInv, News, NEW a \in Aim, Alone, NEW sort,
         NEW messages \in Seq(Packet), begin(sort, a.swarm, a.slots, messages),
         ~reused' => ~reused,
         \/ /\ messages = deployScript(a.swarm, a.leader, a.slots)
            /\ ~reused' \/ clean' => \A v \in Px4 : ~Knows(v, a.swarm)
         \/ messages = updateScript(a.swarm, a.leader, a.slots)
  PROVE  News'
<1>1. /\ todo' = messages /\ UNCHANGED <<formation, management, link>> /\ todo = <<>>
      /\ overlapped' = overlapped
  BY DEF begin, Alone, FInv, FleetTypeOK, vars, taskVars, topicVars
<1>2. a.swarm \in Swarm /\ Len(messages) \in Nat /\ Len(messages) > Total
  <2>1. Len(messages) = Total + 2 \/ Len(messages) = Total + 1
    BY ScriptsAnnounce
  <2> QED
    BY <2>1, SomeMember DEF Aim
<1>3. \A v \in Px4, id \in Swarm : Heard(v, id)' = Heard(v, id)
  BY <1>1 DEF Heard
<1>4. \A j \in 1..Len(messages), id \in Swarm : Creates(messages[j], id) =>
        /\ ~reused' \/ clean' => \A v \in Px4 : ~Knows(v, a.swarm)
        /\ id = a.swarm /\ \A i \in 1..j - 1 : ~About(messages[i], id)
  <2>1. CASE messages = deployScript(a.swarm, a.leader, a.slots)
             /\ (~reused' \/ clean' => \A v \in Px4 : ~Knows(v, a.swarm))
    BY <2>1, ScriptsSpeak DEF Creates
  <2>2. CASE messages = updateScript(a.swarm, a.leader, a.slots)
             /\ messages # deployScript(a.swarm, a.leader, a.slots)
    BY <2>2, ScriptsSpeak
  <2>3. CASE messages = updateScript(a.swarm, a.leader, a.slots)
             /\ messages = deployScript(a.swarm, a.leader, a.slots)
    <3>1. Len(messages) = Total + 2
      BY <2>3, ScriptsAnnounce
    <3>2. Len(messages) = Total + 1
      BY <2>3, ScriptsAnnounce
    <3> QED
      BY <3>1, <3>2, SomeMember
  <2> QED
    BY <2>1, <2>2, <2>3
<1>5. ASSUME NEW v \in Px4, NEW id \in Swarm, NEW d \in 0..Len(Rest(v)'),
             Unheard(v, id, IF d <= Len(Rest(v)) THEN d ELSE Len(Rest(v))),
             \A i \in 1..d - Len(Rest(v)) : ~About(messages[i], id)
      PROVE  Unheard(v, id, d)'
  <2>1. /\ Len(Rest(v)) \in Nat /\ Len(Rest(v)') = Len(Rest(v)) + Len(messages)
        /\ \A j \in 1..Len(Rest(v)') :
             Rest(v)'[j] = IF j <= Len(Rest(v)) THEN Rest(v)[j] ELSE messages[j - Len(Rest(v))]
    BY <1>1, RestBegun DEF FInv, FleetTypeOK
  <2>2. ASSUME NEW j \in 1..d PROVE ~About(Rest(v)'[j], id)
    <3>1. j \in 1..Len(Rest(v)')
      BY <1>2, <2>1
    <3>2. CASE j <= Len(Rest(v))
      <4>1. Rest(v)'[j] = Rest(v)[j]
            /\ j \in 1..(IF d <= Len(Rest(v)) THEN d ELSE Len(Rest(v)))
        BY <2>1, <3>1, <3>2
      <4> QED
        BY <1>5, <4>1 DEF Unheard
    <3>3. CASE ~(j <= Len(Rest(v)))
      <4>1. /\ j - Len(Rest(v)) \in 1..d - Len(Rest(v))
            /\ Rest(v)'[j] = messages[j - Len(Rest(v))]
        BY <2>1, <3>1, <3>3
      <4> QED
        BY <1>5, <4>1
    <3> QED
      BY <3>2, <3>3
  <2> QED
    BY <1>3, <1>5, <2>2 DEF Unheard, About
<1>6. ASSUME NEW v \in Px4
      PROVE  /\ Len(Rest(v)) \in Nat /\ Len(Rest(v)') = Len(Rest(v)) + Len(messages)
             /\ \A j \in 1..Len(Rest(v)') :
                  Rest(v)'[j] = IF j <= Len(Rest(v)) THEN Rest(v)[j]
                                ELSE messages[j - Len(Rest(v))]
  BY <1>1, RestBegun DEF FInv, FleetTypeOK
<1>7. ASSUME NEW v \in Px4, NEW id \in Swarm, ~Knows(v, id)
      PROVE  Unheard(v, id, Len(Rest(v)))
  <2>1. Rest(v) = link[v] /\ ~Heard(v, id)
    BY <1>1, <1>7, RestBegun DEF FInv, FleetTypeOK, Knows, Heard
  <2> QED
    BY <1>7, <2>1 DEF Knows, Unheard, About
<1>8. ASSUME NEW v \in Px4, NEW id \in Swarm, NEW d \in 1..Len(Rest(v)'),
             Trusted(v, d)', Creates(Rest(v)'[d], id)
      PROVE  Unheard(v, id, d - 1)'
  <2>1. d - 1 \in 0..Len(Rest(v)')
    BY <1>2, <1>6
  <2>2. CASE d <= Len(Rest(v))
    <3>1. d \in 1..Len(Rest(v)) /\ Rest(v)'[d] = Rest(v)[d] /\ Len(Rest(v)') # d + Total
      BY <1>2, <1>6, <2>2, SomeMember
    <3>2. Trusted(v, d)
      BY <1>1, <1>8, <3>1 DEF Trusted
    <3>3. Unheard(v, id, d - 1)
      BY <1>8, <3>1, <3>2 DEF News
    <3>4. d - 1 <= Len(Rest(v)) /\ \A i \in 1..(d - 1) - Len(Rest(v)) : FALSE
      BY <1>6, <2>2
    <3> QED
      BY <1>5, <2>1, <3>3, <3>4
  <2>3. CASE ~(d <= Len(Rest(v)))
    <3>1. /\ d - Len(Rest(v)) \in 1..Len(messages)
          /\ Rest(v)'[d] = messages[d - Len(Rest(v))]
      BY <1>2, <1>6, <2>3
    <3>2. ~reused' \/ clean'
      BY <1>8 DEF Trusted
    <3>3. /\ ~Knows(v, id) /\ id = a.swarm
          /\ \A i \in 1..(d - Len(Rest(v))) - 1 : ~About(messages[i], id)
      BY <1>4, <1>8, <3>1, <3>2 DEF Creates, About
    <3>4. Unheard(v, id, Len(Rest(v)))
      BY <1>7, <3>3
    <3>5. /\ (d - Len(Rest(v))) - 1 = (d - 1) - Len(Rest(v))
          /\ d - 1 <= Len(Rest(v)) => d - 1 = Len(Rest(v))
      BY <1>6, <2>3
    <3> QED
      BY <1>5, <2>1, <3>3, <3>4, <3>5
  <2> QED
    BY <2>2, <2>3
<1> QED
  BY <1>8 DEF News, Trusted, Creates, About

\* A change of mode is about no swarm.
LEMMA NewsDissolved ==
  ASSUME FInv, News, NEW id \in Swarm, dissolveSwarm(id)
  PROVE  News'
<1> DEFINE p == Mode("Other")
<1>1. broadcast(p) /\ UNCHANGED <<formation, management, todo, overlapped, reused>> /\ ~clean'
  BY DEF dissolveSwarm, vars, taskVars, topicVars
<1>2. p \in Packet /\ \A i \in Swarm : ~About(p, i)
  BY PacketTypes DEF About, Mode
<1> HIDE DEF p
<1> SUFFICES ASSUME NEW i \in Swarm, NEW v \in Px4
             PROVE  \A d \in 1..Len(Rest(v)') :
                      Trusted(v, d)' /\ Creates(Rest(v)'[d], i) => Unheard(v, i, d - 1)'
  BY DEF News, Trusted, Creates, About
<1> DEFINE c == Len(link[v])
<1>3. /\ c \in Nat /\ Len(Rest(v)) \in Nat /\ c <= Len(Rest(v))
      /\ Len(Rest(v)') = Len(Rest(v)) + 1
      /\ \A j \in 1..Len(Rest(v)') :
           Rest(v)'[j] = IF j <= c THEN Rest(v)[j] ELSE IF j = c + 1 THEN p ELSE Rest(v)[j - 1]
  BY <1>1, <1>2, RestBroadcast DEF FInv, FleetTypeOK
<1>4. Heard(v, i)' = Heard(v, i)
  BY <1>1 DEF Heard
<1> HIDE DEF c
<1>5. ASSUME NEW d \in 0..Len(Rest(v)'), Unheard(v, i, IF d <= c THEN d ELSE d - 1)
      PROVE  Unheard(v, i, d)'
  <2>1. ASSUME NEW j \in 1..d PROVE ~About(Rest(v)'[j], i)
    <3>1. j \in 1..Len(Rest(v)')
      BY <1>3
    <3>2. CASE j <= c
      <4>1. Rest(v)'[j] = Rest(v)[j] /\ j \in 1..(IF d <= c THEN d ELSE d - 1)
        BY <1>3, <3>1, <3>2
      <4> QED
        BY <1>5, <4>1 DEF Unheard
    <3>3. CASE j = c + 1
      BY <1>2, <1>3, <3>1, <3>3
    <3>4. CASE j > c + 1
      <4>1. Rest(v)'[j] = Rest(v)[j - 1] /\ j - 1 \in 1..(IF d <= c THEN d ELSE d - 1)
        BY <1>3, <3>1, <3>4
      <4> QED
        BY <1>5, <4>1 DEF Unheard
    <3> QED
      BY <1>3, <3>2, <3>3, <3>4
  <2> QED
    BY <1>4, <1>5, <2>1 DEF Unheard, About
<1>6. ASSUME NEW d, Trusted(v, d)'
      PROVE  \A e : Trusted(v, e)
  BY <1>1, <1>6 DEF Trusted
<1>7. ASSUME NEW d \in 1..Len(Rest(v)'), Trusted(v, d)', Creates(Rest(v)'[d], i)
      PROVE  Unheard(v, i, d - 1)'
  <2>1. d - 1 \in 0..Len(Rest(v)')
    BY <1>3
  <2>2. CASE d <= c
    <3>1. d \in 1..Len(Rest(v)) /\ Rest(v)'[d] = Rest(v)[d] /\ d - 1 <= c
      BY <1>3, <2>2
    <3>2. Unheard(v, i, d - 1)
      BY <1>6, <1>7, <3>1 DEF News
    <3> QED
      BY <1>5, <2>1, <3>1, <3>2
  <2>3. CASE d = c + 1
    BY <1>2, <1>3, <1>7, <2>3 DEF Creates
  <2>4. CASE d > c + 1
    <3>1. d - 1 \in 1..Len(Rest(v)) /\ Rest(v)'[d] = Rest(v)[d - 1] /\ ~(d - 1 <= c)
      BY <1>3, <2>4
    <3>2. Unheard(v, i, (d - 1) - 1)
      BY <1>6, <1>7, <3>1 DEF News
    <3> QED
      BY <1>5, <2>1, <3>1, <3>2
  <2> QED
    BY <1>3, <2>2, <2>3, <2>4
<1> QED
  BY <1>7

\* A new swarm stays news.
LEMMA NewsStep ==
  ASSUME FInv, News, [FleetNext]_allVars
  PROVE  News'
<1>1. ASSUME NEW i \in Swarm, NEW leader \in Leaders, NEW slots \in Formations,
             deploySwarm(i, leader, slots)
      PROVE  News'
  <2> DEFINE a == [swarm |-> i, leader |-> leader, slots |-> slots]
  <2>1. a \in Aim /\ a.swarm = i /\ a.leader = leader /\ a.slots = slots
    BY FleetAssumption DEF Aim
  <2> HIDE DEF a
  <2>2. begin("create", i, slots, deployScript(i, leader, slots))
    BY <1>1 DEF deploySwarm
  <2>3. deployScript(i, leader, slots) \in Seq(Packet)
    BY <2>1, ScriptsAnnounce
  <2>4. CASE Alone
    <3>1. /\ ~reused' => ~reused
          /\ ~reused' \/ clean' => \A v \in Px4 : ~Knows(v, i)
      BY <1>1, <2>4 DEF deploySwarm
    <3> QED
      BY <2>1, <2>2, <2>3, <2>4, <3>1, NewsBegun
  <2>5. CASE ~Alone
    BY <1>1, <2>2, <2>5, NewsVoid DEF deploySwarm, begin
  <2> QED
    BY <2>4, <2>5
<1>2. ASSUME NEW i \in Swarm, NEW slots \in Formations, updateFormation(i, slots)
      PROVE  News'
  <2>1. PICK a \in Aim : a.swarm = i /\ a.leader = record[i].leader /\ a.slots = slots
    BY <1>2, UpdateAims
  <2>2. begin("update", i, slots, updateScript(i, record[i].leader, slots)) /\ UNCHANGED reused
    BY <1>2 DEF updateFormation
  <2>3. updateScript(i, a.leader, slots) \in Seq(Packet)
    BY <2>1, ScriptsAnnounce
  <2>4. CASE Alone
    BY <2>1, <2>2, <2>3, <2>4, NewsBegun
  <2>5. CASE ~Alone
    BY <1>2, <2>2, <2>5, NewsVoid DEF updateFormation, begin
  <2> QED
    BY <2>4, <2>5
<1>3. ASSUME UNCHANGED <<vars, clean, overlapped, reused>>, \A v \in Px4 : Rest(v)' = Rest(v)
      PROVE  News'
  <2>1. UNCHANGED <<formation, management, clean, overlapped, reused>>
    BY <1>3 DEF vars, taskVars, topicVars
  <2> QED
    BY <1>3, <2>1, NewsKept DEF Heard
<1>4. CASE publishNext
  BY <1>3, <1>4, RestPublished DEF publishNext, FInv, FleetTypeOK
<1>5. CASE finishScript \/ switchTab
  <2>1. UNCHANGED <<vars, clean, overlapped, reused, link, todo>>
    BY <1>5 DEF finishScript, switchTab
  <2> QED
    BY <1>3, <2>1 DEF Rest
<1>6. ASSUME NEW e \in earlier, publishEarlier(e) \/ finishEarlier(e)
      PROVE  News'
  <2>1. overlapped' /\ ~clean'
    BY <1>6 DEF FInv, publishEarlier, finishEarlier
  <2> QED
    BY <2>1, NewsVoid
<1>7. CASE UNCHANGED allVars
  BY <1>3, <1>7 DEF allVars, fleetVars, station, Rest
<1> QED
  BY <1>1, <1>2, <1>4, <1>5, <1>6, <1>7, NewsDissolved, NewsFlight, NewsTaken
  DEF FleetNext, GroundStation, Timers

-----------------------------------------------------------------------------
(***************************************************************************)
(* The panel: one card at a time.                                           *)
(***************************************************************************)
\* Neither cards nor script change, and no fault is undone.
LEMMA CardsKept ==
  ASSUME Cards, UNCHANGED <<record, script>>, clean' = clean \/ clean' = FALSE
  PROVE  Cards'
BY DEF Cards

\* The panel keeps one card with members, and a script alone is about it.
LEMMA CardsStep ==
  ASSUME FInv, Cards, [FleetNext]_allVars
  PROVE  Cards'
<1>1. ASSUME NEW id \in Swarm, NEW leader \in Leaders, NEW slots \in Formations,
             deploySwarm(id, leader, slots)
      PROVE  Cards'
  <2> DEFINE card == [leader |-> leader, slots |-> slots, status |-> "deploying"]
  <2>1. /\ record' = [i \in Swarm |-> IF i = id THEN card ELSE NoRecord]
        /\ script' = [type |-> "create", swarm |-> id, slots |-> slots]
    BY <1>1 DEF deploySwarm, begin
  <2>2. card.leader # NoNode /\ card.slots = slots
    BY FleetAssumption, NodeAssumption
  <2> HIDE DEF card
  <2>3. /\ script'.swarm = id /\ script'.slots = slots
        /\ record'[id].leader # NoNode /\ record'[id].slots = slots
        /\ \A i \in Swarm : record'[i].leader # NoNode => i = id
    BY <2>1, <2>2, NoLeaderOnNoCard
  <2> QED
    BY <2>3 DEF Cards
<1>2. ASSUME NEW id \in Swarm, NEW slots \in Formations, updateFormation(id, slots)
      PROVE  Cards'
  <2>1. /\ UNCHANGED record
        /\ script' = [type |-> "update", swarm |-> id, slots |-> slots]
    BY <1>2 DEF updateFormation, begin
  <2>2. record[id].leader # NoNode
    BY <1>2, UpdateAims, NodeAssumption DEF Aim
  <2>3. script'.swarm = id /\ script'.type = "update"
    BY <2>1
  <2> QED
    BY <2>1, <2>2, <2>3 DEF Cards
<1>3. ASSUME NEW id \in Swarm, dissolveSwarm(id)
      PROVE  Cards'
  <2>1. record' = [record EXCEPT ![id] = NoRecord] /\ clean' = FALSE
    BY <1>3 DEF dissolveSwarm
  <2>2. \A i \in Swarm : record'[i].leader # NoNode => record[i].leader # NoNode
    BY <2>1, NoLeaderOnNoCard DEF FInv, FleetTypeOK
  <2> QED
    BY <2>1, <2>2 DEF Cards
<1>4. CASE publishNext \/ switchTab
  BY <1>4, CardsKept DEF publishNext, switchTab
<1>5. CASE finishScript
  <2>1. script' = NoScript /\ \A i \in Swarm : record'[i].leader = record[i].leader
    BY <1>5, Merged DEF finishScript, FInv
  <2> QED
    BY <2>1 DEF Cards
<1>6. ASSUME NEW e \in earlier, publishEarlier(e) \/ finishEarlier(e)
      PROVE  Cards'
  <2>1. /\ ~clean' /\ e.script.swarm \in Swarm /\ e.script.slots \in Formations
    BY <1>6 DEF FInv, publishEarlier, finishEarlier
  <2>2. \A i \in Swarm : record'[i].leader = record[i].leader
    BY <1>6, <2>1, Merged DEF publishEarlier, finishEarlier
  <2> QED
    BY <2>1, <2>2 DEF Cards
<1>7. ASSUME NEW v \in Px4, Flight(v) \/ deliver(v) \/ rush(v) \/ lose(v)
      PROVE  Cards'
  <2>1. UNCHANGED <<record, script>> /\ (clean' = clean \/ clean' = FALSE)
    BY <1>7 DEF Flight, deliver, rush, lose, fleetVars, station
  <2> QED
    BY <2>1, CardsKept
<1>8. CASE UNCHANGED allVars
  BY <1>8, CardsKept DEF allVars, fleetVars, station
<1> QED
  BY <1>1, <1>2, <1>3, <1>4, <1>5, <1>6, <1>7, <1>8 DEF FleetNext, GroundStation, Timers

-----------------------------------------------------------------------------
(***************************************************************************)
(* A script that meets no fault.                                            *)
(***************************************************************************)
\* Nothing is sent to v, and v gets no further than its own steps take it.
LEMMA TrackKept ==
  ASSUME NEW v \in Px4, NEW a \in Aim, OnTrack(v, a), Rest(v)' = Rest(v),
         \A k \in 0..Total : (nav[v] = "Swarm" => task[v] /\ OnTheWay(v, a, First(k))) =>
                             (nav'[v] = "Swarm" => task'[v] /\ OnTheWay(v, a, First(k))')
  PROVE  OnTrack(v, a)'
<1> DEFINE R == Rest(v)
<1>1. R' = R
  OBVIOUS
<1>2. \A d \in 1..Len(R) : Len(R) = d + Total =>
        R[d].kind = "management" /\ Announcing(R[d].message, a)
  BY DEF OnTrack
<1>3. \A k \in 0..Total : Len(R) + k = Total /\ nav'[v] = "Swarm" => task'[v] /\ OnTheWay(v, a, First(k))'
  BY DEF OnTrack
<1>4. \A j \in 1..Len(R), k \in 1..Total : j + Total = Len(R) + k => R[j] = Place(Placing(a, Members[k]))
  BY DEF OnTrack
<1> QED
  BY <1>1, <1>2, <1>3, <1>4 DEF OnTrack, Announcing, Placing, Place

\* v takes in the next message after it has dealt with the one before.
LEMMA TrackAdvances ==
  ASSUME FInv, News, clean, NEW v \in Px4, NEW a \in Aim, OnTrack(v, a), deliver(v)
  PROVE  OnTrack(v, a)'
<1> DEFINE R == Rest(v)
           p == Head(link[v])
<1>1. /\ link[v] # <<>> /\ link' = [link EXCEPT ![v] = Tail(@)] /\ UNCHANGED todo
      /\ receive(v) /\ Settled(v)
  BY DEF deliver, station
<1>2. /\ p \in Packet /\ Len(R) \in Nat \ {0} /\ R[1] = p /\ Len(R') = Len(R) - 1
      /\ \A j \in 1..Len(R') : R'[j] = R[j + 1]
  BY <1>1, RestTaken DEF FInv, FleetTypeOK
<1>3. /\ task'[v] = task[v] /\ formation'[v] = formation[v]
      /\ p.kind = "management" =>
           /\ nav'[v] = nav[v] /\ management'[v].last = p.message /\ Unread(management'[v])
           /\ node'[v] = node[v]
      /\ p.kind = "node" =>
           /\ nav'[v] = nav[v] /\ node'[v].last = p.message /\ Unread(node'[v])
           /\ management'[v] = management[v]
  BY <1>1, <1>2, ReceiveStep DEF FInv
<1>4. Total \in Nat \ {0} /\ a.swarm \in Swarm
  BY SomeMember DEF Aim
<1>5. nav[v] = "Swarm" /\ task[v] => ~Unread(management[v]) /\ ~Unread(node[v])
  BY <1>1 DEF Settled
<1>6. nav[v] = "Swarm" => task[v]
  BY <1>1 DEF Settled, FInv, IInv, TypeOK
<1> DEFINE S == R'
<1> HIDE DEF p, R
<1>0. Len(R) \in Nat \ {0} /\ Len(S) = Len(R) - 1
  BY <1>2 DEF S
<1>7. ASSUME NEW j \in 1..Len(S), NEW k \in 1..Total, j + Total = Len(S) + k
      PROVE  S[j] = Place(Placing(a, Members[k]))
  <2>1. j + 1 \in 1..Len(R) /\ (j + 1) + Total = Len(R) + k
    BY <1>0, <1>7, SomeMember
  <2> QED
    BY <1>2, <2>1 DEF OnTrack, R
<1>8. ASSUME NEW d \in 1..Len(S), Len(S) = d + Total
      PROVE  S[d].kind = "management" /\ Announcing(S[d].message, a)
  <2>1. d + 1 \in 1..Len(R) /\ Len(R) = (d + 1) + Total
    BY <1>0, <1>8, SomeMember
  <2> QED
    BY <1>2, <2>1 DEF OnTrack, R, S
<1>9. ASSUME NEW k \in 0..Total, Len(S) + k = Total, nav'[v] = "Swarm"
      PROVE  task'[v] /\ OnTheWay(v, a, First(k))'
  <2>1. CASE k = 0
    <3>1. 1 \in 1..Len(R) /\ Len(R) = 1 + Total
      BY <1>2, <1>4, <1>9, <2>1
    <3>2. /\ p.kind = "management" /\ Announcing(p.message, a)
          /\ p.message.type = "create" => ~Heard(v, a.swarm)
      <4>1. p.kind = "management" /\ Announcing(p.message, a)
        BY <1>2, <3>1 DEF OnTrack, R
      <4>2. p.message.type = "create" => Creates(R[1], a.swarm)
        BY <1>2, <4>1 DEF Creates, About, Announcing
      <4> QED
        BY <1>4, <3>1, <4>1, <4>2 DEF News, Trusted, Unheard, R
    <3>3. nav[v] = "Swarm" /\ task[v] /\ ~Unread(node'[v])
      BY <1>3, <1>5, <1>6, <1>9, <3>2 DEF Unread
    <3>4. OnTheWay(v, a, {})'
      BY <1>3, <3>2, <3>3 DEF OnTheWay, Heard
    <3> QED
      BY <1>3, <2>1, <3>3, <3>4, FirstMembers
  <2>2. CASE k > 0
    <3>1. /\ 1 \in 1..Len(R) /\ k \in 1..Total /\ 1 + Total = Len(R) + k
          /\ k - 1 \in 0..Total /\ Len(R) + (k - 1) = Total
      BY <1>0, <1>9, <2>2, SomeMember
    <3>2. p = Place(Placing(a, Members[k]))
      BY <1>2, <3>1 DEF OnTrack, R
    <3>3. p.kind = "node" /\ p.message = Placing(a, Members[k])
      BY <3>2 DEF Place
    <3>4. nav[v] = "Swarm" /\ task[v] /\ ~Unread(management[v]) /\ ~Unread(node[v])
      BY <1>3, <1>5, <1>6, <1>9, <3>3
    <3>5. OnTheWay(v, a, First(k - 1))
      BY <3>1, <3>4 DEF OnTrack, R
    <3>6. Collected(formation[v], a, First(k - 1))
      BY <3>4, <3>5 DEF OnTheWay
    <3>7. /\ node'[v].last = Placing(a, Members[k]) /\ Unread(node'[v]) /\ ~Unread(management'[v])
          /\ formation'[v] = formation[v]
      BY <1>3, <3>3, <3>4 DEF Unread
    <3>8. PICK n \in Node, L \in SUBSET Node :
            n = Members[k] /\ L = First(k - 1) /\ First(k) = L \cup {n}
      BY <3>1, FirstMembers
    <3>9. OnTheWay(v, a, L \cup {n})'
      BY <3>6, <3>7, <3>8 DEF OnTheWay, Collected, Placing
    <3> QED
      BY <1>3, <3>4, <3>8, <3>9
  <2> QED
    BY <2>1, <2>2
<1> QED
  BY <1>7, <1>8, <1>9 DEF OnTrack, S, R, Announcing, Placing, Place

\* A script that begins alone has everything before it.
LEMMA TrackBegun ==
  ASSUME FInv, Alone, NEW a \in Aim, NEW v \in Px4, NEW messages \in Seq(Packet),
         NEW sort, begin(sort, a.swarm, a.slots, messages),
         messages \in {deployScript(a.swarm, a.leader, a.slots),
                       updateScript(a.swarm, a.leader, a.slots)}
  PROVE  OnTrack(v, a)'
<1> DEFINE S == Rest(v)'
           n == Len(Rest(v))
           M == Len(messages)
<1>1. todo' = messages /\ todo = <<>> /\ UNCHANGED link
  BY DEF begin, Alone, FInv
<1>2. /\ n \in Nat /\ Len(S) = n + M
      /\ \A j \in 1..Len(S) : S[j] = IF j <= n THEN Rest(v)[j] ELSE messages[j - n]
  BY <1>1, RestBegun DEF FInv, FleetTypeOK
<1>3. PICK c \in {1, 2} :
        /\ M = Total + c
        /\ messages[c].kind = "management" /\ Announcing(messages[c].message, a)
        /\ \A k \in 1..Total : messages[k + c] = Place(Placing(a, Members[k]))
  <2> DEFINE m(type) == [type |-> type, swarm |-> a.swarm, count |-> Total, leader |-> a.leader]
  <2>1. \A type : /\ Configure(m(type)).kind = "management"
                  /\ Announcing(Configure(m(type)).message, a)
    BY DEF Configure, Announcing
  <2> HIDE DEF m
  <2>2. CASE messages = deployScript(a.swarm, a.leader, a.slots)
    <3>1. /\ M = Total + 2 /\ messages[2] = Configure(m("create"))
          /\ \A k \in 1..Total : messages[k + 2] = Place(Placing(a, Members[k]))
      BY <2>2, ScriptsAnnounce DEF m
    <3> HIDE DEF M
    <3> QED
      BY <2>1, <3>1
  <2>3. CASE messages = updateScript(a.swarm, a.leader, a.slots)
    <3>1. /\ M = Total + 1 /\ messages[1] = Configure(m("update"))
          /\ \A k \in 1..Total : messages[k + 1] = Place(Placing(a, Members[k]))
      BY <2>3, ScriptsAnnounce DEF m
    <3> HIDE DEF M
    <3> QED
      BY <2>1, <3>1
  <2> QED
    BY <2>2, <2>3
<1> HIDE DEF S, n, M
<1>4. n \in Nat /\ Len(S) = n + Total + c
  BY <1>2, <1>3, SomeMember
<1>5. ASSUME NEW j \in 1..Len(S), NEW k \in 1..Total, j + Total = Len(S) + k
      PROVE  S[j] = Place(Placing(a, Members[k]))
  <2>1. ~(j <= n) /\ j - n = k + c
    BY <1>4, <1>5, SomeMember
  <2> QED
    BY <1>2, <1>3, <2>1
<1>6. ASSUME NEW d \in 1..Len(S), Len(S) = d + Total
      PROVE  S[d].kind = "management" /\ Announcing(S[d].message, a)
  <2>1. ~(d <= n) /\ d - n = c
    BY <1>4, <1>6, SomeMember
  <2> QED
    BY <1>2, <1>3, <2>1
<1>7. \A k \in 0..Total : Len(S) + k # Total
  BY <1>4, SomeMember
<1> QED
  BY <1>5, <1>6, <1>7 DEF OnTrack, S, Announcing, Placing, Place

\* Every step keeps everybody on track, or is a fault.
LEMMA TracksStep ==
  ASSUME CleanInv, [FleetNext]_allVars
  PROVE  Tracks'
<1> SUFFICES ASSUME clean', NEW id \in Swarm, NEW v \in Px4, NEW a \in Aim, AimedAt(a, id)'
             PROVE  OnTrack(v, a)'
  BY DEF Tracks
<1>1. a.swarm = id
  BY DEF AimedAt
<1>2. ASSUME clean, AimedAt(a, id)
      PROVE  OnTrack(v, a)
  BY <1>2 DEF CleanInv, Tracks
<1>3. ASSUME NEW i \in Swarm, NEW leader \in Leaders, NEW slots \in Formations,
             deploySwarm(i, leader, slots)
      PROVE  OnTrack(v, a)'
  <2> DEFINE card == [leader |-> leader, slots |-> slots, status |-> "deploying"]
  <2>1. /\ record' = [j \in Swarm |-> IF j = i THEN card ELSE NoRecord]
        /\ script' = [type |-> "create", swarm |-> i, slots |-> slots] /\ Alone
        /\ begin("create", i, slots, deployScript(i, leader, slots))
    BY <1>3 DEF deploySwarm, begin
  <2>2. id = i /\ record'[id].leader = leader
    BY <2>1, NoLeaderOnNoCard DEF AimedAt
  <2>3. script' # NoScript /\ script'.slots = slots
    BY <2>1, SwarmAssumption DEF NoScript
  <2>4. a = [swarm |-> i, leader |-> leader, slots |-> slots]
    BY <2>2, <2>3 DEF AimedAt
  <2>5. a.swarm = i /\ a.leader = leader /\ a.slots = slots
    BY <2>4
  <2>6. deployScript(i, leader, slots) \in Seq(Packet)
    BY <2>5, ScriptsAnnounce
  <2> QED
    BY <2>1, <2>5, <2>6, TrackBegun DEF CleanInv
<1>4. ASSUME NEW i \in Swarm, NEW slots \in Formations, updateFormation(i, slots)
      PROVE  OnTrack(v, a)'
  <2>1. /\ UNCHANGED record
        /\ script' = [type |-> "update", swarm |-> i, slots |-> slots] /\ Alone
        /\ begin("update", i, slots, updateScript(i, record[i].leader, slots))
    BY <1>4 DEF updateFormation, begin
  <2>2. record[id].leader # NoNode /\ record[i].leader # NoNode
    BY <1>4, <2>1, UpdateAims, NodeAssumption DEF AimedAt, Aim, CleanInv
  <2>3. id = i
    BY <2>1, <2>2 DEF CleanInv, Cards
  <2>4. script' # NoScript /\ script'.slots = slots
    BY <2>1, SwarmAssumption DEF NoScript
  <2>5. a = [swarm |-> i, leader |-> record[i].leader, slots |-> slots]
    BY <2>1, <2>3, <2>4 DEF AimedAt
  <2>6. a.swarm = i /\ a.leader = record[i].leader /\ a.slots = slots
    BY <2>5
  <2>7. updateScript(i, record[i].leader, slots) \in Seq(Packet)
    BY <2>6, ScriptsAnnounce
  <2> QED
    BY <2>1, <2>6, <2>7, TrackBegun DEF CleanInv
<1>5. ASSUME NEW i \in Swarm, dissolveSwarm(i)
      PROVE  FALSE
  BY <1>5 DEF dissolveSwarm
<1>6. ASSUME \A u \in Px4 : Rest(u)' = Rest(u), AimedAt(a, id), UNCHANGED <<vars, clean>>
      PROVE  OnTrack(v, a)'
  <2>1. /\ UNCHANGED <<nav, task, formation, management, node>>
    BY <1>6 DEF vars, taskVars, topicVars
  <2>2. Unmoved(v)
    BY <2>1 DEF Unmoved
  <2> QED
    BY <1>2, <1>6, <2>1, <2>2, TrackKept, UnmovedStays
<1>7. CASE publishNext
  <2>1. \A u \in Px4 : Rest(u)' = Rest(u)
    BY <1>7, RestPublished DEF CleanInv, FInv, FleetTypeOK
  <2>2. UNCHANGED <<vars, clean, record, script>>
    BY <1>7 DEF publishNext
  <2> QED
    BY <1>6, <2>1, <2>2 DEF AimedAt
<1>8. CASE finishScript
  <2>1. /\ script # NoScript /\ script' = NoScript /\ UNCHANGED <<vars, clean, link, todo>>
        /\ merge(script) /\ script.swarm \in Swarm /\ script.slots \in Formations
    BY <1>8 DEF finishScript, CleanInv, FInv
  <2>2. /\ \A i \in Swarm : record'[i].leader = record[i].leader
        /\ record'[script.swarm].slots
             = IF script.type = "update" THEN script.slots ELSE record[script.swarm].slots
    BY <2>1, Merged DEF CleanInv
  <2>3. record[id].leader # NoNode /\ id = script.swarm
    BY <2>1, <2>2 DEF AimedAt, CleanInv, Cards
  <2>4. record'[id].slots = script.slots
    BY <2>1, <2>2, <2>3 DEF CleanInv, Cards
  <2>5. AimedAt(a, id)
    BY <2>1, <2>2, <2>3, <2>4 DEF AimedAt
  <2>6. \A u \in Px4 : Rest(u)' = Rest(u)
    BY <2>1 DEF Rest
  <2> QED
    BY <1>6, <2>1, <2>5, <2>6
<1>9. ASSUME NEW u \in Px4, Flight(u)
      PROVE  OnTrack(v, a)'
  <2>1. /\ UNCHANGED <<record, script, clean, link, todo>> /\ Vehicle(u)
    BY <1>9 DEF Flight, fleetVars, station
  <2>2. AimedAt(a, id) /\ Rest(v)' = Rest(v) /\ OnTrack(v, a)
    BY <1>2, <2>1 DEF AimedAt, Rest
  <2>3. a.swarm \in Swarm
    BY <1>1
  <2>4. CASE u = v
    BY <2>1, <2>2, <2>3, <2>4, VehicleStep, FirstMembers, TrackKept DEF CleanInv, FInv
  <2>5. CASE u # v
    <3>1. Unmoved(v)
      BY <2>1, <2>5, VehicleStep DEF CleanInv, FInv
    <3>2. nav'[v] = nav[v] /\ task'[v] = task[v]
      BY <3>1 DEF Unmoved
    <3> QED
      BY <2>2, <3>1, <3>2, UnmovedStays, TrackKept
  <2> QED
    BY <2>4, <2>5
<1>10. ASSUME NEW u \in Px4, deliver(u)
       PROVE  OnTrack(v, a)'
  <2>1. /\ UNCHANGED <<record, script, clean, todo>> /\ link[u] # <<>>
        /\ link' = [link EXCEPT ![u] = Tail(@)] /\ receive(u)
    BY <1>10 DEF deliver, station
  <2>2. AimedAt(a, id) /\ OnTrack(v, a)
    BY <1>2, <2>1 DEF AimedAt
  <2>3. CASE u = v
    BY <1>10, <2>1, <2>2, <2>3, TrackAdvances DEF CleanInv
  <2>4. CASE u # v
    <3>1. Head(link[u]) \in Packet /\ Rest(v)' = Rest(v)
      BY <2>1, <2>4, RestTaken DEF CleanInv, FInv, FleetTypeOK
    <3>2. Unmoved(v)
      BY <2>1, <2>4, <3>1, ReceiveStep DEF CleanInv, FInv
    <3>3. nav'[v] = nav[v] /\ task'[v] = task[v]
      BY <3>2 DEF Unmoved
    <3> QED
      BY <2>2, <3>1, <3>2, <3>3, UnmovedStays, TrackKept
  <2> QED
    BY <2>3, <2>4
<1>11. ASSUME NEW u \in Px4, rush(u) \/ lose(u)
       PROVE  FALSE
  BY <1>11 DEF rush, lose
<1>12. CASE UNCHANGED allVars
  <2>1. /\ UNCHANGED <<vars, clean, record, script, link, todo>>
    BY <1>12 DEF allVars, fleetVars, station
  <2> QED
    BY <1>6, <2>1 DEF AimedAt, Rest
<1>13. CASE switchTab
  <2>1. /\ UNCHANGED <<vars, clean, record, script, link, todo>>
    BY <1>13 DEF switchTab
  <2> QED
    BY <1>6, <2>1 DEF AimedAt, Rest
<1>14. ASSUME NEW e \in earlier, publishEarlier(e) \/ finishEarlier(e)
       PROVE  FALSE
  BY <1>14 DEF publishEarlier, finishEarlier, CleanInv, FInv
<1> QED
  BY <1>3, <1>4, <1>5, <1>7, <1>8, <1>9, <1>10, <1>11, <1>12, <1>13, <1>14
  DEF FleetNext, GroundStation, Timers

\* The invariant about scripts without faults.
LEMMA CleanInductive == FleetSpec => []CleanInv
<1>1. FleetInit => CleanInv
  <2>1. FleetInit => Cards
    BY NoLeaderOnNoCard DEF FleetInit, Cards
  <2>2. FleetInit => Tracks
    BY DEF FleetInit, Tracks
  <2> QED
    BY <2>1, <2>2, FleetInitSound, NewsInit DEF CleanInv
<1>2. CleanInv /\ [FleetNext]_allVars => CleanInv'
  <2> SUFFICES ASSUME CleanInv, [FleetNext]_allVars
               PROVE  CleanInv'
    OBVIOUS
  <2>1. FInv'
    BY FleetStepSound DEF CleanInv
  <2>2. News'
    BY NewsStep DEF CleanInv
  <2>3. Cards'
    BY CardsStep DEF CleanInv
  <2>4. Tracks'
    BY TracksStep
  <2> QED
    BY <2>1, <2>2, <2>3, <2>4 DEF CleanInv
<1> QED
  BY <1>1, <1>2, PTL DEF FleetSpec

\* Whatever happened before, once all messages of a script arrived in time, no other
\* script ran meanwhile and nobody knew the id of its new swarm, every vehicle
\* still in the Swarm mode flies what the card shows: the next script repairs
\* whatever lost and bunched messages, scripts that ran at once and ids that were
\* given out again left behind.
THEOREM CleanScriptRepairs == FleetSpec => []CleanScriptConverges
<1>1. CleanInv => CleanScriptConverges
  <2> SUFFICES ASSUME CleanInv, Quiet, clean, NEW id \in Swarm, NEW v \in Px4,
                      record[id].leader \notin {NoNode, v}, nav[v] = "Swarm"
               PROVE  FliesCard(v, id)
    BY DEF CleanScriptConverges
  <2> DEFINE f == formation[v]
             a == [swarm |-> id, leader |-> record[id].leader, slots |-> record[id].slots]
  <2>1. script = NoScript /\ link[v] = <<>> /\ Settled(v) /\ todo = <<>>
    BY DEF Quiet, Alone, CleanInv, FInv
  <2>2. record[id].leader \in Node /\ record[id].slots \in Formations
    BY DEF CleanInv, FInv, FleetTypeOK, Card
  <2>3. a \in Aim
    BY <2>2 DEF Aim
  <2>4. OnTrack(v, a)
    BY <2>1, <2>3 DEF CleanInv, Tracks, AimedAt
  <2>5. Len(Rest(v)) = 0
    <3>1. <<>> \in Seq(Packet) /\ Len(<<>>) = 0 /\ Rest(v) = <<>> \o <<>>
      BY <2>1 DEF Rest
    <3> QED
      BY <3>1, ConcatProperties
  <2> HIDE DEF a
  <2>6. task[v] /\ OnTheWay(v, a, Node)
    <3>1. Total \in 0..Total /\ Len(Rest(v)) + Total = Total
      BY <2>5, SomeMember
    <3> QED
      BY <2>1, <2>4, <3>1, FirstMembers DEF OnTrack
  <2>7. ~Unread(management[v]) /\ ~Unread(node[v])
    BY <2>1, <2>6 DEF Settled
  <2>8. Collected(f, a, Node)
    BY <2>6, <2>7 DEF OnTheWay
  <2>9. /\ f.swarm = id /\ ~f.updating /\ f.nodes = Chosen(record[id].slots, Node)
        /\ f.expected = Total /\ f.leader = record[id].leader
    BY <2>8 DEF Collected, a
  <2>10. f.nodes = record[id].slots /\ Size(f.nodes) = Total
    BY <2>2, <2>9, ChosenFacts
  <2>11. f.count = Total
    BY <2>10 DEF CleanInv, FInv, IInv, Sound, CountsNodes
  <2>12. Total > 1
    <3>1. PICK i \in 1..Total, j \in 1..Total : Members[i] = record[id].leader /\ Members[j] = v
      BY <2>2, MembersFacts, Px4Assumption
    <3>2. i # j
      BY <3>1
    <3> QED
      BY <3>2, SomeMember
  <2> QED
    BY <2>9, <2>10, <2>11, <2>12 DEF FliesCard, Flying, Complete
<1> QED
  BY <1>1, CleanInductive, PTL

-----------------------------------------------------------------------------
(***************************************************************************)
(* As long as every announcement arrives, and nothing comes bunched.        *)
(***************************************************************************)
\* A vehicle's own steps: it reads what is unread, in the order it was sent.
LEMMA FlightNotMixed ==
  ASSUME FInv, NEW v \in Px4, Vehicle(v), UNCHANGED sent, NotMixed(v),
         Idle(v) \/ \E a : Scripted(a) /\ Reached(v, a)
  PROVE  NotMixed(v)' /\ (Idle(v) => Idle(v)')
<1>0. /\ nav \in [Px4 -> {"Swarm", "Other"}] /\ task \in [Px4 -> BOOLEAN]
      /\ formation \in [Px4 -> Formation] /\ Sound(formation[v], v) /\ IInv
      /\ ~task[v] => formation[v] = NewFormation
  BY DEF FInv, IInv, TypeOK, NothingSurvivesTask
<1>1. Sound(formation'[v], v)
  BY VehicleSound DEF FInv, IInv
<1>2. CASE StartTask(v)
  <2> DEFINE f1 == afterManagement(NewFormation, v)
             f2 == afterNode(f1, v)
  <2>1. /\ update(v, NewFormation, newReferences, Nothing, TRUE) /\ UNCHANGED nav
        /\ nav[v] = "Swarm" /\ ~task[v]
    BY <1>2 DEF StartTask
  <2>2. Sound(NewFormation, v) /\ NewFormation.nodes = EmptyList /\ NewFormation.updating = FALSE
        /\ NewFormation.swarm = NoSwarm /\ NewFormation \in Formation
    BY NewFormationSound, Px4Assumption DEF NewFormation, Sound
  <2>3. /\ formation'[v] = locate(f2, positionsRead(v))
        /\ Sound(f1, v) /\ Sound(f2, v) /\ ~Unread(management'[v]) /\ ~Unread(node'[v])
    BY <1>0, <2>1, <2>2, UpdateEffect
  <2>4. f1.nodes = EmptyList /\ f1.updating = FALSE
    <3>1. CASE Unread(management[v])
      <4> DEFINE m == management[v].last
                 g == onManagement(NewFormation, m)
      <4>1. m \in Management /\ f1 = g
        BY <1>0, <3>1 DEF IInv, Readable, afterManagement
      <4>2. ~StartsUpdate(NewFormation, m)
        BY <2>2 DEF StartsUpdate
      <4>3. g.nodes = EmptyList /\ g.updating = FALSE
        BY <2>2, <4>1, <4>2, ManagementFields
      <4> QED
        BY <4>1, <4>3
    <3>2. CASE ~Unread(management[v])
      BY <2>2, <3>2 DEF afterManagement
    <3> QED
      BY <3>1, <3>2
  <2> HIDE DEF f1
  <2>5. \E n : Listed(f2.nodes) \subseteq {n}
    <3>1. CASE Unread(node[v])
      <4> DEFINE m == node[v].last
                 g == collectNode(f1, m, v)
      <4>1. m \in NodeMessage /\ f2 = g
        BY <1>0, <2>4, <3>1 DEF IInv, Readable, afterNode, onNode
      <4>2. f1 \in Formation
        BY <2>3 DEF Sound
      <4>3. g.nodes = (IF f1.nodes[m.node] = NoSlot THEN upsertNode(f1.nodes, m.node, m.slot)
                                                    ELSE f1.nodes)
        BY <4>1, <4>2, CollectNodeFields
      <4> HIDE DEF g
      <4>4. Listed(g.nodes) \subseteq {m.node}
        BY <2>4, <4>3 DEF Listed, upsertNode, EmptyList
      <4> QED
        BY <4>1, <4>4
    <3>2. CASE ~Unread(node[v])
      BY <2>4, <3>2 DEF afterNode, Listed, EmptyList
    <3> QED
      BY <3>1, <3>2
  <2> HIDE DEF f2
  <2>6. formation'[v].nodes = f2.nodes
    BY <2>3, LocateTransition DEF Sound
  <2>7. Size(formation'[v].nodes) <= 1
    <3>1. PICK n : Listed(formation'[v].nodes) \subseteq {n}
      BY <2>5, <2>6
    <3>2. IsFiniteSet({n}) /\ Cardinality({n}) = 1
      BY FS_Singleton
    <3> QED
      BY <3>1, <3>2, FS_Subset DEF Size
  <2>8. ~Flying(formation'[v])
    <3>1. Size(formation'[v].nodes) \in Nat /\ formation'[v].count = Size(formation'[v].nodes)
      BY <1>1, SizeBound DEF Sound, CountsNodes
    <3> QED
      BY <2>7, <3>1 DEF Flying, Complete
  <2>9. Idle(v)'
    BY <2>3 DEF Idle
  <2> QED
    BY <2>8, <2>9 DEF NotMixed
<1>3. ASSUME NEW due \in StatusDue, RunTask(v, due)
      PROVE  NotMixed(v)' /\ Idle(v)'
  <2> DEFINE f == formation[v]
             g == formation'[v]
  <2>1. /\ update(v, f, reference[v], setpoint[v], due) /\ UNCHANGED <<nav, task>>
        /\ nav[v] = "Swarm" /\ task[v]
    BY <1>3 DEF RunTask
  <2>2. /\ g = locate(afterNode(afterManagement(f, v), v), positionsRead(v))
        /\ ~Unread(management'[v]) /\ ~Unread(node'[v])
    BY <1>0, <2>1, UpdateEffect
  <2>3. Idle(v)'
    BY <2>2 DEF Idle
  <2>4. CASE Idle(v)
    <3>1. ~Unread(management[v]) /\ ~Unread(node[v])
      BY <2>1, <2>4 DEF Idle
    <3>2. g = locate(f, positionsRead(v))
      BY <2>2, <3>1 DEF afterManagement, afterNode
    <3>3. g.nodes = f.nodes /\ g.swarm = f.swarm /\ g.count = f.count /\ g.expected = f.expected
      BY <1>0, <3>2, LocateTransition DEF Sound
    <3> HIDE DEF g
    <3>4. Flying(g) => g.swarm \in Swarm /\ g.nodes \in sent[g.swarm]
      BY <3>3 DEF NotMixed, Flying, Complete
    <3> QED
      BY <2>3, <3>4 DEF NotMixed, g
  <2>5. ASSUME NEW a, Scripted(a), Reached(v, a)
        PROVE  NotMixed(v)'
    <3>1. a \in Aim
      BY <2>5 DEF Scripted
    <3>2. PICK K \in SUBSET Node : OnTheWay(v, a, K)
      BY <2>1, <2>5 DEF Reached
    <3>3. Collected(g, a, K) /\ (g.updating => f.swarm = a.swarm)
      BY <1>0, <2>1, <3>1, <3>2, UpdateCollects
    <3>4. g.updating => Flown(g) = Flown(f)
      BY <1>0, <2>1, UpdateTransition
    <3>5. /\ f.count = Size(f.nodes) /\ g.count = Size(g.nodes)
      BY <1>0, <1>1 DEF Sound, CountsNodes
    <3>6. a.slots \in sent[a.swarm] /\ a.slots \in Formations /\ a.swarm \in Swarm
      BY <2>5 DEF Scripted, Aim
    <3> HIDE DEF f, g
    <3>7. ASSUME Flying(g) PROVE g.swarm \in Swarm /\ g.nodes \in sent[g.swarm]
      <4>1. CASE g.updating
        <5>1. g.nodes = f.nodes /\ g.expected = f.expected
          BY <3>4, <4>1 DEF Flown
        <5>2. g.swarm = f.swarm
          BY <3>3, <4>1 DEF Collected
        <5>3. Flying(f)
          BY <3>5, <3>7, <5>1 DEF Flying, Complete
        <5> QED
          BY <5>1, <5>2, <5>3 DEF NotMixed, f
      <4>2. CASE ~g.updating
        <5>1. g.nodes = Chosen(a.slots, K) /\ g.expected = Total /\ g.swarm = a.swarm
          BY <3>3, <4>2 DEF Collected
        <5>2. Size(Chosen(a.slots, K)) = Total
          BY <3>5, <3>7, <5>1 DEF Flying, Complete
        <5>3. Chosen(a.slots, K) = a.slots
          BY <3>6, <5>2, ChosenFacts
        <5> QED
          BY <3>6, <5>1, <5>3
      <4> QED
        BY <4>1, <4>2
    <3> QED
      BY <3>7 DEF NotMixed, g
  <2> QED
    BY <2>3, <2>4, <2>5
<1>4. CASE StopTask(v)
  <2>1. nav'[v] # "Swarm" /\ formation'[v] = NewFormation
    BY <1>0, <1>4 DEF StopTask
  <2>2. NewFormation.expected = 0
    BY DEF NewFormation
  <2> QED
    BY <2>1, <2>2 DEF Idle, NotMixed, Flying
<1>5. CASE EnterHold(v)
  <2>1. nav'[v] = "Other" /\ formation' = formation
    BY <1>0, <1>5 DEF EnterHold, taskVars
  <2> QED
    BY <2>1 DEF Idle, NotMixed
<1> QED
  BY <1>2, <1>3, <1>4, <1>5 DEF Vehicle

\* What was sent stays sent.
LEMMA SentStays ==
  ASSUME FInv, \A i \in Swarm : sent[i] \subseteq sent'[i]
  PROVE  /\ \A a : Scripted(a) => Scripted(a)'
         /\ \A S : Announced(S) => Announced(S)'
         /\ \A v \in Px4 : NotMixed(v) /\ formation'[v] = formation[v] => NotMixed(v)'
<1>1. \A a : Scripted(a) => Scripted(a)'
  BY DEF Scripted, Aim
<1>2. \A S : Announced(S) => Announced(S)'
  BY <1>1 DEF Announced, Announcing, Serves, Placing
<1>3. \A v \in Px4 : NotMixed(v) /\ formation'[v] = formation[v] => NotMixed(v)'
  BY DEF NotMixed
<1> QED
  BY <1>1, <1>2, <1>3

\* A vehicle to which nothing happens stays where it is.
LEMMA UnmovedRests ==
  ASSUME NEW v \in Px4, Unmoved(v)
  PROVE  (\A a : Reached(v, a) => Reached(v, a)') /\ (Idle(v) => Idle(v)')
<1>1. ASSUME NEW a, Reached(v, a) PROVE Reached(v, a)'
  BY <1>1 DEF Unmoved, Reached, OnTheWay
<1>2. Idle(v) => Idle(v)'
  BY DEF Unmoved, Idle
<1> QED
  BY <1>1, <1>2

\* The first message is gone.
LEMMA RestShifts ==
  ASSUME NEW R, NEW S, Len(R) \in Nat \ {0}, Len(S) = Len(R) - 1,
         \A j \in 1..Len(S) : S[j] = R[j + 1]
  PROVE  /\ \A d \in 0..Len(S) : \A a : Serves(R, d + 1, a) => Serves(S, d, a)
         /\ R[1].kind # "management" =>
              /\ \A a : Serves(R, 0, a) => Serves(S, 0, a)
              /\ Bare(R) => Bare(S)
              /\ R[1] = Mode("Swarm") => \A a : Serves(R, 0, a) => Bare(S)
<1>1. ASSUME NEW d \in 0..Len(S), NEW j \in 1..Len(S), Follows(S, d, j)
      PROVE  Follows(R, d + 1, j + 1)
  <2>0. (j + 1) - 1 = j /\ (d < j => d + 1 < j + 1)
    OBVIOUS
  <2> SUFFICES ASSUME NEW i \in 1..j, d + 1 < i
               PROVE  R[i].kind # "management"
    BY <1>1, <2>0 DEF Follows
  <2>1. i - 1 \in 1..(j - 1) /\ d < i - 1 /\ i - 1 \in 1..Len(S) /\ (i - 1) + 1 = i
    OBVIOUS
  <2> QED
    BY <1>1, <2>1 DEF Follows
<1>2. ASSUME NEW d \in 0..Len(S), NEW j \in 1..Len(S), NEW e \in Int, e <= d + 1,
             \A i \in 1..j : e < i => R[i] # Mode("Swarm")
      PROVE  \A i \in 1..(j - 1) : d < i => S[i] # Mode("Swarm")
  <2> SUFFICES ASSUME NEW i \in 1..(j - 1), d < i
               PROVE  S[i] # Mode("Swarm")
    OBVIOUS
  <2>1. i + 1 \in 1..j /\ e < i + 1 /\ i \in 1..Len(S)
    BY <1>2
  <2> QED
    BY <1>2, <2>1
<1>3. ASSUME NEW d \in 0..Len(S), NEW a, Serves(R, d + 1, a)
      PROVE  Serves(S, d, a)
  <2> SUFFICES ASSUME NEW j \in 1..Len(S), Follows(S, d, j), S[j].kind = "node"
               PROVE  /\ \E n \in Node : S[j].message = Placing(a, n)
                      /\ \A i \in 1..(j - 1) : d < i => S[i] # Mode("Swarm")
    BY DEF Serves
  <2>1. j + 1 \in 1..Len(R) /\ S[j] = R[j + 1] /\ (j + 1) - 1 = j
    OBVIOUS
  <2>2. Follows(R, d + 1, j + 1)
    BY <1>1
  <2>3. PICK h \in 1..Len(R) : h = j + 1
    BY <2>1
  <2>4. /\ \E n \in Node : R[h].message = Placing(a, n)
        /\ \A i \in 1..(h - 1) : d + 1 < i => R[i] # Mode("Swarm")
    BY <1>3, <2>1, <2>2, <2>3 DEF Serves
  <2>5. /\ \E n \in Node : S[j].message = Placing(a, n)
        /\ \A i \in 1..j : d + 1 < i => R[i] # Mode("Swarm")
    BY <2>1, <2>3, <2>4
  <2> QED
    BY <1>2, <2>5
<1>4. ASSUME R[1].kind # "management", NEW j \in 1..Len(S), Follows(S, 0, j)
      PROVE  Follows(R, 0, j + 1)
  <2>1. Follows(R, 1, j + 1)
    BY <1>1, <1>4
  <2>2. (\A i \in 1..j : i = 1 \/ 1 < i) /\ (j + 1) - 1 = j /\ 0 < j + 1
    OBVIOUS
  <2>3. \A i \in 1..j : R[i].kind # "management"
    BY <1>4, <2>1, <2>2 DEF Follows
  <2> QED
    BY <2>2, <2>3 DEF Follows
<1>5. ASSUME R[1].kind # "management", NEW a, Serves(R, 0, a), NEW j \in 1..Len(S),
             Follows(S, 0, j), S[j].kind = "node"
      PROVE  /\ \E n \in Node : S[j].message = Placing(a, n)
             /\ \A i \in 1..j : 0 < i => R[i] # Mode("Swarm")
  <2>1. j + 1 \in 1..Len(R) /\ S[j] = R[j + 1] /\ (j + 1) - 1 = j
    OBVIOUS
  <2>2. Follows(R, 0, j + 1)
    BY <1>4, <1>5
  <2> QED
    BY <1>5, <2>1, <2>2 DEF Serves
<1>6. ASSUME R[1].kind # "management", NEW a, Serves(R, 0, a)
      PROVE  Serves(S, 0, a)
  <2>1. 0 \in 0..Len(S)
    OBVIOUS
  <2> SUFFICES ASSUME NEW j \in 1..Len(S), Follows(S, 0, j), S[j].kind = "node"
               PROVE  /\ \E n \in Node : S[j].message = Placing(a, n)
                      /\ \A i \in 1..(j - 1) : 0 < i => S[i] # Mode("Swarm")
    BY DEF Serves
  <2>2. /\ \E n \in Node : S[j].message = Placing(a, n)
        /\ \A i \in 1..j : 0 < i => R[i] # Mode("Swarm")
    BY <1>5, <1>6
  <2>3. 0 \in Int /\ 0 <= 0 + 1
    OBVIOUS
  <2>4. \A i \in 1..(j - 1) : 0 < i => S[i] # Mode("Swarm")
    BY <1>2, <2>1, <2>2, <2>3
  <2> QED
    BY <2>2, <2>4
<1>7. ASSUME R[1].kind # "management", Bare(R)
      PROVE  Bare(S)
  <2> SUFFICES ASSUME NEW j \in 1..Len(S), Follows(S, 0, j)
               PROVE  S[j].kind # "node"
    BY DEF Bare
  <2>1. j + 1 \in 1..Len(R) /\ S[j] = R[j + 1]
    OBVIOUS
  <2> QED
    BY <1>4, <1>7, <2>1 DEF Bare
<1>8. ASSUME R[1].kind # "management", R[1] = Mode("Swarm"), NEW a, Serves(R, 0, a)
      PROVE  Bare(S)
  <2> SUFFICES ASSUME NEW j \in 1..Len(S), Follows(S, 0, j), S[j].kind = "node"
               PROVE  FALSE
    BY DEF Bare
  <2>1. 1 \in 1..j /\ 0 < 1
    OBVIOUS
  <2> QED
    BY <1>5, <1>8, <2>1
<1> QED
  BY <1>3, <1>6, <1>7, <1>8

\* A script is sent after everything else.
LEMMA RestExtends ==
  ASSUME NEW R, NEW S, NEW c \in {1, 2}, Len(R) \in Nat, Len(S) = Len(R) + c + Total,
         \A j \in 1..Len(R) : S[j] = R[j],
         \A j \in 1..Len(S) : j > Len(R) =>
           S[j].kind = (IF j < Len(R) + c THEN "mode"
                        ELSE IF j = Len(R) + c THEN "management" ELSE "node"),
         NEW a, \A k \in 1..Total : S[Len(R) + c + k] = Place(Placing(a, Members[k]))
  PROVE  /\ \A d \in 0..Len(R) : \A b : Serves(R, d, b) => Serves(S, d, b)
         /\ Bare(R) => Bare(S)
         /\ Serves(S, Len(R) + c, a)
<1> DEFINE n == Len(R)
<1>0. n \in Nat /\ Total \in Nat
  BY SomeMember
<1>1. ASSUME NEW d \in 0..n, NEW j \in 1..Len(S), Follows(S, d, j), S[j].kind = "node"
      PROVE  j \in 1..n /\ Follows(R, d, j)
  <2>1. j <= n
    <3> SUFFICES ASSUME j > n PROVE FALSE
      BY <1>0
    <3>1. j > n + c
      BY <1>1
    <3>2. n + c \in 1..(j - 1) /\ d < n + c /\ n + c \in 1..Len(S) /\ n + c > n
      BY <1>0, <3>1
    <3>3. S[n + c].kind = "management"
      BY <3>2
    <3> QED
      BY <1>1, <3>2, <3>3 DEF Follows
  <2>2. \A i \in 1..(j - 1) : i \in 1..n
    BY <1>0, <2>1
  <2> QED
    BY <1>0, <1>1, <2>1, <2>2 DEF Follows
<1>2. ASSUME NEW d \in 0..n, NEW b, Serves(R, d, b)
      PROVE  Serves(S, d, b)
  <2> SUFFICES ASSUME NEW j \in 1..Len(S), Follows(S, d, j), S[j].kind = "node"
               PROVE  /\ \E m \in Node : S[j].message = Placing(b, m)
                      /\ \A i \in 1..(j - 1) : d < i => S[i] # Mode("Swarm")
    BY DEF Serves
  <2>1. j \in 1..n /\ Follows(R, d, j) /\ S[j] = R[j]
    BY <1>1
  <2>2. /\ \E m \in Node : R[j].message = Placing(b, m)
        /\ \A i \in 1..(j - 1) : d < i => R[i] # Mode("Swarm")
    BY <1>2, <2>1 DEF Serves
  <2>3. \A i \in 1..(j - 1) : i \in 1..n
    BY <1>0, <2>1
  <2> QED
    BY <2>1, <2>2, <2>3
<1>3. Bare(R) => Bare(S)
  <2>1. 0 \in 0..n
    BY <1>0
  <2> QED
    BY <1>1, <2>1 DEF Bare
<1>4. Serves(S, n + c, a)
  <2> SUFFICES ASSUME NEW j \in 1..Len(S), n + c < j
               PROVE  /\ \E m \in Node : S[j].message = Placing(a, m)
                      /\ S[j] # Mode("Swarm") /\ \A i \in 1..(j - 1) : i \in 1..Len(S)
    <3>1. ASSUME NEW j \in 1..Len(S), n + c < j
          PROVE  \A i \in 1..(j - 1) : n + c < i => S[i] # Mode("Swarm")
      <4>1. \A i \in 1..(j - 1) : i \in 1..Len(S)
        BY <1>0
      <4> QED
        BY <4>1
    <3> QED
      BY <3>1 DEF Serves, Follows
  <2>1. PICK k : k = j - (n + c)
    OBVIOUS
  <2>2. k \in 1..Total /\ j = n + c + k
    BY <1>0, <2>1
  <2>3. S[j] = Place(Placing(a, Members[k])) /\ Members[k] \in Node
    BY <2>2, FirstMembers
  <2>4. \A i \in 1..(j - 1) : i \in 1..Len(S)
    BY <1>0
  <2> QED
    BY <2>3, <2>4 DEF Place, Mode
<1> QED
  BY <1>2, <1>3, <1>4

\* A change to another mode is sent between two messages.
LEMMA RestInserts ==
  ASSUME NEW R, NEW S, NEW c \in Nat, Len(R) \in Nat, c <= Len(R), Len(S) = Len(R) + 1,
         \A j \in 1..Len(S) :
           S[j] = IF j <= c THEN R[j] ELSE IF j = c + 1 THEN Mode("Other") ELSE R[j - 1]
  PROVE  /\ \A d \in 0..Len(S) : \A a : d # c + 1 =>
              (Serves(R, IF d <= c THEN d ELSE d - 1, a) => Serves(S, d, a))
         /\ Bare(R) => Bare(S)
<1> DEFINE g(j) == IF j <= c THEN j ELSE j - 1
<1>1. ASSUME NEW j \in 0..Len(S), j # c + 1
      PROVE  /\ g(j) \in 0..Len(R) /\ (j > 0 => g(j) \in 1..Len(R) /\ S[j] = R[g(j)])
             /\ \A i \in 0..Len(S) : i # c + 1 => (i < j <=> g(i) < g(j))
  BY <1>1
<1>2. ASSUME NEW i \in 1..Len(R)
      PROVE  \E h \in 1..Len(S) : h # c + 1 /\ g(h) = i
  <2>1. CASE i <= c
    BY <2>1
  <2>2. CASE i > c
    <3>1. i + 1 \in 1..Len(S) /\ i + 1 # c + 1 /\ g(i + 1) = i
      BY <2>2
    <3> QED
      BY <3>1
  <2> QED
    BY <2>1, <2>2
<1>3. \A j \in 1..Len(S) : S[j].kind = "node" => j # c + 1
  BY DEF Mode
<1>4. g(0) = 0 /\ 0 \in 0..Len(S) /\ 0 # c + 1
  OBVIOUS
<1> HIDE DEF g
<1>5. ASSUME NEW d \in 0..Len(S), d # c + 1, NEW j \in 1..Len(S), j # c + 1, Follows(S, d, j)
      PROVE  Follows(R, g(d), g(j))
  <2>1. g(d) < g(j) /\ g(j) \in 1..Len(R) /\ d < j
    BY <1>1, <1>5 DEF Follows
  <2> SUFFICES ASSUME NEW i \in 1..(g(j) - 1), g(d) < i
               PROVE  R[i].kind # "management"
    BY <2>1 DEF Follows
  <2>2. i \in 1..Len(R) /\ i < g(j)
    BY <2>1
  <2>3. PICK h \in 1..Len(S) : h # c + 1 /\ g(h) = i
    BY <1>2, <2>2
  <2>4. h < j /\ d < h /\ S[h] = R[i]
    BY <1>1, <1>5, <2>2, <2>3
  <2>5. h \in 1..(j - 1)
    BY <2>4
  <2> QED
    BY <1>5, <2>4, <2>5 DEF Follows
<1>6. ASSUME NEW d \in 0..Len(S), d # c + 1, NEW a, Serves(R, g(d), a)
      PROVE  Serves(S, d, a)
  <2> SUFFICES ASSUME NEW j \in 1..Len(S), Follows(S, d, j), S[j].kind = "node"
               PROVE  /\ \E n \in Node : S[j].message = Placing(a, n)
                      /\ \A i \in 1..(j - 1) : d < i => S[i] # Mode("Swarm")
    BY DEF Serves
  <2>1. Follows(R, g(d), g(j)) /\ j # c + 1 /\ g(j) \in 1..Len(R) /\ S[j] = R[g(j)]
    BY <1>1, <1>3, <1>5, <1>6
  <2>2. /\ \E n \in Node : S[j].message = Placing(a, n)
        /\ \A i \in 1..(g(j) - 1) : g(d) < i => R[i] # Mode("Swarm")
    BY <1>6, <2>1 DEF Serves
  <2>3. ASSUME NEW i \in 1..(j - 1), d < i
        PROVE  S[i] # Mode("Swarm")
    <3>1. CASE i = c + 1
      BY <3>1 DEF Mode
    <3>2. CASE i # c + 1
      <4>1. i \in 1..Len(S) /\ i < j
        OBVIOUS
      <4>2. g(i) < g(j) /\ g(d) < g(i) /\ g(i) \in 1..Len(R) /\ S[i] = R[g(i)]
        BY <1>1, <1>6, <2>1, <2>3, <3>2, <4>1
      <4>3. g(i) \in 1..(g(j) - 1)
        BY <2>1, <4>2
      <4> QED
        BY <2>2, <4>2, <4>3
    <3> QED
      BY <3>1, <3>2
  <2> QED
    BY <2>2, <2>3
<1>7. ASSUME Bare(R)
      PROVE  Bare(S)
  <2> SUFFICES ASSUME NEW j \in 1..Len(S), Follows(S, 0, j), S[j].kind = "node"
               PROVE  FALSE
    BY DEF Bare
  <2>1. Follows(R, 0, g(j)) /\ g(j) \in 1..Len(R) /\ S[j] = R[g(j)]
    BY <1>1, <1>3, <1>4, <1>5
  <2> QED
    BY <1>7, <2>1 DEF Bare
<1> QED
  BY <1>6, <1>7 DEF g

\* v takes in the next message after it has dealt with the one before.
LEMMA RouteAdvances ==
  ASSUME FInv, News, ~overlapped, ~reused, NEW v \in Px4, deliver(v),
         NEW R, R = Rest(v), Announced(R), Here(v, R), NEW S, S = Rest(v)'
  PROVE  Announced(S)' /\ Here(v, S)'
<1> DEFINE m == Head(link[v])
<1>1. /\ link[v] # <<>> /\ link' = [link EXCEPT ![v] = Tail(@)] /\ UNCHANGED <<todo, sent>>
      /\ receive(v) /\ Settled(v)
  BY DEF deliver, station
<1>2. /\ m \in Packet /\ Len(R) \in Nat \ {0} /\ R[1] = m /\ Len(S) = Len(R) - 1
      /\ \A j \in 1..Len(S) : S[j] = R[j + 1]
  BY <1>1, RestTaken DEF FInv, FleetTypeOK
<1>3. /\ task'[v] = task[v] /\ formation'[v] = formation[v]
      /\ m.kind = "mode" =>
           /\ nav'[v] = m.mode /\ m.mode \in {"Swarm", "Other"}
           /\ management'[v] = management[v] /\ node'[v] = node[v]
      /\ m.kind = "management" =>
           /\ nav'[v] = nav[v] /\ management'[v].last = m.message /\ Unread(management'[v])
           /\ node'[v] = node[v]
      /\ m.kind = "node" =>
           /\ nav'[v] = nav[v] /\ node'[v].last = m.message /\ Unread(node'[v])
           /\ management'[v] = management[v]
  BY <1>1, <1>2, ReceiveStep DEF FInv
<1>4. task[v] => ~Unread(management[v]) /\ ~Unread(node[v])
  BY <1>1 DEF Settled
<1>5. nav[v] = "Swarm" => task[v]
  BY <1>1 DEF Settled, FInv, IInv, TypeOK
<1>6. (\A a : Scripted(a) => Scripted(a)') /\ m.kind \in {"mode", "management", "node"}
  BY <1>1, <1>2 DEF Scripted, Aim, Packet
<1>7. m.kind = "mode" => \/ m.mode = "Swarm" /\ m = Mode("Swarm")
                       \/ m.mode = "Other"
  BY <1>2 DEF Packet, Mode
<1> HIDE DEF m
<1>8. /\ \A d \in 0..Len(S) : \A a : Serves(R, d + 1, a) => Serves(S, d, a)
      /\ m.kind # "management" =>
           /\ \A a : Serves(R, 0, a) => Serves(S, 0, a)
           /\ Bare(R) => Bare(S)
           /\ m = Mode("Swarm") => \A a : Serves(R, 0, a) => Bare(S)
  BY <1>2, RestShifts
<1>9. Announced(S)'
  <2>1. ASSUME NEW d \in 1..Len(S), S[d].kind = "management"
        PROVE  \E a : Scripted(a)' /\ Announcing(S[d].message, a) /\ Serves(S, d, a)
    <3>1. d + 1 \in 1..Len(R) /\ d \in 0..Len(S) /\ S[d] = R[d + 1]
      BY <1>2
    <3>2. PICK a : Scripted(a) /\ Announcing(R[d + 1].message, a) /\ Serves(R, d + 1, a)
      BY <2>1, <3>1 DEF Announced
    <3>3. Scripted(a)' /\ Serves(S, d, a)
      BY <1>6, <1>8, <3>1, <3>2
    <3> QED
      BY <3>1, <3>2, <3>3
  <2> QED
    BY <2>1 DEF Announced, Announcing, Serves, Placing
<1>10. Here(v, S)'
  <2>1. ASSUME NEW a, Scripted(a), Serves(S, 0, a), Reached(v, a)'
        PROVE  Here(v, S)'
    <3>1. Scripted(a)'
      BY <1>6, <2>1
    <3> QED
      BY <2>1, <3>1 DEF Here, Serves, Placing
  <2>2. ASSUME Bare(S), m.kind = "mode"
        PROVE  Here(v, S)'
    <3>1. Idle(v)'
      BY <1>3, <1>4, <2>2 DEF Idle, Unread
    <3> QED
      BY <2>2, <3>1 DEF Here, Bare
  <2>3. CASE m.kind = "mode"
    <3>1. CASE Bare(R) \/ m = Mode("Swarm")
      BY <1>8, <2>2, <2>3, <3>1 DEF Here
    <3>2. CASE m.mode = "Other" /\ ~Bare(R)
      <4>1. PICK a : Scripted(a) /\ Serves(R, 0, a)
        BY <3>2 DEF Here
      <4>2. Serves(S, 0, a)
        BY <1>8, <2>3, <4>1
      <4>3. Reached(v, a)'
        BY <1>3, <2>3, <3>2 DEF Reached
      <4> QED
        BY <2>1, <4>1, <4>2, <4>3
    <3> QED
      BY <1>7, <2>3, <3>1, <3>2
  <2>4. CASE m.kind = "management"
    <3>1. 1 \in 1..Len(R) /\ 0 \in 0..Len(S) /\ 0 + 1 = 1 /\ 1 - 1 = 0
      BY <1>2
    <3>2. PICK a : Scripted(a) /\ Announcing(m.message, a) /\ Serves(R, 0 + 1, a)
      BY <1>2, <2>4, <3>1 DEF Announced
    <3>3. Serves(S, 0, a)
      BY <1>8, <3>1, <3>2
    <3>4. ASSUME nav'[v] = "Swarm"
          PROVE  task'[v] /\ OnTheWay(v, a, {})'
      <4>1. nav[v] = "Swarm" /\ task[v] /\ ~Unread(node'[v])
        BY <1>3, <1>4, <1>5, <2>4, <3>4 DEF Unread
      <4>2. m.message.type = "create" => formation[v].swarm # a.swarm
        <5>1. a.swarm \in Swarm
          BY <3>2 DEF Scripted, Aim
        <5>2. m.message.type = "create" => Creates(R[1], a.swarm)
          BY <1>2, <2>4, <3>2 DEF Creates, About, Announcing
        <5> QED
          BY <3>1, <5>1, <5>2 DEF News, Trusted, Unheard, Heard
      <4> QED
        BY <1>3, <2>4, <3>2, <4>1, <4>2 DEF OnTheWay, Announcing
    <3>5. Reached(v, a)'
      <4>1. {} \in SUBSET Node
        OBVIOUS
      <4> QED
        BY <3>4, <4>1 DEF Reached
    <3> QED
      BY <2>1, <3>2, <3>3, <3>5
  <2>5. CASE m.kind = "node"
    <3>1. 1 \in 1..Len(R) /\ Follows(R, 0, 1)
      <4>1. 1 \in 1..Len(R) /\ 0 < 1 /\ \A i : i \notin 1..(1 - 1)
        BY <1>2
      <4> QED
        BY <4>1 DEF Follows
    <3>2. PICK a : Scripted(a) /\ Reached(v, a) /\ Serves(R, 0, a)
      BY <1>2, <2>5, <3>1 DEF Here, Bare
    <3>3. PICK n \in Node : m.message = Placing(a, n)
      BY <1>2, <2>5, <3>1, <3>2 DEF Serves
    <3>4. Serves(S, 0, a)
      BY <1>8, <2>5, <3>2
    <3>5. ASSUME nav'[v] = "Swarm"
          PROVE  task'[v] /\ \E K \in SUBSET Node : OnTheWay(v, a, K)'
      <4>1. nav[v] = "Swarm" /\ task[v] /\ ~Unread(management[v]) /\ ~Unread(node[v])
        BY <1>3, <1>4, <1>5, <2>5, <3>5
      <4>2. PICK K \in SUBSET Node : Collected(formation[v], a, K)
        BY <3>2, <4>1 DEF Reached, OnTheWay
      <4>3. /\ ~Unread(management'[v]) /\ Unread(node'[v]) /\ node'[v].last = Placing(a, n)
            /\ formation'[v] = formation[v]
        BY <1>3, <2>5, <3>3, <4>1 DEF Unread
      <4>4. OnTheWay(v, a, K \cup {n})'
        BY <4>2, <4>3 DEF OnTheWay, Collected, Placing
      <4>5. PICK L \in SUBSET Node : L = K \cup {n}
        OBVIOUS
      <4>6. OnTheWay(v, a, L)'
        BY <4>4, <4>5
      <4> QED
        BY <1>3, <4>1, <4>6
    <3>6. Reached(v, a)'
      BY <3>5 DEF Reached
    <3> QED
      BY <2>1, <3>2, <3>4, <3>6
  <2> QED
    BY <1>6, <2>3, <2>4, <2>5
<1> QED
  BY <1>9, <1>10

\* A vehicle that only forgets or goes on stays on its route.
LEMMA OnRouteNow ==
  ASSUME FInv, \A i \in Swarm : sent[i] \subseteq sent'[i], NEW v \in Px4, NotMixed(v)',
         NEW R, Here(v, R), NEW S, S = Rest(v)', Announced(S)',
         \A a : Serves(R, 0, a) => Serves(S, 0, a), Bare(R) => Bare(S),
         \A a : Scripted(a) /\ Reached(v, a) => Reached(v, a)', Idle(v) => Idle(v)'
  PROVE  OnRoute(v)'
<1>1. Here(v, S)'
  <2>1. CASE Idle(v) /\ Bare(R)
    BY <2>1 DEF Here, Bare
  <2>2. ASSUME NEW a, Scripted(a), Reached(v, a), Serves(R, 0, a)
        PROVE  Here(v, S)'
    <3>1. Scripted(a)' /\ Reached(v, a)' /\ Serves(S, 0, a)
      BY <2>2, SentStays
    <3> QED
      BY <3>1 DEF Here, Serves, Placing
  <2> QED
    BY <2>1, <2>2 DEF Here
<1> QED
  BY <1>1 DEF OnRoute, Announced, Here

\* Nothing happens to v.
LEMMA RouteStays ==
  ASSUME FInv, \A i \in Swarm : sent[i] \subseteq sent'[i], NEW v \in Px4,
         Rest(v)' = Rest(v), Unmoved(v), OnRoute(v)
  PROVE  OnRoute(v)'
<1>1. PICK S : S = Rest(v) /\ Announced(S) /\ Here(v, S)
  BY DEF OnRoute
<1>2. NotMixed(v)' /\ Announced(S)'
  BY <1>1, SentStays DEF OnRoute, Unmoved
<1> QED
  BY <1>1, <1>2, UnmovedRests, OnRouteNow

\* v makes a step of its own.
LEMMA RouteFlies ==
  ASSUME FInv, UNCHANGED sent, NEW v \in Px4, Rest(v)' = Rest(v), Vehicle(v), OnRoute(v)
  PROVE  OnRoute(v)'
<1>1. PICK S : S = Rest(v) /\ Announced(S) /\ Here(v, S)
  BY DEF OnRoute
<1>2. Announced(S)' /\ \A i \in Swarm : sent[i] \subseteq sent'[i]
  BY <1>1, SentStays
<1>3. NotMixed(v)' /\ (Idle(v) => Idle(v)')
  BY <1>1, FlightNotMixed DEF OnRoute, Here
<1>4. ASSUME NEW a, Scripted(a), Reached(v, a)
      PROVE  Reached(v, a)'
  <2>1. a \in Aim
    BY <1>4 DEF Scripted
  <2>2. PICK K \in SUBSET Node : nav[v] = "Swarm" => task[v] /\ OnTheWay(v, a, K)
    BY <1>4 DEF Reached
  <2>3. nav'[v] = "Swarm" => task'[v] /\ OnTheWay(v, a, K)'
    BY <2>1, <2>2, VehicleStep DEF FInv
  <2> QED
    BY <2>3 DEF Reached
<1> QED
  BY <1>1, <1>2, <1>3, <1>4, OnRouteNow

\* A slot or a change of mode that is lost leaves v where it is.
LEMMA RouteLoses ==
  ASSUME FInv, NEW v \in Px4, lose(v), announced', OnRoute(v)
  PROVE  OnRoute(v)'
<1>1. PICK R, S : R = Rest(v) /\ Announced(R) /\ Here(v, R) /\ S = Rest(v)'
  BY DEF OnRoute
<1>2. /\ link[v] # <<>> /\ link' = [link EXCEPT ![v] = Tail(@)] /\ UNCHANGED <<todo, sent, vars>>
      /\ Head(link[v]).kind # "management"
  BY DEF lose, station
<1>3. /\ Len(R) \in Nat \ {0} /\ R[1].kind # "management" /\ Len(S) = Len(R) - 1
      /\ \A j \in 1..Len(S) : S[j] = R[j + 1]
  BY <1>1, <1>2, RestTaken DEF FInv, FleetTypeOK
<1>4. /\ \A d \in 0..Len(S) : \A a : Serves(R, d + 1, a) => Serves(S, d, a)
      /\ \A a : Serves(R, 0, a) => Serves(S, 0, a)
      /\ Bare(R) => Bare(S)
  BY <1>3, RestShifts
<1>5. /\ Unmoved(v) /\ formation'[v] = formation[v]
      /\ \A i \in Swarm : sent[i] \subseteq sent'[i]
  BY <1>2 DEF Unmoved, vars, taskVars, topicVars
<1>6. Announced(S)'
  <2>1. ASSUME NEW d \in 1..Len(S), S[d].kind = "management"
        PROVE  \E a : Scripted(a)' /\ Announcing(S[d].message, a) /\ Serves(S, d, a)
    <3>1. d + 1 \in 1..Len(R) /\ d \in 0..Len(S) /\ S[d] = R[d + 1]
      BY <1>3
    <3>2. PICK a : Scripted(a) /\ Announcing(R[d + 1].message, a) /\ Serves(R, d + 1, a)
      BY <1>1, <2>1, <3>1 DEF Announced
    <3>3. Scripted(a)' /\ Serves(S, d, a)
      BY <1>4, <1>5, <3>1, <3>2, SentStays
    <3> QED
      BY <3>1, <3>2, <3>3
  <2> QED
    BY <2>1 DEF Announced, Announcing, Serves, Placing
<1>7. NotMixed(v)'
  BY <1>5, SentStays DEF OnRoute
<1> QED
  BY <1>1, <1>4, <1>5, <1>6, <1>7, UnmovedRests, OnRouteNow

\* A script goes on from wherever the ones before it left off.
LEMMA RouteBegun ==
  ASSUME FInv, Alone, NEW a \in Aim, NEW v \in Px4, NEW messages \in Seq(Packet),
         NEW sort, begin(sort, a.swarm, a.slots, messages),
         messages \in {deployScript(a.swarm, a.leader, a.slots),
                       updateScript(a.swarm, a.leader, a.slots)},
         OnRoute(v)
  PROVE  OnRoute(v)'
<1>0. PICK R, S : R = Rest(v) /\ Announced(R) /\ Here(v, R) /\ S = Rest(v)'
  BY DEF OnRoute
<1> DEFINE n == Len(R)
           M == Len(messages)
<1>1. /\ todo' = messages /\ todo = <<>> /\ UNCHANGED <<link, vars>>
      /\ sent' = [sent EXCEPT ![a.swarm] = @ \cup {a.slots}]
  BY DEF begin, Alone, FInv
<1>2. /\ n \in Nat /\ Len(S) = n + M
      /\ \A j \in 1..Len(S) : S[j] = IF j <= n THEN R[j] ELSE messages[j - n]
  BY <1>0, <1>1, RestBegun DEF FInv, FleetTypeOK
<1>3. /\ \A i \in Swarm : sent[i] \subseteq sent'[i]
      /\ Scripted(a)'
  BY <1>1 DEF FInv, FleetTypeOK, Scripted, Aim
<1>4. PICK c \in {1, 2} :
        /\ M = Total + c
        /\ c = 2 => messages[1] = Mode("Swarm")
        /\ messages[c].kind = "management" /\ Announcing(messages[c].message, a)
        /\ \A k \in 1..Total : messages[k + c] = Place(Placing(a, Members[k]))
  <2> DEFINE m(type) == [type |-> type, swarm |-> a.swarm, count |-> Total, leader |-> a.leader]
  <2>1. \A type : /\ Configure(m(type)).kind = "management"
                  /\ Announcing(Configure(m(type)).message, a)
    BY DEF Configure, Announcing
  <2> HIDE DEF m
  <2>2. CASE messages = deployScript(a.swarm, a.leader, a.slots)
    <3>1. /\ M = Total + 2 /\ messages[1] = Mode("Swarm") /\ messages[2] = Configure(m("create"))
          /\ \A k \in 1..Total : messages[k + 2] = Place(Placing(a, Members[k]))
      BY <2>2, ScriptsAnnounce DEF m
    <3> HIDE DEF M
    <3> QED
      BY <2>1, <3>1
  <2>3. CASE messages = updateScript(a.swarm, a.leader, a.slots)
    <3>1. /\ M = Total + 1 /\ messages[1] = Configure(m("update"))
          /\ \A k \in 1..Total : messages[k + 1] = Place(Placing(a, Members[k]))
      BY <2>3, ScriptsAnnounce DEF m
    <3> HIDE DEF M
    <3> QED
      BY <2>1, <3>1
  <2> QED
    BY <2>2, <2>3
<1> HIDE DEF n, M
<1>5. n \in Nat /\ Len(S) = n + c + Total /\ Total \in Nat
  BY <1>2, <1>4, SomeMember
<1>6. \A j \in 1..n : S[j] = R[j]
  BY <1>2, <1>5
<1>7. ASSUME NEW k \in 1..Total
      PROVE  S[n + c + k] = Place(Placing(a, Members[k]))
  <2>1. PICK j : j = n + c + k
    OBVIOUS
  <2>2. j \in 1..Len(S) /\ ~(j <= n) /\ j - n = k + c
    BY <1>5, <2>1
  <2>3. S[j] = messages[k + c]
    BY <1>2, <2>2
  <2> QED
    BY <1>4, <2>1, <2>3
<1>8. n + c \in 1..Len(S) /\ S[n + c] = messages[c]
  <2>1. PICK j : j = n + c
    OBVIOUS
  <2>2. j \in 1..Len(S) /\ ~(j <= n) /\ j - n = c
    BY <1>5, <2>1
  <2> QED
    BY <1>2, <2>1, <2>2
<1>9. ASSUME NEW j \in 1..Len(S), j > n
      PROVE  S[j].kind = (IF j < n + c THEN "mode" ELSE IF j = n + c THEN "management" ELSE "node")
  <2>1. CASE j < n + c
    <3>1. c = 2 /\ ~(j <= n) /\ j - n = 1
      BY <1>5, <1>9, <2>1
    <3>2. S[j] = Mode("Swarm")
      BY <1>2, <1>4, <3>1
    <3> QED
      BY <2>1, <3>2 DEF Mode
  <2>2. CASE j = n + c
    BY <1>4, <1>5, <1>8, <2>2
  <2>3. CASE j > n + c
    <3>1. PICK k : k = j - (n + c)
      OBVIOUS
    <3>2. k \in 1..Total /\ j = n + c + k /\ ~(j < n + c) /\ j # n + c
      BY <1>5, <2>3, <3>1
    <3>3. S[j] = Place(Placing(a, Members[k]))
      BY <1>7, <3>2
    <3>4. S[j].kind = "node"
      BY <3>3 DEF Place
    <3> QED
      BY <3>2, <3>4
  <2> QED
    BY <1>5, <2>1, <2>2, <2>3
<1>10. /\ \A d \in 0..n : \A b : Serves(R, d, b) => Serves(S, d, b)
       /\ Bare(R) => Bare(S)
       /\ Serves(S, n + c, a)
  BY <1>5, <1>6, <1>7, <1>9, RestExtends DEF n
<1>11. Announced(S)'
  <2>1. ASSUME NEW d \in 1..Len(S), S[d].kind = "management"
        PROVE  \E b : Scripted(b)' /\ Announcing(S[d].message, b) /\ Serves(S, d, b)
    <3>1. CASE d <= n
      <4>1. d \in 1..n /\ d \in 0..n /\ S[d] = R[d]
        BY <1>5, <1>6, <3>1
      <4>2. PICK b : Scripted(b) /\ Announcing(R[d].message, b) /\ Serves(R, d, b)
        BY <1>0, <2>1, <4>1 DEF Announced, n
      <4>3. Scripted(b)' /\ Serves(S, d, b)
        BY <1>3, <1>10, <4>1, <4>2, SentStays
      <4> QED
        BY <4>1, <4>2, <4>3
    <3>2. CASE d > n
      <4>1. d = n + c
        BY <1>9, <2>1, <3>2
      <4>2. PICK z : z = S[d]
        OBVIOUS
      <4>3. Announcing(z.message, a) /\ Serves(S, d, a)
        BY <1>4, <1>8, <1>10, <4>1, <4>2
      <4> QED
        BY <1>3, <4>2, <4>3
    <3> QED
      BY <1>5, <3>1, <3>2
  <2> QED
    BY <2>1 DEF Announced, Announcing, Serves, Placing
<1>12. /\ Unmoved(v) /\ formation'[v] = formation[v]
  BY <1>1 DEF Unmoved, vars, taskVars, topicVars
<1>13. NotMixed(v)'
  BY <1>3, <1>12, SentStays DEF OnRoute
<1>14. \A b : Serves(R, 0, b) => Serves(S, 0, b)
  <2>1. 0 \in 0..n
    BY <1>5
  <2> QED
    BY <1>10, <2>1
<1> QED
  BY <1>0, <1>3, <1>10, <1>11, <1>12, <1>13, <1>14, UnmovedRests, OnRouteNow

\* A change of mode in between leaves the rest as it was.
LEMMA RouteDissolved ==
  ASSUME FInv, NEW id \in Swarm, dissolveSwarm(id), NEW v \in Px4, OnRoute(v)
  PROVE  OnRoute(v)'
<1>0. PICK R, S : R = Rest(v) /\ Announced(R) /\ Here(v, R) /\ S = Rest(v)'
  BY DEF OnRoute
<1>1. broadcast(Mode("Other")) /\ UNCHANGED <<vars, todo, sent>>
  BY DEF dissolveSwarm
<1>2. PICK c : c = Len(link[v])
  OBVIOUS
<1>3. /\ c \in Nat /\ Len(R) \in Nat /\ c <= Len(R) /\ Len(S) = Len(R) + 1
      /\ \A j \in 1..Len(S) :
           S[j] = IF j <= c THEN R[j] ELSE IF j = c + 1 THEN Mode("Other") ELSE R[j - 1]
  BY <1>0, <1>1, <1>2, PacketTypes, RestBroadcast DEF FInv, FleetTypeOK
<1>4. /\ \A d \in 0..Len(S) : \A a : d # c + 1 =>
           (Serves(R, IF d <= c THEN d ELSE d - 1, a) => Serves(S, d, a))
      /\ Bare(R) => Bare(S)
  BY <1>3, RestInserts
<1>5. \A a : Serves(R, 0, a) => Serves(S, 0, a)
  <2>1. 0 \in 0..Len(S) /\ 0 # c + 1 /\ 0 <= c
    BY <1>3
  <2> QED
    BY <1>4, <2>1
<1>6. /\ Unmoved(v) /\ formation'[v] = formation[v]
      /\ \A i \in Swarm : sent[i] \subseteq sent'[i]
  BY <1>1 DEF Unmoved, vars, taskVars, topicVars
<1>7. Announced(S)'
  <2>1. ASSUME NEW d \in 1..Len(S), S[d].kind = "management"
        PROVE  \E a : Scripted(a)' /\ Announcing(S[d].message, a) /\ Serves(S, d, a)
    <3>1. d # c + 1
      BY <1>3, <2>1 DEF Mode
    <3>2. PICK e : e = IF d <= c THEN d ELSE d - 1
      OBVIOUS
    <3>3. e \in 1..Len(R) /\ S[d] = R[e]
      BY <1>3, <3>1, <3>2
    <3>4. PICK a : Scripted(a) /\ Announcing(R[e].message, a) /\ Serves(R, e, a)
      BY <1>0, <2>1, <3>3 DEF Announced
    <3>5. Scripted(a)'
      BY <1>6, <3>4, SentStays
    <3>6. Serves(S, d, a)
      <4>1. d \in 0..Len(S)
        OBVIOUS
      <4> QED
        BY <1>4, <3>1, <3>2, <3>4, <4>1
    <3> QED
      BY <3>3, <3>4, <3>5, <3>6
  <2> QED
    BY <2>1 DEF Announced, Announcing, Serves, Placing
<1>8. NotMixed(v)'
  BY <1>6, SentStays DEF OnRoute
<1> QED
  BY <1>0, <1>4, <1>5, <1>6, <1>7, <1>8, UnmovedRests, OnRouteNow

\* Nothing is on its way at first.
LEMMA RoutesInit == FleetInit => Routes
<1> SUFFICES ASSUME FleetInit, NEW v \in Px4
             PROVE  OnRoute(v)
  BY DEF Routes
<1>1. /\ formation[v] = NewFormation /\ nav[v] = "Other" /\ link[v] = <<>> /\ todo = <<>>
  BY DEF FleetInit, Init
<1>2. NotMixed(v) /\ Idle(v)
  BY <1>1 DEF NotMixed, Flying, NewFormation, Idle
<1>3. PICK S : S = Rest(v)
  OBVIOUS
<1>4. Len(S) = 0
  <2>1. <<>> \in Seq(Packet) /\ Len(<<>>) = 0 /\ S = <<>> \o <<>>
    BY <1>1, <1>3 DEF Rest
  <2> QED
    BY <2>1, ConcatProperties
<1>5. Announced(S) /\ Bare(S)
  BY <1>4 DEF Announced, Bare
<1> QED
  BY <1>2, <1>3, <1>5 DEF OnRoute, Here

\* Every step keeps all vehicles on their way, unless a message comes bunched, an
\* announcement is lost, scripts overlap or an id is given out again.
LEMMA RoutesStep ==
  ASSUME RouteInv, [FleetNext]_allVars
  PROVE  Routes'
<1> SUFFICES ASSUME announced', rushed' = 0, ~overlapped', ~reused', NEW v \in Px4
             PROVE  OnRoute(v)'
  BY DEF Routes
<1>0. FInv /\ News
  BY DEF RouteInv
<1>1. ASSUME announced, UNCHANGED rushed, ~overlapped, ~reused
      PROVE  OnRoute(v)
  BY <1>1 DEF RouteInv, Routes
<1>2. ASSUME UNCHANGED <<announced, rushed, overlapped, reused, vars, sent>>, Rest(v)' = Rest(v)
      PROVE  OnRoute(v)'
  <2>1. Unmoved(v) /\ \A i \in Swarm : sent[i] \subseteq sent'[i]
    BY <1>2 DEF Unmoved, vars, taskVars, topicVars
  <2> QED
    BY <1>0, <1>1, <1>2, <2>1, RouteStays
<1>3. ASSUME NEW i \in Swarm, NEW leader \in Leaders, NEW slots \in Formations,
             deploySwarm(i, leader, slots)
      PROVE  OnRoute(v)'
  <2> DEFINE a == [swarm |-> i, leader |-> leader, slots |-> slots]
  <2>1. a \in Aim /\ a.swarm = i /\ a.leader = leader /\ a.slots = slots
    BY FleetAssumption DEF Aim
  <2> HIDE DEF a
  <2>2. begin("create", i, slots, deployScript(i, leader, slots))
    BY <1>3 DEF deploySwarm
  <2>3. deployScript(i, leader, slots) \in Seq(Packet)
    BY <2>1, ScriptsAnnounce
  <2>4. announced /\ UNCHANGED rushed /\ ~overlapped /\ Alone
    BY <2>2, Zenon DEF begin
  <2>5. ~reused
    BY <1>3, Zenon DEF deploySwarm
  <2> QED
    BY <1>0, <1>1, <2>1, <2>2, <2>3, <2>4, <2>5, RouteBegun
<1>4. ASSUME NEW i \in Swarm, NEW slots \in Formations, updateFormation(i, slots)
      PROVE  OnRoute(v)'
  <2> DEFINE a == [swarm |-> i, leader |-> record[i].leader, slots |-> slots]
  <2>1. a \in Aim /\ a.swarm = i /\ a.leader = record[i].leader /\ a.slots = slots
    BY <1>0, <1>4, UpdateAims
  <2> HIDE DEF a
  <2>2. begin("update", i, slots, updateScript(i, record[i].leader, slots))
    BY <1>4 DEF updateFormation
  <2>3. updateScript(i, record[i].leader, slots) \in Seq(Packet)
    BY <2>1, ScriptsAnnounce
  <2>4. announced /\ UNCHANGED rushed /\ ~overlapped /\ Alone
    BY <2>2, Zenon DEF begin
  <2>5. ~reused
    BY <1>4 DEF updateFormation
  <2>6. PICK b, r : b = a /\ r = record[i].leader
    OBVIOUS
  <2> QED
    BY <1>0, <1>1, <2>1, <2>2, <2>3, <2>4, <2>5, <2>6, RouteBegun
<1>5. ASSUME NEW i \in Swarm, dissolveSwarm(i)
      PROVE  OnRoute(v)'
  <2>1. announced /\ UNCHANGED rushed /\ ~overlapped /\ ~reused
    BY <1>5 DEF dissolveSwarm
  <2> QED
    BY <1>0, <1>1, <1>5, <2>1, RouteDissolved
<1>6. CASE publishNext
  <2>1. Rest(v)' = Rest(v)
    BY <1>0, <1>6, RestPublished DEF FInv, FleetTypeOK
  <2>2. UNCHANGED <<announced, rushed, overlapped, reused, vars, sent>>
    BY <1>6 DEF publishNext, counted
  <2> QED
    BY <1>2, <2>1, <2>2
<1>7. CASE finishScript \/ switchTab
  <2>1. UNCHANGED <<announced, rushed, overlapped, reused, vars, sent, link, todo>>
    BY <1>7 DEF finishScript, switchTab, counted
  <2> QED
    BY <1>2, <2>1 DEF Rest
<1>8. ASSUME NEW u \in Px4, Flight(u)
      PROVE  OnRoute(v)'
  <2>1. /\ UNCHANGED <<announced, rushed, overlapped, reused, sent, link, todo>> /\ Vehicle(u)
    BY <1>8 DEF Flight, fleetVars, station, counted
  <2>2. Rest(v)' = Rest(v) /\ \A i \in Swarm : sent[i] \subseteq sent'[i]
    BY <2>1 DEF Rest
  <2>3. OnRoute(v)
    BY <1>1, <2>1
  <2>4. CASE u = v
    BY <1>0, <2>1, <2>2, <2>3, <2>4, RouteFlies
  <2>5. CASE u # v
    <3>1. Unmoved(v)
      BY <1>0, <2>1, <2>5, VehicleStep DEF FInv
    <3> QED
      BY <1>0, <2>2, <2>3, <3>1, RouteStays
  <2> QED
    BY <2>4, <2>5
<1>9. ASSUME NEW u \in Px4, deliver(u)
      PROVE  OnRoute(v)'
  <2>1. /\ UNCHANGED <<announced, rushed, overlapped, reused, sent, todo>> /\ link[u] # <<>>
        /\ link' = [link EXCEPT ![u] = Tail(@)] /\ receive(u)
    BY <1>9 DEF deliver, station, counted
  <2>2. /\ Head(link[u]) \in Packet /\ \A w \in Px4 \ {u} : Rest(w)' = Rest(w)
        /\ \A i \in Swarm : sent[i] \subseteq sent'[i]
    BY <1>0, <2>1, RestTaken DEF FInv, FleetTypeOK
  <2>3. OnRoute(v)
    BY <1>1, <2>1
  <2>4. CASE u = v
    <3>1. PICK R, S : R = Rest(v) /\ Announced(R) /\ Here(v, R) /\ S = Rest(v)'
      BY <2>3 DEF OnRoute
    <3>2. Announced(S)' /\ Here(v, S)'
      BY <1>0, <1>9, <2>1, <2>4, <3>1, RouteAdvances
    <3>3. formation'[v] = formation[v]
      BY <1>0, <2>1, <2>2, <2>4, ReceiveStep DEF FInv
    <3>4. NotMixed(v)'
      BY <1>0, <2>2, <2>3, <3>3, SentStays DEF OnRoute
    <3> QED
      BY <3>1, <3>2, <3>4 DEF OnRoute, Announced, Here
  <2>5. CASE u # v
    <3>1. Unmoved(v)
      BY <1>0, <2>1, <2>2, <2>5, ReceiveStep DEF FInv
    <3> QED
      BY <1>0, <2>2, <2>3, <2>5, <3>1, RouteStays
  <2> QED
    BY <2>4, <2>5
<1>10. ASSUME NEW u \in Px4, lose(u)
       PROVE  OnRoute(v)'
  <2>1. /\ announced /\ UNCHANGED <<rushed, overlapped, reused, vars, sent, todo>>
        /\ link[u] # <<>> /\ link' = [link EXCEPT ![u] = Tail(@)]
    BY <1>10 DEF lose, station
  <2>2. OnRoute(v)
    BY <1>1, <2>1
  <2>3. CASE u = v
    BY <1>0, <1>10, <2>2, <2>3, RouteLoses
  <2>4. CASE u # v
    <3>1. Rest(v)' = Rest(v)
      BY <1>0, <2>1, <2>4, RestTaken DEF FInv, FleetTypeOK
    <3>2. Unmoved(v) /\ \A i \in Swarm : sent[i] \subseteq sent'[i]
      BY <2>1 DEF Unmoved, vars, taskVars, topicVars
    <3> QED
      BY <1>0, <2>2, <3>1, <3>2, RouteStays
  <2> QED
    BY <2>3, <2>4
<1>11. ASSUME NEW u \in Px4, rush(u)
       PROVE  FALSE
  <2>1. rushed \in Nat /\ rushed' = rushed + 1
    BY <1>0, <1>11, BoundsAssumed DEF FInv, FleetTypeOK, rush
  <2> QED
    BY <2>1
<1>12. CASE UNCHANGED allVars
  <2>1. UNCHANGED <<announced, rushed, overlapped, reused, vars, sent, link, todo>>
    BY <1>12 DEF allVars, fleetVars, station, counted
  <2> QED
    BY <1>2, <2>1 DEF Rest
<1>13. ASSUME NEW e \in earlier, publishEarlier(e) \/ finishEarlier(e)
       PROVE  FALSE
  BY <1>0, <1>13 DEF publishEarlier, finishEarlier, FInv
<1> QED
  BY <1>3, <1>4, <1>5, <1>6, <1>7, <1>8, <1>9, <1>10, <1>11, <1>12, <1>13
  DEF FleetNext, GroundStation, Timers

\* No vehicle flies a mix of two formations, whichever slots and mode changes are
\* lost and however the steps of a script, the links and the vehicles interleave:
\* "followers never fly a mix of old and new slots" (docs/swarm_gcs.md). It takes
\* a lost announcement, a message that came bunched, scripts that run at once, or
\* the id of a dissolved swarm given out again to somebody who knows it.
THEOREM NeverMixed == FleetSpec => []NeverFliesMix
<1>1. FleetInit => RouteInv
  BY FleetInitSound, NewsInit, RoutesInit DEF RouteInv
<1>2. RouteInv /\ [FleetNext]_allVars => RouteInv'
  <2> SUFFICES ASSUME RouteInv, [FleetNext]_allVars
               PROVE  RouteInv'
    OBVIOUS
  <2>1. FInv' /\ News'
    BY FleetStepSound, NewsStep DEF RouteInv
  <2> QED
    BY <2>1, RoutesStep DEF RouteInv
<1>3. RouteInv => NeverFliesMix
  BY DEF RouteInv, Routes, OnRoute, NotMixed, NeverFliesMix, FliesOne
<1> QED
  BY <1>1, <1>2, <1>3, PTL DEF FleetSpec
=============================================================================
