-------------------------- MODULE SwarmCardsProofs --------------------------
(***************************************************************************)
(* Proofs about the page and the vehicles, for any fleet, any deployments    *)
(* and any number of operations and faults: whatever is lost, late or asked  *)
(* for again, no message names a vehicle, a slot or a leader that is none;   *)
(* and once all is quiet the cards show what flies.                          *)
(***************************************************************************)
EXTENDS SwarmCards, SwarmFormationProofs, FunctionTheorems, SequenceTheorems

-----------------------------------------------------------------------------
(***************************************************************************)
(* The inductive invariant. Type correctness alone is not inductive: an       *)
(* update is sent with the leader of a card, and a card may have been         *)
(* restored from a vehicle. That it names a leader at all needs that every    *)
(* vehicle in a swarm knows one, and every status and answer of it.           *)
(***************************************************************************)
\* Who is in a swarm knows its leader.
Led(f) ==
  /\ f.swarm # NoSwarm => f.leader \in Node
  /\ f.updating => f.pendingLeader \in Node

\* A script that runs.
Running == [type : {"create", "update"}, swarm : Swarm, members : SUBSET Node, slots : List,
            todo : Seq(Packet)]
Begun == [number : 0..MaxEvents, script : Running]

-----------------------------------------------------------------------------
(***************************************************************************)
(* Formations and messages.                                                 *)
(***************************************************************************)
\* A vehicle that enters the mode is in no swarm.
LEMMA NewFormationLed == Led(NewFormation) /\ NewFormation \in Formation
<1>1. Led(NewFormation)
  BY DEF Led, NewFormation
<1>2. NewFormation \in Formation
  <2>1. PICK v : v \in Node
    BY NodeAssumption, FS_EmptySet
  <2> QED
    BY <2>1, NewFormationSound DEF Sound
<1> QED
  BY <1>1, <1>2

\* A management message names a leader.
LEMMA ManagementLed ==
  ASSUME NEW f \in Formation, Led(f), NEW m \in Management
  PROVE  Led(onManagement(f, m))
<1> DEFINE g == onManagement(f, m)
<1>1. m.leader \in Node
  BY DEF Management
<1>2. CASE StartsUpdate(f, m)
  <2>1. g.swarm = f.swarm /\ g.leader = f.leader /\ g.pendingLeader = m.leader
    BY <1>2, ManagementFields
  <2> QED
    BY <1>1, <2>1 DEF Led
<1>3. CASE ~StartsUpdate(f, m)
  <2>1. g.leader = m.leader /\ g.updating = FALSE
    BY <1>3, ManagementFields
  <2> QED
    BY <1>1, <2>1 DEF Led
<1> QED
  BY <1>2, <1>3

\* A slot changes no leader but to the announced one.
LEMMA NodeLed ==
  ASSUME NEW own \in Node, NEW f \in Formation, Led(f), NEW m \in NodeMessage
  PROVE  Led(onNode(f, m, own))
<1>1. CASE ~f.updating
  <2>1. PICK g : g = collectNode(f, m, own)
    OBVIOUS
  <2>2. /\ g.swarm = f.swarm /\ g.leader = f.leader
        /\ g.updating = f.updating /\ g.pendingLeader = f.pendingLeader
    BY <2>1, CollectNodeFields
  <2> QED
    BY <1>1, <2>1, <2>2 DEF Led, onNode
<1>2. CASE f.updating /\ m.swarm = f.swarm
  <2>1. PICK g, n : g = collectPending(f, m, own) /\ n = upsertNode(f.pending, m.node, m.slot)
    OBVIOUS
  <2>2. /\ g.swarm = f.swarm
        /\ Size(n) = f.pendingExpected => g.leader = f.pendingLeader /\ g.updating = FALSE
        /\ Size(n) # f.pendingExpected =>
             /\ g.leader = f.leader /\ g.updating = f.updating
             /\ g.pendingLeader = f.pendingLeader
    BY <2>1, CollectPendingFields
  <2>3. onNode(f, m, own) = g
    BY <1>2, <2>1 DEF onNode
  <2> QED
    BY <1>2, <2>2, <2>3 DEF Led
<1>3. CASE f.updating /\ m.swarm # f.swarm
  BY <1>3 DEF onNode
<1> QED
  BY <1>1, <1>2, <1>3

\* What a vehicle makes of a message is a mode and a sound formation.
LEMMA ToldSound ==
  ASSUME NEW v \in Node, NEW c \in [mode : Mode, formation : Formation],
         Sound(c.formation, v), Led(c.formation), NEW p \in Packet
  PROVE  /\ told(v, c, p) \in [mode : Mode, formation : Formation]
         /\ Sound(told(v, c, p).formation, v) /\ Led(told(v, c, p).formation)
<1> DEFINE OK(d) == /\ d \in [mode : Mode, formation : Formation]
                    /\ Sound(d.formation, v) /\ Led(d.formation)
<1>1. OK(c) /\ \A mode \in Mode : OK(In(mode))
  BY NewFormationLed, NewFormationSound DEF In
<1>2. ASSUME NEW f, Sound(f, v), Led(f)
      PROVE  OK([c EXCEPT !.formation = f])
  BY <1>2 DEF Sound
<1>3. "Other" \in Mode
  BY DEF Mode
<1>4. CASE p.kind = "mode"
  <2>1. p.message \in Mode /\ told(v, c, p) = entered(v, c, p.message)
    BY <1>4 DEF Packet, told
  <2>2. entered(v, c, p.message) \in {c, In(p.message)}
    BY DEF entered
  <2> QED
    BY <1>1, <2>1, <2>2
<1>5. CASE p.kind = "management"
  <2>1. p.message \in Management /\ told(v, c, p) = configured(v, c, p.message)
    BY <1>5 DEF Packet, told
  <2>2. PICK f : f = onManagement(c.formation, p.message)
    OBVIOUS
  <2>3. Sound(f, v) /\ Led(f)
    BY <2>1, <2>2, ManagementSound, ManagementLed DEF Sound
  <2>4. configured(v, c, p.message) \in {c, In("Other"), [c EXCEPT !.formation = f]}
    BY <2>2 DEF configured
  <2> QED
    BY <1>1, <1>2, <1>3, <2>1, <2>3, <2>4
<1>6. CASE p.kind = "node"
  <2>1. p.message \in NodeMessage /\ told(v, c, p) = placed(v, c, p.message)
    BY <1>6 DEF Packet, told
  <2>2. PICK f : f = onNode(c.formation, p.message, v)
    OBVIOUS
  <2>3. Sound(f, v) /\ Led(f)
    BY <2>1, <2>2, NodeSound, NodeLed DEF Sound
  <2>4. placed(v, c, p.message) \in {c, [c EXCEPT !.formation = f]}
    BY <2>2 DEF placed
  <2> QED
    BY <1>1, <1>2, <2>1, <2>3, <2>4
<1> QED
  BY <1>4, <1>5, <1>6 DEF Packet

\* The members of a swarm in some order.
LEMMA OrderType ==
  ASSUME NEW M \in SUBSET Node
  PROVE  SetToSeq(M) \in [1..Cardinality(M) -> M] /\ Cardinality(M) \in 0..Cardinality(Node)
<1>1. IsFiniteSet(M) /\ Cardinality(M) \in Nat /\ Cardinality(M) <= Cardinality(Node)
  BY NodeAssumption, FS_Subset, FS_CardinalityType
<1>2. Cardinality(Node) \in Nat
  BY NodeAssumption
<1>3. PICK f \in Bijection(1..Cardinality(M), M) : TRUE
  BY <1>1, FS_CardinalityType DEF ExistsBijection
<1>4. f \in [1..Cardinality(M) -> M] /\ IsInjective(f)
  BY <1>3 DEF Bijection, Injection, IsInjective
<1>5. SetToSeq(M) \in [1..Cardinality(M) -> M]
  BY <1>4 DEF SetToSeq
<1> QED
  BY <1>1, <1>2, <1>5

\* The slots of a script are SWARM_NODE messages.
LEMMA NodesType ==
  ASSUME NEW id \in Swarm, NEW M \in SUBSET Node, NEW slots, \A n \in M : slots[n] \in Slot
  PROVE  swarm_nodes(id, M, slots) \in Seq(Packet)
<1> DEFINE order == SetToSeq(M)
           nodes == [i \in 1..Len(order) |->
                       [kind |-> "node",
                        message |-> [swarm |-> id, node |-> order[i], slot |-> slots[order[i]]]]]
<1>1. order \in Seq(M) /\ Len(order) \in Nat
  BY OrderType
<1> HIDE DEF order
<1>2. \A i \in 1..Len(order) : order[i] \in M
  BY <1>1
<1>3. \A i \in 1..Len(order) : nodes[i] \in Packet
  BY <1>2 DEF Packet, NodeMessage
<1>4. nodes \in Seq(Packet)
  BY <1>1, <1>3
<1> QED
  BY <1>4 DEF swarm_nodes, order

\* Its announcement is a SWARM_MANAGEMENT, if it has at least two members.
LEMMA ManagementType ==
  ASSUME NEW type \in {"create", "update"}, NEW id \in Swarm, NEW leader \in Node,
         NEW M \in SUBSET Node, Cardinality(M) >= 2
  PROVE  management(type, id, leader, M) \in Packet
<1>1. Cardinality(M) \in 1..255
  <2>1. PICK most : most = Cardinality(Node)
    OBVIOUS
  <2>2. PICK some : some = Cardinality(M)
    OBVIOUS
  <2>3. some \in 0..most /\ most \in 1..255 /\ some >= 2
    BY <2>1, <2>2, OrderType, NodeAssumption
  <2> QED
    BY <2>2, <2>3
<1> QED
  BY <1>1 DEF management, Packet, Management

-----------------------------------------------------------------------------
(***************************************************************************)
(* The parts of the invariant: what flies, what the page shows.              *)
(***************************************************************************)
\* What the vehicles fly and have published.
InTheAir ==
  /\ craft \in [Node -> [mode : Mode, formation : Formation]]
  /\ published \in [Node -> Formation]
  /\ registered \subseteq WithNode
  /\ \A v \in Node : /\ Sound(craft[v].formation, v)
                     /\ Led(craft[v].formation) /\ Led(published[v])

\* A card with members names one of the vehicles as their leader.
CardOK(c) == c \in Card /\ (c.members # {} => c.leader \in Node)

\* The page.
OnThePage ==
  /\ linkUp \in BOOLEAN /\ known \subseteq Node /\ companions \subseteq WithNode
  /\ card \in [Swarm -> Card] /\ \A id \in Swarm : CardOK(card[id])
  /\ script = NoScript \/ script \in Running
  /\ earlier \subseteq Begun /\ busy \in BOOLEAN

\* An answer that comes names a leader.
AnswerOK(r) == r \in Answer /\ r.leader \in Node

\* What is on the way between page and vehicles.
InTraffic == requests \subseteq Node /\ \A r \in answers : AnswerOK(r)

\* The history and the counters.
Counted ==
  /\ clean \in BOOLEAN /\ excused \subseteq Node
  /\ faults \in 0..MaxFaults /\ operations \in 0..MaxEvents

\* The inductive invariant.
CInv == InTheAir /\ OnThePage /\ InTraffic /\ Counted

\* What NoScript looks like.
LEMMA NoScriptType ==
  /\ NoScript.swarm = NoSwarm /\ NoScript.members = {} /\ NoScript.slots \in List
  /\ NoScript.todo = <<>> /\ <<>> \in Seq(Packet) /\ NoScript \in Script
BY EmptyListEmpty DEF NoScript, Script

\* The invariant implies type correctness.
LEMMA CInvType == CInv => CardsTypeOK
<1>1. Running \subseteq Script
  BY DEF Running, Script
<1>2. (script = NoScript \/ script \in Running) => script \in Script
  BY <1>1, NoScriptType
<1>3. earlier \subseteq Begun => earlier \subseteq [number : 0..MaxEvents, script : Script]
  BY <1>1 DEF Begun
<1> QED
  BY <1>2, <1>3 DEF CInv, CardsTypeOK, InTheAir, OnThePage, InTraffic, Counted, CardOK, AnswerOK

\* The bounds are numbers.
LEMMA BoundsAreNumbers == MaxFaults \in Nat /\ MaxEvents \in Nat
BY CardsAssumption

\* No card claims no members.
LEMMA NoCardOK == CardOK(NoCard)
BY EmptyListEmpty DEF CardOK, NoCard, Card, Mode

\* A message is sent, and lost for at most one.
LEMMA SendSound ==
  ASSUME InTheAir, Counted, NEW p \in Packet, NEW M \in SUBSET Node, NEW lost \in Losses,
         send(p, M, lost)
  PROVE  InTheAir' /\ faults' \in 0..MaxFaults
<1>1. /\ craft \in [Node -> [mode : Mode, formation : Formation]]
      /\ published \in [Node -> Formation] /\ registered \subseteq WithNode
      /\ \A v \in Node : /\ Sound(craft[v].formation, v)
                         /\ Led(craft[v].formation) /\ Led(published[v])
  BY DEF InTheAir
<1>2. ASSUME NEW v \in Node
      PROVE  /\ craft'[v] \in [mode : Mode, formation : Formation]
             /\ Sound(craft'[v].formation, v) /\ Led(craft'[v].formation)
  <2>1. craft'[v] \in {craft[v], told(v, craft[v], p)}
    BY DEF send
  <2> QED
    BY <1>1, <2>1, ToldSound
<1>3. \A v \in Node : published'[v] \in {NewFormation, published[v]}
  BY DEF send
<1>4. \E g : craft' = [v \in Node |-> g[v]]
  <2>1. PICK g : g = [v \in Node |-> IF v \in (IF linkUp THEN M \ lost ELSE {})
                                     THEN told(v, craft[v], p) ELSE craft[v]]
    OBVIOUS
  <2>2. craft' = g
    BY <2>1 DEF send
  <2> QED
    BY <2>1, <2>2
<1>5. craft' \in [Node -> [mode : Mode, formation : Formation]]
  BY <1>2, <1>4
<1>6. published' \in [Node -> Formation] /\ \A v \in Node : Led(published'[v])
  <2>1. \E g : published' = [v \in Node |-> g[v]]
    <3>1. PICK g : g = published'
      OBVIOUS
    <3>2. published' = [v \in Node |-> g[v]]
      BY <3>1 DEF send
    <3> QED
      BY <3>2
  <2> QED
    BY <1>1, <1>3, <2>1, NewFormationLed
<1>7. InTheAir'
  BY <1>1, <1>2, <1>5, <1>6 DEF InTheAir, send
<1>8. faults' \in 0..MaxFaults
  <2>1. /\ faults' = faults + Cardinality(lost)
        /\ lost = {} \/ (faults < MaxFaults /\ \E v : lost = {v})
    BY DEF send, Losses, MayFail
  <2>2. Cardinality(lost) = 0 \/ (faults < MaxFaults /\ Cardinality(lost) = 1)
    BY <2>1, FS_EmptySet, FS_Singleton
  <2> QED
    BY <2>1, <2>2, BoundsAreNumbers DEF Counted
<1> QED
  BY <1>7, <1>8

\* The counter of operations, too, stops at its bound.
LEMMA OperationCounted ==
  ASSUME Counted, MayOperate, operations' = operations + 1
  PROVE  operations' \in 0..MaxEvents
BY BoundsAreNumbers DEF Counted, MayOperate

\* The counter of faults stops at its bound.
LEMMA FaultCounted ==
  ASSUME Counted, MayFail, faults' = faults + 1
  PROVE  faults' \in 0..MaxFaults
BY BoundsAreNumbers DEF Counted, MayFail

\* A script begins, and the one it follows may still run.
LEMMA BeginSound ==
  ASSUME OnThePage, Counted, NEW s \in Running, begin(s)
  PROVE  script' \in Running /\ earlier' \subseteq Begun /\ busy' \in BOOLEAN
<1>1. script # NoScript => [number |-> operations, script |-> script] \in Begun
  BY BoundsAreNumbers DEF OnThePage, Counted, Begun
<1> QED
  BY <1>1 DEF OnThePage, begin

\* What is left of a card.
LEMMA WithoutOK ==
  ASSUME NEW c, CardOK(c), NEW M
  PROVE  CardOK(without(c, M))
<1> DEFINE rest == c.members \ M
<1>1. rest \in SUBSET Node /\ c.leader \in Node \cup {NoNode}
  BY DEF CardOK, Card
<1>2. without(c, M) \in {c, NoCard, [c EXCEPT !.members = rest]}
  BY DEF without
<1>3. rest # {} => c.members # {}
  OBVIOUS
<1>4. CardOK([c EXCEPT !.members = rest])
  <2>1. [c EXCEPT !.members = rest] \in Card
    BY <1>1 DEF CardOK, Card
  <2> HIDE DEF rest
  <2>2. [c EXCEPT !.members = rest].members = rest /\ [c EXCEPT !.members = rest].leader = c.leader
    BY DEF CardOK, Card
  <2> QED
    BY <1>3, <2>1, <2>2 DEF CardOK
<1> QED
  BY <1>2, <1>4, NoCardOK

-----------------------------------------------------------------------------
(***************************************************************************)
(* The operator.                                                            *)
(***************************************************************************)
\* A deployment makes a card and a script of what the operator chose.
LEMMA DeploySound ==
  ASSUME CInv, NEW d \in Deployments, NEW lost \in Losses, deploySwarm(d, lost)
  PROVE  CInv'
<1> DEFINE shown == [n \in Node |-> IF n \in d.members THEN d.slots[n] ELSE NoSlot]
           left == [id \in Swarm |-> without(card[id], d.members)]
           new == [leader |-> d.leader, members |-> d.members, slots |-> shown, mode |-> d.mode,
                   status |-> IF linkUp THEN "deploying" ELSE "failed", restored |-> FALSE]
           list == swarm_nodes(d.swarm, d.members, shown)
           head == management("create", d.swarm, d.leader, d.members)
<1>0. InTheAir /\ OnThePage /\ InTraffic /\ Counted
  BY DEF CInv
<1>1. /\ d.swarm \in Swarm /\ d.members \in SUBSET Node /\ d.leader \in d.members
      /\ d.mode \in {"internal", "external"} /\ d.slots \in [Node -> Slot]
  BY CardsAssumption
<1>2. /\ canDeploy(d) /\ send(SetMode(d.mode), d.members, lost)
      /\ card' = [left EXCEPT ![d.swarm] = new]
      /\ IF linkUp
         THEN begin([type |-> "create", swarm |-> d.swarm, members |-> d.members,
                     slots |-> shown, todo |-> <<head>> \o list])
         ELSE UNCHANGED scripts
      /\ excused' \subseteq excused \cup lost \cup d.members \cup Node
      /\ clean' \in BOOLEAN /\ operations' = operations + 1
      /\ UNCHANGED <<linkUp, known, companions, requests, answers>>
  BY DEF deploySwarm, missed
<1>3. shown \in List /\ \A n \in d.members : shown[n] \in Slot
  BY <1>1 DEF List
<1> HIDE DEF shown
<1>4. SetMode(d.mode) \in Packet
  BY <1>1 DEF SetMode, Packet, Mode
<1>5. InTheAir' /\ faults' \in 0..MaxFaults
  BY <1>0, <1>1, <1>2, <1>4, SendSound
<1>6. head \in Packet /\ list \in Seq(Packet)
  <2>1. Cardinality(d.members) >= 2
    BY <1>2 DEF canDeploy
  <2> QED
    BY <1>1, <1>3, <2>1, ManagementType, NodesType
<1> HIDE DEF head, list
<1>7. <<head>> \o list \in Seq(Packet)
  BY <1>6, ConcatProperties
<1>8. /\ script' = NoScript \/ script' \in Running
      /\ earlier' \subseteq Begun /\ busy' \in BOOLEAN
  <2>1. CASE ~linkUp
    BY <1>0, <1>2, <2>1 DEF OnThePage, scripts
  <2>2. CASE linkUp
    <3>1. PICK s : s = [type |-> "create", swarm |-> d.swarm, members |-> d.members,
                        slots |-> shown, todo |-> <<head>> \o list]
      OBVIOUS
    <3>2. s \in Running
      BY <1>1, <1>3, <1>7, <3>1 DEF Running
    <3>3. begin(s)
      BY <1>2, <2>2, <3>1
    <3> QED
      BY <1>0, <3>2, <3>3, BeginSound
  <2> QED
    BY <2>1, <2>2
<1>9. CardOK(new)
  BY <1>1, <1>3 DEF CardOK, Card, Mode
<1> HIDE DEF new
<1>10. \A id \in Swarm : CardOK(left[id])
  BY <1>0, WithoutOK DEF OnThePage
<1>11. card' \in [Swarm -> Card] /\ \A id \in Swarm : CardOK(card'[id])
  <2>1. \A id \in Swarm : card'[id] = IF id = d.swarm THEN new ELSE left[id]
    BY <1>1, <1>2
  <2>2. \A id \in Swarm : CardOK(card'[id])
    BY <1>9, <1>10, <2>1
  <2>3. card' \in [Swarm -> Card]
    BY <1>2, <1>9, <1>10 DEF CardOK
  <2> QED
    BY <2>2, <2>3
<1>12. OnThePage'
  BY <1>0, <1>2, <1>8, <1>11 DEF OnThePage, CardOK
<1>13. InTraffic'
  BY <1>0, <1>2 DEF InTraffic, AnswerOK
<1>14. operations' \in 0..MaxEvents
  BY <1>0, <1>2, OperationCounted DEF canDeploy, Ready, Usable
<1>15. clean' \in BOOLEAN /\ excused' \subseteq Node
  BY <1>0, <1>1, <1>2 DEF Counted, Losses
<1>16. Counted'
  BY <1>5, <1>14, <1>15 DEF Counted
<1> QED
  BY <1>5, <1>12, <1>13, <1>16 DEF CInv

\* A change of formation is announced with the leader on the card, who is a vehicle
\* because the card has members, whether it is of this session or was restored.
LEMMA UpdateSound ==
  ASSUME CInv, NEW id \in Swarm, NEW slots \in Formations, NEW lost \in Losses,
         updateFormation(id, slots, lost)
  PROVE  CInv'
<1> DEFINE c == card[id]
           shown == [n \in Node |-> IF n \in c.members THEN slots[n] ELSE NoSlot]
           list == swarm_nodes(id, c.members, shown)
           head == management("update", id, c.leader, c.members)
<1>0. InTheAir /\ OnThePage /\ InTraffic /\ Counted
  BY DEF CInv
<1>1. slots \in [Node -> Slot] /\ c.members \in SUBSET Node
      /\ (c.members # {} => c.leader \in Node)
  BY <1>0, CardsAssumption DEF OnThePage, CardOK, Card
<1>2. /\ Ready /\ Cardinality(c.members) >= 2
      /\ send(head, c.members, lost)
      /\ begin([type |-> "update", swarm |-> id, members |-> c.members, slots |-> shown,
                todo |-> list])
      /\ excused' = (excused \ c.members) \cup lost /\ clean' \in BOOLEAN
      /\ operations' = operations + 1
      /\ UNCHANGED <<linkUp, card, known, companions, requests, answers>>
  BY DEF updateFormation
<1>3. c.leader \in Node
  <2>1. PICK M : M = c.members
    OBVIOUS
  <2>2. Cardinality(M) >= 2
    BY <1>2, <2>1
  <2>3. M # {}
    BY <2>2, FS_EmptySet
  <2> QED
    BY <1>1, <2>1, <2>3
<1> HIDE DEF c
<1>4. shown \in List /\ \A n \in c.members : shown[n] \in Slot
  BY <1>1 DEF List
<1> HIDE DEF shown
<1>5. head \in Packet /\ list \in Seq(Packet)
  BY <1>1, <1>2, <1>3, <1>4, ManagementType, NodesType
<1> HIDE DEF head, list
<1>6. InTheAir' /\ faults' \in 0..MaxFaults
  BY <1>0, <1>1, <1>2, <1>5, SendSound
<1>7. script' \in Running /\ earlier' \subseteq Begun /\ busy' \in BOOLEAN
  <2>1. PICK s : s = [type |-> "update", swarm |-> id, members |-> c.members, slots |-> shown,
                      todo |-> list]
    OBVIOUS
  <2>2. s \in Running
    BY <1>1, <1>4, <1>5, <2>1 DEF Running
  <2>3. begin(s)
    BY <1>2, <2>1
  <2> QED
    BY <1>0, <2>2, <2>3, BeginSound
<1>8. OnThePage'
  BY <1>0, <1>2, <1>7 DEF OnThePage
<1>9. InTraffic'
  BY <1>0, <1>2 DEF InTraffic
<1>10. operations' \in 0..MaxEvents
  BY <1>0, <1>2, OperationCounted DEF Ready, Usable
<1>11. Counted'
  BY <1>0, <1>2, <1>6, <1>10 DEF Counted, Losses
<1> QED
  BY <1>6, <1>8, <1>9, <1>11 DEF CInv

\* Whoever can be told leaves the mode; the card is gone.
LEMMA DissolveSound ==
  ASSUME CInv, NEW id \in Swarm, NEW lost \in Losses, dissolveSwarm(id, lost)
  PROVE  CInv'
<1>0. InTheAir /\ OnThePage /\ InTraffic /\ Counted
  BY DEF CInv
<1>1. card[id].members \in SUBSET Node /\ lost \in SUBSET Node
  BY <1>0 DEF OnThePage, CardOK, Card, Losses
<1>2. SetMode("Other") \in Packet
  BY DEF SetMode, Packet, Mode
<1>3. /\ Usable /\ send(SetMode("Other"), card[id].members, lost)
      /\ card' = [card EXCEPT ![id] = NoCard]
      /\ excused' \subseteq excused \cup lost \cup card[id].members \cup Node
      /\ clean' \in BOOLEAN /\ operations' = operations + 1
      /\ UNCHANGED <<linkUp, known, companions, scripts, requests, answers>>
  BY DEF dissolveSwarm, missed
<1>4. InTheAir' /\ faults' \in 0..MaxFaults
  BY <1>0, <1>1, <1>2, <1>3, SendSound
<1>5. card' \in [Swarm -> Card] /\ \A i \in Swarm : CardOK(card'[i])
  BY <1>0, <1>3, NoCardOK DEF OnThePage, CardOK
<1>6. OnThePage'
  BY <1>0, <1>3, <1>5 DEF OnThePage, scripts
<1>7. InTraffic'
  BY <1>0, <1>3 DEF InTraffic
<1>8. operations' \in 0..MaxEvents
  BY <1>0, <1>3, OperationCounted DEF Usable
<1>9. Counted'
  BY <1>0, <1>1, <1>3, <1>4, <1>8 DEF Counted
<1> QED
  BY <1>4, <1>6, <1>7, <1>9 DEF CInv

\* Everybody discovered is asked again.
LEMMA ReadSound ==
  ASSUME CInv, readFromVehicles
  PROVE  CInv'
<1>0. InTheAir /\ OnThePage /\ InTraffic /\ Counted
  BY DEF CInv
<1>1. /\ Usable /\ requests' = requests \cup known /\ excused' \subseteq excused /\ operations' = operations + 1
      /\ UNCHANGED <<fleet, page, answers, clean, faults>>
  BY DEF readFromVehicles
<1>2. InTheAir'
  BY <1>0, <1>1 DEF InTheAir, fleet
<1>3. OnThePage'
  BY <1>0, <1>1 DEF OnThePage, page, scripts
<1>4. InTraffic'
  BY <1>0, <1>1 DEF InTraffic, OnThePage
<1>5. operations' \in 0..MaxEvents
  BY <1>0, <1>1, OperationCounted DEF Usable
<1>6. Counted'
  BY <1>0, <1>1, <1>5 DEF Counted
<1> QED
  BY <1>2, <1>3, <1>4, <1>6 DEF CInv

\* What a reload and a new connection share.
LEMMA ForgetSound ==
  ASSUME CInv, forget, clean' \in BOOLEAN,
         card' \in [Swarm -> Card], \A id \in Swarm : CardOK(card'[id]),
         script' = NoScript \/ script' \in Running,
         earlier' \subseteq Begun, busy' \in BOOLEAN
  PROVE  CInv'
<1>0. InTheAir /\ OnThePage /\ InTraffic /\ Counted
  BY DEF CInv
<1>1. /\ MayOperate /\ linkUp' = FALSE
      /\ known' = {} /\ companions' = {} /\ answers' = {} /\ excused' \subseteq excused
      /\ operations' = operations + 1
      /\ UNCHANGED <<fleet, requests, faults>>
  BY DEF forget
<1>2. InTheAir'
  BY <1>0, <1>1 DEF InTheAir, fleet
<1>3. OnThePage'
  BY <1>1 DEF OnThePage
<1>4. InTraffic'
  BY <1>0, <1>1 DEF InTraffic
<1>5. operations' \in 0..MaxEvents
  BY <1>0, <1>1, OperationCounted
<1>6. Counted'
  BY <1>0, <1>1, <1>5 DEF Counted
<1> QED
  BY <1>2, <1>3, <1>4, <1>6 DEF CInv

\* A new connection keeps cards and script.
LEMMA ConnectSound ==
  ASSUME CInv, connect
  PROVE  CInv'
<1>1. forget /\ UNCHANGED <<card, script, earlier, busy, clean>>
  BY DEF connect, scripts
<1>2. OnThePage /\ Counted
  BY DEF CInv
<1>3. /\ clean' \in BOOLEAN /\ card' \in [Swarm -> Card] /\ \A id \in Swarm : CardOK(card'[id])
      /\ script' = NoScript \/ script' \in Running
      /\ earlier' \subseteq Begun /\ busy' \in BOOLEAN
  BY <1>1, <1>2 DEF OnThePage, Counted
<1> QED
  BY <1>1, <1>3, ForgetSound

\* A reload forgets both.
LEMMA ReloadSound ==
  ASSUME CInv, reload
  PROVE  CInv'
<1>1. /\ forget /\ card' = [id \in Swarm |-> NoCard]
      /\ script' = NoScript /\ earlier' = {} /\ busy' = FALSE
      /\ clean' = (clean /\ Alone)
  BY DEF reload
<1>2. clean' \in BOOLEAN /\ earlier' \subseteq Begun
  BY <1>1
<1>3. card' \in [Swarm -> Card] /\ \A id \in Swarm : CardOK(card'[id])
  BY <1>1, NoCardOK DEF CardOK
<1> QED
  BY <1>1, <1>2, <1>3, ForgetSound

-----------------------------------------------------------------------------
(***************************************************************************)
(* The script, and the traffic from and to the vehicles.                    *)
(***************************************************************************)
\* The next message of a script is sent.
LEMMA PublishSound ==
  ASSUME CInv, NEW s \in Running, NEW lost \in Losses, publish(s, lost)
  PROVE  InTheAir' /\ InTraffic' /\ Counted' /\ advance(s) \in Running
<1>0. InTheAir /\ OnThePage /\ InTraffic /\ Counted
  BY DEF CInv
<1>1. /\ s.todo # <<>> /\ send(Head(s.todo), s.members, lost)
      /\ clean' \in BOOLEAN /\ excused' \subseteq excused \cup lost \cup s.members
      /\ UNCHANGED <<requests, answers, operations>>
  BY <1>0 DEF publish, missed, Counted
<1>2. PICK todo : todo = s.todo
  OBVIOUS
<1>3. todo \in Seq(Packet) /\ todo # <<>> /\ s.members \in SUBSET Node
  BY <1>1, <1>2 DEF Running
<1>4. Head(todo) \in Packet /\ Tail(todo) \in Seq(Packet)
  BY <1>3
<1>5. InTheAir' /\ faults' \in 0..MaxFaults
  BY <1>0, <1>1, <1>2, <1>3, <1>4, SendSound
<1>6. advance(s) \in Running
  BY <1>2, <1>4 DEF Running, advance
<1>7. InTraffic' /\ Counted'
  BY <1>0, <1>1, <1>3, <1>5 DEF InTraffic, Counted, Losses
<1> QED
  BY <1>5, <1>6, <1>7

\* It is that of the script that began last, or of one that began before.
LEMMA PublishNextSound ==
  ASSUME CInv, NEW lost \in Losses,
         publishNext(lost) \/ \E e \in earlier : publishEarlier(e, lost)
  PROVE  CInv'
<1>0. OnThePage
  BY DEF CInv
<1>1. CASE publishNext(lost)
  <2>1. publish(script, lost) /\ script' = advance(script) /\ earlier' = earlier
    BY <1>1 DEF publishNext
  <2>2. script \in Running
    BY <1>0, <2>1, NoScriptType DEF OnThePage, publish
  <2>3. UNCHANGED <<linkUp, card, known, companions, busy>>
    BY <2>1 DEF publish
  <2>4. OnThePage'
    BY <1>0, <2>1, <2>2, <2>3, PublishSound DEF OnThePage
  <2> QED
    BY <2>1, <2>2, <2>4, PublishSound DEF CInv
<1>2. ASSUME NEW e \in earlier, publishEarlier(e, lost)
      PROVE  CInv'
  <2>1. /\ publish(e.script, lost) /\ script' = script
        /\ earlier' = (earlier \ {e}) \cup {[e EXCEPT !.script = advance(@)]}
    BY <1>2 DEF publishEarlier
  <2>2. e \in Begun /\ e.script \in Running
    BY <1>0 DEF OnThePage, Begun
  <2>3. UNCHANGED <<linkUp, card, known, companions, busy>>
    BY <2>1 DEF publish
  <2>4. [e EXCEPT !.script = advance(@)] \in Begun
    <3>1. advance(e.script) \in Running
      BY <2>1, <2>2, PublishSound
    <3> QED
      BY <2>2, <3>1 DEF Begun
  <2>5. OnThePage'
    BY <1>0, <2>1, <2>3, <2>4 DEF OnThePage
  <2> QED
    BY <2>1, <2>2, <2>5, PublishSound DEF CInv
<1> QED
  BY <1>1, <1>2

\* The end of a script may change slots and status of a card, not its members.
LEMMA MergeEffect ==
  ASSUME OnThePage, NEW s \in Running, merge(s)
  PROVE  /\ card' \in [Swarm -> Card]
         /\ \A id \in Swarm : id # s.swarm => card'[id] = card[id]
         /\ card'[s.swarm] = [card[s.swarm] EXCEPT !.status = "active",
                                !.slots = IF s.type = "update" THEN s.slots ELSE @]
         /\ card'[s.swarm] # NoCard
         /\ \A id \in Swarm : /\ card'[id].members = card[id].members
                              /\ card'[id].leader = card[id].leader
<1>1. s.swarm \in Swarm /\ s.slots \in List /\ card \in [Swarm -> Card]
  BY DEF OnThePage, Running
<1>2. PICK id, c : id = s.swarm /\ c = card[id]
  OBVIOUS
<1>3. PICK slots : slots = IF s.type = "update" THEN s.slots ELSE c.slots
  OBVIOUS
<1>4. PICK e : e = [c EXCEPT !.status = "active", !.slots = slots]
  OBVIOUS
<1>5. slots \in List /\ c \in Card
  BY <1>1, <1>2, <1>3 DEF Card
<1>6. /\ e \in Card /\ e.members = c.members /\ e.leader = c.leader /\ e.status = "active"
  BY <1>4, <1>5 DEF Card
<1>7. card' = [card EXCEPT ![id] = e]
  BY <1>1, <1>2, <1>3, <1>4, <1>5 DEF merge, Card
<1>8. e # NoCard
  BY <1>6 DEF NoCard
<1>9. card'[id] = e /\ \A i \in Swarm : i # id => card'[i] = card[i]
  BY <1>1, <1>2, <1>7
<1>10. card' \in [Swarm -> Card]
  BY <1>1, <1>6, <1>7
<1> QED
  BY <1>2, <1>3, <1>4, <1>6, <1>8, <1>9, <1>10

\* So the card still names the leader of its members.
LEMMA MergeSound ==
  ASSUME CInv, NEW s \in Running, merge(s)
  PROVE  /\ InTheAir' /\ InTraffic' /\ Counted'
         /\ card' \in [Swarm -> Card] /\ \A id \in Swarm : CardOK(card'[id])
<1>0. InTheAir /\ OnThePage /\ InTraffic /\ Counted
  BY DEF CInv
<1>1. /\ clean' \in BOOLEAN
      /\ UNCHANGED <<fleet, traffic, excused, faults, operations>>
  BY <1>0 DEF merge, Counted
<1>2. InTheAir' /\ InTraffic' /\ Counted'
  BY <1>0, <1>1 DEF InTheAir, InTraffic, Counted, fleet, traffic
<1>3. card' \in [Swarm -> Card] /\ \A id \in Swarm : CardOK(card'[id])
  BY <1>0, MergeEffect DEF OnThePage, CardOK
<1> QED
  BY <1>2, <1>3

\* A script that has sent everything ends.
LEMMA FinishScriptSound ==
  ASSUME CInv, finishScript \/ \E e \in earlier : finishEarlier(e)
  PROVE  CInv'
<1>0. OnThePage
  BY DEF CInv
<1>1. CASE finishScript
  <2>1. script \in Running /\ merge(script) /\ script' = NoScript /\ busy' = FALSE /\ earlier' = earlier
    BY <1>0, <1>1 DEF finishScript, OnThePage
  <2>2. UNCHANGED <<linkUp, known, companions>>
    BY <2>1 DEF merge
  <2>3. OnThePage'
    BY <1>0, <2>1, <2>2, MergeSound DEF OnThePage
  <2> QED
    BY <2>1, <2>3, MergeSound DEF CInv
<1>2. ASSUME NEW e \in earlier, finishEarlier(e)
      PROVE  CInv'
  <2>1. merge(e.script) /\ script' = script /\ busy' = busy /\ earlier' \subseteq earlier
    BY <1>2 DEF finishEarlier
  <2>2. e.script \in Running
    BY <1>0 DEF OnThePage, Begun
  <2>3. UNCHANGED <<linkUp, known, companions>>
    BY <2>1 DEF merge
  <2>4. OnThePage'
    BY <1>0, <2>1, <2>2, <2>3, MergeSound DEF OnThePage
  <2> QED
    BY <2>1, <2>2, <2>4, MergeSound DEF CInv
<1> QED
  BY <1>1, <1>2

\* The panel forgets a script, which runs on.
LEMMA SwitchSound ==
  ASSUME CInv, switchTab
  PROVE  CInv'
<1>1. MayFail /\ faults' = faults + 1 /\ UNCHANGED <<clean, excused, operations>>
  BY DEF switchTab
<1>2. Counted'
  BY <1>1, FaultCounted DEF CInv, Counted
<1> QED
  BY <1>2 DEF switchTab, CInv, InTheAir, OnThePage, InTraffic, fleet, traffic

\* Heartbeats of vehicles and of nodes, and the status a vehicle publishes.
LEMMA TelemetrySound ==
  ASSUME CInv, NEW v \in Node,
         heartbeat(v) \/ companionHeartbeat(v) \/ publishStatus(v)
  PROVE  CInv'
<1>0. InTheAir /\ OnThePage /\ InTraffic /\ Counted
  BY DEF CInv
<1>1. CASE heartbeat(v)
  <2>1. /\ known' = known \cup {v} /\ requests' = requests \cup {v}
        /\ UNCHANGED <<fleet, linkUp, card, companions, scripts, answers, history>>
    BY <1>1 DEF heartbeat
  <2> QED
    BY <1>0, <2>1 DEF CInv, InTheAir, OnThePage, InTraffic, Counted, fleet, scripts, history
<1>2. CASE companionHeartbeat(v)
  <2>1. /\ v \in WithNode /\ registered' = registered \cup {v}
        /\ companions' \in {companions, companions \cup {v}}
        /\ requests' \in {requests, requests \cup {v}}
        /\ UNCHANGED <<craft, published, linkUp, card, known, scripts, answers, history>>
    BY <1>2 DEF companionHeartbeat
  <2>2. InTheAir' /\ OnThePage'
    BY <1>0, <2>1 DEF InTheAir, OnThePage, scripts
  <2>3. InTraffic' /\ Counted'
    BY <1>0, <2>1 DEF InTraffic, Counted, history
  <2> QED
    BY <2>2, <2>3 DEF CInv
<1>3. CASE publishStatus(v)
  <2>1. /\ published' = [published EXCEPT ![v] = craft[v].formation]
        /\ UNCHANGED <<craft, registered, page, traffic, history>>
    BY <1>3 DEF publishStatus
  <2>2. InTheAir'
    BY <1>0, <2>1 DEF InTheAir
  <2>3. OnThePage' /\ InTraffic' /\ Counted'
    BY <1>0, <2>1 DEF OnThePage, InTraffic, Counted, page, scripts, traffic, history
  <2> QED
    BY <2>2, <2>3 DEF CInv
<1> QED
  BY <1>1, <1>2, <1>3

\* An answer that the page makes something of names a leader.
LEMMA StatusOK ==
  ASSUME InTheAir, NEW v \in Node, Restorable(statusOf(v))
  PROVE  AnswerOK(statusOf(v))
<1>1. PICK f : f = Reported(v)
  OBVIOUS
<1>2. f \in Formation /\ Led(f)
  BY <1>1 DEF Reported, InTheAir
<1>3. /\ statusOf(v).swarm = f.swarm /\ statusOf(v).leader = f.leader
      /\ statusOf(v).nodes = f.nodes /\ statusOf(v).mode = craft[v].mode
      /\ statusOf(v) = [from |-> v, swarm |-> f.swarm, leader |-> f.leader, nodes |-> f.nodes,
                        mode |-> craft[v].mode, collecting |-> State(f) = "collecting"]
  BY <1>1 DEF statusOf
<1>4. f.swarm # NoSwarm
  BY <1>3 DEF Restorable
<1>5. f.swarm \in Swarm /\ f.leader \in Node /\ f.nodes \in List
  BY <1>2, <1>4 DEF Formation, Led
<1>6. craft[v].mode \in Mode
  BY DEF InTheAir
<1> QED
  BY <1>3, <1>5, <1>6 DEF AnswerOK, Answer

\* An answer on its way is one the page can restore.
LEMMA AnswerSound ==
  ASSUME CInv, NEW v \in Node, answer(v)
  PROVE  CInv'
<1>0. InTheAir /\ OnThePage /\ InTraffic /\ Counted
  BY DEF CInv
<1>1. /\ requests' = requests \ {v}
      /\ answers' = answers \/ (Restorable(statusOf(v)) /\ answers' = answers \cup {statusOf(v)})
      /\ excused' \subseteq excused \cup {v} /\ clean' \in BOOLEAN
      /\ UNCHANGED <<fleet, page, faults, operations>>
  BY DEF answer
<1>2. \A r \in answers' : AnswerOK(r)
  BY <1>0, <1>1, StatusOK DEF InTraffic
<1>3. InTheAir' /\ OnThePage'
  BY <1>0, <1>1 DEF InTheAir, OnThePage, fleet, page, scripts
<1>4. InTraffic'
  BY <1>0, <1>1, <1>2 DEF InTraffic
<1>5. Counted'
  BY <1>0, <1>1 DEF Counted
<1> QED
  BY <1>3, <1>4, <1>5 DEF CInv

\* A restored card names the leader its answer does.
LEMMA RestoreSound ==
  ASSUME CInv, NEW r \in answers, restoreSwarm(r)
  PROVE  CInv'
<1> DEFINE new == [leader |-> r.leader, members |-> Listed(r.nodes), slots |-> r.nodes,
                   mode |-> r.mode, restored |-> TRUE,
                   status |-> IF r.collecting THEN "deploying" ELSE "active"]
<1>0. InTheAir /\ OnThePage /\ InTraffic /\ Counted
  BY DEF CInv
<1>1. /\ answers' = answers \ {r}
      /\ card' = card \/ card' = [card EXCEPT ![r.swarm] = new]
      /\ UNCHANGED <<fleet, linkUp, known, companions, scripts, requests, history>>
  BY DEF restoreSwarm
<1>2. r \in Answer /\ r.leader \in Node
  BY <1>0 DEF InTraffic, AnswerOK
<1>3. CardOK(new) /\ r.swarm \in Swarm
  BY <1>2 DEF CardOK, Card, Answer, Listed
<1> HIDE DEF new
<1>4. card' \in [Swarm -> Card] /\ \A id \in Swarm : CardOK(card'[id])
  BY <1>0, <1>1, <1>3 DEF OnThePage, CardOK
<1>5. InTheAir' /\ InTraffic' /\ Counted'
  BY <1>0, <1>1 DEF InTheAir, InTraffic, Counted, fleet, history
<1>6. OnThePage'
  BY <1>0, <1>1, <1>4 DEF OnThePage, scripts
<1> QED
  BY <1>5, <1>6 DEF CInv

-----------------------------------------------------------------------------
(***************************************************************************)
(* What goes wrong.                                                         *)
(***************************************************************************)
\* Nothing that goes wrong invents anything.
LEMMA FaultSound ==
  ASSUME CInv, Fault \/ raiseLink
  PROVE  CInv'
<1>0. InTheAir /\ OnThePage /\ InTraffic /\ Counted
  BY DEF CInv
<1>1. CASE raiseLink
  BY <1>0, <1>1 DEF raiseLink, CInv, InTheAir, OnThePage, InTraffic, Counted, fleet, scripts, traffic,
                        history
<1>2. CASE dropLink
  <2>1. /\ MayFail /\ linkUp' = FALSE /\ answers' = {}
        /\ excused' = excused \cup {r.from : r \in answers} /\ faults' = faults + 1
        /\ UNCHANGED <<fleet, card, known, companions, scripts, requests, clean, operations>>
    BY <1>2 DEF dropLink
  <2>2. {r.from : r \in answers} \subseteq Node
    BY <1>0 DEF InTraffic, AnswerOK, Answer
  <2>3. faults' \in 0..MaxFaults
    BY <1>0, <2>1, FaultCounted
  <2>4. Counted'
    BY <1>0, <2>1, <2>2, <2>3 DEF Counted
  <2>5. InTheAir' /\ OnThePage' /\ InTraffic'
    BY <1>0, <2>1 DEF InTheAir, OnThePage, InTraffic, fleet, scripts
  <2> QED
    BY <2>4, <2>5 DEF CInv
<1>3. CASE restartBridge
  <2>1. /\ MayFail /\ registered' = {} /\ faults' = faults + 1
        /\ UNCHANGED <<craft, published, page, traffic, clean, excused, operations>>
    BY <1>3 DEF restartBridge
  <2>2. faults' \in 0..MaxFaults
    BY <1>0, <2>1, FaultCounted
  <2>3. InTheAir' /\ OnThePage' /\ InTraffic' /\ Counted'
    BY <1>0, <2>1, <2>2 DEF InTheAir, OnThePage, InTraffic, Counted, page, scripts, traffic
  <2> QED
    BY <2>3 DEF CInv
<1>4. ASSUME NEW v \in Node, loseRequest(v)
      PROVE  CInv'
  <2>1. /\ MayFail /\ requests' = requests \ {v} /\ excused' = excused \cup {v}
        /\ faults' = faults + 1
        /\ UNCHANGED <<fleet, page, answers, clean, operations>>
    BY <1>4 DEF loseRequest
  <2>2. faults' \in 0..MaxFaults
    BY <1>0, <2>1, FaultCounted
  <2>3. InTheAir' /\ OnThePage' /\ InTraffic' /\ Counted'
    BY <1>0, <2>1, <2>2 DEF InTheAir, OnThePage, InTraffic, Counted, fleet, page, scripts
  <2> QED
    BY <2>3 DEF CInv
<1> QED
  BY <1>1, <1>2, <1>3, <1>4 DEF Fault

-----------------------------------------------------------------------------
(***************************************************************************)
(* The theorem.                                                             *)
(***************************************************************************)
\* At first nobody flies and the page shows nothing.
LEMMA CInvInit == Init => CInv
<1> SUFFICES ASSUME Init PROVE CInv
  OBVIOUS
<1>1. \A v \in Node : Sound(In("Other").formation, v) /\ Led(In("Other").formation)
  BY NewFormationLed, NewFormationSound DEF In
<1>2. In("Other") \in [mode : Mode, formation : Formation]
  BY NewFormationLed DEF In, Mode
<1>3. InTheAir
  BY <1>1, <1>2, NewFormationLed DEF Init, InTheAir
<1>4. OnThePage
  BY NoCardOK, CardsAssumption DEF Init, OnThePage, CardOK
<1>5. InTraffic
  BY DEF Init, InTraffic
<1>6. Counted
  BY BoundsAreNumbers DEF Init, Counted
<1> QED
  BY <1>3, <1>4, <1>5, <1>6 DEF CInv

\* Every step keeps the invariant.
LEMMA CInvStep == CInv /\ [Next]_vars => CInv'
<1> SUFFICES ASSUME CInv, [Next]_vars
             PROVE  CInv'
  OBVIOUS
<1>1. CASE Operator
  BY <1>1, DeploySound, UpdateSound, DissolveSound, ReadSound, ConnectSound, ReloadSound,
     SwitchSound DEF Operator
<1>2. CASE Timers
  BY <1>2, PublishNextSound, FinishScriptSound DEF Timers
<1>3. CASE Restore
  BY <1>3, RestoreSound DEF Restore
<1>4. CASE raiseLink \/ Fault
  BY <1>4, FaultSound
<1>5. ASSUME NEW v \in Node, Telemetry(v)
      PROVE  CInv'
  BY <1>5, TelemetrySound, AnswerSound DEF Telemetry
<1>6. CASE UNCHANGED vars
  BY <1>6 DEF CInv, InTheAir, OnThePage, InTraffic, Counted, vars, fleet, page, scripts, traffic,
              history
<1> QED
  BY <1>1, <1>2, <1>3, <1>4, <1>5, <1>6 DEF Next

\* The type invariant holds for any fleet, any deployments and formations and any
\* number of operations, lost messages, reconnections, reloads and bridge restarts:
\* cards, answers and messages name vehicles, slots and leaders that exist.
THEOREM CardsTypeCorrect == Spec => []CardsTypeOK
<1>1. Init => CInv
  BY CInvInit
<1>2. CInv /\ [Next]_vars => CInv'
  BY CInvStep
<1>3. CInv => CardsTypeOK
  BY CInvType
<1> QED
  BY <1>1, <1>2, <1>3, PTL DEF Spec
-----------------------------------------------------------------------------
(***************************************************************************)
(* Do the cards show what flies? The invariant follows the members of the    *)
(* script that runs through the slots they are sent, and says of everybody   *)
(* else in the air that they rest: all members of their swarm fly the same,  *)
(* its card shows that, or it will have one that does.                       *)
(***************************************************************************)
\* The aim of a script: a swarm whose members are told their slots in some order.
Aim == [swarm : Swarm, leader : Node, slots : List, members : SUBSET Node]
Aimed(a) == a \in Aim /\ Listed(a.slots) = a.members /\ Cardinality(a.members) >= 2

Order(M) == SetToSeq(M)
First(M, k) == {Order(M)[i] : i \in 1..k}
Placing(a, n) == [swarm |-> a.swarm, node |-> n, slot |-> a.slots[n]]

\* The slots of the members in K.
Chosen(slots, K) == [n \in Node |-> IF n \in K THEN slots[n] ELSE NoSlot]

\* A vehicle has been told of a, and its list holds exactly the slots of K.
Collected(f, a, K) ==
  /\ f.swarm = a.swarm
  /\ IF f.updating
     THEN /\ K # a.members /\ f.pending = Chosen(a.slots, K)
          /\ f.pendingExpected = Cardinality(a.members) /\ f.pendingLeader = a.leader
     ELSE /\ f.nodes = Chosen(a.slots, K)
          /\ f.expected = Cardinality(a.members) /\ f.leader = a.leader

\* A vehicle flies a formation in which it has a slot itself.
Whole(f, v) == f.swarm \in Swarm /\ ~f.updating /\ Flying(f) /\ f.nodes[v] # NoSlot

\* What the page can tell of a formation.
Same(f, g) == f.swarm = g.swarm /\ f.nodes = g.nodes /\ f.leader = g.leader
Shows(c, f) == c.members = Listed(f.nodes) /\ c.slots = f.nodes /\ c.leader = f.leader

\* The messages that are left: all of them, or the slots from the k-th on.
Places(todo, a, k) ==
  /\ Len(todo) + k = Cardinality(a.members)
  /\ \A i \in 1..Len(todo) :
       todo[i] = [kind |-> "node", message |-> Placing(a, Order(a.members)[i + k])]
Announces(todo, a) ==
  /\ todo # <<>> /\ Head(todo) = management("create", a.swarm, a.leader, a.members)
  /\ Places(Tail(todo), a, 0)
\* Vehicles that fly and are not concerned by the script that runs.
Resting == {v \in Node : craft[v].mode # "Other" /\ v \notin script.members}

\* The formation the script that runs is about.
TheAim == [swarm |-> script.swarm, leader |-> card[script.swarm].leader,
           slots |-> script.slots, members |-> script.members]

\* On another mode nothing is left of a formation, and the external one needs a node.
Grounded ==
  \A v \in Node : /\ craft[v].mode = "Other" => craft[v].formation = NewFormation
                  /\ craft[v].mode = "external" => v \in WithNode

\* Who rests flies a whole formation, that all its members and all who know of it fly,
\* and that has nobody and no name in common with the script.
InFormation ==
  \A v \in Resting :
    /\ Whole(craft[v].formation, v)
    /\ craft[v].formation.swarm # script.swarm
    /\ Listed(craft[v].formation.nodes) \cap script.members = {}
    /\ \A w \in Resting :
         \/ craft[w].formation.swarm = craft[v].formation.swarm
         \/ craft[v].formation.nodes[w] # NoSlot
         => Same(craft[w].formation, craft[v].formation)

\* The card of a swarm that rests, if there is one, shows what is flown; and there is
\* one if any card names a member.
OnCard ==
  \A v \in Resting :
    /\ card[craft[v].formation.swarm] # NoCard =>
         Shows(card[craft[v].formation.swarm], craft[v].formation)
    /\ \A id \in Swarm : v \in card[id].members => card[craft[v].formation.swarm] # NoCard

\* The script that runs is about the members on its card. Either its announcement is
\* still to come, or those in the air have collected the slots that were sent.
ScriptGoesOn ==
  script # NoScript =>
    /\ card[script.swarm].members = script.members /\ Aimed(TheAim)
    /\ script.type = "create" => card[script.swarm].slots = script.slots
    /\ \/ /\ Announces(script.todo, TheAim)
          /\ \A v \in script.members : craft[v].formation.swarm # script.swarm
       \/ \E k \in Nat :
            /\ Places(script.todo, TheAim, k)
            /\ \A v \in script.members : craft[v].mode # "Other" =>
                 Collected(craft[v].formation, TheAim, First(script.members, k))

\* An answer says what a resting vehicle flies.
AnswersTrue ==
  \A r \in answers : /\ r.from \in Resting /\ r.swarm = craft[r.from].formation.swarm
                     /\ r.nodes = craft[r.from].formation.nodes
                     /\ r.leader = craft[r.from].formation.leader

\* A swarm without a card will get one: a member is going to be asked, or has answered.
WillBeKnown ==
  \A v \in Resting \ excused : card[craft[v].formation.swarm] = NoCard =>
    \/ v \notin known \/ v \in requests
    \/ craft[v].mode = "external" /\ v \notin companions
    \/ \E r \in answers : r.from = v

Agreed == InFormation /\ OnCard /\ ScriptGoesOn /\ AnswersTrue /\ WillBeKnown

\* The inductive invariant.
AgreeInv == CInv /\ Grounded /\ (clean => earlier = {} /\ Agreed)
-----------------------------------------------------------------------------
(***************************************************************************)
(* What a member collects.                                                   *)
(***************************************************************************)
\* The members have an order without gaps or repetitions.
LEMMA OrderFacts ==
  ASSUME NEW M \in SUBSET Node
  PROVE  /\ Cardinality(M) \in 0..255
         /\ Order(M) \in Seq(M) /\ Len(Order(M)) = Cardinality(M)
         /\ \A i \in 1..Cardinality(M) : Order(M)[i] \in M
         /\ \A n \in M : \E i \in 1..Cardinality(M) : n = Order(M)[i]
<1>1. IsFiniteSet(M) /\ Cardinality(M) \in Nat
  BY NodeAssumption, FS_Subset, FS_CardinalityType
<1>2. PICK f \in Bijection(1..Cardinality(M), M) : TRUE
  BY <1>1, FS_CardinalityType DEF ExistsBijection
<1>3. f \in [1..Cardinality(M) -> M] /\ IsInjective(f)
  BY <1>2 DEF Bijection, Injection, IsInjective
<1>4. Order(M) \in [1..Cardinality(M) -> M] /\ IsInjective(Order(M))
  BY <1>3 DEF SetToSeq, Order
<1>5. PICK g, n : g = Order(M) /\ n = Cardinality(M)
  OBVIOUS
<1>6. g \in [1..n -> M] /\ n \in Nat /\ IsInjective(g)
  BY <1>1, <1>4, <1>5
<1>7. g \in Seq(M) /\ Len(g) = n /\ \A i \in 1..n : g[i] \in M
  BY <1>6
<1>8. IsFiniteSet(1..n) /\ Cardinality(1..n) = n
  <2>1. 1 \in Int /\ n \in Int /\ (n # 0 => ~(1 > n) /\ n - 1 + 1 = n) /\ (n = 0 => 1 > n)
    BY <1>6
  <2>2. IsFiniteSet(1..n) /\ Cardinality(1..n) = IF 1 > n THEN 0 ELSE n - 1 + 1
    BY <2>1, FS_Interval
  <2> QED
    BY <2>1, <2>2
<1>9. \A m \in M : \E i \in 1..n : m = g[i]
  <2>1. g \in Injection(1..n, M)
    BY <1>6 DEF Injection, IsInjective
  <2>2. g \in Surjection(1..n, M)
    BY <1>1, <1>5, <1>8, <2>1, FS_Injection
  <2> QED
    BY <2>2 DEF Surjection
<1>10. n \in 0..255
  <2>1. PICK most : most = Cardinality(Node)
    OBVIOUS
  <2>2. n \in 0..most /\ most \in 1..255
    BY <1>5, <2>1, OrderType, NodeAssumption
  <2> QED
    BY <2>2
<1> QED
  BY <1>5, <1>7, <1>9, <1>10

\* The first k members are one more with the next.
LEMMA FirstMembers ==
  ASSUME NEW M \in SUBSET Node
  PROVE  /\ First(M, 0) = {} /\ First(M, Cardinality(M)) = M
         /\ \A k \in 0..Cardinality(M) : First(M, k) \in SUBSET M
         /\ \A k \in Nat : k < Cardinality(M) =>
              Order(M)[k + 1] \in M /\ First(M, k + 1) = First(M, k) \cup {Order(M)[k + 1]}
<1>0. PICK n, g : n = Cardinality(M) /\ g = Order(M)
  OBVIOUS
<1>1. /\ n \in 0..255 /\ \A i \in 1..n : g[i] \in M
      /\ \A m \in M : \E i \in 1..n : m = g[i]
  BY <1>0, OrderFacts
<1>2. \A k : First(M, k) = {g[i] : i \in 1..k}
  BY <1>0 DEF First
<1>3. First(M, 0) = {} /\ First(M, n) = M
  <2>1. 1..0 = {}
    OBVIOUS
  <2>2. First(M, 0) = {}
    BY <1>2, <2>1
  <2>3. {g[i] : i \in 1..n} = M
    BY <1>1
  <2> QED
    BY <1>2, <2>2, <2>3
<1>4. ASSUME NEW k \in 0..n PROVE First(M, k) \in SUBSET M
  <2>1. \A i \in 1..k : i \in 1..n
    BY <1>1
  <2> QED
    BY <1>1, <1>2, <2>1
<1>5. ASSUME NEW k \in Nat, k < n
      PROVE  g[k + 1] \in M /\ First(M, k + 1) = First(M, k) \cup {g[k + 1]}
  <2>1. \A i : i \in 1..(k + 1) <=> i \in 1..k \/ i = k + 1
    BY <1>1
  <2>2. k + 1 \in 1..n
    BY <1>1, <1>5
  <2> QED
    BY <1>1, <1>2, <2>1, <2>2
<1> QED
  BY <1>0, <1>3, <1>4, <1>5

\* A list is complete when every member is chosen; a slot adds its vehicle.
LEMMA ChosenFacts ==
  ASSUME NEW a, Aimed(a), NEW K \in SUBSET a.members
  PROVE  /\ Chosen(a.slots, {}) = EmptyList /\ Chosen(a.slots, a.members) = a.slots
         /\ Size(Chosen(a.slots, K)) = Cardinality(a.members) <=> K = a.members
         /\ \A n \in a.members :
              /\ upsertNode(Chosen(a.slots, K), n, a.slots[n]) = Chosen(a.slots, K \cup {n})
              /\ Chosen(a.slots, K)[n] # NoSlot => K \cup {n} = K
<1> DEFINE slots == a.slots
           M == a.members
<1>1. slots \in List /\ M \in SUBSET Node /\ M = Listed(slots)
  BY DEF Aimed, Aim
<1> HIDE DEF slots, M
<1>2. \A n \in Node : slots[n] # NoSlot <=> n \in M
  BY <1>1 DEF Listed
<1>3. Chosen(slots, {}) = EmptyList
  BY DEF Chosen, EmptyList
<1>4. Chosen(slots, M) = slots
  BY <1>1, <1>2 DEF Chosen, List
<1>5. K \in SUBSET M
  BY DEF M
<1>6. Listed(Chosen(slots, K)) = K
  BY <1>1, <1>2, <1>5 DEF Listed, Chosen
<1>7. Size(Chosen(slots, K)) = Cardinality(M) <=> K = M
  <2>1. IsFiniteSet(M)
    BY <1>1, NodeAssumption, FS_Subset
  <2>2. Cardinality(K) = Cardinality(M) => K = M
    BY <1>5, <2>1, FS_Subset
  <2> QED
    BY <1>6, <2>2 DEF Size
<1>8. ASSUME NEW n \in M
      PROVE  /\ upsertNode(Chosen(slots, K), n, slots[n]) = Chosen(slots, K \cup {n})
             /\ Chosen(slots, K)[n] # NoSlot => K \cup {n} = K
  BY <1>1 DEF Chosen, upsertNode
<1> QED
  BY <1>3, <1>4, <1>7, <1>8 DEF slots, M

\* The announcement of a swarm v is not in, or a change of formation, starts an empty list.
LEMMA CollectedStarts ==
  ASSUME NEW f \in Formation, NEW m \in Management, NEW a, Aimed(a),
         m.swarm = a.swarm, m.count = Cardinality(a.members), m.leader = a.leader,
         m.type = "create" => f.swarm # a.swarm
  PROVE  Collected(onManagement(f, m), a, {})
<1> DEFINE g == onManagement(f, m)
<1>1. Chosen(a.slots, {}) = EmptyList /\ {} # a.members /\ a.swarm \in Swarm
  <2>1. PICK M : M = a.members
    OBVIOUS
  <2>2. Cardinality(M) >= 2
    BY <2>1 DEF Aimed
  <2>3. M # {}
    BY <2>2, FS_EmptySet
  <2>4. {} \in SUBSET a.members
    OBVIOUS
  <2> QED
    BY <2>1, <2>3, <2>4, ChosenFacts DEF Aimed, Aim
<1>2. m.swarm \in Swarm /\ m.type \in {"create", "update"}
  BY DEF Management
<1>3. CASE StartsUpdate(f, m)
  <2>1. /\ g.swarm = f.swarm /\ g.updating = TRUE /\ g.pending = EmptyList
        /\ g.pendingExpected = m.count /\ g.pendingLeader = m.leader /\ f.swarm = m.swarm
    BY <1>3, ManagementFields DEF StartsUpdate
  <2> HIDE DEF g
  <2> QED
    BY <1>1, <2>1 DEF Collected, g
<1>4. CASE ~StartsUpdate(f, m)
  <2>1. /\ g.swarm = m.swarm /\ g.expected = m.count /\ g.leader = m.leader
        /\ g.nodes = (IF f.swarm = m.swarm THEN f.nodes ELSE EmptyList)
        /\ g.updating = FALSE
    BY <1>4, ManagementFields
  <2>2. f.swarm # m.swarm
    BY <1>2, <1>4, SwarmAssumption DEF StartsUpdate
  <2> HIDE DEF g
  <2> QED
    BY <1>1, <2>1, <2>2 DEF Collected, g
<1> QED
  BY <1>3, <1>4

\* A slot of the aim is added to what was collected.
LEMMA CollectedGoesOn ==
  ASSUME NEW own \in Node, NEW f, Sound(f, own), NEW a, Aimed(a), NEW K \in SUBSET a.members,
         Collected(f, a, K), NEW n \in a.members
  PROVE  Collected(onNode(f, Placing(a, n), own), a, K \cup {n})
<1> DEFINE m == Placing(a, n)
           g == onNode(f, m, own)
           new == Chosen(a.slots, K \cup {n})
           total == Cardinality(a.members)
<1>1. K \cup {n} \in SUBSET a.members
  OBVIOUS
<1>2. /\ upsertNode(Chosen(a.slots, K), m.node, m.slot) = new
      /\ Chosen(a.slots, K)[m.node] # NoSlot => new = Chosen(a.slots, K)
      /\ m.swarm = a.swarm
  <2>1. m.node = n /\ m.slot = a.slots[n] /\ m.swarm = a.swarm
    BY DEF Placing
  <2>2. /\ upsertNode(Chosen(a.slots, K), n, a.slots[n]) = new
        /\ Chosen(a.slots, K)[n] # NoSlot => K \cup {n} = K
    <3>1. \A i \in a.members :
            /\ upsertNode(Chosen(a.slots, K), i, a.slots[i]) = Chosen(a.slots, K \cup {i})
            /\ Chosen(a.slots, K)[i] # NoSlot => K \cup {i} = K
      BY ChosenFacts
    <3> QED
      BY <3>1
  <2> HIDE DEF m
  <2> QED
    BY <2>1, <2>2
<1>3. Size(new) = total <=> K \cup {n} = a.members
  BY <1>1, ChosenFacts
<1>4. f \in Formation /\ m \in NodeMessage
  BY DEF Sound, Placing, Aimed, Aim, List, Listed, NodeMessage
<1> HIDE DEF m, total
<1>5. CASE f.updating
  <2>1. f.pending = Chosen(a.slots, K) /\ f.pendingExpected = total /\ f.pendingLeader = a.leader
        /\ f.swarm = a.swarm
    BY <1>5 DEF Collected, total
  <2>2. g = collectPending(f, m, own)
    BY <1>2, <1>5, <2>1 DEF onNode
  <2> HIDE DEF g
  <2> DEFINE up == upsertNode(f.pending, m.node, m.slot)
  <2>3. up = new
    BY <1>2, <2>1
  <2>4. /\ g.swarm = f.swarm
        /\ Size(up) = f.pendingExpected =>
             /\ g.expected = f.pendingExpected /\ g.leader = f.pendingLeader
             /\ g.nodes = up /\ g.updating = FALSE
        /\ Size(up) # f.pendingExpected =>
             /\ g.updating = f.updating /\ g.pending = up
             /\ g.pendingExpected = f.pendingExpected /\ g.pendingLeader = f.pendingLeader
    BY <1>4, <2>2, CollectPendingFields
  <2> HIDE DEF new, up
  <2>5. CASE K \cup {n} = a.members
    <3>1. g.swarm = a.swarm /\ g.expected = total /\ g.leader = a.leader /\ g.nodes = new /\ ~g.updating
      BY <1>3, <2>1, <2>3, <2>4, <2>5
    <3> QED
      BY <3>1 DEF Collected, new, g, m, total
  <2>6. CASE K \cup {n} # a.members
    <3>1. /\ g.swarm = a.swarm /\ g.updating /\ g.pending = new
          /\ g.pendingExpected = total /\ g.pendingLeader = a.leader
      BY <1>3, <1>5, <2>1, <2>3, <2>4, <2>6
    <3> QED
      BY <2>6, <3>1 DEF Collected, new, g, m, total
  <2> QED
    BY <2>5, <2>6
<1>6. CASE ~f.updating
  <2>1. f.nodes = Chosen(a.slots, K) /\ f.expected = total /\ f.leader = a.leader /\ f.swarm = a.swarm
    BY <1>6 DEF Collected, total
  <2>2. g = collectNode(f, m, own)
    BY <1>6 DEF onNode
  <2> HIDE DEF g
  <2>3. /\ g.swarm = f.swarm /\ g.expected = f.expected /\ g.leader = f.leader
        /\ g.nodes = (IF f.nodes[m.node] = NoSlot THEN upsertNode(f.nodes, m.node, m.slot)
                                                  ELSE f.nodes)
        /\ g.updating = f.updating
    BY <1>4, <2>2, CollectNodeFields
  <2> HIDE DEF new
  <2>4. g.nodes = new
    BY <1>2, <2>1, <2>3
  <2>5. Collected(g, a, K \cup {n})
    BY <1>6, <2>1, <2>3, <2>4 DEF Collected, new, total
  <2> QED
    BY <2>5 DEF g, m
<1> QED
  BY <1>5, <1>6

\* Who has collected the slots of all members flies the aim.
LEMMA CollectedIsWhole ==
  ASSUME NEW v \in Node, NEW f, Sound(f, v), NEW a, Aimed(a), v \in a.members,
         Collected(f, a, a.members)
  PROVE  Whole(f, v) /\ f.swarm = a.swarm /\ f.nodes = a.slots /\ f.leader = a.leader
<1>1. ~f.updating
  BY DEF Collected
<1>2. /\ f.swarm = a.swarm /\ f.nodes = Chosen(a.slots, a.members)
      /\ f.expected = Cardinality(a.members) /\ f.leader = a.leader
  BY <1>1 DEF Collected
<1>3. f.nodes = a.slots
  BY <1>2, ChosenFacts
<1>4. f.count = Cardinality(a.members)
  BY <1>3 DEF Sound, CountsNodes, Size, Aimed
<1>5. PICK n : n = Cardinality(a.members)
  OBVIOUS
<1>6. n > 1
  <2>1. n >= 2 /\ n \in 0..255
    BY <1>5, OrderFacts DEF Aimed, Aim
  <2> QED
    BY <2>1
<1>7. Flying(f)
  BY <1>2, <1>4, <1>5, <1>6 DEF Flying, Complete
<1>8. a.slots[v] # NoSlot /\ a.swarm \in Swarm
  BY DEF Aimed, Aim, Listed
<1> QED
  BY <1>1, <1>2, <1>3, <1>7, <1>8 DEF Whole

\* The slots of an aim are sent in the order of its members.
LEMMA SlotsSent ==
  ASSUME NEW a, Aimed(a)
  PROVE  /\ swarm_nodes(a.swarm, a.members, a.slots) \in Seq(Packet)
         /\ Places(swarm_nodes(a.swarm, a.members, a.slots), a, 0)
<1>1. /\ a.swarm \in Swarm /\ a.members \in SUBSET Node
      /\ \A n \in a.members : a.slots[n] \in Slot
  BY DEF Aimed, Aim, List, Listed
<1>2. swarm_nodes(a.swarm, a.members, a.slots) \in Seq(Packet)
  BY <1>1, NodesType
<1>3. PICK g, total : g = Order(a.members) /\ total = Cardinality(a.members)
  OBVIOUS
<1>4. Len(g) = total /\ total \in 0..255
  BY <1>1, <1>3, OrderFacts
<1> DEFINE todo == [i \in 1..Len(g) |-> [kind |-> "node", message |-> Placing(a, g[i])]]
<1>5. swarm_nodes(a.swarm, a.members, a.slots) = todo
  BY <1>3 DEF swarm_nodes, Order, Placing
<1>6. Len(todo) = total /\ \A i \in 1..total : todo[i] = [kind |-> "node", message |-> Placing(a, g[i])]
  BY <1>4
<1> HIDE DEF todo
<1>7. Places(todo, a, 0)
  <2>1. Len(todo) + 0 = total /\ \A i \in 1..Len(todo) : i + 0 = i
    BY <1>4, <1>6
  <2> QED
    BY <1>3, <1>6, <2>1 DEF Places
<1> QED
  BY <1>2, <1>5, <1>7

\* The announcement comes before the slots.
LEMMA AnnouncementFirst ==
  ASSUME NEW p \in Packet, NEW rest \in Seq(Packet)
  PROVE  /\ <<p>> \o rest \in Seq(Packet) /\ <<p>> \o rest # <<>>
         /\ Head(<<p>> \o rest) = p /\ Tail(<<p>> \o rest) = rest
         /\ \A i \in 1..Len(<<p>> \o rest) :
              \/ i = 1 /\ (<<p>> \o rest)[i] = p
              \/ \E j \in 1..Len(rest) : (<<p>> \o rest)[i] = rest[j]
<1> DEFINE all == <<p>> \o rest
<1>1. all \in Seq(Packet) /\ Len(all) = 1 + Len(rest) /\ Len(rest) \in Nat
  BY ConcatProperties
<1>2. all[1] = p /\ \A i \in 1..Len(all) : i > 1 => all[i] = rest[i - 1]
  BY ConcatProperties
<1> HIDE DEF all
<1>3. all # <<>> /\ Head(all) = p
  BY <1>1, <1>2
<1>4. \A i \in 1..Len(all) : i = 1 \/ (i > 1 /\ i - 1 \in 1..Len(rest))
  BY <1>1
<1>5. \A i \in 1..Len(all) : (i = 1 /\ all[i] = p) \/ \E j \in 1..Len(rest) : all[i] = rest[j]
  BY <1>2, <1>4
<1>6. Tail(all) = rest
  <2>1. Tail(all) \in Seq(Packet) /\ Len(Tail(all)) = Len(rest)
    BY <1>1, <1>3
  <2>2. \A i \in 1..Len(rest) : /\ Tail(all)[i] = all[i + 1] /\ i + 1 \in 1..Len(all)
                                /\ i + 1 > 1 /\ i + 1 - 1 = i
    BY <1>1, <1>3, <2>1
  <2>3. \A i \in 1..Len(rest) : Tail(all)[i] = rest[i]
    BY <1>2, <2>2
  <2> QED
    BY <2>1, <2>3
<1> QED
  BY <1>1, <1>3, <1>5, <1>6 DEF all
-----------------------------------------------------------------------------
(***************************************************************************)
(* What one vehicle makes of a message.                                      *)
(***************************************************************************)
\* A message changes a vehicle it reaches, and nothing but that.
LEMMA SendEffect ==
  ASSUME NEW p, NEW M \in SUBSET Node, NEW lost, send(p, M, lost), NEW v \in Node
  PROVE  /\ craft'[v] \in {craft[v], told(v, craft[v], p)}
         /\ v \notin M => craft'[v] = craft[v]
         /\ linkUp /\ lost = {} /\ v \in M => craft'[v] = told(v, craft[v], p)
         /\ published'[v] \in {published[v], NewFormation}
BY DEF send

\* A mode is left with its formation, and the external one is that of a node.
LEMMA ToldGrounded ==
  ASSUME NEW v \in Node, NEW c \in [mode : Mode, formation : Formation], NEW p \in Packet,
         c.mode = "Other" => c.formation = NewFormation,
         c.mode = "external" => v \in WithNode, registered \subseteq WithNode
  PROVE  /\ told(v, c, p).mode = "Other" => told(v, c, p).formation = NewFormation
         /\ told(v, c, p).mode = "external" => v \in WithNode
<1>1. CASE p.kind = "mode"
  <2>1. told(v, c, p) = entered(v, c, p.message)
    BY <1>1 DEF told
  <2> QED
    BY <2>1 DEF entered, In
<1>2. ASSUME NEW g, c.mode # "Other" 
      PROVE  [c EXCEPT !.formation = g].mode = c.mode
  OBVIOUS
<1>3. CASE p.kind = "management"
  <2>1. told(v, c, p) = configured(v, c, p.message)
    BY <1>3 DEF told
  <2>2. PICK g : g = onManagement(c.formation, p.message)
    OBVIOUS
  <2>3. \/ told(v, c, p) \in {c, In("Other")}
        \/ c.mode # "Other" /\ told(v, c, p) = [c EXCEPT !.formation = g]
    BY <2>1, <2>2 DEF configured
  <2> QED
    BY <1>2, <2>3 DEF In
<1>4. CASE p.kind = "node"
  <2>1. told(v, c, p) = placed(v, c, p.message)
    BY <1>4 DEF told
  <2>2. PICK g : g = onNode(c.formation, p.message, v)
    OBVIOUS
  <2>3. told(v, c, p) = c \/ (c.mode # "Other" /\ told(v, c, p) = [c EXCEPT !.formation = g])
    BY <2>1, <2>2 DEF placed
  <2> QED
    BY <1>2, <2>3
<1> QED
  BY <1>1, <1>3, <1>4 DEF Packet

\* Who hears the announcement of an aim and does not leave the mode starts to collect.
LEMMA ToldAnnouncement ==
  ASSUME NEW v \in Node, NEW c \in [mode : Mode, formation : Formation],
         NEW a, Aimed(a), NEW type \in {"create", "update"},
         type = "create" => c.formation.swarm # a.swarm,
         told(v, c, management(type, a.swarm, a.leader, a.members)).mode # "Other"
  PROVE  Collected(told(v, c, management(type, a.swarm, a.leader, a.members)).formation, a, {})
<1>1. PICK p, m, f, g : /\ p = management(type, a.swarm, a.leader, a.members) /\ m = p.message
                        /\ f = c.formation /\ g = onManagement(f, m)
  OBVIOUS
<1>2. p \in Packet
  BY <1>1, ManagementType DEF Aimed, Aim
<1>3. p.kind = "management" /\ m = [type |-> type, swarm |-> a.swarm, leader |-> a.leader,
                                    count |-> Cardinality(a.members)]
  BY <1>1 DEF management
<1>4. m \in Management
  BY <1>1, <1>2, <1>3 DEF Packet
<1>5. told(v, c, p) = configured(v, c, m)
  BY <1>1, <1>3 DEF told
<1>6. configured(v, c, m).mode # "Other" => configured(v, c, m) = [c EXCEPT !.formation = g]
  BY <1>1 DEF configured, In
<1>7. [c EXCEPT !.formation = g].formation = g
  OBVIOUS
<1>8. f \in Formation /\ (m.type = "create" => f.swarm # a.swarm)
  BY <1>1, <1>3
<1>9. m.swarm = a.swarm /\ m.count = Cardinality(a.members) /\ m.leader = a.leader
  BY <1>3
<1>10. Collected(g, a, {})
  BY <1>1, <1>4, <1>8, <1>9, CollectedStarts
<1>11. told(v, c, p).formation = g
  BY <1>1, <1>5, <1>6, <1>7
<1> QED
  BY <1>1, <1>10, <1>11

\* Who hears a slot of the aim has collected it.
LEMMA ToldSlot ==
  ASSUME NEW v \in Node, NEW c \in [mode : Mode, formation : Formation], Sound(c.formation, v),
         NEW a, Aimed(a), NEW K \in SUBSET a.members, NEW n \in a.members,
         c.mode # "Other" => Collected(c.formation, a, K),
         told(v, c, [kind |-> "node", message |-> Placing(a, n)]).mode # "Other"
  PROVE  Collected(told(v, c, [kind |-> "node", message |-> Placing(a, n)]).formation, a, K \cup {n})
<1>1. PICK p, f, g, m : /\ p = [kind |-> "node", message |-> m] /\ m = Placing(a, n)
                        /\ f = c.formation /\ g = onNode(f, m, v)
  OBVIOUS
<1>2. told(v, c, p) = placed(v, c, m)
  BY <1>1 DEF told
<1>3. told(v, c, p) = [c EXCEPT !.formation = g] /\ c.mode # "Other"
  BY <1>1, <1>2 DEF placed
<1>4. told(v, c, p).formation = g
  BY <1>3
<1>5. Collected(g, a, K \cup {n})
  BY <1>1, <1>3, CollectedGoesOn
<1> QED
  BY <1>1, <1>4, <1>5

-----------------------------------------------------------------------------
(***************************************************************************)
(* Modes and formations.                                                     *)
(***************************************************************************)
\* A message of a script leaves nothing of a formation in another mode.
LEMMA SendGrounded ==
  ASSUME InTheAir, Grounded, NEW p \in Packet, NEW M \in SUBSET Node, NEW lost, send(p, M, lost)
  PROVE  Grounded'
<1>1. /\ craft \in [Node -> [mode : Mode, formation : Formation]] /\ registered \subseteq WithNode
      /\ \A v \in Node : /\ craft[v].mode = "Other" => craft[v].formation = NewFormation
                         /\ craft[v].mode = "external" => v \in WithNode
  BY DEF InTheAir, Grounded
<1>2. ASSUME NEW v \in Node
      PROVE  /\ craft'[v].mode = "Other" => craft'[v].formation = NewFormation
             /\ craft'[v].mode = "external" => v \in WithNode
  <2>1. craft'[v] \in {craft[v], told(v, craft[v], p)}
    BY SendEffect
  <2>2. PICK c : c = craft[v]
    OBVIOUS
  <2>3. /\ c \in [mode : Mode, formation : Formation]
        /\ c.mode = "Other" => c.formation = NewFormation
        /\ c.mode = "external" => v \in WithNode
    BY <1>1, <2>2
  <2>4. /\ told(v, c, p).mode = "Other" => told(v, c, p).formation = NewFormation
        /\ told(v, c, p).mode = "external" => v \in WithNode
    BY <1>1, <2>3, ToldGrounded
  <2> QED
    BY <2>1, <2>2, <2>3, <2>4
<1> QED
  BY <1>2 DEF Grounded

\* The slots of a script are told as such.
LEMMA SlotsAreNodes ==
  ASSUME NEW id, NEW M, NEW slots, NEW i \in 1..Len(swarm_nodes(id, M, slots)),
         swarm_nodes(id, M, slots) \in Seq(Packet)
  PROVE  swarm_nodes(id, M, slots)[i].kind = "node"
<1>1. PICK g : g = SetToSeq(M)
  OBVIOUS
<1> DEFINE todo == [j \in 1..Len(g) |-> [kind |-> "node",
                     message |-> [swarm |-> id, node |-> g[j], slot |-> slots[g[j]]]]]
<1>2. swarm_nodes(id, M, slots) = todo
  BY <1>1 DEF swarm_nodes
<1>3. DOMAIN todo = 1..Len(todo)
  BY <1>2
<1>4. i \in DOMAIN todo
  BY <1>2, <1>3
<1>5. todo[i].kind = "node"
  BY <1>4
<1> QED
  BY <1>2, <1>5

\* Every step keeps modes and formations together.
LEMMA GroundedStep ==
  ASSUME CInv, Grounded, [Next]_vars
  PROVE  Grounded'
<1>0. InTheAir /\ OnThePage
  BY DEF CInv
<1>1. CASE craft' = craft
  BY <1>1 DEF Grounded
<1>2. ASSUME NEW lost \in Losses, NEW d \in Deployments, deploySwarm(d, lost)
      PROVE  Grounded'
  <2>1. send(SetMode(d.mode), d.members, lost)
    BY <1>2 DEF deploySwarm
  <2>2. d.members \in SUBSET Node /\ SetMode(d.mode) \in Packet
    BY CardsAssumption DEF SetMode, Packet, Mode
  <2> QED
    BY <1>0, <2>1, <2>2, SendGrounded
<1>3. ASSUME NEW lost \in Losses, NEW id \in Swarm, NEW slots \in Formations,
             updateFormation(id, slots, lost)
      PROVE  Grounded'
  <2>1. PICK M, leader : M = card[id].members /\ leader = card[id].leader
    OBVIOUS
  <2>2. send(management("update", id, leader, M), M, lost) /\ Cardinality(M) >= 2
    BY <1>3, <2>1 DEF updateFormation
  <2>3. M \in SUBSET Node /\ (M # {} => leader \in Node)
    BY <1>0, <2>1 DEF OnThePage, CardOK, Card
  <2>4. M # {}
    BY <2>2, FS_EmptySet
  <2>5. management("update", id, leader, M) \in Packet
    BY <2>2, <2>3, <2>4, ManagementType
  <2> QED
    BY <1>0, <2>2, <2>3, <2>5, SendGrounded
<1>4. ASSUME NEW lost \in Losses, NEW id \in Swarm, dissolveSwarm(id, lost)
      PROVE  Grounded'
  <2>1. send(SetMode("Other"), card[id].members, lost)
    BY <1>4 DEF dissolveSwarm
  <2>2. card[id].members \in SUBSET Node /\ SetMode("Other") \in Packet
    BY <1>0 DEF OnThePage, Card, SetMode, Packet, Mode
  <2> QED
    BY <1>0, <2>1, <2>2, SendGrounded
<1>5. ASSUME NEW s \in Running, NEW lost \in Losses, publish(s, lost)
      PROVE  Grounded'
  <2>1. PICK todo, M : todo = s.todo /\ M = s.members
    OBVIOUS
  <2>2. todo \in Seq(Packet) /\ todo # <<>> /\ M \in SUBSET Node /\ send(Head(todo), M, lost)
    BY <1>5, <2>1 DEF Running, publish
  <2>3. Head(todo) \in Packet
    BY <2>2
  <2> QED
    BY <1>0, <2>2, <2>3, SendGrounded
<1>6. ASSUME NEW lost \in Losses, publishNext(lost) \/ \E e \in earlier : publishEarlier(e, lost)
      PROVE  Grounded'
  <2>1. \A e \in earlier : e.script \in Running
    BY <1>0 DEF OnThePage, Begun
  <2>2. publish(script, lost) => script \in Running
    BY <1>0, NoScriptType DEF OnThePage, publish
  <2> QED
    BY <1>5, <1>6, <2>1, <2>2 DEF publishNext, publishEarlier
<1>7. CASE Operator
  BY <1>1, <1>2, <1>3, <1>4, <1>7
     DEF Operator, readFromVehicles, connect, reload, forget, switchTab, fleet
<1>8. CASE Timers
  BY <1>1, <1>6, <1>8 DEF Timers, finishScript, finishEarlier, merge, fleet
<1>9. CASE Restore \/ raiseLink \/ Fault \/ \E v \in Node : Telemetry(v)
  BY <1>1, <1>9 DEF Restore, restoreSwarm, raiseLink, Fault, dropLink, restartBridge, loseRequest,
     Telemetry, heartbeat, companionHeartbeat, publishStatus, answer, fleet
<1>10. CASE UNCHANGED vars
  BY <1>1, <1>10 DEF vars, fleet
<1> QED
  BY <1>7, <1>8, <1>9, <1>10 DEF Next
-----------------------------------------------------------------------------
(***************************************************************************)
(* Steps that send nothing.                                                  *)
(***************************************************************************)
\* What a step that touches neither vehicles nor cards nor the script leaves alone.
LEMMA SceneKept ==
  ASSUME UNCHANGED <<craft, card, script>>
  PROVE  /\ Resting' = Resting
         /\ InFormation => InFormation'
         /\ OnCard => OnCard'
         /\ ScriptGoesOn => ScriptGoesOn'
BY DEF Resting, InFormation, OnCard, ScriptGoesOn, TheAim

\* Asking again, discovering and losing requests: whoever is not on a card is still to be
\* asked, or excused.
LEMMA AskingAgreed ==
  ASSUME Agreed,
         \/ readFromVehicles \/ raiseLink \/ restartBridge \/ dropLink \/ connect \/ switchTab
         \/ \E v \in Node :
              heartbeat(v) \/ companionHeartbeat(v) \/ publishStatus(v) \/ loseRequest(v)
  PROVE  Agreed'
<1>0. InFormation /\ OnCard /\ ScriptGoesOn /\ AnswersTrue /\ WillBeKnown
  BY DEF Agreed
<1>1. UNCHANGED <<craft, card, script>> /\ answers' \in {answers, {}}
  BY DEF readFromVehicles, raiseLink, restartBridge, dropLink, connect, switchTab, forget, heartbeat,
         companionHeartbeat, publishStatus, loseRequest, fleet, page, scripts, traffic, history
<1>2. Resting' = Resting /\ InFormation' /\ OnCard' /\ ScriptGoesOn'
  BY <1>0, <1>1, SceneKept
<1>3. AnswersTrue'
  BY <1>0, <1>1, <1>2 DEF AnswersTrue
<1>4. WillBeKnown'
  <2>1. CASE readFromVehicles
    <3>1. requests' = requests \cup known /\ known' = known
      BY <2>1 DEF readFromVehicles, page
    <3> QED
      BY <3>1 DEF WillBeKnown
  <2>2. CASE connect
    BY <2>2 DEF connect, forget, WillBeKnown
  <2>3. CASE dropLink
    <3>1. /\ answers' = {} /\ excused' = excused \cup {r.from : r \in answers}
          /\ UNCHANGED <<known, companions, requests>>
      BY <2>3 DEF dropLink
    <3> QED
      BY <1>0, <1>1, <1>2, <3>1 DEF WillBeKnown
  <2>4. CASE raiseLink \/ restartBridge \/ switchTab
    <3>1. UNCHANGED <<known, companions, requests, answers, excused>>
      BY <2>4 DEF raiseLink, restartBridge, switchTab, page, traffic, history
    <3> QED
      BY <1>0, <1>1, <1>2, <3>1 DEF WillBeKnown
  <2>5. ASSUME NEW v \in Node, heartbeat(v)
        PROVE  WillBeKnown'
    <3>1. /\ known' = known \cup {v} /\ requests' = requests \cup {v}
          /\ UNCHANGED <<companions, answers, excused>>
      BY <2>5 DEF heartbeat, history
    <3> QED
      BY <1>0, <1>1, <1>2, <3>1 DEF WillBeKnown
  <2>6. ASSUME NEW v \in Node, companionHeartbeat(v)
        PROVE  WillBeKnown'
    <3>1. /\ \/ companions' = companions \cup {v} /\ v \notin companions /\ requests' = requests \cup {v}
             \/ companions' = companions /\ requests' = requests
          /\ UNCHANGED <<known, answers, excused>>
      BY <2>6 DEF companionHeartbeat, history
    <3> QED
      BY <1>0, <1>1, <1>2, <3>1 DEF WillBeKnown
  <2>7. ASSUME NEW v \in Node, publishStatus(v)
        PROVE  WillBeKnown'
    <3>1. UNCHANGED <<known, companions, requests, answers, excused>>
      BY <2>7 DEF publishStatus, page, traffic, history
    <3> QED
      BY <1>0, <1>1, <1>2, <3>1 DEF WillBeKnown
  <2>8. ASSUME NEW v \in Node, loseRequest(v)
        PROVE  WillBeKnown'
    <3>1. /\ requests' = requests \ {v} /\ excused' = excused \cup {v}
          /\ UNCHANGED <<known, companions, answers>>
      BY <2>8 DEF loseRequest, page
    <3> QED
      BY <1>0, <1>1, <1>2, <3>1 DEF WillBeKnown
  <2> QED
    BY <2>1, <2>2, <2>3, <2>4, <2>5, <2>6, <2>7, <2>8
<1> QED
  BY <1>2, <1>3, <1>4 DEF Agreed

\* What a vehicle that rests reports is what the page can restore.
LEMMA RestingRestorable ==
  ASSUME InFormation, NEW v \in Resting, Reported(v) = craft[v].formation
  PROVE  Restorable(statusOf(v))
<1>1. PICK f : f = craft[v].formation
  OBVIOUS
<1>2. v \in Node /\ craft[v].mode # "Other" /\ f.swarm \in Swarm /\ f.nodes[v] # NoSlot
  BY <1>1 DEF Resting, InFormation, Whole
<1>3. /\ statusOf(v).mode = craft[v].mode /\ statusOf(v).swarm = f.swarm
      /\ statusOf(v).nodes = f.nodes
  BY <1>1 DEF statusOf
<1>4. v \in Listed(f.nodes)
  BY <1>2 DEF Listed
<1> QED
  BY <1>2, <1>3, <1>4, SwarmAssumption DEF Restorable

\* An answer from a vehicle that rests, and is not outdated, says what it flies; one that
\* does not come leaves a vehicle that is excused, or that the page will hear of again.
LEMMA AnswerAgreed ==
  ASSUME Agreed, NEW v \in Node, answer(v), clean'
  PROVE  Agreed'
<1>0. InFormation /\ OnCard /\ ScriptGoesOn /\ AnswersTrue /\ WillBeKnown
  BY DEF Agreed
<1> DEFINE asked == craft[v].mode # "external" \/ v \in registered
<1>1. /\ requests' = requests \ {v} /\ UNCHANGED <<craft, card, script, known, companions>>
      /\ LET comes == asked /\ linkUp /\ Restorable(statusOf(v)) IN
           /\ answers' = IF comes THEN answers \cup {statusOf(v)} ELSE answers
           /\ comes => ~Outdated(v) /\ v \notin script.members
      /\ excused' = IF (~linkUp /\ v \in known) \/ (~asked /\ v \in companions) \/ Outdated(v)
                    THEN excused \cup {v} ELSE excused
  BY DEF answer, fleet, page, scripts
<1>2. Resting' = Resting /\ InFormation' /\ OnCard' /\ ScriptGoesOn'
  BY <1>0, <1>1, SceneKept
<1>3. statusOf(v).from = v /\ statusOf(v).mode = craft[v].mode
  BY DEF statusOf
<1>4. ~Outdated(v) => /\ statusOf(v).swarm = craft[v].formation.swarm
                      /\ statusOf(v).nodes = craft[v].formation.nodes
                      /\ statusOf(v).leader = craft[v].formation.leader
                      /\ Reported(v) = craft[v].formation
  BY DEF Outdated, statusOf
<1>5. Restorable(statusOf(v)) => craft[v].mode # "Other"
  BY <1>3 DEF Restorable
<1>6. AnswersTrue'
  BY <1>0, <1>1, <1>2, <1>3, <1>4, <1>5 DEF AnswersTrue, Resting
<1>7. ASSUME NEW x \in Resting, x \notin excused', card[craft[x].formation.swarm] = NoCard
      PROVE  \/ x \notin known \/ x \in requests'
             \/ craft[x].mode = "external" /\ x \notin companions
             \/ \E r \in answers' : r.from = x
  <2>1. CASE x # v
    BY <1>0, <1>1, <1>7, <2>1 DEF WillBeKnown
  <2>2. CASE x = v /\ Restorable(statusOf(v))
    BY <1>1, <1>3, <1>7, <2>2
  <2>3. CASE x = v /\ ~Restorable(statusOf(v))
    <3>1. Outdated(v)
      BY <1>0, <1>4, <1>7, <2>3, RestingRestorable
    <3> QED
      BY <1>1, <1>7, <2>3, <3>1
  <2> QED
    BY <2>1, <2>2, <2>3
<1>8. WillBeKnown'
  BY <1>1, <1>2, <1>7 DEF WillBeKnown
<1> QED
  BY <1>2, <1>6, <1>8 DEF Agreed

\* A reload forgets all cards, and will hear of everybody.
LEMMA ReloadAgreed ==
  ASSUME Agreed, reload, clean'
  PROVE  Agreed'
<1>0. InFormation /\ OnCard /\ ScriptGoesOn /\ AnswersTrue /\ WillBeKnown
  BY DEF Agreed
<1>1. /\ script = NoScript /\ script' = NoScript /\ craft' = craft
      /\ card' = [id \in Swarm |-> NoCard] /\ known' = {} /\ answers' = {}
  BY DEF reload, forget, fleet, Alone
<1>2. Resting' = Resting
  BY <1>1 DEF Resting
<1>3. InFormation'
  BY <1>0, <1>1, <1>2 DEF InFormation
<1>4. OnCard'
  <2>1. \A id \in Swarm : card'[id] = NoCard /\ NoCard.members = {}
    BY <1>1 DEF NoCard
  <2>2. \A v \in Resting : craft[v].formation.swarm \in Swarm
    BY <1>0 DEF InFormation, Whole
  <2> QED
    BY <1>1, <1>2, <2>1, <2>2 DEF OnCard
<1>5. ScriptGoesOn' /\ AnswersTrue' /\ WillBeKnown'
  BY <1>1 DEF ScriptGoesOn, AnswersTrue, WillBeKnown
<1> QED
  BY <1>3, <1>4, <1>5 DEF Agreed

\* A card that is restored from a true answer shows what all its members fly.
LEMMA RestoreAgreed ==
  ASSUME CInv, Agreed, NEW r \in answers, restoreSwarm(r)
  PROVE  Agreed'
<1> DEFINE new == [leader |-> r.leader, members |-> Listed(r.nodes), slots |-> r.nodes,
                   mode |-> r.mode, restored |-> TRUE,
                   status |-> IF r.collecting THEN "deploying" ELSE "active"]
<1>0. InFormation /\ OnCard /\ ScriptGoesOn /\ AnswersTrue /\ WillBeKnown
  BY DEF Agreed
<1>1. /\ answers' = answers \ {r}
      /\ \/ card[r.swarm].status # "none" /\ card' = card
         \/ card' = [card EXCEPT ![r.swarm] = new]
      /\ UNCHANGED <<craft, known, companions, script, requests, excused>>
  BY DEF restoreSwarm, fleet, scripts, history
<1>2. /\ r.from \in Resting /\ r.swarm = craft[r.from].formation.swarm
      /\ r.nodes = craft[r.from].formation.nodes /\ r.leader = craft[r.from].formation.leader
  BY <1>0 DEF AnswersTrue
<1>3. r.swarm \in Swarm /\ r.swarm # script.swarm
  BY <1>0, <1>2 DEF InFormation, Whole
<1>4. Resting' = Resting
  BY <1>1 DEF Resting
<1>5. InFormation'
  BY <1>0, <1>1, <1>4 DEF InFormation
<1>6. card'[r.swarm] # NoCard
  <2>1. new.status # "none" /\ NoCard.status = "none"
    BY DEF NoCard
  <2> HIDE DEF new
  <2>2. card'[r.swarm] = new \/ (card'[r.swarm] = card[r.swarm] /\ card[r.swarm].status # "none")
    BY <1>1, <1>3 DEF CInv, OnThePage
  <2>3. card'[r.swarm].status # "none"
    BY <2>1, <2>2
  <2> QED
    BY <2>1, <2>3
<1>7. \A id \in Swarm : id # r.swarm => card'[id] = card[id]
  BY <1>1, <1>3 DEF CInv, OnThePage
<1>8. card'[r.swarm] = card[r.swarm] \/ card'[r.swarm] = new
  BY <1>1, <1>3 DEF CInv, OnThePage
<1>9. OnCard'
  <2>1. ASSUME NEW v \in Resting, card'[craft[v].formation.swarm] # NoCard
        PROVE  Shows(card'[craft[v].formation.swarm], craft[v].formation)
    <3>1. craft[v].formation.swarm \in Swarm
      BY <1>0 DEF InFormation, Whole
    <3>2. CASE card'[craft[v].formation.swarm] = card[craft[v].formation.swarm]
      BY <1>0, <2>1, <3>2 DEF OnCard
    <3>3. CASE craft[v].formation.swarm = r.swarm /\ card'[r.swarm] = new
      <4>1. Same(craft[v].formation, craft[r.from].formation)
        BY <1>0, <1>2, <3>3 DEF InFormation
      <4> QED
        BY <1>2, <3>3, <4>1 DEF Same, Shows
    <3> QED
      BY <1>7, <1>8, <3>1, <3>2, <3>3
  <2>2. ASSUME NEW v \in Resting, NEW id \in Swarm, v \in card'[id].members
        PROVE  card'[craft[v].formation.swarm] # NoCard
    <3>1. craft[v].formation.swarm \in Swarm
      BY <1>0 DEF InFormation, Whole
    <3>2. CASE v \in card[id].members
      BY <1>0, <1>6, <1>7, <3>1, <3>2 DEF OnCard
    <3>3. CASE id = r.swarm /\ card'[r.swarm] = new
      <4>1. v \in Listed(r.nodes)
        BY <2>2, <3>3
      <4>2. craft[r.from].formation.nodes[v] # NoSlot
        BY <1>2, <4>1 DEF Listed
      <4>3. Same(craft[v].formation, craft[r.from].formation)
        BY <1>0, <1>2, <4>2 DEF InFormation
      <4> QED
        BY <1>2, <1>6, <4>3 DEF Same
    <3> QED
      BY <1>7, <1>8, <2>2, <3>2, <3>3
  <2> QED
    BY <1>1, <1>4, <2>1, <2>2 DEF OnCard
<1>10. ScriptGoesOn'
  <2>1. script # NoScript => card'[script.swarm] = card[script.swarm]
    BY <1>3, <1>7 DEF CInv, OnThePage, Running
  <2>2. script # NoScript => TheAim' = TheAim
    BY <1>1, <2>1 DEF TheAim
  <2> QED
    BY <1>0, <1>1, <2>1, <2>2 DEF ScriptGoesOn
<1>11. AnswersTrue'
  BY <1>0, <1>1, <1>4 DEF AnswersTrue
<1>12. WillBeKnown'
  <2>1. ASSUME NEW v \in Resting, v \notin excused, card'[craft[v].formation.swarm] = NoCard
        PROVE  \/ v \notin known \/ v \in requests
               \/ craft[v].mode = "external" /\ v \notin companions
               \/ \E a \in answers' : a.from = v
    <3>1. craft[v].formation.swarm \in Swarm
      BY <1>0 DEF InFormation, Whole
    <3>2. craft[v].formation.swarm # r.swarm
      BY <1>6, <2>1
    <3>3. card[craft[v].formation.swarm] = NoCard
      BY <1>7, <2>1, <3>1, <3>2
    <3>4. \A a \in answers : a.from = v => a # r
      BY <1>2, <3>2
    <3> QED
      BY <1>0, <1>1, <2>1, <3>3, <3>4 DEF WillBeKnown
  <2> QED
    BY <1>1, <1>4, <2>1 DEF WillBeKnown
<1> QED
  BY <1>5, <1>9, <1>10, <1>11, <1>12 DEF Agreed

\* When a script ends that reached everybody, its members rest in the formation that the
\* card then shows.
LEMMA FinishAgreed ==
  ASSUME CInv, Agreed, finishScript, clean'
  PROVE  Agreed'
<1>0. InFormation /\ OnCard /\ ScriptGoesOn /\ WillBeKnown /\ InTheAir /\ OnThePage
  BY DEF Agreed, CInv
<1>1. /\ script # NoScript /\ script.todo = <<>> /\ script' = NoScript /\ answers = {}
      /\ merge(script)
      /\ UNCHANGED <<craft, known, companions, requests, answers, excused>>
  BY DEF finishScript, merge, fleet, traffic
<1>2. PICK id, M, slots, leader :
        id = script.swarm /\ M = script.members /\ slots = script.slots /\ leader = card[id].leader
  OBVIOUS
<1>3. PICK a : a = [swarm |-> id, leader |-> leader, slots |-> slots, members |-> M]
  OBVIOUS
<1>4. a.swarm = id /\ a.leader = leader /\ a.slots = slots /\ a.members = M
  BY <1>3
<1>5. a = TheAim
  BY <1>2, <1>3 DEF TheAim
<1>6. id \in Swarm /\ M \in SUBSET Node /\ script \in Running
  BY <1>0, <1>1, <1>2 DEF OnThePage, Running
<1>7. card[id].members = M /\ Aimed(a) /\ M = Listed(slots)
  BY <1>0, <1>1, <1>2, <1>4, <1>5 DEF ScriptGoesOn, Aimed
<1>8. \A v \in M : craft[v].mode # "Other" => Collected(craft[v].formation, a, M)
  <2>1. ~Announces(script.todo, a)
    BY <1>1 DEF Announces
  <2>2. PICK k \in Nat :
          /\ Places(script.todo, a, k)
          /\ \A v \in M : craft[v].mode # "Other" => Collected(craft[v].formation, a, First(M, k))
    BY <1>0, <1>1, <1>2, <1>5, <2>1 DEF ScriptGoesOn
  <2>3. Len(script.todo) = 0
    BY <1>1
  <2>4. k = Cardinality(M)
    BY <1>4, <2>2, <2>3 DEF Places
  <2>5. First(M, k) = M
    BY <1>6, <2>4, FirstMembers
  <2> QED
    BY <2>2, <2>5
<1>9. ASSUME NEW v \in M, craft[v].mode # "Other"
      PROVE  /\ Whole(craft[v].formation, v) /\ craft[v].formation.swarm = id
             /\ craft[v].formation.nodes = slots /\ craft[v].formation.leader = leader
  <2>1. v \in Node /\ Sound(craft[v].formation, v)
    BY <1>0, <1>6 DEF InTheAir
  <2> QED
    BY <1>4, <1>7, <1>8, <1>9, <2>1, CollectedIsWhole
<1>10. /\ \A i \in Swarm : i # id => card'[i] = card[i]
       /\ card'[id] = [card[id] EXCEPT !.status = "active",
                         !.slots = IF script.type = "update" THEN slots ELSE @]
       /\ \A i \in Swarm : card'[i].members = card[i].members /\ card'[i].leader = card[i].leader
  BY <1>0, <1>1, <1>2, <1>6, MergeEffect
<1>11. /\ card'[id].members = M /\ card'[id].slots = slots /\ card'[id].leader = leader
       /\ \A i \in Swarm : i # id => card'[i] = card[i]
       /\ \A i \in Swarm : card'[i].members = card[i].members
  <2>1. card[id] \in Card
    BY <1>0, <1>6 DEF OnThePage
  <2>2. PICK c : c = card[id]
    OBVIOUS
  <2>3. script.type = "update" \/ (script.type = "create" /\ c.slots = slots)
    BY <1>0, <1>1, <1>2, <1>6, <2>2 DEF ScriptGoesOn, Running
  <2>4. PICK e : e = [c EXCEPT !.status = "active",
                        !.slots = IF script.type = "update" THEN slots ELSE c.slots]
    OBVIOUS
  <2>5. e.slots = slots
    BY <2>1, <2>2, <2>3, <2>4 DEF Card
  <2>6. card'[id] = e
    BY <1>10, <2>1, <2>2, <2>4 DEF Card
  <2> QED
    BY <1>2, <1>6, <1>7, <1>10, <2>5, <2>6
<1>12. card'[id] # NoCard
  <2>1. M # {}
    BY <1>4, <1>7, FS_EmptySet DEF Aimed
  <2> QED
    BY <1>11, <2>1 DEF NoCard
<1>13. Resting' = {v \in Node : craft[v].mode # "Other"} /\ script'.swarm = NoSwarm /\ script'.members = {}
  BY <1>1 DEF Resting, NoScript
<1>14. \A v \in Resting' : v \in Resting \/ (v \in M /\ craft[v].mode # "Other")
  BY <1>2, <1>13 DEF Resting
<1>15. \A v \in Resting : /\ craft[v].formation.swarm # id
                          /\ \A n \in M : craft[v].formation.nodes[n] = NoSlot
  <2>1. ASSUME NEW v \in Resting
        PROVE  /\ craft[v].formation.swarm # id
               /\ Listed(craft[v].formation.nodes) \cap M = {}
    BY <1>0, <1>2 DEF InFormation
  <2> QED
    BY <1>6, <2>1 DEF Listed
<1>16. \A n \in Node : slots[n] # NoSlot => n \in M
  BY <1>7 DEF Listed
<1>17. InFormation'
  <2>1. ASSUME NEW v \in Resting'
        PROVE  /\ Whole(craft[v].formation, v) /\ craft[v].formation.swarm # NoSwarm
               /\ \A w \in Resting' :
                    \/ craft[w].formation.swarm = craft[v].formation.swarm
                    \/ craft[v].formation.nodes[w] # NoSlot
                    => Same(craft[w].formation, craft[v].formation)
    <3>1. Whole(craft[v].formation, v)
      BY <1>0, <1>9, <1>14 DEF InFormation
    <3>2. ASSUME NEW w \in Resting', \/ craft[w].formation.swarm = craft[v].formation.swarm
                                     \/ craft[v].formation.nodes[w] # NoSlot
          PROVE  Same(craft[w].formation, craft[v].formation)
      <4>1. CASE v \in Resting /\ w \in Resting
        BY <1>0, <3>2, <4>1 DEF InFormation
      <4>2. CASE v \in Resting /\ w \in M
        BY <1>9, <1>13, <1>15, <3>2, <4>2
      <4>3. CASE v \in M /\ w \in Resting
        <5>1. w \in Node /\ w \notin M
          BY <1>2, <4>3 DEF Resting
        <5> QED
          BY <1>9, <1>13, <1>15, <1>16, <3>2, <4>3, <5>1
      <4>4. CASE v \in M /\ w \in M
        BY <1>9, <1>13, <4>4 DEF Same
      <4> QED
        BY <1>14, <4>1, <4>2, <4>3, <4>4
    <3> QED
      BY <3>1, <3>2, SwarmAssumption DEF Whole
  <2> QED
    BY <1>1, <1>13, <2>1 DEF InFormation
<1>18. OnCard'
  <2>1. ASSUME NEW v \in Resting'
        PROVE  /\ card'[craft[v].formation.swarm] # NoCard =>
                    Shows(card'[craft[v].formation.swarm], craft[v].formation)
               /\ \A i \in Swarm : v \in card'[i].members => card'[craft[v].formation.swarm] # NoCard
    <3>1. CASE v \in Resting
      <4>1. craft[v].formation.swarm \in Swarm
        BY <1>0, <3>1 DEF InFormation, Whole
      <4> QED
        BY <1>0, <1>11, <1>15, <3>1, <4>1 DEF OnCard
    <3>2. CASE v \in M /\ craft[v].mode # "Other"
      BY <1>7, <1>9, <1>11, <1>12, <3>2 DEF Shows
    <3> QED
      BY <1>14, <3>1, <3>2
  <2> QED
    BY <1>1, <2>1 DEF OnCard
<1>19. WillBeKnown'
  <2>1. ASSUME NEW v \in Resting', v \notin excused, card'[craft[v].formation.swarm] = NoCard
        PROVE  \/ v \notin known \/ v \in requests
               \/ craft[v].mode = "external" /\ v \notin companions
    <3>1. v \in Resting
      BY <1>9, <1>12, <1>14, <2>1
    <3>2. craft[v].formation.swarm \in Swarm
      BY <1>0, <3>1 DEF InFormation, Whole
    <3>3. card[craft[v].formation.swarm] = NoCard
      BY <1>11, <1>15, <2>1, <3>1, <3>2
    <3> QED
      BY <1>0, <1>1, <2>1, <3>1, <3>3 DEF WillBeKnown
  <2> QED
    BY <1>1, <2>1 DEF WillBeKnown
<1>20. ScriptGoesOn' /\ AnswersTrue'
  BY <1>1 DEF ScriptGoesOn, AnswersTrue
<1> QED
  BY <1>17, <1>18, <1>19, <1>20 DEF Agreed
-----------------------------------------------------------------------------
(***************************************************************************)
(* Scripts.                                                                  *)
(***************************************************************************)
\* The next message of a script is the slot of the next member, and leaves one less.
LEMMA PlacesGoOn ==
  ASSUME NEW todo \in Seq(Packet), todo # <<>>, NEW a, Aimed(a), NEW k \in Nat, Places(todo, a, k)
  PROVE  /\ Head(todo) = [kind |-> "node", message |-> Placing(a, Order(a.members)[k + 1])]
         /\ Order(a.members)[k + 1] \in a.members
         /\ First(a.members, k) \in SUBSET a.members
         /\ First(a.members, k + 1) = First(a.members, k) \cup {Order(a.members)[k + 1]}
         /\ Places(Tail(todo), a, k + 1)
<1>1. PICK n, M, g : n = Cardinality(M) /\ M = a.members /\ g = Order(M)
  OBVIOUS
<1>2. M \in SUBSET Node /\ n \in 0..255
  BY <1>1, OrderFacts DEF Aimed, Aim
<1>3. /\ Len(todo) + k = n
      /\ \A i \in 1..Len(todo) : todo[i] = [kind |-> "node", message |-> Placing(a, g[i + k])]
  BY <1>1 DEF Places
<1>4. /\ Len(todo) \in Nat /\ Len(todo) >= 1 /\ Head(todo) = todo[1] /\ Len(Tail(todo)) = Len(todo) - 1
      /\ \A i \in 1..Len(Tail(todo)) : Tail(todo)[i] = todo[i + 1]
  OBVIOUS
<1>5. k < n /\ k \in 0..n /\ 1 \in 1..Len(todo) /\ 1 + k = k + 1
  <2>1. PICK rest : rest = Len(todo)
    OBVIOUS
  <2>2. rest + k = n /\ rest \in Nat /\ rest >= 1
    BY <1>3, <1>4, <2>1
  <2> QED
    BY <1>2, <2>1, <2>2
<1>6. Head(todo) = [kind |-> "node", message |-> Placing(a, g[k + 1])]
  BY <1>3, <1>4, <1>5
<1>7. g[k + 1] \in M /\ First(M, k) \in SUBSET M /\ First(M, k + 1) = First(M, k) \cup {g[k + 1]}
  <2>1. /\ \A j \in 0..Cardinality(M) : First(M, j) \in SUBSET M
        /\ \A j \in Nat : j < Cardinality(M) =>
             Order(M)[j + 1] \in M /\ First(M, j + 1) = First(M, j) \cup {Order(M)[j + 1]}
    BY <1>2, FirstMembers
  <2>2. /\ \A j \in 0..n : First(M, j) \in SUBSET M
        /\ \A j \in Nat : j < n => g[j + 1] \in M /\ First(M, j + 1) = First(M, j) \cup {g[j + 1]}
    BY <1>1, <2>1
  <2>3. First(M, k) \in SUBSET M
    BY <1>5, <2>2
  <2> QED
    BY <1>5, <2>2, <2>3
<1>8. Len(Tail(todo)) + (k + 1) = n
  BY <1>2, <1>3, <1>4
<1>9. \A i \in 1..Len(Tail(todo)) : i + 1 \in 1..Len(todo) /\ (i + 1) + k = i + (k + 1)
  BY <1>4
<1>10. \A i \in 1..Len(Tail(todo)) : Tail(todo)[i] = [kind |-> "node", message |-> Placing(a, g[i + (k + 1)])]
  BY <1>3, <1>4, <1>9
<1>11. Places(Tail(todo), a, k + 1)
  BY <1>1, <1>8, <1>10 DEF Places
<1> QED
  BY <1>1, <1>6, <1>7, <1>11

\* A message of a script that reaches all its members, and nobody else.
LEMMA PublishNextAgreed ==
  ASSUME CInv, Agreed, NEW lost \in Losses, publishNext(lost), clean'
  PROVE  Agreed'
<1>0. InFormation /\ OnCard /\ ScriptGoesOn /\ WillBeKnown /\ InTheAir /\ OnThePage
  BY DEF Agreed, CInv
<1>1. /\ script.todo # <<>> /\ send(Head(script.todo), script.members, lost)
      /\ script' = [script EXCEPT !.todo = Tail(@)]
      /\ linkUp /\ lost = {} /\ answers = {}
      /\ excused \ script.members \subseteq excused'
      /\ UNCHANGED <<card, known, companions, requests, answers>>
  BY DEF publishNext, publish, advance
<1>2. script \in Running /\ script # NoScript
  BY <1>0, <1>1, NoScriptType DEF OnThePage
<1>3. PICK todo, M, id : todo = script.todo /\ M = script.members /\ id = script.swarm
  OBVIOUS
<1>4. todo \in Seq(Packet) /\ todo # <<>> /\ M \in SUBSET Node /\ id \in Swarm
  BY <1>1, <1>2, <1>3 DEF Running
<1>5. /\ script'.swarm = id /\ script'.members = M /\ script'.slots = script.slots
      /\ script'.todo = Tail(todo) /\ script'.type = script.type
  BY <1>1, <1>2, <1>3 DEF Running
<1>6. \A v \in Node : v \notin M => craft'[v] = craft[v]
  BY <1>1, <1>3, <1>4, SendEffect
<1>7. \A v \in M : craft'[v] = told(v, craft[v], Head(todo))
  BY <1>1, <1>3, <1>4, SendEffect
<1>8. Resting' = Resting
  BY <1>3, <1>5, <1>6 DEF Resting
<1>9. \A v \in Resting : v \notin M /\ v \in Node /\ craft'[v] = craft[v]
  BY <1>3, <1>6 DEF Resting
<1>10. InFormation'
  BY <1>0, <1>3, <1>5, <1>8, <1>9 DEF InFormation
<1>11. OnCard'
  BY <1>0, <1>1, <1>8, <1>9 DEF OnCard
<1>12. WillBeKnown'
  BY <1>0, <1>1, <1>3, <1>8, <1>9 DEF WillBeKnown
<1>13. PICK a : a = TheAim
  OBVIOUS
<1>14. TheAim' = a
  BY <1>1, <1>3, <1>5, <1>13 DEF TheAim
<1>15. a.swarm = id /\ a.members = M /\ card[id].members = M /\ Aimed(a)
       /\ a.leader = card[id].leader
  BY <1>0, <1>2, <1>3, <1>13 DEF TheAim, ScriptGoesOn
<1>19. script.type = "create" => card[id].slots = script.slots
  BY <1>0, <1>2, <1>3 DEF ScriptGoesOn
<1>16. \E k \in Nat : /\ Places(Tail(todo), a, k)
                      /\ \A v \in M : craft'[v].mode # "Other" =>
                           Collected(craft'[v].formation, a, First(M, k))
  <2>1. CASE Announces(todo, a) /\ \A v \in M : craft[v].formation.swarm # id
    <3>1. Head(todo) = management("create", a.swarm, a.leader, a.members) /\ Places(Tail(todo), a, 0)
      BY <2>1 DEF Announces
    <3>2. ASSUME NEW v \in M, craft'[v].mode # "Other"
          PROVE  Collected(craft'[v].formation, a, {})
      <4>1. PICK c, p : c = craft[v] /\ p = management("create", a.swarm, a.leader, a.members)
        OBVIOUS
      <4>2. v \in Node /\ c \in [mode : Mode, formation : Formation] /\ c.formation.swarm # a.swarm
        BY <1>0, <1>4, <1>15, <2>1, <4>1 DEF InTheAir
      <4>3. craft'[v] = told(v, c, p)
        BY <1>7, <3>1, <4>1
      <4>4. told(v, c, p).mode # "Other"
        BY <3>2, <4>3
      <4>5. "create" \in {"create", "update"}
        OBVIOUS
      <4>6. Collected(told(v, c, p).formation, a, {})
        BY <1>15, <4>1, <4>2, <4>4, <4>5, ToldAnnouncement
      <4> QED
        BY <4>3, <4>6
    <3>3. First(M, 0) = {}
      BY <1>4, FirstMembers
    <3> QED
      BY <3>1, <3>2, <3>3
  <2>2. ASSUME NEW k \in Nat, Places(todo, a, k),
               \A v \in M : craft[v].mode # "Other" => Collected(craft[v].formation, a, First(M, k))
        PROVE  /\ Places(Tail(todo), a, k + 1)
               /\ \A v \in M : craft'[v].mode # "Other" =>
                    Collected(craft'[v].formation, a, First(M, k + 1))
    <3>1. PICK n, K, L : n = Order(M)[k + 1] /\ K = First(M, k) /\ L = First(M, k + 1)
      OBVIOUS
    <3>2. /\ Head(todo) = [kind |-> "node", message |-> Placing(a, n)]
          /\ n \in a.members /\ K \in SUBSET a.members /\ L = K \cup {n} /\ Places(Tail(todo), a, k + 1)
      <4>1. /\ n = Order(a.members)[k + 1]
            /\ K = First(a.members, k) /\ L = First(a.members, k + 1)
        BY <1>15, <3>1
      <4>2. /\ Head(todo) = [kind |-> "node", message |-> Placing(a, Order(a.members)[k + 1])]
            /\ Order(a.members)[k + 1] \in a.members
            /\ First(a.members, k) \in SUBSET a.members
            /\ First(a.members, k + 1) = First(a.members, k) \cup {Order(a.members)[k + 1]}
            /\ Places(Tail(todo), a, k + 1)
        BY <1>4, <1>15, <2>2, PlacesGoOn
      <4> QED
        BY <4>1, <4>2
    <3>3. ASSUME NEW v \in M, craft'[v].mode # "Other"
          PROVE  Collected(craft'[v].formation, a, L)
      <4>1. PICK c, p : c = craft[v] /\ p = [kind |-> "node", message |-> Placing(a, n)]
        OBVIOUS
      <4>2. /\ v \in Node /\ c \in [mode : Mode, formation : Formation] /\ Sound(c.formation, v)
            /\ c.mode # "Other" => Collected(c.formation, a, K)
        BY <1>0, <1>4, <2>2, <3>1, <4>1 DEF InTheAir
      <4>3. craft'[v] = told(v, c, p)
        BY <1>7, <3>2, <4>1
      <4>4. told(v, c, p).mode # "Other"
        BY <3>3, <4>3
      <4>5. Collected(told(v, c, p).formation, a, K \cup {n})
        BY <1>15, <3>2, <4>1, <4>2, <4>4, ToldSlot
      <4> QED
        BY <3>2, <4>3, <4>5
    <3> QED
      BY <3>1, <3>2, <3>3
  <2>3. \/ Announces(todo, a) /\ \A v \in M : craft[v].formation.swarm # id
        \/ \E k \in Nat : /\ Places(todo, a, k)
                          /\ \A v \in M : craft[v].mode # "Other" =>
                               Collected(craft[v].formation, a, First(M, k))
    BY <1>0, <1>2, <1>3, <1>13 DEF ScriptGoesOn
  <2>4. ASSUME NEW k \in Nat PROVE k + 1 \in Nat
    OBVIOUS
  <2> QED
    BY <2>1, <2>2, <2>3, <2>4
<1>17. ScriptGoesOn'
  BY <1>1, <1>5, <1>14, <1>15, <1>16, <1>19 DEF ScriptGoesOn
<1>18. AnswersTrue'
  BY <1>1 DEF AnswersTrue
<1> QED
  BY <1>10, <1>11, <1>12, <1>17, <1>18 DEF Agreed

\* A card of which no member is taken stays as it is.
LEMMA UntouchedCard ==
  ASSUME NEW c, NEW M, c.members \cap M = {}
  PROVE  without(c, M) = c
<1>1. c.members \ M = c.members
  OBVIOUS
<1> QED
  BY <1>1 DEF without

\* Taking members off a card adds none.
LEMMA WithoutFewer ==
  ASSUME NEW c \in Card, NEW M
  PROVE  without(c, M).members \subseteq c.members
<1>1. without(c, M) \in {c, NoCard, [c EXCEPT !.members = c.members \ M]}
  BY DEF without
<1>2. NoCard.members = {}
  BY DEF NoCard
<1>3. [c EXCEPT !.members = c.members \ M].members = c.members \ M
  BY DEF Card
<1> QED
  BY <1>1, <1>2, <1>3

\* Slots that are shown for the members and for nobody else.
LEMMA ShownSlots ==
  ASSUME NEW M \in SUBSET Node, NEW slots \in [Node -> Slot]
  PROVE  /\ [n \in Node |-> IF n \in M THEN slots[n] ELSE NoSlot] \in List
         /\ Listed([n \in Node |-> IF n \in M THEN slots[n] ELSE NoSlot]) = M
BY SlotAssumption DEF List, Listed

\* A deployment that reaches its members, parts nobody from others and finds nobody in a
\* swarm of its id:
\* whoever flies outside is in a swarm that lost no member.
LEMMA DeployAgreed ==
  ASSUME CInv, clean => Agreed,
         NEW d \in Deployments, NEW lost \in Losses, deploySwarm(d, lost), clean'
  PROVE  Agreed'
<1> DEFINE slots == [n \in Node |-> IF n \in d.members THEN d.slots[n] ELSE NoSlot]
           left == [id \in Swarm |-> without(card[id], d.members)]
           new == [leader |-> d.leader, members |-> d.members, slots |-> slots, mode |-> d.mode,
                   status |-> IF linkUp THEN "deploying" ELSE "failed", restored |-> FALSE]
           list == swarm_nodes(d.swarm, d.members, slots)
           head == management("create", d.swarm, d.leader, d.members)
<1>0. InTheAir /\ OnThePage
  BY DEF CInv
<1>1. /\ d.swarm \in Swarm /\ d.members \in SUBSET Node /\ d.leader \in d.members
      /\ d.mode \in {"internal", "external"} /\ d.slots \in [Node -> Slot]
  BY CardsAssumption
<1>2. /\ canDeploy(d) /\ send(SetMode(d.mode), d.members, lost)
      /\ card' = [left EXCEPT ![d.swarm] = new]
      /\ Alone /\ linkUp /\ lost = {} /\ answers = {} /\ Reaches(d.members)
      /\ \A v \in Node : craft[v].formation.swarm # d.swarm
      /\ script' = [type |-> "create", swarm |-> d.swarm, members |-> d.members, slots |-> slots,
                    todo |-> <<head>> \o list]
      /\ excused \subseteq excused'
      /\ UNCHANGED <<linkUp, known, companions, requests, answers>>
  BY DEF deploySwarm, begin
<1>3. PICK M, id : M = d.members /\ id = d.swarm
  OBVIOUS
<1>4. id \in Swarm /\ M \in SUBSET Node /\ script = NoScript /\ Cardinality(M) >= 2
  BY <1>1, <1>2, <1>3 DEF canDeploy, Alone
<1>5. slots \in List /\ Listed(slots) = M
  BY <1>1, <1>3, ShownSlots
<1> HIDE DEF slots
<1>6. PICK a : a = [swarm |-> id, leader |-> d.leader, slots |-> slots, members |-> M]
  OBVIOUS
<1>7. Aimed(a) /\ a.swarm = id /\ a.leader = d.leader /\ a.slots = slots /\ a.members = M
  BY <1>1, <1>3, <1>4, <1>5, <1>6 DEF Aimed, Aim
<1>8. list \in Seq(Packet) /\ Places(list, a, 0)
  BY <1>3, <1>7, SlotsSent
<1>9. head \in Packet /\ head = management("create", a.swarm, a.leader, a.members)
  BY <1>1, <1>3, <1>4, <1>7, ManagementType
<1> HIDE DEF head, list
<1>10. PICK todo : todo = <<head>> \o list
  OBVIOUS
<1>11. Announces(todo, a)
  <2>1. todo # <<>> /\ Head(todo) = head /\ Tail(todo) = list
    BY <1>8, <1>9, <1>10, AnnouncementFirst
  <2> QED
    BY <1>8, <1>9, <2>1 DEF Announces
<1>12. script' = [type |-> "create", swarm |-> id, members |-> M, slots |-> slots, todo |-> todo]
  BY <1>2, <1>3, <1>10
<1>13. script'.swarm = id /\ script'.members = M /\ script'.slots = slots /\ script'.todo = todo
  BY <1>12
<1>14. card'[id] = new /\ \A i \in Swarm : i # id => card'[i] = without(card[i], M)
  BY <1>1, <1>2, <1>3
<1>15. new.members = M /\ new.leader = d.leader /\ new.slots = slots
  BY <1>3
<1> HIDE DEF new, left
<1>16. \A v \in Node : v \notin M => craft'[v] = craft[v]
  BY <1>1, <1>2, <1>3, SendEffect
<1>17. \A v \in Resting' : /\ v \in Resting /\ v \notin M /\ craft'[v] = craft[v]
                           /\ clean /\ Listed(craft[v].formation.nodes) \cap M = {}
  <2>1. NoScript.members = {}
    BY DEF NoScript
  <2> QED
    BY <1>2, <1>3, <1>4, <1>13, <1>16, <2>1 DEF Resting, Reaches
<1>18. \A v \in Resting' :
         /\ craft[v].formation.swarm \in Swarm /\ craft[v].formation.swarm # id
         /\ card'[craft[v].formation.swarm] = card[craft[v].formation.swarm]
  <2>1. ASSUME NEW v \in Resting'
        PROVE  /\ craft[v].formation.swarm \in Swarm /\ craft[v].formation.swarm # id
               /\ card'[craft[v].formation.swarm] = card[craft[v].formation.swarm]
    <3>0. InFormation /\ OnCard /\ v \in Resting /\ v \in Node
      BY <1>17, <2>1 DEF Agreed, Resting
    <3>1. PICK f : f = craft[v].formation
      OBVIOUS
    <3>2. f.swarm \in Swarm
      BY <3>0, <3>1 DEF InFormation, Whole
    <3>3. f.swarm # id
      BY <1>2, <1>3, <3>0, <3>1
    <3>4. card[f.swarm].members \cap M = {}
      <4>1. CASE card[f.swarm] = NoCard
        BY <4>1 DEF NoCard
      <4>2. CASE card[f.swarm] # NoCard
        <5>1. card[f.swarm].members = Listed(f.nodes)
          BY <3>0, <3>1, <4>2 DEF OnCard, Shows
        <5> QED
          BY <1>17, <2>1, <3>1, <5>1
      <4> QED
        BY <4>1, <4>2
    <3>5. card'[f.swarm] = card[f.swarm]
      BY <1>14, <3>2, <3>3, <3>4, UntouchedCard
    <3> QED
      BY <3>1, <3>2, <3>3, <3>5
  <2> QED
    BY <2>1
<1>19. InFormation'
  <2>1. ASSUME NEW v \in Resting'
        PROVE  /\ Whole(craft[v].formation, v) /\ craft[v].formation.swarm # id
               /\ Listed(craft[v].formation.nodes) \cap M = {}
               /\ \A w \in Resting' :
                    \/ craft[w].formation.swarm = craft[v].formation.swarm
                    \/ craft[v].formation.nodes[w] # NoSlot
                    => Same(craft[w].formation, craft[v].formation)
    <3>1. InFormation
      BY <1>17, <2>1 DEF Agreed
    <3> QED
      BY <1>17, <1>18, <2>1, <3>1 DEF InFormation
  <2>2. \A v \in Resting' : craft'[v] = craft[v]
    BY <1>17
  <2> QED
    BY <1>13, <2>1, <2>2 DEF InFormation
<1>20. OnCard'
  <2>1. ASSUME NEW v \in Resting'
        PROVE  /\ card'[craft[v].formation.swarm] # NoCard =>
                    Shows(card'[craft[v].formation.swarm], craft[v].formation)
               /\ \A i \in Swarm : v \in card'[i].members => card'[craft[v].formation.swarm] # NoCard
    <3>1. OnCard /\ v \in Resting /\ v \notin M
      BY <1>17, <2>1 DEF Agreed
    <3>2. ASSUME NEW i \in Swarm, v \in card'[i].members
          PROVE  v \in card[i].members
      <4>1. i # id
        BY <1>14, <1>15, <3>1, <3>2
      <4>2. card[i] \in Card
        BY <1>0 DEF OnThePage
      <4> QED
        BY <1>14, <3>2, <4>1, <4>2, WithoutFewer
    <3> QED
      BY <1>18, <2>1, <3>1, <3>2 DEF OnCard
  <2>2. \A v \in Resting' : craft'[v] = craft[v]
    BY <1>17
  <2> QED
    BY <2>1, <2>2 DEF OnCard
<1>21. ScriptGoesOn'
  <2>1. TheAim' = a
    BY <1>6, <1>13, <1>14, <1>15 DEF TheAim
  <2>2. ASSUME NEW v \in M PROVE craft'[v].formation.swarm # id
    <3>1. PICK c : c = craft[v]
      OBVIOUS
    <3>2. v \in Node /\ c.formation.swarm # id
      BY <1>2, <1>3, <1>4, <3>1
    <3>3. craft'[v] \in {c, told(v, c, SetMode(d.mode))}
      BY <1>1, <1>2, <3>1, <3>2, SendEffect
    <3>4. told(v, c, SetMode(d.mode)) \in {c, In(d.mode)}
      BY DEF told, SetMode, entered
    <3>5. In(d.mode).formation.swarm # id
      BY <1>4, SwarmAssumption DEF In, NewFormation
    <3> QED
      BY <3>2, <3>3, <3>4, <3>5
  <2> QED
    BY <1>7, <1>11, <1>13, <1>14, <1>15, <2>1, <2>2 DEF ScriptGoesOn
<1>22. AnswersTrue'
  BY <1>2 DEF AnswersTrue
<1>23. WillBeKnown'
  <2>1. ASSUME NEW v \in Resting' \ excused', card'[craft'[v].formation.swarm] = NoCard
        PROVE  \/ v \notin known \/ v \in requests
               \/ craft'[v].mode = "external" /\ v \notin companions
    <3>1. WillBeKnown /\ v \in Resting \ excused /\ card[craft[v].formation.swarm] = NoCard
      BY <1>2, <1>17, <1>18, <2>1 DEF Agreed
    <3> QED
      BY <1>2, <1>17, <2>1, <3>1 DEF WillBeKnown
  <2> QED
    BY <1>2, <2>1 DEF WillBeKnown
<1> QED
  BY <1>19, <1>20, <1>21, <1>22, <1>23 DEF Agreed

\* A change of formation that reaches all on its card: nobody else flies in that swarm.
LEMMA UpdateAgreed ==
  ASSUME CInv, clean => Agreed,
         NEW id \in Swarm, NEW chosen \in Formations, NEW lost \in Losses,
         updateFormation(id, chosen, lost), clean'
  PROVE  Agreed'
<1> DEFINE slots == [n \in Node |-> IF n \in card[id].members THEN chosen[n] ELSE NoSlot]
<1>0. InTheAir /\ OnThePage
  BY DEF CInv
<1>1. PICK M, leader, todo : M = card[id].members /\ leader = card[id].leader
                             /\ todo = swarm_nodes(id, M, slots)
  OBVIOUS
<1>2. /\ Cardinality(M) >= 2 /\ send(management("update", id, leader, M), M, lost)
      /\ script' = [type |-> "update", swarm |-> id, members |-> M, slots |-> slots, todo |-> todo]
      /\ linkUp /\ lost = {} /\ answers = {} /\ Reaches(M) /\ script = NoScript
      /\ excused \ M \subseteq excused'
      /\ UNCHANGED <<card, known, companions, requests, answers>>
  BY <1>1 DEF updateFormation, begin, Alone
<1>3. chosen \in [Node -> Slot] /\ M \in SUBSET Node /\ (M # {} => leader \in Node)
  BY <1>0, <1>1, CardsAssumption DEF OnThePage, CardOK, Card
<1>4. M # {}
  <2>1. Cardinality(M) >= 2
    BY <1>2
  <2> QED
    BY <2>1, FS_EmptySet
<1>5. slots \in List /\ Listed(slots) = M
  BY <1>1, <1>3, ShownSlots
<1> HIDE DEF slots
<1>6. PICK a : a = [swarm |-> id, leader |-> leader, slots |-> slots, members |-> M]
  OBVIOUS
<1>7. Aimed(a) /\ a.swarm = id /\ a.leader = leader /\ a.slots = slots /\ a.members = M
  BY <1>2, <1>3, <1>4, <1>5, <1>6 DEF Aimed, Aim
<1>8. Places(todo, a, 0)
  BY <1>1, <1>7, SlotsSent
<1>9. /\ script'.swarm = id /\ script'.members = M /\ script'.slots = slots /\ script'.todo = todo
      /\ script'.type = "update"
  BY <1>2
<1>10. \A v \in Node : v \notin M => craft'[v] = craft[v]
  BY <1>2, <1>3, SendEffect
<1>11. \A v \in Resting' : /\ v \in Resting /\ v \in Node /\ v \notin M /\ craft'[v] = craft[v]
                           /\ clean /\ Listed(craft[v].formation.nodes) \cap M = {}
  <2>1. NoScript.members = {}
    BY DEF NoScript
  <2> QED
    BY <1>2, <1>9, <1>10, <2>1 DEF Resting, Reaches
<1>12. \A v \in Resting' : craft[v].formation.swarm # id
  <2>1. ASSUME NEW v \in Resting', craft[v].formation.swarm = id PROVE FALSE
    <3>1. InFormation /\ OnCard
      BY <1>11, <2>1 DEF Agreed
    <3>2. card[id] # NoCard
      BY <1>1, <1>4 DEF NoCard
    <3>3. M = Listed(craft[v].formation.nodes)
      BY <1>1, <1>11, <2>1, <3>1, <3>2 DEF OnCard, Shows
    <3>4. craft[v].formation.nodes[v] # NoSlot
      BY <1>11, <2>1, <3>1 DEF InFormation, Whole
    <3> QED
      BY <1>11, <2>1, <3>3, <3>4 DEF Listed
  <2> QED
    BY <2>1
<1>13. InFormation'
  <2>1. ASSUME NEW v \in Resting'
        PROVE  /\ Whole(craft[v].formation, v)
               /\ \A w \in Resting' :
                    \/ craft[w].formation.swarm = craft[v].formation.swarm
                    \/ craft[v].formation.nodes[w] # NoSlot
                    => Same(craft[w].formation, craft[v].formation)
    <3>1. InFormation
      BY <1>11, <2>1 DEF Agreed
    <3> QED
      BY <1>11, <2>1, <3>1 DEF InFormation
  <2> QED
    BY <1>9, <1>11, <1>12, <2>1 DEF InFormation
<1>14. OnCard'
  <2>1. ASSUME NEW v \in Resting'
        PROVE  /\ card[craft[v].formation.swarm] # NoCard =>
                    Shows(card[craft[v].formation.swarm], craft[v].formation)
               /\ \A i \in Swarm : v \in card[i].members => card[craft[v].formation.swarm] # NoCard
    <3>1. OnCard
      BY <1>11, <2>1 DEF Agreed
    <3> QED
      BY <1>11, <2>1, <3>1 DEF OnCard
  <2> QED
    BY <1>2, <1>11, <2>1 DEF OnCard
<1>15. ScriptGoesOn'
  <2>1. TheAim' = a
    BY <1>1, <1>2, <1>6, <1>9 DEF TheAim
  <2>2. ASSUME NEW v \in M, craft'[v].mode # "Other"
        PROVE  Collected(craft'[v].formation, a, {})
    <3>1. PICK c, p : c = craft[v] /\ p = management("update", a.swarm, a.leader, a.members)
      OBVIOUS
    <3>2. v \in Node /\ c \in [mode : Mode, formation : Formation]
      BY <1>0, <1>3, <3>1 DEF InTheAir
    <3>3. craft'[v] = told(v, c, p)
      BY <1>2, <1>3, <1>7, <3>1, <3>2, SendEffect
    <3>4. told(v, c, p).mode # "Other" /\ "update" \in {"create", "update"} /\ "update" # "create"
      BY <2>2, <3>3
    <3>5. Collected(told(v, c, p).formation, a, {})
      BY <1>7, <3>1, <3>2, <3>4, ToldAnnouncement
    <3> QED
      BY <3>3, <3>5
  <2>3. First(M, 0) = {} /\ 0 \in Nat
    BY <1>3, FirstMembers
  <2> QED
    BY <1>1, <1>2, <1>7, <1>8, <1>9, <2>1, <2>2, <2>3 DEF ScriptGoesOn
<1>16. AnswersTrue'
  BY <1>2 DEF AnswersTrue
<1>17. WillBeKnown'
  <2>1. ASSUME NEW v \in Resting' \ excused', card[craft[v].formation.swarm] = NoCard
        PROVE  \/ v \notin known \/ v \in requests
               \/ craft[v].mode = "external" /\ v \notin companions
    <3>1. WillBeKnown /\ v \in Resting \ excused
      BY <1>2, <1>11, <2>1 DEF Agreed
    <3> QED
      BY <1>2, <2>1, <3>1 DEF WillBeKnown
  <2> QED
    BY <1>2, <1>11, <2>1 DEF WillBeKnown
<1> QED
  BY <1>13, <1>14, <1>15, <1>16, <1>17 DEF Agreed
-----------------------------------------------------------------------------
(***************************************************************************)
(* The theorems.                                                             *)
(***************************************************************************)
\* At first nobody flies.
LEMMA AgreeInit == Init => AgreeInv
<1> SUFFICES ASSUME Init PROVE AgreeInv
  OBVIOUS
<1>1. CInv
  BY CInvInit
<1>3. Grounded
  BY DEF Init, Grounded, In
<1>4. earlier = {} /\ Agreed
  BY DEF Init, Agreed, InFormation, OnCard, ScriptGoesOn, AnswersTrue, WillBeKnown, Resting, In
<1> QED
  BY <1>1, <1>3, <1>4 DEF AgreeInv

\* A script that nothing goes wrong with runs alone.
LEMMA CleanRunsAlone ==
  ASSUME clean => earlier = {}, [Next]_vars, clean'
  PROVE  earlier' = {}
<1>1. ASSUME NEW lost \in Losses, NEW d \in Deployments, deploySwarm(d, lost)
      PROVE  earlier' = {}
  BY <1>1 DEF deploySwarm, begin, Alone
<1>2. ASSUME NEW lost \in Losses, NEW id \in Swarm, NEW slots \in Formations,
             updateFormation(id, slots, lost)
      PROVE  earlier' = {}
  BY <1>2 DEF updateFormation, begin, Alone
<1>3. ASSUME NEW lost \in Losses, NEW id \in Swarm, dissolveSwarm(id, lost)
      PROVE  earlier' = {}
  BY <1>3 DEF dissolveSwarm
<1>4. CASE readFromVehicles \/ connect \/ reload \/ switchTab
  BY <1>4 DEF readFromVehicles, connect, reload, switchTab, page, scripts, history
<1>5. CASE Operator
  BY <1>1, <1>2, <1>3, <1>4, <1>5 DEF Operator
<1>6. CASE Timers
  BY <1>6 DEF Timers, finishScript, finishEarlier, publishNext, publishEarlier, merge, publish
<1>7. CASE Restore \/ raiseLink \/ Fault \/ \E v \in Node : Telemetry(v)
  BY <1>7 DEF Restore, restoreSwarm, raiseLink, Fault, dropLink, restartBridge, loseRequest,
     Telemetry, heartbeat, companionHeartbeat, publishStatus, answer, page, scripts, history
<1>8. CASE UNCHANGED vars
  BY <1>8 DEF vars, page, scripts, history
<1> QED
  BY <1>5, <1>6, <1>7, <1>8 DEF Next

\* Every step keeps the invariant.
LEMMA AgreeStep ==
  ASSUME AgreeInv, [Next]_vars
  PROVE  AgreeInv'
<1>0. CInv /\ Grounded /\ (clean => earlier = {} /\ Agreed)
  BY DEF AgreeInv
<1>1. CInv'
  BY <1>0, CInvStep
<1>2. Grounded' /\ (clean' => earlier' = {})
  BY <1>0, GroundedStep, CleanRunsAlone
<1>3. ASSUME clean'
      PROVE  Agreed'
  <2>1. CASE Operator
    <3>1. ASSUME NEW lost \in Losses, NEW d \in Deployments, deploySwarm(d, lost)
          PROVE  Agreed'
      BY <1>0, <1>3, <3>1, DeployAgreed
    <3>2. ASSUME NEW lost \in Losses, NEW id \in Swarm, NEW slots \in Formations,
                 updateFormation(id, slots, lost)
          PROVE  Agreed'
      BY <1>0, <1>3, <3>2, UpdateAgreed
    <3>3. ASSUME NEW lost \in Losses, NEW id \in Swarm, dissolveSwarm(id, lost)
          PROVE  FALSE
      BY <1>3, <3>3 DEF dissolveSwarm
    <3>4. CASE readFromVehicles \/ connect \/ switchTab
      <4>1. clean
        BY <1>3, <3>4 DEF readFromVehicles, connect, switchTab, history
      <4> QED
        BY <1>0, <3>4, <4>1, AskingAgreed
    <3>5. CASE reload
      <4>1. clean
        BY <1>3, <3>5 DEF reload
      <4> QED
        BY <1>0, <1>3, <3>5, <4>1, ReloadAgreed
    <3> QED
      BY <2>1, <3>1, <3>2, <3>3, <3>4, <3>5 DEF Operator
  <2>2. CASE finishScript
    <3>1. clean
      BY <1>3, <2>2 DEF finishScript, merge
    <3> QED
      BY <1>0, <1>3, <2>2, <3>1, FinishAgreed
  <2>3. ASSUME NEW lost \in Losses, publishNext(lost)
        PROVE  Agreed'
    <3>1. clean
      BY <1>3, <2>3 DEF publishNext, publish
    <3> QED
      BY <1>0, <1>3, <2>3, <3>1, PublishNextAgreed
  <2>8. ASSUME NEW e \in earlier,
               finishEarlier(e) \/ \E lost \in Losses : publishEarlier(e, lost)
        PROVE  FALSE
    BY <1>0, <1>3, <2>8 DEF finishEarlier, publishEarlier, merge, publish
  <2>4. ASSUME NEW r \in answers, restoreSwarm(r)
        PROVE  Agreed'
    <3>1. clean
      BY <1>3, <2>4 DEF restoreSwarm, history
    <3> QED
      BY <1>0, <2>4, <3>1, RestoreAgreed
  <2>5. CASE raiseLink \/ Fault
    <3>1. clean
      BY <1>3, <2>5 DEF raiseLink, Fault, dropLink, restartBridge, loseRequest, history
    <3> QED
      BY <1>0, <2>5, <3>1, AskingAgreed DEF Fault
  <2>6. ASSUME NEW v \in Node, Telemetry(v)
        PROVE  Agreed'
    <3>1. clean
      BY <1>3, <2>6 DEF Telemetry, heartbeat, companionHeartbeat, publishStatus, answer, history
    <3>2. CASE answer(v)
      BY <1>0, <1>3, <3>1, <3>2, AnswerAgreed
    <3>3. CASE heartbeat(v) \/ companionHeartbeat(v) \/ publishStatus(v)
      BY <1>0, <3>1, <3>3, AskingAgreed
    <3> QED
      BY <2>6, <3>2, <3>3 DEF Telemetry
  <2>7. CASE UNCHANGED vars
    <3>1. UNCHANGED <<craft, card, script, answers, known, companions, requests, excused, clean>>
      BY <2>7 DEF vars, fleet, page, scripts, traffic, history
    <3>2. InFormation /\ OnCard /\ ScriptGoesOn /\ AnswersTrue /\ WillBeKnown
      BY <1>0, <1>3, <3>1 DEF Agreed
    <3>3. Resting' = Resting /\ InFormation' /\ OnCard' /\ ScriptGoesOn'
      BY <3>1, <3>2, SceneKept
    <3>4. AnswersTrue' /\ WillBeKnown'
      BY <3>1, <3>2, <3>3 DEF AnswersTrue, WillBeKnown
    <3> QED
      BY <3>3, <3>4 DEF Agreed
  <2> QED
    BY <2>1, <2>2, <2>3, <2>4, <2>5, <2>6, <2>7, <2>8 DEF Next, Timers, Restore
<1> QED
  BY <1>1, <1>2, <1>3 DEF AgreeInv

\* When all is quiet, everybody in the air rests, and the card of its swarm shows it.
LEMMA AgreeShown == AgreeInv => CardShowsFlight
<1> SUFFICES ASSUME AgreeInv, Quiet, clean, NEW v \in Node, craft[v].mode # "Other", OnCards(v) # {}
             PROVE  \E id \in OnCards(v) : Flies(v, id)
  BY DEF CardShowsFlight
<1>1. InFormation /\ OnCard
  BY DEF AgreeInv, Agreed
<1>2. v \in Resting
  BY DEF Resting, Quiet, Alone, NoScript
<1>3. PICK f : f = craft[v].formation
  OBVIOUS
<1>4. Whole(f, v)
  BY <1>1, <1>2, <1>3 DEF InFormation
<1>5. card[f.swarm] # NoCard
  BY <1>1, <1>2, <1>3 DEF OnCard, OnCards
<1>6. Shows(card[f.swarm], f)
  BY <1>1, <1>2, <1>3, <1>5 DEF OnCard
<1>7. f.swarm \in OnCards(v)
  BY <1>4, <1>6 DEF OnCards, Shows, Whole, Listed
<1>8. Flies(v, f.swarm)
  BY <1>3, <1>4, <1>6 DEF Flies, Shows, Whole
<1> QED
  BY <1>7, <1>8

\* And whoever flies then has a card, unless it is excused.
LEMMA AgreeFound == AgreeInv => FlightIsOnCard
<1> SUFFICES ASSUME AgreeInv, Quiet, clean, NEW v \in Node \ excused, Flying(craft[v].formation)
             PROVE  v \in card[craft[v].formation.swarm].members
  BY DEF FlightIsOnCard
<1>1. InFormation /\ OnCard /\ WillBeKnown /\ Grounded
  BY DEF AgreeInv, Agreed
<1>2. PICK f : f = craft[v].formation
  OBVIOUS
<1>3. ~Flying(NewFormation)
  BY DEF Flying, Complete, NewFormation
<1>4. craft[v].mode # "Other"
  BY <1>1, <1>3 DEF Grounded
<1>5. v \in Resting
  BY <1>4 DEF Resting, Quiet, Alone, NoScript
<1>6. card[f.swarm] # NoCard
  <2>1. ~(craft[v].mode = "external" /\ v \notin companions)
    BY <1>1 DEF Grounded, Quiet
  <2> QED
    BY <1>1, <1>2, <1>5, <2>1 DEF WillBeKnown, Quiet
<1>7. Shows(card[f.swarm], f)
  BY <1>1, <1>2, <1>5, <1>6 DEF OnCard
<1>8. f.nodes[v] # NoSlot
  BY <1>1, <1>2, <1>5 DEF InFormation, Whole
<1> QED
  BY <1>2, <1>7, <1>8 DEF Shows, Listed

\* In any fleet, with any number of operations, scripts that overlap, ids given out again,
\* lost messages, reconnections, reloads and bridge restarts: once all is quiet, a vehicle
\* that is on a card flies what a card shows it in, if nothing went wrong since the last
\* script that ran alone and went to everybody it concerns.
THEOREM CardsShowFlight == Spec => []CardShowsFlight
<1>1. Init => AgreeInv
  BY AgreeInit
<1>2. AgreeInv /\ [Next]_vars => AgreeInv'
  BY AgreeStep
<1>3. AgreeInv => CardShowsFlight
  BY AgreeShown
<1> QED
  BY <1>1, <1>2, <1>3, PTL DEF Spec

\* And nobody flies unseen: under the same conditions whoever flies is a member on the
\* card of its swarm, unless its answer was lost or outdated or its card was taken.
THEOREM FlightsAreOnCards == Spec => []FlightIsOnCard
<1>1. Init => AgreeInv
  BY AgreeInit
<1>2. AgreeInv /\ [Next]_vars => AgreeInv'
  BY AgreeStep
<1>3. AgreeInv => FlightIsOnCard
  BY AgreeFound
<1> QED
  BY <1>1, <1>2, <1>3, PTL DEF Spec
-----------------------------------------------------------------------------
(***************************************************************************)
(* Is anybody forgotten? Whatever was lost, a vehicle that is not excused    *)
(* either flies in a swarm with a card, or the page will hear of it. Only a  *)
(* script could make it fly unseen, so the invariant says of every script    *)
(* that runs: once it has made its announcement, its members are in swarms   *)
(* that have a card, though another script may have told them of another.    *)
(***************************************************************************)
\* Who is in no swarm expects nobody.
Named(f) == f.swarm = NoSwarm => f.expected = 0 /\ ~f.updating
AllNamed == \A v \in Node : Named(craft[v].formation)

\* The scripts that run; none counts as one without members.
Scripts == {script} \cup {e.script : e \in earlier}

\* The announcement, if it is still to come, is first, and is of the script's swarm.
Announcing(todo) == todo # <<>> /\ Head(todo).kind = "management"
InOrder(s) ==
  \A i \in 1..Len(s.todo) :
    /\ s.todo[i].kind \in {"management", "node"}
    /\ s.todo[i].kind = "management" => i = 1 /\ s.todo[i].message.swarm = s.swarm
AllInOrder == \A s \in Scripts : InOrder(s)

\* Whoever is in a swarm has a card of it.
HasCard(v) == craft[v].formation.swarm # NoSwarm => card[craft[v].formation.swarm] # NoCard

\* So do the members of a script that has been announced, if they missed nothing.
AllCarded ==
  \A s \in Scripts : ~Announcing(s.todo) => \A v \in s.members \ excused : HasCard(v)

\* The inductive invariant.
FoundInv == CInv /\ Grounded /\ AllNamed /\ AllInOrder /\ AllCarded /\ NobodyForgotten

\* Who flies is in a mode for it, in a swarm, and has a list.
LEMMA FlightNamed ==
  ASSUME NEW v \in Node, NEW c \in [mode : Mode, formation : Formation], Sound(c.formation, v),
         c.mode = "Other" => c.formation = NewFormation, Named(c.formation), Flying(c.formation)
  PROVE  c.mode # "Other" /\ c.formation.swarm \in Swarm /\ Listed(c.formation.nodes) # {}
<1>1. PICK f : f = c.formation
  OBVIOUS
<1>2. f \in Formation /\ f.count = Size(f.nodes) /\ f.count = f.expected /\ f.expected > 1
  BY <1>1 DEF Sound, CountsNodes, Flying, Complete
<1>3. ~Flying(NewFormation)
  BY DEF Flying, Complete, NewFormation
<1>4. f.swarm \in Swarm
  BY <1>1, <1>2 DEF Named, Formation
<1>5. Listed(f.nodes) # {}
  <2>1. PICK listed : listed = Listed(f.nodes)
    OBVIOUS
  <2>2. f.expected \in 0..255 /\ f.expected = Cardinality(listed)
    BY <1>2, <2>1 DEF Size, Formation
  <2>3. Cardinality(listed) # 0
    BY <1>2, <2>2
  <2> QED
    BY <2>1, <2>3, FS_EmptySet
<1> QED
  BY <1>1, <1>3, <1>4, <1>5

\* A message makes nobody count on company without a swarm.
LEMMA ToldNamed ==
  ASSUME NEW v \in Node, NEW c \in [mode : Mode, formation : Formation], NEW p \in Packet,
         Named(c.formation)
  PROVE  Named(told(v, c, p).formation)
<1>1. \A mode : Named(In(mode).formation)
  BY DEF In, Named, NewFormation
<1>2. CASE p.kind = "mode"
  <2>1. told(v, c, p) \in {c, In(p.message)}
    BY <1>2 DEF told, entered
  <2> QED
    BY <1>1, <2>1
<1>3. ASSUME NEW g, Named(g)
      PROVE  Named([c EXCEPT !.formation = g].formation)
  BY <1>3
<1>4. CASE p.kind = "management"
  <2>1. p.message \in Management /\ told(v, c, p) = configured(v, c, p.message)
    BY <1>4 DEF Packet, told
  <2>2. PICK f, m, g : f = c.formation /\ m = p.message /\ g = onManagement(f, m)
    OBVIOUS
  <2>3. g.swarm # NoSwarm
    <3>1. m \in Management /\ f \in Formation /\ m.swarm # NoSwarm
      BY <2>1, <2>2, SwarmAssumption DEF Management
    <3>2. CASE StartsUpdate(f, m)
      BY <2>2, <3>1, <3>2, ManagementFields DEF StartsUpdate
    <3>3. CASE ~StartsUpdate(f, m)
      BY <2>2, <3>1, <3>3, ManagementFields
    <3> QED
      BY <3>2, <3>3
  <2>4. configured(v, c, p.message) \in {c, In("Other"), [c EXCEPT !.formation = g]}
    BY <2>2 DEF configured
  <2> QED
    BY <1>1, <1>3, <2>1, <2>3, <2>4 DEF Named
<1>5. CASE p.kind = "node"
  <2>1. p.message \in NodeMessage /\ told(v, c, p) = placed(v, c, p.message)
    BY <1>5 DEF Packet, told
  <2>2. PICK f, m, g : f = c.formation /\ m = p.message /\ g = onNode(f, m, v)
    OBVIOUS
  <2>3. Named(g)
    <3>1. m \in NodeMessage /\ f \in Formation /\ Named(f)
      BY <2>1, <2>2
    <3>2. CASE ~f.updating
      BY <2>2, <3>1, <3>2, CollectNodeFields DEF onNode, Named
    <3>3. CASE f.updating /\ m.swarm = f.swarm
      BY <2>2, <3>1, <3>3, CollectPendingFields DEF onNode, Named
    <3>4. CASE f.updating /\ m.swarm # f.swarm
      BY <2>2, <3>1, <3>4 DEF onNode
    <3> QED
      BY <3>2, <3>3, <3>4
  <2>4. placed(v, c, p.message) \in {c, [c EXCEPT !.formation = g]}
    BY <2>2 DEF placed
  <2> QED
    BY <1>3, <2>1, <2>3, <2>4
<1> QED
  BY <1>2, <1>4, <1>5 DEF Packet

\* An announcement puts nobody into the air, and leaves those in the air in its swarm.
LEMMA ToldOfSwarm ==
  ASSUME NEW v \in Node, NEW c \in [mode : Mode, formation : Formation], NEW p \in Packet,
         p.kind = "management", told(v, c, p).mode # "Other"
  PROVE  c.mode # "Other" /\ told(v, c, p).formation.swarm = p.message.swarm
<1>1. PICK f, m, g : f = c.formation /\ m = p.message /\ g = onManagement(f, m)
  OBVIOUS
<1>2. m \in Management /\ f \in Formation /\ told(v, c, p) = configured(v, c, m)
  BY <1>1 DEF Packet, told
<1>3. c.mode # "Other" /\ told(v, c, p) = [c EXCEPT !.formation = g]
  <2>1. In("Other").mode = "Other"
    BY DEF In
  <2>2. \/ c.mode = "Other" /\ configured(v, c, m) = c
        \/ configured(v, c, m) = In("Other")
        \/ c.mode # "Other" /\ configured(v, c, m) = [c EXCEPT !.formation = g]
    BY <1>1 DEF configured
  <2> QED
    BY <1>2, <2>1, <2>2
<1>4. g.swarm = m.swarm
  <2>1. CASE StartsUpdate(f, m)
    BY <1>1, <1>2, <2>1, ManagementFields DEF StartsUpdate
  <2>2. CASE ~StartsUpdate(f, m)
    BY <1>1, <1>2, <2>2, ManagementFields
  <2> QED
    BY <2>1, <2>2
<1> QED
  BY <1>1, <1>3, <1>4

\* A slot changes neither mode nor swarm.
LEMMA ToldOfSlot ==
  ASSUME NEW v \in Node, NEW c \in [mode : Mode, formation : Formation], NEW p \in Packet,
         p.kind = "node"
  PROVE  told(v, c, p).mode = c.mode /\ told(v, c, p).formation.swarm = c.formation.swarm
<1>1. PICK f, m, g : f = c.formation /\ m = p.message /\ g = onNode(f, m, v)
  OBVIOUS
<1>2. m \in NodeMessage /\ f \in Formation /\ told(v, c, p) = placed(v, c, m)
  BY <1>1 DEF Packet, told
<1>3. g.swarm = f.swarm
  <2>1. CASE ~f.updating
    BY <1>1, <1>2, <2>1, CollectNodeFields DEF onNode
  <2>2. CASE f.updating /\ m.swarm = f.swarm
    BY <1>1, <1>2, <2>2, CollectPendingFields DEF onNode
  <2>3. CASE f.updating /\ m.swarm # f.swarm
    BY <1>1, <2>3 DEF onNode
  <2> QED
    BY <2>1, <2>2, <2>3
<1>4. told(v, c, p) \in {c, [c EXCEPT !.formation = g]}
  BY <1>1, <1>2 DEF placed
<1> QED
  BY <1>1, <1>3, <1>4

\* Who is told to take a mode leaves its formation, or stays as it is.
LEMMA ToldOfMode ==
  ASSUME NEW v, NEW c, NEW mode
  PROVE  /\ \/ told(v, c, SetMode(mode)) = c
            \/ /\ ~Flying(told(v, c, SetMode(mode)).formation)
               /\ told(v, c, SetMode(mode)).formation.swarm = NoSwarm
         /\ mode = "Other" => told(v, c, SetMode(mode)).mode = "Other"
<1>1. told(v, c, SetMode(mode)) = entered(v, c, mode)
  BY DEF told, SetMode
<1>2. ~Flying(In(mode).formation) /\ In(mode).mode = mode /\ In(mode).formation.swarm = NoSwarm
  BY DEF Flying, Complete, In, NewFormation
<1> QED
  BY <1>1, <1>2 DEF entered

\* A message reaches those who did not miss it.
LEMMA SendFound ==
  ASSUME InTheAir, AllNamed, NEW p \in Packet, NEW M \in SUBSET Node, NEW lost, send(p, M, lost)
  PROVE  /\ AllNamed'
         /\ \A v \in Node \ M : craft'[v] = craft[v]
         /\ \A v \in M \ missed(M, lost) : craft'[v] = told(v, craft[v], p)
<1>1. ASSUME NEW v \in Node
      PROVE  /\ craft'[v] \in {craft[v], told(v, craft[v], p)}
             /\ v \notin M => craft'[v] = craft[v]
             /\ v \in M \ missed(M, lost) => craft'[v] = told(v, craft[v], p)
  BY DEF send, missed
<1>2. ASSUME NEW v \in Node
      PROVE  Named(craft'[v].formation)
  <2>1. craft[v] \in [mode : Mode, formation : Formation] /\ Named(craft[v].formation)
    BY DEF InTheAir, AllNamed
  <2> QED
    BY <1>1, <2>1, ToldNamed
<1> QED
  BY <1>1, <1>2 DEF AllNamed

\* Whom the page was going to hear of, it still is.
LEMMA StillExpected ==
  ASSUME NobodyForgotten, NEW v \in Node \ excused, Unknown(v), craft'[v] = craft[v],
         UNCHANGED <<known, companions, requests, answers>>
  PROVE  Expected(v)'
BY DEF NobodyForgotten, Expected

\* Members that keep their card, or get one, and the scripts that are left.
LEMMA CardedKept ==
  ASSUME AllCarded, NEW s \in Scripts, ~Announcing(s.todo), NEW v \in s.members \ excused',
         HasCard(v)' \/ (v \notin excused /\ (HasCard(v) => HasCard(v)'))
  PROVE  HasCard(v)'
BY DEF AllCarded

\* Nobody is a member of no script, and it has nothing to say.
LEMMA NoScriptInOrder == InOrder(NoScript) /\ NoScript.members = {}
<1>1. Len(NoScript.todo) = 0 /\ NoScript.members = {}
  BY DEF NoScript
<1> QED
  BY <1>1 DEF InOrder

\* Every script has vehicles for members.
LEMMA ScriptsSound ==
  ASSUME OnThePage, NEW s \in Scripts
  PROVE  (s = NoScript \/ s \in Running) /\ s.members \subseteq Node
<1>1. s = NoScript \/ s \in Running
  BY DEF OnThePage, Begun, Scripts
<1> QED
  BY <1>1, NoScriptInOrder DEF Running

\* A script that begins is one more.
LEMMA BeginScripts ==
  ASSUME NEW s, begin(s)
  PROVE  Scripts' \subseteq Scripts \cup {s}
<1>1. script' = s /\ earlier' \subseteq earlier \cup {[number |-> operations, script |-> script]}
  BY DEF begin
<1>2. \A e \in earlier' : e \in earlier \/ e.script = script
  BY <1>1
<1> QED
  BY <1>1, <1>2 DEF Scripts

\* Steps that send nothing and take no card: excuses may end, but not for the members of
\* scripts that run.
LEMMA SceneFound ==
  ASSUME FoundInv, craft' = craft, Scripts' \subseteq Scripts \cup {NoScript},
         \A i \in Swarm : card'[i] = NoCard => card[i] = NoCard,
         \A s \in Scripts : s.members \cap excused \subseteq excused'
  PROVE  AllNamed' /\ AllInOrder' /\ AllCarded'
<1>0. InTheAir /\ OnThePage /\ AllNamed /\ AllInOrder /\ AllCarded
  BY DEF FoundInv, CInv
<1>1. AllNamed' /\ AllInOrder'
  BY <1>0, NoScriptInOrder DEF AllNamed, AllInOrder
<1>2. ASSUME NEW s \in Scripts', ~Announcing(s.todo), NEW v \in s.members \ excused'
      PROVE  HasCard(v)'
  <2>1. s \in Scripts
    BY <1>2, NoScriptInOrder
  <2>2. v \in Node /\ v \notin excused
    BY <1>0, <1>2, <2>1, ScriptsSound
  <2>3. craft[v].formation.swarm \in Swarm \cup {NoSwarm}
    <3>1. PICK c : c = craft[v]
      OBVIOUS
    <3>2. c.formation \in Formation
      BY <1>0, <2>2, <3>1 DEF InTheAir
    <3> QED
      BY <3>1, <3>2 DEF Formation
  <2>4. HasCard(v) => HasCard(v)'
    BY <2>3 DEF HasCard
  <2> QED
    BY <1>0, <1>2, <2>1, <2>2, <2>4, CardedKept
<1>3. AllCarded'
  BY <1>2 DEF AllCarded
<1> QED
  BY <1>1, <1>3

\* A deployment that takes a card from a vehicle excuses it; one that is told to take a
\* mode flies nothing; and nobody else is concerned.
LEMMA DeployFound ==
  ASSUME FoundInv, CInv', Grounded', NEW d \in Deployments, NEW lost \in Losses,
         deploySwarm(d, lost)
  PROVE  FoundInv'
<1> DEFINE shown == [n \in Node |-> IF n \in d.members THEN d.slots[n] ELSE NoSlot]
           left == [id \in Swarm |-> without(card[id], d.members)]
           new == [leader |-> d.leader, members |-> d.members, slots |-> shown, mode |-> d.mode,
                   status |-> IF linkUp THEN "deploying" ELSE "failed", restored |-> FALSE]
           list == swarm_nodes(d.swarm, d.members, shown)
           head == management("create", d.swarm, d.leader, d.members)
           next == [type |-> "create", swarm |-> d.swarm, members |-> d.members, slots |-> shown,
                    todo |-> <<head>> \o list]
<1>0. /\ InTheAir /\ OnThePage /\ AllNamed /\ AllInOrder /\ AllCarded /\ NobodyForgotten
      /\ Grounded
  BY DEF FoundInv, CInv
<1>1. d.swarm \in Swarm /\ d.members \in SUBSET Node /\ SetMode(d.mode) \in Packet
  BY CardsAssumption DEF SetMode, Packet, Mode
<1>2. /\ send(SetMode(d.mode), d.members, lost)
      /\ card' = [left EXCEPT ![d.swarm] = new]
      /\ IF linkUp THEN begin(next) ELSE UNCHANGED scripts
      /\ excused \cup missed(d.members, lost) \subseteq excused'
      /\ \A v \in Node : \A id \in Swarm :
           craft[v].formation.swarm = id /\ card[id] # NoCard /\ left[id] = NoCard => v \in excused'
      /\ UNCHANGED <<linkUp, known, companions, requests, answers>>
  BY DEF deploySwarm
<1>3. Scripts' \subseteq Scripts \cup {next}
  <2>1. ~linkUp => script' = script /\ earlier' = earlier
    BY <1>2 DEF scripts
  <2>2. ~linkUp => Scripts' = Scripts
    BY <2>1 DEF Scripts
  <2> HIDE DEF next
  <2> QED
    BY <1>2, <2>2, BeginScripts
<1>4. /\ AllNamed'
      /\ \A v \in Node \ d.members : craft'[v] = craft[v]
      /\ \A v \in d.members \ missed(d.members, lost) :
           craft'[v] = told(v, craft[v], SetMode(d.mode))
  BY <1>0, <1>1, <1>2, SendFound
<1>5. card'[d.swarm] # NoCard /\ \A id \in Swarm : id # d.swarm => card'[id] = left[id]
  <2>1. new.status # NoCard.status
    BY DEF NoCard
  <2>2. new # NoCard
    BY <2>1
  <2> HIDE DEF new
  <2> QED
    BY <1>1, <1>2, <2>2
<1>6. ASSUME NEW v \in Node \ excused'
      PROVE  /\ v \notin excused
             /\ \/ craft'[v] = craft[v]
                \/ ~Flying(craft'[v].formation) /\ craft'[v].formation.swarm = NoSwarm
             /\ \A id \in Swarm : craft[v].formation.swarm = id /\ card'[id] = NoCard
                                  => card[id] = NoCard
  <2>1. v \notin excused /\ v \notin missed(d.members, lost)
    BY <1>2, <1>6
  <2>2. \/ craft'[v] = craft[v]
        \/ ~Flying(craft'[v].formation) /\ craft'[v].formation.swarm = NoSwarm
    BY <1>4, <1>6, <2>1, ToldOfMode
  <2> HIDE DEF left
  <2>3. \A id \in Swarm : craft[v].formation.swarm = id /\ card'[id] = NoCard => card[id] = NoCard
    BY <1>2, <1>5, <1>6
  <2> QED
    BY <2>1, <2>2, <2>3
<1>7. NobodyForgotten'
  <2> SUFFICES ASSUME NEW v \in Node \ excused', Unknown(v)'
               PROVE  Expected(v)'
    BY DEF NobodyForgotten
  <2>1. v \in Node \ excused /\ craft'[v] = craft[v]
    BY <1>6 DEF Unknown
  <2>2. PICK id : id = craft[v].formation.swarm
    OBVIOUS
  <2>3. Flying(craft[v].formation) /\ card'[id] = NoCard
    BY <2>1, <2>2 DEF Unknown
  <2>4. id \in Swarm
    <3>1. /\ craft[v] \in [mode : Mode, formation : Formation] /\ Sound(craft[v].formation, v)
          /\ craft[v].mode = "Other" => craft[v].formation = NewFormation
          /\ Named(craft[v].formation)
      BY <1>0 DEF InTheAir, Grounded, AllNamed
    <3> QED
      BY <2>2, <2>3, <3>1, FlightNamed
  <2>5. card[id] = NoCard
    BY <1>6, <2>2, <2>3, <2>4
  <2> QED
    BY <1>0, <1>2, <2>1, <2>2, <2>3, <2>5, StillExpected DEF Unknown
<1>8. InOrder(next) /\ Announcing(next.todo)
  <2> DEFINE todo == <<head>> \o list
  <2>1. next.swarm = d.swarm /\ next.todo = todo
    OBVIOUS
  <2>2. head.kind = "management" /\ head.message.swarm = d.swarm
    BY DEF management
  <2>3. todo # <<>> /\ Head(todo) = head
        /\ \A i \in 1..Len(todo) : (i = 1 /\ todo[i] = head) \/ todo[i].kind = "node"
    <3>1. head \in Packet /\ list \in Seq(Packet)
      <4>1. Cardinality(d.members) >= 2
        BY DEF deploySwarm, canDeploy
      <4>2. d.leader \in Node /\ \A n \in d.members : shown[n] \in Slot
        BY <1>1, CardsAssumption
      <4> QED
        BY <1>1, <4>1, <4>2, ManagementType, NodesType
    <3>2. \A i \in 1..Len(list) : list[i].kind = "node"
      BY <3>1, SlotsAreNodes
    <3> HIDE DEF head, list
    <3> QED
      BY <3>1, <3>2, AnnouncementFirst
  <2> HIDE DEF todo, head, next
  <2> QED
    BY <2>1, <2>2, <2>3 DEF InOrder, Announcing
<1> HIDE DEF next
<1>9. AllInOrder'
  BY <1>0, <1>3, <1>8 DEF AllInOrder
<1>10. ASSUME NEW s \in Scripts', ~Announcing(s.todo), NEW v \in s.members \ excused'
       PROVE  HasCard(v)'
  <2>1. s \in Scripts
    BY <1>3, <1>8, <1>10
  <2>2. v \in Node \ excused'
    BY <1>0, <1>10, <2>1, ScriptsSound
  <2>3. craft[v].formation.swarm \in Swarm \cup {NoSwarm}
    <3>1. PICK c : c = craft[v]
      OBVIOUS
    <3>2. c.formation \in Formation
      BY <1>0, <2>2, <3>1 DEF InTheAir
    <3> QED
      BY <3>1, <3>2 DEF Formation
  <2>4. HasCard(v) => HasCard(v)'
    BY <1>6, <2>2, <2>3 DEF HasCard
  <2>5. v \notin excused
    BY <1>6, <2>2
  <2> QED
    BY <1>0, <1>10, <2>1, <2>4, <2>5, CardedKept
<1>11. AllCarded'
  BY <1>10 DEF AllCarded
<1> QED
  BY <1>4, <1>7, <1>9, <1>11 DEF FoundInv

\* Whoever hears an announcement and does not leave the mode is in its swarm.
LEMMA ToldHasCard ==
  ASSUME InTheAir, Grounded', NEW v \in Node, NEW p \in Packet, p.kind = "management",
         craft'[v] = told(v, craft[v], p), card'[p.message.swarm] # NoCard
  PROVE  HasCard(v)'
<1>1. CASE craft'[v].mode # "Other"
  <2>1. craft[v] \in [mode : Mode, formation : Formation]
    BY DEF InTheAir
  <2>2. craft'[v].formation.swarm = p.message.swarm
    BY <1>1, <2>1, ToldOfSwarm
  <2> QED
    BY <2>2 DEF HasCard
<1>2. CASE craft'[v].mode = "Other"
  BY <1>2 DEF Grounded, HasCard, NewFormation
<1> QED
  BY <1>1, <1>2

\* Whoever hears of a change of formation is in the swarm of the card.
LEMMA UpdateFound ==
  ASSUME FoundInv, CInv', Grounded', NEW id \in Swarm, NEW slots \in Formations, NEW lost \in Losses,
         updateFormation(id, slots, lost)
  PROVE  FoundInv'
<1> DEFINE shown == [n \in Node |-> IF n \in card[id].members THEN slots[n] ELSE NoSlot]
<1>0. /\ InTheAir /\ OnThePage /\ AllNamed /\ AllInOrder /\ AllCarded /\ NobodyForgotten
      /\ Grounded
  BY DEF FoundInv, CInv
<1>1. PICK M, p, todo : /\ M = card[id].members /\ p = management("update", id, card[id].leader, M)
                        /\ todo = swarm_nodes(id, M, shown)
  OBVIOUS
<1>2. PICK next : next = [type |-> "update", swarm |-> id, members |-> M, slots |-> shown, todo |-> todo]
  OBVIOUS
<1>3. /\ Cardinality(M) >= 2 /\ send(p, M, lost)
      /\ begin(next)
      /\ excused' = (excused \ M) \cup lost /\ linkUp
      /\ UNCHANGED <<card, known, companions, requests, answers>>
  BY <1>1, <1>2 DEF updateFormation
<1>4. M \in SUBSET Node /\ slots \in [Node -> Slot] /\ (M # {} => card[id].leader \in Node)
  BY <1>0, <1>1, CardsAssumption DEF OnThePage, CardOK, Card
<1>5. M # {} /\ card[id] # NoCard
  <2>1. M # {}
    BY <1>3, FS_EmptySet
  <2> QED
    BY <1>1, <2>1 DEF NoCard
<1>6. p \in Packet /\ p.kind = "management" /\ p.message.swarm = id
  BY <1>1, <1>3, <1>4, <1>5, ManagementType DEF management
<1>7. todo \in Seq(Packet) /\ \A i \in 1..Len(todo) : todo[i].kind = "node"
  <2>1. \A n \in M : shown[n] \in Slot
    BY <1>1, <1>4
  <2> HIDE DEF shown
  <2>2. swarm_nodes(id, M, shown) \in Seq(Packet)
    BY <1>4, <2>1, NodesType
  <2> QED
    BY <1>1, <2>2, SlotsAreNodes
<1>8. next.swarm = id /\ next.members = M /\ next.todo = todo
  BY <1>2
<1>9. /\ AllNamed'
      /\ \A v \in Node \ M : craft'[v] = craft[v]
      /\ \A v \in M \ missed(M, lost) : craft'[v] = told(v, craft[v], p)
  BY <1>0, <1>3, <1>4, <1>6, SendFound
<1>10. ASSUME NEW v \in M \ excused'
       PROVE  HasCard(v)'
  <2>1. v \in Node /\ craft'[v] = told(v, craft[v], p)
    BY <1>3, <1>4, <1>9, <1>10 DEF missed
  <2>2. card'[p.message.swarm] # NoCard
    BY <1>3, <1>5, <1>6
  <2> QED
    BY <1>0, <1>6, <2>1, <2>2, ToldHasCard
<1>11. NobodyForgotten'
  <2> SUFFICES ASSUME NEW v \in Node \ excused', Unknown(v)'
               PROVE  Expected(v)'
    BY DEF NobodyForgotten
  <2>1. craft'[v].formation.swarm \in Swarm
    <3>1. /\ craft'[v] \in [mode : Mode, formation : Formation] /\ Sound(craft'[v].formation, v)
          /\ craft'[v].mode = "Other" => craft'[v].formation = NewFormation
          /\ Named(craft'[v].formation)
      BY <1>9 DEF CInv, InTheAir, Grounded, AllNamed
    <3> QED
      BY <3>1, FlightNamed DEF Unknown
  <2>2. v \notin M
    BY <1>10, <2>1, SwarmAssumption DEF Unknown, HasCard
  <2>3. v \in Node \ excused /\ craft'[v] = craft[v] /\ Unknown(v)
    BY <1>3, <1>9, <2>2 DEF Unknown
  <2> QED
    BY <1>0, <1>3, <2>3, StillExpected
<1>12. Scripts' \subseteq Scripts \cup {next}
  BY <1>3, BeginScripts
<1>13. AllInOrder'
  BY <1>0, <1>7, <1>8, <1>12 DEF AllInOrder, InOrder
<1>14. ASSUME NEW s \in Scripts', ~Announcing(s.todo), NEW v \in s.members \ excused'
       PROVE  HasCard(v)'
  <2>1. CASE v \in M
    BY <1>10, <1>14, <2>1
  <2>2. CASE v \notin M
    <3>1. s \in Scripts
      BY <1>8, <1>12, <1>14, <2>2
    <3>2. v \in Node /\ v \notin excused
      BY <1>0, <1>3, <1>14, <2>2, <3>1, ScriptsSound
    <3>3. craft'[v] = craft[v] /\ card' = card
      BY <1>3, <1>9, <2>2, <3>2
    <3>4. HasCard(v) => HasCard(v)'
      BY <3>3 DEF HasCard
    <3> QED
      BY <1>0, <1>14, <3>1, <3>2, <3>4, CardedKept
  <2> QED
    BY <2>1, <2>2
<1>15. AllCarded'
  BY <1>14 DEF AllCarded
<1> QED
  BY <1>9, <1>11, <1>13, <1>15 DEF FoundInv

\* A script goes on. Whoever hears its announcement is in its swarm, which has a card or
\* excuses them; a slot changes the swarm of nobody.
LEMMA PublishFound ==
  ASSUME FoundInv, CInv', Grounded', NEW s \in Scripts, NEW lost \in Losses, publish(s, lost),
         Scripts' \subseteq Scripts \cup {advance(s)}
  PROVE  FoundInv'
<1>0. /\ InTheAir /\ OnThePage /\ AllNamed /\ AllInOrder /\ AllCarded /\ NobodyForgotten
      /\ Grounded
  BY DEF FoundInv, CInv
<1>1. PICK todo, M, id, p : /\ todo = s.todo /\ M = s.members /\ id = s.swarm
                            /\ p = Head(todo)
  OBVIOUS
<1>2. /\ todo # <<>> /\ send(p, M, lost)
      /\ excused' = (IF p.kind # "management" THEN excused
                     ELSE IF card[id] = NoCard THEN excused \cup M ELSE excused \ M)
                      \cup missed(M, lost)
      /\ UNCHANGED <<card, known, companions, requests, answers>>
  BY <1>1 DEF publish
<1>3. s \in Running
  BY <1>0, <1>1, <1>2, ScriptsSound, NoScriptType
<1>4. todo \in Seq(Packet) /\ M \in SUBSET Node /\ id \in Swarm
  BY <1>1, <1>3 DEF Running
<1>5. /\ p \in Packet /\ p = todo[1] /\ 1 \in 1..Len(todo) /\ Tail(todo) \in Seq(Packet)
      /\ \A i \in 1..Len(Tail(todo)) :
           Tail(todo)[i] = todo[i + 1] /\ i + 1 \in 1..Len(todo) /\ i + 1 # 1
  BY <1>1, <1>2, <1>4
<1>6. /\ p.kind \in {"management", "node"} /\ (p.kind = "management" => p.message.swarm = id)
      /\ \A i \in 1..Len(Tail(todo)) : Tail(todo)[i].kind = "node"
  BY <1>0, <1>1, <1>5 DEF AllInOrder, InOrder
<1>7. advance(s).members = M /\ advance(s).todo = Tail(todo)
  BY <1>1, <1>3 DEF Running, advance
<1>8. /\ AllNamed'
      /\ \A v \in Node \ M : craft'[v] = craft[v]
      /\ \A v \in M \ missed(M, lost) : craft'[v] = told(v, craft[v], p)
  BY <1>0, <1>2, <1>4, <1>5, SendFound
<1>9. ASSUME NEW v \in M \ excused'
      PROVE  HasCard(v)'
  <2>1. v \in Node /\ craft'[v] = told(v, craft[v], p)
    BY <1>2, <1>4, <1>8, <1>9
  <2>2. CASE p.kind = "management"
    <3>1. card[id] # NoCard
      BY <1>2, <1>9, <2>2
    <3>2. card'[p.message.swarm] # NoCard
      BY <1>2, <1>6, <2>2, <3>1
    <3> QED
      BY <1>0, <1>5, <2>1, <2>2, <3>2, ToldHasCard
  <2>3. CASE p.kind = "node"
    <3>1. craft[v] \in [mode : Mode, formation : Formation]
      BY <1>0, <2>1 DEF InTheAir
    <3>2. craft'[v].formation.swarm = craft[v].formation.swarm
      BY <1>5, <2>1, <2>3, <3>1, ToldOfSlot
    <3>3. ~Announcing(s.todo) /\ v \in s.members \ excused
      BY <1>1, <1>2, <1>9, <2>3 DEF Announcing
    <3>4. HasCard(v)
      BY <1>0, <3>3 DEF AllCarded
    <3> QED
      BY <1>2, <3>2, <3>4 DEF HasCard
  <2> QED
    BY <1>6, <2>2, <2>3
<1>10. \A v \in Node : v \notin M /\ v \notin excused' => v \notin excused
  BY <1>2
<1>11. NobodyForgotten'
  <2> SUFFICES ASSUME NEW v \in Node \ excused', Unknown(v)'
               PROVE  Expected(v)'
    BY DEF NobodyForgotten
  <2>1. craft'[v].formation.swarm \in Swarm
    <3>1. /\ craft'[v] \in [mode : Mode, formation : Formation] /\ Sound(craft'[v].formation, v)
          /\ craft'[v].mode = "Other" => craft'[v].formation = NewFormation
          /\ Named(craft'[v].formation)
      BY <1>8 DEF CInv, InTheAir, Grounded, AllNamed
    <3> QED
      BY <3>1, FlightNamed DEF Unknown
  <2>2. v \notin M
    BY <1>9, <2>1, SwarmAssumption DEF Unknown, HasCard
  <2>3. v \in Node \ excused /\ craft'[v] = craft[v] /\ Unknown(v)
    BY <1>2, <1>8, <1>10, <2>2 DEF Unknown
  <2> QED
    BY <1>0, <1>2, <2>3, StillExpected
<1>12. AllInOrder'
  BY <1>0, <1>6, <1>7 DEF AllInOrder, InOrder
<1>13. ASSUME NEW t \in Scripts', ~Announcing(t.todo), NEW v \in t.members \ excused'
       PROVE  HasCard(v)'
  <2>1. CASE v \in M
    BY <1>9, <1>13, <2>1
  <2>2. CASE v \notin M
    <3>1. t \in Scripts
      BY <1>7, <1>13, <2>2
    <3>2. v \in Node /\ v \notin excused
      BY <1>0, <1>10, <1>13, <2>2, <3>1, ScriptsSound
    <3>3. craft'[v] = craft[v] /\ card' = card
      BY <1>2, <1>8, <2>2, <3>2
    <3>4. HasCard(v) => HasCard(v)'
      BY <3>3 DEF HasCard
    <3> QED
      BY <1>0, <1>13, <3>1, <3>2, <3>4, CardedKept
  <2> QED
    BY <2>1, <2>2
<1>14. AllCarded'
  BY <1>13 DEF AllCarded
<1> QED
  BY <1>8, <1>11, <1>12, <1>14 DEF FoundInv

\* Whichever script it is that goes on.
LEMMA PublishNextFound ==
  ASSUME FoundInv, CInv', Grounded', NEW lost \in Losses,
         publishNext(lost) \/ \E e \in earlier : publishEarlier(e, lost)
  PROVE  FoundInv'
<1>1. CASE publishNext(lost)
  <2>1. publish(script, lost) /\ script \in Scripts
    BY <1>1 DEF publishNext, Scripts
  <2>2. Scripts' \subseteq Scripts \cup {advance(script)}
    BY <1>1 DEF publishNext, Scripts
  <2> QED
    BY <2>1, <2>2, PublishFound
<1>2. ASSUME NEW e \in earlier, publishEarlier(e, lost)
      PROVE  FoundInv'
  <2>1. publish(e.script, lost) /\ e.script \in Scripts
    BY <1>2 DEF publishEarlier, Scripts
  <2>2. e \in Begun
    BY DEF FoundInv, CInv, OnThePage
  <2>3. [e EXCEPT !.script = advance(@)].script = advance(e.script)
    BY <2>2 DEF Begun
  <2>4. Scripts' \subseteq Scripts \cup {advance(e.script)}
    BY <1>2, <2>3 DEF publishEarlier, Scripts
  <2> QED
    BY <2>1, <2>4, PublishFound
<1> QED
  BY <1>1, <1>2

\* Whoever is still in the swarm when its card goes is excused.
LEMMA DissolveFound ==
  ASSUME FoundInv, CInv', Grounded', NEW id \in Swarm, NEW lost \in Losses, dissolveSwarm(id, lost)
  PROVE  FoundInv'
<1>0. /\ InTheAir /\ OnThePage /\ AllNamed /\ AllInOrder /\ AllCarded /\ NobodyForgotten
      /\ Grounded
  BY DEF FoundInv, CInv
<1>1. PICK M, p : M = card[id].members /\ p = SetMode("Other")
  OBVIOUS
<1>2. /\ send(p, M, lost) /\ card' = [card EXCEPT ![id] = NoCard]
      /\ excused \cup missed(M, lost) \subseteq excused'
      /\ \A v \in Node : craft'[v].formation.swarm = id => v \in excused'
      /\ UNCHANGED <<known, companions, script, earlier, requests, answers>>
  BY <1>1 DEF dissolveSwarm, scripts
<1>3. M \in SUBSET Node /\ p \in Packet
  BY <1>0, <1>1 DEF OnThePage, Card, SetMode, Packet, Mode
<1>4. /\ AllNamed'
      /\ \A v \in Node \ M : craft'[v] = craft[v]
      /\ \A v \in M \ missed(M, lost) : craft'[v] = told(v, craft[v], p)
  BY <1>0, <1>2, <1>3, SendFound
<1>5. ASSUME NEW v \in Node \ excused', craft'[v].mode # "Other"
      PROVE  v \notin M /\ craft'[v] = craft[v] /\ v \notin excused
  <2>1. \A c : told(v, c, p).mode = "Other"
    BY <1>1, ToldOfMode
  <2> QED
    BY <1>2, <1>4, <1>5, <2>1
<1>6. \A i \in Swarm : i # id => card'[i] = card[i]
  BY <1>0, <1>2 DEF OnThePage
<1>7. NobodyForgotten'
  <2> SUFFICES ASSUME NEW v \in Node \ excused', Unknown(v)'
               PROVE  Expected(v)'
    BY DEF NobodyForgotten
  <2>1. craft'[v].mode # "Other" /\ craft'[v].formation.swarm \in Swarm
    <3>1. /\ craft'[v] \in [mode : Mode, formation : Formation] /\ Sound(craft'[v].formation, v)
          /\ craft'[v].mode = "Other" => craft'[v].formation = NewFormation
          /\ Named(craft'[v].formation)
      BY <1>4 DEF CInv, InTheAir, Grounded, AllNamed
    <3> QED
      BY <3>1, FlightNamed DEF Unknown
  <2>2. v \in Node \ excused /\ craft'[v] = craft[v]
    BY <1>5, <2>1
  <2>3. Unknown(v)
    BY <1>2, <1>6, <2>1, <2>2 DEF Unknown
  <2> QED
    BY <1>0, <1>2, <2>2, <2>3, StillExpected
<1>8. Scripts' = Scripts
  BY <1>2 DEF Scripts
<1>9. AllInOrder'
  BY <1>0, <1>8 DEF AllInOrder
<1>10. ASSUME NEW s \in Scripts, ~Announcing(s.todo), NEW v \in s.members \ excused'
       PROVE  HasCard(v)'
  <2>1. v \in Node /\ v \notin excused
    BY <1>0, <1>2, <1>10, ScriptsSound
  <2>2. CASE craft'[v].mode = "Other"
    BY <2>1, <2>2 DEF Grounded, HasCard, NewFormation
  <2>3. CASE craft'[v].mode # "Other"
    <3>1. craft'[v] = craft[v] /\ craft[v].formation.swarm # id
      BY <1>2, <1>5, <1>10, <2>1, <2>3
    <3>2. craft[v].formation.swarm \in Swarm \cup {NoSwarm}
      <4>1. PICK c : c = craft[v]
        OBVIOUS
      <4>2. c.formation \in Formation
        BY <1>0, <2>1, <4>1 DEF InTheAir
      <4> QED
        BY <4>1, <4>2 DEF Formation
    <3>3. HasCard(v) => HasCard(v)'
      BY <1>6, <3>1, <3>2 DEF HasCard
    <3> QED
      BY <1>0, <1>10, <2>1, <3>3, CardedKept
  <2> QED
    BY <2>2, <2>3
<1>11. AllCarded'
  BY <1>8, <1>10 DEF AllCarded
<1> QED
  BY <1>4, <1>7, <1>9, <1>11 DEF FoundInv

\* Asking, discovering, leaving the panel and what goes wrong: whom the page does not hear
\* of is excused.
LEMMA AskingFound ==
  ASSUME FoundInv,
         \/ readFromVehicles \/ raiseLink \/ restartBridge \/ dropLink \/ connect \/ switchTab
         \/ \E v \in Node :
              heartbeat(v) \/ companionHeartbeat(v) \/ publishStatus(v) \/ loseRequest(v)
  PROVE  AllNamed' /\ AllInOrder' /\ AllCarded' /\ NobodyForgotten'
<1>0. NobodyForgotten
  BY DEF FoundInv
<1>1. UNCHANGED <<craft, card, script, earlier>>
  BY DEF readFromVehicles, raiseLink, restartBridge, dropLink, connect, switchTab, forget, heartbeat,
         companionHeartbeat, publishStatus, loseRequest, fleet, page, scripts
<1>2. \A s \in Scripts : s.members \cap excused \subseteq excused'
  <2>1. excused \cap Concerned(script, earlier) \subseteq excused'
    BY <1>1 DEF readFromVehicles, raiseLink, restartBridge, dropLink, connect, switchTab, forget,
       heartbeat, companionHeartbeat, publishStatus, loseRequest, history
  <2>2. \A s \in Scripts : s.members \subseteq Concerned(script, earlier)
    BY DEF Scripts, Concerned
  <2> QED
    BY <2>1, <2>2
<1>3. Scripts' = Scripts
  BY <1>1 DEF Scripts
<1>4. NobodyForgotten'
  <2>1. \A v \in Node : Unknown(v)' => Unknown(v)
    BY <1>1 DEF Unknown
  <2>2. CASE readFromVehicles \/ connect
    <3>1. known' \subseteq requests'
      BY <2>2 DEF readFromVehicles, connect, forget, page
    <3> QED
      BY <3>1 DEF NobodyForgotten, Expected
  <2>3. CASE dropLink
    <3>1. answers' = {} /\ excused' = excused \cup {r.from : r \in answers}
          /\ UNCHANGED <<known, companions, requests>>
      BY <2>3 DEF dropLink
    <3> QED
      BY <1>0, <1>1, <2>1, <3>1 DEF NobodyForgotten, Expected
  <2>4. CASE raiseLink \/ restartBridge \/ switchTab \/ \E v \in Node : publishStatus(v)
    <3>1. UNCHANGED <<known, companions, requests, answers, excused>>
      BY <2>4 DEF raiseLink, restartBridge, switchTab, publishStatus, page, traffic, history
    <3> QED
      BY <1>0, <1>1, <2>1, <3>1 DEF NobodyForgotten, Expected
  <2>5. ASSUME NEW v \in Node, heartbeat(v)
        PROVE  NobodyForgotten'
    <3>1. /\ known' = known \cup {v} /\ requests' = requests \cup {v}
          /\ UNCHANGED <<companions, answers, excused>>
      BY <2>5 DEF heartbeat, history
    <3> QED
      BY <1>0, <1>1, <2>1, <3>1 DEF NobodyForgotten, Expected
  <2>6. ASSUME NEW v \in Node, companionHeartbeat(v)
        PROVE  NobodyForgotten'
    <3>1. /\ \/ companions' = companions \cup {v} /\ requests' = requests \cup {v}
             \/ companions' = companions /\ requests' = requests
          /\ UNCHANGED <<known, answers, excused>>
      BY <2>6 DEF companionHeartbeat, history
    <3> QED
      BY <1>0, <1>1, <2>1, <3>1 DEF NobodyForgotten, Expected
  <2>7. ASSUME NEW v \in Node, loseRequest(v)
        PROVE  NobodyForgotten'
    <3>1. /\ requests' = requests \ {v} /\ excused' = excused \cup {v}
          /\ UNCHANGED <<known, companions, answers>>
      BY <2>7 DEF loseRequest, page
    <3> QED
      BY <1>0, <1>1, <2>1, <3>1 DEF NobodyForgotten, Expected
  <2> QED
    BY <2>2, <2>3, <2>4, <2>5, <2>6, <2>7
<1>5. Scripts' \subseteq Scripts \cup {NoScript} /\ craft' = craft
      /\ \A i \in Swarm : card'[i] = NoCard => card[i] = NoCard
  BY <1>1, <1>3
<1>6. AllNamed' /\ AllInOrder' /\ AllCarded'
  BY <1>2, <1>5, SceneFound
<1> QED
  BY <1>4, <1>6

\* Whoever flies, is asked and is not outdated answers with its swarm.
LEMMA AnswerFound ==
  ASSUME FoundInv, NEW v \in Node, answer(v)
  PROVE  AllNamed' /\ AllInOrder' /\ AllCarded' /\ NobodyForgotten'
<1>0. NobodyForgotten /\ InTheAir /\ Grounded /\ AllNamed
  BY DEF FoundInv, CInv
<1> DEFINE asked == craft[v].mode # "external" \/ v \in registered
           comes == asked /\ linkUp /\ Restorable(statusOf(v))
<1>1. /\ requests' = requests \ {v}
      /\ UNCHANGED <<craft, card, script, earlier, known, companions>>
      /\ answers' = IF comes THEN answers \cup {statusOf(v)} ELSE answers
      /\ excused' = IF (~linkUp /\ v \in known) \/ (~asked /\ v \in companions) \/ Outdated(v)
                    THEN excused \cup {v} ELSE excused
  BY DEF answer, fleet, page, scripts
<1>2. ASSUME NEW x \in Node \ excused', Unknown(x)
      PROVE  \/ x \notin known \/ x \in requests'
             \/ craft[x].mode = "external" /\ x \notin companions
             \/ \E r \in answers' : r.from = x /\ r.swarm = craft[x].formation.swarm
  <2>1. CASE x # v
    BY <1>0, <1>1, <1>2, <2>1 DEF NobodyForgotten, Expected
  <2>2. CASE x = v /\ ~Outdated(v)
    <3>1. /\ statusOf(v).from = v /\ statusOf(v).swarm = craft[v].formation.swarm
          /\ statusOf(v).nodes = craft[v].formation.nodes /\ statusOf(v).mode = craft[v].mode
      BY <2>2 DEF Outdated, statusOf
    <3>2. /\ craft[v].mode # "Other" /\ craft[v].formation.swarm \in Swarm
          /\ Listed(craft[v].formation.nodes) # {}
      <4>1. /\ craft[v] \in [mode : Mode, formation : Formation] /\ Sound(craft[v].formation, v)
            /\ craft[v].mode = "Other" => craft[v].formation = NewFormation
            /\ Named(craft[v].formation)
        BY <1>0 DEF InTheAir, Grounded, AllNamed
      <4> QED
        BY <1>2, <2>2, <4>1, FlightNamed DEF Unknown
    <3>3. Restorable(statusOf(v))
      BY <3>1, <3>2, SwarmAssumption DEF Restorable
    <3> QED
      BY <1>1, <1>2, <2>2, <3>1, <3>3
  <2> QED
    BY <1>1, <1>2, <2>1, <2>2
<1>3. NobodyForgotten'
  BY <1>1, <1>2 DEF NobodyForgotten, Expected, Unknown
<1> HIDE DEF comes, asked
<1>4. excused \subseteq excused'
  BY <1>1
<1>5. Scripts' = Scripts
  BY <1>1 DEF Scripts
<1>6. Scripts' \subseteq Scripts \cup {NoScript} /\ craft' = craft
      /\ \A i \in Swarm : card'[i] = NoCard => card[i] = NoCard
  BY <1>1, <1>5
<1> QED
  BY <1>3, <1>4, <1>6, SceneFound

\* An answer that is taken leaves a card of its swarm, the end of a script one of its own:
\* no step of the page itself takes a card away.
LEMMA MoreCards ==
  ASSUME FoundInv, NEW id \in Swarm, card'[id] # NoCard,
         \A i \in Swarm : i # id => card'[i] = card[i],
         UNCHANGED <<craft, known, companions, requests, excused>>,
         \A r \in answers : r \in answers' \/ r.swarm = id,
         Scripts' \subseteq Scripts \cup {NoScript}
  PROVE  AllNamed' /\ AllInOrder' /\ AllCarded' /\ NobodyForgotten'
<1>0. NobodyForgotten /\ InTheAir /\ Grounded /\ AllNamed
  BY DEF FoundInv, CInv
<1>1. \A i \in Swarm : card'[i] = NoCard => card[i] = NoCard
  OBVIOUS
<1>2. NobodyForgotten'
  <2> SUFFICES ASSUME NEW v \in Node \ excused', Unknown(v)'
               PROVE  Expected(v)'
    BY DEF NobodyForgotten
  <2>1. craft[v].formation.swarm \in Swarm
    <3>1. /\ craft[v] \in [mode : Mode, formation : Formation] /\ Sound(craft[v].formation, v)
          /\ craft[v].mode = "Other" => craft[v].formation = NewFormation
          /\ Named(craft[v].formation)
      BY <1>0 DEF InTheAir, Grounded, AllNamed
    <3> QED
      BY <3>1, FlightNamed DEF Unknown
  <2>2. craft[v].formation.swarm # id /\ Unknown(v)
    BY <1>1, <2>1 DEF Unknown
  <2>3. Expected(v)
    BY <1>0, <2>2 DEF NobodyForgotten
  <2> QED
    BY <2>2, <2>3 DEF Expected
<1> QED
  BY <1>1, <1>2, SceneFound

\* An answer that is taken leaves a card.
LEMMA RestoreFound ==
  ASSUME FoundInv, NEW r \in answers, restoreSwarm(r)
  PROVE  AllNamed' /\ AllInOrder' /\ AllCarded' /\ NobodyForgotten'
<1> DEFINE new == [leader |-> r.leader, members |-> Listed(r.nodes), slots |-> r.nodes,
                   mode |-> r.mode, restored |-> TRUE,
                   status |-> IF r.collecting THEN "deploying" ELSE "active"]
<1>0. OnThePage /\ InTraffic
  BY DEF FoundInv, CInv
<1>1. PICK id : id = r.swarm
  OBVIOUS
<1>2. id \in Swarm
  BY <1>0, <1>1 DEF InTraffic, AnswerOK, Answer
<1>3. /\ answers' = answers \ {r}
      /\ \/ card' = card /\ card[id].status # "none"
         \/ card' = [card EXCEPT ![id] = new]
      /\ UNCHANGED <<craft, known, companions, script, earlier, requests, excused>>
  BY <1>1 DEF restoreSwarm, fleet, scripts, history
<1>4. new.restored
  OBVIOUS
<1> HIDE DEF new
<1>5. card'[id] # NoCard /\ \A i \in Swarm : i # id => card'[i] = card[i]
  BY <1>0, <1>2, <1>3, <1>4 DEF OnThePage, NoCard
<1>6. \A x \in answers : x \in answers' \/ x.swarm = id
  BY <1>1, <1>3
<1>7. Scripts' \subseteq Scripts \cup {NoScript}
  BY <1>3 DEF Scripts
<1> QED
  BY <1>2, <1>3, <1>5, <1>6, <1>7, MoreCards

\* The end of a script leaves a card.
LEMMA FinishFound ==
  ASSUME FoundInv, finishScript \/ \E e \in earlier : finishEarlier(e)
  PROVE  AllNamed' /\ AllInOrder' /\ AllCarded' /\ NobodyForgotten'
<1>0. OnThePage
  BY DEF FoundInv, CInv
<1>1. PICK s \in Running : merge(s) /\ Scripts' \subseteq Scripts \cup {NoScript}
  <2>1. CASE finishScript
    <3>1. script \in Running /\ merge(script)
      BY <1>0, <2>1 DEF finishScript, OnThePage
    <3>2. Scripts' \subseteq Scripts \cup {NoScript}
      BY <2>1 DEF finishScript, Scripts
    <3> QED
      BY <3>1, <3>2
  <2>2. ASSUME NEW e \in earlier, finishEarlier(e)
        PROVE  \E s \in Running : merge(s) /\ Scripts' \subseteq Scripts \cup {NoScript}
    <3>1. e.script \in Running /\ merge(e.script)
      BY <1>0, <2>2 DEF finishEarlier, OnThePage, Begun
    <3>2. Scripts' \subseteq Scripts \cup {NoScript}
      BY <2>2 DEF finishEarlier, Scripts
    <3> QED
      BY <3>1, <3>2
  <2> QED
    BY <2>1, <2>2
<1>2. PICK id : id = s.swarm
  OBVIOUS
<1>3. id \in Swarm
  BY <1>2 DEF Running
<1>4. card'[id] # NoCard /\ \A i \in Swarm : i # id => card'[i] = card[i]
  BY <1>0, <1>1, <1>2, MergeEffect
<1>5. UNCHANGED <<craft, known, companions, requests, answers, excused>>
  BY <1>1 DEF merge, fleet, traffic
<1> QED
  BY <1>1, <1>3, <1>4, <1>5, MoreCards

\* A reload forgets all cards, and will hear of everybody.
LEMMA ReloadFound ==
  ASSUME FoundInv, reload
  PROVE  AllNamed' /\ AllInOrder' /\ AllCarded' /\ NobodyForgotten'
<1>1. craft' = craft /\ script' = NoScript /\ earlier' = {} /\ known' = {}
  BY DEF reload, forget, fleet
<1>2. Scripts' = {NoScript}
  BY <1>1 DEF Scripts
<1>3. AllInOrder' /\ AllCarded'
  BY <1>2, NoScriptInOrder DEF AllInOrder, AllCarded
<1> QED
  BY <1>1, <1>3 DEF FoundInv, AllNamed, NobodyForgotten, Expected

\* At first nobody flies.
LEMMA FoundInit == Init => FoundInv
<1> SUFFICES ASSUME Init PROVE FoundInv
  OBVIOUS
<1>1. CInv /\ Grounded
  BY AgreeInit DEF AgreeInv
<1>2. ~Flying(In("Other").formation) /\ Named(In("Other").formation)
  BY DEF In, Flying, Complete, NewFormation, Named
<1>3. Scripts = {NoScript}
  BY DEF Init, Scripts
<1>4. AllInOrder /\ AllCarded
  BY <1>3, NoScriptInOrder DEF AllInOrder, AllCarded
<1> QED
  BY <1>1, <1>2, <1>4 DEF Init, FoundInv, AllNamed, NobodyForgotten, Unknown

\* Every step keeps the invariant.
LEMMA FoundStep == FoundInv /\ [Next]_vars => FoundInv'
<1> SUFFICES ASSUME FoundInv, [Next]_vars
             PROVE  FoundInv'
  OBVIOUS
<1>0. CInv' /\ Grounded'
  BY CInvStep, GroundedStep DEF FoundInv
<1>1. CASE Operator
  <2>1. ASSUME NEW lost \in Losses, NEW d \in Deployments, deploySwarm(d, lost)
        PROVE  FoundInv'
    BY <1>0, <2>1, DeployFound
  <2>2. ASSUME NEW lost \in Losses, NEW id \in Swarm, NEW slots \in Formations,
               updateFormation(id, slots, lost)
        PROVE  FoundInv'
    BY <1>0, <2>2, UpdateFound
  <2>3. ASSUME NEW lost \in Losses, NEW id \in Swarm, dissolveSwarm(id, lost)
        PROVE  FoundInv'
    BY <1>0, <2>3, DissolveFound
  <2>4. CASE readFromVehicles \/ connect \/ reload \/ switchTab
    BY <1>0, <2>4, AskingFound, ReloadFound DEF FoundInv
  <2> QED
    BY <1>1, <2>1, <2>2, <2>3, <2>4 DEF Operator
<1>2. CASE Timers
  <2>1. CASE finishScript \/ \E e \in earlier : finishEarlier(e)
    BY <1>0, <2>1, FinishFound DEF FoundInv
  <2>2. ASSUME NEW lost \in Losses,
               publishNext(lost) \/ \E e \in earlier : publishEarlier(e, lost)
        PROVE  FoundInv'
    BY <1>0, <2>2, PublishNextFound
  <2> QED
    BY <1>2, <2>1, <2>2 DEF Timers
<1>3. CASE Restore
  BY <1>0, <1>3, RestoreFound DEF Restore, FoundInv
<1>4. CASE raiseLink \/ Fault
  BY <1>0, <1>4, AskingFound DEF Fault, FoundInv
<1>5. ASSUME NEW v \in Node, Telemetry(v)
      PROVE  FoundInv'
  <2>1. CASE answer(v)
    BY <1>0, <2>1, AnswerFound DEF FoundInv
  <2>2. CASE heartbeat(v) \/ companionHeartbeat(v) \/ publishStatus(v)
    BY <1>0, <2>2, AskingFound DEF FoundInv
  <2> QED
    BY <1>5, <2>1, <2>2 DEF Telemetry
<1>6. CASE UNCHANGED vars
  <2>1. UNCHANGED <<craft, card, script, earlier, known, companions, requests, answers, excused>>
    BY <1>6 DEF vars, fleet, page, scripts, traffic, history
  <2>4. Scripts' = Scripts
    BY <2>1 DEF Scripts
  <2>2. AllNamed' /\ AllInOrder' /\ AllCarded'
    BY <2>1, <2>4, SceneFound
  <2>3. NobodyForgotten'
    BY <2>1 DEF FoundInv, NobodyForgotten, Unknown, Expected
  <2> QED
    BY <1>0, <2>2, <2>3 DEF FoundInv
<1> QED
  BY <1>1, <1>2, <1>3, <1>4, <1>5, <1>6 DEF Next

\* In any fleet, with any deployments, operations, lost messages, reconnections, reloads
\* and bridge restarts, even with scripts that overlap and ids that are used again: whoever
\* flies in a swarm that has no card on the page is still to be discovered, is being asked,
\* or has answered, unless it missed a message, its answer was lost or outdated, or its
\* card was taken, also while a script was still on its way to it.
THEOREM NobodyIsForgotten == Spec => []NobodyForgotten
<1>1. Init => FoundInv
  BY FoundInit
<1>2. FoundInv /\ [Next]_vars => FoundInv'
  BY FoundStep
<1>3. FoundInv => NobodyForgotten
  BY DEF FoundInv
<1> QED
  BY <1>1, <1>2, <1>3, PTL DEF Spec
=============================================================================
