----------------------------- MODULE SwarmFleet -----------------------------
(***************************************************************************)
(* A ground station deploys, changes and dissolves swarms of PX4 vehicles   *)
(* that fly the internal mode: web_app/src/lib/commands.js sends a script of*)
(* messages, one link per vehicle carries them (MQTT, bridge, UDP, MAVLink),*)
(* and every vehicle runs FlightTaskSwarm.                                  *)
(*                                                                          *)
(* The script waits 150 to 1500 ms between messages and a vehicle takes     *)
(* about 20 ms to act on one: a message normally meets a vehicle that has   *)
(* dealt with the one before. At most MaxFaults things go wrong: messages are *)
(* lost (a refused mode change counts as one) or come bunched (the bridge    *)
(* sleeps in its MQTT callback, a radio stalls), tabs are switched under a   *)
(* script, so that another may begin beside it.                             *)
(***************************************************************************)
EXTENDS FlightTaskSwarm, SequencesExt

CONSTANTS
  Members,        \* all vehicles in the order of their ids
  Leaders,        \* the vehicles an operator may make the leader
  Formations,     \* the slot assignments an operator may pick
  MaxFaults, MaxScripts, MaxOperations, LinkBound    \* bounds

ASSUME FleetAssumption ==
  /\ Members \in Seq(Node)
  /\ ToSet(Members) = Px4 /\ Px4 = Node /\ Len(Members) = Cardinality(Px4)
  /\ Leaders \subseteq Node
  /\ Formations \subseteq [Node -> Slot]
  /\ MaxFaults \in Nat /\ MaxScripts \in Nat /\ MaxOperations \in Nat
  /\ LinkBound \in Nat \ {0}

VARIABLES
  record,      \* record[id]: the ground station's card of swarm id
  script,      \* the deployment or formation change that began last, while it runs
  todo,        \* messages it has yet to send
  earlier,     \* those that began before it and still run
  busy,        \* the panel knows of a running script
  link,        \* link[v]: messages on their way to v
  clean,       \* no fault since the last operation began, alone and under a new id
  overlapped,  \* a script began while another ran (history)
  reused,      \* a swarm id was given out again to somebody who knows it (history)
  announced,   \* no announcement of a formation was ever lost
  lost, rushed, switched, operations,      \* counted for the bounds
  sent         \* sent[id]: formations sent for swarm id (history)

station   == <<record, script, todo, earlier, busy>>
counted   == <<lost, rushed, switched, operations>>
fleetVars == <<station, link, clean, overlapped, reused, announced, counted, sent>>
allVars == <<vars, fleetVars>>

NoRecord == [leader |-> NoNode, slots |-> EmptyList, status |-> "none"]
NoScript == [type |-> "none", swarm |-> NoSwarm, slots |-> EmptyList]

Mode(mode)      == [kind |-> "mode", mode |-> mode]
Configure(m)    == [kind |-> "management", message |-> m]
Place(m)        == [kind |-> "node", message |-> m]

Packet == [kind : {"mode"}, mode : {"Swarm", "Other"}]
            \cup [kind : {"management"}, message : Management]
            \cup [kind : {"node"}, message : NodeMessage]

-----------------------------------------------------------------------------
(***************************************************************************)
(* The scripts of commands.js.                                              *)
(***************************************************************************)
\* The leader is left out.
management_messageWrong(type, id, leader) ==
  Configure([type |-> type, swarm |-> id, count |-> Len(Members), leader |-> NoNode])

management_message(type, id, leader) ==
  Configure([type |-> type, swarm |-> id, count |-> Len(Members), leader |-> leader])

node_messages(id, slots) ==
  [i \in 1..Len(Members) |->
     Place([swarm |-> id, node |-> Members[i], slot |-> slots[Members[i]]])]

\* Every member gets its slot before it hears of the swarm (a mistake, see
\* SwarmFormation).
deployScriptWrong(id, leader, slots) ==
  <<Mode("Swarm")>> \o node_messages(id, slots) \o <<management_message("create", id, leader)>>

deployScript(id, leader, slots) ==
  <<Mode("Swarm"), management_message("create", id, leader)>> \o node_messages(id, slots)

updateScript(id, leader, slots) ==
  <<management_message("update", id, leader)>> \o node_messages(id, slots)

\* A card without members, on which the panel throws: a script that ends
\* after its swarm was dissolved, or lost its card to another one, writes one.
Ghost(id) == record[id].status # "none" /\ record[id].leader = NoNode

\* A script sends its first message as soon as its button is pressed.
Opened ==
  todo # <<>> => Head(todo).kind # IF script.type = "create" THEN "mode" ELSE "management"

\* After a fault in the last operation nothing could repair it.
MayFail == lost + rushed + switched < MaxFaults /\ operations < MaxOperations

\* The operator may press a button.
Usable == operations < MaxOperations /\ Opened /\ ~ \E id \in Swarm : Ghost(id)

\* The panel starts one script at a time, as long as it knows of the running one.
Ready ==
  /\ Usable /\ ~busy
  /\ script = NoScript \/ Cardinality(earlier) + 1 < MaxScripts

\* The panel of another tab takes the place of this one: what step its script is at
\* is forgotten, the script runs on.
switchTab ==
  /\ busy /\ MayFail
  /\ busy' = FALSE
  /\ switched' = switched + 1
  /\ UNCHANGED <<vars, record, script, todo, earlier, link, clean, overlapped, reused, announced,
                 lost, rushed, operations, sent>>

Alone == script = NoScript /\ earlier = {}

begin(type, id, slots, messages) ==
  /\ script' = [type |-> type, swarm |-> id, slots |-> slots]
  /\ todo' = messages
  /\ earlier' = (IF script = NoScript THEN earlier
                 ELSE earlier \cup {[number |-> operations, script |-> script, todo |-> todo]})
  /\ busy' = TRUE
  /\ sent' = [sent EXCEPT ![id] = @ \cup {slots}]
  /\ overlapped' = (overlapped \/ ~Alone)
  /\ operations' = operations + 1
  /\ UNCHANGED <<vars, link, announced, lost, rushed, switched>>

\* Somebody has heard of swarm id, or will.
Knows(v, id) ==
  \/ formation[v].swarm = id
  \/ management[v].last # Nothing /\ management[v].last.swarm = id
  \/ \E i \in 1..Len(link[v]) :
       link[v][i].kind = "management" /\ link[v][i].message.swarm = id

\* The form proposes the smallest free id, which an earlier swarm may have had, and
\* the operator may take any other. Ids are only ever compared for equality:
\* one of those that were never sent stands for all of them.
free(id) ==
  /\ record[id] = NoRecord
  /\ sent[id] = {} => id = CHOOSE i \in Swarm : sent[i] = {}

\* All vehicles are members, so any other swarm loses its members and is gone.
deploySwarm(id, leader, slots) ==
  LET new == \A v \in Px4 : ~Knows(v, id)
  IN  /\ Ready /\ free(id)
      /\ record' = [i \in Swarm |-> IF i = id
                                    THEN [leader |-> leader, slots |-> slots, status |-> "deploying"]
                                    ELSE NoRecord]
      /\ begin("create", id, slots, deployScript(id, leader, slots))
      /\ clean' = (Alone /\ new)
      /\ reused' = (reused \/ ~new)

updateFormation(id, slots) ==
  /\ Ready
  /\ record[id] # NoRecord
  /\ begin("update", id, slots, updateScript(id, record[id].leader, slots))
  /\ clean' = Alone
  /\ UNCHANGED <<record, reused>>

room == \A v \in Px4 : Len(link[v]) < LinkBound

broadcast(packet) == link' = [v \in Px4 |-> Append(link[v], packet)]

\* The pauses of a script are fixed, and those of an update are shorter: nothing
\* overtakes but an update, and it only a deployment, which waits until all of the
\* update is sent (some of its slots may be passed by one of the deployment's: left out).
InTurn(type, messages, before) ==
  \A e \in before :
    (type = "update" /\ e.script.type = "create") \/ Len(e.todo) < Len(messages)

Before(e) == {d \in earlier : d.number < e.number}

Overtaken(e) ==
  LET passedBy(type, messages) ==
        type = "update" /\ messages # <<>> /\ Len(messages) < Len(e.todo)
  IN  /\ e.script.type = "create"
      /\ \/ passedBy(script.type, todo)
         \/ \E d \in earlier : d.number > e.number /\ passedBy(d.script.type, d.todo)

publishNext ==
  /\ todo # <<>> /\ room /\ InTurn(script.type, todo, earlier)
  /\ broadcast(Head(todo))
  /\ todo' = Tail(todo)
  /\ UNCHANGED <<vars, record, script, earlier, busy, clean, overlapped, reused, announced,
                 counted, sent>>

publishEarlier(e) ==
  /\ e.todo # <<>> /\ room /\ InTurn(e.script.type, e.todo, Before(e)) /\ ~Overtaken(e)
  /\ broadcast(Head(e.todo))
  /\ earlier' = (earlier \ {e}) \cup {[e EXCEPT !.todo = Tail(@)]}
  /\ UNCHANGED <<vars, record, script, todo, busy, clean, overlapped, reused, announced,
                 counted, sent>>

\* The end of a script is merged into the card of its swarm, or into none. A
\* deployment's card has had its slots from the start, an update's gets them now.
merge(s) ==
  record' = [record EXCEPT ![s.swarm].status = "active",
                           ![s.swarm].slots = IF s.type = "update" THEN s.slots ELSE @]

finishScript ==
  /\ script # NoScript /\ todo = <<>> /\ InTurn(script.type, todo, earlier)
  /\ merge(script)
  /\ script' = NoScript
  /\ busy' = FALSE
  /\ UNCHANGED <<vars, todo, earlier, link, clean, overlapped, reused, announced, counted, sent>>

finishEarlier(e) ==
  /\ e.todo = <<>> /\ InTurn(e.script.type, e.todo, Before(e))
  /\ merge(e.script)
  /\ earlier' = earlier \ {e}
  /\ UNCHANGED <<vars, script, todo, busy, link, clean, overlapped, reused, announced,
                 counted, sent>>

\* The card goes at once, also while its script runs; a vehicle that does not
\* hear of it flies on.
dissolveSwarm(id) ==
  /\ Usable /\ room
  /\ record[id] # NoRecord
  /\ record' = [record EXCEPT ![id] = NoRecord]
  /\ broadcast(Mode("Other"))
  /\ clean' = FALSE
  /\ operations' = operations + 1
  /\ UNCHANGED <<vars, script, todo, earlier, busy, overlapped, reused, announced, lost, rushed,
                 switched, sent>>

-----------------------------------------------------------------------------
(***************************************************************************)
(* The links.                                                               *)
(***************************************************************************)
\* v has dealt with everything it received.
Settled(v) ==
  /\ (nav[v] = "Swarm") = task[v]
  /\ task[v] => ~Unread(management[v]) /\ ~Unread(node[v])
  /\ ~holdAsked[v]

receive(v) ==
  LET packet == Head(link[v])
  IN  CASE packet.kind = "mode"       -> SetMode(v, packet.mode)
        [] packet.kind = "management" -> handle_message_swarm_management(v, packet.message)
        [] packet.kind = "node"       -> handle_message_swarm_node(v, packet.message)

deliver(v) ==
  /\ link[v] # <<>> /\ Settled(v)
  /\ link' = [link EXCEPT ![v] = Tail(@)]
  /\ receive(v)
  /\ UNCHANGED <<station, clean, overlapped, reused, announced, counted, sent>>

\* A message comes before v has dealt with an earlier one.
rush(v) ==
  /\ link[v] # <<>> /\ ~Settled(v)
  /\ MayFail
  /\ rushed' = rushed + 1
  /\ clean' = FALSE
  /\ link' = [link EXCEPT ![v] = Tail(@)]
  /\ receive(v)
  /\ UNCHANGED <<station, overlapped, reused, announced, lost, switched, operations, sent>>

lose(v) ==
  /\ link[v] # <<>>
  /\ MayFail
  /\ lost' = lost + 1
  /\ announced' = (announced /\ Head(link[v]).kind # "management")
  /\ clean' = FALSE
  /\ link' = [link EXCEPT ![v] = Tail(@)]
  /\ UNCHANGED <<vars, station, overlapped, reused, rushed, switched, operations, sent>>

-----------------------------------------------------------------------------
FleetInit ==
  /\ Init
  /\ record = [id \in Swarm |-> NoRecord]
  /\ script = NoScript /\ todo = <<>>
  /\ earlier = {} /\ busy = FALSE
  /\ link = [v \in Px4 |-> <<>>]
  /\ clean = FALSE /\ overlapped = FALSE /\ reused = FALSE /\ announced = TRUE
  /\ lost = 0 /\ rushed = 0 /\ switched = 0 /\ operations = 0
  /\ sent = [id \in Swarm |-> {}]

Timers ==
  \/ publishNext \/ finishScript
  \/ \E e \in earlier : publishEarlier(e) \/ finishEarlier(e)

GroundStation ==
  \/ \E id \in Swarm, slots \in Formations :
        \/ \E leader \in Leaders : deploySwarm(id, leader, slots)
        \/ updateFormation(id, slots)
  \/ \E id \in Swarm : dissolveSwarm(id)
  \/ switchTab
  \/ Timers

Flight(v) == UNCHANGED fleetVars /\ Vehicle(v)

FleetNext ==
  \/ GroundStation
  \/ \E v \in Px4 : Flight(v) \/ deliver(v) \/ rush(v) \/ lose(v)

\* The flight mode manager loops, Commander executes, timers of the script run
\* out and a message that is not lost arrives. Nobody has to press a button.
UnderWay == Timers \/ \E v \in Px4 : Flight(v) \/ deliver(v)
Fairness == WF_allVars(UnderWay)

FleetSpec == FleetInit /\ [][FleetNext]_allVars /\ Fairness

-----------------------------------------------------------------------------
Quiet == Alone /\ \A v \in Px4 : link[v] = <<>> /\ Settled(v)

Card == [leader : Node \cup {NoNode}, slots : List,
         status : {"none", "deploying", "active"}]

Script == [type : {"none", "create", "update"}, swarm : Swarm \cup {NoSwarm}, slots : List]
Running == [number : 0..MaxOperations, script : Script, todo : Seq(Packet)]

\* Type invariant.
FleetTypeOK ==
  /\ TypeOK
  /\ record \in [Swarm -> Card]
  /\ script \in Script /\ todo \in Seq(Packet)
  /\ earlier \subseteq Running /\ busy \in BOOLEAN
  /\ link \in [Px4 -> Seq(Packet)]
  /\ clean \in BOOLEAN /\ overlapped \in BOOLEAN /\ reused \in BOOLEAN /\ announced \in BOOLEAN
  /\ lost \in 0..MaxFaults /\ rushed \in 0..MaxFaults /\ switched \in 0..MaxFaults
  /\ operations \in 0..MaxOperations
  /\ sent \in [Swarm -> SUBSET Formations]

\* v flies, as a follower, exactly what the card of swarm id shows.
FliesCard(v, id) ==
  /\ nav[v] = "Swarm"
  /\ Flying(formation[v]) /\ ~formation[v].updating
  /\ formation[v].swarm = id
  /\ formation[v].nodes = record[id].slots
  /\ formation[v].leader = record[id].leader

\* What a vehicle flies are the slots of one formation that was sent for its swarm.
FliesOne(v) == Flying(formation[v]) => formation[v].nodes \in sent[formation[v].swarm]

\* "followers never fly a mix of old and new slots", also when slots are lost
\* ("If a SWARM_NODE is lost the follower simply stays in the old formation"),
\* unless an announcement was lost, a message came early, two scripts ran at once or
\* somebody already knew the id of a new swarm.
NeverFliesMix ==
  announced /\ rushed = 0 /\ ~overlapped /\ ~reused => \A v \in Px4 : FliesOne(v)

\* Whatever went wrong before, once all messages of a script arrived in time, no
\* other ran meanwhile and nobody knew the id of its new swarm, every vehicle
\* still in the Swarm mode flies what the card shows.
CleanScriptConverges ==
  Quiet /\ clean =>
    \A id \in Swarm, v \in Px4 :
      record[id].leader \notin {NoNode, v} /\ nav[v] = "Swarm" => FliesCard(v, id)

\* "the leader switches itself to Hold", and nobody else: a vehicle that asks
\* for Hold is not a follower on any card.
FollowersStay ==
  \A v \in Px4, id \in Swarm : holdAsked[v] => record[id].leader \in {NoNode, v}

\* Scripts end. One whose swarm is not dissolved ends with all followers in the new
\* formation and the leader in Hold.
EveryScriptFlies ==
  script # NoScript ~>
    /\ Quiet
    /\ \/ lost + rushed > 0 \/ overlapped \/ reused
       \/ \A id \in Swarm : record[id].leader # NoNode =>
            \A v \in Px4 : IF v = record[id].leader THEN nav[v] = "Other" ELSE FliesCard(v, id)

(***************************************************************************)
(* A promise of the docs that the code does not keep; runs show how.         *)
(***************************************************************************)
\* "followers never fly a mix of old and new slots": if nothing is lost or early,
\* those a vehicle flies are of one formation that was sent, be it for another swarm.
FliesOneFormation ==
  announced /\ rushed = 0 =>
    \A v \in Px4 :
      Flying(formation[v]) => \E id \in Swarm : formation[v].nodes \in sent[id]
=============================================================================
