----------------------------- MODULE SwarmCards -----------------------------
(***************************************************************************)
(* What the ground station's page knows of the swarms that fly: its cards    *)
(* (web_app/src/store.js), the operations on them (SwarmPanel.jsx,           *)
(* commands.js), and how a page that was reloaded rebuilds them from the     *)
(* SWARM_STATUS of the vehicles (link/index.js), through the bridge.         *)
(*                                                                          *)
(* A vehicle deals with a message when it gets it; latched messages are in   *)
(* SwarmFleet. A request, an answer and a status published every 500 ms may  *)
(* take any time.                                                           *)
(***************************************************************************)
EXTENDS SwarmFormation, SequencesExt

CONSTANTS
  WithNode,       \* vehicles with a ROS 2 node
  Deployments,    \* what an operator may deploy: swarm, leader, members, slots, mode
  Formations,     \* the slot assignments an operator may change to
  MaxFaults, MaxEvents, MaxScripts, AnswerBound    \* bounds; an event is an operation
                                                   \* or a fault

Mode == {"Other", "internal", "external"}

ASSUME CardsAssumption ==
  /\ WithNode \subseteq Node
  /\ \A d \in Deployments :
       /\ d.swarm \in Swarm /\ d.members \subseteq Node /\ d.leader \in d.members
       /\ d.mode \in {"internal", "external"} /\ d.slots \in [Node -> Slot]
  /\ Formations \subseteq [Node -> Slot]
  /\ MaxFaults \in Nat /\ MaxEvents \in Nat /\ MaxScripts \in Nat /\ AnswerBound \in Nat

VARIABLES
  craft,         \* craft[v]: mode and formation of a vehicle
  published,     \* published[v]: the formation of the last swarm_status topic
  registered,    \* the vehicles whose ROS 2 node the bridge knows
  linkUp,        \* the page is connected to the broker
  card,          \* card[id]: the card of a swarm
  known,         \* vehicles discovered and asked for their swarm since connecting
  companions,    \* vehicles whose ROS 2 node the page knows
  script,        \* the deployment or formation change that began last, while it runs
  earlier,       \* those that began before it and still run
  busy,          \* the panel knows of a running script
  requests,      \* vehicles that are being asked
  answers,       \* SWARM_STATUS on their way to the page
  clean,         \* nothing went wrong since a script that reached everybody (history)
  excused,       \* vehicles of which the page cannot know (history)
  faults, operations      \* counted for the bounds

fleet   == <<craft, published, registered>>
scripts == <<script, earlier, busy>>
page    == <<linkUp, card, known, companions, scripts>>
traffic == <<requests, answers>>
history == <<clean, excused, faults, operations>>
vars    == <<fleet, page, traffic, history>>

NoCard == [leader |-> NoNode, members |-> {}, slots |-> EmptyList, mode |-> "Other",
           status |-> "none", restored |-> FALSE]
NoScript == [type |-> "none", swarm |-> NoSwarm, members |-> {}, slots |-> EmptyList, todo |-> <<>>]

Alone == script = NoScript /\ earlier = {}

\* Those a script is on its way to.
Concerned(s, others) == s.members \cup UNION {e.script.members : e \in others}

\* A card without members, which the panel cannot draw: a script that ends after its
\* swarm was dissolved, or lost its card to another one, writes one.
Ghost(id) == card[id].status # "none" /\ card[id].members = {}

MayOperate == operations + faults < MaxEvents
MayFail    == operations + faults < MaxEvents /\ faults < MaxFaults

\* After an exception in the panel only a reload helps.
Usable == MayOperate /\ ~ \E id \in Swarm : Ghost(id)

\* The panel starts one script at a time, as long as it knows of the running one.
Ready ==
  /\ Usable /\ ~busy
  /\ script = NoScript \/ Cardinality(earlier) + 1 < MaxScripts

-----------------------------------------------------------------------------
(***************************************************************************)
(* Messages to the vehicles.                                                *)
(***************************************************************************)
SetMode(mode) == [kind |-> "mode", message |-> mode]

management(type, id, leader, members) ==
  [kind |-> "management",
   message |-> [type |-> type, swarm |-> id, count |-> Cardinality(members), leader |-> leader]]

\* The slot is read from an offset that is not there.
swarm_nodesWrong(id, members, slots) ==
  LET order == SetToSeq(members)
  IN  [i \in 1..Len(order) |->
         [kind |-> "node", message |-> [swarm |-> id, node |-> order[i], slot |-> NoSlot]]]

swarm_nodes(id, members, slots) ==
  LET order == SetToSeq(members)
  IN  [i \in 1..Len(order) |->
         [kind |-> "node", message |-> [swarm |-> id, node |-> order[i], slot |-> slots[order[i]]]]]

In(mode) == [mode |-> mode, formation |-> NewFormation]

\* A mode keeps its formation only while it is flown. The external mode needs
\* the custom_mode that the node told the bridge.
entered(v, c, mode) ==
  IF mode = c.mode \/ (mode = "external" /\ v \notin registered) THEN c ELSE In(mode)

configured(v, c, m) ==
  IF c.mode = "Other" THEN c
  ELSE IF AsksForHold(c.formation, m, v) THEN In("Other")
  ELSE [c EXCEPT !.formation = onManagement(@, m)]

placed(v, c, m) ==
  IF c.mode = "Other" THEN c ELSE [c EXCEPT !.formation = onNode(@, m, v)]

told(v, c, packet) ==
  CASE packet.kind = "mode"       -> entered(v, c, packet.message)
    [] packet.kind = "management" -> configured(v, c, packet.message)
    [] packet.kind = "node"       -> placed(v, c, packet.message)

\* A packet goes to members; all get it but those it is lost for. A page that
\* is not connected sends to nobody and goes on.
send(packet, members, lost) ==
  LET reached == IF linkUp THEN members \ lost ELSE {}
      now     == [v \in Node |-> IF v \in reached THEN told(v, craft[v], packet) ELSE craft[v]]
  IN  /\ lost \subseteq members
      /\ lost # {} => linkUp /\ MayFail
      /\ craft' = now
      /\ published' = [v \in Node |-> IF now[v].mode # craft[v].mode THEN NewFormation
                                                                    ELSE published[v]]
      /\ faults' = faults + Cardinality(lost)
      /\ UNCHANGED registered

\* Who does not get a packet, though it should.
missed(members, lost) == IF linkUp THEN lost ELSE members

-----------------------------------------------------------------------------
(***************************************************************************)
(* Operations on the cards.                                                 *)
(***************************************************************************)
canDeploy(d) ==
  /\ Ready
  /\ Cardinality(d.members) >= 2 /\ d.members \subseteq known
  /\ card[d.swarm] = NoCard
  /\ d.mode = "external" => d.members \subseteq companions

\* The panel of another tab takes the place of this one: what step its script is at
\* is forgotten, the script runs on.
switchTab ==
  /\ busy /\ MayFail
  /\ busy' = FALSE
  /\ faults' = faults + 1
  /\ UNCHANGED <<fleet, linkUp, card, known, companions, script, earlier, traffic, clean, excused,
                 operations>>

begin(s) ==
  /\ script' = s
  /\ earlier' = (IF script = NoScript THEN earlier
                 ELSE earlier \cup {[number |-> operations, script |-> script]})
  /\ busy' = TRUE

\* A script that goes to everybody in the air, whatever went wrong before; or, if
\* nothing did, one that parts nobody from those it flies with.
Reaches(members) ==
  \A v \in Node \ members :
    craft[v].mode = "Other" \/ (clean /\ Listed(craft[v].formation.nodes) \cap members = {})

\* "A vehicle can only be in one swarm: drop it from any previous one"
without(c, members) ==
  LET remaining == c.members \ members
  IN  IF remaining = c.members THEN c
      ELSE IF Cardinality(remaining) < 2 \/ c.leader \notin remaining THEN NoCard
      ELSE [c EXCEPT !.members = remaining]

deploySwarm(d, lost) ==
  LET shown == [n \in Node |-> IF n \in d.members THEN d.slots[n] ELSE NoSlot]
      left  == [id \in Swarm |-> without(card[id], d.members)]
  IN  /\ canDeploy(d)
      /\ send(SetMode(d.mode), d.members, lost)
      /\ card' = [left EXCEPT ![d.swarm] =
                    [leader |-> d.leader, members |-> d.members, slots |-> shown, mode |-> d.mode,
                     status |-> IF linkUp THEN "deploying" ELSE "failed", restored |-> FALSE]]
      /\ IF linkUp
         THEN begin([type |-> "create", swarm |-> d.swarm, members |-> d.members, slots |-> shown,
                     todo |-> <<management("create", d.swarm, d.leader, d.members)>>
                                \o swarm_nodes(d.swarm, d.members, shown)])
         ELSE UNCHANGED scripts
      /\ excused' = excused \cup missed(d.members, lost)
                       \cup {v \in Node : \E id \in Swarm : /\ craft[v].formation.swarm = id
                                                         /\ card[id] # NoCard
                                                         /\ left[id] = NoCard}
      /\ clean' = (/\ Alone /\ linkUp /\ lost = {} /\ answers = {} /\ Reaches(d.members)
                   /\ \A v \in Node : craft[v].formation.swarm # d.swarm)
      /\ operations' = operations + 1
      /\ UNCHANGED <<linkUp, known, companions, requests, answers>>

\* The form sends a card's own members again. Nothing happens without a link.
updateFormation(id, slots, lost) ==
  LET c     == card[id]
      shown == [n \in Node |-> IF n \in c.members THEN slots[n] ELSE NoSlot]
  IN  /\ Ready /\ linkUp
      /\ Cardinality(c.members) >= 2
      /\ send(management("update", id, c.leader, c.members), c.members, lost)
      /\ begin([type |-> "update", swarm |-> id, members |-> c.members, slots |-> shown,
                todo |-> swarm_nodes(id, c.members, shown)])
      /\ excused' = (excused \ c.members) \cup lost
      /\ clean' = (Alone /\ lost = {} /\ answers = {} /\ Reaches(c.members))
      /\ operations' = operations + 1
      /\ UNCHANGED <<linkUp, card, known, companions, requests, answers>>

\* Whoever is told of a swarm whose card is gone, or is not told, is excused. How
\* fast one script runs beside another is left open.
publish(s, lost) ==
  /\ s.todo # <<>>
  /\ send(Head(s.todo), s.members, lost)
  /\ excused' = (IF Head(s.todo).kind # "management" THEN excused
                 ELSE IF card[s.swarm] = NoCard THEN excused \cup s.members
                      ELSE excused \ s.members) \cup missed(s.members, lost)
  /\ clean' = (clean /\ linkUp /\ lost = {} /\ answers = {})
  /\ UNCHANGED <<linkUp, card, known, companions, busy, requests, answers, operations>>

advance(s) == [s EXCEPT !.todo = Tail(@)]

publishNext(lost) ==
  /\ publish(script, lost)
  /\ script' = advance(script) /\ UNCHANGED earlier

publishEarlier(e, lost) ==
  /\ publish(e.script, lost)
  /\ earlier' = (earlier \ {e}) \cup {[e EXCEPT !.script = advance(@)]}
  /\ UNCHANGED script

\* The new slots are not merged.
mergeWrong(s) ==
  /\ s.todo = <<>>
  /\ card' = [card EXCEPT ![s.swarm].status = "active"]
  /\ clean' = (clean /\ answers = {})
  /\ UNCHANGED <<fleet, linkUp, known, companions, traffic, excused, faults, operations>>

\* The end of a script is merged into the card of its swarm, or into none. The card of
\* a deployment has had its slots from the start, that of an update gets them now.
merge(s) ==
  /\ s.todo = <<>>
  /\ card' = [card EXCEPT ![s.swarm].status = "active",
                          ![s.swarm].slots = IF s.type = "update" THEN s.slots ELSE @]
  /\ clean' = (clean /\ answers = {})
  /\ UNCHANGED <<fleet, linkUp, known, companions, traffic, excused, faults, operations>>

finishScript ==
  /\ script # NoScript
  /\ merge(script)
  /\ script' = NoScript /\ busy' = FALSE
  /\ UNCHANGED earlier

finishEarlier(e) ==
  /\ merge(e.script)
  /\ earlier' = earlier \ {e}
  /\ UNCHANGED <<script, busy>>

\* The card goes, whether or not its members could be told.
dissolveSwarm(id, lost) ==
  /\ Usable /\ card[id] # NoCard
  /\ send(SetMode("Other"), card[id].members, lost)
  /\ card' = [card EXCEPT ![id] = NoCard]
  /\ excused' = excused \cup missed(card[id].members, lost)
                   \cup {v \in Node : craft'[v].formation.swarm = id}
  /\ clean' = FALSE
  /\ operations' = operations + 1
  /\ UNCHANGED <<linkUp, known, companions, scripts, requests, answers>>

-----------------------------------------------------------------------------
(***************************************************************************)
(* Asking the vehicles.                                                     *)
(***************************************************************************)
\* "Read from vehicles"
readFromVehicles ==
  /\ Usable /\ known # {}
  /\ requests' = requests \cup known
  /\ excused' = excused \cap Concerned(script, earlier)
  /\ operations' = operations + 1
  /\ UNCHANGED <<fleet, page, answers, clean, faults>>

\* A vehicle is discovered, but only asked if its node is known.
heartbeatWrong(v) ==
  /\ linkUp /\ v \notin known
  /\ known' = known \cup {v}
  /\ requests' = IF v \in registered THEN requests \cup {v} ELSE requests
  /\ UNCHANGED <<fleet, linkUp, card, companions, scripts, answers, history>>

\* A vehicle that is discovered is asked.
heartbeat(v) ==
  /\ linkUp /\ v \notin known
  /\ known' = known \cup {v}
  /\ requests' = requests \cup {v}
  /\ UNCHANGED <<fleet, linkUp, card, companions, scripts, answers, history>>

\* A vehicle is not asked again when its node comes online.
companionHeartbeatWrong(v) ==
  /\ v \in WithNode
  /\ v \notin registered \/ (linkUp /\ v \notin companions)
  /\ registered' = registered \cup {v}
  /\ companions' = IF linkUp THEN companions \cup {v} ELSE companions
  /\ UNCHANGED <<craft, published, linkUp, card, known, scripts, traffic, history>>

\* The bridge learns of a node, and tells the page, which asks again.
companionHeartbeat(v) ==
  /\ v \in WithNode
  /\ v \notin registered \/ (linkUp /\ v \notin companions)
  /\ registered' = registered \cup {v}
  /\ companions' = IF linkUp THEN companions \cup {v} ELSE companions
  /\ requests' = IF linkUp /\ v \notin companions THEN requests \cup {v} ELSE requests
  /\ UNCHANGED <<craft, published, linkUp, card, known, scripts, answers, history>>

\* FlightTaskSwarm publishes its status every 500 ms.
publishStatus(v) ==
  /\ craft[v].mode = "internal" /\ published[v] # craft[v].formation
  /\ published' = [published EXCEPT ![v] = craft[v].formation]
  /\ UNCHANGED <<craft, registered, page, traffic, history>>

\* PX4 answers from the topic, the node from what it flies.
Reported(v) == IF craft[v].mode = "internal" THEN published[v] ELSE craft[v].formation

statusOf(v) ==
  LET f == Reported(v)
  IN  [from |-> v, swarm |-> f.swarm, leader |-> f.leader, nodes |-> f.nodes,
       mode |-> craft[v].mode, collecting |-> State(f) = "collecting"]

\* A status of up to 500 ms ago may be of an earlier formation.
Outdated(v) == Reported(v) # craft[v].formation

\* restoreSwarm makes nothing of any other answer.
Restorable(r) == r.mode # "Other" /\ r.swarm # NoSwarm /\ Listed(r.nodes) # {}

\* The bridge asks the autopilot, and the node if it knows one.
answer(v) ==
  LET r      == statusOf(v)
      asked  == craft[v].mode # "external" \/ v \in registered
      comes  == asked /\ linkUp /\ Restorable(r)
  IN  /\ v \in requests
      /\ Cardinality(answers) < AnswerBound
      /\ requests' = requests \ {v}
      /\ answers' = IF comes THEN answers \cup {r} ELSE answers
      /\ excused' = IF (~linkUp /\ v \in known) \/ (~asked /\ v \in companions) \/ Outdated(v)
                    THEN excused \cup {v} ELSE excused
      /\ clean' = (clean /\ ~(comes /\ (Outdated(v) \/ v \in script.members)))
      /\ UNCHANGED <<fleet, page, faults, operations>>

\* Only cards that were restored themselves are replaced.
restoreSwarm(r) ==
  /\ r \in answers
  /\ answers' = answers \ {r}
  /\ card' = IF card[r.swarm].status # "none" /\ ~card[r.swarm].restored THEN card
             ELSE [card EXCEPT ![r.swarm] =
                     [leader |-> r.leader, members |-> Listed(r.nodes), slots |-> r.nodes,
                      mode |-> r.mode, restored |-> TRUE,
                      status |-> IF r.collecting THEN "deploying" ELSE "active"]]
  /\ UNCHANGED <<fleet, linkUp, known, companions, scripts, requests, history>>

-----------------------------------------------------------------------------
(***************************************************************************)
(* The link, the page and what goes wrong.                                  *)
(***************************************************************************)
raiseLink ==
  /\ ~linkUp
  /\ linkUp' = TRUE
  /\ UNCHANGED <<fleet, card, known, companions, scripts, traffic, history>>

\* The client connects again by itself; nobody is asked again.
dropLink ==
  /\ linkUp /\ MayFail
  /\ linkUp' = FALSE
  /\ answers' = {}
  /\ excused' = excused \cup {r.from : r \in answers}
  /\ faults' = faults + 1
  /\ UNCHANGED <<fleet, card, known, companions, scripts, requests, clean, operations>>

loseRequest(v) ==
  /\ v \in requests /\ MayFail
  /\ requests' = requests \ {v}
  /\ excused' = excused \cup {v}
  /\ faults' = faults + 1
  /\ UNCHANGED <<fleet, page, answers, clean, operations>>

restartBridge ==
  /\ registered # {} /\ MayFail
  /\ registered' = {}
  /\ faults' = faults + 1
  /\ UNCHANGED <<craft, published, page, traffic, clean, excused, operations>>

\* The page remembers whom it has discovered.
forgetWrong ==
  /\ MayOperate
  /\ linkUp' = FALSE
  /\ answers' = {} /\ excused' = excused \cap Concerned(script', earlier')
  /\ operations' = operations + 1
  /\ UNCHANGED <<fleet, known, companions, requests, faults>>

\* All vehicles are discovered anew.
forget ==
  /\ MayOperate
  /\ linkUp' = FALSE
  /\ known' = {} /\ companions' = {} /\ answers' = {}
  /\ excused' = excused \cap Concerned(script', earlier')
  /\ operations' = operations + 1
  /\ UNCHANGED <<fleet, requests, faults>>

\* The operator connects again: cards and running scripts stay.
connect == ~(\E id \in Swarm : Ghost(id)) /\ UNCHANGED <<card, scripts, clean>> /\ forget

\* "The GCS keeps no swarm state of its own across reloads"
reload ==
  /\ card' = [id \in Swarm |-> NoCard]
  /\ script' = NoScript /\ earlier' = {} /\ busy' = FALSE
  /\ forget
  /\ clean' = (clean /\ Alone)

\* The page has been open for a while: everybody was asked, nobody flies.
Init ==
  /\ craft = [v \in Node |-> In("Other")]
  /\ published = [v \in Node |-> NewFormation]
  /\ registered = WithNode
  /\ linkUp = TRUE
  /\ card = [id \in Swarm |-> NoCard]
  /\ known = Node /\ companions = WithNode
  /\ script = NoScript /\ earlier = {} /\ busy = FALSE
  /\ requests = {} /\ answers = {}
  /\ clean = TRUE /\ excused = {}
  /\ faults = 0 /\ operations = 0

\* A message is lost for one vehicle at a time.
Losses == {{}} \cup {{v} : v \in Node}

Operator ==
  \/ \E lost \in Losses :
       \/ \E d \in Deployments : deploySwarm(d, lost)
       \/ \E id \in Swarm :
            \/ \E slots \in Formations : updateFormation(id, slots, lost)
            \/ dissolveSwarm(id, lost)
  \/ readFromVehicles
  \/ connect
  \/ reload
  \/ switchTab

Timers ==
  \/ finishScript \/ \E e \in earlier : finishEarlier(e)
  \/ \E lost \in Losses : publishNext(lost) \/ \E e \in earlier : publishEarlier(e, lost)

Telemetry(v) == heartbeat(v) \/ companionHeartbeat(v) \/ publishStatus(v) \/ answer(v)

Restore == \E r \in answers : restoreSwarm(r)

Fault == dropLink \/ restartBridge \/ \E v \in Node : loseRequest(v)

Next == Operator \/ Timers \/ Restore \/ raiseLink \/ Fault \/ \E v \in Node : Telemetry(v)

\* Heartbeats come every second, statuses every 500 ms, an answer that is not
\* lost arrives, and the client tries every two seconds to connect. Nobody has
\* to press a button, and no script has to run out for this.
UnderWay == raiseLink \/ Restore \/ \E v \in Node : Telemetry(v)

Fairness == WF_vars(UnderWay)

Spec == Init /\ [][Next]_vars /\ Fairness

-----------------------------------------------------------------------------
Card == [leader : Node \cup {NoNode}, members : SUBSET Node, slots : List, mode : Mode,
         status : {"none", "deploying", "active", "failed"}, restored : BOOLEAN]

Packet == [kind : {"mode"}, message : Mode]
            \cup [kind : {"management"}, message : Management]
            \cup [kind : {"node"}, message : NodeMessage]

Answer == [from : Node, swarm : Swarm, leader : Node \cup {NoNode}, nodes : List,
           mode : Mode, collecting : BOOLEAN]

Script == [type : {"none", "create", "update"}, swarm : Swarm \cup {NoSwarm},
           members : SUBSET Node, slots : List, todo : Seq(Packet)]

\* Type invariant.
CardsTypeOK ==
  /\ craft \in [Node -> [mode : Mode, formation : Formation]]
  /\ published \in [Node -> Formation]
  /\ registered \subseteq WithNode /\ companions \subseteq WithNode
  /\ known \subseteq Node /\ requests \subseteq Node /\ excused \subseteq Node
  /\ linkUp \in BOOLEAN /\ clean \in BOOLEAN
  /\ card \in [Swarm -> Card]
  /\ script \in Script /\ earlier \subseteq [number : 0..MaxEvents, script : Script]
  /\ busy \in BOOLEAN
  /\ answers \subseteq Answer
  /\ faults \in 0..MaxFaults /\ operations \in 0..MaxEvents

\* Everybody was asked and has answered, and no script runs.
Quiet ==
  Alone /\ requests = {} /\ answers = {} /\ known = Node /\ companions = WithNode

Flies(v, id) ==
  LET f == craft[v].formation
  IN  /\ Flying(f) /\ ~f.updating
      /\ f.swarm = id /\ f.nodes = card[id].slots /\ f.leader = card[id].leader

OnCards(v) == {id \in Swarm : v \in card[id].members}

\* Once everything in flight has arrived, a vehicle in the air that is on any card
\* flies exactly what one of them shows, whether the card is of this session or was
\* restored after a reload, and whatever went wrong before the last script began.
CardShowsFlight ==
  Quiet /\ clean =>
    \A v \in Node : craft[v].mode # "Other" /\ OnCards(v) # {} =>
      \E id \in OnCards(v) : Flies(v, id)

\* The other way round: whoever flies is a member on the card of its swarm, so
\* that a change of formation and Dissolve reach it. Excused are vehicles whose
\* answer was lost or came from an outdated status, those that missed a message of
\* a script, and those whose swarm lost its card to a new deployment or to Dissolve,
\* before or after they were told of it.
FlightIsOnCard ==
  Quiet /\ clean =>
    \A v \in Node \ excused :
      LET f == craft[v].formation IN Flying(f) => v \in card[f.swarm].members

\* v flies in a swarm without a card.
Unknown(v) == Flying(craft[v].formation) /\ card[craft[v].formation.swarm] = NoCard

\* The page will hear of v: v is not discovered yet, is being asked, will be when its
\* node comes online, or has answered.
Expected(v) ==
  \/ v \notin known \/ v \in requests
  \/ craft[v].mode = "external" /\ v \notin companions
  \/ \E r \in answers : r.from = v /\ r.swarm = craft[v].formation.swarm

\* Whatever the page forgot or never knew, and whatever went wrong: it will hear of
\* everybody who flies in a swarm without a card.
NobodyForgotten == \A v \in Node \ excused : Unknown(v) => Expected(v)

FliesUnknown(id) ==
  /\ linkUp /\ card[id] = NoCard
  /\ \E v \in Node \ excused : craft[v].formation.swarm = id /\ Flying(craft[v].formation)

\* "any one follower is enough": a page that was reloaded, reconnected or
\* looks at vehicles after the bridge was restarted finds every swarm that
\* flies, and needs no operator for it.
EveryFlightIsFound == \A id \in Swarm : FliesUnknown(id) ~> ~FliesUnknown(id)

(***************************************************************************)
(* Promises of comments that the code does not keep; runs show how.          *)
(***************************************************************************)
\* "A vehicle can only be in one swarm": nobody is coupled to a vehicle that
\* flies in another swarm.
OneSwarmPerVehicle ==
  Quiet =>
    \A v \in Node : \A n \in Neighbours(craft[v].formation) :
      craft[n].mode # "Other" => craft[n].formation.swarm = craft[v].formation.swarm
=============================================================================
