# Verification of the swarm flight mode

TLA+ specifications of the Swarm flight mode in this repository, the TLC
configurations that check them, and TLAPS proofs about them. `PROJECT.json`
lists, machine-readably, the components, runs, mutants, source lines of every
definition, findings, hazards and theorems.

## 1. The system

A ground station puts vehicles into a *swarm*: each member has a slot, a
north/east offset from the leader. Followers steer by consensus with their
neighbours; the leader flies itself.

```
web GCS --MQTT, QoS 0--> bridge --UDP--> PX4: MavlinkReceiver --uORB--> FlightTaskSwarm
 cards, scripts             |             (link threads)                 | vehicle_command
      ^                     |                                            v
      +---- SWARM_STATUS ---+                              Commander --nav_state--> FlightModeManager
                            |
                            +----UDP----> ROS 2 swarm_mode node <--DDS--> PX4 (external mode)
neighbours --LOCAL_POSITION_NED, ATTITUDE (mesh)--> both
```

A deployment is a timed script without acknowledgements: the mode, then
`SWARM_MANAGEMENT` (create), then one `SWARM_NODE` per member. A formation change
is `SWARM_MANAGEMENT` (update) and the slots again. A page that was reloaded asks
every vehicle for `SWARM_STATUS` and rebuilds its cards from the answers.

### Components

| component | state | operations | talks to |
|---|---|---|---|
| PX4 `FlightTaskSwarm` | swarm id, node list and counter, consensus list, pending list, references | `activate`, `update` (management, node, information, control, status), destructor | reads uORB topics, asks Commander for Hold |
| ROS 2 `SwarmMode` | the same, plus `_active`, leader velocity, course, hold point | message handlers, `onActivate`, `onDeactivate`, `updateSetpoint`, heartbeat | UDP socket, DDS |
| PX4 `FlightModeManager` | current task, `_command_failed`, stored command | choose, construct, activate and destroy the task of a mode; fall back when one fails | reads two topics of Commander |
| PX4 Commander, `MavlinkReceiver`, `SWARM_STATUS` stream | navigation state, control mode, topics | set the mode, publish messages, answer requests | everything on the vehicle |
| PX4 MAVLink link | list of streams, subscription slot, send lock, exit flag | configure a stream, send, answer a request, end | main thread, receiver thread, shell |
| GCS scripts and cards (`commands.js`, `SwarmPanel.jsx`) | cards, running script | deploy, update, dissolve, set weight | MQTT |
| GCS store and restore (`store.js`, `link/index.js`) | vehicles, nodes, who was asked | ask, restore a card from `SWARM_STATUS`, connect, reload | MQTT |
| MQTT bridge | registries of autopilots and nodes, custom modes | route swarm messages and commands, take off, publish telemetry | UDP thread and MQTT thread share locks |
| mesh forwarder | none | relay datagrams | UDP |
| formation geometry, views, simulator, scripts, tests | - | - | not modelled, see section 7 |

### What is hard

* Messages are lost, or come before the last one was acted on (queues of one).
* uORB keeps the last message of a topic: a task constructed later reads what
  the one before it read. The ROS 2 node throws away what comes while it is off,
  but not what waits in its socket.
* The number of nodes, the counter, the node list, the consensus list and the
  pending list are separate variables that must agree after every handler.
* Mode changes, the receiver and the flight task run in different threads; a
  leader leaves the mode only when Commander has handled its command, and the
  manager may read two topics of Commander that are of different moments.
* A script is an `async` function; what keeps a second one from starting is state of
  the panel (`SwarmPanel.jsx:86,184`), which `Sidebar.jsx:44` unmounts when the tab is
  switched. The script goes on, and another may run beside it.
* Swarm ids are given out again: the form proposes the smallest that is free.
* Nothing acknowledges: what a card shows and what the vehicles fly are related
  only by all messages having arrived. Answers to requests are late or outdated.
* The bridge sleeps in the thread that handles all messages, and learns of nodes
  in another one.
* A link's receiver, its main thread and the shell share a pointer, a list and a
  lock, and wait for each other.

`PROJECT.json` lists each of these at its line, with the property that would catch
it going wrong, or the reason why none does.

### What makes each part correct

* *Flight task and node*: a vehicle couples only by slots it holds and reports;
  it flies only a whole formation; a replacement takes effect as a whole and the
  old one is flown untouched until then; positions of neighbours that stay are
  kept; a vehicle reports "flying" only with all slots.
* *Node*: entering the mode starts from nothing, but for the leader's course; every
  request is answered.
* *Manager*: the Swarm task is what flies in the Swarm mode in the end, its
  formation survives while the vehicle stays in the mode, and no mode that has a
  task is flown by none.
* *Link*: no string is used after it is freed, a stream gets the rate asked for
  it, a requested message is sent, no circular wait.
* *Fleet*: what a follower flies is one formation that was sent; when a script that
  ran alone ends and all arrived, it is the one on the card; the leader is in Hold.
* *Cards*: once all is quiet a card shows what a script that ran alone has reached,
  whoever flies is on a card, and every swarm that flies is found.
* *Bridge*: the pauses of scripts and take-offs are long enough.

## 2. Modules

| module | models | extends |
|---|---|---|
| `SwarmFormation` | the bookkeeping of one vehicle as operators on a record: `upsertNode`, `reset`, `buildConsensus`, `applyPendingFormation`, the two configuration messages, what the control law and the status read | standard modules |
| `FlightTaskSwarm` | the task on its vehicle: uORB topics, `update()`, construction and destruction, Hold | `SwarmFormation` |
| `SwarmMode` | the ROS 2 node: socket, handlers, activation callbacks, setpoints by VTOL phase | `SwarmFormation` |
| `SwarmMembership` | the abstract promise of both: slots only, no counter, no consensus list | standard modules |
| `FlightModeManager` | which task flies, by two topics of Commander, with failures and fall-backs | - |
| `MavlinkStreams` | the threads of one link: stream configuration, message requests, end | standard modules |
| `SwarmFleet` | ground station scripts, one or several at once, links and several flight tasks | `FlightTaskSwarm` |
| `SwarmCards` | cards, requests, restore, and the vehicles they are about | `SwarmFormation` |
| `MqttBridge` | the bridge between a script, take-offs, autopilots and nodes, with time | standard modules |
| `SwarmFormationProofs` | lemmas on the bookkeeping | `SwarmFormation`, `TLAPS` |
| `FlightTaskSwarmProofs`, `SwarmModeProofs` | theorems on the task and the node, and their refinements | the component, `SwarmFormationProofs` |
| `FlightModeManagerProofs`, `MavlinkStreamsProofs`, `MqttBridgeProofs` | theorems on the manager, the link and the bridge | the component, `TLAPS` |
| `SwarmFleetProofs` | theorems on scripts and the fleet | `SwarmFleet`, `FlightTaskSwarmProofs` |
| `SwarmCardsProofs` | theorems on cards and vehicles | `SwarmCards`, `SwarmFormationProofs` |
| `MC...` | a finite instance of each component for TLC | the component |

### Correspondence with the code

*Formation record.* `swarm`, `expected`, `leader`, `nodes`, `count`, `updating`,
`pending`, `pendingExpected`, `pendingLeader` are the members of the same meaning
in `FlightTaskSwarm.hpp:116-128`. A list of nodes is a function from ids to slots.
The consensus list is two fields: `offset`, and `located` for `has_position`.
`offset[n] = <<own slot, n's slot>>` stands for the two floating-point
differences, so a stale or a foreign offset is visible as a pair that is not the
pair of the listed slots. The counter keeps its eight bits.

*`FlightTaskSwarm`.* `update(v, ...)` is `FlightTaskSwarm::update()` from top to
bottom: management, node, the whole information queue, references, control law,
status. `setpoint` is not a velocity but what it was computed from. `StartTask`,
`RunTask`, `StopTask` are the three cases of a loop of `FlightModeManager::Run()`;
`EnterHold` and `SetMode` are Commander. A topic is its last message and what its
reader has not read; a topic without a reader hands its last message to the next
one (`resubscribed`).

*`SwarmMode`.* One action per callback of the single executor thread;
`pollMavlink` handles one datagram, `arrive` puts one into the socket. The ROS 2
code repeats the formation rules of the flight task, with `_nodes.size()` in the
place of the counter; that the two agree is `CountIsSize`. `output` is which of
the setpoints was sent and from what it was computed. `course` is whose course
`_leader_course` holds and whether it is marked valid: `onActivate` takes back the
mark only, and a fixed-wing follower that has not heard the leader yet turns its
slots by the value (`swarm_mode.cpp:380, 510-512`).

*`SwarmMembership`.* A member has a swarm, a leader, an expected number and a list of
slots, and perhaps a replacement. Configured, placed, left: three actions. When it
computes a velocity it is coupled by a whole list of slots; the task and the node
implement it. It is not promised that the coupling ends with the formation: the flight
task keeps its last velocity when a new create makes it incomplete
(`FlightTaskSwarm.cpp:174`), though `docs/swarm_gcs.md:157` says its setpoints are
unset then.

*`FlightModeManager`.* `updateControlMode` and `publishStatus` are the two
publications of a loop of Commander; `readControlMode` and `Run` the two halves of
a loop of the manager. `start_flight_task` is the chain of modes in the order of
the code: `try` is a mode that has a task of its own, `fallBack` one that is also
tried when those before it failed. `ManualPosition` stands for whichever of the
position tasks `MPC_POS_MODE` selects. The external mode publishes trajectories.

*`MavlinkStreams`.* `main.pc` walks through a loop of `task_main()`; `client[c].pc`
through a command of the receiver or the shell. The string a client allocates is
alive while its `pc` is between allocation and the null pointer (`HasString`).
`slot` and `slotRate` are `_subscribe_to_stream` and its rate, `sendLock` the lock
of the channel, and `streams[n]` says whether a stream is in the list and has an
interval. The exit flag is read before the sleep of a loop and the slot after it
(`awake`). `outcome` is what became of a request; a stream may refuse one, which the
receiver then denies.

*`SwarmFleet`.* `deployScript` and `updateScript` are the publications of
`commands.js` in order; `finishScript` is the upsert at the end of both: the status of
a deployment, status and slots of a change of formation, even if the card is gone.
`script` and `todo` are the script that began last, `earlier` those that began before
it and still run, `busy` what the panel knows of it: `switchTab` unmounts the panel
and clears `busy` only. Scripts that run at once take turns by their pauses, which are
fixed: one overtakes another only if its pauses are shorter (`InTurn`), and the one
that was overtaken is some slots behind until the other is through (`Overtaken`). A
link is a FIFO per vehicle. `deliver` hands a message to a vehicle that has dealt with
the previous one, which is what the sleeps of 150 to 1500 ms are for. `rush` does so
earlier, `lose` not at all. The form proposes the smallest free id (`nextSwarmId`) and
the operator may type any other (`SwarmPanel.jsx:282`): `free` allows every id without
a card, those of earlier swarms too. `clean`, `announced`, `overlapped`, `reused` and
`sent` remember what the properties speak of. `reused` is set when an id is given out
that a vehicle still knows, from its formation, its latched topic or a message on its
way.

*`SwarmCards`.* `card` is `swarms` of the store, `known`, `companions` and `linkUp`
what `link/index.js` keeps, `requests` and `answers` the two directions of a status
request through the bridge. `published` is the topic behind the status stream, which
may be older than `craft`. `script`, `earlier`, `busy` and `switchTab` are as in
`SwarmFleet`, with scripts that run at once in any relative order. `Ghost` is a card a
script leaves behind after its swarm was dissolved.

*`MqttBridge`.* `on_message` and `wakeUp` are the MQTT thread, cut where it sleeps
(`bursts`); `discover`, `discoverNode`, `handle_mavlink` the UDP thread, cut where it
holds no lock. A tick is 150 ms, the shortest pause of a script. A VTOL take-off is
reckoned from the vehicle's global position: `locate` is the message that makes it
known, and without one `send` arms, sends no take-off and reports the failure
(`Refused`, `mavlink_mqtt_bridge.cpp:246-249`).

Operators named `...Wrong` are plausible mistakes. No specification uses them;
each stands before the operator it distorts, and the run named with it in
`PROJECT.json` must fail when it takes that operator's place.

## 3. Runs

| run | checks | instance | distinct states |
|---|---|---|---|
| `flight_task` | `TypeOK`, `CountIsSize`, `FliesReportedSlots`, `PendingIsIncomplete`, `LocatedAreNeighbours`, `ActiveReportIsWhole`, `SlotsMoveTogether`, `FliesOldWhileUpdating`, `PositionsSurviveSwitch`, `KeepsPromise` | one vehicle, three nodes, two swarms, two slots | 435 956 |
| `mode` | `ModeTypeOK`, `FormationStartsFromScratch`, `ModeKeepsPromise`, `EveryRequestAnswered` | one node and a leader, fixed-wing and transitions, requests | 273 060 |
| `flight_mode_manager` | `ManagerTypeOK`, `FormationSurvives`, `NeverWithoutTask`, `SwarmFollowsMode` | seven modes, three phases, four sets of failing tasks | 104 958 |
| `mavlink_streams` | `StreamsTypeOK`, `NamesAreAlive`, `OwnRate`, `RequestReachesStream`, `StreamIsThere`, `CommandsReturn`, `LinkEnds` | two streams, three commands, a stop at any moment | 473 067 |
| `fleet` | `FleetTypeOK`, `NeverFliesMix`, `CleanScriptConverges`, `EveryScriptFlies` | two vehicles, three operations, one fault (a message lost or bunched, or a tab switched under a script), ids used again | 243 101 |
| `cards` | `CardsTypeOK`, `CardShowsFlight`, `FlightIsOnCard`, `NobodyForgotten`, `EveryFlightIsFound` | two vehicles with nodes, two swarms, three events of which one is a fault, scripts that overlap | 230 085 |
| `bridge` | `BridgeTypeOK`, `EveryDeploymentForms`, `EveryTakeOffFlies` | a swarm of two with or without nodes, a third vehicle, one take-off, positions known or not, one crash | 440 260 |

`flight_task` answers whether the bookkeeping of a follower or a leader can be brought
out of step by any sequence of messages and mode changes, and whether anything but the
slots it was sent shows in how it flies: neither. `mode` is about what is particular
to the node: activation callbacks that come later than the mode change, a socket that
is not emptied, requests at any moment; and it implements the same promise. What it
flies after an activation was heard after it, with one exception, which the code has
and the property names: the course by which slots turn may be of an earlier
activation, until the leader's velocity is heard. `flight_mode_manager` shows that two
topics of different moments delay the right task but do not keep it away.
`mavlink_streams` shows that the hand-over between the threads of a link is right for
one client, that two clients spoil each other's rate but never make the main thread
read a freed name, and that the only circular wait is a link that ends. `fleet` is the
deployment as an operator sees it: no fault, and no overlap of scripts, outlives the
next script that runs alone, arrives in time and uses an id nobody knows. `cards` is
the page's view: reloads, reconnections, restarts of the bridge and outdated answers.
`bridge` is about time: which pauses are long enough; and a take-off that is not sent
is reported.

Every property of these runs also has a mutant in `PROJECT.json`: a plausible bug
under which the same run fails.

### Runs that find a promise broken

Each quotes its promise in `PROJECT.json`, under "findings".

| run | what happens |
|---|---|
| `fleet_overlap` | no message lost or early: the tab is switched while a deployment runs and its card is opened for a change of formation; the slots of both scripts alternate and the vehicles apply one of each |
| `fleet_reuse` | no fault: the id of a dissolved swarm is used again, the new task starts from the old swarm's last create and last slot |
| `fleet_leader` | no fault: a vehicle that once led reads its old create and leaves for Hold instead of following |
| `cards_overlap` | no fault: a deployment takes two of three members; the third is told nothing and stays coupled to vehicles of another swarm |
| `bridge_takeoff` | a take-off sleeps while slots are published; they leave in one go, and one replaces the other in a queue of one |

Two disagreements are not runs of their own. A follower with all its slots flies
altitude and yaw references before any vehicle's were received: members that nothing
initialises (`FlightTaskSwarm.hpp:109`). And the node's course of an earlier
activation, above, is not what the comment at `swarm_mode.cpp:49` says.

A lost announcement also makes a follower fly a mix: with a slot of the deployment
lost as well, or with the create of the next swarm lost after a first one was
dissolved, its slots complete the half-collected formation of before. No document
promises otherwise for an announcement (`docs/swarm_gcs.md:118` speaks of a lost
`SWARM_NODE`), so `announced` excuses it.

### What the passing properties excuse

* `NeverFliesMix` excuses bunched messages (`rushed`), two of which in one loop of the
  vehicle lose the first; lost announcements (`announced`), the case above; scripts
  that ran at once (`overlapped`, run `fleet_overlap`); and an id given out again that
  a vehicle still knew (`reused`, run `fleet_reuse`). Lost slots and lost changes of
  mode never make a mix.
* `CleanScriptConverges` has no such history: it speaks of the last script only, which
  must have begun with none beside it (a deployment under an id nobody knows) and
  have met no fault. Before it anything may have gone wrong. An id that was used
  before is no excuse by itself: only if somebody still knows it.
* `FlightIsOnCard`, `NobodyForgotten` and `EveryFlightIsFound` excuse a vehicle whose
  answer was lost or came from an outdated status, the ones `cards_overlap` is about,
  and whoever is still in a swarm that is dissolved, or is told of a swarm whose card
  is gone, until all are asked again; and a member that missed a message of a script,
  until an announcement reaches it. While a script runs, asking does not help: a
  member that flies another swarm, or missed Hold, answers what it flies now, and the
  next slots may complete the list of a swarm whose card is gone.
* `CardShowsFlight` and `FlightIsOnCard` speak of what was `clean` since a script
  began that ran alone, met no answer on its way and went to everybody it concerns
  (`Reaches`). A late or outdated answer ends `clean`: which of a card and such an
  answer wins is decided by the order in which they come, and the properties do not
  say that it is the true one. Instances with three vehicles show why all have to be
  reached: the card that is restored from a vehicle which still collects has some of
  the members only; Change formation then asks these few for a new formation and the
  others fly on in the old one, though nothing is lost from then on. And an answer of
  a member, restored while the change runs, puts its old members back on the card, of
  which the end of the script replaces slots and status only (`commands.js:93-94`).
  `docs/swarm_gcs.md:122` asks for a "complete formation" of any one follower, so both
  need a reload in the middle of a deployment or a lost slot.
* `EveryDeploymentForms` excuses a node whose mode the bridge had wrong or that
  crashed, and an internal deployment disturbed by a take-off. `EveryTakeOffFlies`
  lets a VTOL stay on the ground, armed, whose position was unknown when it was
  ordered; it must be reported, and nobody else is.
* `OwnRate`, `RequestReachesStream` and `StreamIsThere` excuse two clients at work at
  once: the later pointer replaces the earlier one, and one null pointer releases
  both. A stream that is reached may refuse to send.
* `LinkEnds` excuses a main thread that joins a receiver which waits for the slot:
  `mavlink_main.cpp:2789` waits for the receiver before line 2792 clears the slot, and
  the loop at 1450 looks at no flag. No document promises otherwise, so it is listed
  as a hazard.
* `FormationSurvives` starts once the control mode of before is no longer read.
  `NeverWithoutTask` excuses an orbit that was refused: the task of last resort flies
  it for one loop, then no branch of `start_flight_task` applies to the mode and
  there is no task.

### Bounds

* *One vehicle runs.* The handlers of one vehicle never look at another one, so
  one vehicle suffices; the other nodes occur in its messages. Three nodes make a
  formation that is one, two or no slots short, a neighbour that leaves, and a
  swarm the vehicle is not listed in. The messages are not a script: any may come
  at any moment, so all losses, repetitions and reorderings are covered.
* *Socket.* `SocketBound = 1`: a datagram may wait across any change of mode; since
  any may be the one that waits, a second would add no new moment of handling.
  One slot per node in `mode`: that slots change is covered by `flight_task`, whose
  formation it shares, and by the theorem for every set of slots.
* *Manager.* `NavStates` has a mode of each kind: without a task, autonomous, manual,
  with a task of its own, with a command, external. `Failures` are what happens
  together: no position, no altitude, neither and no descent.
* *Link.* `MaxCommands = 3`: two that overlap and one that follows. The theorems
  hold for any number.
* *Fleet.* Two vehicles and two formations that exchange the slots: a mix of the two
  is a third assignment. Three operations are deploy, change, and dissolve or change
  again; or two scripts at once and the one that repairs them. `LinkBound = 2` lets a
  message wait behind another. `MaxFaults = 1`: one message lost or early, or one tab
  switched, and only before the last operation, since after a fault in the last one
  nothing could repair it. `MaxScripts = 2` run at once. Two swarm ids suffice for an
  id that is given out again, and for one that is new. The theorems hold for any of
  these numbers. `Leaders = {w}` keeps the passing run off the defect of
  `fleet_leader`, which would break `EveryScriptFlies`; the theorems are for any
  leaders. `InformationSent = {}`: slots and modes do not depend on positions.
* *Cards.* Two vehicles, two swarms that exchange leader, slots and mode. `MaxEvents =
  3` allows deploy, change, and reload; or deploy, fault, and read again; or deploy,
  switch the tab, and a second script beside the first. That a third script repairs an
  overlap takes one event more; that is the theorem `CardsShowFlight`, and in TLC the
  fleet's `CleanScriptConverges`. `AnswerBound = 1` keeps one answer on its way, any
  other may be late as a request.
* *Bridge.* One take-off and one crash; two vehicles of the swarm, a follower and
  a leader, and one on the ground that is sent up.

### Fairness

* `ModeSpec`: `WF(pollMavlink)`. A wall timer of 5 ms calls it on an executor that
  nothing blocks. Nothing else is fair; the mode may flap for ever.
* `FlightModeManager`: `WF(Loop)`, since every position estimate starts a loop, and
  `WF(publishStatus)`, since Commander publishes what it changed in the same loop.
* `MavlinkStreams`: weak fairness of each thread that is scheduled, per thread.
  `SF(lock_send("receiver"))`: the main thread takes the lock again and again, but
  sleeps between two uses, so a waiting receiver gets it. No command is fair.
* `FleetSpec`, `SwarmCards`, `MqttBridge`: weak fairness of `UnderWay`, everything
  that goes on without a person: timers, loops of the vehicles, messages that are not
  lost, heartbeats, reconnecting, time. One condition for all suffices because each of
  these runs has finitely many operations and faults, and what is under way comes to
  rest. No operation of the operator is fair, and no fault.
* `CHECK_DEADLOCK FALSE` in the runs of fleet, cards, bridge and link: when the
  bounded operations are used up, or the link has stopped, the system rests.

## 4. Proofs

All proofs hold for every value of the constants that meets the named assumptions
of the modules; each says what the code's types say (ids and counters are
`uint8_t`, the null values are no ids).

*Formation and task.* For every finite set of at most 255 vehicles, every set of
slots and swarms and every set of messages, all ten properties of run
`flight_task`. The properties alone are not inductive. That a coupling uses listed
slots, for instance, survives `collectNode` only because a formation that is not
complete when the slot is added is either rebuilt, or keeps the slots it lists;
and that the counter never wraps needs that it is the size of a list keyed by
node. The inductive invariant is

    IInv == TypeOK /\ (each formation is Sound) /\ (topics are readable)
                   /\ NothingSurvivesTask /\ ActiveReportIsWhole

`Sound(f, v)` gathers `CountsNodes`, `CouplesListed`, `PendingUnfinished` and
`LocatesNeighbours`. One lemma per handler (`...Sound`) shows that it keeps a
formation sound; one per handler (`...Transition`) shows how it may change one:
only as a whole, not while an update is pending, without forgetting positions.
`UpdateSound` and `UpdateTransition` compose them along `update()`, `StepSound` and
`StepTransition` along the actions.

*Node.* `SwarmModeProofs` uses the same lemmas. `ModeIInv` is `ModeTypeOK`, each
formation `Sound`, and `FromScratch` of each active vehicle: every slot in its lists,
known position and reference was heard since the activation, and so was the course once
a velocity is (`FormationScratchCorrect`). `...Invents` says that
no handler makes a slot up, and one lemma per handler does the rest.

*Refinement.* `PromiseKept` and `ModePromiseKept`: the task and the node implement
`SwarmMembership`. `ConfiguredMember` and `PlacedMember` show that a handler maps to the
abstract action, `FlownIsWhole` that what is flown is a whole list;
`...Promised` lifts them to the actions. `PromiseInv` adds to the invariant that a
setpoint, where one is flown, belongs to the member.

*Manager.* `ManagerTypeCorrect`, `FormationKept`, `AlwaysATask`, for any modes and any
sets of failing tasks. The lemmas follow the chain of `start_flight_task`: what one
`try` and one `fallBack` do, then `TasksOfModes` and `TasksLeft`, then
`StartFlightTask`: if a mode applied, a task runs, because the last one tried cannot
fail.

*Link.* Five invariants of `MavlinkStreams`, for any streams, default rates and number
of commands, from `Inv`: who waits with a string (`Named`, `Waits`), when two clients
crossed (`Crosses`), the rate of the pointer (`RateKept`), that a stopped main thread
stays away (`Stopped`), that a stream a request found is there until it is used
(`Found`), and that a request which ended has reached its stream (`Asked`).

*Fleet.* The invariants are about what a vehicle has taken in together with what it
has yet to get, `Rest(v) == link[v] \o todo`: neither alone is inductive.

* `FleetTypeCorrect`: types, whatever happens (`FInv`), with any number of scripts at
  once. Even this relies on the panel: an update names a leader only because a card
  without one, a ghost, stops the panel. And a script that runs beside others is not
  `clean`.
* `CleanScriptRepairs`: `CleanScriptConverges`, from `CleanInv == FInv /\ News /\
  Cards /\ Tracks`. `Tracks` counts from the end of `Rest(v)`: as long as no fault
  happened since the script began, its last messages place the members in order, the
  one before announces them, and a vehicle that is past the announcement has collected
  exactly the first k members (`OnTheWay`), in whatever state it was before. `Cards`
  says that one swarm at most has a card with members, and that a clean script finds
  it there when it ends. `TrackAdvances` takes one message in, `VehicleStep` shows
  that a loop of the task, a change of mode or a late Hold moves nobody off the track.
* `NeverMixed`: `NeverFliesMix`, from `RouteInv == FInv /\ News /\ Routes`, with any
  number of lost slots and lost changes of mode, and Dissolve in between. `Routes`
  says of every vehicle that the slots which come next are those of the formation it
  collects (`Serves`, `Reached`), or that none come before another announcement
  (`Bare`) and nothing unread is left (`Idle`). `RestShifts`, `RestExtends`,
  `RestInserts` are the three ways in which a rest changes.

Nothing is assumed of the ids: any free one may be given out, known or not, and any
number of scripts may overlap. What both theorems need is `News`: whoever gets an
announcement that creates a swarm, of a script one may trust (`Trusted`), has not
heard of that swarm (`Unheard`), so the list starts empty. Trusted is every
announcement as long as no id was `reused` and no scripts `overlapped`; after that,
only that of a clean script, whose slots are the last messages to come.

*Cards.* `CardsTypeCorrect`, from `CInv`. That a change of formation, announced with the
leader on a card, names a vehicle, depends on the answer the card was restored from:
every vehicle in a swarm knows a leader (`Led`), and so does every status it
published, every answer and every card with members.

`CardsShowFlight` and `FlightsAreOnCards` prove `CardShowsFlight` and
`FlightIsOnCard`. Both say something of quiet states only, so neither is inductive;
`AgreeInv` says what must hold while scripts, questions and answers are under way:

* `Grounded`: a mode that is left keeps no formation.
* As long as `clean` holds, no other script runs beside the last one (`earlier = {}`),
  and `Agreed`:
  * `InFormation`: whoever is in the air and not a member of the running script
    (`Resting`) flies a whole formation; all who name its swarm, and all it lists, fly
    the same; and it has neither name nor vehicle in common with the script.
  * `OnCard`: the card of its swarm, if there is one, shows just that; and there is
    one if any card has it as a member.
  * `ScriptGoesOn`: the card of the script has its members, and either the
    announcement that creates the swarm is still to come and no member has heard of
    the id, or the members in the air have collected exactly the first k slots and
    those after them are the ones to come.
  * `AnswersTrue`: an answer on its way says what a resting vehicle flies.
  * `WillBeKnown`: a resting vehicle whose swarm has no card is not discovered yet, is
    being asked, waits for its node, has answered, or is excused.

No assumption is made on ids or on scripts before: a deployment is clean only if
nobody in the air is in a swarm of its id, however often that was given out, and none
runs beside it. The argument, per action: a deployment or change that `Reaches`
everybody concerned makes the others rest and its members collect; each slot moves all
members from k to k + 1 (`PublishNextAgreed`, with `CollectedStarts` and
`CollectedGoesOn` on what one vehicle does); at the end k is all of them, each is
`Whole`, and the card gets the very slots (`FinishAgreed`). An answer restored in
between is of somebody who rests, so by `InFormation` it is true of all members
(`RestoreAgreed`), and it does not touch the card of the script.

`NobodyIsForgotten` proves `NobodyForgotten`, which holds at any moment, clean or not,
and is the safety half of `EveryFlightIsFound`: what a vehicle without a card waits
for is under way. Asking and answering keep it as it stands (`AskingFound`,
`AnswerFound`); only a script could make a vehicle fly unseen. `FoundInv` adds what a
script meets, for each of the scripts that run (`Scripts`). `AllInOrder`: only its
first message is an announcement. `AllCarded`: a member that missed nothing is, once
its script was announced, in no swarm or in one that has a card; it need not be that
of the script, since another may have announced another swarm meanwhile, and who is
told of a swarm whose card is gone is excused. So when Dissolve takes a card in the
middle of a script, its members are told to leave or excused, and the messages still
to come find nobody who flies unseen (`PublishFound`). `AllNamed`: who is in no swarm
expects nobody, so whoever flies has a swarm.

*Bridge.* `BridgeTypeCorrect`: `BridgeTypeOK` states of each of the four places where
messages wait which kinds may come there, so no take-off reaches a vehicle uncut and a
node gets configurations only; that no message is about a vehicle that is none; and
that the heartbeat between the two locks, and any mode the bridge knows, is of a node
that is entered. For any fleet, swarm and numbers of take-offs and crashes; the pauses
are those of the code. It is inductive as it stands.

Every invariant and every action property of a passing run is proved. Only
model-checked: the five broken promises, and liveness (`EveryRequestAnswered`,
`SwarmFollowsMode`, `CommandsReturn`, `LinkEnds`, and those of fleet, cards and
bridge), which is out of the prover's reach.

## 5. Abstractions a reader should know

* Velocities, distances and the potential field are not computed. What is kept is
  which neighbours, offsets and references a setpoint is computed from.
* The swarm task is modelled in the air: on the ground FlightModeManager
  re-activates the task after each update, which clears its setpoint. A multicopter
  phase is assumed in `FlightTaskSwarm`; `FlightModeManager` shows what phases do to
  the task. `nav = "Other"` there stands for every other mode and phase.
* `swarm_information` is drained in every update, so its queue is a set.
  Its limit of 32 is not modelled.
* `SwarmMode` assumes the default `fw_rotate_offsets = true`. A batch of datagrams of
  one poll is several steps; a mode change between them is allowed, though the code
  excludes it.
* A vehicle that refuses a mode change (mode requirements) is a lost message in
  `SwarmFleet`; `FlightModeManager` lets Commander enter any mode at any time, failsafes
  included.
* All vehicles are members of every swarm in `SwarmFleet`; subsets are in
  `SwarmCards`, where in turn a vehicle acts on a message when it gets it.
* In `SwarmCards` a status may be outdated at any time, though 500 ms old at most: it
  may overwrite a restored card, and a card may come back after it was dissolved.
  Such states are reached, but no property says what a card shows then: they are not
  `clean`, and last until the next script that reaches everybody. A ghost card stops the
  operator until a reload, as an exception in the panel does. The client connects
  again by itself and asks nobody.
* Scripts that overlap send whole messages in turn. That an update which overtakes a
  deployment is itself passed by one slot of it is left out (`Overtaken`), which loses
  orders of slots, not the mix that `fleet_overlap` is about. In `SwarmCards` all
  orders are there.
* `MqttBridge` loses nothing: loss is the subject of the fleet. Its lists never
  shrink, as in the code.
* `MavlinkStreams` handles one message at a time. A string is alive or not; who frees
  it how often is left out: a link that ends deletes the one in the slot at
  `mavlink_main.cpp:2791`, and its client deletes it again. `destroy_all_instances`
  asks, at `mavlink_main.cpp:495`, for more than 1000 rounds in a loop of 1000, so its
  branch that gives up on a link is never taken and links that still run are deleted;
  this is timing of two processes against a number and not modelled.

## 6. Plan

What could still be added, most important first.

1. `SwarmCards` with four events, so that TLC too sees a third script repair an overlap.
2. `SwarmVehicle`: flight task and ROS 2 node on one vehicle behind the same bridge;
   the node's messages stay latched in PX4's topics.
3. `SWARM_STATUS` by more than 20 nodes, and the age limit of its stream.
4. Heartbeat and custom mode of the node; the turn-rate estimate with time.

## 7. Not modelled

Formation geometry (floating-point layout), views and telemetry of the ground
station, the browser simulator, the earlier web application that is no longer
mounted, start-up scripts, tests; and most of what the repository contains by
size: generated MAVLink headers, and upstream PX4 (the other messages of
`mavlink_receiver.cpp` and `mavlink_main.cpp`, Commander's arming, calibration and
failsafes) beyond the parts named above, on which swarms do not depend. The share
of the lines that is modelled is small for that reason. Reasons are with each
component in `PROJECT.json`.
