--------------------------- MODULE MavlinkStreams ---------------------------
(***************************************************************************)
(* One MAVLink link of a vehicle: its main thread sends the streams, its     *)
(* receiver thread handles commands, among them the request for a            *)
(* SWARM_STATUS, and commands of the shell come from a third. Streams may    *)
(* only be configured in the main thread; the others leave it a pointer and  *)
(* a rate and wait until the pointer is null again. The main thread sends    *)
(* its streams, and the receiver what was requested, under one lock.         *)
(***************************************************************************)
EXTENDS Naturals

CONSTANTS
  Streams,       \* names of streams
  Default,       \* Default[n]: the rate of n in the mode of the link
  Nobody,        \* the null pointer, and nobody that holds the lock
  MaxCommands    \* bound: commands that are ever given

Clients == {"receiver", "shell"}
Rates == {"off", "on"}

ASSUME StreamsAssumption ==
  /\ Default \in [Streams -> Rates]
  /\ Nobody \notin Clients \cup {"main"}
  /\ MaxCommands \in Nat

VARIABLES
  main,          \* main thread: where it is, and the pointer it took
  client,        \* client[c]: where it is, and its command
  streams,       \* _streams: absent, quiet (interval 0) or periodic
  slot,          \* _subscribe_to_stream: whose string it points to
  slotRate,      \* _subscribe_to_stream_rate
  sendLock,      \* who holds the lock of the channel
  shouldExit,    \* _task_should_exit, and that of the receiver
  crossed,       \* crossed[c]: another client was at work too (history)
  commands       \* counted for the bound

vars == <<main, client, streams, slot, slotRate, sendLock, shouldExit, crossed, commands>>
history == <<crossed, commands>>

-----------------------------------------------------------------------------
(***************************************************************************)
(* The main thread.                                                          *)
(***************************************************************************)
\* A rate of zero deletes a stream that is there, and creates one that is not.
configure_streamWrong(n, rate) ==
  [streams EXCEPT ![n] = IF rate = "on" THEN "periodic" ELSE "absent"]

configure_stream(n, rate) ==
  [streams EXCEPT ![n] = IF rate = "on" THEN "periodic"
                         ELSE IF @ = "absent" THEN "quiet" ELSE "absent"]

rateOf(n, rate) == IF rate = "default" THEN Default[n] ELSE rate

\* A link that may not transmit skips its streams, and only them.
afterSubscription == {"transmit", "loop"}

\* The loop goes on as long as the link is not told to end, and sleeps first.
sleep ==
  /\ main.pc = "loop" /\ ~shouldExit
  /\ main' = [main EXCEPT !.pc = "awake"]
  /\ UNCHANGED <<client, streams, slot, slotRate, sendLock, shouldExit, history>>

\* What waits in the slot then is taken,
takeSubscription ==
  /\ main.pc = "awake"
  /\ IF slot = Nobody
     THEN \E pc \in afterSubscription : main' = [main EXCEPT !.pc = pc]
     ELSE main' = [pc |-> "configure", taken |-> slot]
  /\ UNCHANGED <<client, streams, slot, slotRate, sendLock, shouldExit, history>>

\* configured, with the rate as it is now,
configureTaken ==
  /\ main.pc = "configure"
  /\ LET n == client[main.taken].name
     IN  streams' = configure_stream(n, rateOf(n, slotRate))
  /\ main' = [main EXCEPT !.pc = "clear"]
  /\ UNCHANGED <<client, slot, slotRate, sendLock, shouldExit, history>>

\* and whatever is in the slot then is taken for done.
clearSlot ==
  /\ main.pc = "clear"
  /\ slot' = Nobody
  /\ \E pc \in afterSubscription : main' = [pc |-> pc, taken |-> Nobody]
  /\ UNCHANGED <<client, streams, slotRate, sendLock, shouldExit, history>>

\* The streams are sent under the lock.
transmit ==
  /\ main.pc = "transmit" /\ sendLock = Nobody
  /\ sendLock' = "main"
  /\ main' = [main EXCEPT !.pc = "sending"]
  /\ UNCHANGED <<client, streams, slot, slotRate, shouldExit, history>>

unlock_send ==
  /\ main.pc = "sending"
  /\ sendLock' = Nobody
  /\ main' = [main EXCEPT !.pc = "loop"]
  /\ UNCHANGED <<client, streams, slot, slotRate, shouldExit, history>>

\* At the end it waits for the receiver, and only then releases who waits.
join ==
  /\ main.pc = "loop" /\ shouldExit
  /\ main' = [main EXCEPT !.pc = "joining"]
  /\ UNCHANGED <<client, streams, slot, slotRate, sendLock, shouldExit, history>>

release ==
  /\ main.pc = "joining" /\ client["receiver"].pc = "ended"
  /\ slot' = Nobody
  /\ streams' = [n \in Streams |-> "absent"]
  /\ main' = [main EXCEPT !.pc = "stopped"]
  /\ UNCHANGED <<client, slotRate, sendLock, shouldExit, history>>

Main ==
  \/ sleep \/ takeSubscription \/ configureTaken \/ clearSlot
  \/ transmit \/ unlock_send \/ join \/ release

-----------------------------------------------------------------------------
(***************************************************************************)
(* Commands. A client c runs one at a time; goes(c, pc) is its next step.    *)
(***************************************************************************)
Idle ==
  [pc |-> "idle", name |-> Nobody, rate |-> "off", request |-> FALSE, outcome |-> "unasked"]

goes(c, pc) == client' = [client EXCEPT ![c].pc = pc]

Busy(c) == client[c].pc \notin {"idle", "ended"}

begin(c, command) ==
  /\ client[c].pc = "idle"
  /\ commands < MaxCommands
  /\ commands' = commands + 1
  /\ client' = [client EXCEPT ![c] = command]
  /\ crossed' = [d \in Clients |-> IF d = c THEN \E e \in Clients : e # c /\ Busy(e)
                                   ELSE crossed[d] \/ Busy(d)]
  /\ UNCHANGED <<main, streams, slot, slotRate, sendLock, shouldExit>>

\* MAV_CMD_REQUEST_MESSAGE.
handle_request_message_command(n) ==
  ~shouldExit /\ begin("receiver", [Idle EXCEPT !.pc = "look", !.name = n, !.request = TRUE])

\* MAV_CMD_SET_MESSAGE_INTERVAL; no interval stops the stream.
set_message_interval(n, rate) ==
  ~shouldExit /\ begin("receiver", [Idle EXCEPT !.pc = "enter", !.name = n, !.rate = rate])

\* The shell's "mavlink stream"; it gives no rate for the default one.
stream_command(n, rate) ==
  begin("shell", [Idle EXCEPT !.pc = "enter", !.name = n, !.rate = rate])

\* The lock is taken for the whole request, also for configuring the stream.
lookWrong(c) ==
  /\ client[c].pc = "look" /\ sendLock = Nobody
  /\ sendLock' = c
  /\ goes(c, IF streams[client[c].name] # "absent" THEN "lock" ELSE "enter")
  /\ UNCHANGED <<main, streams, slot, slotRate, shouldExit, history>>

\* A stream that is there sends what was requested; one that is not is created
\* without a rate of its own first. The list is read under no lock.
look(c) ==
  /\ client[c].pc = "look"
  /\ goes(c, IF streams[client[c].name] # "absent" THEN "lock" ELSE "enter")
  /\ UNCHANGED <<main, streams, slot, slotRate, sendLock, shouldExit, history>>

afterwards(c) == IF client[c].request THEN "lookAgain" ELSE "idle"

\* configure_stream_threadsafe(): not for a link that ends,
enter(c) ==
  /\ client[c].pc = "enter"
  /\ goes(c, IF shouldExit THEN afterwards(c) ELSE "waitFree")
  /\ UNCHANGED <<main, streams, slot, slotRate, sendLock, shouldExit, history>>

\* wait until the slot is free,
waitFree(c) ==
  /\ client[c].pc = "waitFree" /\ slot = Nobody
  /\ goes(c, "rate")
  /\ UNCHANGED <<main, streams, slot, slotRate, sendLock, shouldExit, history>>

\* The pointer is there before its rate is.
publishWrong(c) ==
  /\ \/ /\ client[c].pc = "rate"
        /\ slot' = c /\ UNCHANGED slotRate
        /\ goes(c, "pointer")
     \/ /\ client[c].pc = "pointer"
        /\ slotRate' = client[c].rate /\ UNCHANGED slot
        /\ goes(c, "waitDone")
  /\ UNCHANGED <<main, streams, sendLock, shouldExit, history>>

\* write the rate, then the pointer,
publish(c) ==
  /\ \/ /\ client[c].pc = "rate"
        /\ slotRate' = client[c].rate /\ UNCHANGED slot
        /\ goes(c, "pointer")
     \/ /\ client[c].pc = "pointer"
        /\ slot' = c /\ UNCHANGED slotRate
        /\ goes(c, "waitDone")
  /\ UNCHANGED <<main, streams, sendLock, shouldExit, history>>

\* The string is freed though the main thread may still have it.
waitDoneWrong(c) ==
  /\ client[c].pc = "waitDone"
  /\ goes(c, afterwards(c))
  /\ UNCHANGED <<main, streams, slot, slotRate, sendLock, shouldExit, history>>

\* and wait until it is null again.
waitDone(c) ==
  /\ client[c].pc = "waitDone" /\ slot = Nobody
  /\ goes(c, afterwards(c))
  /\ UNCHANGED <<main, streams, slot, slotRate, sendLock, shouldExit, history>>

\* The stream is taken to be there now.
lookAgainWrong(c) ==
  /\ client[c].pc = "lookAgain"
  /\ goes(c, "lock")
  /\ UNCHANGED <<main, streams, slot, slotRate, sendLock, shouldExit, history>>

\* Then a request looks for its stream once more.
lookAgain(c) ==
  /\ client[c].pc = "lookAgain"
  /\ goes(c, IF streams[client[c].name] # "absent" THEN "lock" ELSE "idle")
  /\ UNCHANGED <<main, streams, slot, slotRate, sendLock, shouldExit, history>>

\* Nothing is locked.
lock_sendWrong(c) ==
  /\ client[c].pc = "lock"
  /\ sendLock' = c
  /\ goes(c, "send")
  /\ UNCHANGED <<main, streams, slot, slotRate, shouldExit, history>>

\* The lock is recursive.
lock_send(c) ==
  /\ client[c].pc = "lock" /\ sendLock \in {Nobody, c}
  /\ sendLock' = c
  /\ goes(c, "send")
  /\ UNCHANGED <<main, streams, slot, slotRate, shouldExit, history>>

\* What a stream makes of a request: it may have nothing to send.
Outcomes == {"sent", "refused"}

\* The lock is not given back.
request_messageWrong(c) ==
  /\ client[c].pc = "send"
  /\ \E outcome \in Outcomes :
       client' = [client EXCEPT ![c].pc = "idle", ![c].outcome = outcome]
  /\ UNCHANGED <<main, streams, slot, slotRate, sendLock, shouldExit, history>>

\* The stream sends its message or refuses; the command is accepted or denied with it.
request_message(c) ==
  /\ client[c].pc = "send"
  /\ sendLock' = Nobody
  /\ \E outcome \in Outcomes :
       client' = [client EXCEPT ![c].pc = "idle", ![c].outcome = outcome]
  /\ UNCHANGED <<main, streams, slot, slotRate, shouldExit, history>>

\* The receiver's loop ends between two messages.
endReceiver ==
  /\ client["receiver"].pc = "idle" /\ shouldExit
  /\ goes("receiver", "ended")
  /\ UNCHANGED <<main, streams, slot, slotRate, sendLock, shouldExit, history>>

Command(c) ==
  \/ look(c) \/ enter(c) \/ waitFree(c) \/ publish(c) \/ waitDone(c)
  \/ lookAgain(c) \/ lock_send(c) \/ request_message(c)

\* The shell's "mavlink stop" and "mavlink stop-all".
request_stop ==
  /\ ~shouldExit
  /\ shouldExit' = TRUE
  /\ UNCHANGED <<main, client, streams, slot, slotRate, sendLock, history>>

-----------------------------------------------------------------------------
Init ==
  /\ main = [pc |-> "loop", taken |-> Nobody]
  /\ client = [c \in Clients |-> Idle]
  /\ streams = [n \in Streams |-> IF Default[n] = "on" THEN "periodic" ELSE "absent"]
  /\ slot = Nobody
  /\ slotRate = "off"
  /\ sendLock = Nobody
  /\ shouldExit = FALSE
  /\ crossed = [c \in Clients |-> FALSE]
  /\ commands = 0

Operator ==
  \/ \E n \in Streams : handle_request_message_command(n)
  \/ \E n \in Streams, rate \in Rates \cup {"default"} :
        set_message_interval(n, rate) \/ stream_command(n, rate)
  \/ request_stop

Threads == Main \/ endReceiver \/ \E c \in Clients : Command(c)

Next == Operator \/ Threads

\* The threads are scheduled; nobody has to give a command. The main thread sleeps
\* between two uses of the lock, so that the receiver gets it in the end.
Spec ==
  /\ Init /\ [][Next]_vars
  /\ WF_vars(Main)
  /\ WF_vars(endReceiver)
  /\ \A c \in Clients : WF_vars(Command(c))
  /\ SF_vars(lock_send("receiver"))

-----------------------------------------------------------------------------
ProgramCounters == {"idle", "look", "enter", "waitFree", "rate", "pointer", "waitDone",
                    "lookAgain", "lock", "send", "ended"}

Commands ==
  [pc : ProgramCounters, name : Streams \cup {Nobody}, rate : Rates \cup {"default"},
   request : BOOLEAN, outcome : Outcomes \cup {"unasked"}]

\* Type invariant, with the holder of the lock where the code holds it.
StreamsTypeOK ==
  /\ main \in [pc : {"loop", "awake", "configure", "clear", "transmit", "sending", "joining", "stopped"},
               taken : Clients \cup {Nobody}]
  /\ client \in [Clients -> Commands]
  /\ streams \in [Streams -> {"absent", "quiet", "periodic"}]
  /\ slot \in Clients \cup {Nobody}
  /\ slotRate \in Rates \cup {"default"}
  /\ sendLock \in Clients \cup {"main", Nobody}
  /\ shouldExit \in BOOLEAN
  /\ crossed \in [Clients -> BOOLEAN]
  /\ commands \in 0..MaxCommands
  /\ main.taken = Nobody <=> main.pc \notin {"configure", "clear"}
  /\ sendLock = "main" <=> main.pc = "sending"
  /\ \A c \in Clients : client[c].pc = "send" => sendLock = c

\* A string lives from its allocation until its client has seen the null pointer.
HasString(c) == client[c].pc \in {"rate", "pointer", "waitDone"}

\* The string the main thread reads has not been freed, also when two clients
\* overwrite each other's pointer and one null pointer releases both.
NamesAreAlive ==
  /\ slot # Nobody => HasString(slot)
  /\ main.pc = "configure" => HasString(main.taken)

\* "rate must be visible to the consumer before the non-null pointer": a stream
\* gets the rate that was asked for it, unless two clients were at work.
OwnRate ==
  main.pc = "configure" /\ ~crossed[main.taken] => slotRate = client[main.taken].rate

\* A request for a message the link knows reaches its stream, which is created for
\* it if need be, and is only denied if the stream refuses, unless another client
\* was at work or the link was told to end.
RequestReachesStream ==
  LET r == client["receiver"]
  IN  r.pc = "idle" /\ r.request /\ ~crossed["receiver"] /\ ~shouldExit => r.outcome # "unasked"

\* What the receiver is about to use has not been deleted by the main thread.
StreamIsThere ==
  LET r == client["receiver"]
  IN  r.pc = "send" /\ ~crossed["receiver"] => streams[r.name] # "absent"

\* No circular wait of threads: every command returns, as long as the link runs.
CommandsReturn ==
  \A c \in Clients : client[c].pc # "idle" ~> client[c].pc = "idle" \/ shouldExit

\* A link that is told to end does so, unless its main thread waits for the
\* receiver and the receiver for a slot that nobody clears any more.
LinkEnds ==
  shouldExit ~> \/ main.pc = "stopped"
                \/ /\ main.pc = "joining" /\ slot # Nobody
                   /\ client["receiver"].pc \in {"waitFree", "waitDone"}
=============================================================================
