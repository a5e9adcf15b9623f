----------------------- MODULE MavlinkStreamsProofs -----------------------
(***************************************************************************)
(* Proofs about the hand-over of stream subscriptions of one link, for any   *)
(* streams and default rates and any number of commands. The invariant says  *)
(* how far the main thread and the client whose pointer it took have come:    *)
(* the slot is not null from the pointer's store until the main thread is     *)
(* done, so that its client waits, and so that a client which was alone       *)
(* finds what it asked for.                                                   *)
(***************************************************************************)
EXTENDS MavlinkStreams, TLAPS

-----------------------------------------------------------------------------
\* Whose pointer is in the slot or was taken from it waits for null.
Waits ==
  /\ slot # Nobody => client[slot].pc = "waitDone"
  /\ main.pc \in {"configure", "clear"} =>
       slot # Nobody /\ client[main.taken].pc = "waitDone"

\* Two clients that are at work know of each other.
Crosses == \A c, d \in Clients : c # d /\ Busy(c) /\ Busy(d) => crossed[c]

\* The rate a client wrote is there, if it is alone.
RateKept ==
  \A c \in Clients :
    ~crossed[c] /\ client[c].pc \in {"pointer", "waitDone"} => slotRate = client[c].rate

\* The main thread clears its list only when there is no receiver any more.
Stopped == main.pc = "stopped" => client["receiver"].pc = "ended"

\* A stream that was found stays.
Found ==
  client["receiver"].pc \in {"lock", "send"} /\ ~crossed["receiver"] =>
    streams[client["receiver"].name] # "absent"

\* A request that did not find its stream waits until it is there.
Asked ==
  LET r == client["receiver"]
      absent == streams[r.name] = "absent"
  IN  r.request =>
        /\ r.rate = "off"
        /\ ~crossed["receiver"] /\ ~shouldExit =>
             /\ r.pc \in {"enter", "waitFree", "rate", "pointer"} => absent
             /\ r.pc = "waitDone" => (absent <=> slot # Nobody /\ main.pc # "clear")
             /\ r.pc = "lookAgain" => ~absent
             /\ r.pc = "idle" => r.outcome # "unasked"

\* Who has a command has a stream.
Named == \A c \in Clients : Busy(c) => client[c].name \in Streams

Inv == StreamsTypeOK /\ Named /\ Waits /\ Crosses /\ RateKept /\ Stopped /\ Found /\ Asked

-----------------------------------------------------------------------------
\* There is one other client.
LEMMA Others == \A c \in Clients : c \in {"receiver", "shell"}
  BY DEF Clients

LEMMA InitInv == Init => Inv
<1> SUFFICES ASSUME Init PROVE Inv
  OBVIOUS
<1> USE StreamsAssumption DEF Init
<1>1. Idle \in Commands
  BY DEF Idle, Commands, ProgramCounters, Rates
<1>2. StreamsTypeOK
  <2>1. client \in [Clients -> Commands] /\ \A c \in Clients : client[c].pc # "send"
    BY <1>1 DEF Idle
  <2>2. streams \in [Streams -> {"absent", "quiet", "periodic"}]
    OBVIOUS
  <2>3. commands \in 0..MaxCommands
    OBVIOUS
  <2> QED
    BY <2>1, <2>2, <2>3 DEF StreamsTypeOK, Rates
<1>3. Named /\ Waits /\ Crosses /\ RateKept /\ Stopped /\ Found /\ Asked
  BY DEF Named, Waits, Crosses, RateKept, Stopped, Found, Asked, Idle, Busy, Clients
<1> QED
  BY <1>2, <1>3 DEF Inv

\* The main thread.
LEMMA MainStep == Inv /\ Main => Inv'
<1> SUFFICES ASSUME Inv, Main PROVE Inv'
  OBVIOUS
<1> USE StreamsAssumption DEF Inv
<1>0. CASE sleep
  BY <1>0 DEF sleep, StreamsTypeOK, Named, Waits, Crosses, RateKept,
     Stopped, Found, Asked, Busy, history
<1>1. CASE takeSubscription
  BY <1>1 DEF takeSubscription, afterSubscription, StreamsTypeOK, Named, Waits, Crosses, RateKept,
     Stopped, Found, Asked, Busy, history
<1>2. CASE configureTaken
  <2> DEFINE n == client[main.taken].name
             rate == rateOf(n, slotRate)
  <2>1. /\ main.pc = "configure" /\ main.taken \in Clients
        /\ slot \in Clients /\ client[main.taken].pc = "waitDone" /\ client[slot].pc = "waitDone"
    BY <1>2 DEF configureTaken, StreamsTypeOK, Waits
  <2>2. n \in Streams /\ rate \in Rates
    BY <2>1 DEF Named, Busy, StreamsTypeOK, rateOf, Rates, Clients
  <2>3. /\ streams' = configure_stream(n, rate)
        /\ main' = [main EXCEPT !.pc = "clear"]
        /\ UNCHANGED <<client, slot, slotRate, sendLock, shouldExit, crossed, commands>>
    BY <1>2 DEF configureTaken, history
  <2>4. StreamsTypeOK'
    BY <2>1, <2>2, <2>3 DEF StreamsTypeOK, configure_stream, Rates
  <2>5. (Named /\ Waits /\ Crosses /\ RateKept /\ Stopped)'
    BY <2>1, <2>3 DEF StreamsTypeOK, Named, Waits, Crosses, RateKept, Stopped, Busy
  \* Only the client that waits has its stream configured, or another client is at work.
  <2>6. \A c \in Clients : Busy(c) /\ ~crossed[c] => c = main.taken
    BY <2>1 DEF Crosses, Busy
  <2>7. Found'
    BY <2>1, <2>3, <2>6, Others DEF Found, Busy, Clients
  <2>8. Asked'
    <3> SUFFICES ASSUME client["receiver"].request, ~crossed["receiver"], ~shouldExit
                 PROVE  Asked'
      BY <2>3 DEF Asked
    <3>1. CASE main.taken = "receiver"
      <4>1. rate = "off" /\ streams[n] = "absent"
        BY <2>1, <3>1 DEF Asked, RateKept, rateOf, Clients
      <4>2. streams'[n] = "quiet"
        BY <2>2, <2>3, <4>1 DEF configure_stream, StreamsTypeOK
      <4> QED
        BY <2>1, <2>3, <3>1, <4>2 DEF Asked, StreamsTypeOK
    <3>2. CASE main.taken # "receiver"
      BY <2>1, <2>3, <2>6, <3>2, Others DEF Asked, Busy, Clients, StreamsTypeOK
    <3> QED
      BY <3>1, <3>2
  <2> QED
    BY <2>4, <2>5, <2>7, <2>8
<1>3. CASE clearSlot
  BY <1>3 DEF clearSlot, afterSubscription, StreamsTypeOK, Named, Waits, Crosses, RateKept,
     Stopped, Found, Asked, Busy, history
<1>4. CASE transmit
  BY <1>4 DEF transmit, StreamsTypeOK, Named, Waits, Crosses, RateKept,
     Stopped, Found, Asked, Busy, history
<1>5. CASE unlock_send
  <2>0. \A c \in Clients : client[c].pc # "send"
    BY <1>5 DEF unlock_send, StreamsTypeOK, Clients
  <2>1. StreamsTypeOK'
    BY <1>5, <2>0 DEF unlock_send, StreamsTypeOK, history
  <2>2. (Named /\ Waits /\ Crosses /\ RateKept /\ Stopped /\ Found /\ Asked)'
    BY <1>5 DEF unlock_send, StreamsTypeOK, Named, Waits, Crosses, RateKept,
       Stopped, Found, Asked, Busy, history
  <2> QED
    BY <2>1, <2>2
<1>6. CASE join
  BY <1>6 DEF join, StreamsTypeOK, Named, Waits, Crosses, RateKept,
     Stopped, Found, Asked, Busy, history
<1>7. CASE release
  BY <1>7 DEF release, StreamsTypeOK, Named, Waits, Crosses, RateKept,
     Stopped, Found, Asked, Busy, history
<1> QED
  BY <1>0, <1>1, <1>2, <1>3, <1>4, <1>5, <1>6, <1>7 DEF Main

\* A new command.
LEMMA BeginStep ==
  ASSUME Inv, NEW c \in Clients, NEW command \in Commands, begin(c, command),
         command.pc \in {"look", "enter"}, command.name \in Streams,
         command.request => command.pc = "look" /\ command.rate = "off"
  PROVE  Inv'
<1> USE StreamsAssumption DEF Inv
<1>1. /\ client[c].pc = "idle" /\ commands < MaxCommands /\ commands' = commands + 1
      /\ client' = [client EXCEPT ![c] = command]
      /\ crossed' = [d \in Clients |-> IF d = c THEN \E e \in Clients : e # c /\ Busy(e)
                                      ELSE crossed[d] \/ Busy(d)]
      /\ UNCHANGED <<main, streams, slot, slotRate, sendLock, shouldExit>>
  BY DEF begin
<1>2. \A d \in Clients : client'[d] = IF d = c THEN command ELSE client[d]
  BY <1>1 DEF StreamsTypeOK
<1>3. \A d \in Clients : d # c => Busy(d)' = Busy(d)
  BY <1>2 DEF Busy
<1>4. crossed' \in [Clients -> BOOLEAN]
  <2>1. ASSUME NEW d \in Clients
        PROVE  /\ (\E e \in Clients : e # c /\ Busy(e)) \in BOOLEAN
               /\ (crossed[d] \/ Busy(d)) \in BOOLEAN
    OBVIOUS
  <2> QED
    BY <1>1, <2>1
<1>5. StreamsTypeOK'
  <2>1. client' \in [Clients -> Commands] /\ \A d \in Clients : client'[d].pc = "send" => sendLock = d
    BY <1>1, <1>2 DEF StreamsTypeOK
  <2>2. commands' \in 0..MaxCommands
    BY <1>1 DEF StreamsTypeOK
  <2> QED
    BY <1>1, <1>4, <2>1, <2>2 DEF StreamsTypeOK
<1>6. (Named /\ Waits /\ Stopped)'
  BY <1>1, <1>2 DEF StreamsTypeOK, Named, Waits, Stopped, Busy
<1>7. Crosses'
  BY <1>1, <1>2, <1>3 DEF Crosses
<1>8. RateKept'
  BY <1>1, <1>2 DEF RateKept, Busy
<1>9. (Found /\ Asked)'
  <2>1. CASE c = "receiver"
    BY <1>1, <1>2, <2>1 DEF Found, Asked
  <2>2. CASE c # "receiver"
    BY <1>1, <1>2, <2>2 DEF Found, Asked, Clients
  <2> QED
    BY <2>1, <2>2
<1> QED
  BY <1>5, <1>6, <1>7, <1>8, <1>9

\* What is commanded.
LEMMA OperatorStep == Inv /\ Operator => Inv'
<1> SUFFICES ASSUME Inv, Operator PROVE Inv'
  OBVIOUS
<1>1. ASSUME NEW n \in Streams, handle_request_message_command(n) PROVE Inv'
  <2> DEFINE command == [Idle EXCEPT !.pc = "look", !.name = n, !.request = TRUE]
  <2>1. /\ command \in Commands /\ command.pc = "look" /\ command.name = n
        /\ command.rate = "off"
    BY DEF Idle, Commands, ProgramCounters, Rates
  <2>2. begin("receiver", command)
    BY <1>1 DEF handle_request_message_command
  <2> HIDE DEF command
  <2> QED
    BY <2>1, <2>2, BeginStep DEF Clients
<1>2. ASSUME NEW n \in Streams, NEW rate \in Rates \cup {"default"},
             set_message_interval(n, rate) \/ stream_command(n, rate)
      PROVE  Inv'
  <2> DEFINE command == [Idle EXCEPT !.pc = "enter", !.name = n, !.rate = rate]
  <2>1. /\ command \in Commands /\ command.pc = "enter" /\ command.name = n
        /\ ~command.request
    BY DEF Idle, Commands, ProgramCounters, Rates
  <2>2. begin("receiver", command) \/ begin("shell", command)
    BY <1>2 DEF set_message_interval, stream_command
  <2> HIDE DEF command
  <2> QED
    BY <2>1, <2>2, BeginStep DEF Clients
<1>3. ASSUME request_stop PROVE Inv'
  BY <1>3 DEF request_stop, history, Inv, StreamsTypeOK, Named, Waits, Crosses, RateKept,
     Stopped, Found, Asked, Busy
<1> QED
  BY <1>1, <1>2, <1>3 DEF Operator

-----------------------------------------------------------------------------
\* A step of c moves c alone.
LEMMA Goes ==
  ASSUME StreamsTypeOK, NEW c \in Clients, goes(c, client'[c].pc), client'[c].pc \in ProgramCounters
  PROVE  /\ client' \in [Clients -> Commands]
         /\ \A d \in Clients : d # c => client'[d] = client[d]
         /\ client'[c].name = client[c].name /\ client'[c].rate = client[c].rate
         /\ client'[c].request = client[c].request /\ client'[c].outcome = client[c].outcome
  BY DEF goes, StreamsTypeOK, Commands, ProgramCounters

LEMMA ClientStep ==
  ASSUME Inv, NEW c \in Clients, Command(c)
  PROVE  Inv'
<1> USE StreamsAssumption DEF Inv
<1>1. CASE look(c)
  BY <1>1 DEF look, goes, history, StreamsTypeOK, Commands, ProgramCounters, Named, Waits, Crosses, RateKept,
     Stopped, Found, Asked, Busy
<1>2. CASE enter(c)
  <2>1. /\ client[c].pc = "enter"
        /\ client'[c].pc \in {"waitFree", "lookAgain", "idle"}
        /\ client'[c].pc = "waitFree" \/ shouldExit
        /\ goes(c, client'[c].pc)
        /\ UNCHANGED <<main, streams, slot, slotRate, sendLock, shouldExit, crossed, commands>>
    BY <1>2 DEF enter, goes, afterwards, history, StreamsTypeOK, Commands, ProgramCounters
  <2>2. StreamsTypeOK'
    BY <2>1, Goes DEF StreamsTypeOK, ProgramCounters
  <2>0. /\ \A d \in Clients : d # c => client'[d] = client[d]
        /\ client'[c].name = client[c].name /\ client'[c].rate = client[c].rate
        /\ client'[c].request = client[c].request /\ client'[c].outcome = client[c].outcome
        /\ "receiver" \in Clients
    BY <2>1, Goes DEF ProgramCounters, Clients
  <2>3. (Named /\ Waits /\ Crosses /\ RateKept /\ Stopped /\ Found /\ Asked)'
    <3>1. (Named /\ Waits /\ Stopped)'
      BY <2>1, <2>0 DEF StreamsTypeOK, Named, Waits, Stopped, Busy
    <3>2. (Crosses /\ RateKept)'
      BY <2>1, <2>0 DEF Crosses, RateKept, Busy
    <3>3. (Found /\ Asked)'
      <4>1. CASE c = "receiver"
        BY <2>1, <2>0, <4>1 DEF Found, Asked
      <4>2. CASE c # "receiver"
        BY <2>1, <2>0, <4>2 DEF Found, Asked
      <4> QED
        BY <4>1, <4>2
    <3> QED
      BY <3>1, <3>2, <3>3
  <2> QED
    BY <2>2, <2>3
<1>3. CASE waitFree(c)
  BY <1>3 DEF waitFree, goes, history, StreamsTypeOK, Commands, ProgramCounters, Named, Waits, Crosses, RateKept,
     Stopped, Found, Asked, Busy
<1>4. CASE publish(c)
  <2>1. /\ \/ /\ client[c].pc = "rate" /\ client'[c].pc = "pointer"
              /\ slotRate' = client[c].rate /\ UNCHANGED slot
           \/ /\ client[c].pc = "pointer" /\ client'[c].pc = "waitDone"
              /\ slot' = c /\ UNCHANGED slotRate
        /\ goes(c, client'[c].pc)
        /\ UNCHANGED <<main, streams, sendLock, shouldExit, crossed, commands>>
    BY <1>4 DEF publish, goes, history, StreamsTypeOK, Commands, ProgramCounters
  <2>2. client[c].rate \in Rates \cup {"default"}
    BY DEF StreamsTypeOK, Commands, ProgramCounters
  <2>3. StreamsTypeOK'
    BY <2>1, <2>2, Goes DEF StreamsTypeOK, ProgramCounters
  <2>0. /\ \A d \in Clients : d # c => client'[d] = client[d]
        /\ client'[c].name = client[c].name /\ client'[c].rate = client[c].rate
        /\ client'[c].request = client[c].request /\ client'[c].outcome = client[c].outcome
        /\ "receiver" \in Clients
    BY <2>1, Goes DEF ProgramCounters, Clients
  <2>4. (Named /\ Stopped /\ Found)'
    <3>1. CASE c = "receiver"
      BY <2>1, <2>0, <3>1 DEF Named, Stopped, Found, Busy
    <3>2. CASE c # "receiver"
      BY <2>1, <2>0, <3>2 DEF Named, Stopped, Found, Busy
    <3> QED
      BY <3>1, <3>2
  <2>8. Waits'
    BY <2>1, <2>0 DEF StreamsTypeOK, Waits
  <2>5. (Crosses /\ RateKept)'
    BY <2>1, Goes DEF StreamsTypeOK, ProgramCounters, Crosses, RateKept, Busy
  \* If c is alone the main thread is not at work for another client.
  <2>6. ~crossed[c] => main.pc # "clear" /\ slot = Nobody
    BY <2>1 DEF StreamsTypeOK, Waits, Crosses, Busy
  <2>7. Asked'
    <3>1. CASE c = "receiver"
      BY <2>1, <2>6, <3>1, Goes DEF StreamsTypeOK, ProgramCounters, Asked
    <3>2. CASE c # "receiver"
      <4>1. Busy("receiver") => crossed["receiver"]
        BY <2>1, <3>2 DEF Crosses, Busy, Clients
      <4> QED
        BY <2>1, <3>2, <4>1, Goes DEF StreamsTypeOK, ProgramCounters, Asked, Clients, Busy
    <3> QED
      BY <3>1, <3>2
  <2> QED
    BY <2>3, <2>4, <2>5, <2>7, <2>8
<1>5. CASE waitDone(c)
  BY <1>5 DEF waitDone, afterwards, goes, history, StreamsTypeOK, Commands, ProgramCounters, Named, Waits, Crosses, RateKept,
     Stopped, Found, Asked, Busy
<1>6. CASE lookAgain(c)
  BY <1>6 DEF lookAgain, goes, history, StreamsTypeOK, Commands, ProgramCounters, Named, Waits, Crosses, RateKept,
     Stopped, Found, Asked, Busy
<1>7. CASE lock_send(c)
  <2>1. /\ client[c].pc = "lock" /\ client'[c].pc = "send"
        /\ sendLock \in {Nobody, c} /\ sendLock' = c
        /\ goes(c, client'[c].pc)
        /\ UNCHANGED <<main, streams, slot, slotRate, shouldExit, crossed, commands>>
    BY <1>7 DEF lock_send, goes, history, StreamsTypeOK, Commands, ProgramCounters
  <2>2. main.pc # "sending" /\ c # "main"
    BY <2>1 DEF StreamsTypeOK, Clients
  <2>3. StreamsTypeOK'
    BY <2>1, <2>2, Goes DEF StreamsTypeOK, ProgramCounters
  <2>0. /\ \A d \in Clients : d # c => client'[d] = client[d]
        /\ client'[c].name = client[c].name /\ client'[c].rate = client[c].rate
        /\ client'[c].request = client[c].request /\ client'[c].outcome = client[c].outcome
        /\ "receiver" \in Clients
    BY <2>1, Goes DEF ProgramCounters, Clients
  <2>4. (Named /\ Waits /\ Crosses /\ RateKept /\ Stopped /\ Found /\ Asked)'
    <3>1. (Named /\ Waits /\ Stopped)'
      BY <2>1, <2>0 DEF StreamsTypeOK, Named, Waits, Stopped, Busy
    <3>2. (Crosses /\ RateKept)'
      BY <2>1, <2>0 DEF Crosses, RateKept, Busy
    <3>3. (Found /\ Asked)'
      <4>1. CASE c = "receiver"
        BY <2>1, <2>0, <4>1 DEF Found, Asked
      <4>2. CASE c # "receiver"
        BY <2>1, <2>0, <4>2 DEF Found, Asked
      <4> QED
        BY <4>1, <4>2
    <3> QED
      BY <3>1, <3>2, <3>3
  <2> QED
    BY <2>3, <2>4
<1>8. CASE request_message(c)
  <2>9. PICK outcome \in Outcomes :
              client' = [client EXCEPT ![c].pc = "idle", ![c].outcome = outcome]
    BY <1>8 DEF request_message
  <2>1. /\ client[c].pc = "send" /\ sendLock = c /\ sendLock' = Nobody
        /\ client' = [client EXCEPT ![c].pc = "idle", ![c].outcome = outcome]
        /\ UNCHANGED <<main, streams, slot, slotRate, shouldExit, crossed, commands>>
    BY <1>8, <2>9 DEF request_message, history, StreamsTypeOK
  <2>2. /\ client' \in [Clients -> Commands]
        /\ \A d \in Clients : d # c => client'[d] = client[d]
        /\ client'[c].pc = "idle" /\ client'[c].outcome # "unasked"
        /\ client'[c].request = client[c].request /\ client'[c].rate = client[c].rate
        /\ "receiver" \in Clients
    <3> DEFINE r == [client[c] EXCEPT !.pc = "idle", !.outcome = outcome]
    <3>1. client[c] \in Commands /\ client \in [Clients -> Commands]
      BY DEF StreamsTypeOK
    <3>2. /\ r \in Commands /\ r.pc = "idle" /\ r.outcome # "unasked"
          /\ r.request = client[c].request /\ r.rate = client[c].rate
      BY <3>1 DEF Commands, ProgramCounters, Outcomes
    <3>3. client' = [client EXCEPT ![c] = r]
      BY <2>1
    <3> HIDE DEF r
    <3> QED
      BY <3>1, <3>2, <3>3 DEF Clients
  <2>3. main.pc # "sending" /\ \A d \in Clients : d # c => client[d].pc # "send"
    BY <2>1 DEF StreamsTypeOK, Clients
  <2>4. StreamsTypeOK'
    BY <2>1, <2>2, <2>3 DEF StreamsTypeOK
  <2>5. (Named /\ Waits /\ Crosses /\ RateKept /\ Stopped /\ Found /\ Asked)'
    <3>1. (Named /\ Waits /\ Stopped)'
      BY <2>1, <2>2 DEF StreamsTypeOK, Named, Waits, Stopped, Busy
    <3>2. (Crosses /\ RateKept)'
      BY <2>1, <2>2 DEF Crosses, RateKept, Busy
    <3>3. (Found /\ Asked)'
      <4>1. CASE c = "receiver"
        BY <2>1, <2>2, <4>1 DEF Found, Asked
      <4>2. CASE c # "receiver"
        BY <2>1, <2>2, <4>2 DEF Found, Asked
      <4> QED
        BY <4>1, <4>2
    <3> QED
      BY <3>1, <3>2, <3>3
  <2> QED
    BY <2>4, <2>5
<1> QED
  BY <1>1, <1>2, <1>3, <1>4, <1>5, <1>6, <1>7, <1>8 DEF Command

LEMMA EndReceiverStep == Inv /\ endReceiver => Inv'
<1> SUFFICES ASSUME Inv, endReceiver PROVE Inv'
  OBVIOUS
<1> USE StreamsAssumption DEF Inv
<1>1. /\ client["receiver"].pc = "idle" /\ client'["receiver"].pc = "ended" /\ shouldExit
      /\ "receiver" \in Clients /\ goes("receiver", client'["receiver"].pc)
      /\ UNCHANGED <<main, streams, slot, slotRate, sendLock, shouldExit, crossed, commands>>
  BY DEF endReceiver, goes, history, StreamsTypeOK, Commands, ProgramCounters, Clients
<1>2. StreamsTypeOK'
  BY <1>1, Goes DEF StreamsTypeOK, ProgramCounters
<1>3. (Named /\ Waits /\ Crosses /\ RateKept /\ Stopped /\ Found /\ Asked)'
  BY <1>1, Goes DEF StreamsTypeOK, ProgramCounters, Named, Waits, Crosses, RateKept, Stopped, Found,
     Asked, Busy
<1> QED
  BY <1>2, <1>3

-----------------------------------------------------------------------------
THEOREM StreamsInv == Spec => []Inv
<1>1. Init => Inv
  BY InitInv
<1>2. Inv /\ [Next]_vars => Inv'
  <2>1. CASE UNCHANGED vars
    BY <2>1 DEF vars, history, Inv, StreamsTypeOK, Named, Waits, Crosses, RateKept, Stopped, Found,
       Asked, Busy
  <2> QED
    BY <2>1, MainStep, OperatorStep, ClientStep, EndReceiverStep DEF Next, Threads
<1> QED
  BY <1>1, <1>2, PTL DEF Spec

\* Types, and one holder of the lock that is held while messages are sent
\* (lock_send of the main thread and of the receiver).
THEOREM StreamsTypeCorrect == Spec => []StreamsTypeOK
<1>1. Inv => StreamsTypeOK
  BY DEF Inv
<1> QED
  BY <1>1, StreamsInv, PTL

\* The main thread never reads the name of a stream after its client has freed
\* it, however many clients call configure_stream_threadsafe() at once.
THEOREM NamesAlive == Spec => []NamesAreAlive
<1>1. Inv => NamesAreAlive
  BY DEF Inv, StreamsTypeOK, Waits, NamesAreAlive, HasString
<1> QED
  BY <1>1, StreamsInv, PTL

\* The rate the main thread reads is the one stored for the name it has, unless
\* two clients are in configure_stream_threadsafe() at once.
THEOREM RateOfTheName == Spec => []OwnRate
<1>1. Inv => OwnRate
  BY DEF Inv, StreamsTypeOK, Waits, RateKept, OwnRate
<1> QED
  BY <1>1, StreamsInv, PTL

\* A request reaches the stream of its message, present or not when it came, unless
\* another client configures streams meanwhile or the link was told to end.
THEOREM RequestReaches == Spec => []RequestReachesStream
<1>1. Inv => RequestReachesStream
  BY DEF Inv, StreamsTypeOK, Asked, RequestReachesStream
<1> QED
  BY <1>1, StreamsInv, PTL

\* The receiver never sends through a stream the main thread has deleted, unless
\* another client configures streams meanwhile.
THEOREM StreamThere == Spec => []StreamIsThere
<1>1. Inv => StreamIsThere
  BY DEF Inv, Found, StreamIsThere
<1> QED
  BY <1>1, StreamsInv, PTL

=============================================================================
