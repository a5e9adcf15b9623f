-------------------------- MODULE FlightModeManager --------------------------
(***************************************************************************)
(* Which flight task flies a multicopter: Commander publishes its control    *)
(* mode and its status as two topics, one after the other; each loop of the  *)
(* flight mode manager reads them one after the other, in another thread,    *)
(* and switches tasks by what it read. The Swarm task holds its formation    *)
(* only as long as it is not switched away.                                  *)
(***************************************************************************)

CONSTANTS
  NavStates,   \* the navigation states Commander enters
  Phases,      \* the VTOL phases
  Failures     \* which tasks cannot be activated, together, at some moment

Tasks == {"None", "Auto", "AutoFollowTarget", "Swarm", "Orbit", "Transition", "ManualPosition",
          "ManualAccelerationSlow", "ManualAltitude", "AltitudeCruise", "Descend", "Failsafe"}

ASSUME NavStatesAssumption ==
  NavStates \subseteq {"MANUAL", "ALTCTL", "POSCTL", "AUTO_LOITER", "POSITION_SLOW",
                       "ALTITUDE_CRUISE", "DESCEND", "SWARM", "AUTO_FOLLOW_TARGET", "ORBIT",
                       "EXTERNAL1"}
ASSUME PhasesAssumption == Phases \subseteq {"rotary", "transition", "fixedWing"}

\* The Swarm task and the task of last resort can always be activated.
ASSUME FailuresAssumption == Failures \subseteq SUBSET (Tasks \ {"None", "Swarm", "Failsafe"})

VARIABLES
  status,       \* Commander: _vehicle_status
  controlMode,  \* topic vehicle_control_mode
  vehicleStatus,\* topic vehicle_status
  controlRead,  \* manager: _vehicle_control_mode_sub, as the current loop read it
  reading,      \* manager: a loop has read controlRead, and not yet the status
  manager,      \* manager: the current task, whether it is a Swarm task that
                \*   collected something, and _command_failed
  orbit         \* the last DO_ORBIT: none, sent, or stored in _current_command

commanderVars == <<status, controlMode, vehicleStatus>>
vars == <<status, controlMode, vehicleStatus, controlRead, reading, manager, orbit>>

-----------------------------------------------------------------------------
(***************************************************************************)
(* Commander.                                                                *)
(***************************************************************************)
Status == [nav : NavStates, phase : Phases]

\* The flags of the control mode that decide about flight tasks.
getVehicleControlMode(s) ==
  [auto     |-> s.nav \in {"AUTO_LOITER", "DESCEND"},
   altitude |-> s.nav \notin {"MANUAL", "DESCEND"}]

\* A loop of Commander: the operator, a failsafe or the VTOL controller changes
\* the status, or 500 ms are over. The control mode is published first.
updateControlMode(s) ==
  /\ vehicleStatus = status
  /\ status' = s
  /\ controlMode' = getVehicleControlMode(s)
  /\ UNCHANGED <<vehicleStatus, controlRead, reading, manager, orbit>>

publishStatus ==
  /\ vehicleStatus # status
  /\ vehicleStatus' = status
  /\ UNCHANGED <<status, controlMode, controlRead, reading, manager, orbit>>

\* The operator orders an orbit; Commander may change the mode before or after.
sendOrbit ==
  /\ "ORBIT" \in NavStates
  /\ orbit' = "sent"
  /\ UNCHANGED <<commanderVars, controlRead, reading, manager>>

-----------------------------------------------------------------------------
(***************************************************************************)
(* The flight mode manager. An operator takes the manager as it is before    *)
(* and returns it as it is after; failing is the set of tasks whose          *)
(* activation fails now.                                                     *)
(***************************************************************************)
Manager == [task : Tasks, collected : BOOLEAN, commandFailed : BOOLEAN]

\* The outcome of a switch, with the flags start_flight_task() goes by.
Switching == [task : Tasks, collected : BOOLEAN, commandFailed : BOOLEAN,
              error : BOOLEAN, found : BOOLEAN, failure : BOOLEAN]

begin == [task |-> manager.task, collected |-> manager.collected,
          commandFailed |-> manager.commandFailed,
          error |-> FALSE, found |-> FALSE, failure |-> FALSE]

\* The running task is constructed anew as well.
switchTaskAnewWrong(m, new, failing) ==
  IF new = "None"
  THEN [m EXCEPT !.error = FALSE, !.task = "None", !.collected = FALSE]
  ELSE IF new \in failing
       THEN [m EXCEPT !.error = TRUE, !.task = "None", !.collected = FALSE]
       ELSE [m EXCEPT !.error = FALSE, !.task = new, !.collected = FALSE,
                      !.commandFailed = FALSE]

\* A failed activation is not reported.
switchTaskSilentWrong(m, new, failing) ==
  IF new = m.task THEN [m EXCEPT !.error = FALSE]
  ELSE IF new = "None" \/ new \in failing
       THEN [m EXCEPT !.error = FALSE, !.task = "None", !.collected = FALSE]
       ELSE [m EXCEPT !.error = FALSE, !.task = new, !.collected = FALSE,
                      !.commandFailed = FALSE]

\* What the last task collected is the next one's.
switchTaskKeepsWrong(m, new, failing) ==
  IF new = m.task THEN [m EXCEPT !.error = FALSE]
  ELSE IF new = "None" \/ new \in failing
       THEN [m EXCEPT !.error = new # "None", !.task = "None"]
       ELSE [m EXCEPT !.error = FALSE, !.task = new, !.commandFailed = FALSE]

\* The running task stays as it is. Another one takes its place, and if it
\* cannot be activated there is none.
switchTask(m, new, failing) ==
  IF new = m.task THEN [m EXCEPT !.error = FALSE]
  ELSE IF new = "None" \/ new \in failing
       THEN [m EXCEPT !.error = new # "None", !.task = "None", !.collected = FALSE]
       ELSE [m EXCEPT !.error = FALSE, !.task = new, !.collected = FALSE,
                      !.commandFailed = FALSE]

\* The task of a mode, if it is the mode.
try(m, inMode, new, failing) ==
  LET n == switchTask(m, new, failing)
  IN  IF inMode THEN [n EXCEPT !.found = TRUE, !.failure = @ \/ n.error] ELSE m

\* The task of a mode, or of those before it that could not be activated.
fallBack(m, inMode, new, failing) ==
  LET n == switchTask(m, new, failing)
  IN  IF inMode THEN [n EXCEPT !.found = TRUE, !.failure = n.error] ELSE m

\* The modes that have a task of their own; control may be of another moment
\* than nav.
tasksOfModes(m, nav, control, failing) ==
  LET follow == try(m, nav = "AUTO_FOLLOW_TARGET", "AutoFollowTarget", failing)
      swarm  == try(follow, nav = "SWARM", "Swarm", failing)
      circle == try(swarm, nav = "ORBIT" /\ ~swarm.commandFailed, "Orbit", failing)
  IN  try(circle, control.auto /\ nav # "DESCEND", "Auto", failing)

\* The manual modes, which are also what is left when a task fails.
tasksLeft(m, nav, failing) ==
  LET slow     == fallBack(m, nav = "POSITION_SLOW", "ManualAccelerationSlow", failing)
      position == fallBack(slow, nav = "POSCTL" \/ slow.failure, "ManualPosition", failing)
      altitude == fallBack(position, nav = "ALTCTL" \/ position.failure, "ManualAltitude", failing)
      cruise   == fallBack(altitude, nav = "ALTITUDE_CRUISE", "AltitudeCruise", failing)
  IN  fallBack(cruise, nav = "DESCEND" \/ cruise.failure, "Descend", failing)

\* The task stays when the mode has none.
start_flight_taskStaysWrong(s, control, failing) ==
  LET left == tasksLeft(tasksOfModes(begin, s.nav, control, failing), s.nav, failing)
      last == fallBack(left, left.failure, "Failsafe", failing)
  IN  IF s.phase = "fixedWing" \/ s.nav = "EXTERNAL1" THEN switchTask(begin, "None", failing)
      ELSE IF s.phase = "transition" /\ control.altitude
           THEN switchTask(begin, "Transition", failing)
           ELSE last

\* Nothing flies a vehicle in fixed-wing flight or in the external mode here. The
\* task of last resort follows what is left, and no task if no mode has one.
start_flight_task(s, control, failing) ==
  LET left == tasksLeft(tasksOfModes(begin, s.nav, control, failing), s.nav, failing)
      last == fallBack(left, left.failure, "Failsafe", failing)
  IN  IF s.phase = "fixedWing" \/ s.nav = "EXTERNAL1" THEN switchTask(begin, "None", failing)
      ELSE IF s.phase = "transition" /\ control.altitude
           THEN switchTask(begin, "Transition", failing)
           ELSE IF last.found THEN last ELSE switchTask(last, "None", failing)

\* A new orbit is another chance for the Orbit task.
handleCommand(m) == IF orbit = "sent" THEN [m EXCEPT !.commandFailed = FALSE] ELSE m

\* An orbit that is not older than 200 ms is applied by the Orbit task; if it
\* refuses, the task of last resort flies.
tryApplyCommandIfAny(m, refused, failing) ==
  IF refused THEN [switchTask(m, "Failsafe", failing) EXCEPT !.commandFailed = TRUE] ELSE m

\* The current task computes a setpoint; a Swarm task may be told something.
generateTrajectorySetpoint(m) ==
  {[task |-> m.task, collected |-> m.collected \/ told, commandFailed |-> m.commandFailed] :
     told \in {FALSE, m.task = "Swarm"}}

\* A loop first reads the control mode.
readControlMode ==
  /\ ~reading
  /\ reading' = TRUE
  /\ controlRead' = controlMode
  /\ UNCHANGED <<commanderVars, manager, orbit>>

\* The rest of the loop reads the status. An orbit that is still young enough is
\* applied if the task can, and the task may refuse it.
Run(failing, applied, refused) ==
  /\ reading
  /\ reading' = FALSE
  /\ applied => orbit # "none"
  /\ refused => applied
  /\ \E m \in {handleCommand(start_flight_task(vehicleStatus, controlRead, failing))} :
       /\ applied => m.task = "Orbit"
       /\ manager' \in generateTrajectorySetpoint(tryApplyCommandIfAny(m, refused, failing))
  /\ orbit' = IF applied \/ orbit = "none" THEN "none" ELSE "stored"
  /\ UNCHANGED <<commanderVars, controlRead>>

Loop ==
  \/ readControlMode
  \/ \E applied, refused \in BOOLEAN, failing \in Failures : Run(failing, applied, refused)

-----------------------------------------------------------------------------
Init ==
  /\ status \in Status
  /\ controlMode = getVehicleControlMode(status)
  /\ vehicleStatus = status
  /\ controlRead = controlMode
  /\ reading = FALSE
  /\ manager = [task |-> "None", collected |-> FALSE, commandFailed |-> FALSE]
  /\ orbit = "none"

Commander == (\E s \in Status : updateControlMode(s)) \/ publishStatus

Next == Commander \/ sendOrbit \/ Loop

\* Every position estimate starts a loop, and a loop that starts ends; Commander
\* publishes what it changed.
Spec == Init /\ [][Next]_vars /\ WF_vars(Loop) /\ WF_vars(publishStatus)

-----------------------------------------------------------------------------
Control == [auto : BOOLEAN, altitude : BOOLEAN]

\* Type invariant. Only a Swarm task has collected anything.
ManagerTypeOK ==
  /\ status        \in Status
  /\ controlMode   \in Control
  /\ vehicleStatus \in Status
  /\ controlRead   \in Control
  /\ reading       \in BOOLEAN
  /\ manager       \in Manager
  /\ orbit         \in {"none", "sent", "stored"}
  /\ manager.collected => manager.task = "Swarm"

InSwarm(s) == s.nav = "SWARM" /\ s.phase = "rotary"

\* Commander stays in the Swarm mode, has published so, and the manager has read
\* no control mode of before.
Settled ==
  /\ InSwarm(status) /\ vehicleStatus = status
  /\ controlMode = getVehicleControlMode(status) /\ controlRead = controlMode

\* A formation is not lost while the vehicle stays in the Swarm mode: whatever
\* the other tasks do, whatever commands come in, a Swarm task that collected
\* something is not switched away, nor constructed anew.
FormationSurvives ==
  [][Settled /\ manager.collected => manager'.task = "Swarm" /\ manager'.collected]_vars

\* A multicopter in a mode that has a task, and whose orbit was not refused.
NeedsTask(s) ==
  /\ s.phase = "rotary" /\ s.nav \notin {"MANUAL", "EXTERNAL1"}
  /\ s.nav = "ORBIT" => ~manager.commandFailed

\* Whichever tasks cannot be activated, such a vehicle ends a loop with a task
\* that flies it, if both topics were of one moment.
NeverWithoutTask ==
  [][reading /\ ~reading' /\ NeedsTask(vehicleStatus)
       /\ controlRead = getVehicleControlMode(vehicleStatus) => manager'.task # "None"]_vars

\* In whatever order the topics are published and read, the Swarm task is what
\* flies in the Swarm mode in the end, and it does not stay when the mode is left.
SwarmFollowsMode ==
  /\ <>[]InSwarm(status) => <>[](manager.task = "Swarm")
  /\ <>[](status.nav # "SWARM") => <>[](manager.task # "Swarm")
=============================================================================
