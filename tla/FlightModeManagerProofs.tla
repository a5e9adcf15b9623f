----------------------- MODULE FlightModeManagerProofs -----------------------
(***************************************************************************)
(* A Swarm task keeps its formation while the mode stays, and no failure     *)
(* leaves a vehicle without a task, for any modes and any failures.          *)
(***************************************************************************)
EXTENDS FlightModeManager, TLAPS

Fallible == Tasks \ {"None", "Swarm", "Failsafe"}

\* Only a Swarm task has collected anything.
Owned(m) == m.collected => m.task = "Swarm"

\* Some mode had a task, and one that could be activated unless the last one
\* tried could not.
Covered(m) == m.found /\ (m.failure \/ m.task # "None")

-----------------------------------------------------------------------------
\* A switch ends with a task, except with an error or when none is wanted.
LEMMA SwitchTask ==
  ASSUME NEW m \in Switching, Owned(m), NEW new \in Tasks, NEW failing \in SUBSET Fallible
  PROVE  LET n == switchTask(m, new, failing) IN
         /\ n \in Switching /\ Owned(n)
         /\ new # "None" => (n.error \/ n.task = new)
         /\ new = "None" => n.task = "None"
         /\ new \notin failing => n.task = new
         /\ new = m.task => n = [m EXCEPT !.error = FALSE]
<1>1. CASE new = m.task
  BY <1>1 DEF switchTask, Switching, Owned
<1>2. CASE new # m.task /\ (new = "None" \/ new \in failing)
  <2>1. switchTask(m, new, failing)
          = [m EXCEPT !.error = new # "None", !.task = "None", !.collected = FALSE]
    BY <1>2 DEF switchTask
  <2>2. "None" \in Tasks /\ "None" \notin failing
    BY DEF Tasks, Fallible
  <2> QED
    BY <1>2, <2>1, <2>2 DEF Switching, Owned
<1>3. CASE new # m.task /\ new # "None" /\ new \notin failing
  <2>1. switchTask(m, new, failing)
          = [m EXCEPT !.error = FALSE, !.task = new, !.collected = FALSE,
                      !.commandFailed = FALSE]
    BY <1>3 DEF switchTask
  <2> QED
    BY <1>3, <2>1 DEF Switching, Owned
<1> QED
  BY <1>1, <1>2, <1>3

LEMMA Try ==
  ASSUME NEW m \in Switching, Owned(m), NEW inMode \in BOOLEAN,
         NEW new \in Tasks \ {"None"}, NEW failing \in SUBSET Fallible
  PROVE  LET n == try(m, inMode, new, failing) IN
         /\ n \in Switching /\ Owned(n)
         /\ inMode \/ Covered(m) => Covered(n)
         /\ ~inMode => n = m
<1> DEFINE s == switchTask(m, new, failing)
<1>1. /\ s \in Switching /\ Owned(s)
      /\ s.error \/ s.task = new
  BY SwitchTask
<1> HIDE DEF s
<1>2. try(m, inMode, new, failing)
        = IF inMode THEN [s EXCEPT !.found = TRUE, !.failure = @ \/ s.error] ELSE m
  BY DEF try, s
<1>3. CASE inMode
  BY <1>1, <1>2, <1>3 DEF Switching, Owned, Covered
<1>4. CASE ~inMode
  BY <1>2, <1>4
<1> QED
  BY <1>3, <1>4

LEMMA FallBack ==
  ASSUME NEW m \in Switching, Owned(m), NEW inMode \in BOOLEAN,
         NEW new \in Tasks \ {"None"}, NEW failing \in SUBSET Fallible
  PROVE  LET n == fallBack(m, inMode, new, failing) IN
         /\ n \in Switching /\ Owned(n)
         /\ inMode \/ Covered(m) => Covered(n)
         /\ inMode /\ new \notin failing => ~n.failure \/ n.task = new
         /\ ~inMode => n = m
<1> DEFINE s == switchTask(m, new, failing)
<1>1. /\ s \in Switching /\ Owned(s)
      /\ s.error \/ s.task = new
      /\ new \notin failing => s.task = new
  BY SwitchTask
<1> HIDE DEF s
<1>2. fallBack(m, inMode, new, failing)
        = IF inMode THEN [s EXCEPT !.found = TRUE, !.failure = s.error] ELSE m
  BY DEF fallBack, s
<1>3. CASE inMode
  BY <1>1, <1>2, <1>3 DEF Switching, Owned, Covered
<1>4. CASE ~inMode
  BY <1>2, <1>4
<1> QED
  BY <1>3, <1>4

-----------------------------------------------------------------------------
Manual == {"POSITION_SLOW", "POSCTL", "ALTCTL", "ALTITUDE_CRUISE", "DESCEND"}

\* The modes with a task of their own end with one that flies, or with a failure.
LEMMA TasksOfModes ==
  ASSUME NEW m \in Switching, Owned(m), NEW nav, NEW control \in Control,
         NEW failing \in SUBSET Fallible
  PROVE  LET n == tasksOfModes(m, nav, control, failing) IN
         /\ n \in Switching /\ Owned(n)
         /\ \/ nav \in {"AUTO_FOLLOW_TARGET", "SWARM"}
            \/ nav = "ORBIT" /\ ~m.commandFailed
            \/ control.auto /\ nav # "DESCEND"
            => Covered(n)
         /\ nav = "SWARM" /\ ~control.auto => n = try(m, TRUE, "Swarm", failing)
<1> DEFINE follow == try(m, nav = "AUTO_FOLLOW_TARGET", "AutoFollowTarget", failing)
           swarm  == try(follow, nav = "SWARM", "Swarm", failing)
           circle == try(swarm, nav = "ORBIT" /\ ~swarm.commandFailed, "Orbit", failing)
           last   == try(circle, control.auto /\ nav # "DESCEND", "Auto", failing)
<1>1. /\ {"AutoFollowTarget", "Swarm", "Orbit", "Auto"} \subseteq Tasks \ {"None"}
      /\ control.auto \in BOOLEAN
  BY DEF Tasks, Control
<1>2. /\ follow \in Switching /\ Owned(follow)
      /\ nav = "AUTO_FOLLOW_TARGET" => Covered(follow)
      /\ nav # "AUTO_FOLLOW_TARGET" => follow = m
  BY <1>1, Try
<1> HIDE DEF follow
<1>3. /\ swarm \in Switching /\ Owned(swarm)
      /\ nav = "SWARM" \/ Covered(follow) => Covered(swarm)
      /\ nav # "SWARM" => swarm = follow
  BY <1>1, <1>2, Try
<1>4. nav = "SWARM" => swarm = try(m, TRUE, "Swarm", failing)
  BY <1>2
<1> HIDE DEF swarm
<1>5. swarm.commandFailed \in BOOLEAN
  BY <1>3 DEF Switching
<1>6. /\ circle \in Switching /\ Owned(circle)
      /\ (nav = "ORBIT" /\ ~swarm.commandFailed) \/ Covered(swarm) => Covered(circle)
      /\ nav # "ORBIT" => circle = swarm
  <2>1. (nav = "ORBIT" /\ ~swarm.commandFailed) \in BOOLEAN
    BY <1>5
  <2> QED
    BY <1>1, <1>3, <2>1, Try
<1> HIDE DEF circle
<1>7. /\ last \in Switching /\ Owned(last)
      /\ (control.auto /\ nav # "DESCEND") \/ Covered(circle) => Covered(last)
      /\ ~control.auto => last = circle
  <2>1. (control.auto /\ nav # "DESCEND") \in BOOLEAN
    BY <1>1
  <2> QED
    BY <1>1, <1>6, <2>1, Try
<1>8. tasksOfModes(m, nav, control, failing) = last
  BY DEF tasksOfModes, last, circle, swarm, follow
<1> HIDE DEF last
<1>9. nav = "ORBIT" => swarm = m
  BY <1>2, <1>3
<1> QED
  BY <1>2, <1>3, <1>4, <1>6, <1>7, <1>8, <1>9

\* The manual modes, and what is left of a mode whose task failed.
LEMMA TasksLeft ==
  ASSUME NEW m \in Switching, Owned(m), NEW nav, NEW failing \in SUBSET Fallible
  PROVE  LET n == tasksLeft(m, nav, failing) IN
         /\ n \in Switching /\ Owned(n)
         /\ nav \in Manual \/ Covered(m) => Covered(n)
         /\ nav \notin Manual /\ ~m.failure => n = m
<1> DEFINE slow     == fallBack(m, nav = "POSITION_SLOW", "ManualAccelerationSlow", failing)
           position == fallBack(slow, nav = "POSCTL" \/ slow.failure, "ManualPosition", failing)
           altitude == fallBack(position, nav = "ALTCTL" \/ position.failure,
                                "ManualAltitude", failing)
           cruise   == fallBack(altitude, nav = "ALTITUDE_CRUISE", "AltitudeCruise", failing)
           last     == fallBack(cruise, nav = "DESCEND" \/ cruise.failure, "Descend", failing)
<1>1. /\ {"ManualAccelerationSlow", "ManualPosition", "ManualAltitude", "AltitudeCruise",
          "Descend"} \subseteq Tasks \ {"None"}
      /\ \A x \in Switching : x.failure \in BOOLEAN
  BY DEF Tasks, Switching
<1>2. /\ slow \in Switching /\ Owned(slow)
      /\ nav = "POSITION_SLOW" \/ Covered(m) => Covered(slow)
      /\ nav # "POSITION_SLOW" => slow = m
  BY <1>1, FallBack
<1> HIDE DEF slow
<1>3. /\ position \in Switching /\ Owned(position)
      /\ nav = "POSCTL" \/ Covered(slow) => Covered(position)
      /\ nav # "POSCTL" /\ ~slow.failure => position = slow
  <2>1. (nav = "POSCTL" \/ slow.failure) \in BOOLEAN
    BY <1>1, <1>2
  <2> QED
    BY <1>1, <1>2, <2>1, FallBack
<1> HIDE DEF position
<1>4. /\ altitude \in Switching /\ Owned(altitude)
      /\ nav = "ALTCTL" \/ Covered(position) => Covered(altitude)
      /\ nav # "ALTCTL" /\ ~position.failure => altitude = position
  <2>1. (nav = "ALTCTL" \/ position.failure) \in BOOLEAN
    BY <1>1, <1>3
  <2> QED
    BY <1>1, <1>3, <2>1, FallBack
<1> HIDE DEF altitude
<1>5. /\ cruise \in Switching /\ Owned(cruise)
      /\ nav = "ALTITUDE_CRUISE" \/ Covered(altitude) => Covered(cruise)
      /\ nav # "ALTITUDE_CRUISE" => cruise = altitude
  BY <1>1, <1>4, FallBack
<1> HIDE DEF cruise
<1>6. /\ last \in Switching /\ Owned(last)
      /\ nav = "DESCEND" \/ Covered(cruise) => Covered(last)
      /\ nav # "DESCEND" /\ ~cruise.failure => last = cruise
  <2>1. (nav = "DESCEND" \/ cruise.failure) \in BOOLEAN
    BY <1>1, <1>5
  <2> QED
    BY <1>1, <1>5, <2>1, FallBack
<1>7. tasksLeft(m, nav, failing) = last
  BY DEF tasksLeft, last, cruise, altitude, position, slow
<1> HIDE DEF last
<1> QED
  BY <1>2, <1>3, <1>4, <1>5, <1>6, <1>7 DEF Manual

-----------------------------------------------------------------------------
\* A loop's choice of a task: it flies, if the topics are of one moment, and a
\* Swarm task stays the same in the Swarm mode.
LEMMA StartFlightTask ==
  ASSUME ManagerTypeOK, NEW s \in Status, NEW control \in Control, NEW failing \in Failures
  PROVE  LET n == start_flight_task(s, control, failing) IN
         /\ n \in Switching /\ Owned(n)
         /\ NeedsTask(s) /\ control = getVehicleControlMode(s) => n.task # "None"
         /\ InSwarm(s) /\ control = getVehicleControlMode(s) /\ manager.task = "Swarm"
            => n.task = "Swarm" /\ n.collected = manager.collected
<1> DEFINE modes == tasksOfModes(begin, s.nav, control, failing)
           left  == tasksLeft(modes, s.nav, failing)
           last  == fallBack(left, left.failure, "Failsafe", failing)
           n     == start_flight_task(s, control, failing)
<1>1. /\ begin \in Switching /\ Owned(begin)
      /\ begin.task = manager.task /\ begin.collected = manager.collected
      /\ begin.commandFailed = manager.commandFailed
      /\ ~begin.failure /\ ~begin.error /\ ~begin.found
  BY DEF ManagerTypeOK, Manager, Switching, begin, Owned
<1>2. /\ failing \in SUBSET Fallible
      /\ {"None", "Swarm", "Failsafe", "Transition"} \subseteq Tasks
      /\ "Failsafe" \notin failing
  BY FailuresAssumption DEF Fallible, Tasks
<1>3. s.nav \in NavStates /\ s.phase \in Phases
  BY DEF Status
<1>4. /\ modes \in Switching /\ Owned(modes)
      /\ \/ s.nav \in {"AUTO_FOLLOW_TARGET", "SWARM"}
         \/ s.nav = "ORBIT" /\ ~manager.commandFailed
         \/ control.auto /\ s.nav # "DESCEND"
         => Covered(modes)
      /\ s.nav = "SWARM" /\ ~control.auto => modes = try(begin, TRUE, "Swarm", failing)
  BY <1>1, <1>2, TasksOfModes
<1> HIDE DEF modes
<1>5. /\ left \in Switching /\ Owned(left)
      /\ s.nav \in Manual \/ Covered(modes) => Covered(left)
      /\ s.nav \notin Manual /\ ~modes.failure => left = modes
  BY <1>2, <1>4, TasksLeft
<1> HIDE DEF left
<1>6. /\ last \in Switching /\ Owned(last)
      /\ left.failure \/ Covered(left) => Covered(last)
      /\ left.failure => ~last.failure \/ last.task = "Failsafe"
      /\ ~left.failure => last = left
  <2>1. left.failure \in BOOLEAN /\ "Failsafe" \in Tasks \ {"None"}
    BY <1>2, <1>5 DEF Switching
  <2> QED
    BY <1>2, <1>5, <2>1, FallBack
<1>7. n = IF s.phase = "fixedWing" \/ s.nav = "EXTERNAL1" THEN switchTask(begin, "None", failing)
          ELSE IF s.phase = "transition" /\ control.altitude
               THEN switchTask(begin, "Transition", failing)
               ELSE IF last.found THEN last ELSE switchTask(last, "None", failing)
  BY DEF n, last, left, modes, start_flight_task
<1> HIDE DEF last, n
<1>8. /\ \A x \in {begin, last}, new \in {"None", "Transition"} :
           switchTask(x, new, failing) \in Switching /\ Owned(switchTask(x, new, failing))
  BY <1>1, <1>2, <1>6, SwitchTask
<1>9. n \in Switching /\ Owned(n)
  BY <1>6, <1>7, <1>8
<1>10. ASSUME NeedsTask(s), control = getVehicleControlMode(s)
       PROVE  n.task # "None"
  <2>1. /\ s.nav \in {"ALTCTL", "POSCTL", "AUTO_LOITER", "POSITION_SLOW", "ALTITUDE_CRUISE",
                      "DESCEND", "SWARM", "AUTO_FOLLOW_TARGET", "ORBIT"}
        /\ s.phase = "rotary"
        /\ s.nav = "ORBIT" => ~manager.commandFailed
    BY <1>3, <1>10, NavStatesAssumption DEF NeedsTask
  <2>2. s.nav = "AUTO_LOITER" => control.auto
    BY <1>10 DEF getVehicleControlMode
  <2>3. Covered(left)
    BY <1>4, <1>5, <2>1, <2>2 DEF Manual
  <2>4. Covered(last) /\ (last.failure => last.task = "Failsafe")
    BY <1>6, <2>3
  <2>5. last.found /\ last.task # "None"
    BY <2>4 DEF Covered
  <2> QED
    BY <1>7, <2>1, <2>5
<1>11. ASSUME InSwarm(s), control = getVehicleControlMode(s), manager.task = "Swarm"
       PROVE  n.task = "Swarm" /\ n.collected = manager.collected
  <2>1. s.nav = "SWARM" /\ s.phase = "rotary" /\ ~control.auto
    BY <1>11 DEF InSwarm, getVehicleControlMode
  <2> DEFINE same == switchTask(begin, "Swarm", failing)
  <2>2. same = [begin EXCEPT !.error = FALSE]
    BY <1>1, <1>11 DEF switchTask
  <2>3. /\ same.task = "Swarm" /\ same.collected = manager.collected
        /\ ~same.error /\ ~same.failure /\ same \in Switching
    BY <1>1, <1>11, <2>2 DEF Switching
  <2>4. modes = [same EXCEPT !.found = TRUE, !.failure = @ \/ same.error]
    BY <1>4, <2>1 DEF try
  <2> HIDE DEF same
  <2>5. /\ modes.task = "Swarm" /\ modes.collected = manager.collected
        /\ modes.found /\ ~modes.failure
    BY <2>3, <2>4 DEF Switching
  <2>6. left = modes /\ last = left
    BY <1>5, <1>6, <2>1, <2>5 DEF Manual
  <2> QED
    BY <1>7, <2>1, <2>5, <2>6
<1> QED
  BY <1>9, <1>10, <1>11 DEF n

\* The rest of a loop: what the manager is afterwards.
LEMMA RunLoop ==
  ASSUME ManagerTypeOK, NEW applied \in BOOLEAN, NEW refused \in BOOLEAN,
         NEW failing \in Failures, Run(failing, applied, refused)
  PROVE  /\ manager' \in Manager /\ Owned(manager')
         /\ NeedsTask(vehicleStatus) /\ controlRead = getVehicleControlMode(vehicleStatus)
            => manager'.task # "None"
         /\ /\ InSwarm(vehicleStatus) /\ manager.task = "Swarm" /\ manager.collected
            /\ controlRead = getVehicleControlMode(vehicleStatus)
            => manager'.task = "Swarm" /\ manager'.collected
<1> DEFINE n == start_flight_task(vehicleStatus, controlRead, failing)
           m == handleCommand(n)
           t == tryApplyCommandIfAny(m, refused, failing)
<1>1. /\ n \in Switching /\ Owned(n)
      /\ NeedsTask(vehicleStatus) /\ controlRead = getVehicleControlMode(vehicleStatus)
         => n.task # "None"
      /\ /\ InSwarm(vehicleStatus) /\ controlRead = getVehicleControlMode(vehicleStatus)
         /\ manager.task = "Swarm"
         => n.task = "Swarm" /\ n.collected = manager.collected
  BY StartFlightTask DEF ManagerTypeOK
<1>2. /\ refused => applied
      /\ applied => m.task = "Orbit"
      /\ manager' \in generateTrajectorySetpoint(t)
  BY DEF Run
<1> HIDE DEF n
<1>3. /\ m \in Switching /\ Owned(m)
      /\ m.task = n.task /\ m.collected = n.collected
  BY <1>1 DEF handleCommand, Switching, Owned
<1> HIDE DEF m
<1>4. /\ t \in Switching /\ Owned(t)
      /\ refused => t.task = "Failsafe"
      /\ ~refused => t = m
  <2> DEFINE u == switchTask(m, "Failsafe", failing)
  <2>1. /\ failing \in SUBSET Fallible /\ "Failsafe" \in Tasks /\ "Failsafe" \notin failing
    BY FailuresAssumption DEF Fallible, Tasks
  <2>2. u \in Switching /\ Owned(u) /\ u.task = "Failsafe"
    BY <1>3, <2>1, SwitchTask
  <2>3. t = IF refused THEN [u EXCEPT !.commandFailed = TRUE] ELSE m
    BY DEF tryApplyCommandIfAny
  <2> HIDE DEF u, t
  <2> QED
    BY <1>3, <2>2, <2>3 DEF Switching, Owned
<1> HIDE DEF t
<1>5. /\ manager' \in Manager /\ Owned(manager')
      /\ manager'.task = t.task /\ (t.collected => manager'.collected)
  <2>1. PICK told \in {FALSE, t.task = "Swarm"} :
          manager' = [task |-> t.task, collected |-> t.collected \/ told,
                      commandFailed |-> t.commandFailed]
    BY <1>2 DEF generateTrajectorySetpoint
  <2> QED
    BY <1>4, <2>1 DEF Switching, Manager, Owned
<1> QED
  BY <1>1, <1>2, <1>3, <1>4, <1>5

-----------------------------------------------------------------------------
\* Every step keeps the types, and the Swarm task the owner of what it collected.
LEMMA TypeStep == ManagerTypeOK /\ [Next]_vars => ManagerTypeOK'
<1> SUFFICES ASSUME ManagerTypeOK, [Next]_vars PROVE ManagerTypeOK'
  OBVIOUS
<1>1. ASSUME NEW s \in Status, updateControlMode(s) PROVE ManagerTypeOK'
  BY <1>1 DEF ManagerTypeOK, updateControlMode, getVehicleControlMode, Control
<1>2. CASE publishStatus
  BY <1>2 DEF ManagerTypeOK, publishStatus
<1>3. CASE sendOrbit
  BY <1>3 DEF ManagerTypeOK, sendOrbit, commanderVars
<1>4. CASE readControlMode
  BY <1>4 DEF ManagerTypeOK, readControlMode, commanderVars
<1>5. ASSUME NEW applied \in BOOLEAN, NEW refused \in BOOLEAN, NEW failing \in Failures,
             Run(failing, applied, refused)
      PROVE  ManagerTypeOK'
  <2>1. manager' \in Manager /\ Owned(manager')
    BY <1>5, RunLoop
  <2>2. /\ reading' = FALSE /\ UNCHANGED <<commanderVars, controlRead>>
        /\ orbit' = IF applied \/ orbit = "none" THEN "none" ELSE "stored"
    BY <1>5 DEF Run
  <2> QED
    BY <2>1, <2>2 DEF ManagerTypeOK, Owned, commanderVars
<1>6. CASE UNCHANGED vars
  BY <1>6 DEF ManagerTypeOK, vars
<1> QED
  BY <1>1, <1>2, <1>3, <1>4, <1>5, <1>6 DEF Next, Commander, Loop

\* In every state of the manager and of Commander all variables have their types,
\* and only a Swarm task has collected anything: start_flight_task() and
\* tryApplyCommandIfAny() leave nothing behind when they replace it.
THEOREM ManagerTypeCorrect == Spec => []ManagerTypeOK
<1>1. ASSUME Init PROVE ManagerTypeOK
  <2>1. getVehicleControlMode(status) \in Control
    BY DEF getVehicleControlMode, Control
  <2>2. manager \in Manager /\ ~manager.collected
    BY <1>1 DEF Init, Manager, Tasks
  <2> QED
    BY <1>1, <2>1, <2>2 DEF Init, ManagerTypeOK
<1> QED
  BY <1>1, TypeStep, PTL DEF Spec

\* A formation is not lost while the vehicle stays in the Swarm mode, whatever
\* tasks cannot be activated and whatever orbits are ordered: start_flight_task()
\* finds the Swarm task running, and no command is applied to it.
THEOREM FormationKept == Spec => FormationSurvives
<1> DEFINE Kept == Settled /\ manager.collected => manager'.task = "Swarm" /\ manager'.collected
<1>1. ManagerTypeOK /\ [Next]_vars => [Kept]_vars
  <2> SUFFICES ASSUME ManagerTypeOK, [Next]_vars, Settled, manager.collected
               PROVE  manager'.task = "Swarm" /\ manager'.collected
    OBVIOUS
  <2>1. manager.task = "Swarm"
    BY DEF ManagerTypeOK
  <2>2. ASSUME NEW applied \in BOOLEAN, NEW refused \in BOOLEAN, NEW failing \in Failures,
               Run(failing, applied, refused)
        PROVE  manager'.task = "Swarm" /\ manager'.collected
    <3>1. /\ InSwarm(vehicleStatus)
          /\ controlRead = getVehicleControlMode(vehicleStatus)
      BY DEF Settled
    <3> QED
      BY <2>1, <2>2, <3>1, RunLoop
  <2>3. CASE UNCHANGED manager
    BY <2>1, <2>3
  <2> QED
    BY <2>2, <2>3 DEF Next, Commander, Loop, updateControlMode, publishStatus, sendOrbit,
                      readControlMode, vars
<1> QED
  BY <1>1, ManagerTypeCorrect, PTL DEF Spec, FormationSurvives

\* Whichever tasks cannot be activated, a loop that read both topics of one
\* moment ends with a task: the chain of start_flight_task() falls back until one
\* could be activated, and the last one always can.
THEOREM AlwaysATask == Spec => NeverWithoutTask
<1> DEFINE Flies == reading /\ ~reading' /\ NeedsTask(vehicleStatus)
                      /\ controlRead = getVehicleControlMode(vehicleStatus)
                    => manager'.task # "None"
<1>1. ManagerTypeOK /\ [Next]_vars => [Flies]_vars
  <2> SUFFICES ASSUME ManagerTypeOK, [Next]_vars, reading, ~reading',
                      NeedsTask(vehicleStatus),
                      controlRead = getVehicleControlMode(vehicleStatus)
               PROVE  manager'.task # "None"
    OBVIOUS
  <2>1. ASSUME NEW applied \in BOOLEAN, NEW refused \in BOOLEAN, NEW failing \in Failures,
               Run(failing, applied, refused)
        PROVE  manager'.task # "None"
    BY <2>1, RunLoop
  <2>2. CASE UNCHANGED reading
    BY <2>2
  <2> QED
    BY <2>1, <2>2 DEF Next, Commander, Loop, updateControlMode, publishStatus, sendOrbit,
                      readControlMode, vars
<1> QED
  BY <1>1, ManagerTypeCorrect, PTL DEF Spec, NeverWithoutTask
=============================================================================
