SPECIFICATION Spec
CONSTANTS
  NavStates = {"MANUAL", "AUTO_LOITER", "POSITION_SLOW", "DESCEND", "SWARM", "ORBIT", "EXTERNAL1"}
  Phases = {"rotary", "transition", "fixedWing"}
  Failures <- MCFailures
INVARIANTS
  ManagerTypeOK
PROPERTIES
  FormationSurvives
  NeverWithoutTask
  SwarmFollowsMode
