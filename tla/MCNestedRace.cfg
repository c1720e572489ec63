\* The advice to nest race() calls, against the code.
CONSTANTS
  Tasks <- MCTasks
  Values <- MCValues
  Failures <- MCFailures
  MaxIdle = 2
  MaxLost = 1
  NONE = NONE
SPECIFICATION Spec
INVARIANT NestedRacesRace
