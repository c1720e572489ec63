\* race() over a task type that make_select_future does not know.
CONSTANTS
  Tasks <- MCTasks
  Values <- MCValues
  Failures <- MCFailures
  MaxIdle = 2
  MaxLost = 1
  NONE = NONE
SPECIFICATION Spec
INVARIANT RaceTakesEveryType
