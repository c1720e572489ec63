CONSTANTS
  Tasks <- MCTasks
  Values <- MCValues
  Failures <- MCFailures
  MaxIdle = 2
  MaxLost = 1
  NONE = NONE
SPECIFICATION FairSpec
INVARIANTS
  TypeOK
  AllGivesEachChildItsPlace
  RaceGivesTheFirst
  NothingLeftOpen
PROPERTIES
  SameInEveryTurn
  ImplementsPromise
  IsAnswered
