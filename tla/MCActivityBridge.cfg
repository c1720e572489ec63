CONSTANTS
  Invocations = {a1, a2}
  WorkItems = {w1}
  Tags = {gpu}
  NONE = NONE
SPECIFICATION FairSpec
INVARIANTS
  NoFalseAlarm
  EntriesMatchFutures
  TagIsStable
  Inv
PROPERTIES
  ImplementsContract
  CancellationStays
  CancellationIsSeen
  CancelledIsReleased
