CONSTANTS
  Names = {n1, n2}
  Activities = {n1}
  Starts = {s1, s2}
  Stops = {d1, d2}
  NONE = NONE
SPECIFICATION FairSpec
INVARIANTS
  OneEngine
  NoEngineOutOfReach
  ShutdownWaits
  Inv
PROPERTIES
  ImplementsContract
  CallsSettle
