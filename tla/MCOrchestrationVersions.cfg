\* A process registers up to MaxRegistered functions and is restarted MaxRestarts times.
CONSTANTS
  r1 = r1
  r2 = r2
  x = x
  y = y
  f1 = f1
  f2 = f2
  NONE = NONE
  Runtimes <- MCRuntimes
  Instances <- MCInstances
  Store <- MCStore
  Versions <- MCVersions
  First = 1
  Functions <- MCFunctions
  MaxRegistered = 2
  MaxRestarts = 1
SPECIFICATION Spec
SYMMETRY Symmetry
INVARIANTS
  RunsItsVersion
  RunsAsAsked
PROPERTIES
  ImplementsContract
\* An instance whose version no Runtime knows waits for one that does.
CHECK_DEADLOCK FALSE
