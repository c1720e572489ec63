\* What shutdown() is documented to mean, when it is called twice.
CONSTANTS
  Names = {n1, n2}
  Activities = {n1}
  Starts = {s1, s2}
  Stops = {d1, d2}
  NONE = NONE
SPECIFICATION Spec
INVARIANT ShutdownMeansStopped
