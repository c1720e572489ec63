\* What a timeout of waitForStatusChange is documented to mean.
CONSTANTS
  Last = 3
  Timeouts <- MCTimeouts
  U32 = 8
  U64 = 32
  Horizon = 16
  MaxMeddling = 2
  NONE = NONE
SPECIFICATION FairSpec
INVARIANT TimeoutIsNull
CHECK_DEADLOCK FALSE
