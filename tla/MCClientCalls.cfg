\* u32 and u64 in small: a time of 16 is never reached, -1 as u64 is beyond it.
CONSTANTS
  Last = 3
  Timeouts <- MCTimeouts
  U32 = 8
  U64 = 32
  Horizon = 16
  MaxMeddling = 2
  NONE = NONE
SPECIFICATION FairSpec
INVARIANTS
  RepliesMatch
PROPERTIES
  ImplementsContract
  ChatGoesOn
\* A wait without a timeout, for an instance that was deleted, never ends.
CHECK_DEADLOCK FALSE
