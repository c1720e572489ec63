\* Steps is the program's STEPS; Slots is orchestrationConcurrency.
CONSTANTS
  o1 = o1
  Invocations <- MCInvocations
  Instances <- MCInstances
  TypedTypes = {}
  Untyped = Untyped
  NONE = NONE
  Steps = 2
  Slots = 2
  MaxLost = 2
SPECIFICATION ReplaySpec
INVARIANTS
  ReplayCountInv
  EveryReplayIsUndisturbed
  OneReplayPerTurn
PROPERTIES
  ImplementsDurable
  Completes
