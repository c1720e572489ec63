\* Two replays of one instance.
CONSTANTS
  r1 = r1
  r2 = r2
  o1 = o1
  activity = activity
  Invocations <- MCInvocations
  Instances <- MCInstances
  TypedTypes <- MCTypedTypes
  Untyped = Untyped
  NONE = NONE
SPECIFICATION FairSpec
INVARIANTS
  ContextIsolation
  LiveStepHasContext
  OwnGenerator
  TypedResultMatchesTask
  NoGeneratorLeak
  Inv
PROPERTIES
  ImplementsProtocol
  CallsAreAnswered
