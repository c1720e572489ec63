\* The documented cleanup on every exit of the handler, against the code.
CONSTANTS
  r1 = r1
  r2 = r2
  o1 = o1
  activity = activity
  Invocations <- MCInvocations
  Instances <- MCInstances
  TypedTypes <- MCTypedTypes
  Untyped = Untyped
  NONE = NONE
SPECIFICATION Spec
INVARIANT DisposedOnEveryExit
