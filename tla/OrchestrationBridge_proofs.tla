----------------------- MODULE OrchestrationBridge_proofs -----------------------
EXTENDS OrchestrationBridge, TLAPS

(***************************************************************************)
(* Proofs about the orchestration bridge, for every set of invocations and *)
(* instances.  The argument: Inv (module OrchestrationBridge) is inductive.*)
(* One lemma per conjunct of Inv shows that every action keeps it, from    *)
(* the few conjuncts it depends on; BridgeInvariant puts them together.    *)
(* The last theorem uses Inv to map each step to a step of the protocol.   *)
(***************************************************************************)

(* What insertion into a map changes.                                       *)
LEMMA WithMap ==
  ASSUME NEW f, NEW k, NEW v
  PROVE  /\ DOMAIN With(f, k, v) = DOMAIN f \cup {k}
         /\ With(f, k, v)[k] = v
         /\ \A x \in DOMAIN f \ {k} : With(f, k, v)[x] = f[x]
  BY DEF With

(* What removal from a map changes.                                         *)
LEMMA WithoutMap ==
  ASSUME NEW f, NEW k
  PROVE  /\ DOMAIN Without(f, k) = DOMAIN f \ {k}
         /\ \A x \in DOMAIN f \ {k} : Without(f, k)[x] = f[x]
  BY DEF Without, Restrict

(* The actions of Next, one per line of the case splits below.              *)
LEMMA NextCases ==
  ASSUME Next
  PROVE  \/ \E i \in Invocations :
              \/ \E x \in Instances : NewToken(i, x)
              \/ InsertContext(i) \/ TaskReady(i) \/ TaskPending(i)
              \/ GuardDrop(i) \/ CallFails(i)
              \/ ServeCreate(i) \/ ServeCreateRejected(i) \/ ServeNext(i) \/
                   ServeDispose(i)
              \/ (\E type \in TaskTypes : Yield(i, type) \/ YieldUndecodable(i, type))
              \/ Finish(i)
              \/ BeginNative(i) \/ EndNative(i)
         \/ CloseEnv
         \/ UNCHANGED vars
  BY DEF Next, Tokio, JsServesCall, JsStepEnds, AllEnded

(* Removing a generator keeps the driver well typed and rebinds no id.      *)
LEMMA ForgetTypes ==
  ASSUME DriverTypeOK, NEW g, Forget(g), driving' = NONE
  PROVE  /\ DriverTypeOK'
         /\ DOMAIN generators' \subseteq DOMAIN generators
         /\ \A n \in DOMAIN generators' : generators'[n] = generators[n]
  BY DEF Forget, DriverTypeOK, Without, Restrict

(* The end of a step with a yield keeps the driver well typed.              *)
LEMMA YieldTypes ==
  ASSUME DriverTypeOK, NEW type \in TaskTypes, StepYields(type),
         driving \in DOMAIN generators
  PROVE  /\ DriverTypeOK'
         /\ DOMAIN generators' \subseteq DOMAIN generators
         /\ \A n \in DOMAIN generators' : generators'[n] = generators[n]
  BY DEF StepYields, TypedStateAfterYield, DriverTypeOK, TaskTypes, With, Without,
       Restrict

(* Types and tokens at the start.                                           *)
LEMMA InitTokens == Init => TypeOK /\ TokensOwned
  BY NoneAssumption DEF Init, DriverInit, TypeOK, DriverTypeOK, TokensOwned, PCs

(* A token is drawn once and stays with its invocation (the counter only    *)
(* grows), and types are kept.                                              *)
LEMMA StepTokens ==
  ASSUME TypeOK, TokensOwned, OneStepAtATime, Next
  PROVE  TypeOK' /\ TokensOwned'
<1> USE NoneAssumption, WithMap, WithoutMap DEF TypeOK, TokensOwned, OneStepAtATime,
     DriverTypeOK, PCs, TaskTypes,
      Goto, JsServes, JsFree
<1>1. ASSUME NEW i \in Invocations, NEW x \in Instances, NewToken(i, x)
      PROVE  TypeOK' /\ TokensOwned'
  BY <1>1 DEF NewToken, ContextKey, driverVars
<1>2. ASSUME NEW i \in Invocations, InsertContext(i)
      PROVE  TypeOK' /\ TokensOwned'
  <2>1. DOMAIN ctxs' \subseteq Nat /\ \A t \in DOMAIN ctxs' : ctxs'[t] \in Invocations
    BY <1>2 DEF InsertContext, With
  <2> QED
    BY <1>2, <2>1 DEF InsertContext, driverVars
<1>3. ASSUME NEW i \in Invocations, TaskReady(i) \/ TaskPending(i)
      PROVE  TypeOK' /\ TokensOwned'
  BY <1>3 DEF TaskReady, TaskPending, DroppableAt, driverVars
<1>4. ASSUME NEW i \in Invocations, GuardDrop(i)
      PROVE  TypeOK' /\ TokensOwned'
  <2>1. DOMAIN ctxs' \subseteq Nat /\ \A t \in DOMAIN ctxs' : ctxs'[t] \in Invocations
    BY <1>4 DEF GuardDrop, ContextsAfterDrop, Without, Restrict
  <2>2. strayed' \subseteq Invocations /\ pc' \in [Invocations -> PCs]
    BY <1>4 DEF GuardDrop
  <2>3. \A j \in Invocations : pc'[j] = "idle" <=> pc[j] = "idle"
    BY <1>4 DEF GuardDrop
  <2> QED
    BY <1>4, <2>1, <2>2, <2>3 DEF GuardDrop, HolderAfterRemove, driverVars
<1>5. ASSUME NEW i \in Invocations, CallFails(i)
      PROVE  TypeOK' /\ TokensOwned'
  BY <1>5 DEF CallFails, LockWithout, driverVars
<1>6. ASSUME NEW i \in Invocations, ServeCreate(i)
      PROVE  TypeOK' /\ TokensOwned'
  <2> DEFINE n == nextGeneratorId
  <2>1. token[i] \in Nat /\ token[i] < tokenCounter
    BY <1>6 DEF ServeCreate
  <2>2. /\ DOMAIN generators' \subseteq 1 .. nextGeneratorId' - 1
        /\ DOMAIN generators \cup {n} = DOMAIN generators'
        /\ \A g \in DOMAIN generators' : generators'[g] \in Nat /\ generators'[g] <
             tokenCounter'
    BY <1>6, <2>1 DEF ServeCreate, BeginCreate, With
  <2> QED
    BY <1>6, <2>2 DEF ServeCreate, BeginCreate
<1>7. ASSUME NEW i \in Invocations, ServeCreateRejected(i)
      PROVE  TypeOK' /\ TokensOwned'
  BY <1>7 DEF ServeCreateRejected, CreateRejected, driverVars
<1>8. ASSUME NEW i \in Invocations, ServeNext(i)
      PROVE  TypeOK' /\ TokensOwned'
  BY <1>8 DEF ServeNext, BeginNext, NextNotFound, driverVars
<1>9. ASSUME NEW i \in Invocations, ServeDispose(i)
      PROVE  TypeOK' /\ TokensOwned'
  <2>1. DriverTypeOK' /\ (\A n \in DOMAIN generators' : generators'[n] <
       tokenCounter')
    BY <1>9, ForgetTypes DEF ServeDispose, DisposeGenerator
  <2> QED
    BY <1>9, <2>1 DEF ServeDispose, LockWithout
<1>10. ASSUME NEW i \in Invocations, NEW type \in TaskTypes,
              Yield(i, type) \/ YieldUndecodable(i, type)
      PROVE  TypeOK' /\ TokensOwned'
  <2>1. StepYields(type) /\ driving \in DOMAIN generators /\ UNCHANGED tokenCounter
    BY <1>10 DEF Yield, YieldUndecodable, StepYields
  <2>2. DriverTypeOK' /\ (\A n \in DOMAIN generators' : generators'[n] <
       tokenCounter')
    BY <2>1, YieldTypes
  <2>3. genId' \in [Invocations -> Nat \cup {NONE}]
    BY <1>10, <2>1 DEF Yield, YieldUndecodable
  <2> QED
    BY <1>10, <2>2, <2>3 DEF Yield, YieldUndecodable
<1>11. ASSUME NEW i \in Invocations, Finish(i)
      PROVE  TypeOK' /\ TokensOwned'
  <2>1. DriverTypeOK' /\ (\A n \in DOMAIN generators' : generators'[n] <
       tokenCounter')
    BY <1>11, ForgetTypes DEF Finish, StepEnds
  <2> QED
    BY <1>11, <2>1 DEF Finish
<1>12. ASSUME NEW i \in Invocations, BeginNative(i)
      PROVE  TypeOK' /\ TokensOwned'
  BY <1>12 DEF BeginNative, driverVars
<1>15. ASSUME NEW i \in Invocations, EndNative(i)
      PROVE  TypeOK' /\ TokensOwned'
  <2>1. actedOn' \in [Invocations -> SUBSET Invocations]
    BY <1>15 DEF EndNative
  <2> QED
    BY <1>15, <2>1 DEF EndNative, driverVars
<1>13. CASE CloseEnv
  BY <1>13 DEF CloseEnv, driverVars
<1>14. CASE UNCHANGED vars
  BY <1>14 DEF vars, driverVars, bridgeVars
<1> QED
  BY NextCases, <1>1, <1>2, <1>3, <1>4, <1>5, <1>6, <1>7, <1>8, <1>9, <1>10, <1>11,
       <1>12, <1>13, <1>14, <1>15
(* The entry of an invocation is in the map from insertion until its guard  *)
(* runs, and only its own entry is under its token.                         *)
LEMMA StepContexts ==
  ASSUME TypeOK, TokensOwned, ContextsOwned, OneStepAtATime, Next
  PROVE  ContextsOwned'
<1> USE NoneAssumption DEF TypeOK, TokensOwned, ContextsOwned, OneStepAtATime,
     DriverTypeOK, PCs, Goto, JsServes, JsFree
<1>1. ASSUME NEW i \in Invocations, NEW x \in Instances, NewToken(i, x)
      PROVE  ContextsOwned'
  BY <1>1 DEF NewToken, ContextKey, driverVars
<1>2. ASSUME NEW i \in Invocations, InsertContext(i)
      PROVE  ContextsOwned'
  BY <1>2 DEF InsertContext, driverVars, With
<1>3. ASSUME NEW i \in Invocations, TaskReady(i) \/ TaskPending(i)
      PROVE  ContextsOwned'
  BY <1>3 DEF TaskReady, TaskPending, DroppableAt, driverVars
<1>4. ASSUME NEW i \in Invocations, GuardDrop(i)
      PROVE  ContextsOwned'
  BY <1>4 DEF GuardDrop, ContextsAfterDrop, HolderAfterRemove, driverVars, Without,
       Restrict
<1>5. ASSUME NEW i \in Invocations, CallFails(i)
      PROVE  ContextsOwned'
  BY <1>5 DEF CallFails, LockWithout, driverVars
<1>6. ASSUME NEW i \in Invocations, ServeCreate(i)
      PROVE  ContextsOwned'
  BY <1>6 DEF ServeCreate, BeginCreate
<1>7. ASSUME NEW i \in Invocations, ServeCreateRejected(i)
      PROVE  ContextsOwned'
  BY <1>7 DEF ServeCreateRejected, CreateRejected, driverVars
<1>8. ASSUME NEW i \in Invocations, ServeNext(i)
      PROVE  ContextsOwned'
  BY <1>8 DEF ServeNext, BeginNext, NextNotFound, driverVars
<1>9. ASSUME NEW i \in Invocations, ServeDispose(i)
      PROVE  ContextsOwned'
  BY <1>9 DEF ServeDispose, DisposeGenerator, Forget, LockWithout
<1>10. ASSUME NEW i \in Invocations, NEW type \in TaskTypes, Yield(i, type)
      PROVE  ContextsOwned'
  BY <1>10 DEF Yield, StepYields
<1>11. ASSUME NEW i \in Invocations, NEW type \in TaskTypes, YieldUndecodable(i, type)
      PROVE  ContextsOwned'
  BY <1>11 DEF YieldUndecodable, StepYields
<1>12. ASSUME NEW i \in Invocations, Finish(i)
      PROVE  ContextsOwned'
  BY <1>12 DEF Finish, StepEnds, Forget
<1>13. ASSUME NEW i \in Invocations, BeginNative(i)
      PROVE  ContextsOwned'
  BY <1>13 DEF BeginNative, driverVars
<1>14. ASSUME NEW i \in Invocations, EndNative(i)
      PROVE  ContextsOwned'
  BY <1>14 DEF EndNative, driverVars
<1>15. CASE CloseEnv
  BY <1>15 DEF CloseEnv, driverVars
<1>16. CASE UNCHANGED vars
  BY <1>16 DEF vars, driverVars, bridgeVars
<1> QED
  BY NextCases, <1>1, <1>2, <1>3, <1>4, <1>5, <1>6, <1>7, <1>8, <1>9, <1>10, <1>11,
       <1>12, <1>13, <1>14, <1>15, <1>16

(* The JavaScript thread is in user code exactly while it serves a blocked  *)
(* invocation: a future is never dropped during a call.                     *)
LEMMA StepOneAtATime ==
  ASSUME TypeOK, TokensOwned, GeneratorsOwned, OneStepAtATime, ContextsOwned,
       OwnGenerator, Next
  PROVE  OneStepAtATime'
<1> USE NoneAssumption DEF TypeOK, TokensOwned, GeneratorsOwned, OneStepAtATime,
     OwnGenerator, DriverTypeOK, PCs, Goto, JsServes, JsFree
<1>1. ASSUME NEW i \in Invocations, NEW x \in Instances, NewToken(i, x)
      PROVE  OneStepAtATime'
  BY <1>1 DEF NewToken, ContextKey, driverVars
<1>2. ASSUME NEW i \in Invocations, InsertContext(i)
      PROVE  OneStepAtATime'
  BY <1>2 DEF InsertContext, driverVars
<1>3. ASSUME NEW i \in Invocations, TaskReady(i) \/ TaskPending(i)
      PROVE  OneStepAtATime'
  BY <1>3 DEF TaskReady, TaskPending, DroppableAt, driverVars
<1>4. ASSUME NEW i \in Invocations, GuardDrop(i)
      PROVE  OneStepAtATime'
  BY <1>4 DEF GuardDrop, ContextsAfterDrop, HolderAfterRemove, driverVars
<1>5. ASSUME NEW i \in Invocations, CallFails(i)
      PROVE  OneStepAtATime'
  BY <1>5 DEF CallFails, LockWithout, driverVars
<1>6. ASSUME NEW i \in Invocations, ServeCreate(i)
      PROVE  OneStepAtATime'
  BY <1>6 DEF ServeCreate, BeginCreate, With
<1>7. ASSUME NEW i \in Invocations, ServeCreateRejected(i)
      PROVE  OneStepAtATime'
  BY <1>7 DEF ServeCreateRejected, CreateRejected, driverVars
<1>8. ASSUME NEW i \in Invocations, ServeNext(i)
      PROVE  OneStepAtATime'
  BY <1>8 DEF ServeNext, BeginNext, NextNotFound, driverVars
<1>9. ASSUME NEW i \in Invocations, ServeDispose(i)
      PROVE  OneStepAtATime'
  BY <1>9 DEF ServeDispose, DisposeGenerator, Forget, LockWithout
<1>10. ASSUME NEW i \in Invocations, NEW type \in TaskTypes, Yield(i, type)
      PROVE  OneStepAtATime'
  BY <1>10 DEF Yield, StepYields
<1>11. ASSUME NEW i \in Invocations, NEW type \in TaskTypes, YieldUndecodable(i, type)
      PROVE  OneStepAtATime'
  BY <1>11 DEF YieldUndecodable, StepYields
<1>12. ASSUME NEW i \in Invocations, Finish(i)
      PROVE  OneStepAtATime'
  BY <1>12 DEF Finish, StepEnds
<1>13. ASSUME NEW i \in Invocations, BeginNative(i)
      PROVE  OneStepAtATime'
  BY <1>13 DEF BeginNative, driverVars
<1>14. ASSUME NEW i \in Invocations, EndNative(i)
      PROVE  OneStepAtATime'
  BY <1>14 DEF EndNative, driverVars
<1>15. CASE CloseEnv
  BY <1>15 DEF CloseEnv, driverVars
<1>16. CASE UNCHANGED vars
  BY <1>16 DEF vars, driverVars, bridgeVars
<1> QED
  BY NextCases, <1>1, <1>2, <1>3, <1>4, <1>5, <1>6, <1>7, <1>8, <1>9, <1>10, <1>11,
       <1>12, <1>13, <1>14, <1>15, <1>16

(* A generator is made once per token and its id is the one the guard       *)
(* holds.                                                                   *)
LEMMA StepGenerators ==
  ASSUME TypeOK, TokensOwned, GeneratorsOwned, OneStepAtATime, Next
  PROVE  GeneratorsOwned'
<1> USE NoneAssumption DEF TypeOK, TokensOwned, GeneratorsOwned, OneStepAtATime,
     DriverTypeOK, PCs, Goto, JsServes, JsFree
<1>1. ASSUME NEW i \in Invocations, NEW x \in Instances, NewToken(i, x)
      PROVE  GeneratorsOwned'
  BY <1>1 DEF NewToken, ContextKey, driverVars
<1>2. ASSUME NEW i \in Invocations, InsertContext(i)
      PROVE  GeneratorsOwned'
  BY <1>2 DEF InsertContext, driverVars
<1>3. ASSUME NEW i \in Invocations, TaskReady(i) \/ TaskPending(i)
      PROVE  GeneratorsOwned'
  BY <1>3 DEF TaskReady, TaskPending, DroppableAt, driverVars
<1>4. ASSUME NEW i \in Invocations, GuardDrop(i)
      PROVE  GeneratorsOwned'
  BY <1>4 DEF GuardDrop, ContextsAfterDrop, HolderAfterRemove, driverVars
<1>5. ASSUME NEW i \in Invocations, CallFails(i)
      PROVE  GeneratorsOwned'
  BY <1>5 DEF CallFails, LockWithout, driverVars
<1>6. ASSUME NEW i \in Invocations, ServeCreate(i)
      PROVE  GeneratorsOwned'
  <2>1. /\ DOMAIN generators' = DOMAIN generators \cup {nextGeneratorId}
        /\ generators'[nextGeneratorId] = token[i]
        /\ \A g \in DOMAIN generators : generators'[g] = generators[g]
    BY <1>6 DEF ServeCreate, BeginCreate, With
  <2> QED
    BY <1>6, <2>1 DEF ServeCreate, BeginCreate
<1>7. ASSUME NEW i \in Invocations, ServeCreateRejected(i)
      PROVE  GeneratorsOwned'
  BY <1>7 DEF ServeCreateRejected, CreateRejected, driverVars
<1>8. ASSUME NEW i \in Invocations, ServeNext(i)
      PROVE  GeneratorsOwned'
  BY <1>8 DEF ServeNext, BeginNext, NextNotFound, driverVars
<1>9. ASSUME NEW i \in Invocations, ServeDispose(i)
      PROVE  GeneratorsOwned'
  <2>1. /\ DOMAIN generators' = DOMAIN generators \ {genId[i]}
        /\ \A g \in DOMAIN generators' : generators'[g] = generators[g]
    BY <1>9 DEF ServeDispose, DisposeGenerator, Forget, Without, Restrict
  <2> QED
    BY <1>9, <2>1 DEF ServeDispose, DisposeGenerator, Forget
<1>10. ASSUME NEW i \in Invocations, NEW type \in TaskTypes, Yield(i, type)
      PROVE  GeneratorsOwned'
  BY <1>10 DEF Yield, StepYields
<1>11. ASSUME NEW i \in Invocations, NEW type \in TaskTypes, YieldUndecodable(i, type)
      PROVE  GeneratorsOwned'
  BY <1>11 DEF YieldUndecodable, StepYields
<1>12. ASSUME NEW i \in Invocations, Finish(i)
      PROVE  GeneratorsOwned'
  <2>1. /\ DOMAIN generators' = DOMAIN generators \ {driving}
        /\ \A g \in DOMAIN generators' : generators'[g] = generators[g]
    BY <1>12 DEF Finish, StepEnds, Forget, Without, Restrict
  <2> QED
    BY <1>12, <2>1 DEF Finish, StepEnds, Forget
<1>13. ASSUME NEW i \in Invocations, BeginNative(i)
      PROVE  GeneratorsOwned'
  BY <1>13 DEF BeginNative, driverVars
<1>14. ASSUME NEW i \in Invocations, EndNative(i)
      PROVE  GeneratorsOwned'
  BY <1>14 DEF EndNative, driverVars
<1>15. CASE CloseEnv
  BY <1>15 DEF CloseEnv, driverVars
<1>16. CASE UNCHANGED vars
  BY <1>16 DEF vars, driverVars, bridgeVars
<1> QED
  BY NextCases, <1>1, <1>2, <1>3, <1>4, <1>5, <1>6, <1>7, <1>8, <1>9, <1>10, <1>11,
       <1>12, <1>13, <1>14, <1>15, <1>16

(* A native call reaches the context of its caller or none, because the     *)
(* token is the caller's alone.                                             *)
LEMMA StepIsolation ==
  ASSUME TypeOK, TokensOwned, ContextsOwned, ContextIsolation, Next
  PROVE  ContextIsolation'
<1> USE NoneAssumption DEF TypeOK, TokensOwned, ContextsOwned, ContextIsolation
<1>1. ASSUME NEW i \in Invocations, NEW x \in Instances, NewToken(i, x)
      PROVE  ContextIsolation'
  BY <1>1 DEF NewToken, ContextKey, driverVars
<1>2. ASSUME NEW i \in Invocations, InsertContext(i)
      PROVE  ContextIsolation'
  BY <1>2 DEF InsertContext, driverVars
<1>3. ASSUME NEW i \in Invocations, TaskReady(i) \/ TaskPending(i)
      PROVE  ContextIsolation'
  BY <1>3 DEF TaskReady, TaskPending, DroppableAt, driverVars
<1>4. ASSUME NEW i \in Invocations, GuardDrop(i)
      PROVE  ContextIsolation'
  BY <1>4 DEF GuardDrop, ContextsAfterDrop, HolderAfterRemove, driverVars
<1>5. ASSUME NEW i \in Invocations, CallFails(i)
      PROVE  ContextIsolation'
  BY <1>5 DEF CallFails, LockWithout, driverVars
<1>6. ASSUME NEW i \in Invocations, ServeCreate(i)
      PROVE  ContextIsolation'
  BY <1>6 DEF ServeCreate, BeginCreate
<1>7. ASSUME NEW i \in Invocations, ServeCreateRejected(i)
      PROVE  ContextIsolation'
  BY <1>7 DEF ServeCreateRejected, CreateRejected, driverVars
<1>8. ASSUME NEW i \in Invocations, ServeNext(i)
      PROVE  ContextIsolation'
  BY <1>8 DEF ServeNext, BeginNext, NextNotFound, driverVars
<1>9. ASSUME NEW i \in Invocations, ServeDispose(i)
      PROVE  ContextIsolation'
  BY <1>9 DEF ServeDispose, DisposeGenerator, Forget, LockWithout
<1>10. ASSUME NEW i \in Invocations, NEW type \in TaskTypes, Yield(i, type)
      PROVE  ContextIsolation'
  BY <1>10 DEF Yield, StepYields
<1>11. ASSUME NEW i \in Invocations, NEW type \in TaskTypes, YieldUndecodable(i, type)
      PROVE  ContextIsolation'
  BY <1>11 DEF YieldUndecodable, StepYields
<1>12. ASSUME NEW i \in Invocations, Finish(i)
      PROVE  ContextIsolation'
  BY <1>12 DEF Finish, StepEnds, Forget
<1>13. ASSUME NEW i \in Invocations, BeginNative(i)
      PROVE  ContextIsolation'
  BY <1>13 DEF BeginNative, driverVars
<1>14. ASSUME NEW i \in Invocations, EndNative(i)
      PROVE  ContextIsolation'
  BY <1>14 DEF EndNative, driverVars, Reached
<1>15. CASE CloseEnv
  BY <1>15 DEF CloseEnv, driverVars
<1>16. CASE UNCHANGED vars
  BY <1>16 DEF vars, driverVars, bridgeVars
<1> QED
  BY NextCases, <1>1, <1>2, <1>3, <1>4, <1>5, <1>6, <1>7, <1>8, <1>9, <1>10, <1>11,
       <1>12, <1>13, <1>14, <1>15, <1>16

(* The generator of a suspended or calling invocation is removed by nobody  *)
(* else.                                                                    *)
LEMMA StepOwnGenerator ==
  ASSUME TypeOK, TokensOwned, GeneratorsOwned, OneStepAtATime, OwnGenerator, Next
  PROVE  OwnGenerator'
<1> USE NoneAssumption DEF TypeOK, TokensOwned, GeneratorsOwned, OneStepAtATime,
     OwnGenerator, DriverTypeOK, PCs, Goto, JsServes, JsFree
<1>1. ASSUME NEW i \in Invocations, NEW x \in Instances, NewToken(i, x)
      PROVE  OwnGenerator'
  BY <1>1 DEF NewToken, ContextKey, driverVars
<1>2. ASSUME NEW i \in Invocations, InsertContext(i)
      PROVE  OwnGenerator'
  BY <1>2 DEF InsertContext, driverVars
<1>3. ASSUME NEW i \in Invocations, TaskReady(i) \/ TaskPending(i)
      PROVE  OwnGenerator'
  BY <1>3 DEF TaskReady, TaskPending, DroppableAt, driverVars
<1>4. ASSUME NEW i \in Invocations, GuardDrop(i)
      PROVE  OwnGenerator'
  BY <1>4 DEF GuardDrop, ContextsAfterDrop, HolderAfterRemove, driverVars
<1>5. ASSUME NEW i \in Invocations, CallFails(i)
      PROVE  OwnGenerator'
  BY <1>5 DEF CallFails, LockWithout, driverVars
<1>6. ASSUME NEW i \in Invocations, ServeCreate(i)
      PROVE  OwnGenerator'
  BY <1>6 DEF ServeCreate, BeginCreate, With
<1>7. ASSUME NEW i \in Invocations, ServeCreateRejected(i)
      PROVE  OwnGenerator'
  BY <1>7 DEF ServeCreateRejected, CreateRejected, driverVars
<1>8. ASSUME NEW i \in Invocations, ServeNext(i)
      PROVE  OwnGenerator'
  BY <1>8 DEF ServeNext, BeginNext, NextNotFound, driverVars
<1>9. ASSUME NEW i \in Invocations, ServeDispose(i)
      PROVE  OwnGenerator'
  BY <1>9 DEF ServeDispose, DisposeGenerator, Forget, LockWithout, Without, Restrict
<1>10. ASSUME NEW i \in Invocations, NEW type \in TaskTypes, Yield(i, type)
      PROVE  OwnGenerator'
  BY <1>10 DEF Yield, StepYields
<1>11. ASSUME NEW i \in Invocations, NEW type \in TaskTypes, YieldUndecodable(i, type)
      PROVE  OwnGenerator'
  BY <1>11 DEF YieldUndecodable, StepYields
<1>12. ASSUME NEW i \in Invocations, Finish(i)
      PROVE  OwnGenerator'
  BY <1>12 DEF Finish, StepEnds, Forget, Without, Restrict
<1>13. ASSUME NEW i \in Invocations, BeginNative(i)
      PROVE  OwnGenerator'
  BY <1>13 DEF BeginNative, driverVars
<1>14. ASSUME NEW i \in Invocations, EndNative(i)
      PROVE  OwnGenerator'
  BY <1>14 DEF EndNative, driverVars
<1>15. CASE CloseEnv
  BY <1>15 DEF CloseEnv, driverVars
<1>16. CASE UNCHANGED vars
  BY <1>16 DEF vars, driverVars, bridgeVars
<1> QED
  BY NextCases, <1>1, <1>2, <1>3, <1>4, <1>5, <1>6, <1>7, <1>8, <1>9, <1>10, <1>11,
       <1>12, <1>13, <1>14, <1>15, <1>16

(* The typed state of a generator follows the tasks its own invocation      *)
(* executes.                                                                *)
LEMMA StepTyped ==
  ASSUME TypeOK, TokensOwned, GeneratorsOwned, OneStepAtATime, OwnGenerator,
       TypedResultMatchesTask, Next
  PROVE  TypedResultMatchesTask'
<1> USE NoneAssumption, TypedAssumption DEF TypeOK, TokensOwned, GeneratorsOwned,
     OneStepAtATime, OwnGenerator, TypedResultMatchesTask, TypedStateOf, TaskTypes,
     DriverTypeOK, PCs, Goto, JsServes, JsFree
<1>1. ASSUME NEW i \in Invocations, NEW x \in Instances, NewToken(i, x)
      PROVE  TypedResultMatchesTask'
  BY <1>1 DEF NewToken, ContextKey, driverVars
<1>2. ASSUME NEW i \in Invocations, InsertContext(i)
      PROVE  TypedResultMatchesTask'
  BY <1>2 DEF InsertContext, driverVars
<1>3. ASSUME NEW i \in Invocations, TaskReady(i) \/ TaskPending(i)
      PROVE  TypedResultMatchesTask'
  BY <1>3 DEF TaskReady, TaskPending, DroppableAt, driverVars
<1>4. ASSUME NEW i \in Invocations, GuardDrop(i)
      PROVE  TypedResultMatchesTask'
  BY <1>4 DEF GuardDrop, ContextsAfterDrop, HolderAfterRemove, driverVars
<1>5. ASSUME NEW i \in Invocations, CallFails(i)
      PROVE  TypedResultMatchesTask'
  BY <1>5 DEF CallFails, LockWithout, driverVars
<1>6. ASSUME NEW i \in Invocations, ServeCreate(i)
      PROVE  TypedResultMatchesTask'
  BY <1>6 DEF ServeCreate, BeginCreate, With
<1>7. ASSUME NEW i \in Invocations, ServeCreateRejected(i)
      PROVE  TypedResultMatchesTask'
  BY <1>7 DEF ServeCreateRejected, CreateRejected, driverVars
<1>8. ASSUME NEW i \in Invocations, ServeNext(i)
      PROVE  TypedResultMatchesTask'
  BY <1>8 DEF ServeNext, BeginNext, NextNotFound, driverVars
<1>9. ASSUME NEW i \in Invocations, ServeDispose(i)
      PROVE  TypedResultMatchesTask'
  BY <1>9 DEF ServeDispose, DisposeGenerator, Forget, LockWithout, Without, Restrict
<1>10. ASSUME NEW i \in Invocations, NEW type \in TaskTypes, Yield(i, type)
      PROVE  TypedResultMatchesTask'
  BY <1>10 DEF Yield, StepYields, TypedStateAfterYield, With, Without, Restrict
<1>11. ASSUME NEW i \in Invocations, NEW type \in TaskTypes, YieldUndecodable(i, type)
      PROVE  TypedResultMatchesTask'
  BY <1>11 DEF YieldUndecodable, StepYields, TypedStateAfterYield, With, Without,
       Restrict
<1>12. ASSUME NEW i \in Invocations, Finish(i)
      PROVE  TypedResultMatchesTask'
  BY <1>12 DEF Finish, StepEnds, Forget, Without, Restrict
<1>13. ASSUME NEW i \in Invocations, BeginNative(i)
      PROVE  TypedResultMatchesTask'
  BY <1>13 DEF BeginNative, driverVars
<1>14. ASSUME NEW i \in Invocations, EndNative(i)
      PROVE  TypedResultMatchesTask'
  BY <1>14 DEF EndNative, driverVars
<1>15. CASE CloseEnv
  BY <1>15 DEF CloseEnv, driverVars
<1>16. CASE UNCHANGED vars
  BY <1>16 DEF vars, driverVars, bridgeVars
<1> QED
  BY NextCases, <1>1, <1>2, <1>3, <1>4, <1>5, <1>6, <1>7, <1>8, <1>9, <1>10, <1>11,
       <1>12, <1>13, <1>14, <1>15, <1>16

(* Every way to end that knows the generator and has a runtime removes it.  *)
LEMMA StepNoLeak ==
  ASSUME TypeOK, TokensOwned, GeneratorsOwned, OneStepAtATime, LeftOnlyWhereGivenUp, Next
  PROVE  LeftOnlyWhereGivenUp'
<1> USE NoneAssumption DEF TypeOK, TokensOwned, GeneratorsOwned, OneStepAtATime,
     LeftOnlyWhereGivenUp, GeneratorsOf, DriverTypeOK, PCs, Goto, JsServes, JsFree
<1>1. ASSUME NEW i \in Invocations, NEW x \in Instances, NewToken(i, x)
      PROVE  LeftOnlyWhereGivenUp'
  BY <1>1 DEF NewToken, ContextKey, driverVars
<1>2. ASSUME NEW i \in Invocations, InsertContext(i)
      PROVE  LeftOnlyWhereGivenUp'
  BY <1>2 DEF InsertContext, driverVars
<1>3. ASSUME NEW i \in Invocations, TaskReady(i) \/ TaskPending(i)
      PROVE  LeftOnlyWhereGivenUp'
  BY <1>3 DEF TaskReady, TaskPending, DroppableAt, driverVars
<1>4. ASSUME NEW i \in Invocations, GuardDrop(i)
      PROVE  LeftOnlyWhereGivenUp'
  BY <1>4 DEF GuardDrop, ContextsAfterDrop, HolderAfterRemove, driverVars
<1>5. ASSUME NEW i \in Invocations, CallFails(i)
      PROVE  LeftOnlyWhereGivenUp'
  BY <1>5 DEF CallFails, LockWithout, driverVars
<1>6. ASSUME NEW i \in Invocations, ServeCreate(i)
      PROVE  LeftOnlyWhereGivenUp'
  <2>1. /\ DOMAIN generators' = DOMAIN generators \cup {nextGeneratorId}
        /\ generators'[nextGeneratorId] = token[i]
        /\ \A g \in DOMAIN generators : generators'[g] = generators[g]
    BY <1>6 DEF ServeCreate, BeginCreate, With
  <2> QED
    BY <1>6, <2>1 DEF ServeCreate, BeginCreate
<1>7. ASSUME NEW i \in Invocations, ServeCreateRejected(i)
      PROVE  LeftOnlyWhereGivenUp'
  BY <1>7 DEF ServeCreateRejected, CreateRejected, driverVars
<1>8. ASSUME NEW i \in Invocations, ServeNext(i)
      PROVE  LeftOnlyWhereGivenUp'
  BY <1>8 DEF ServeNext, BeginNext, NextNotFound, driverVars
<1>9. ASSUME NEW i \in Invocations, ServeDispose(i)
      PROVE  LeftOnlyWhereGivenUp'
  <2>1. /\ DOMAIN generators' = DOMAIN generators \ {genId[i]}
        /\ \A g \in DOMAIN generators' : generators'[g] = generators[g]
    BY <1>9 DEF ServeDispose, DisposeGenerator, Forget, Without, Restrict
  <2> QED
    BY <1>9, <2>1 DEF ServeDispose, DisposeGenerator, Forget
<1>10. ASSUME NEW i \in Invocations, NEW type \in TaskTypes, Yield(i, type)
      PROVE  LeftOnlyWhereGivenUp'
  BY <1>10 DEF Yield, StepYields
<1>11. ASSUME NEW i \in Invocations, NEW type \in TaskTypes, YieldUndecodable(i, type)
      PROVE  LeftOnlyWhereGivenUp'
  BY <1>11 DEF YieldUndecodable, StepYields
<1>12. ASSUME NEW i \in Invocations, Finish(i)
      PROVE  LeftOnlyWhereGivenUp'
  <2>1. /\ DOMAIN generators' = DOMAIN generators \ {driving}
        /\ \A g \in DOMAIN generators' : generators'[g] = generators[g]
    BY <1>12 DEF Finish, StepEnds, Forget, Without, Restrict
  <2> QED
    BY <1>12, <2>1 DEF Finish, StepEnds, Forget
<1>13. ASSUME NEW i \in Invocations, BeginNative(i)
      PROVE  LeftOnlyWhereGivenUp'
  BY <1>13 DEF BeginNative, driverVars
<1>14. ASSUME NEW i \in Invocations, EndNative(i)
      PROVE  LeftOnlyWhereGivenUp'
  BY <1>14 DEF EndNative, driverVars
<1>15. CASE CloseEnv
  BY <1>15 DEF CloseEnv, driverVars
<1>16. CASE UNCHANGED vars
  BY <1>16 DEF vars, driverVars, bridgeVars
<1> QED
  BY NextCases, <1>1, <1>2, <1>3, <1>4, <1>5, <1>6, <1>7, <1>8, <1>9, <1>10, <1>11,
       <1>12, <1>13, <1>14, <1>15, <1>16

(* The inductive invariant of the bridge holds in every reachable state,    *)
(* for any number of invocations and instances.                             *)
THEOREM BridgeInvariant == Spec => []Inv
<1>1. Init => Inv
  <2> SUFFICES ASSUME Init PROVE Inv
    OBVIOUS
  <2>1. TypeOK /\ TokensOwned
    BY InitTokens
  <2>2. ContextsOwned /\ GeneratorsOwned /\ OneStepAtATime
    BY NoneAssumption DEF Init, DriverInit, ContextsOwned, GeneratorsOwned,
         OneStepAtATime
  <2>3. ContextIsolation /\ OwnGenerator /\ TypedResultMatchesTask /\ LeftOnlyWhereGivenUp
    BY DEF Init, DriverInit, ContextIsolation, OwnGenerator, TypedResultMatchesTask,
           LeftOnlyWhereGivenUp, GeneratorsOf
  <2> QED
    BY <2>1, <2>2, <2>3 DEF Inv
<1>2. Inv /\ [Next]_vars => Inv'
  <2> SUFFICES ASSUME Inv, [Next]_vars PROVE Inv'
    OBVIOUS
  <2>1. CASE Next
    BY <2>1, StepTokens, StepContexts, StepOneAtATime, StepGenerators, StepIsolation,
       StepOwnGenerator, StepTyped, StepNoLeak DEF Inv
  <2>2. CASE UNCHANGED vars
    BY <2>2 DEF vars, driverVars, bridgeVars, Inv, TypeOK, DriverTypeOK, TokensOwned,
       ContextsOwned, GeneratorsOwned, OneStepAtATime, ContextIsolation, OwnGenerator,
       TypedResultMatchesTask, TypedStateOf, LeftOnlyWhereGivenUp, GeneratorsOf
  <2> QED
    BY <2>1, <2>2
<1> QED
  BY <1>1, <1>2, PTL DEF Spec

(* The safety properties of the bridge: contexts are isolated and present,  *)
(* results reach their own generator with the right type, no generator      *)
(* leaks but where the code gives up on it, and one that does is inert.     *)
THEOREM BridgeSafety ==
  Spec => [](TypeOK /\ ContextIsolation /\ OwnGenerator /\ TypedResultMatchesTask
              /\ NoGeneratorLeak /\ LiveStepHasContext)
<1>1. Inv => LiveStepHasContext
  BY NoneAssumption DEF Inv, LiveStepHasContext, OneStepAtATime, ContextsOwned,
       Reached, TypeOK
<1>2. Inv => NoGeneratorLeak
  <2> SUFFICES ASSUME Inv, NEW i \in Invocations, pc[i] = "done"
               PROVE  /\ token[i] \notin DOMAIN ctxs
                      /\ \A g \in GeneratorsOf(i) :
                           /\ GeneratorsOf(i) = {g} /\ driving # g
                           /\ \A j \in Invocations :
                                pc[j] \in {"execute", "next", "dispose"} => genId[j] # g
    BY DEF Inv, NoGeneratorLeak
  <2>1. token[i] \notin DOMAIN ctxs
    BY DEF Inv, ContextsOwned
  <2>2. ASSUME NEW g \in GeneratorsOf(i)
        PROVE  GeneratorsOf(i) = {g}
    BY <2>2 DEF Inv, GeneratorsOwned, GeneratorsOf
  <2>3. ASSUME NEW g \in GeneratorsOf(i)
        PROVE  driving # g
    BY <2>3, NoneAssumption
    DEF Inv, GeneratorsOf, OneStepAtATime, TokensOwned, TypeOK, DriverTypeOK
  <2>4. ASSUME NEW g \in GeneratorsOf(i), NEW j \in Invocations,
               pc[j] \in {"execute", "next", "dispose"}
        PROVE  genId[j] # g
    BY <2>4, NoneAssumption
    DEF Inv, GeneratorsOf, GeneratorsOwned, TokensOwned, TypeOK, DriverTypeOK
  <2> QED
    BY <2>1, <2>2, <2>3, <2>4
<1> QED
  BY <1>1, <1>2, BridgeInvariant, PTL DEF Inv
(* A step that moves one invocation from phase a to phase b and leaves the  *)
(* others where they are is a move of the protocol.                         *)
LEMMA PhaseMove ==
  ASSUME NEW i \in Invocations, NEW from, NEW a \in from, NEW b,
         Phase(i) = a, Phase(i)' = b,
         \A j \in Invocations \ {i} : Phase(j)' = Phase(j),
         UNCHANGED actedOn
  PROVE  Protocol!Move(i, from, b)
  BY DEF Protocol!Move

(* With the context map as Inv describes it, a native call acts on the      *)
(* context of the caller while the caller is not over, or on none.          *)
LEMMA NativeActs ==
  ASSUME Inv, NEW i \in Invocations, EndNative(i)
  PROVE  Protocol!Act(i) \/ UNCHANGED Protocol!vars
<1> USE NoneAssumption DEF Inv, TypeOK, OneStepAtATime
<1>1. UNCHANGED <<pc, serving>>
  BY DEF EndNative
<1>2. \A j \in Invocations : Phase(j)' = Phase(j)
  BY <1>1 DEF Phase
<1>3. CASE Reached(token[i]) = {}
  <2>1. UNCHANGED actedOn
    BY <1>3 DEF EndNative
  <2> QED
    BY <2>1, <1>2 DEF Protocol!vars
<1>4. CASE Reached(token[i]) # {}
  <2>1. Reached(token[i]) = {i} /\ pc[i] \in {"create", "execute", "next", "drop"}
    BY <1>4 DEF Reached, ContextsOwned, TokensOwned, PCs, EndNative
  <2>2. actedOn' = [actedOn EXCEPT ![i] = @ \cup {i}]
    BY <2>1 DEF EndNative
  <2>3. Phase(i) \notin {"new", "over"}
    BY <2>1 DEF Phase
  <2>4. \A j \in Invocations \ {i} : Phase(j) # "stepping"
    BY DEF Phase, EndNative
  <2> QED
    BY <2>2, <2>3, <2>4, <1>2 DEF Protocol!Act
<1> QED
  BY <1>3, <1>4

(* The bridge implements the protocol: tokens, maps, generators and threads *)
(* are a way to keep its promises.                                          *)
THEOREM BridgeImplementsProtocol == Spec => ImplementsProtocol
<1>1. Init => Protocol!Init
  BY NoneAssumption DEF Init, DriverInit, Protocol!Init, Phase
<1>2. Inv /\ [Next]_vars => [Protocol!Next]_(Protocol!vars)
  <2> SUFFICES ASSUME Inv, [Next]_vars
               PROVE  Protocol!Next \/ UNCHANGED Protocol!vars
    OBVIOUS
  <2>1. ASSUME NEW i \in Invocations, NEW x \in Instances, NewToken(i, x)
        PROVE  UNCHANGED Protocol!vars
    <3>1. UNCHANGED actedOn /\ \A j \in Invocations : Phase(j)' = Phase(j)
      BY <2>1, NoneAssumption DEF Inv, TypeOK, PCs, OneStepAtATime, Goto, JsServes,
           JsFree, Phase, NewToken, driverVars
    <3> QED
      BY <3>1 DEF Protocol!vars
  <2>2. ASSUME NEW i \in Invocations, InsertContext(i)
        PROVE  Protocol!Begin(i)
    <3>1. Phase(i) = "new" /\ Phase(i)' = "called" /\ UNCHANGED actedOn
      BY <2>2, NoneAssumption DEF Inv, TypeOK, PCs, OneStepAtATime, Goto, JsServes,
           JsFree, Phase, InsertContext, driverVars
    <3>2. \A j \in Invocations \ {i} : Phase(j)' = Phase(j)
      BY <2>2, NoneAssumption DEF Inv, TypeOK, PCs, OneStepAtATime, Goto, JsServes,
           JsFree, Phase, InsertContext, driverVars
    <3> QED
      BY <3>1, <3>2, PhaseMove DEF Protocol!Begin
  <2>3. ASSUME NEW i \in Invocations, TaskReady(i)
        PROVE  Protocol!Resume(i)
    <3>1. Phase(i) = "awaiting" /\ Phase(i)' = "called" /\ UNCHANGED actedOn
      BY <2>3, NoneAssumption DEF Inv, TypeOK, PCs, OneStepAtATime, Goto, JsServes,
           JsFree, Phase, TaskReady, driverVars
    <3>2. \A j \in Invocations \ {i} : Phase(j)' = Phase(j)
      BY <2>3, NoneAssumption DEF Inv, TypeOK, PCs, OneStepAtATime, Goto, JsServes,
           JsFree, Phase, TaskReady, driverVars
    <3> QED
      BY <3>1, <3>2, PhaseMove DEF Protocol!Resume
  <2>4. ASSUME NEW i \in Invocations, TaskPending(i)
        PROVE  Protocol!Stop(i)
    <3>1. Phase(i) = "awaiting" /\ Phase(i)' = "ending" /\ UNCHANGED actedOn
      BY <2>4, NoneAssumption DEF Inv, TypeOK, PCs, OneStepAtATime, Goto, JsServes,
           JsFree, Phase, TaskPending, DroppableAt, driverVars
    <3>2. \A j \in Invocations \ {i} : Phase(j)' = Phase(j)
      BY <2>4, NoneAssumption DEF Inv, TypeOK, PCs, OneStepAtATime, Goto, JsServes,
           JsFree, Phase, TaskPending, DroppableAt, driverVars
    <3> QED
      BY <3>1, <3>2, PhaseMove DEF Protocol!Stop
  <2>5. ASSUME NEW i \in Invocations, GuardDrop(i)
        PROVE  Protocol!Close(i)
    <3>1. Phase(i) = "ending" /\ Phase(i)' = "over" /\ UNCHANGED actedOn
      BY <2>5, NoneAssumption DEF Inv, TypeOK, PCs, OneStepAtATime, Goto, JsServes,
           JsFree, Phase, GuardDrop, driverVars
    <3>2. \A j \in Invocations \ {i} : Phase(j)' = Phase(j)
      BY <2>5, NoneAssumption DEF Inv, TypeOK, PCs, OneStepAtATime, Goto, JsServes,
           JsFree, Phase, GuardDrop, driverVars
    <3> QED
      BY <3>1, <3>2, PhaseMove DEF Protocol!Close
  <2>6. ASSUME NEW i \in Invocations, CallFails(i), pc[i] # "dispose"
        PROVE  Protocol!Stop(i)
    <3>1. Phase(i) = "called" /\ Phase(i)' = "ending" /\ UNCHANGED actedOn
      BY <2>6, NoneAssumption DEF Inv, TypeOK, PCs, OneStepAtATime, Goto, JsServes,
           JsFree, Phase, CallFails, driverVars
    <3>2. \A j \in Invocations \ {i} : Phase(j)' = Phase(j)
      BY <2>6, NoneAssumption DEF Inv, TypeOK, PCs, OneStepAtATime, Goto, JsServes,
           JsFree, Phase, CallFails, driverVars
    <3> QED
      BY <3>1, <3>2, PhaseMove DEF Protocol!Stop
  <2>7. ASSUME NEW i \in Invocations, CallFails(i), pc[i] = "dispose"
        PROVE  UNCHANGED Protocol!vars
    <3>1. UNCHANGED actedOn /\ \A j \in Invocations : Phase(j)' = Phase(j)
      BY <2>7, NoneAssumption DEF Inv, TypeOK, PCs, OneStepAtATime, Goto, JsServes,
           JsFree, Phase, CallFails, driverVars
    <3> QED
      BY <3>1 DEF Protocol!vars
  <2>8. ASSUME NEW i \in Invocations, ServeCreate(i)
        PROVE  Protocol!Step(i)
    <3>1. Phase(i) = "called" /\ Phase(i)' = "stepping" /\ UNCHANGED actedOn
      BY <2>8, NoneAssumption DEF Inv, TypeOK, PCs, OneStepAtATime, Goto, JsServes,
           JsFree, Phase, ServeCreate, BeginCreate
    <3>2. \A j \in Invocations \ {i} : Phase(j)' = Phase(j) /\ Phase(j) # "stepping"
      BY <2>8, NoneAssumption DEF Inv, TypeOK, PCs, OneStepAtATime, Goto, JsServes,
           JsFree, Phase, ServeCreate, BeginCreate
    <3> QED
      BY <3>1, <3>2, PhaseMove DEF Protocol!Step
  <2>9. ASSUME NEW i \in Invocations, ServeCreateRejected(i)
        PROVE  Protocol!Stop(i)
    <3>1. Phase(i) = "called" /\ Phase(i)' = "ending" /\ UNCHANGED actedOn
      BY <2>9, NoneAssumption DEF Inv, TypeOK, PCs, OneStepAtATime, Goto, JsServes,
           JsFree, Phase, ServeCreateRejected, CreateRejected, driverVars
    <3>2. \A j \in Invocations \ {i} : Phase(j)' = Phase(j)
      BY <2>9, NoneAssumption DEF Inv, TypeOK, PCs, OneStepAtATime, Goto, JsServes,
           JsFree, Phase, ServeCreateRejected, CreateRejected, driverVars
    <3> QED
      BY <3>1, <3>2, PhaseMove DEF Protocol!Stop
  <2>10. ASSUME NEW i \in Invocations, ServeNext(i)
        PROVE  Protocol!Step(i)
    <3>1. Phase(i) = "called" /\ Phase(i)' = "stepping" /\ UNCHANGED actedOn
      BY <2>10, NoneAssumption DEF Inv, TypeOK, PCs, OneStepAtATime, Goto, JsServes,
           JsFree, Phase, ServeNext, BeginNext, driverVars, OwnGenerator
    <3>2. \A j \in Invocations \ {i} : Phase(j)' = Phase(j) /\ Phase(j) # "stepping"
      BY <2>10, NoneAssumption DEF Inv, TypeOK, PCs, OneStepAtATime, Goto, JsServes,
           JsFree, Phase, ServeNext, BeginNext, driverVars, OwnGenerator
    <3> QED
      BY <3>1, <3>2, PhaseMove DEF Protocol!Step
  <2>11. ASSUME NEW i \in Invocations, ServeDispose(i)
        PROVE  UNCHANGED Protocol!vars
    <3>1. UNCHANGED actedOn /\ \A j \in Invocations : Phase(j)' = Phase(j)
      BY <2>11, NoneAssumption DEF Inv, TypeOK, PCs, OneStepAtATime, Goto, JsServes,
           JsFree, Phase, ServeDispose, DisposeGenerator
    <3> QED
      BY <3>1 DEF Protocol!vars
  <2>12. ASSUME NEW i \in Invocations, NEW type \in TaskTypes, Yield(i, type)
        PROVE  Protocol!Yield(i)
    <3>1. Phase(i) = "stepping" /\ Phase(i)' = "awaiting" /\ UNCHANGED actedOn
      BY <2>12, NoneAssumption DEF Inv, TypeOK, PCs, OneStepAtATime, Goto, JsServes,
           JsFree, Phase, Yield, StepYields
    <3>2. \A j \in Invocations \ {i} : Phase(j)' = Phase(j)
      BY <2>12, NoneAssumption DEF Inv, TypeOK, PCs, OneStepAtATime, Goto, JsServes,
           JsFree, Phase, Yield, StepYields
    <3> QED
      BY <3>1, <3>2, PhaseMove DEF Protocol!Yield
  <2>13. ASSUME NEW i \in Invocations, NEW type \in TaskTypes, YieldUndecodable(i,
       type)
        PROVE  Protocol!Stop(i)
    <3>1. Phase(i) = "stepping" /\ Phase(i)' = "ending" /\ UNCHANGED actedOn
      BY <2>13, NoneAssumption DEF Inv, TypeOK, PCs, OneStepAtATime, Goto, JsServes,
           JsFree, Phase, YieldUndecodable, StepYields
    <3>2. \A j \in Invocations \ {i} : Phase(j)' = Phase(j)
      BY <2>13, NoneAssumption DEF Inv, TypeOK, PCs, OneStepAtATime, Goto, JsServes,
           JsFree, Phase, YieldUndecodable, StepYields
    <3> QED
      BY <3>1, <3>2, PhaseMove DEF Protocol!Stop
  <2>14. ASSUME NEW i \in Invocations, Finish(i)
        PROVE  Protocol!Stop(i)
    <3>1. Phase(i) = "stepping" /\ Phase(i)' = "ending" /\ UNCHANGED actedOn
      BY <2>14, NoneAssumption DEF Inv, TypeOK, PCs, OneStepAtATime, Goto, JsServes,
           JsFree, Phase, Finish, StepEnds
    <3>2. \A j \in Invocations \ {i} : Phase(j)' = Phase(j)
      BY <2>14, NoneAssumption DEF Inv, TypeOK, PCs, OneStepAtATime, Goto, JsServes,
           JsFree, Phase, Finish, StepEnds
    <3> QED
      BY <3>1, <3>2, PhaseMove DEF Protocol!Stop
  <2>15. ASSUME NEW i \in Invocations, BeginNative(i)
        PROVE  UNCHANGED Protocol!vars
    <3>1. UNCHANGED actedOn /\ \A j \in Invocations : Phase(j)' = Phase(j)
      BY <2>15, NoneAssumption DEF Inv, TypeOK, PCs, OneStepAtATime, Goto, JsServes,
           JsFree, Phase, BeginNative, driverVars
    <3> QED
      BY <3>1 DEF Protocol!vars
  <2>16. CASE CloseEnv
    <3>1. UNCHANGED <<pc, serving, actedOn>>
      BY <2>16 DEF CloseEnv
    <3> QED
      BY <3>1 DEF Protocol!vars, Phase
  <2>17. CASE UNCHANGED vars
    BY <2>17 DEF vars, bridgeVars, Protocol!vars, Phase
  <2> QED
    BY NextCases, NativeActs, <2>1, <2>2, <2>3, <2>4, <2>5, <2>6, <2>7, <2>8, <2>9,
         <2>10, <2>11, <2>12, <2>13, <2>14, <2>15, <2>16, <2>17 DEF Protocol!Next
<1> QED
  BY <1>1, <1>2, BridgeInvariant, PTL DEF Spec, ImplementsProtocol, Protocol!Spec
=============================================================================
