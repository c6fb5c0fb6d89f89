----------------------------- MODULE SystemProofs -----------------------------
(***************************************************************************)
(* Proof that in the whole process the configuration endpoint serves only *)
(* loaded lists, for any bound on requests in flight and any set of       *)
(* configuration connections.  Unlike ConfigEndpointProofs, nothing here  *)
(* assumes the load came first: it follows from main's order, which runs  *)
(* LoadPenaltyConfig, checks its error and only then starts the server.  *)
(***************************************************************************)
EXTENDS System, TLAPS

EP == INSTANCE ConfigEndpointProofs
SP == INSTANCE ServiceProofs

\* Where main is once LoadPenaltyConfig returned without an error.
AfterLoad ==
  {"details", "allowed", "register", "notify", "spawn", "wait",
   "daoShutdown", "httpShutdown", "draining", "report"}

\* main's order: before LoadPenaltyConfig nothing is loaded; once it is
\* past it, or the serving goroutine or the server exists, it succeeded.
Ordered ==
  /\ mainPc \in {"config", "mongo"} => loadPc = "types"
  /\ mainPc = "penaltyConfig" => loadPc \in {"types", "payables"}
  /\ mainPc \in AfterLoad => loadPc = "loaded"
  /\ gpc # "none" => loadPc = "loaded"
  /\ srv # "down" => loadPc = "loaded"

\* The inductive invariant: the endpoint's own invariant, with its guard
\* on the load replaced by main's order.
IInv ==
  /\ E!TypeOK
  /\ E!ConfigAllOrNothing
  /\ loadPc = "loaded" => penaltyConfig = [types |-> "loaded", payables |-> "loaded"]
  /\ \A r \in Reqs : EP!HandlerFacts(r)
  /\ Ordered

LEMMA InitIInv == Init => IInv
BY DEF Init, S!Init, E!Init, IInv, E!TypeOK, E!ConfigAllOrNothing,
       EP!HandlerFacts, Ordered, AfterLoad, E!ConfigTypes

\* A step of main or of the server that leaves the endpoint alone keeps
\* everything but the order, which it must keep itself.
LEMMA EndpointFrame ==
  ASSUME IInv, UNCHANGED endpointVars, Ordered'
  PROVE  IInv'
BY DEF IInv, endpointVars, E!TypeOK, E!ConfigAllOrNothing, EP!HandlerFacts

LEMMA NextIInv == IInv /\ [Next]_vars => IInv'
<1> SUFFICES ASSUME IInv, [Next]_vars PROVE IInv'
  OBVIOUS
<1>1. CASE MainStep
  <2>1. UNCHANGED endpointVars /\ mainPc # "penaltyConfig"
    BY <1>1 DEF MainStep
  <2>2. Ordered'
    <3> USE <2>1 DEF IInv, Ordered, AfterLoad, endpointVars
    <3>1. CASE S!StartOk
      BY <3>1 DEF S!StartOk, S!StartSteps
    <3>2. CASE S!StartFails
      BY <3>2 DEF S!StartFails
    <3>3. CASE S!Register \/ S!Notify \/ S!Spawn \/ S!Receive
      BY <3>3 DEF S!Register, S!Notify, S!Spawn, S!Receive
    <3>4. CASE S!MainDaoShutdown \/ S!HttpShutdown \/ S!MainReturns
      BY <3>4 DEF S!MainDaoShutdown, S!HttpShutdown, S!MainReturns
    <3>5. QED
      BY <1>1, <3>1, <3>2, <3>3, <3>4 DEF MainStep
  <2>3. QED
    BY <2>1, <2>2, EndpointFrame
<1>2. CASE ServerStep
  <2>1. Ordered'
    BY <1>2 DEF ServerStep, IInv, Ordered, S!Listen, S!ServeReturns,
                S!GoroutineCheck, S!Arrive, S!Handle, endpointVars,
                AfterLoad
  <2>2. QED
    BY <1>2, <2>1, EndpointFrame DEF ServerStep
<1>3. CASE ShutdownReturns
  <2>1. Ordered'
    BY <1>3 DEF ShutdownReturns, IInv, Ordered, AfterLoad, endpointVars
  <2>2. QED
    BY <1>3, <2>1, EndpointFrame DEF ShutdownReturns
<1>4. CASE S!Signal /\ UNCHANGED endpointVars
  <2>1. Ordered'
    BY <1>4 DEF S!Signal, IInv, Ordered, endpointVars
  <2>2. QED
    BY <1>4, <2>1, EndpointFrame
<1>5. CASE LoadPenaltyConfig
  <2>1. Ordered'
    BY <1>5 DEF LoadPenaltyConfig, E!UnmarshalTypes, E!UnmarshalPayables,
                IInv, Ordered, AfterLoad
  <2>2. \A r \in Reqs : hpc[r] = "idle"
    BY <1>5 DEF LoadPenaltyConfig, IInv, Ordered, EP!HandlerFacts
  <2>3. QED
    BY <1>5, <2>1, <2>2 DEF LoadPenaltyConfig, E!UnmarshalTypes,
       E!UnmarshalPayables, IInv, E!TypeOK, E!ConfigAllOrNothing,
       EP!HandlerFacts
<1>6. ASSUME NEW r \in Reqs, ConfigRequest(r) PROVE IInv'
  <2>1. loadPc = "loaded"
    BY <1>6 DEF ConfigRequest, IInv, Ordered
  <2>2. QED
    <3>1. UNCHANGED mainVars /\ hpc[r] = "idle"
      BY <1>6 DEF ConfigRequest, E!Accept
    <3>2. Ordered'
      BY <3>1, <1>6 DEF ConfigRequest, E!Accept, IInv, Ordered, mainVars
    <3>3. E!TypeOK'
      BY <1>6 DEF ConfigRequest, E!Accept, IInv, E!TypeOK, E!ConfigTypes
    <3>4. ASSUME NEW s \in Reqs PROVE EP!HandlerFacts(s)'
      BY <1>6, <2>1, <3>3 DEF ConfigRequest, E!Accept, IInv, E!TypeOK,
                              EP!HandlerFacts
    <3>5. QED
      BY <1>6, <3>2, <3>3, <3>4 DEF ConfigRequest, E!Accept, IInv,
                                    E!ConfigAllOrNothing
<1>7. ASSUME NEW r \in Reqs, ConfigHandle(r) PROVE IInv'
  <2>1. UNCHANGED mainVars
    BY <1>7 DEF ConfigHandle
  <2>2. Ordered'
    BY <1>7, <2>1 DEF ConfigHandle, E!Switch, E!Encode, E!Complete, IInv,
                      Ordered, mainVars
  <2>3. EP!IInv
    BY DEF IInv, EP!IInv, E!TypeOK, E!ConfigAllOrNothing, EP!TypeOK,
           EP!ConfigAllOrNothing, E!ConfigTypes, EP!ConfigTypes
  <2>4. EP!Next
    BY <1>7 DEF ConfigHandle, E!Switch, E!Encode, E!Complete, E!ProvidedConfig,
                EP!Next, EP!Switch, EP!Encode, EP!Complete, EP!ProvidedConfig
  <2>5. EP!IInv'
    BY <2>3, <2>4, EP!NextIInv
  <2>6. QED
    BY <2>2, <2>5 DEF IInv, EP!IInv, E!TypeOK, E!ConfigAllOrNothing,
                      EP!TypeOK, EP!ConfigAllOrNothing, E!ConfigTypes,
                      EP!ConfigTypes
<1>8. CASE UNCHANGED vars
  BY <1>8, EndpointFrame DEF vars, mainVars, IInv, Ordered, endpointVars
<1>9. QED
  BY <1>1, <1>2, <1>3, <1>4, <1>5, <1>6, <1>7, <1>8 DEF Next

\* Whatever the interleaving of main, the serving goroutine, signals and
\* requests, a configuration request answered 200 with a body got the
\* loaded list of a known type: main's error check of LoadPenaltyConfig
\* before starting the server is enough for it, for every bound.
THEOREM SystemServedLoadedConfig == Spec => []ServedLoadedConfig
<1>1. IInv => ServedLoadedConfig
  BY DEF IInv, EP!HandlerFacts, ServedLoadedConfig, E!ServedLoadedConfig
<1>2. QED
  BY InitIInv, NextIInv, <1>1, PTL DEF Spec

-----------------------------------------------------------------------------
(* main's state in the whole process.  Every step but h.Shutdown's return *)
(* is, on main's variables, a step of Service or none (an unmarshal step  *)
(* that is not LoadPenaltyConfig's last, a configuration request): so     *)
(* Service's inductive invariant carries over.  h.Shutdown's return       *)
(* differs from Service's, as it also waits for configuration handlers,  *)
(* but it only sets err and moves main to the report, which the invariant *)
(* allows whichever error it returns.                                      *)

\* The steps of main, of the serving goroutine and of the signal are
\* Service's own.
LEMMA ServiceStep ==
  ASSUME [Next]_vars, ~ShutdownReturns
  PROVE  [SP!Next]_SP!vars
<1>1. CASE MainStep
  BY <1>1 DEF MainStep, SP!Next, S!StartOk, SP!StartOk, S!StartSteps,
              SP!StartSteps, S!StartFails, SP!StartFails, S!Register,
              SP!Register, S!Notify, SP!Notify, S!Spawn, SP!Spawn, S!Receive,
              SP!Receive, S!MainDaoShutdown, SP!MainDaoShutdown,
              S!HttpShutdown, SP!HttpShutdown, S!MainReturns, SP!MainReturns,
              S!Running, SP!Running
<1>2. CASE ServerStep
  BY <1>2 DEF ServerStep, SP!Next, S!Listen, SP!Listen, S!ServeReturns,
              SP!ServeReturns, S!GoroutineCheck, SP!GoroutineCheck, S!Arrive,
              SP!Arrive, S!Handle, SP!Handle, S!Running, SP!Running
<1>3. CASE S!Signal /\ UNCHANGED endpointVars
  BY <1>3 DEF SP!Next, S!Signal, SP!Signal, S!Running, SP!Running
<1>4. CASE LoadPenaltyConfig
  \* A failed load is StartFails, a completed one StartOk, the first of
  \* the two unmarshal steps nothing.
  <2>1. CASE loadPc' = "failed"
    BY <1>4, <2>1 DEF LoadPenaltyConfig, SP!Next, SP!StartFails, S!Running,
                      SP!Running
  <2>2. CASE loadPc' = "loaded"
    <3>1. SP!StartOk
      BY <1>4, <2>2 DEF LoadPenaltyConfig, SP!StartOk, SP!StartSteps,
                        S!Running, SP!Running
    <3>2. QED
      BY <3>1 DEF SP!Next
  <2>3. CASE loadPc' = "payables"
    BY <1>4, <2>3 DEF LoadPenaltyConfig, SP!vars
  <2>4. QED
    BY <1>4, <2>1, <2>2, <2>3 DEF LoadPenaltyConfig
<1>5. ASSUME NEW r \in Reqs, ConfigRequest(r) \/ ConfigHandle(r)
      PROVE  [SP!Next]_SP!vars
  BY <1>5 DEF ConfigRequest, ConfigHandle, mainVars, SP!vars
<1>6. CASE UNCHANGED vars
  BY <1>6 DEF vars, mainVars, SP!vars
<1>7. QED
  BY <1>1, <1>2, <1>3, <1>4, <1>5, <1>6 DEF Next

LEMMA ServiceIInv == SP!IInv /\ [Next]_vars => SP!IInv'
<1> SUFFICES ASSUME SP!IInv, [Next]_vars PROVE SP!IInv'
  OBVIOUS
<1>1. CASE ShutdownReturns
  <2>1. SP!BoolTypes'
    BY <1>1, Zenon DEF ShutdownReturns, SP!IInv, SP!BoolTypes
  <2>2. SP!OtherTypes' /\ SP!ShutdownAccount'
    BY <1>1 DEF ShutdownReturns, SP!IInv, SP!OtherTypes, SP!ShutdownAccount,
                SP!MainShutDao, SP!MainPcs, SP!Errs, S!Running
  <2>3. QED
    BY <2>1, <2>2 DEF SP!IInv
<1>2. CASE ~ShutdownReturns
  BY <1>2, ServiceStep, SP!NextIInv, SystemAssumption
<1>3. QED
  BY <1>1, <1>2

\* main's state, the serving goroutine's, the environment's and the
\* configuration endpoint's keep their types in the whole process, for
\* every bound on requests in flight and every set of configuration
\* connections: in particular the payable-resources DAO is shut down at
\* most twice although h.Shutdown now also waits for configuration
\* handlers, and no response ever carries a status net/http would not send.
THEOREM SystemTypeCorrect == Spec => []TypeOK
<1>1. Init => SP!IInv
  BY SP!InitIInv, SystemAssumption DEF Init, S!Init, SP!Init
<1>2. IInv /\ SP!IInv => TypeOK
  <2> SUFFICES ASSUME IInv, SP!IInv PROVE TypeOK
    OBVIOUS
  <2>1. SP!TypeOK
    BY SP!TypeSplit, SystemAssumption DEF SP!IInv
  <2>2. QED
    BY <2>1 DEF IInv, TypeOK, S!TypeOK, SP!TypeOK, S!MainPcs, SP!MainPcs,
                S!Errs, SP!Errs
<1>3. QED
  BY InitIInv, NextIInv, ServiceIInv, <1>1, <1>2, PTL DEF Spec

=============================================================================
