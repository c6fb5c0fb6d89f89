----------------------------- MODULE ServiceProofs -----------------------------
(***************************************************************************)
(* Proof that main()'s state keeps its type for every bound on requests   *)
(* in flight; in particular that prDaoService.Shutdown() is called at     *)
(* most twice, once by main and once by the serving goroutine, which is  *)
(* started once.                                                           *)
(***************************************************************************)
EXTENDS Service, TLAPS

\* main has called prDaoService.Shutdown(): it is past that step, having
\* received the signal (a failed start returns without it).
MainShutDao ==
  \/ mainPc \in {"httpShutdown", "draining", "report"}
  \/ mainPc = "returned" /\ sig = "taken"

\* Every DAO shutdown is main's or the serving goroutine's, one each: main
\* reaches the shutdown only through <-stop, and the goroutine, spawned
\* once, runs its check once.
ShutdownAccount ==
  /\ daoShutdowns \in Nat
  /\ daoShutdowns <= (IF MainShutDao THEN 1 ELSE 0) + (IF gpc = "end" THEN 1 ELSE 0)
  /\ mainPc \in {"daoShutdown", "httpShutdown", "draining", "report"} => sig = "taken"
  /\ sig = "taken" => mainPc \in {"daoShutdown", "httpShutdown", "draining",
                                  "report", "returned"}
  /\ mainPc \in {"config", "mongo", "penaltyConfig", "details", "allowed",
                 "register", "notify", "spawn"} => gpc = "none"

\* TypeOK's Boolean fields (left to Zenon) and the others (to SMT).
BoolTypes == daoMisuse \in BOOLEAN /\ notified \in BOOLEAN
OtherTypes ==
  /\ mainPc \in MainPcs
  /\ gpc \in {"none", "listen", "serving", "check", "end"}
  /\ srv \in {"down", "listening", "closed"}
  /\ err \in Errs
  /\ dao \in {"open", "closed"}
  /\ daoShutdowns \in 0..2
  /\ inflight \in 0..MaxInflight
  /\ sig \in {"none", "pending", "taken", "lost"}
  /\ exit \in {"running", "ok", "failed", "killed"}

LEMMA TypeSplit == TypeOK <=> BoolTypes /\ OtherTypes
BY Zenon DEF TypeOK, BoolTypes, OtherTypes

\* The strengthening of TypeOK: ShutdownAccount bounds daoShutdowns.
IInv == BoolTypes /\ OtherTypes /\ ShutdownAccount

LEMMA InitIInv == Init => IInv
<1> SUFFICES ASSUME Init PROVE IInv
  OBVIOUS
<1>1. BoolTypes
  BY Zenon DEF Init, BoolTypes
<1>2. OtherTypes
  BY ServiceAssumption DEF Init, OtherTypes, MainPcs, Errs
<1>3. ~MainShutDao /\ gpc # "end"
  BY DEF Init, MainShutDao
<1>4. ShutdownAccount
  BY <1>3 DEF Init, ShutdownAccount
<1>5. QED
  BY <1>1, <1>2, <1>4 DEF IInv

\* Every step sets the two flags to Booleans or leaves them alone.
LEMMA NextBoolTypes == BoolTypes /\ [Next]_vars => BoolTypes'
BY Zenon DEF BoolTypes, Next, vars, StartOk, StartFails, Register, Notify,
             Spawn, Receive, MainDaoShutdown, HttpShutdown, ShutdownReturns,
             MainReturns, Listen, ServeReturns, GoroutineCheck, Arrive,
             Handle, Signal

LEMMA NextIInv == IInv /\ [Next]_vars => IInv'
<1> SUFFICES ASSUME IInv, [Next]_vars PROVE IInv'
  OBVIOUS
<1>1. BoolTypes'
  BY NextBoolTypes DEF IInv
<1>2. OtherTypes' /\ ShutdownAccount'
  <2> USE ServiceAssumption DEF IInv, OtherTypes, ShutdownAccount, MainShutDao,
                                 MainPcs, Errs
  <2>1. CASE StartOk
    BY <2>1 DEF StartOk, StartSteps
  <2>2. CASE StartFails
    BY <2>2 DEF StartFails
  <2>3. CASE Register \/ Notify \/ Spawn
    BY <2>3 DEF Register, Notify, Spawn
  <2>4. CASE Receive
    BY <2>4 DEF Receive
  <2>5. CASE MainDaoShutdown
    BY <2>5 DEF MainDaoShutdown
  <2>6. CASE HttpShutdown \/ ShutdownReturns \/ MainReturns
    BY <2>6 DEF HttpShutdown, ShutdownReturns, MainReturns
  <2>7. CASE Listen \/ ServeReturns
    BY <2>7 DEF Listen, ServeReturns
  <2>8. CASE GoroutineCheck
    BY <2>8 DEF GoroutineCheck
  <2>9. CASE Arrive \/ Handle
    BY <2>9 DEF Arrive, Handle
  <2>10. CASE Signal
    BY <2>10 DEF Signal
  <2>11. CASE UNCHANGED vars
    BY <2>11 DEF vars
  <2>12. QED
    BY <2>1, <2>2, <2>3, <2>4, <2>5, <2>6, <2>7, <2>8, <2>9, <2>10, <2>11
    DEF Next
<1>3. QED
  BY <1>1, <1>2 DEF IInv

\* main's state, the serving goroutine's and the environment's keep their
\* types for every bound on requests in flight; in particular the DAO is
\* shut down at most twice, once by main after the signal and once by the
\* serving goroutine after a failed ListenAndServe.
THEOREM TypeCorrect == Spec => []TypeOK
<1>1. IInv => TypeOK
  BY TypeSplit DEF IInv
<1>2. QED
  BY InitIInv, NextIInv, <1>1, PTL DEF Spec

=============================================================================
