------------------------------- MODULE System -------------------------------
(***************************************************************************)
(* The process as a whole: main() (module Service) composed with the      *)
(* penalty configuration and its endpoint (module ConfigEndpoint).        *)
(*                                                                         *)
(* The two interact in three places of src/main.go:                       *)
(*   - main's start-up step `err = config.LoadPenaltyConfig()` is the two *)
(*     unmarshal steps of ConfigEndpoint, and its error check (lines      *)
(*     52-56) decides whether the server is ever started;                 *)
(*   - HandleConfiguration runs only for requests the listening server    *)
(*     accepted, and only while the process runs;                         *)
(*   - h.Shutdown waits for every handler, the configuration ones         *)
(*     included, before it returns nil.                                   *)
(* Service's `inflight` stays the count of the other (DAO-using)          *)
(* requests; Reqs are the connections that ask for the configuration.     *)
(***************************************************************************)
EXTENDS Naturals

CONSTANTS MaxInflight, Reqs

\* Service's assumption on the bound of requests in flight.
ASSUME SystemAssumption == MaxInflight \in Nat \ {0}

VARIABLES
  mainPc, gpc, srv, err, dao, daoShutdowns, inflight, daoMisuse, notified,
  sig, exit,
  loadPc, penaltyConfig, hpc, ctype, data, status, body, writeFailed

S == INSTANCE Service
E == INSTANCE ConfigEndpoint

mainVars == <<mainPc, gpc, srv, err, dao, daoShutdowns, inflight, daoMisuse,
             notified, sig, exit>>
endpointVars == <<loadPc, penaltyConfig, hpc, ctype, data, status, body,
                 writeFailed>>
vars == <<mainVars, endpointVars>>

Init == S!Init /\ E!Init

\* main's own steps other than LoadPenaltyConfig and h.Shutdown's return;
\* none of them touches the configuration.
MainStep ==
  /\ mainPc # "penaltyConfig"
  /\ \/ S!StartOk \/ S!StartFails \/ S!Register \/ S!Notify \/ S!Spawn
     \/ S!Receive \/ S!MainDaoShutdown \/ S!HttpShutdown \/ S!MainReturns
  /\ UNCHANGED endpointVars

\* The serving goroutine and the DAO-using requests, as in Service.
ServerStep ==
  /\ \/ S!Listen \/ S!ServeReturns \/ S!GoroutineCheck \/ S!Arrive \/ S!Handle
  /\ UNCHANGED endpointVars

\* Mutant of LoadPenaltyConfig: main goes on after the error of
\* LoadPenaltyConfig (the `if err != nil { return }` dropped).
LoadPenaltyConfigUnchecked ==
  /\ S!Running
  /\ mainPc = "penaltyConfig"
  /\ E!UnmarshalTypes \/ E!UnmarshalPayables
  /\ IF loadPc' \in {"loaded", "failed"}
       THEN mainPc' = "details" ELSE UNCHANGED mainPc
  /\ UNCHANGED <<gpc, srv, err, dao, daoShutdowns, inflight, daoMisuse,
                 notified, sig, exit>>

\* `err = config.LoadPenaltyConfig(); if err != nil { ... return }`: one
\* unmarshal step of LoadPenaltyConfig; once it has returned, main either
\* returns (exit status 0) or goes on to LoadPenaltyDetails.
LoadPenaltyConfig ==
  /\ S!Running
  /\ mainPc = "penaltyConfig"
  /\ E!UnmarshalTypes \/ E!UnmarshalPayables
  /\ \/ loadPc' = "failed" /\ mainPc' = "returned" /\ exit' = "ok"
     \/ loadPc' = "loaded" /\ mainPc' = "details" /\ UNCHANGED exit
     \/ loadPc' = "payables" /\ UNCHANGED <<mainPc, exit>>
  /\ UNCHANGED <<gpc, srv, err, dao, daoShutdowns, inflight, daoMisuse,
                 notified, sig>>

\* No handler is running: the DAO-using requests are answered and every
\* configuration handler has returned (its connection is idle or done).
Drained ==
  /\ inflight = 0
  /\ \A r \in Reqs : hpc[r] \in {"idle", "done"}

\* h.Shutdown returns into err: nil once every handler has returned, the
\* deadline error when the 5s run out with one still running.
ShutdownReturns ==
  /\ S!Running
  /\ mainPc = "draining"
  /\ \/ Drained /\ err' = "nil"
     \/ ~Drained /\ err' = "deadline"
  /\ mainPc' = "report"
  /\ UNCHANGED <<gpc, srv, dao, daoShutdowns, inflight, daoMisuse,
                 notified, sig, exit>>
  /\ UNCHANGED endpointVars

\* The listening server accepts a configuration request on connection r.
ConfigRequest(r) ==
  /\ S!Running
  /\ srv = "listening"
  /\ E!Accept(r)
  /\ UNCHANGED mainVars

\* A step of the handler goroutine of r; it runs only while the process
\* does.
ConfigHandle(r) ==
  /\ S!Running
  /\ E!Switch(r) \/ E!Encode(r) \/ E!Complete(r)
  /\ UNCHANGED mainVars

Next ==
  \/ MainStep \/ LoadPenaltyConfig \/ ShutdownReturns \/ ServerStep
  \/ S!Signal /\ UNCHANGED endpointVars
  \/ \E r \in Reqs : ConfigRequest(r) \/ ConfigHandle(r)

(***************************************************************************)
(* Fairness as in Service, with the configuration steps of main and the   *)
(* configuration handlers added: the scheduler runs every runnable        *)
(* goroutine.  A DAO request need not get its answer (Handle), a client   *)
(* need not read its answer (Complete) nor send a request.                *)
(***************************************************************************)
Fairness ==
  /\ WF_vars(MainStep \/ LoadPenaltyConfig \/ ShutdownReturns)
  /\ WF_vars((S!Listen \/ S!ServeReturns \/ S!GoroutineCheck)
               /\ UNCHANGED endpointVars)
  /\ \A r \in Reqs : WF_vars(S!Running /\ (E!Switch(r) \/ E!Encode(r))
                              /\ UNCHANGED mainVars)

Spec == Init /\ [][Next]_vars /\ Fairness

-----------------------------------------------------------------------------
(* Properties.                                                             *)

TypeOK == S!TypeOK /\ E!TypeOK

\* In the whole process, a configuration request answered 200 with a body
\* got the loaded list it asked for: main's check of LoadPenaltyConfig's
\* error, before the server is started, is what keeps the endpoint from
\* serving a list that was never loaded.
ServedLoadedConfig == E!ServedLoadedConfig

=============================================================================
