------------------------------- MODULE Service -------------------------------
(***************************************************************************)
(* main() (src/main.go): start-up, serving and shutdown of the process.   *)
(*                                                                         *)
(* Start-up is a chain of steps, each of which may fail: config.Get(), the *)
(* Mongo client, LoadPenaltyConfig, LoadPenaltyDetails and                 *)
(* GetAllowedTransactions.  A failure makes main return (exit status 0),  *)
(* except the Mongo client's, which calls os.Exit(1).  Then the routes    *)
(* are registered, SIGINT/SIGTERM are routed to the buffered channel stop, *)
(* and a goroutine runs h.ListenAndServe().  main waits for a signal,     *)
(* shuts the payable-resources DAO down, then calls h.Shutdown with a 5s  *)
(* timeout and returns.                                                    *)
(*                                                                         *)
(* Both goroutines assign the variable err that main declared (lines 104  *)
(* and 123), and the serving goroutine reads it (line 107) to decide      *)
(* whether the server failed.  Requests are abstracted to how many are in *)
(* flight; each one uses the DAO once.  The Kafka consumers (started with *)
(* the feature flag) live in other packages and are left out.             *)
(***************************************************************************)
EXTENDS Naturals

CONSTANTS
  MaxInflight   \* most requests the server has in flight at once

ASSUME ServiceAssumption == MaxInflight \in Nat \ {0}

VARIABLES
  mainPc,     \* where main() is
  gpc,        \* where the serving goroutine is
  srv,        \* the http.Server: "down", "listening" or "closed"
  err,        \* main's variable err
  dao,        \* the payable-resources DAO: "open" or "closed"
  daoShutdowns, \* how many times prDaoService.Shutdown() was called
  inflight,   \* requests accepted and not yet answered
  daoMisuse,  \* history: a request used the DAO after its Shutdown
  notified,   \* signal.Notify(stop, ...) has been called
  sig,        \* the stop channel: "none", "pending" (buffered) or "taken"
  exit        \* "running", or how the process ended

vars == <<mainPc, gpc, srv, err, dao, daoShutdowns, inflight, daoMisuse,
          notified, sig, exit>>

\* main's start-up steps, in order, each followed by an error check.
StartSteps == <<"config", "mongo", "penaltyConfig", "details", "allowed">>

MainPcs ==
  {"config", "mongo", "penaltyConfig", "details", "allowed", "register",
   "notify", "spawn", "wait", "daoShutdown", "httpShutdown", "draining",
   "report", "returned"}

\* Values main's err can hold after start-up.
Errs == {"nil", "closed", "listenErr", "deadline"}

Running == exit = "running"

Init ==
  /\ mainPc = "config"
  /\ gpc = "none"
  /\ srv = "down"
  /\ err = "nil"
  /\ dao = "open"
  /\ daoShutdowns = 0
  /\ inflight = 0
  /\ daoMisuse = FALSE
  /\ notified = FALSE
  /\ sig = "none"
  /\ exit = "running"

-----------------------------------------------------------------------------
(* main()                                                                  *)

\* One start-up step succeeds and main goes on to the next one.
StartOk ==
  /\ Running
  /\ \E k \in 1..5 :
       /\ mainPc = StartSteps[k]
       /\ mainPc' = IF k = 5 THEN "register" ELSE StartSteps[k + 1]
  /\ UNCHANGED <<gpc, srv, err, dao, daoShutdowns, inflight, daoMisuse,
                 notified, sig, exit>>

\* A start-up step fails: log.Error and return, or os.Exit(1) for Mongo.
StartFails ==
  /\ Running
  /\ mainPc \in {"config", "mongo", "penaltyConfig", "details", "allowed"}
  /\ mainPc' = "returned"
  /\ exit' = IF mainPc = "mongo" THEN "failed" ELSE "ok"
  /\ UNCHANGED <<gpc, srv, err, dao, daoShutdowns, inflight, daoMisuse,
                 notified, sig>>

\* handlers.Register, the consumers and the http.Server value.
Register ==
  /\ Running
  /\ mainPc = "register"
  /\ mainPc' = "notify"
  /\ UNCHANGED <<gpc, srv, err, dao, daoShutdowns, inflight, daoMisuse,
                 notified, sig, exit>>

\* stop := make(chan os.Signal, 1); signal.Notify(stop, ...).
Notify ==
  /\ Running
  /\ mainPc = "notify"
  /\ notified' = TRUE
  /\ mainPc' = "spawn"
  /\ UNCHANGED <<gpc, srv, err, dao, daoShutdowns, inflight, daoMisuse,
                 sig, exit>>

\* go func() { ... h.ListenAndServe() ... }()
Spawn ==
  /\ Running
  /\ mainPc = "spawn"
  /\ gpc' = "listen"
  /\ mainPc' = "wait"
  /\ UNCHANGED <<srv, err, dao, daoShutdowns, inflight, daoMisuse,
                 notified, sig, exit>>

\* <-stop
Receive ==
  /\ Running
  /\ mainPc = "wait"
  /\ sig = "pending"
  /\ sig' = "taken"
  /\ mainPc' = "daoShutdown"
  /\ UNCHANGED <<gpc, srv, err, dao, daoShutdowns, inflight, daoMisuse,
                 notified, exit>>

\* prDaoService.Shutdown(), before the server has stopped.
MainDaoShutdown ==
  /\ Running
  /\ mainPc = "daoShutdown"
  /\ dao' = "closed"
  /\ daoShutdowns' = daoShutdowns + 1
  /\ mainPc' = "httpShutdown"
  /\ UNCHANGED <<gpc, srv, err, inflight, daoMisuse, notified, sig, exit>>

\* h.Shutdown(shutdownCtx) closes the listeners at once.
HttpShutdown ==
  /\ Running
  /\ mainPc = "httpShutdown"
  /\ srv' = "closed"
  /\ mainPc' = "draining"
  /\ UNCHANGED <<gpc, err, dao, daoShutdowns, inflight, daoMisuse,
                 notified, sig, exit>>

\* Mutant of ShutdownReturns: h.Shutdown given a context without a
\* deadline, so it returns only once every request has been drained.
ShutdownReturnsNoDeadline ==
  /\ Running
  /\ mainPc = "draining"
  /\ inflight = 0 /\ err' = "nil"
  /\ mainPc' = "report"
  /\ UNCHANGED <<gpc, srv, dao, daoShutdowns, inflight, daoMisuse,
                 notified, sig, exit>>

\* h.Shutdown returns, into err: nil once no request is in flight, or the
\* context's deadline error when the 5s run out with requests in flight.
ShutdownReturns ==
  /\ Running
  /\ mainPc = "draining"
  /\ \/ inflight = 0 /\ err' = "nil"
     \/ inflight > 0 /\ err' = "deadline"
  /\ mainPc' = "report"
  /\ UNCHANGED <<gpc, srv, dao, daoShutdowns, inflight, daoMisuse,
                 notified, sig, exit>>

\* The err check and log of lines 124-128; main returns and the process
\* ends with status 0, whatever the other goroutines are doing.
MainReturns ==
  /\ Running
  /\ mainPc = "report"
  /\ mainPc' = "returned"
  /\ exit' = "ok"
  /\ UNCHANGED <<gpc, srv, err, dao, daoShutdowns, inflight, daoMisuse,
                 notified, sig>>

-----------------------------------------------------------------------------
(* The serving goroutine.                                                  *)

\* h.ListenAndServe() either starts listening, fails to (the address is in
\* use), or, called after Shutdown, returns ErrServerClosed at once.
Listen ==
  /\ Running
  /\ gpc = "listen"
  /\ \/ srv = "down" /\ srv' = "listening" /\ gpc' = "serving"
                     /\ UNCHANGED err
     \/ srv = "down" /\ err' = "listenErr" /\ gpc' = "check"
                     /\ UNCHANGED srv
     \/ srv = "closed" /\ err' = "closed" /\ gpc' = "check"
                       /\ UNCHANGED srv
  /\ UNCHANGED <<mainPc, dao, daoShutdowns, inflight, daoMisuse,
                 notified, sig, exit>>

\* Shutdown closed the listener: ListenAndServe returns ErrServerClosed.
ServeReturns ==
  /\ Running
  /\ gpc = "serving"
  /\ srv = "closed"
  /\ err' = "closed"
  /\ gpc' = "check"
  /\ UNCHANGED <<mainPc, srv, dao, daoShutdowns, inflight, daoMisuse,
                 notified, sig, exit>>

\* `if err != nil && !errors.Is(http.ErrServerClosed, err)`, reading the
\* err main may have overwritten since: shut the DAO down and os.Exit(1).
GoroutineCheck ==
  /\ Running
  /\ gpc = "check"
  /\ \/ err \in {"nil", "closed"} /\ gpc' = "end"
        /\ UNCHANGED <<dao, daoShutdowns, exit>>
     \/ err \notin {"nil", "closed"} /\ gpc' = "end"
        /\ dao' = "closed" /\ daoShutdowns' = daoShutdowns + 1
        /\ exit' = "failed"
  /\ UNCHANGED <<mainPc, srv, err, inflight, daoMisuse, notified, sig>>

-----------------------------------------------------------------------------
(* The environment: requests and signals.                                  *)

\* The listening server accepts a request.
Arrive ==
  /\ Running
  /\ srv = "listening"
  /\ inflight < MaxInflight
  /\ inflight' = inflight + 1
  /\ UNCHANGED <<mainPc, gpc, srv, err, dao, daoShutdowns, daoMisuse,
                 notified, sig, exit>>

\* Mutant of Handle: an answer counted without a request in flight.
HandleUnguarded ==
  /\ Running
  /\ inflight' = inflight - 1
  /\ daoMisuse' = (daoMisuse \/ dao = "closed")
  /\ UNCHANGED <<mainPc, gpc, srv, err, dao, daoShutdowns, notified, sig, exit>>

\* A request handler uses the DAO and answers.
Handle ==
  /\ Running
  /\ inflight > 0
  /\ inflight' = inflight - 1
  /\ daoMisuse' = (daoMisuse \/ dao = "closed")
  /\ UNCHANGED <<mainPc, gpc, srv, err, dao, daoShutdowns, notified, sig, exit>>

\* Mutant of Signal: an unbuffered stop channel; signal.Notify does not
\* block, so a signal sent while main is not at <-stop is dropped.
SignalUnbuffered ==
  /\ Running
  /\ sig = "none"
  /\ \/ ~notified /\ exit' = "killed" /\ UNCHANGED sig
     \/ notified /\ sig' = (IF mainPc = "wait" THEN "pending" ELSE "lost")
                 /\ UNCHANGED exit
  /\ UNCHANGED <<mainPc, gpc, srv, err, dao, daoShutdowns, inflight,
                 daoMisuse, notified>>

\* SIGTERM: before signal.Notify it ends the process; after, it is put in
\* the stop channel, whose buffer of one keeps it until main receives it.
Signal ==
  /\ Running
  /\ sig = "none"
  /\ \/ ~notified /\ exit' = "killed" /\ UNCHANGED sig
     \/ notified /\ sig' = "pending" /\ UNCHANGED exit
  /\ UNCHANGED <<mainPc, gpc, srv, err, dao, daoShutdowns, inflight,
                 daoMisuse, notified>>

Next ==
  \/ StartOk \/ StartFails \/ Register \/ Notify \/ Spawn \/ Receive
  \/ MainDaoShutdown \/ HttpShutdown \/ ShutdownReturns \/ MainReturns
  \/ Listen \/ ServeReturns \/ GoroutineCheck
  \/ Arrive \/ Handle \/ Signal

(***************************************************************************)
(* Go's scheduler runs every runnable goroutine eventually: weak         *)
(* fairness on the steps of main and of the serving goroutine.  A request *)
(* handler waits on the DAO's Mongo calls, which need not answer, so      *)
(* Handle has none: only h.Shutdown's 5 s deadline ends the drain then.   *)
(* Requests and signals come from outside and need not happen.            *)
(***************************************************************************)
Fairness ==
  /\ WF_vars(StartOk \/ StartFails \/ Register \/ Notify \/ Spawn \/ Receive)
  /\ WF_vars(MainDaoShutdown \/ HttpShutdown \/ ShutdownReturns \/ MainReturns)
  /\ WF_vars(Listen \/ ServeReturns \/ GoroutineCheck)

Spec == Init /\ [][Next]_vars /\ Fairness

-----------------------------------------------------------------------------
(* Properties.                                                             *)

TypeOK ==
  /\ mainPc \in MainPcs
  /\ gpc \in {"none", "listen", "serving", "check", "end"}
  /\ srv \in {"down", "listening", "closed"}
  /\ err \in Errs
  /\ dao \in {"open", "closed"}
  /\ daoShutdowns \in 0..2
  /\ inflight \in 0..MaxInflight
  /\ daoMisuse \in BOOLEAN
  /\ notified \in BOOLEAN
  /\ sig \in {"none", "pending", "taken", "lost"}
  /\ exit \in {"running", "ok", "failed", "killed"}

\* A SIGINT or SIGTERM always ends the process: main's <-stop receives a
\* signal sent at any time after signal.Notify, however far main still is
\* from the receive, and the shutdown that follows returns, by its 5 s
\* deadline if a request handler never gets its answer from the DAO.
SignalEndsProcess ==
  sig # "none" ~> exit # "running"

\* The comment at line 114: the server is closed gracefully, so a request
\* accepted before the signal is answered with the service still usable.
\* Every request finds the payable-resources DAO open.
InFlightSeesOpenDao ==
  ~daoMisuse

\* The serving goroutine exits with status 1 only when the server failed
\* (`!errors.Is(http.ErrServerClosed, err)`): a shutdown asked for by a
\* signal never ends in os.Exit(1) nor shuts the DAO down twice.
CleanExitAfterSignal ==
  sig = "taken" => exit # "failed" /\ daoShutdowns <= 1

\* Line 47 ends a failed start with os.Exit(1), so that whatever runs the
\* service sees the start fail; the other start-up failures (lines 33-35,
\* 53-56, 59-62, 65-68) are just as fatal.  The process ends with status 0
\* only after a shutdown asked for by a signal.
ExitZeroOnlyOnRequest ==
  exit = "ok" => sig = "taken"

=============================================================================
