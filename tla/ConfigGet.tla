----------------------------- MODULE ConfigGet -----------------------------
(***************************************************************************)
(* config.Get() (src/config/config.go): the process-wide configuration    *)
(* singleton.  Every goroutine that needs the service configuration calls *)
(* Get(); the first call allocates a Config, publishes the pointer in the *)
(* package variable cfg and fills it from the environment with gofigure;  *)
(* later calls return the published pointer.  A sync.Mutex serialises    *)
(* the calls and a deferred Unlock releases it on every return path.      *)
(*                                                                         *)
(* The Config itself is abstracted to how far gofigure filled it:          *)
(* "empty" (just allocated), "partial" (gofigure stopped at a field it     *)
(* could not parse) or "full".  A goroutine may call Get any number of    *)
(* times; each call is Call, Lock, then either ReturnCached or CheckNil, *)
(* Allocate and Gofigure.                                                  *)
(***************************************************************************)
EXTENDS Naturals, FiniteSets

CONSTANTS
  Procs,   \* goroutines that call config.Get()
  Ptrs,    \* addresses a &Config{} allocation may return
  Nil      \* the nil pointer, and the unlocked mutex

ASSUME ConfigGetAssumption ==
  /\ IsFiniteSet(Procs) /\ Procs # {}
  /\ IsFiniteSet(Ptrs) /\ Ptrs # {}
  /\ Nil \notin Procs \cup Ptrs

VARIABLES
  mtx,       \* the goroutine holding config.mtx, or Nil
  cfg,       \* the package variable cfg: Nil or a pointer
  contents,  \* what each pointer points to
  pc,        \* where each goroutine is in Get()
  ret,       \* what each goroutine's last call of Get() returned
  handed     \* history: every pointer some call returned with a nil error

vars == <<mtx, cfg, contents, pc, ret, handed>>

Fill == {"unalloc", "empty", "partial", "full"}

\* The (value, error) pair Get() returns; NoRet before the first return.
NoRet == [ptr |-> Nil, err |-> FALSE]
Ret == [ptr : Ptrs \cup {Nil}, err : BOOLEAN]

Init ==
  /\ mtx = Nil
  /\ cfg = Nil
  /\ contents = [q \in Ptrs |-> "unalloc"]
  /\ pc = [p \in Procs |-> "idle"]
  /\ ret = [p \in Procs |-> NoRet]
  /\ handed = {}

\* A goroutine enters Get().
Call(p) ==
  /\ pc[p] = "idle"
  /\ pc' = [pc EXCEPT ![p] = "lock"]
  /\ UNCHANGED <<mtx, cfg, contents, ret, handed>>

\* Mutant of Lock: Get() without the mutex.
LockNoMutex(p) ==
  /\ pc[p] = "lock"
  /\ pc' = [pc EXCEPT ![p] = "check"]
  /\ UNCHANGED <<mtx, cfg, contents, ret, handed>>

\* mtx.Lock(): blocks while another goroutine holds the mutex.
Lock(p) ==
  /\ pc[p] = "lock"
  /\ mtx = Nil
  /\ mtx' = p
  /\ pc' = [pc EXCEPT ![p] = "check"]
  /\ UNCHANGED <<cfg, contents, ret, handed>>

\* Mutant of ReturnCached: `return cfg, nil` without the nil check.
ReturnCachedNoCheck(p) ==
  /\ pc[p] = "check"
  /\ ret' = [ret EXCEPT ![p] = [ptr |-> cfg, err |-> FALSE]]
  /\ handed' = handed \cup {cfg}
  /\ mtx' = Nil
  /\ pc' = [pc EXCEPT ![p] = "idle"]
  /\ UNCHANGED <<cfg, contents>>

\* `if cfg != nil { return cfg, nil }`, the deferred Unlock included.
ReturnCached(p) ==
  /\ pc[p] = "check"
  /\ cfg # Nil
  /\ ret' = [ret EXCEPT ![p] = [ptr |-> cfg, err |-> FALSE]]
  /\ handed' = handed \cup {cfg}
  /\ mtx' = Nil
  /\ pc' = [pc EXCEPT ![p] = "idle"]
  /\ UNCHANGED <<cfg, contents>>

\* `if cfg != nil` found cfg nil: go on to allocate.
CheckNil(p) ==
  /\ pc[p] = "check"
  /\ cfg = Nil
  /\ pc' = [pc EXCEPT ![p] = "alloc"]
  /\ UNCHANGED <<mtx, cfg, contents, ret, handed>>

\* `cfg = &Config{}`: the fresh, still empty Config is published at once.
Allocate(p) ==
  /\ pc[p] = "alloc"
  /\ \E q \in Ptrs :
       /\ contents[q] = "unalloc"
       /\ cfg' = q
       /\ contents' = [contents EXCEPT ![q] = "empty"]
  /\ pc' = [pc EXCEPT ![p] = "figure"]
  /\ UNCHANGED <<mtx, ret, handed>>

\* Mutant of Gofigure: an explicit Unlock on the success path only, in
\* place of the deferred one.
GofigureUnlockOnSuccess(p) ==
  /\ pc[p] = "figure"
  /\ \/ /\ contents' = [contents EXCEPT ![cfg] = "full"]
        /\ ret' = [ret EXCEPT ![p] = [ptr |-> cfg, err |-> FALSE]]
        /\ handed' = handed \cup {cfg}
        /\ mtx' = Nil
     \/ /\ \E f \in {"empty", "partial"} :
             contents' = [contents EXCEPT ![cfg] = f]
        /\ ret' = [ret EXCEPT ![p] = [ptr |-> Nil, err |-> TRUE]]
        /\ UNCHANGED <<handed, mtx>>
  /\ pc' = [pc EXCEPT ![p] = "idle"]
  /\ UNCHANGED cfg

\* `err := gofigure.Gofigure(cfg)` on the pointer in cfg, then either
\* `return nil, err` or `return cfg, nil`, the deferred Unlock included.
\* On an error gofigure may already have set the fields before the bad one.
Gofigure(p) ==
  /\ pc[p] = "figure"
  /\ \/ /\ contents' = [contents EXCEPT ![cfg] = "full"]
        /\ ret' = [ret EXCEPT ![p] = [ptr |-> cfg, err |-> FALSE]]
        /\ handed' = handed \cup {cfg}
     \/ /\ \E f \in {"empty", "partial"} :
             contents' = [contents EXCEPT ![cfg] = f]
        /\ ret' = [ret EXCEPT ![p] = [ptr |-> Nil, err |-> TRUE]]
        /\ UNCHANGED handed
  /\ mtx' = Nil
  /\ pc' = [pc EXCEPT ![p] = "idle"]
  /\ UNCHANGED cfg

Next ==
  \E p \in Procs :
    \/ Call(p)
    \/ Lock(p)
    \/ ReturnCached(p)
    \/ CheckNil(p)
    \/ Allocate(p)
    \/ Gofigure(p)

(***************************************************************************)
(* Go's sync.Mutex hands the lock to a waiter that has waited over 1ms    *)
(* (starvation mode), so a goroutine blocked in Lock is not passed over   *)
(* forever: strong fairness.  A goroutine that holds the mutex is never   *)
(* blocked: weak fairness on its own steps.  Call has no fairness: a      *)
(* goroutine need not call Get again.                                      *)
(***************************************************************************)
Fairness ==
  \A p \in Procs :
    /\ SF_vars(Lock(p))
    /\ WF_vars(ReturnCached(p))
    /\ WF_vars(CheckNil(p))
    /\ WF_vars(Allocate(p))
    /\ WF_vars(Gofigure(p))

Spec == Init /\ [][Next]_vars /\ Fairness

-----------------------------------------------------------------------------
(* Properties.                                                             *)

TypeOK ==
  /\ mtx \in Procs \cup {Nil}
  /\ cfg \in Ptrs \cup {Nil}
  /\ contents \in [Ptrs -> Fill]
  /\ pc \in [Procs -> {"idle", "lock", "check", "alloc", "figure"}]
  /\ ret \in [Procs -> Ret]
  /\ handed \subseteq Ptrs

\* Get() is a singleton: every call that returned without an error, of any
\* goroutine at any time, returned the same *Config.  This is what the
\* mutex around the nil-check and the allocation in Get() is for, and what
\* TestUnitGet in config_test.go asserts of ten concurrent callers.
SingleInstance ==
  \A q1, q2 \in handed : q1 = q2

\* Get()'s doc comment: it "returns a pointer to a Config instance populated
\* with values from environment or command-line flags".  Every pointer a
\* call returned with a nil error points to a fully populated Config.
ReturnedPopulated ==
  \A q \in handed : contents[q] = "full"

\* `cfg = &Config{}` runs only under config.mtx and only after `if cfg !=
\* nil` found it nil, so once a Config is published in cfg no later step
\* of any goroutine replaces or clears it: a caller that already holds the
\* pointer and one that calls Get() later always share one Config.
CfgNeverReplaced == [][cfg # Nil => cfg' = cfg]_vars

\* Every call of Get() returns: no goroutine waits for config.mtx forever,
\* because every return path of Get() releases it (the deferred Unlock).
GetReturns ==
  \A p \in Procs : pc[p] = "lock" ~> pc[p] = "idle"

=============================================================================
