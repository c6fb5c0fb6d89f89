--------------------------- MODULE ConfigGetProofs ---------------------------
(***************************************************************************)
(* Proofs about config.Get(), for any number of goroutines and addresses. *)
(*                                                                         *)
(* SingleInstance is not inductive by itself: a step of Allocate could    *)
(* publish a second Config if a goroutine reached it while another one    *)
(* had already returned a pointer.  The strengthening says that config.   *)
(* mtx is held by exactly the goroutine inside Get's critical section,    *)
(* that the goroutine about to allocate saw cfg nil (so nothing has been  *)
(* handed out), and that every pointer handed out is the one in cfg.      *)
(***************************************************************************)
EXTENDS ConfigGet, TLAPS

Inside == {"check", "alloc", "figure"}

\* config.mtx is held exactly by the goroutine inside the critical section.
MutexHeld ==
  /\ \A p \in Procs : pc[p] \in Inside => mtx = p
  /\ mtx # Nil => pc[mtx] \in Inside

\* What the goroutine holding the mutex has seen of cfg.
CfgAsSeen ==
  \A p \in Procs :
    /\ pc[p] = "alloc" => cfg = Nil
    /\ pc[p] = "figure" => cfg # Nil

\* Every pointer handed out is the published one.
HandedIsPublished == handed \subseteq {cfg}

IInv == TypeOK /\ MutexHeld /\ CfgAsSeen /\ HandedIsPublished

-----------------------------------------------------------------------------

\* Each goroutine's step is one of the five actions.
LEMMA StepCases ==
  ASSUME TypeOK, [Next]_vars
  PROVE  \/ \E p \in Procs : Call(p) \/ Lock(p) \/ ReturnCached(p)
                              \/ CheckNil(p) \/ Allocate(p) \/ Gofigure(p)
         \/ UNCHANGED vars
  BY DEF Next

-----------------------------------------------------------------------------

LEMMA InitIInv == Init => IInv
  <1> SUFFICES ASSUME Init PROVE IInv
    OBVIOUS
  <1>1. TypeOK
    BY ConfigGetAssumption DEF Init, TypeOK, NoRet, Ret, Fill
  <1>2. MutexHeld /\ CfgAsSeen /\ HandedIsPublished
    BY ConfigGetAssumption DEF Init, MutexHeld, CfgAsSeen, HandedIsPublished, Inside
  <1>3. QED
    BY <1>1, <1>2 DEF IInv

LEMMA NextIInv == IInv /\ [Next]_vars => IInv'
  <1> SUFFICES ASSUME IInv, [Next]_vars PROVE IInv'
    OBVIOUS
  <1> USE ConfigGetAssumption DEF IInv, TypeOK, MutexHeld, CfgAsSeen,
                                   HandedIsPublished, Inside
  <1>1. ASSUME NEW p \in Procs, Call(p) PROVE IInv'
    BY <1>1 DEF Call
  <1>2. ASSUME NEW p \in Procs, Lock(p) PROVE IInv'
    \* mtx was free, so nobody else is inside the critical section.
    <2>1. \A q \in Procs : pc[q] \notin Inside
      BY <1>2 DEF Lock
    <2>2. QED
      BY <1>2, <2>1 DEF Lock
  <1>3. ASSUME NEW p \in Procs, ReturnCached(p) PROVE IInv'
    <2>1. mtx = p /\ \A q \in Procs \ {p} : pc[q] \notin Inside
      BY <1>3 DEF ReturnCached
    <2>2. TypeOK'
      BY <1>3 DEF ReturnCached, Ret
    <2>3. QED
      BY <1>3, <2>1, <2>2 DEF ReturnCached
  <1>4. ASSUME NEW p \in Procs, CheckNil(p) PROVE IInv'
    BY <1>4 DEF CheckNil
  <1>5. ASSUME NEW p \in Procs, Allocate(p) PROVE IInv'
    <2>1. PICK q \in Ptrs : /\ contents[q] = "unalloc"
                             /\ cfg' = q
                             /\ contents' = [contents EXCEPT ![q] = "empty"]
      BY <1>5 DEF Allocate
    <2>2. cfg = Nil /\ mtx = p /\ \A r \in Procs \ {p} : pc[r] \notin Inside
      BY <1>5 DEF Allocate
    <2>3. handed = {}
      BY <2>2
    <2>4. TypeOK'
      BY <1>5, <2>1 DEF Allocate, Fill
    <2>5. QED
      BY <1>5, <2>1, <2>2, <2>3, <2>4 DEF Allocate
  <1>6. ASSUME NEW p \in Procs, Gofigure(p) PROVE IInv'
    <2>1. cfg \in Ptrs /\ mtx = p /\ \A r \in Procs \ {p} : pc[r] \notin Inside
      BY <1>6 DEF Gofigure
    <2>2. /\ mtx' = Nil /\ cfg' = cfg
          /\ pc' = [pc EXCEPT ![p] = "idle"]
      BY <1>6 DEF Gofigure
    <2>3. MutexHeld' /\ CfgAsSeen'
      BY <2>1, <2>2
    <2>4. CASE /\ contents' = [contents EXCEPT ![cfg] = "full"]
               /\ ret' = [ret EXCEPT ![p] = [ptr |-> cfg, err |-> FALSE]]
               /\ handed' = handed \cup {cfg}
      <3>1. TypeOK'
        BY <2>1, <2>2, <2>4 DEF Fill, Ret
      <3>2. HandedIsPublished'
        BY <2>2, <2>4
      <3>3. QED
        BY <2>3, <3>1, <3>2
    <2>5. CASE /\ \E f \in {"empty", "partial"} :
                    contents' = [contents EXCEPT ![cfg] = f]
               /\ ret' = [ret EXCEPT ![p] = [ptr |-> Nil, err |-> TRUE]]
               /\ UNCHANGED handed
      <3>1. PICK f \in {"empty", "partial"} : contents' = [contents EXCEPT ![cfg] = f]
        BY <2>5
      <3>2. TypeOK'
        BY <2>1, <2>2, <2>5, <3>1 DEF Fill, Ret
      <3>3. HandedIsPublished'
        BY <2>2, <2>5
      <3>4. QED
        BY <2>3, <3>2, <3>3
    <2>6. QED
      BY <1>6, <2>4, <2>5 DEF Gofigure
  <1>7. CASE UNCHANGED vars
    BY <1>7 DEF vars
  <1>8. QED
    BY <1>1, <1>2, <1>3, <1>4, <1>5, <1>6, <1>7, StepCases

\* The variables of Get() keep their types in every reachable state.  Not
\* inductive alone: Gofigure adds cfg to handed, which is a pointer only
\* because the goroutine in Gofigure has allocated it (CfgAsSeen).
THEOREM TypeCorrect == Spec => []TypeOK
  <1>1. IInv => TypeOK
    BY DEF IInv
  <1>2. QED
    BY <1>1, InitIInv, NextIInv, PTL DEF Spec

\* Get() hands every caller that gets no error the same *Config, whatever
\* the number of goroutines calling it: the mutex makes the nil check and
\* the allocation one critical section.
THEOREM SingleInstanceHolds == Spec => []SingleInstance
  <1>1. IInv => SingleInstance
    BY DEF IInv, HandedIsPublished, SingleInstance
  <1>2. QED
    BY <1>1, InitIInv, NextIInv, PTL DEF Spec

\* Once published, the pointer in cfg never changes, for any number of
\* goroutines: the only assignment to cfg is Allocate's, which the
\* goroutine holding config.mtx reaches only having seen cfg nil.
THEOREM CfgNeverReplacedHolds == Spec => CfgNeverReplaced
  <1>1. IInv /\ [Next]_vars => [cfg # Nil => cfg' = cfg]_vars
    <2> SUFFICES ASSUME IInv, [Next]_vars, cfg # Nil PROVE cfg' = cfg
      BY DEF vars
    <2>1. ASSUME NEW p \in Procs, Allocate(p) PROVE FALSE
      BY <2>1 DEF Allocate, IInv, CfgAsSeen
    <2>2. QED
      BY <2>1, StepCases DEF IInv, vars, Call, Lock, ReturnCached, CheckNil,
                            Gofigure
  <1>2. QED
    BY <1>1, InitIInv, NextIInv, PTL DEF Spec, CfgNeverReplaced

=============================================================================
