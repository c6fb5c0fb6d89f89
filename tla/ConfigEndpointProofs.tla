------------------------- MODULE ConfigEndpointProofs -------------------------
(***************************************************************************)
(* Proofs, for any set of concurrent requests, that LoadPenaltyConfig     *)
(* stores its two lists together and that HandleConfiguration never       *)
(* answers 200 with a list that is not loaded.                            *)
(***************************************************************************)
EXTENDS ConfigEndpoint, TLAPS

\* What each handler has established so far about its request.
HandlerFacts(r) ==
  /\ hpc[r] # "idle" => loadPc = "loaded"
  /\ hpc[r] = "switch" => status[r] = 0 /\ ~writeFailed[r]
  /\ hpc[r] = "encode" =>
       /\ data[r] = "loaded" /\ ctype[r] # "other"
       /\ status[r] = 0 /\ ~writeFailed[r]
  /\ hpc[r] = "done" /\ status[r] = 200 /\ ~writeFailed[r] =>
       body[r] = "config" /\ ctype[r] # "other"

\* The inductive invariant: the type, the all-or-nothing store, a loaded
\* configuration has both lists, and every handler's facts.
IInv ==
  /\ TypeOK
  /\ ConfigAllOrNothing
  /\ loadPc = "loaded" => penaltyConfig = [types |-> "loaded", payables |-> "loaded"]
  /\ \A r \in Reqs : HandlerFacts(r)

LEMMA InitIInv == Init => IInv
BY DEF Init, IInv, TypeOK, ConfigAllOrNothing, HandlerFacts, ConfigTypes

LEMMA NextIInv == IInv /\ [Next]_vars => IInv'
<1> SUFFICES ASSUME IInv, [Next]_vars PROVE IInv'
  OBVIOUS
<1>1. CASE UnmarshalTypes
  BY <1>1 DEF UnmarshalTypes, IInv, TypeOK, ConfigAllOrNothing, HandlerFacts
<1>2. CASE UnmarshalPayables
  BY <1>2 DEF UnmarshalPayables, IInv, TypeOK, ConfigAllOrNothing, HandlerFacts
<1>3. ASSUME NEW r \in Reqs, Request(r) PROVE IInv'
  BY <1>3 DEF Request, Accept, IInv, TypeOK, ConfigAllOrNothing, HandlerFacts,
              ConfigTypes
<1>4. ASSUME NEW r \in Reqs, Switch(r) PROVE IInv'
  <2>1. ProvidedConfig(ctype[r]) \in {"nil", "loaded"}
    BY DEF IInv, TypeOK, ProvidedConfig
  <2>2. hpc[r] = "switch" /\ loadPc = "loaded"
    BY <1>4 DEF Switch, IInv, HandlerFacts
  <2>3. ProvidedConfig(ctype[r]) = "loaded"
    BY <2>2 DEF IInv, ProvidedConfig
  <2>4. TypeOK'
    BY <1>4, <2>1 DEF Switch, IInv, TypeOK
  <2>5. ASSUME NEW s \in Reqs PROVE HandlerFacts(s)'
    <3>1. CASE s # r
      BY <1>4, <3>1 DEF Switch, IInv, TypeOK, HandlerFacts
    <3>2. CASE s = r /\ ctype[r] # "other"
      BY <1>4, <2>2, <2>3, <3>2 DEF Switch, IInv, TypeOK, HandlerFacts
    <3>3. CASE s = r /\ ctype[r] = "other"
      BY <1>4, <2>2, <3>3 DEF Switch, IInv, TypeOK, HandlerFacts
    <3>4. QED
      BY <3>1, <3>2, <3>3
  <2>6. QED
    BY <1>4, <2>4, <2>5 DEF Switch, IInv, ConfigAllOrNothing
<1>5. ASSUME NEW r \in Reqs, Encode(r) PROVE IInv'
  <2>1. TypeOK'
    <3>1. status' \in [Reqs -> {0, 200, 400, 500}]
      BY <1>5 DEF Encode, IInv, TypeOK
    <3>2. body' \in [Reqs -> {"none", "config", "message"}]
      BY <1>5 DEF Encode, IInv, TypeOK
    <3>3. writeFailed' \in [Reqs -> BOOLEAN]
      BY <1>5 DEF Encode, IInv, TypeOK
    <3>4. QED
      BY <1>5, <3>1, <3>2, <3>3 DEF Encode, IInv, TypeOK
  <2>2. ASSUME NEW s \in Reqs PROVE HandlerFacts(s)'
    <3>1. CASE s # r
      BY <1>5, <3>1 DEF Encode, IInv, TypeOK, HandlerFacts
    <3>2. CASE s = r
      \* status[r] was 0, so the Write commits 200; the body is the list
      \* unless the Write failed.
      <4>1. status[r] = 0 /\ ~writeFailed[r] /\ data[r] = "loaded" /\ ctype[r] # "other"
        BY <1>5 DEF Encode, IInv, HandlerFacts
      <4>2. QED
        BY <1>5, <3>2, <4>1 DEF Encode, IInv, TypeOK, HandlerFacts
    <3>3. QED
      BY <3>1, <3>2
  <2>3. QED
    BY <1>5, <2>1, <2>2 DEF Encode, IInv, ConfigAllOrNothing
<1>6. ASSUME NEW r \in Reqs, Complete(r) PROVE IInv'
  BY <1>6 DEF Complete, IInv, TypeOK, ConfigAllOrNothing, HandlerFacts
<1>7. CASE UNCHANGED vars
  BY <1>7 DEF vars, IInv, TypeOK, ConfigAllOrNothing, HandlerFacts
<1>8. QED
  BY <1>1, <1>2, <1>3, <1>4, <1>5, <1>6, <1>7 DEF Next

\* The handler state and the configuration always have their types.
THEOREM TypeCorrect == Spec => []TypeOK
<1>1. IInv => TypeOK
  BY DEF IInv
<1>2. QED
  BY InitIInv, NextIInv, <1>1, PTL DEF Spec

\* LoadPenaltyConfig never leaves one list stored without the other, for
\* any number of requests served meanwhile.
THEOREM AllOrNothingHolds == Spec => []ConfigAllOrNothing
<1>1. IInv => ConfigAllOrNothing
  BY DEF IInv
<1>2. QED
  BY InitIInv, NextIInv, <1>1, PTL DEF Spec

=============================================================================
