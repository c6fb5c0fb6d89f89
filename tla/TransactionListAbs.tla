-------------------------- MODULE TransactionListAbs --------------------------
(***************************************************************************)
(* What GenerateTransactionListFromAccountPenalties promises, in one      *)
(* atomic step per call: for a described regime it returns either the     *)
(* transaction list of the snapshot or a token generation failure, and    *)
(* never a partial list; for a regime without penalty details it fails.   *)
(*                                                                         *)
(* The list is stated the way spec.md states it (sections 3, 4 and 8),   *)
(* with the lines its test keeps: the snapshot's lines in order, each     *)
(* classified, given its reason, its DCA flag and its payable status, the *)
(* last one depending on how many lines the snapshot has.                  *)
(***************************************************************************)
EXTENDS Ledger

VARIABLES
  snapshot,  \* the account snapshot of the call, <<>> between calls
  regime,    \* the penalty reference type of the call
  outcome    \* [status, items, err] of the call

\* A DCA status is the sentinel followed by nothing but padding.
SpecIsDCA(d) ==
  \E n \in 0..Len(d) : d = <<DCADunningStatus>> \o [k \in 1..n |-> Space]

SpecCategory(l, r) ==
  IF l.subtype \in PenaltySubtypesOf[r] THEN PenaltyTransactionType
                                       ELSE OtherTransactionType

\* Open exactly when the line is an unpaid, non-DCA penalty and the only
\* line of its snapshot.
SpecPayable(l, r, lines) ==
  IF /\ ~l.paid
     /\ ~SpecIsDCA(l.dunning)
     /\ SpecCategory(l, r) = PenaltyTransactionType
     /\ lines = 1
  THEN OpenPayableStatus ELSE ClosedPayableStatus

ExpectedList(s, r) ==
  [k \in 1..Len(s) |->
     [id |-> s[k].ref, paid |-> s[k].paid,
      dca |-> SpecIsDCA(s[k].dunning),
      category |-> SpecCategory(s[k], r),
      reason |-> SpecifiedReason(s[k]),
      payable |-> SpecPayable(s[k], r, Len(s))]]

Idle == [status |-> "idle", items |-> <<>>, err |-> NoError]
Pending == [status |-> "pending", items |-> <<>>, err |-> NoError]
Failed(e) == [status |-> "failed", items |-> <<>>, err |-> e]
Done(items) == [status |-> "done", items |-> items, err |-> NoError]

Init ==
  /\ snapshot = <<>>
  /\ regime \in Regimes
  /\ outcome = Idle

\* A caller asks for the transaction list of a snapshot.
Invoke ==
  /\ outcome.status = "idle"
  /\ \E r \in Regimes :
       /\ regime' = r
       /\ IsSnapshot(snapshot', r)
  /\ outcome' = Pending

\* The call returns, all or nothing.
Return ==
  /\ outcome.status = "pending"
  /\ outcome' \in
       IF regime \in Described
       THEN {Done(ExpectedList(snapshot, regime)), Failed(TokenGenerationFailed)}
       ELSE {Failed(ConfigurationMissing)}
  /\ UNCHANGED <<snapshot, regime>>

\* The caller is done with the result.
Forget ==
  /\ outcome.status \in {"done", "failed"}
  /\ outcome' = Idle
  /\ snapshot' = <<>>
  /\ UNCHANGED regime

Next == Invoke \/ Return \/ Forget

Spec == Init /\ [][Next]_<<snapshot, regime, outcome>>

=============================================================================
