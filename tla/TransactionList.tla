--------------------------- MODULE TransactionList ---------------------------
(***************************************************************************)
(* GenerateTransactionListFromAccountPenalties, step by step, as spec.md  *)
(* describes it (sections 4.2 to 4.7) and as its test under src/ fixes    *)
(* it where the two disagree: one call of the etag generator for the     *)
(* list, then every line of the snapshot in order, stamped with a call of *)
(* its own and turned into an item by the line classifier, the reason    *)
(* provider (the code of reason_provider.go), the DCA interpreter and the *)
(* payable-status resolver.  generate_transaction_list_test.go keeps the  *)
(* lines outside the allow-list (lines 81-113 and 147-177), so no line is *)
(* dropped and the payable status counts every line; spec.md 4.1's filter *)
(* is the property OnlyAllowedListed.  Every generator call may fail; the *)
(* first failure ends the call and drops the items built.  A caller then  *)
(* forgets the result and may call again.                                  *)
(***************************************************************************)
EXTENDS Ledger

VARIABLES
  snapshot,  \* the account snapshot of the call, <<>> between calls
  regime,    \* the penalty reference type of the call
  pc,        \* "idle", "start", "items", "done" or "failed"
  i,         \* the next line of the snapshot to look at
  items,     \* the transaction list items built so far
  err,       \* the error the call returned
  calls      \* etag generator calls made by this call

vars == <<snapshot, regime, pc, i, items, err, calls>>

-----------------------------------------------------------------------------
(* The per-line components.                                                *)

\* The length of a dunning status text without its trailing padding: the
\* position of its last symbol that is not padding, 0 if there is none.
TrimmedLen(d) ==
  CHOOSE n \in 0..Len(d) :
    /\ n = 0 \/ d[n] # Space
    /\ \A k \in (n + 1)..Len(d) : d[k] = Space

\* Dunning/DCA interpreter: trim the padding, compare with the sentinel.
IsDCA(d) == SubSeq(d, 1, TrimmedLen(d)) = <<DCADunningStatus>>

\* Line classifier.
Category(l, r) ==
  IF l.subtype \in PenaltySubtypesOf[r] THEN PenaltyTransactionType
                                       ELSE OtherTransactionType

\* Payable-status resolver: count is the number of lines of the snapshot.
PayableStatus(l, r, count) ==
  IF ~l.paid /\ ~IsDCA(l.dunning) /\ Category(l, r) = PenaltyTransactionType
     /\ count = 1
  THEN OpenPayableStatus ELSE ClosedPayableStatus

\* Mutant of BuildItem: the sibling count taken from the items built so far.
BuildItemRunningCount(l) ==
  [id |-> l.ref, paid |-> l.paid, dca |-> IsDCA(l.dunning),
   category |-> Category(l, regime), reason |-> GetReason(l),
   payable |-> PayableStatus(l, regime, Len(items) + 1)]

\* The item the assembler builds from the snapshot's line l.
BuildItem(l) ==
  [id |-> l.ref, paid |-> l.paid, dca |-> IsDCA(l.dunning),
   category |-> Category(l, regime), reason |-> GetReason(l),
   payable |-> PayableStatus(l, regime, Len(snapshot))]

-----------------------------------------------------------------------------
(* The steps of a call.                                                    *)

Init ==
  /\ snapshot = <<>>
  /\ regime \in Regimes
  /\ pc = "idle"
  /\ i = 1
  /\ items = <<>>
  /\ err = NoError
  /\ calls = 0

\* A caller asks for the transaction list of a snapshot of regime r.
Invoke ==
  /\ pc = "idle"
  /\ \E r \in Regimes :
       /\ regime' = r
       /\ snapshot' \in Snapshots(r)
  /\ pc' = "start"
  /\ UNCHANGED <<i, items, err, calls>>

\* No penalty details for the regime: fail before anything is generated.
RefuseUndescribed ==
  /\ pc = "start"
  /\ regime \notin Described
  /\ pc' = "failed"
  /\ err' = ConfigurationMissing
  /\ UNCHANGED <<snapshot, regime, i, items, calls>>

\* The list's etag is generated.
StampList ==
  /\ pc = "start"
  /\ regime \in Described
  /\ calls' = calls + 1
  /\ pc' = "items"
  /\ UNCHANGED <<snapshot, regime, i, items, err>>

\* The next line gets its etag and its item.
StampItem ==
  /\ pc = "items"
  /\ i <= Len(snapshot)
  /\ calls' = calls + 1
  /\ items' = Append(items, BuildItem(snapshot[i]))
  /\ i' = i + 1
  /\ UNCHANGED <<snapshot, regime, pc, err>>

\* Mutant of StampFails: a line whose etag call failed is logged and left
\* out, and the loop goes on.
StampFailsContinue ==
  \/ /\ pc = "start" /\ regime \in Described
     /\ calls' = calls + 1
     /\ pc' = "failed"
     /\ err' = TokenGenerationFailed
     /\ items' = <<>>
     /\ UNCHANGED <<snapshot, regime, i>>
  \/ /\ pc = "items" /\ i <= Len(snapshot)
     /\ calls' = calls + 1
     /\ i' = i + 1
     /\ UNCHANGED <<snapshot, regime, pc, items, err>>

\* A generator call, for the list or for a line, fails: the call returns
\* the error and no list.
StampFails ==
  /\ \/ pc = "start" /\ regime \in Described
     \/ pc = "items" /\ i <= Len(snapshot)
  /\ calls' = calls + 1
  /\ pc' = "failed"
  /\ err' = TokenGenerationFailed
  /\ items' = <<>>
  /\ UNCHANGED <<snapshot, regime, i>>

\* Every line looked at: the list is returned.
Finish ==
  /\ pc = "items"
  /\ i > Len(snapshot)
  /\ pc' = "done"
  /\ UNCHANGED <<snapshot, regime, i, items, err, calls>>

\* The caller is done with the result; the next call starts afresh.
Forget ==
  /\ pc \in {"done", "failed"}
  /\ pc' = "idle"
  /\ snapshot' = <<>>
  /\ i' = 1
  /\ items' = <<>>
  /\ err' = NoError
  /\ calls' = 0
  /\ UNCHANGED regime

Next ==
  \/ Invoke
  \/ RefuseUndescribed
  \/ StampList
  \/ StampItem
  \/ StampFails
  \/ Finish
  \/ Forget

Spec == Init /\ [][Next]_vars

-----------------------------------------------------------------------------
(* Properties.                                                             *)

TypeOK ==
  /\ snapshot \in Seq(Line)
  /\ regime \in Regimes
  /\ pc \in {"idle", "start", "items", "done", "failed"}
  /\ i \in 1..(MaxLines + 1)
  /\ items \in Seq(Item)
  /\ err \in {NoError, ConfigurationMissing, TokenGenerationFailed}
  /\ calls \in 0..(MaxLines + 1)

\* The refinement mapping: the call is pending until it is done or failed,
\* and its outcome then is the list returned or the error.
AbsOutcome ==
  CASE pc = "idle"              -> [status |-> "idle", items |-> <<>>, err |-> NoError]
    [] pc \in {"start", "items"} -> [status |-> "pending", items |-> <<>>, err |-> NoError]
    [] pc = "done"              -> [status |-> "done", items |-> items, err |-> NoError]
    [] pc = "failed"            -> [status |-> "failed", items |-> <<>>, err |-> err]

Abs == INSTANCE TransactionListAbs WITH outcome <- AbsOutcome

\* The call implements its specification: it returns, all or nothing, the
\* list of the snapshot's lines in order, each with the classification,
\* reason, DCA flag and payable status spec.md 4.2-4.5 give it, or the
\* error it allows.
AbsSpec == Abs!Spec

\* A list that offers a line for online payment has that line alone: the
\* payable-status resolver's sibling count agrees with the list returned.
OpenItemIsAlone ==
  pc = "done" =>
    \A k \in DOMAIN items : items[k].payable = OpenPayableStatus => Len(items) = 1

\* The etag generator is called once for the list and once per item of a
\* returned list, and never again after it failed.
StampDiscipline ==
  /\ pc = "done" => calls = Len(items) + 1
  /\ pc = "failed" /\ err = TokenGenerationFailed =>
       calls <= Len(snapshot) + 1

\* spec.md 4.1: the eligibility filter drops every line whose (type,
\* subtype) pair is not allowed for the regime, so every item of a
\* returned list comes from an allowed line of the snapshot.
OnlyAllowedListed ==
  pc = "done" => \A k \in DOMAIN items : IsAllowed(snapshot[items[k].id], regime)

=============================================================================
