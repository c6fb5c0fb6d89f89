------------------------ MODULE TransactionListProofs ------------------------
(***************************************************************************)
(* Proofs, for every ledger, regime set and snapshot length, that the     *)
(* transaction-list generator calls the etag generator exactly once per   *)
(* item plus once for the list, and that an "open" item is alone in its   *)
(* list.  Both rest on counting the lines looked at so far.               *)
(***************************************************************************)
EXTENDS TransactionList, TLAPS

\* Every snapshot a call may be given is a sequence of ledger lines.
LEMMA SnapshotsAreLines ==
  ASSUME NEW r \in Regimes
  PROVE  Snapshots(r) \subseteq Seq(Line)
<1> SUFFICES ASSUME NEW s \in Snapshots(r) PROVE s \in Seq(Line)
  OBVIOUS
<1>1. PICK n \in 0..MaxLines :
        \E f \in [1..n -> LineFields] :
          s = [k \in 1..n |-> [ref |-> k, company |-> CompanyOf[r],
                               ttype |-> f[k].ttype, subtype |-> f[k].subtype,
                               paid |-> f[k].paid, dunning |-> f[k].dunning]]
  BY DEF Snapshots
<1>2. PICK f \in [1..n -> LineFields] :
        s = [k \in 1..n |-> [ref |-> k, company |-> CompanyOf[r],
                             ttype |-> f[k].ttype, subtype |-> f[k].subtype,
                             paid |-> f[k].paid, dunning |-> f[k].dunning]]
  BY <1>1
<1>3. s \in [1..n -> Line]
  BY <1>2, LedgerAssumption DEF Line, LineFields
<1>4. QED
  BY <1>3, LedgerAssumption

-----------------------------------------------------------------------------
(* The inductive invariant.                                                *)

\* The items a call can build from the snapshot's lines.
Built == {BuildItem(l) : l \in Line}

\* A step that keeps the snapshot and the regime keeps what can be built.
LEMMA BuiltUnchanged ==
  ASSUME snapshot' = snapshot, regime' = regime
  PROVE  Built' = Built
BY DEF Built, BuildItem, PayableStatus, Category

\* Types enough for the counting argument.
ProofTypes ==
  /\ snapshot \in Seq(Line)
  /\ regime \in Regimes
  /\ pc \in {"idle", "start", "items", "done", "failed"}
  /\ items \in Seq(Built)
  /\ calls \in Nat

\* The counting invariant: before the list's etag nothing is built; while
\* looking at line i, one call per item plus the list's, and one item per
\* line before i; an open item was built with a count of one.
Counting ==
  /\ pc \in {"idle", "start"} => items = <<>> /\ calls = 0 /\ i = 1
  /\ pc = "items" =>
       /\ i \in 1..(Len(snapshot) + 1)
       /\ calls = Len(items) + 1
       /\ Len(items) = i - 1
  /\ pc = "done" => calls = Len(items) + 1 /\ Len(items) = Len(snapshot)
  /\ pc = "failed" /\ err = TokenGenerationFailed =>
       calls <= Len(snapshot) + 1
  /\ \A k \in 1..Len(items) :
       items[k].payable = OpenPayableStatus => Len(snapshot) = 1

IInv == ProofTypes /\ Counting

LEMMA InitIInv == Init => IInv
BY DEF Init, IInv, ProofTypes, Counting

LEMMA NextIInv == IInv /\ [Next]_vars => IInv'
<1> SUFFICES ASSUME IInv, [Next]_vars PROVE IInv'
  OBVIOUS
<1> USE DEF IInv, ProofTypes
<1>1. CASE Invoke
  <2>1. PICK r \in Regimes : regime' = r /\ snapshot' \in Snapshots(r)
    BY <1>1 DEF Invoke
  <2>2. snapshot' \in Seq(Line)
    BY <2>1, SnapshotsAreLines
  <2>3. items = <<>> /\ calls = 0 /\ i = 1
    BY <1>1 DEF Invoke, Counting
  <2>4. QED
    BY <1>1, <2>1, <2>2, <2>3 DEF Invoke, Counting
<1>2. CASE RefuseUndescribed
  BY <1>2, BuiltUnchanged DEF RefuseUndescribed, Counting,
         ConfigurationMissing, TokenGenerationFailed
<1>3. CASE StampList
  BY <1>3, BuiltUnchanged DEF StampList, Counting
<1>4. CASE StampItem
  <2>1. i \in 1..Len(snapshot) /\ calls = Len(items) + 1 /\ Len(items) = i - 1
    BY <1>4 DEF StampItem, Counting
  <2>2. Built' = Built
    BY <1>4, BuiltUnchanged DEF StampItem
  <2>3. BuildItem(snapshot[i]) \in Built
    BY <2>1 DEF Built
  <2>4. BuildItem(snapshot[i]).payable = OpenPayableStatus => Len(snapshot) = 1
    BY DEF BuildItem, PayableStatus, OpenPayableStatus, ClosedPayableStatus
  <2>5. items' \in Seq(Built') /\ Len(items') = Len(items) + 1
    BY <1>4, <2>2, <2>3 DEF StampItem
  <2>6. \A k \in 1..Len(items') :
          items'[k].payable = OpenPayableStatus => Len(snapshot') = 1
    BY <1>4, <2>4 DEF StampItem, Counting
  <2>7. QED
    BY <1>4, <2>1, <2>5, <2>6 DEF StampItem, Counting
<1>5. CASE StampFails
  <2>1. calls' <= Len(snapshot) + 1
    BY <1>5 DEF StampFails, Counting
  <2>2. QED
    BY <1>5, <2>1, BuiltUnchanged DEF StampFails, Counting
<1>6. CASE Finish
  BY <1>6, BuiltUnchanged DEF Finish, Counting
<1>7. CASE Forget
  BY <1>7 DEF Forget, Counting
<1>8. CASE UNCHANGED vars
  BY <1>8, BuiltUnchanged DEF vars, Counting
<1>9. QED
  BY <1>1, <1>2, <1>3, <1>4, <1>5, <1>6, <1>7, <1>8 DEF Next

-----------------------------------------------------------------------------
(* The theorems.                                                           *)

\* The generator (spec.md 4.6, the fail-fast etag stamper) is called once
\* for the list and once per item of a returned list, and at most once
\* per line plus the list's before a failure: it is never called after
\* the call that failed.
THEOREM StampDisciplineHolds == Spec => []StampDiscipline
<1>1. IInv => StampDiscipline
  BY DEF IInv, Counting, StampDiscipline
<1>2. QED
  BY InitIInv, NextIInv, <1>1, PTL DEF Spec

\* A returned list that offers a line for online payment (payable status
\* "open", spec.md 4.5) has that line alone, whatever the snapshot: the
\* resolver's count of the snapshot's lines is the length of the list.
THEOREM OpenItemIsAloneHolds == Spec => []OpenItemIsAlone
<1>1. ASSUME IInv, pc = "done", NEW k \in DOMAIN items,
             items[k].payable = OpenPayableStatus
      PROVE  Len(items) = 1
  <2>1. k \in 1..Len(items)
    BY <1>1 DEF IInv, ProofTypes
  <2>2. QED
    BY <1>1, <2>1 DEF IInv, Counting
<1>2. IInv => OpenItemIsAlone
  BY <1>1 DEF OpenItemIsAlone
<1>3. QED
  BY InitIInv, NextIInv, <1>2, PTL DEF Spec

=============================================================================
