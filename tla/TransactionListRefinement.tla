--------------------- MODULE TransactionListRefinement ---------------------
(***************************************************************************)
(* Proof that the step-by-step generator implements its specification:   *)
(* Spec => AbsSpec, for every ledger, regime set, reason table and        *)
(* snapshot length.  Under the refinement mapping AbsOutcome the call is  *)
(* pending from Invoke to its last step; StampList and StampItem are     *)
(* stutters, RefuseUndescribed, StampFails and Finish are                 *)
(* the abstract Return, Invoke and Forget are their abstract namesakes.   *)
(*                                                                         *)
(* Finish is the step that needs an argument: the items built are the     *)
(* specified list.  It rests on three facts about the per-line operators  *)
(* (the trimmed DCA check is the specified one, GetReason gives the       *)
(* specified reason on every ledger line, the payable status counts the  *)
(* snapshot's lines) and on an invariant of the loop: item j was built    *)
(* from line j of the snapshot.                                           *)
(***************************************************************************)
EXTENDS TransactionListProofs

WF == INSTANCE WellFoundedInduction
ST == INSTANCE SequenceTheorems

\* The least-number principle: a non-empty set of naturals has a least
\* element (the well-foundedness of < on Nat).
LEMMA NatMin ==
  ASSUME NEW T \in SUBSET Nat, T # {}
  PROVE  \E m \in T : \A y \in T : m <= y
<1> DEFINE NatLess == {ss \in Nat \X Nat : ss[1] < ss[2]}
<1>1. WF!IsWellFoundedOn(NatLess, Nat)
  <2>1. NatLess = WF!OpToRel(<, Nat)
    BY DEF WF!OpToRel
  <2>2. QED
    BY <2>1, WF!NatLessThanWellFounded, Zenon
<1>2. PICK m \in T : \A y \in T : ~(<<y, m>> \in NatLess)
  BY <1>1, WF!WFMin, Zenon
<1>3. ASSUME NEW y \in T PROVE m <= y
  <2>1. <<y, m>> \in Nat \X Nat /\ <<y, m>>[1] = y /\ <<y, m>>[2] = m
    OBVIOUS
  <2>2. ~(y < m)
    BY <1>2, <2>1
  <2>3. QED
    BY <2>2
<1>4. QED
  BY <1>3

-----------------------------------------------------------------------------
(* The Dunning/DCA interpreter is the specified one.                       *)

\* The trimmed length exists: it is the least n after which the text is
\* all padding.
LEMMA TrimmedLenDef ==
  ASSUME NEW d \in Seq(DunningSymbols)
  PROVE  /\ TrimmedLen(d) \in 0..Len(d)
         /\ TrimmedLen(d) = 0 \/ d[TrimmedLen(d)] # Space
         /\ \A k \in (TrimmedLen(d) + 1)..Len(d) : d[k] = Space
<1> DEFINE PadFrom == {n \in 0..Len(d) : \A k \in (n + 1)..Len(d) : d[k] = Space}
<1>1. PICK m \in PadFrom : \A y \in PadFrom : m <= y
  <2>1. Len(d) \in PadFrom
    OBVIOUS
  <2>2. PadFrom \in SUBSET Nat /\ PadFrom # {}
    BY <2>1
  <2>3. QED
    BY <2>2, NatMin, Zenon
<1>2. m = 0 \/ d[m] # Space
  <2>1. SUFFICES ASSUME m # 0, d[m] = Space PROVE FALSE
    OBVIOUS
  <2>2. m - 1 \in PadFrom
    BY <2>1
  <2>3. m <= m - 1
    BY <1>1, <2>2, Zenon
  <2>4. QED
    BY <2>3
<1>3. \E n \in 0..Len(d) : /\ n = 0 \/ d[n] # Space
                           /\ \A k \in (n + 1)..Len(d) : d[k] = Space
  BY <1>1, <1>2
<1>4. QED
  BY <1>3 DEF TrimmedLen

\* The sentinel followed by n padding symbols.
LEMMA PaddedSentinel ==
  ASSUME NEW n \in Nat
  PROVE  LET p == <<DCADunningStatus>> \o [k \in 1..n |-> Space]
         IN  /\ p \in Seq(DunningSymbols)
             /\ Len(p) = n + 1
             /\ p[1] = DCADunningStatus
             /\ \A k \in 2..(n + 1) : p[k] = Space
<1> USE LedgerAssumption
<1>1. <<DCADunningStatus>> \in Seq(DunningSymbols) /\ Len(<<DCADunningStatus>>) = 1
  OBVIOUS
<1>2. [k \in 1..n |-> Space] \in Seq(DunningSymbols)
      /\ Len([k \in 1..n |-> Space]) = n
  OBVIOUS
<1>3. QED
  BY <1>1, <1>2, ST!ConcatProperties

\* spec.md 4.4: the DCA flag is set iff the text is the sentinel followed
\* by nothing but padding; trimming first, as the interpreter does, says
\* the same for every dunning text.
LEMMA IsDCASpecified ==
  ASSUME NEW d \in Seq(DunningSymbols)
  PROVE  IsDCA(d) <=> Abs!SpecIsDCA(d)
<1> USE LedgerAssumption
<1>1. ASSUME IsDCA(d) PROVE Abs!SpecIsDCA(d)
  <2> DEFINE T == TrimmedLen(d)
  <2>1. T \in 0..Len(d) /\ \A k \in (T + 1)..Len(d) : d[k] = Space
    BY TrimmedLenDef
  <2>2. T = 1 /\ d[1] = DCADunningStatus
    <3>1. \A k \in 1..T : d[k] \in DunningSymbols
      BY <2>1
    <3>2. /\ Len(SubSeq(d, 1, T)) = IF 1 <= T THEN T ELSE 0
          /\ \A k \in 1..T : SubSeq(d, 1, T)[k] = d[k]
      BY <2>1, <3>1, ST!SubSeqProperties
    <3>3. SubSeq(d, 1, T) = <<DCADunningStatus>>
      BY <1>1 DEF IsDCA
    <3>4. Len(<<DCADunningStatus>>) = 1 /\ <<DCADunningStatus>>[1] = DCADunningStatus
      OBVIOUS
    <3>5. T = 1
      BY <2>1, <3>2, <3>3, <3>4
    <3>6. SubSeq(d, 1, T)[1] = d[1]
      BY <3>2, <3>5
    <3>7. QED
      BY <3>3, <3>4, <3>5, <3>6
  <2> DEFINE p == <<DCADunningStatus>> \o [k \in 1..(Len(d) - 1) |-> Space]
  <2>3. Len(d) - 1 \in Nat
    BY <2>1, <2>2
  <2>4. /\ p \in Seq(DunningSymbols)
        /\ Len(p) = Len(d)
        /\ p[1] = DCADunningStatus
        /\ \A k \in 2..Len(d) : p[k] = Space
    BY <2>3, PaddedSentinel
  <2>5. d = p
    BY <2>1, <2>2, <2>4, ST!SeqEqual
  <2>6. Len(d) - 1 \in 0..Len(d)
    BY <2>3
  <2>7. \E n \in 0..Len(d) : d = <<DCADunningStatus>> \o [k \in 1..n |-> Space]
    BY <2>5, <2>6, Zenon
  <2>8. QED
    BY <2>7 DEF Abs!SpecIsDCA
<1>2. ASSUME Abs!SpecIsDCA(d) PROVE IsDCA(d)
  <2>1. PICK n \in 0..Len(d) : d = <<DCADunningStatus>> \o [k \in 1..n |-> Space]
    BY <1>2 DEF Abs!SpecIsDCA
  <2>2. Len(d) = n + 1 /\ d[1] = DCADunningStatus
        /\ \A k \in 2..Len(d) : d[k] = Space
    BY <2>1
  <2>3. TrimmedLen(d) = 1
    <3>1. /\ TrimmedLen(d) \in 0..Len(d)
          /\ TrimmedLen(d) = 0 \/ d[TrimmedLen(d)] # Space
          /\ \A k \in (TrimmedLen(d) + 1)..Len(d) : d[k] = Space
      BY TrimmedLenDef
    <3>2. QED
      BY <2>2, <3>1
  <2>4. SubSeq(d, 1, 1) = <<DCADunningStatus>>
    <3>1. SubSeq(d, 1, 1) \in Seq(DunningSymbols) /\ Len(SubSeq(d, 1, 1)) = 1
          /\ SubSeq(d, 1, 1)[1] = d[1]
      BY <2>2, ST!SubSeqProperties
    <3>2. <<DCADunningStatus>> \in Seq(DunningSymbols)
          /\ Len(<<DCADunningStatus>>) = 1
          /\ <<DCADunningStatus>>[1] = DCADunningStatus
      OBVIOUS
    <3>3. \A k \in 1..1 : SubSeq(d, 1, 1)[k] = <<DCADunningStatus>>[k]
      BY <2>2, <3>1, <3>2
    <3>4. QED
      BY <3>1, <3>2, <3>3, ST!SeqEqual
  <2>5. QED
    BY <2>3, <2>4 DEF IsDCA
<1>3. QED
  BY <1>1, <1>2

-----------------------------------------------------------------------------
(* The reason provider gives the specified reason on every ledger line.   *)

\* SpecifiedReason's first entry of the table with the subtype of t.
FirstAt(t, n) ==
  /\ PenaltyTypesConfig[n].TransactionSubtype = t.subtype
  /\ \A j \in 1..(n - 1) : PenaltyTypesConfig[j].TransactionSubtype # t.subtype

\* The table has a first entry for a subtype it has, and only one;
\* getSanctionsReason's least matching position is that entry.
LEMMA FirstMatch ==
  ASSUME NEW t, MatchesOf(t.subtype) # {}
  PROVE  LET m == CHOOSE n \in MatchesOf(t.subtype) :
                    \A j \in MatchesOf(t.subtype) : n <= j
         IN  /\ m \in DOMAIN PenaltyTypesConfig
             /\ FirstAt(t, m)
             /\ \A n \in DOMAIN PenaltyTypesConfig : FirstAt(t, n) => n = m
<1> USE ReasonProviderAssumption
<1> DEFINE M == MatchesOf(t.subtype)
<1>1. DOMAIN PenaltyTypesConfig = 1..Len(PenaltyTypesConfig)
  OBVIOUS
<1>2. M \in SUBSET Nat
  BY <1>1 DEF MatchesOf
<1>3. \E m \in M : \A j \in M : m <= j
  BY <1>2, NatMin
<1>4. PICK m \in M : \A j \in M : m <= j
  BY <1>3
<1>5. (CHOOSE n \in M : \A j \in M : n <= j) = m
  BY <1>2, <1>4
<1>6. FirstAt(t, m)
  BY <1>1, <1>2, <1>4 DEF FirstAt, MatchesOf
<1>7. ASSUME NEW n \in DOMAIN PenaltyTypesConfig, FirstAt(t, n) PROVE n = m
  <2>1. n \in M /\ m <= n
    BY <1>4, <1>7 DEF FirstAt, MatchesOf
  <2>2. ~(m < n)
    BY <1>1, <1>4, <1>7 DEF FirstAt, MatchesOf
  <2>3. QED
    BY <1>1, <1>2, <2>1, <2>2
<1>8. QED
  BY <1>4, <1>5, <1>6, <1>7 DEF MatchesOf

\* spec.md 4.3: on every ledger line (of either company) getReason gives
\* the reason the specification states.
LEMMA ReasonSpecified ==
  ASSUME NEW l \in Line
  PROVE  GetReason(l) = SpecifiedReason(l)
<1> USE LedgerAssumption, ReasonProviderAssumption
<1>1. CASE l.ttype # InvoiceTransactionType
  BY <1>1 DEF GetReason, SpecifiedReason
<1>2. CASE l.ttype = InvoiceTransactionType /\ l.company = LateFilingPenaltyCompanyCode
  BY <1>2 DEF GetReason, SpecifiedReason
<1>3. CASE l.ttype = InvoiceTransactionType /\ l.company = SanctionsCompanyCode
  <2>1. GetReason(l) = GetSanctionsReason(l)
    BY <1>3 DEF GetReason
  <2>2. CASE MatchesOf(l.subtype) = {}
    <3>1. ~\E n \in DOMAIN PenaltyTypesConfig : FirstAt(l, n)
      BY <2>2 DEF FirstAt, MatchesOf
    <3>2. SpecifiedReason(l) = PenaltyReason
      BY <1>3, <3>1 DEF SpecifiedReason, FirstAt
    <3>3. QED
      BY <2>1, <2>2, <3>2 DEF GetSanctionsReason
  <2>3. CASE MatchesOf(l.subtype) # {}
    <3> DEFINE m == CHOOSE n \in MatchesOf(l.subtype) :
                      \A j \in MatchesOf(l.subtype) : n <= j
    <3>1. /\ m \in DOMAIN PenaltyTypesConfig
          /\ FirstAt(l, m)
          /\ \A n \in DOMAIN PenaltyTypesConfig : FirstAt(l, n) => n = m
      BY <2>3, FirstMatch
    <3>2. (CHOOSE n \in DOMAIN PenaltyTypesConfig : FirstAt(l, n)) = m
      BY <3>1
    <3>3. SpecifiedReason(l) = PenaltyTypesConfig[m].Reason
      BY <1>3, <3>1, <3>2 DEF SpecifiedReason, FirstAt
    <3>4. QED
      BY <2>1, <2>3, <3>3 DEF GetSanctionsReason
  <2>4. QED
    BY <2>2, <2>3
<1>4. QED
  BY <1>1, <1>2, <1>3 DEF Line

-----------------------------------------------------------------------------
(* The loop invariant of the refinement.                                   *)

\* While the lines are looked at, the regime is described and item j was
\* built from line j.
Listing ==
  pc = "items" =>
    /\ regime \in Described
    /\ \A j \in 1..Len(items) : items[j] = BuildItem(snapshot[j])

RInv == IInv /\ Listing

LEMMA InitListing == Init => Listing
BY DEF Init, Listing

\* A step that keeps the snapshot and the regime builds every item alike.
LEMMA BuildItemUnchanged ==
  ASSUME snapshot' = snapshot, regime' = regime
  PROVE  \A l : BuildItem(l)' = BuildItem(l)
BY DEF BuildItem, PayableStatus, Category

LEMMA NextListing == RInv /\ [Next]_vars => Listing'
<1> SUFFICES ASSUME IInv, Listing, [Next]_vars PROVE Listing'
  BY DEF RInv
<1> USE DEF IInv, ProofTypes
<1>1. CASE Invoke \/ RefuseUndescribed \/ StampFails \/ Finish \/ Forget
  BY <1>1 DEF Invoke, RefuseUndescribed, StampFails, Finish, Forget, Listing
<1>2. CASE StampList
  BY <1>2 DEF StampList, Listing, Counting
<1>3. CASE StampItem
  <2>1. \A l : BuildItem(l)' = BuildItem(l)
    BY <1>3, BuildItemUnchanged DEF StampItem
  <2>2. i \in 1..Len(snapshot) /\ Len(items) = i - 1
    BY <1>3 DEF StampItem, Counting
  <2>3. items' = Append(items, BuildItem(snapshot[i]))
        /\ Len(items') = Len(items) + 1
    BY <1>3 DEF StampItem
  <2>4. ASSUME NEW j \in 1..Len(items') PROVE items'[j] = BuildItem(snapshot[j])
    <3>1. CASE j <= Len(items)
      BY <1>3, <2>3, <3>1 DEF StampItem, Listing
    <3>2. CASE j = Len(items) + 1
      BY <2>2, <2>3, <3>2
    <3>3. QED
      BY <2>3, <3>1, <3>2
  <2>5. QED
    BY <1>3, <2>1, <2>4 DEF StampItem, Listing
<1>4. CASE UNCHANGED vars
  <2>1. \A l : BuildItem(l)' = BuildItem(l)
    BY <1>4, BuildItemUnchanged DEF vars
  <2>2. QED
    BY <1>4, <2>1 DEF vars, Listing
<1>5. QED
  BY <1>1, <1>2, <1>3, <1>4 DEF Next

-----------------------------------------------------------------------------
(* The list built is the list specified.                                   *)

\* The assembler builds from a ledger line the item spec.md describes,
\* given the number of lines of the snapshot.
LEMMA ItemSpecified ==
  ASSUME NEW l \in Line
  PROVE  BuildItem(l) =
           [id |-> l.ref, paid |-> l.paid,
            dca |-> Abs!SpecIsDCA(l.dunning),
            category |-> Abs!SpecCategory(l, regime),
            reason |-> Abs!SpecifiedReason(l),
            payable |-> Abs!SpecPayable(l, regime, Len(snapshot))]
<1>1. l.dunning \in Seq(DunningSymbols)
  BY LedgerAssumption DEF Line
<1>2. IsDCA(l.dunning) = Abs!SpecIsDCA(l.dunning)
  BY <1>1, IsDCASpecified, Zenon DEF IsDCA, Abs!SpecIsDCA
<1>3. GetReason(l) = Abs!SpecifiedReason(l)
  <2>1. Abs!SpecifiedReason(l) = SpecifiedReason(l)
    BY DEF Abs!SpecifiedReason, SpecifiedReason
  <2>2. QED
    BY <2>1, ReasonSpecified
<1>4. QED
  BY <1>2, <1>3 DEF BuildItem, PayableStatus, Category,
                    Abs!SpecPayable, Abs!SpecCategory,
                    Abs!PenaltyTransactionType, Abs!OtherTransactionType,
                    Abs!OpenPayableStatus, Abs!ClosedPayableStatus,
                    PenaltyTransactionType, OtherTransactionType,
                    OpenPayableStatus, ClosedPayableStatus

\* When the last line has been looked at, the items built are the list
\* the specification returns for the snapshot and the regime.
LEMMA FinishList ==
  ASSUME RInv, pc = "items", i > Len(snapshot)
  PROVE  items = Abs!ExpectedList(snapshot, regime)
<1> USE DEF RInv, IInv, ProofTypes
<1>1. Len(items) = Len(snapshot)
  BY DEF Counting
<1>2. ASSUME NEW j \in 1..Len(items)
      PROVE  items[j] = Abs!ExpectedList(snapshot, regime)[j]
  <2>1. items[j] = BuildItem(snapshot[j]) /\ snapshot[j] \in Line
    BY <1>1 DEF Listing
  <2>2. Abs!ExpectedList(snapshot, regime)[j] =
          [id |-> snapshot[j].ref, paid |-> snapshot[j].paid,
           dca |-> Abs!SpecIsDCA(snapshot[j].dunning),
           category |-> Abs!SpecCategory(snapshot[j], regime),
           reason |-> Abs!SpecifiedReason(snapshot[j]),
           payable |-> Abs!SpecPayable(snapshot[j], regime, Len(snapshot))]
    BY <1>1 DEF Abs!ExpectedList
  <2>3. QED
    BY <2>1, <2>2, ItemSpecified
<1>3. Abs!ExpectedList(snapshot, regime)
        = [j \in 1..Len(items) |-> Abs!ExpectedList(snapshot, regime)[j]]
  BY <1>1 DEF Abs!ExpectedList
<1>4. items = [j \in 1..Len(items) |-> items[j]]
  OBVIOUS
<1>5. QED
  BY <1>2, <1>3, <1>4

-----------------------------------------------------------------------------
(* Every step of the generator is a step of the specification.             *)

LEMMA InitRInv == Init => RInv
BY InitIInv, InitListing DEF RInv

LEMMA NextRInv == RInv /\ [Next]_vars => RInv'
BY NextIInv, NextListing DEF RInv

\* Every snapshot a call may be given is one the specification allows.
LEMMA SnapshotsAllowed ==
  ASSUME NEW r \in Regimes, NEW s \in Snapshots(r)
  PROVE  Abs!IsSnapshot(s, r)
<1>1. PICK n \in 0..MaxLines :
        \E f \in [1..n -> LineFields] :
          s = [k \in 1..n |-> [ref |-> k, company |-> CompanyOf[r],
                               ttype |-> f[k].ttype, subtype |-> f[k].subtype,
                               paid |-> f[k].paid, dunning |-> f[k].dunning]]
  BY DEF Snapshots
<1>2. PICK f \in [1..n -> LineFields] :
        s = [k \in 1..n |-> [ref |-> k, company |-> CompanyOf[r],
                             ttype |-> f[k].ttype, subtype |-> f[k].subtype,
                             paid |-> f[k].paid, dunning |-> f[k].dunning]]
  BY <1>1
<1>3. s \in Seq(Line)
  BY SnapshotsAreLines
<1>4. Len(s) = n /\ DOMAIN s = 1..n
  BY <1>2, <1>3, LedgerAssumption
<1>5. QED
  BY <1>1, <1>2, <1>3, <1>4 DEF Abs!IsSnapshot, Abs!Line, Line

\* The mapped outcome of each control point.
LEMMA OutcomeOf ==
  /\ pc = "idle" => AbsOutcome = Abs!Idle
  /\ pc \in {"start", "items"} => AbsOutcome = Abs!Pending
  /\ pc = "done" => AbsOutcome = Abs!Done(items)
  /\ pc = "failed" => AbsOutcome = Abs!Failed(err)
BY DEF AbsOutcome, Abs!Idle, Abs!Pending, Abs!Done, Abs!Failed, Abs!NoError, NoError

LEMMA StepRefines ==
  RInv /\ [Next]_vars => [Abs!Next]_<<snapshot, regime, AbsOutcome>>
<1> SUFFICES ASSUME RInv, [Next]_vars
             PROVE  [Abs!Next]_<<snapshot, regime, AbsOutcome>>
  OBVIOUS
<1> USE DEF RInv, IInv, ProofTypes
<1>0. OutcomeOf /\ OutcomeOf'
  BY OutcomeOf, PTL
<1>1. CASE Invoke
  <2>1. PICK r \in Regimes : regime' = r /\ snapshot' \in Snapshots(r)
    BY <1>1 DEF Invoke
  <2>2. Abs!IsSnapshot(snapshot', r)
    BY <2>1, SnapshotsAllowed
  <2>3. Abs!Invoke
    BY <1>0, <1>1, <2>1, <2>2 DEF Invoke, Abs!Invoke, Abs!Idle, Abs!Pending
  <2>4. QED
    BY <2>3 DEF Abs!Next
<1>2. CASE RefuseUndescribed
  <2>1. Abs!Return
    BY <1>0, <1>2 DEF RefuseUndescribed, Abs!Return, Abs!Pending, Abs!Failed,
                      Abs!ConfigurationMissing, ConfigurationMissing
  <2>2. QED
    BY <2>1 DEF Abs!Next
<1>3. CASE StampList \/ StampItem
  BY <1>0, <1>3 DEF StampList, StampItem
<1>4. CASE StampFails
  <2>1. regime \in Described
    BY <1>4 DEF StampFails, Listing
  <2>2. Abs!Return
    BY <1>0, <1>4, <2>1 DEF StampFails, Abs!Return, Abs!Pending, Abs!Failed,
                            Abs!TokenGenerationFailed, TokenGenerationFailed
  <2>3. QED
    BY <2>2 DEF Abs!Next
<1>5. CASE Finish
  <2>1. regime \in Described /\ items = Abs!ExpectedList(snapshot, regime)
    BY <1>5, FinishList DEF Finish, Listing
  <2>2. Abs!Return
    BY <1>0, <1>5, <2>1 DEF Finish, Abs!Return, Abs!Pending, Abs!Done
  <2>3. QED
    BY <2>2 DEF Abs!Next
<1>6. CASE Forget
  <2>1. Abs!Forget
    BY <1>0, <1>6 DEF Forget, Abs!Forget, Abs!Idle, Abs!Done, Abs!Failed
  <2>2. QED
    BY <2>1 DEF Abs!Next
<1>7. CASE UNCHANGED vars
  BY <1>7 DEF vars, AbsOutcome
<1>8. QED
  BY <1>1, <1>2, <1>3, <1>4, <1>5, <1>6, <1>7 DEF Next

\* GenerateTransactionListFromAccountPenalties implements its specification
\* for every ledger, regime set, reason table and snapshot length: each call
\* returns, all or nothing, the list of the allowed lines in snapshot order
\* with the classification, reason, DCA flag and payable status spec.md
\* states, or the error the specification allows.
THEOREM Refinement == Spec => AbsSpec
<1>1. Init => Abs!Init
  BY DEF Init, Abs!Init, AbsOutcome, Abs!Idle, Abs!NoError, NoError
<1>2. QED
  BY <1>1, InitRInv, NextRInv, StepRefines, PTL DEF Spec, AbsSpec, Abs!Spec

=============================================================================
