------------------------------- MODULE Ledger -------------------------------
(***************************************************************************)
(* The inputs of GenerateTransactionListFromAccountPenalties: the         *)
(* customer's account snapshot (AccountPenaltiesDao) read from the         *)
(* finance ledger, the penalty reference type (regime) of the request,    *)
(* and the reference data loaded at start-up (penalty details, allowed     *)
(* transactions, penalty types configuration).  Shared by the abstract    *)
(* specification of the operation and by its step-by-step model.          *)
(*                                                                         *)
(* A ledger line keeps the fields the operation reads: its reference,     *)
(* transaction type and subtype, company code, paid flag and dunning      *)
(* status text.  Dates and amounts are copied to the output unchanged and *)
(* are left out.  A dunning status is a fixed-width text: a sequence over *)
(* a few symbols, one of which is the padding space.                       *)
(***************************************************************************)
EXTENDS ReasonProvider, FiniteSets

CONSTANTS
  TxTypes,           \* transaction type codes
  Regimes,           \* penalty reference types a request may name
  Described,         \* the ones penalty_details.yml has details for
  CompanyOf,         \* the company code of the ledger read for each regime
  AllowedOf,         \* per regime, the allowed (type, subtype) pairs
  PenaltySubtypesOf, \* per regime, the penalty-bearing subtypes
  DunningSymbols,    \* what a dunning status text is written with
  DCADunningStatus,  \* the DCA sentinel symbol
  Space,             \* the padding symbol
  DunningTexts,      \* dunning status texts a ledger line may carry
  MaxLines           \* longest account snapshot considered

ASSUME LedgerAssumption ==
  /\ InvoiceTransactionType \in TxTypes
  /\ Described \subseteq Regimes
  /\ CompanyOf \in [Regimes -> {LateFilingPenaltyCompanyCode, SanctionsCompanyCode}]
  /\ AllowedOf \in [Regimes -> SUBSET (TxTypes \X Subtypes)]
  /\ PenaltySubtypesOf \in [Regimes -> SUBSET Subtypes]
  /\ {DCADunningStatus, Space} \subseteq DunningSymbols
  /\ DCADunningStatus # Space
  /\ DunningTexts \subseteq Seq(DunningSymbols)
  /\ MaxLines \in Nat

\* The fields of a ledger line other than its reference and company code.
LineFields ==
  [ttype : TxTypes, subtype : Subtypes, paid : BOOLEAN, dunning : DunningTexts]

\* A ledger line (AccountPenaltiesDataDao).
Line ==
  [ref : 1..MaxLines, company : {LateFilingPenaltyCompanyCode, SanctionsCompanyCode},
   ttype : TxTypes, subtype : Subtypes, paid : BOOLEAN, dunning : DunningTexts]

\* The account snapshots of the ledger read for regime r: up to MaxLines
\* lines with the references 1, 2, ... (unique within a snapshot) and the
\* company code of that ledger.
Snapshots(r) ==
  UNION { { [k \in 1..n |-> [ref |-> k, company |-> CompanyOf[r],
                             ttype |-> f[k].ttype, subtype |-> f[k].subtype,
                             paid |-> f[k].paid, dunning |-> f[k].dunning]] :
            f \in [1..n -> LineFields] } :
          n \in 0..MaxLines }

\* s is one of Snapshots(r), stated without enumerating them.
IsSnapshot(s, r) ==
  /\ s \in Seq(Line)
  /\ Len(s) <= MaxLines
  /\ \A k \in DOMAIN s : s[k].ref = k /\ s[k].company = CompanyOf[r]

\* The line is of a (type, subtype) pair allowed for regime r.
IsAllowed(l, r) == <<l.ttype, l.subtype>> \in AllowedOf[r]

OpenPayableStatus == "open"
ClosedPayableStatus == "closed"
PenaltyTransactionType == "penalty"
OtherTransactionType == "other"

NoError == "none"
ConfigurationMissing == "ConfigurationMissing"
TokenGenerationFailed == "TokenGenerationFailed"

\* An item of the transaction list; its etag is left out (opaque token).
Item ==
  [id : 1..MaxLines, paid : BOOLEAN, dca : BOOLEAN,
   category : {PenaltyTransactionType, OtherTransactionType},
   reason : {LateFilingPenaltyReason, PenaltyReason, NoReason} \cup ConfiguredReasons,
   payable : {OpenPayableStatus, ClosedPayableStatus}]

=============================================================================
