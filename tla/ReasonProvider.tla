--------------------------- MODULE ReasonProvider ---------------------------
(***************************************************************************)
(* DefaultReasonProvider.GetReason (src/issuer_gateway/private/            *)
(* reason_provider.go): the human-readable reason of one ledger line.     *)
(* A pure function of the line's transaction type, company code and       *)
(* subtype, and of the penalty types configuration that config.           *)
(* LoadPenaltyConfig put in the package variable penaltyConfig.           *)
(*                                                                         *)
(* Codes, subtypes and reason texts are model values: GetReason only      *)
(* compares them for equality.                                             *)
(***************************************************************************)
EXTENDS Naturals, Sequences

CONSTANTS
  InvoiceTransactionType,        \* the transaction type of a genuine charge
  LateFilingPenaltyCompanyCode,  \* utils.LateFilingPenaltyCompanyCode
  SanctionsCompanyCode,          \* utils.SanctionsCompanyCode
  LateFilingPenaltyReason,       \* "Late filing of accounts"
  PenaltyReason,                 \* "Penalty", the fallback
  NoReason,                      \* "", the reason of a non-charge line
  Subtypes,                      \* transaction subtypes a ledger line may carry
  ConfiguredReasons,             \* reason texts of the penalty types configuration
  PenaltyTypesConfig             \* sequence of [TransactionSubtype, Reason]

ASSUME ReasonProviderAssumption ==
  /\ LateFilingPenaltyCompanyCode # SanctionsCompanyCode
  /\ PenaltyTypesConfig \in Seq([TransactionSubtype : Subtypes,
                                  Reason : ConfiguredReasons])

\* Positions of the penalty types configuration whose subtype is s.
MatchesOf(s) ==
  {i \in DOMAIN PenaltyTypesConfig : PenaltyTypesConfig[i].TransactionSubtype = s}

\* getSanctionsReason: the reason of the first configuration entry with the
\* line's subtype, in configuration order; PenaltyReason when none has it.
GetSanctionsReason(t) ==
  IF MatchesOf(t.subtype) = {}
  THEN PenaltyReason
  ELSE LET first == CHOOSE i \in MatchesOf(t.subtype) :
                      \A j \in MatchesOf(t.subtype) : i <= j
       IN  PenaltyTypesConfig[first].Reason

\* Mutant of GetReason: the transaction type check left out.
GetReasonAnyType(t) ==
  CASE t.company = LateFilingPenaltyCompanyCode -> LateFilingPenaltyReason
    [] t.company = SanctionsCompanyCode         -> GetSanctionsReason(t)
    [] OTHER                                    -> PenaltyReason

\* GetReason: only invoice lines have a reason, decided by company code.
GetReason(t) ==
  IF t.ttype # InvoiceTransactionType
  THEN NoReason
  ELSE CASE t.company = LateFilingPenaltyCompanyCode -> LateFilingPenaltyReason
         [] t.company = SanctionsCompanyCode         -> GetSanctionsReason(t)
         [] OTHER                                    -> PenaltyReason

-----------------------------------------------------------------------------
(***************************************************************************)
(* The reason rule as the specification of the repository states it       *)
(* (spec.md 4.3), kept beside the code as the reference GetReason is      *)
(* compared with: a late-filing-company charge has the fixed reason, any  *)
(* other charge the reason the table gives its subtype (first entry) or   *)
(* the generic one, a non-charge line none.                                *)
(***************************************************************************)
SpecifiedReason(t) ==
  LET firstAt(i) ==
        /\ PenaltyTypesConfig[i].TransactionSubtype = t.subtype
        /\ \A j \in 1..(i - 1) : PenaltyTypesConfig[j].TransactionSubtype # t.subtype
  IN  IF t.ttype # InvoiceTransactionType THEN NoReason
      ELSE IF t.company = LateFilingPenaltyCompanyCode THEN LateFilingPenaltyReason
      ELSE IF \E i \in DOMAIN PenaltyTypesConfig : firstAt(i)
      THEN PenaltyTypesConfig[CHOOSE i \in DOMAIN PenaltyTypesConfig : firstAt(i)].Reason
      ELSE PenaltyReason

=============================================================================
