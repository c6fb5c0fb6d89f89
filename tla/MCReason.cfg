\* Checked alone: expected to be violated by a charge line of a company
\* code other than LP and C1 whose subtype has a configured reason.
CONSTANTS
  InvoiceTransactionType = "1"
  LateFilingPenaltyCompanyCode = "LP"
  SanctionsCompanyCode = "C1"
  LateFilingPenaltyReason = "Late filing of accounts"
  PenaltyReason = "Penalty"
  NoReason = ""
  Subtypes = {"EU", "S1"}
  ConfiguredReasons = {"Failure to file a confirmation statement"}
  PenaltyTypesConfig <- MCPenaltyTypesConfig
INIT Init
NEXT Next
INVARIANT ReasonAsSpecified
