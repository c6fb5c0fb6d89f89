\* spec.md 4.1's eligibility filter against the generator its test fixes:
\* a late-filing penalty beside the cost line of transaction type 2, which
\* the allow-list does not name.
CONSTANTS
  InvoiceTransactionType = "1"
  LateFilingPenaltyCompanyCode = "LP"
  SanctionsCompanyCode = "C1"
  LateFilingPenaltyReason = "Late filing of accounts"
  PenaltyReason = "Penalty"
  NoReason = ""
  Subtypes = {"EU", "S1", "OT"}
  ConfiguredReasons = {"Failure to file a confirmation statement"}
  PenaltyTypesConfig <- MCPenaltyTypesConfig
  TxTypes = {"1", "2"}
  Regimes = {"LATE_FILING", "SANCTIONS", "NOT_DESCRIBED"}
  Described = {"LATE_FILING", "SANCTIONS"}
  CompanyOf <- MCCompanyOf
  AllowedOf <- MCAllowedOf
  PenaltySubtypesOf <- MCPenaltySubtypesOf
  DunningSymbols = {"DCA", "PEN1", " "}
  DCADunningStatus = "DCA"
  Space = " "
  DunningTexts <- MCDunningTexts
  MaxLines = 2
SPECIFICATION Spec
INVARIANT OnlyAllowedListed
