\* Snapshots of up to two lines: enough for a penalty alone (open), a
\* penalty beside a cost line outside the allow-list (closed, as the test
\* expects), and a failure at every generator call.
CONSTANTS
  InvoiceTransactionType = "1"
  LateFilingPenaltyCompanyCode = "LP"
  SanctionsCompanyCode = "C1"
  LateFilingPenaltyReason = "Late filing of accounts"
  PenaltyReason = "Penalty"
  NoReason = ""
  Subtypes = {"EU", "S1", "OT"}
  ConfiguredReasons = {"Failure to file a confirmation statement"}
  PenaltyTypesConfig <- MCPenaltyTypesConfig
  TxTypes = {"1", "2"}
  Regimes = {"LATE_FILING", "SANCTIONS", "NOT_DESCRIBED"}
  Described = {"LATE_FILING", "SANCTIONS"}
  CompanyOf <- MCCompanyOf
  AllowedOf <- MCAllowedOf
  PenaltySubtypesOf <- MCPenaltySubtypesOf
  DunningSymbols = {"DCA", "PEN1", " "}
  DCADunningStatus = "DCA"
  Space = " "
  DunningTexts <- MCDunningTexts
  MaxLines = 2
SPECIFICATION Spec
INVARIANT OpenItemIsAlone StampDiscipline
PROPERTY AbsSpec
