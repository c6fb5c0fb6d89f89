------------------------- MODULE MCTransactionList -------------------------
(***************************************************************************)
(* A small instance of TransactionList for TLC, with the codes of the     *)
(* repository's tests: late-filing lines of company LP with the penalty   *)
(* subtype EU, sanctions lines of company C1 with the confirmation        *)
(* statement subtype S1, a subtype OT that is allowed but not a penalty,  *)
(* the cost transaction type 2, and a third regime with no details.       *)
(***************************************************************************)
EXTENDS TransactionList

MCCompanyOf ==
  [r \in Regimes |-> IF r = "LATE_FILING" THEN "LP" ELSE "C1"]

MCAllowedOf ==
  [r \in Regimes |->
     CASE r = "LATE_FILING" -> {<<"1", "EU">>, <<"1", "OT">>, <<"2", "OT">>}
       [] r = "SANCTIONS"   -> {<<"1", "S1">>, <<"1", "OT">>, <<"2", "OT">>}
       [] OTHER             -> {}]

MCPenaltySubtypesOf ==
  [r \in Regimes |->
     CASE r = "LATE_FILING" -> {"EU"}
       [] r = "SANCTIONS"   -> {"S1"}
       [] OTHER             -> {}]

MCPenaltyTypesConfig ==
  << [TransactionSubtype |-> "S1",
      Reason |-> "Failure to file a confirmation statement"] >>

\* Padded and unpadded sentinel, another padded status, and a sentinel
\* behind leading blanks (not trimmed: not DCA).
MCDunningTexts ==
  { <<"DCA">>, <<"DCA", " ">>, <<"PEN1", " ">>, <<" ", "DCA">> }

=============================================================================
