------------------------------ MODULE MCReason ------------------------------
(***************************************************************************)
(* GetReason compared with the reason rule of spec.md 4.3 on every line   *)
(* of a small input space: charge and cost transaction types, the two     *)
(* company codes the service reads ledgers for and one it does not know,  *)
(* and subtypes with and without a configured reason.                     *)
(***************************************************************************)
EXTENDS ReasonProvider

VARIABLE line

Lines ==
  [ttype : {"1", "2"}, company : {"LP", "C1", "XX"}, subtype : Subtypes]

Init == line \in Lines

Next == UNCHANGED line

\* spec.md 4.3: every charge line not of the late-filing company takes its
\* reason from the penalty types configuration (or the generic reason);
\* GetReason in reason_provider.go consults the table for the sanctions
\* company code only.
ReasonAsSpecified == GetReason(line) = SpecifiedReason(line)

MCPenaltyTypesConfig ==
  << [TransactionSubtype |-> "S1",
      Reason |-> "Failure to file a confirmation statement"] >>

=============================================================================
