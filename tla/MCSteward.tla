------------------------------ MODULE MCSteward ------------------------------
\* One run over up to three failing rules, of which max_steps allows two, and
\* two reviewers who send three reviews between them.
EXTENDS Steward

MCPassed(r) == CASE r = "amount" -> 90 [] r = "currency" -> 95 [] OTHER -> 60
MCEvaluated(r) == 100

=============================================================================
