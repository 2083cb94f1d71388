--------------------------- MODULE MCEksProvider ---------------------------
(***************************************************************************)
(* EksProvider for TLC: every creation policy, and enough agent processes  *)
(* for a create, a restart of it after a crash, and two destroy passes.    *)
(***************************************************************************)
EXTENDS EksProvider

MCPolicies == {"Create", "IfNotExists", "Never"}
MCMaxRuns == 4

=============================================================================
