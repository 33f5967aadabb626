--------------------------- MODULE MCRuleSyncHeal ---------------------------
(* The instance of MCRuleSync for RuleSyncHeal.                             *)
EXTENDS MCRuleSync, RuleSyncHeal
=============================================================================
