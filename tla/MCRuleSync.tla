----------------------------- MODULE MCRuleSync -----------------------------
(* A small instance of RuleSync: one exact name, the wildcard above it, and *)
(* a name without a dot, which the API refuses.                             *)
EXTENDS RuleSyncProps, TLC

api  == <<"api", "dev", "lan">>
web  == <<"web", "dev", "lan">>
wild == <<"*", "dev", "lan">>
base == <<"dev", "lan">>
top  == <<"lan">>

MCLabels == {"api", "web", "*", "dev", "lan"}
MCNames  == {NoHost, api, web, wild, base, top}
TwoNames == MCNames \ {web}
MCHosts  == {api, wild, top}
TwoHosts == {api, wild}
OneHost  == {api}
TwoExact == {api, web}

\* Every sync is one that fails: no step reads what a sync writes except a
\* later sync, so this loses nothing of the routes and most of the states.
SyncSkipped == \A w \in Workers : op[w].pc \notin {"query", "set", "prune"}

MCSymmetry == Permutations(Workers)
=============================================================================
