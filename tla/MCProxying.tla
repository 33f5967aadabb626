----------------------------- MODULE MCProxying -----------------------------
(* A small instance of ProxyingWatched: a rule of a name's own and a        *)
(* wildcard rule above it.                                                  *)
EXTENDS ProxyingWatched, TLC

api  == <<"api", "dev", "lan">>
wild == <<"*", "dev", "lan">>
base == <<"dev", "lan">>
top  == <<"lan">>

MCLabels    == {"api", "*", "dev", "lan"}
MCNames     == {NoHost, api, wild, base, top}
MCAsked     == {api}
MCRuleHosts == {api, wild}
=============================================================================
