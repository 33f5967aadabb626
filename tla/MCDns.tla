------------------------------- MODULE MCDns --------------------------------
(* A small instance of DnsWatched: two names below one wildcard rule, one  *)
(* of them with a rule and a manual record of its own.                      *)
EXTENDS DnsWatched, TLC

api  == <<"api", "dev", "lan">>
web  == <<"web", "dev", "lan">>
wild == <<"*", "dev", "lan">>
base == <<"dev", "lan">>
top  == <<"lan">>

MCLabels      == {"api", "web", "*", "dev", "lan"}
MCNames       == {NoHost, api, web, wild, base, top}
MCAsked       == {api, web}
MCRuleHosts   == {api, wild}
MCRecordNames == {api}
MCSystemDNS   == <<"isp">>
MCFallback    == <<"8.8.8.8", "1.1.1.1">>
MCServers     == {"isp", "8.8.8.8", "1.1.1.1"}
=============================================================================
