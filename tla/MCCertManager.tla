--------------------------- MODULE MCCertManager ----------------------------
(* A small instance of CertProps: a name, the wildcard above it and the     *)
(* domain of both, which the wildcard certificate names as well.            *)
EXTENDS CertProps, FiniteSets, TLC

api  == <<"api", "dev", "lan">>
wild == <<"*", "dev", "lan">>
base == <<"dev", "lan">>
up   == <<"*", "lan">>
top  == <<"lan">>

MCLabels == {"api", "*", "dev", "lan"}
MCNames  == {NoHost, api, wild, base, up}
MCAsked  == {api, wild}

MCSymmetry == Permutations(Callers)

\* Bound: of the callers and the maintenance, two are under way at a time.
MaxBusy == 2
MCBusy == Cardinality({t \in Threads : op[t].pc # "idle"}) <= MaxBusy
=============================================================================
