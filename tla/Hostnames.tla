----------------------------- MODULE Hostnames -----------------------------
(***************************************************************************)
(* Host names as the gateway sees them: the sequence of the labels between *)
(* the dots, so that "*.dev.lan" is <<"*", "dev", "lan">> and the empty    *)
(* string is the empty sequence.  The operators are those of               *)
(* app/modules/wildcard.go and of the hostname check of the REST API.      *)
(***************************************************************************)
EXTENDS Integers, Sequences

CONSTANTS Labels,  \* the non-empty labels that occur in names
          Star     \* the label "*"

ASSUME StarAssumption == Star \in Labels

NoHost == << >>

\* strings.HasPrefix(hostname, "*.")
IsWildcard(h) == Len(h) >= 2 /\ Head(h) = Star

\* The name below the "*." of a wildcard; any other name is its own base.
WildcardBase(h) == IF IsWildcard(h) THEN Tail(h) ELSE h

\* The name with its first label cut off: the key of the wildcard fallback.
WildcardDomain(h) == IF Len(h) < 2 THEN NoHost ELSE Tail(h)

\* "*." put back in front of a base, as AutoRecordMap.All does.
WildcardOf(base) == <<Star>> \o base

\* A name the REST API accepts: two or more plain labels, perhaps below "*.".
IsValidProxyHostname(h) ==
    LET base == WildcardBase(h)
    IN  Len(base) >= 2 /\ \A i \in 1..Len(base) : base[i] # Star
=============================================================================
