---------------------------- MODULE RoutingTable ----------------------------
(***************************************************************************)
(* The two-map table that the reverse proxy, the forward proxy and the DNS *)
(* auto records each keep: one map keyed by exact host name and one keyed  *)
(* by the base of a wildcard.  A key that is not in a map is Absent.       *)
(***************************************************************************)
EXTENDS Hostnames

CONSTANTS Names,   \* every name used as a key or looked up
          Absent   \* the value of a key that is not in the map

ASSUME NamesAssumption ==
    /\ Names \subseteq Seq(Labels)
    /\ NoHost \in Names
    /\ \A h \in Names : WildcardDomain(h) \in Names

Table(V) == [exact : [Names -> V \cup {Absent}],
             wild  : [Names -> V \cup {Absent}]]

EmptyTable == [exact |-> [h \in Names |-> Absent],
               wild  |-> [h \in Names |-> Absent]]

\* What the table holds under the host name h itself.
Entry(t, h) == IF IsWildcard(h) THEN t.wild[WildcardBase(h)] ELSE t.exact[h]

\* Store v under h, in the map that the form of h selects.
Put(t, h, v) ==
    IF IsWildcard(h) THEN [t EXCEPT !.wild[WildcardBase(h)] = v]
                     ELSE [t EXCEPT !.exact[h] = v]

Drop(t, h) == Put(t, h, Absent)

\* The table a start-up loop fills: the entry of every h is f[h].
TableOf(f) ==
    [exact |-> [h \in Names |-> IF IsWildcard(h) THEN Absent ELSE f[h]],
     wild  |-> [b \in Names |-> IF WildcardOf(b) \in Names /\ IsWildcard(WildcardOf(b))
                                THEN f[WildcardOf(b)] ELSE Absent]]

Keys(t) == {h \in Names : Entry(t, h) # Absent}

\* What a request for h finds: the exact entry, else the parent's wildcard.
Match(t, h) ==
    IF t.exact[h] # Absent THEN t.exact[h]
    ELSE IF WildcardDomain(h) # NoHost THEN t.wild[WildcardDomain(h)]
    ELSE Absent
=============================================================================
