------------------------- MODULE RoutingTableProofs -------------------------
(* What Put, Drop and TableOf do to the entries of a routing table.  The    *)
(* one difficulty is that wildcards are stored under their base: no two     *)
(* wildcards have the same base.                                            *)
EXTENDS RoutingTable, SequenceTheorems, TLAPS

LEMMA WildcardBaseInNames ==
    ASSUME NEW h \in Names, IsWildcard(h)
    PROVE  WildcardBase(h) \in Names
  <1>1. h \in Seq(Labels) /\ WildcardDomain(h) \in Names
    BY NamesAssumption
  <1> QED BY <1>1 DEF IsWildcard, WildcardBase, WildcardDomain

LEMMA WildcardOfBase ==
    ASSUME NEW h \in Names, IsWildcard(h)
    PROVE  WildcardOf(WildcardBase(h)) = h
  <1>1. h \in Seq(Labels) /\ Len(h) >= 2 /\ h[1] = Star /\ WildcardBase(h) = Tail(h)
    BY NamesAssumption DEF IsWildcard, WildcardBase
  <1>2. Star \in Labels
    BY StarAssumption
  <1> DEFINE w == <<Star>> \o Tail(h)
  <1>3. w \in Seq(Labels) /\ Len(w) = Len(h)
    BY <1>1, <1>2
  <1>4. ASSUME NEW i \in 1..Len(h) PROVE w[i] = h[i]
    BY <1>1, <1>2, <1>4
  <1>5. w = h
    BY <1>1, <1>3, <1>4, SeqEqual, Zenon
  <1> QED BY <1>1, <1>5 DEF WildcardOf

LEMMA WildcardBaseInjective ==
    ASSUME NEW g \in Names, NEW h \in Names, IsWildcard(g), IsWildcard(h),
           WildcardBase(g) = WildcardBase(h)
    PROVE  g = h
  BY WildcardOfBase

\* Storing a value makes it the entry of its name and changes no other entry.
THEOREM EntryOfPut ==
    ASSUME NEW V, NEW t \in Table(V), NEW h \in Names, NEW g \in Names, NEW v
    PROVE  Entry(Put(t, h, v), g) = IF g = h THEN v ELSE Entry(t, g)
  <1>1. CASE IsWildcard(h) /\ IsWildcard(g)
    <2>1. WildcardBase(h) \in Names /\ WildcardBase(g) \in Names
      BY <1>1, WildcardBaseInNames
    <2>2. g # h => WildcardBase(g) # WildcardBase(h)
      BY <1>1, WildcardBaseInjective
    <2> QED BY <1>1, <2>1, <2>2 DEF Table, Put, Entry
  <1>2. CASE ~(IsWildcard(h) /\ IsWildcard(g))
    BY <1>2, WildcardBaseInNames DEF Table, Put, Entry
  <1> QED BY <1>1, <1>2

LEMMA PutInTable ==
    ASSUME NEW V, NEW t \in Table(V), NEW h \in Names, NEW v \in V \cup {Absent}
    PROVE  Put(t, h, v) \in Table(V)
  BY WildcardBaseInNames DEF Table, Put

LEMMA TableOfInTable ==
    ASSUME NEW V, NEW f \in [Names -> V \cup {Absent}]
    PROVE  TableOf(f) \in Table(V)
  BY DEF Table, TableOf

\* A table filled from f has f[h] as the entry of every name h.
THEOREM EntryOfTableOf ==
    ASSUME NEW f, NEW h \in Names
    PROVE  Entry(TableOf(f), h) = f[h]
  <1>1. CASE IsWildcard(h)
    <2>1. WildcardBase(h) \in Names /\ WildcardOf(WildcardBase(h)) = h
      BY <1>1, WildcardBaseInNames, WildcardOfBase
    <2> QED BY <1>1, <2>1 DEF TableOf, Entry
  <1>2. CASE ~IsWildcard(h)
    BY <1>2 DEF TableOf, Entry
  <1> QED BY <1>1, <1>2

LEMMA EntryInTable ==
    ASSUME NEW V, NEW t \in Table(V), NEW h \in Names
    PROVE  Entry(t, h) \in V \cup {Absent}
  BY WildcardBaseInNames DEF Table, Entry

LEMMA EmptyTableInTable ==
    ASSUME NEW V
    PROVE  /\ EmptyTable \in Table(V)
           /\ \A h \in Names : Entry(EmptyTable, h) = Absent
  BY WildcardBaseInNames DEF Table, EmptyTable, Entry
=============================================================================
