----------------------------- MODULE DnsProps -------------------------------
(***************************************************************************)
(* What the DNS server promises to a client while records and rules are    *)
(* being edited.                                                           *)
(***************************************************************************)
EXTENDS DnsServer

\* The answer the documented order of look-ups gives, all in one moment: manual
\* record, then auto record, then upstream.
RightKind(name, type) ==
    IF type \in StoredTypes /\ ManualRecords(name, type) # {} THEN "manual"
    ELSE IF type = "A" /\ Match(auto, name) # Absent THEN "auto"
    ELSE "upstream"

\* Type correctness of the tables, the history and the goroutines.
TypeOK ==
    /\ records \in [RecordIds -> Record \cup {Absent}]
    /\ auto \in Table(IPLists)
    /\ history \in Seq([name : Asked, type : QTypes, kind : {"manual", "auto", "upstream"}])
    /\ Len(history) <= HistorySize
    /\ op \in [Resolvers ->
                [pc : {"idle", "manual", "auto", "resolve", "forward", "log"},
                 name : Names, type : QTypes, client : Clients \cup {Absent},
                 nic : Nics \cup {Absent}, servers : Seq(Servers),
                 kind : {"none", "manual", "auto", "upstream"}]]

-----------------------------------------------------------------------------
\* Liveness: every query is answered and logged, if only with SERVFAIL.
QueriesEnd == \A s \in Resolvers : op[s].pc # "idle" ~> op[s].pc = "idle"
=============================================================================
