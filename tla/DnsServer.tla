----------------------------- MODULE DnsServer ------------------------------
(***************************************************************************)
(* The DNS server (app/dns/server.go): a query is answered from the manual *)
(* records of the database, else from the auto records in memory, else by  *)
(* an upstream server.  Every query has a goroutine of its own; between    *)
(* its look-ups the REST API may change the records and the rules.         *)
(***************************************************************************)
EXTENDS RoutingTable

CONSTANTS Resolvers,    \* goroutines handling a query
          Asked,        \* names queries are for
          RuleHosts,    \* host names of proxy rules
          IPLists,      \* values of auto records
          RecordIds,    \* ids of manual records
          RecordNames,  \* names of manual records
          Clients,      \* addresses queries come from
          Nics,         \* this host's own addresses, where queries arrive
          Servers,      \* addresses of upstream servers
          SystemDNS,    \* the servers of /etc/resolv.conf, in order
          Fallback,     \* upstream_dns_fallback, in order
          HistorySize,  \* dns_query_history_size
          DbFails       \* whether the look-up of manual records may fail

ASSUME DnsAssumption ==
    /\ Asked \subseteq Names /\ RecordNames \subseteq Names /\ RuleHosts \subseteq Names
    /\ Nics \subseteq Clients /\ SystemDNS \in Seq(Servers) /\ Fallback \in Seq(Servers)
    /\ HistorySize \in Nat \ {0}
    /\ DbFails \in BOOLEAN

VARIABLES records,  \* the table dns_records, by id
          auto,     \* AutoRecordMap
          history,  \* the query history, oldest first
          op        \* the locals of each query's goroutine

vars == <<records, auto, history, op>>

\* Query types: the one auto records have, the others dns_records has, the rest.
StoredTypes == {"A", "other"}
QTypes == StoredTypes \cup {"unsupported"}

\* A record whose value does not parse yields no answer.
Record == [name : RecordNames, type : StoredTypes, usable : BOOLEAN]

Idle == [pc |-> "idle", name |-> NoHost, type |-> "A", client |-> Absent,
         nic |-> Absent, servers |-> << >>, kind |-> "none"]

ManualRecords(name, type) ==
    {i \in RecordIds : /\ records[i] # Absent
                       /\ records[i].name = name /\ records[i].type = type
                       /\ records[i].usable}

\* UpstreamMap.Build at start-up, and Resolve, which is given the client's address.
Mapping == [nic \in Nics |-> IF SystemDNS # << >> THEN SystemDNS ELSE Fallback]
Resolve(addr) == IF addr \in Nics /\ Mapping[addr] # << >> THEN Mapping[addr] ELSE Fallback

Log == INSTANCE BoundedLog WITH Size <- HistorySize, log <- history,
           LogEntry <- [name : Asked, type : QTypes, kind : {"manual", "auto", "upstream"}]

Init == /\ records = [i \in RecordIds |-> Absent]
        /\ auto = EmptyTable
        /\ history = << >>
        /\ op = [s \in Resolvers |-> Idle]

Become(s, locals) == op' = [op EXCEPT ![s] = locals]
Goto(s, pc) == Become(s, [op[s] EXCEPT !.pc = pc])

\* The reply is written; the query is logged next.
Reply(s, kind) == Become(s, [op[s] EXCEPT !.pc = "log", !.kind = kind])

-----------------------------------------------------------------------------
(* handleQuery.  A message without a question gets an empty reply and no   *)
(* entry in the history: it changes nothing, and is no action here.        *)
Receive(s, name, type, client, nic) ==
    /\ op[s].pc = "idle"
    /\ Become(s, [Idle EXCEPT !.pc = IF type \in StoredTypes THEN "manual" ELSE "resolve",
                  !.name = name, !.type = type, !.client = client, !.nic = nic])
    /\ UNCHANGED <<records, auto, history>>

\* Deviation: auto records answer queries of every type.
LookupManualAnyType(s) ==
    /\ op[s].pc = "manual"
    /\ IF ManualRecords(op[s].name, op[s].type) # {} THEN Reply(s, "manual")
       ELSE Goto(s, "auto")
    /\ UNCHANGED <<records, auto, history>>

LookupManual(s) ==
    /\ op[s].pc = "manual"
    /\ \/ ManualRecords(op[s].name, op[s].type) # {} /\ Reply(s, "manual")
       \/ /\ ManualRecords(op[s].name, op[s].type) = {} \/ DbFails
          /\ Goto(s, IF op[s].type = "A" THEN "auto" ELSE "resolve")
    /\ UNCHANGED <<records, auto, history>>

LookupAuto(s) ==
    /\ op[s].pc = "auto"
    /\ IF Match(auto, op[s].name) # Absent THEN Reply(s, "auto") ELSE Goto(s, "resolve")
    /\ UNCHANGED <<records, auto, history>>

\* forwardQuery asks the servers one after the other, all within one deadline.
ResolveUpstreams(s) ==
    /\ op[s].pc = "resolve"
    /\ Become(s, [op[s] EXCEPT !.pc = "forward", !.servers = Resolve(op[s].client)])
    /\ UNCHANGED <<records, auto, history>>

\* Deviation: the servers are asked round and round.
ExchangeAgain(s) ==
    /\ op[s].pc = "forward" /\ op[s].servers # << >>
    /\ \/ Reply(s, "upstream")
       \/ Become(s, [op[s] EXCEPT !.servers = Append(Tail(@), Head(@))])
    /\ UNCHANGED <<records, auto, history>>

Exchange(s) ==
    /\ op[s].pc = "forward" /\ op[s].servers # << >>
    /\ \/ Reply(s, "upstream")
       \/ Become(s, [op[s] EXCEPT !.servers = Tail(@)])
    /\ UNCHANGED <<records, auto, history>>

ServFail(s) ==
    /\ op[s].pc = "forward" /\ op[s].servers = << >>
    /\ Reply(s, "upstream")
    /\ UNCHANGED <<records, auto, history>>

\* Deviation: the history only grows.
LogQueryGrows(s) ==
    /\ op[s].pc = "log"
    /\ history' = Append(history, [name |-> op[s].name, type |-> op[s].type,
                                   kind |-> op[s].kind])
    /\ Become(s, Idle)
    /\ UNCHANGED <<records, auto>>

LogQuery(s) ==
    /\ op[s].pc = "log"
    /\ history' = Log!Push(history, [name |-> op[s].name, type |-> op[s].type,
                                     kind |-> op[s].kind])
    /\ Become(s, Idle)
    /\ UNCHANGED <<records, auto>>

-----------------------------------------------------------------------------
(* POST, PUT and DELETE of /dns/records, one statement each.               *)
CreateRecord(i, record) ==
    /\ records[i] = Absent
    /\ records' = [records EXCEPT ![i] = record]
    /\ UNCHANGED <<auto, history, op>>

UpdateRecord(i, record) ==
    /\ records' = IF records[i] = Absent THEN records ELSE [records EXCEPT ![i] = record]
    /\ UNCHANGED <<auto, history, op>>

DeleteRecord(i) ==
    /\ records' = [records EXCEPT ![i] = Absent]
    /\ UNCHANGED <<auto, history, op>>

(* AutoRecordMap.Set and Delete, as the rule handlers call them.           *)
SetAuto(h, ips) == auto' = Put(auto, h, ips) /\ UNCHANGED <<records, history, op>>
DeleteAuto(h) == auto' = Drop(auto, h) /\ UNCHANGED <<records, history, op>>

-----------------------------------------------------------------------------
Query(s) == \E name \in Asked, type \in QTypes, client \in Clients, nic \in Nics :
                Receive(s, name, type, client, nic)
Handle(s) == \/ LookupManual(s) \/ LookupAuto(s) \/ ResolveUpstreams(s)
             \/ Exchange(s) \/ ServFail(s) \/ LogQuery(s)

EditRecords == \E i \in RecordIds : \/ \E record \in Record : \/ CreateRecord(i, record)
                                                              \/ UpdateRecord(i, record)
                                    \/ DeleteRecord(i)
EditRules == \E h \in RuleHosts : DeleteAuto(h) \/ \E ips \in IPLists : SetAuto(h, ips)

Next == (\E s \in Resolvers : Query(s) \/ Handle(s)) \/ EditRecords \/ EditRules

Spec == Init /\ [][Next]_vars

\* Every goroutine runs on; an upstream that never answers runs into the deadline.
FairSpec == Spec /\ \A s \in Resolvers : WF_vars(Handle(s))

=============================================================================
