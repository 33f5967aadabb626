----------------------------- MODULE DnsProofs ------------------------------
(* The DNS server: types, for any queries, records, rules and upstreams; the *)
(* history never outgrows its bound; a query gets an answer that was right.  *)
EXTENDS DnsWatched, RoutingTableProofs

Entries == [name : Asked, type : QTypes, kind : {"manual", "auto", "upstream"}]
Locals == [pc : {"idle", "manual", "auto", "resolve", "forward", "log"},
           name : Names, type : QTypes, client : Clients \cup {Absent},
           nic : Nics \cup {Absent}, servers : Seq(Servers),
           kind : {"none", "manual", "auto", "upstream"}]

\* A query that is being handled has the name it asked for, and one that has been
\* answered has a kind of answer: what the history is given is an entry.
LocalsInv(o) == /\ o.pc # "idle" => o.name \in Asked
                /\ o.pc = "log" => o.kind # "none"

DnsInv == TypeOK /\ \A s \in Resolvers : LocalsInv(op[s])

LEMMA Types == /\ TypeOK <=>
                      /\ records \in [RecordIds -> Record \cup {Absent}]
                      /\ auto \in Table(IPLists)
                      /\ history \in Seq(Entries) /\ Len(history) <= HistorySize
                      /\ op \in [Resolvers -> Locals]
               /\ Idle \in Locals /\ LocalsInv(Idle)
               /\ \A addr : Resolve(addr) \in Seq(Servers)
  <1>1. Mapping \in [Nics -> Seq(Servers)]
    BY DnsAssumption DEF Mapping
  <1>2. \A addr : Resolve(addr) \in Seq(Servers)
    BY <1>1, DnsAssumption DEF Resolve
  <1>3. Idle \in Locals /\ LocalsInv(Idle)
    BY NamesAssumption DEF Idle, Locals, LocalsInv, QTypes, StoredTypes
  <1> QED BY <1>2, <1>3 DEF TypeOK, Entries, Locals

LEMMA DnsInit == Init => DnsInv
  BY Types, EmptyTableInTable, DnsAssumption DEF Init, DnsInv

\* A step that changes the locals of one goroutine alone.
LEMMA StepAlone ==
    ASSUME DnsInv, NEW s \in Resolvers, NEW o \in Locals, LocalsInv(o), Become(s, o),
           records' = records, auto' = auto,
           history' \in Seq(Entries), Len(history') <= HistorySize
    PROVE  DnsInv'
  <1>1. op \in [Resolvers -> Locals] /\ \A u \in Resolvers : LocalsInv(op[u])
    BY Types DEF DnsInv
  <1>2. op' \in [Resolvers -> Locals] /\ \A u \in Resolvers : LocalsInv(op'[u])
    BY <1>1 DEF Become
  <1>3. TypeOK'
    BY <1>2, Types DEF DnsInv, TypeOK, Entries, Locals
  <1>4. \A u \in Resolvers : LocalsInv(op[u])'
    BY <1>2 DEF LocalsInv
  <1> QED BY <1>3, <1>4 DEF DnsInv

LEMMA QueryInv == ASSUME DnsInv, NEW s \in Resolvers, Query(s) PROVE DnsInv'
  <1>1. PICK name \in Asked, type \in QTypes, client \in Clients, nic \in Nics :
            Receive(s, name, type, client, nic)
    BY DEF Query
  <1> DEFINE o == [Idle EXCEPT !.pc = IF type \in StoredTypes THEN "manual" ELSE "resolve",
                   !.name = name, !.type = type, !.client = client, !.nic = nic]
  <1>2. /\ o \in [pc : {"manual", "resolve"}, name : Names, type : QTypes, client : Clients,
                   nic : Nics, servers : {<< >>}, kind : {"none"}]
        /\ o.name = name /\ o.pc # "log"
    BY DnsAssumption DEF Idle
  <1>3. Become(s, o) /\ UNCHANGED <<records, auto, history>>
    BY <1>1 DEF Receive
  <1>4. history' \in Seq(Entries) /\ Len(history') <= HistorySize
    BY <1>3, Types DEF DnsInv
  <1> HIDE DEF o
  <1>5. o \in Locals /\ LocalsInv(o)
    <2>1. << >> \in Seq(Servers)
      OBVIOUS
    <2>2. o.name \in Asked /\ o.pc # "log"
      BY <1>2
    <2>3. o \in Locals
      BY <1>2, <2>1 DEF Locals
    <2> QED BY <2>2, <2>3 DEF LocalsInv
  <1> QED BY <1>3, <1>4, <1>5, StepAlone

\* The newest HistorySize entries are at most so many.
LEMMA PushInv ==
    ASSUME NEW l \in Seq(Entries), Len(l) <= HistorySize, NEW e \in Entries
    PROVE  Log!Push(l, e) \in Seq(Entries) /\ Len(Log!Push(l, e)) <= HistorySize
  <1>1. CASE Len(l) < HistorySize
    BY <1>1, DnsAssumption DEF Log!Push
  <1>2. CASE Len(l) = HistorySize
    <2>1. l # << >>
      BY <1>2, DnsAssumption
    <2>2. Tail(l) \in Seq(Entries) /\ Len(Tail(l)) = HistorySize - 1
      BY <1>2, <2>1
    <2> QED BY <1>2, <2>2, DnsAssumption DEF Log!Push
  <1> QED BY <1>1, <1>2, DnsAssumption

LEMMA HandleInv == ASSUME DnsInv, NEW s \in Resolvers, Handle(s) PROVE DnsInv'
  <1>0. /\ op[s] \in Locals /\ LocalsInv(op[s])
        /\ history \in Seq(Entries) /\ Len(history) <= HistorySize
    BY Types DEF DnsInv
  <1>1. ASSUME NEW pc \in {"auto", "resolve"}, op[s].pc # "idle", Goto(s, pc),
               UNCHANGED <<records, auto, history>>
        PROVE  DnsInv'
    <2> DEFINE o == [op[s] EXCEPT !.pc = pc]
    <2>1. o \in Locals /\ LocalsInv(o)
      BY <1>0, <1>1 DEF Locals, LocalsInv
    <2>2. Become(s, o)
      BY <1>1 DEF Goto
    <2> HIDE DEF o
    <2> QED BY <1>0, <1>1, <2>1, <2>2, StepAlone
  <1>2. ASSUME NEW kind \in {"manual", "auto", "upstream"}, op[s].pc # "idle",
               Reply(s, kind), UNCHANGED <<records, auto, history>>
        PROVE  DnsInv'
    <2> DEFINE o == [op[s] EXCEPT !.pc = "log", !.kind = kind]
    <2>1. o \in Locals /\ LocalsInv(o)
      BY <1>0, <1>2 DEF Locals, LocalsInv
    <2>2. Become(s, o)
      BY <1>2 DEF Reply
    <2> HIDE DEF o
    <2> QED BY <1>0, <1>2, <2>1, <2>2, StepAlone
  <1>3. CASE LookupManual(s) \/ LookupAuto(s) \/ ServFail(s)
    BY <1>1, <1>2, <1>3 DEF LookupManual, LookupAuto, ServFail
  <1>4. ASSUME NEW servers \in Seq(Servers), op[s].pc \in {"resolve", "forward"},
               Become(s, [op[s] EXCEPT !.pc = "forward", !.servers = servers]),
               UNCHANGED <<records, auto, history>>
        PROVE  DnsInv'
    <2> DEFINE o == [op[s] EXCEPT !.pc = "forward", !.servers = servers]
    <2>1. o \in Locals /\ LocalsInv(o)
      BY <1>0, <1>4 DEF Locals, LocalsInv
    <2>2. Become(s, o)
      BY <1>4
    <2> HIDE DEF o
    <2> QED BY <1>0, <1>4, <2>1, <2>2, StepAlone
  <1>5. CASE ResolveUpstreams(s)
    BY <1>4, <1>5, Types DEF ResolveUpstreams
  <1>6. CASE Exchange(s)
    <2>1. CASE Reply(s, "upstream")
      BY <1>2, <1>6, <2>1 DEF Exchange
    <2>2. CASE Become(s, [op[s] EXCEPT !.servers = Tail(@)])
      <3>1. op[s].servers \in Seq(Servers) /\ op[s].servers # << >> /\ op[s].pc = "forward"
        BY <1>0, <1>6 DEF Locals, Exchange
      <3>2. Tail(op[s].servers) \in Seq(Servers)
        BY <3>1
      <3>3. [op[s] EXCEPT !.servers = Tail(@)]
              = [op[s] EXCEPT !.pc = "forward", !.servers = Tail(op[s].servers)]
        BY <1>0, <3>1 DEF Locals
      <3> QED BY <1>4, <1>6, <2>2, <3>1, <3>2, <3>3 DEF Exchange
    <2> QED BY <1>6, <2>1, <2>2 DEF Exchange
  <1>7. CASE LogQuery(s)
    <2> DEFINE e == [name |-> op[s].name, type |-> op[s].type, kind |-> op[s].kind]
    <2>1. e \in Entries
      BY <1>0, <1>7 DEF Locals, LocalsInv, LogQuery, Entries
    <2>2. history' = Log!Push(history, e) /\ Become(s, Idle) /\ UNCHANGED <<records, auto>>
      BY <1>7 DEF LogQuery
    <2> HIDE DEF e
    <2>3. history' \in Seq(Entries) /\ Len(history') <= HistorySize
      BY <1>0, <2>1, <2>2, PushInv
    <2> QED BY <2>2, <2>3, StepAlone, Types
  <1> QED BY <1>3, <1>5, <1>6, <1>7 DEF Handle

\* Records and rules are edited while queries are handled.
LEMMA EditInv == ASSUME DnsInv, EditRecords \/ EditRules PROVE DnsInv'
  <1>0. /\ records \in [RecordIds -> Record \cup {Absent}] /\ auto \in Table(IPLists)
    BY DEF DnsInv, TypeOK
  <1>1. ASSUME records' \in [RecordIds -> Record \cup {Absent}], auto' \in Table(IPLists),
               UNCHANGED <<history, op>>
        PROVE  DnsInv'
    BY <1>1 DEF DnsInv, TypeOK, LocalsInv
  <1>2. CASE EditRecords
    <2>1. records' \in [RecordIds -> Record \cup {Absent}]
      BY <1>0, <1>2 DEF EditRecords, CreateRecord, UpdateRecord, DeleteRecord
    <2>2. UNCHANGED <<auto, history, op>>
      BY <1>2 DEF EditRecords, CreateRecord, UpdateRecord, DeleteRecord
    <2> QED BY <1>0, <1>1, <2>1, <2>2
  <1>3. CASE EditRules
    <2>1. PICK h \in RuleHosts, v \in IPLists \cup {Absent} :
              auto' = Put(auto, h, v) /\ UNCHANGED <<records, history, op>>
      BY <1>3 DEF EditRules, SetAuto, DeleteAuto, Drop
    <2> QED BY <1>0, <1>1, <2>1, PutInTable, DnsAssumption
  <1> QED BY <1>2, <1>3

LEMMA InvariantStep == DnsInv /\ [Next]_vars => DnsInv'
  <1> SUFFICES ASSUME DnsInv, [Next]_vars PROVE DnsInv'
    OBVIOUS
  <1>1. CASE UNCHANGED vars
    BY <1>1 DEF vars, DnsInv, TypeOK, LocalsInv
  <1> QED BY <1>1, QueryInv, HandleInv, EditInv DEF Next

\* The DNS server is well typed in every reachable state, for any number of queries
\* and edits at once, and its history never outgrows dns_query_history_size.
THEOREM TypeCorrect == Spec => []TypeOK
  <1>1. DnsInv => TypeOK
    BY DEF DnsInv
  <1> QED BY <1>1, DnsInit, InvariantStep, PTL DEF Spec

-----------------------------------------------------------------------------
(* The kind of answer a query gets was right at some moment.               *)

Both == {"records", "rules"}

\* What one step does to the two history variables of a query.
LEMMA HistoryStep ==
    ASSUME HistoryNext, NEW s \in Resolvers
    PROVE  /\ InFlight(s)' => right'[s] = right[s] \cup {RightKind(op[s].name, op[s].type)'}
           /\ op'[s].pc = "log" => right'[s] = right[s]
           /\ op'[s].pc = "idle" \/ op[s].pc = "idle" => edited'[s] = {}
           /\ op'[s].pc # "idle" /\ op[s].pc = "log" => edited'[s] = edited[s]
           /\ op'[s].pc # "idle" /\ InFlight(s) =>
                 edited'[s] = IF LookupFails(s) THEN Both
                              ELSE IF op[s].pc # "auto" THEN edited[s]
                              ELSE edited[s] \cup (IF records' # records THEN {"records"} ELSE {})
                                             \cup (IF auto' # auto THEN {"rules"} ELSE {})
  BY DEF HistoryNext, InFlight, Both, LookupFails, LookupManual

\* A step of another query, or of the REST API.
LEMMA WatchedByOthers ==
    ASSUME HistoryNext, NEW s \in Resolvers, WatchedInv(s), op'[s] = op[s]
    PROVE  WatchedInv(s)'
  <1>1. CASE op[s].pc = "idle"
    BY <1>1, HistoryStep DEF WatchedInv, InFlight, Both
  <1>2. CASE op[s].pc = "log"
    BY <1>2, HistoryStep DEF WatchedInv, InFlight, Both
  <1>3. CASE InFlight(s)
    <2>1. /\ right'[s] = right[s] \cup {RightKind(op[s].name, op[s].type)'}
          /\ edited[s] \subseteq Both /\ edited'[s] \subseteq Both
          /\ edited'[s] # Both =>
                /\ edited[s] \subseteq edited'[s]
                /\ op[s].pc = "auto" /\ records' # records => "records" \in edited'[s]
                /\ op[s].pc = "auto" /\ auto' # auto => "rules" \in edited'[s]
      <3>1. InFlight(s)' /\ op'[s].pc # "idle" /\ edited[s] \subseteq Both
        BY <1>3 DEF InFlight, WatchedInv, Both
      <3>2. \/ edited'[s] = Both
            \/ edited'[s] = edited[s] /\ op[s].pc # "auto"
            \/ edited'[s] = edited[s] \cup (IF records' # records THEN {"records"} ELSE {})
                                      \cup (IF auto' # auto THEN {"rules"} ELSE {})
        BY <1>3, <3>1, HistoryStep
      <3>3. right'[s] = right[s] \cup {RightKind(op[s].name, op[s].type)'}
        BY <3>1, HistoryStep
      <3> QED BY <3>1, <3>2, <3>3 DEF Both
    <2>2. CASE edited'[s] = Both
      BY <1>3, <2>1, <2>2 DEF WatchedInv, InFlight, Both
    <2>3. CASE edited'[s] # Both
      <3>1. /\ edited[s] # Both
            /\ op[s].pc = "auto" => records' = records \/ auto' = auto
        BY <2>1, <2>3 DEF Both
      <3>2. ASSUME op[s].pc = "auto", ManualRecords(op[s].name, op[s].type) = {}
            PROVE  KindByRules(op[s].name) \in right[s]
        BY <1>3, <3>2 DEF WatchedInv, RightKind, KindByRules
      <3>3. auto' = auto => KindByRules(op[s].name)' = KindByRules(op[s].name)
        BY DEF KindByRules
      <3>4. records' = records => ManualRecords(op[s].name, op[s].type)'
                                    = ManualRecords(op[s].name, op[s].type)
        BY DEF ManualRecords
      <3>5. ASSUME op[s].pc = "auto"
            PROVE  \/ ManualRecords(op[s].name, op[s].type)' = {}
                   \/ "records" \in edited'[s] /\ KindByRules(op[s].name)' \in right'[s]
        <4>1. CASE records' = records /\ ManualRecords(op[s].name, op[s].type) = {}
          BY <3>4, <4>1
        <4>2. CASE records' # records \/ ManualRecords(op[s].name, op[s].type) # {}
          <5>1. "records" \in edited'[s] /\ auto' = auto
            BY <2>1, <2>3, <3>1, <3>5, <4>2 DEF WatchedInv, Both
          <5>2. KindByRules(op[s].name) \in right[s]
            BY <3>1, <3>2, <3>5 DEF WatchedInv, Both
          <5> QED BY <2>1, <3>3, <5>1, <5>2
        <4> QED BY <4>1, <4>2
      <3>6. op[s].pc \in {"resolve", "forward"} => "upstream" \in right'[s]
        BY <2>1, <3>1 DEF WatchedInv, Both
      <3> QED BY <1>3, <2>1, <3>5, <3>6 DEF WatchedInv, InFlight, Both
    <2> QED BY <2>2, <2>3
  <1> QED BY <1>1, <1>2, <1>3 DEF InFlight

LEMMA OwnStep ==
    ASSUME DnsInv, NEW s \in Resolvers, NEW o, Become(s, o)
    PROVE  op'[s] = o /\ \A u \in Resolvers : u # s => op'[u] = op[u]
  BY Types DEF DnsInv, Become

LEMMA ReplyStep ==
    ASSUME DnsInv, NEW s \in Resolvers, NEW kind, Reply(s, kind)
    PROVE  op'[s].pc = "log" /\ op'[s].kind = kind
  <1>1. op[s] \in Locals
    BY Types DEF DnsInv
  <1>2. op'[s] = [op[s] EXCEPT !.pc = "log", !.kind = kind]
    BY OwnStep DEF Reply
  <1> QED BY <1>1, <1>2 DEF Locals

\* A step of the query's own goroutine.
LEMMA WatchedByItself ==
    ASSUME DnsInv, HistoryNext, NEW s \in Resolvers, WatchedInv(s), Query(s) \/ Handle(s)
    PROVE  WatchedInv(s)'
  <1>a. op[s] \in Locals
    BY Types DEF DnsInv
  <1>b. UNCHANGED <<records, auto>>
    BY DEF Query, Handle, Receive, LookupManual, LookupAuto, ResolveUpstreams, Exchange,
           ServFail, LogQuery
  <1>c. \A name, type : /\ ManualRecords(name, type)' = ManualRecords(name, type)
                        /\ RightKind(name, type)' = RightKind(name, type)
                        /\ KindByRules(name)' = KindByRules(name)
    BY <1>b DEF RightKind, ManualRecords, KindByRules
  <1>d. ASSUME InFlight(s), op'[s].pc = "log",
               edited[s] # Both => op'[s].kind \in right[s]
        PROVE  WatchedInv(s)'
    BY <1>b, <1>d, HistoryStep DEF WatchedInv, InFlight, Both
  <1>e. ASSUME InFlight(s), op'[s].pc \in {"resolve", "forward"},
               op'[s].name = op[s].name, op'[s].type = op[s].type,
               ~LookupFails(s) => (edited[s] # Both => "upstream" \in right[s])
        PROVE  WatchedInv(s)'
    BY <1>b, <1>e, HistoryStep DEF WatchedInv, InFlight, Both
  <1>1. CASE Query(s)
    <2>1. PICK name \in Asked, type \in QTypes, client \in Clients, nic \in Nics :
              Receive(s, name, type, client, nic)
      BY <1>1 DEF Query
    <2>2. /\ op[s].pc = "idle" /\ op'[s].name = name /\ op'[s].type = type
          /\ op'[s].pc = IF type \in StoredTypes THEN "manual" ELSE "resolve"
      <3> DEFINE o == [Idle EXCEPT !.pc = IF type \in StoredTypes THEN "manual" ELSE "resolve",
                       !.name = name, !.type = type, !.client = client, !.nic = nic]
      <3>1. /\ o.name = name /\ o.type = type
            /\ o.pc = IF type \in StoredTypes THEN "manual" ELSE "resolve"
        BY DEF Idle
      <3>2. Become(s, o) /\ op[s].pc = "idle"
        BY <2>1 DEF Receive
      <3> HIDE DEF o
      <3> QED BY <3>1, <3>2, OwnStep
    <2>3. /\ edited'[s] = {} /\ InFlight(s)'
          /\ right'[s] = right[s] \cup {RightKind(op[s].name, op[s].type)'}
      BY <2>2, HistoryStep DEF InFlight
    <2>4. type \notin StoredTypes => RightKind(op[s].name, op[s].type)' = "upstream"
      BY <2>2 DEF RightKind, StoredTypes, QTypes
    <2> QED BY <2>2, <2>3, <2>4 DEF WatchedInv, Both
  <1>2. CASE LookupManual(s)
    <2>1. op[s].pc = "manual" /\ op[s].type \in StoredTypes /\ InFlight(s)
          /\ RightKind(op[s].name, op[s].type) \in right[s]
      BY <1>2 DEF LookupManual, WatchedInv, InFlight
    <2>2. CASE ManualRecords(op[s].name, op[s].type) # {} /\ Reply(s, "manual")
      <3>1. op'[s].pc = "log" /\ op'[s].kind = "manual"
        BY <2>2, ReplyStep
      <3>2. "manual" \in right[s]
        BY <2>1, <2>2 DEF RightKind
      <3> QED BY <1>d, <2>1, <3>1, <3>2
    <2>3. CASE Goto(s, IF op[s].type = "A" THEN "auto" ELSE "resolve")
      <3>1. /\ op'[s].pc = IF op[s].type = "A" THEN "auto" ELSE "resolve"
            /\ op'[s].name = op[s].name /\ op'[s].type = op[s].type
        BY <1>a, <2>3, OwnStep DEF Goto, Locals
      <3>2. ~LookupFails(s) => ManualRecords(op[s].name, op[s].type) = {}
        BY <1>2, <3>1 DEF LookupFails
      <3>3. CASE op[s].type = "A"
        <4>1. /\ op'[s].pc = "auto" /\ InFlight(s)'
              /\ right'[s] = right[s] \cup {RightKind(op[s].name, op[s].type)'}
              /\ edited'[s] = IF LookupFails(s) THEN Both ELSE edited[s]
          BY <1>b, <2>1, <3>1, <3>3, HistoryStep DEF InFlight
        <4>2. ~LookupFails(s) => ManualRecords(op[s].name, op[s].type)' = {}
          BY <1>b, <3>1, <3>2 DEF ManualRecords
        <4> QED BY <3>1, <3>3, <4>1, <4>2 DEF WatchedInv, Both
      <3>4. CASE op[s].type # "A"
        <4>1. ~LookupFails(s) => "upstream" \in right[s]
          BY <2>1, <3>2, <3>4 DEF RightKind
        <4> QED BY <1>e, <2>1, <3>1, <3>4, <4>1
      <3> QED BY <3>3, <3>4
    <2> QED BY <1>2, <2>2, <2>3 DEF LookupManual
  <1>3. CASE LookupAuto(s)
    <2>1. /\ op[s].pc = "auto" /\ op[s].type = "A" /\ InFlight(s)
          /\ RightKind(op[s].name, op[s].type) \in right[s]
      BY <1>3 DEF LookupAuto, WatchedInv, InFlight
    <2>2. edited[s] # Both => KindByRules(op[s].name) \in right[s]
      BY <2>1 DEF WatchedInv, RightKind, KindByRules, StoredTypes, Both
    <2>3. CASE Match(auto, op[s].name) # Absent
      <3>1. op'[s].pc = "log" /\ op'[s].kind = "auto"
        BY <1>3, <2>3, ReplyStep DEF LookupAuto
      <3> QED BY <1>d, <2>1, <2>2, <2>3, <3>1 DEF KindByRules
    <2>4. CASE Match(auto, op[s].name) = Absent
      <3>1. op'[s].pc = "resolve" /\ op'[s].name = op[s].name /\ op'[s].type = op[s].type
        BY <1>3, <1>a, <2>4, OwnStep DEF LookupAuto, Goto, Locals
      <3> QED BY <1>e, <2>1, <2>2, <2>4, <3>1 DEF KindByRules
    <2> QED BY <2>3, <2>4
  <1>4. CASE ResolveUpstreams(s) \/ Exchange(s) \/ ServFail(s)
    <2>1. InFlight(s) /\ op[s].pc \in {"resolve", "forward"}
      BY <1>4 DEF ResolveUpstreams, Exchange, ServFail, InFlight
    <2>2. edited[s] # Both => "upstream" \in right[s]
      BY <2>1 DEF WatchedInv, Both
    <2>3. CASE Reply(s, "upstream")
      <3>1. op'[s].pc = "log" /\ op'[s].kind = "upstream"
        BY <2>3, ReplyStep
      <3> QED BY <1>d, <2>1, <2>2, <3>1
    <2>4. ASSUME NEW servers, NEW pc \in {"resolve", "forward"},
                 Become(s, [op[s] EXCEPT !.pc = pc, !.servers = servers])
          PROVE  WatchedInv(s)'
      <3>1. op'[s] = [op[s] EXCEPT !.pc = pc, !.servers = servers]
        BY <2>4, OwnStep
      <3>2. /\ op'[s].pc \in {"resolve", "forward"}
            /\ op'[s].name = op[s].name /\ op'[s].type = op[s].type
        BY <1>a, <3>1 DEF Locals
      <3> QED BY <1>e, <2>1, <2>2, <3>2
    <2>5. CASE ResolveUpstreams(s)
      BY <2>4, <2>5 DEF ResolveUpstreams
    <2>6. CASE Become(s, [op[s] EXCEPT !.servers = Tail(@)])
      <3>1. [op[s] EXCEPT !.servers = Tail(@)]
               = [op[s] EXCEPT !.pc = op[s].pc, !.servers = Tail(op[s].servers)]
        BY <1>a DEF Locals
      <3> QED BY <2>1, <2>4, <2>6, <3>1
    <2> QED BY <1>4, <2>3, <2>5, <2>6 DEF Exchange, ServFail
  <1>5. CASE LogQuery(s)
    <2>1. op'[s].pc = "idle"
      BY <1>5, OwnStep DEF LogQuery, Idle
    <2> QED BY <2>1, HistoryStep DEF WatchedInv, InFlight
  <1> QED BY <1>1, <1>2, <1>3, <1>4, <1>5 DEF Handle

LEMMA WatchedStep ==
    ASSUME DnsInv, AllWatchedInv, [HistoryNext]_dvars
    PROVE  AllWatchedInv'
  <1>1. CASE HistoryNext
    <2> SUFFICES ASSUME NEW s \in Resolvers PROVE WatchedInv(s)'
      BY DEF AllWatchedInv
    <2>1. WatchedInv(s)
      BY DEF AllWatchedInv
    <2>2. CASE Query(s) \/ Handle(s)
      BY <1>1, <2>1, <2>2, WatchedByItself
    <2>3. ASSUME NEW u \in Resolvers, u # s, Query(u) \/ Handle(u) PROVE op'[s] = op[s]
      BY <2>3, OwnStep DEF Query, Handle, Receive, LookupManual, LookupAuto, ResolveUpstreams,
             Exchange, ServFail, LogQuery, Goto, Reply
    <2>4. ASSUME EditRecords \/ EditRules PROVE op'[s] = op[s]
      BY <2>4 DEF EditRecords, EditRules, CreateRecord, UpdateRecord, DeleteRecord,
             SetAuto, DeleteAuto
    <2> QED BY <1>1, <2>1, <2>2, <2>3, <2>4, WatchedByOthers DEF HistoryNext, Next
  <1>2. CASE UNCHANGED dvars
    BY <1>2 DEF dvars, vars, AllWatchedInv, WatchedInv, InFlight, RightKind, ManualRecords,
                KindByRules
  <1> QED BY <1>1, <1>2

\* A query gets the kind of answer that was right at some moment while it was
\* handled, for any number of queries and edits at once, unless both tables were
\* edited between its two look-ups or the record there was could not be read.
THEOREM AnswersWereRight == HistorySpec => []AnswerWasRight
  <1>1. HistoryInit => DnsInv /\ AllWatchedInv
    BY DnsInit DEF HistoryInit, Init, Idle, AllWatchedInv, WatchedInv, InFlight
  <1>2. DnsInv /\ AllWatchedInv /\ [HistoryNext]_dvars => (DnsInv /\ AllWatchedInv)'
    <2>1. [HistoryNext]_dvars => [Next]_vars
      BY DEF HistoryNext, dvars
    <2> QED BY <2>1, InvariantStep, WatchedStep
  <1>3. AllWatchedInv => AnswerWasRight
    BY DEF AllWatchedInv, WatchedInv, AnswerWasRight
  <1> QED BY <1>1, <1>2, <1>3, PTL DEF HistorySpec
=============================================================================
