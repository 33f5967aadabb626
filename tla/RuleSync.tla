------------------------------ MODULE RuleSync ------------------------------
(***************************************************************************)
(* Proxy rules live in four places: the proxy_rules table of the database  *)
(* and three in-memory tables, the reverse proxy's, the forward proxy's    *)
(* and the DNS auto records.  The REST handlers of app/api/server.go       *)
(* change the row first and then the memory, one lock at a time; nothing   *)
(* orders two handlers.  Each step below is one database statement or one  *)
(* critical section of a handler running in its own goroutine.             *)
(***************************************************************************)
EXTENDS RoutingTable

CONSTANTS Workers,    \* goroutines serving REST requests
          Hosts,      \* host names clients ask for, valid or not
          Backends,   \* backend protocol, address and port of a rule
          MaxId,      \* bound: ids AUTOINCREMENT may hand out
          IPLists,    \* values ResolveListenIPs may return
          Faults      \* which statements may fail: a handler's SELECT of a row, its
                      \* UPDATE or DELETE, the SELECTs of a sync, those of a start

ASSUME RuleSyncAssumption ==
    /\ Hosts \subseteq Names
    /\ MaxId \in Nat
    /\ Faults \subseteq {"read", "write", "sync", "start"}

VARIABLES rows,       \* the proxy_rules table, by id
          nextId,     \* the next AUTOINCREMENT value
          rp,         \* ReverseProxy.rules and wildcardRules
          fp,         \* ForwardProxy.rules and wildcardRules
          auto,       \* AutoRecordMap
          listenIPs,  \* what ResolveListenIPs would return now
          op          \* the locals of each request handler

vars == <<rows, nextId, rp, fp, auto, listenIPs, op>>

Ids == 1..MaxId
NoBackend == "none"
Rule == [id : Nat, hostname : Names, backend : Backends \cup {NoBackend},
         enabled : BOOLEAN]

ASSUME AbsentAssumption == Absent \notin Rule /\ Absent \notin IPLists

\* The zero models.ProxyRule, which a failed Scan leaves behind.
ZeroRule == [id |-> 0, hostname |-> NoHost, backend |-> NoBackend,
             enabled |-> FALSE]

Idle == [pc |-> "idle", id |-> 0, old |-> NoHost, rule |-> ZeroRule,
         ips |-> Absent, active |-> {}, todo |-> {}]

\* The rows selected by hostname; UNIQUE makes it at most one.
HasHost(rs, i, h) == rs[i] # Absent /\ rs[i].hostname = h
RowOf(rs, h) == IF \E i \in Ids : HasHost(rs, i, h)
                THEN rs[CHOOSE i \in Ids : HasHost(rs, i, h)]
                ELSE Absent
EnabledOf(rs, h) == LET r == RowOf(rs, h)
                    IN  IF r = Absent \/ ~r.enabled THEN Absent ELSE r
EnabledHosts(rs) == {h \in Names : EnabledOf(rs, h) # Absent}

\* What a SELECT of all rows gets to see.  A Scan that fails skips its row, and a
\* Next that fails ends the loop; nobody asks rows.Err.
Select(fault) == LET seen(ids) == [i \in Ids |-> IF i \in ids THEN rows[i] ELSE Absent]
                 IN  {rows} \cup (IF fault \in Faults THEN {seen(ids) : ids \in SUBSET Ids} ELSE {})

\* SELECT ... WHERE id = i, and the host name a Scan with its error dropped gets.
RowAt(i) == IF i \in Ids THEN rows[i] ELSE Absent
HostnameOf(i) == IF RowAt(i) = Absent THEN NoHost ELSE RowAt(i).hostname

HostnameTaken(h, i) == \E j \in Ids \ {i} : HasHost(rows, j, h)

\* Deviation: disabled rules are published, too.
PublishDisabled(t, rule) == Put(t, rule.hostname, rule)

\* Deviation: disabling leaves what was published.
PublishKeeps(t, rule) == IF rule.enabled THEN Put(t, rule.hostname, rule) ELSE t

Publish(t, rule) == IF rule.enabled THEN Put(t, rule.hostname, rule)
                    ELSE Drop(t, rule.hostname)

Become(w, locals) == op' = [op EXCEPT ![w] = locals]
Begin(w, locals)  == op[w].pc = "idle" /\ Become(w, locals)
Goto(w, pc)       == Become(w, [op[w] EXCEPT !.pc = pc])
Finish(w)         == Become(w, Idle)

\* The rule a proxied request for h is served by; a disabled one serves none.
Serves(t, h) == LET r == Match(t, h)
                IN  IF r = Absent \/ ~r.enabled THEN Absent ELSE r

-----------------------------------------------------------------------------
(* The tables a start builds from the rows: LoadRules takes every row, the *)
(* forward proxy and the auto records only the enabled ones.               *)
LoadRules(rs) == TableOf([h \in Names |-> RowOf(rs, h)])
SyncForwardProxyRules(rs) == TableOf([h \in Names |-> EnabledOf(rs, h)])
BuildAutoRecords(rs, ips) ==
    TableOf([h \in Names |-> IF EnabledOf(rs, h) = Absent THEN Absent ELSE ips])

Init == /\ rows = [i \in Ids |-> Absent]
        /\ nextId = 1
        /\ rp = EmptyTable
        /\ fp = EmptyTable
        /\ auto = EmptyTable
        /\ listenIPs \in IPLists
        /\ op = [w \in Workers |-> Idle]

\* Deviation: the column is not UNIQUE.
CreateTwice(w, h, b, e) ==
    LET rule == [id |-> nextId, hostname |-> h, backend |-> b, enabled |-> e]
    IN  /\ IsValidProxyHostname(h)
        /\ nextId <= MaxId
        /\ Begin(w, [Idle EXCEPT !.pc = "rpUpdate", !.id = nextId, !.rule = rule])
        /\ rows' = [rows EXCEPT ![nextId] = rule]
        /\ nextId' = nextId + 1
        /\ UNCHANGED <<rp, fp, auto, listenIPs>>

-----------------------------------------------------------------------------
(* POST /proxy/rules: the INSERT is the first step; a duplicate hostname   *)
(* is refused by the UNIQUE column.  The certificate it has made in the    *)
(* background is a call of CertManager.                                    *)
Create(w, h, b, e) ==
    LET rule == [id |-> nextId, hostname |-> h, backend |-> b, enabled |-> e]
    IN  /\ IsValidProxyHostname(h)
        /\ nextId <= MaxId
        /\ ~HostnameTaken(h, 0)
        /\ Begin(w, [Idle EXCEPT !.pc = "rpUpdate", !.id = nextId, !.rule = rule])
        /\ rows' = [rows EXCEPT ![nextId] = rule]
        /\ nextId' = nextId + 1
        /\ UNCHANGED <<rp, fp, auto, listenIPs>>

(* PUT /proxy/rules/:id: the old hostname is read first, its error ignored, *)
(* and the id is never checked.                                             *)
BeginUpdate(w, i, h, b, e) ==
    /\ IsValidProxyHostname(h)
    /\ \E old \in {HostnameOf(i)} \cup (IF "read" \in Faults THEN {NoHost} ELSE {}) :
           Begin(w, [Idle EXCEPT !.pc = "update", !.id = i, !.old = old,
                     !.rule = [id |-> i, hostname |-> h, backend |-> b, enabled |-> e]])
    /\ UNCHANGED <<rows, nextId, rp, fp, auto, listenIPs>>

\* Deviation: the old host name is forgotten, or removed even if it stays.
CommitNextTo(w, pc) ==
    LET i == op[w].id
    IN  /\ op[w].pc = "update"
        /\ rows[i] # Absent => ~HostnameTaken(op[w].rule.hostname, i)
        /\ rows' = IF rows[i] # Absent THEN [rows EXCEPT ![i] = op[w].rule] ELSE rows
        /\ Goto(w, pc)
        /\ UNCHANGED <<nextId, rp, fp, auto, listenIPs>>
CommitKeepsOld(w) == CommitNextTo(w, "rpUpdate")
CommitRemovesAlways(w) == CommitNextTo(w, "rpRemove")

CommitUpdate(w) ==
    LET i == op[w].id
    IN  /\ op[w].pc = "update"
        /\ rows[i] # Absent => ~HostnameTaken(op[w].rule.hostname, i)
        /\ rows' = IF rows[i] # Absent THEN [rows EXCEPT ![i] = op[w].rule] ELSE rows
        /\ Goto(w, IF op[w].old # op[w].rule.hostname THEN "rpRemove" ELSE "rpUpdate")
        /\ UNCHANGED <<nextId, rp, fp, auto, listenIPs>>

\* The UPDATE breaks the UNIQUE constraint: 500, and nothing has changed.
RefuseUpdate(w) ==
    /\ op[w].pc = "update"
    /\ rows[op[w].id] # Absent /\ HostnameTaken(op[w].rule.hostname, op[w].id)
    /\ Finish(w)
    /\ UNCHANGED <<rows, nextId, rp, fp, auto, listenIPs>>

(* DELETE /proxy/rules/:id *)
BeginDelete(w, i) ==
    /\ \E old \in {HostnameOf(i)} \cup (IF "read" \in Faults THEN {NoHost} ELSE {}) :
           Begin(w, [Idle EXCEPT !.pc = "delete", !.id = i, !.old = old])
    /\ UNCHANGED <<rows, nextId, rp, fp, auto, listenIPs>>

\* Deviation: the reverse proxy is not told.
CommitDeleteSkips(w) ==
    /\ op[w].pc = "delete"
    /\ rows' = [rows EXCEPT ![op[w].id] = Absent]
    /\ Goto(w, "fpRemove")
    /\ UNCHANGED <<nextId, rp, fp, auto, listenIPs>>

CommitDelete(w) ==
    /\ op[w].pc = "delete"
    /\ rows' = [rows EXCEPT ![op[w].id] = Absent]
    /\ Goto(w, "rpRemove")
    /\ UNCHANGED <<nextId, rp, fp, auto, listenIPs>>

\* A write the database refuses ends a PUT or a DELETE with 500.
WriteFails(w) ==
    /\ "write" \in Faults
    /\ op[w].pc \in {"update", "delete"}
    /\ Finish(w)
    /\ UNCHANGED <<rows, nextId, rp, fp, auto, listenIPs>>

(* PATCH /proxy/rules/:id/toggle: read enabled (404 without a row), write   *)
(* its negation, read the row back.  Only the first error is looked at.     *)
BeginToggle(w, i) ==
    /\ rows[i] # Absent
    /\ Begin(w, [Idle EXCEPT !.pc = "toggle", !.id = i,
                 !.rule = [ZeroRule EXCEPT !.enabled = ~rows[i].enabled]])
    /\ UNCHANGED <<rows, nextId, rp, fp, auto, listenIPs>>

CommitToggle(w) ==
    LET i == op[w].id
    IN  /\ op[w].pc = "toggle"
        /\ \/ rows' = IF rows[i] # Absent
                      THEN [rows EXCEPT ![i].enabled = op[w].rule.enabled]
                      ELSE rows
           \/ "write" \in Faults /\ rows' = rows
        /\ Become(w, [op[w] EXCEPT !.pc = "reread", !.rule = ZeroRule])
        /\ UNCHANGED <<nextId, rp, fp, auto, listenIPs>>

Reread(w) ==
    /\ op[w].pc = "reread"
    /\ \E rule \in {IF RowAt(op[w].id) = Absent THEN ZeroRule ELSE RowAt(op[w].id)}
                   \cup (IF "read" \in Faults THEN {ZeroRule} ELSE {}) :
           Become(w, [op[w] EXCEPT !.pc = "rpUpdate", !.rule = rule])
    /\ UNCHANGED <<rows, nextId, rp, fp, auto, listenIPs>>

-----------------------------------------------------------------------------
(* The memory steps, each under the lock of the one table it changes.      *)
RpRemove(w) ==
    /\ op[w].pc = "rpRemove"
    /\ rp' = Drop(rp, op[w].old)
    /\ Goto(w, "fpRemove")
    /\ UNCHANGED <<rows, nextId, fp, auto, listenIPs>>

\* Deviation: the new host name is removed in place of the old one.
FpRemovesNew(w) ==
    /\ op[w].pc = "fpRemove"
    /\ fp' = Drop(fp, op[w].rule.hostname)
    /\ Goto(w, "autoRemove")
    /\ UNCHANGED <<rows, nextId, rp, auto, listenIPs>>

FpRemove(w) ==
    /\ op[w].pc = "fpRemove"
    /\ fp' = Drop(fp, op[w].old)
    /\ Goto(w, "autoRemove")
    /\ UNCHANGED <<rows, nextId, rp, auto, listenIPs>>

\* DELETE ends here without a sync; a PUT goes on to publish its rule.
AutoRemove(w) ==
    /\ op[w].pc = "autoRemove"
    /\ auto' = Drop(auto, op[w].old)
    /\ IF op[w].rule = ZeroRule THEN Finish(w)
       ELSE Become(w, [op[w] EXCEPT !.pc = "rpUpdate", !.old = NoHost])
    /\ UNCHANGED <<rows, nextId, rp, fp, listenIPs>>

RpUpdate(w) ==
    /\ op[w].pc = "rpUpdate"
    /\ rp' = Publish(rp, op[w].rule)
    /\ Goto(w, "fpUpdate")
    /\ UNCHANGED <<rows, nextId, fp, auto, listenIPs>>

FpUpdate(w) ==
    /\ op[w].pc = "fpUpdate"
    /\ fp' = Publish(fp, op[w].rule)
    /\ Become(w, [Idle EXCEPT !.pc = "resolve"])
    /\ UNCHANGED <<rows, nextId, rp, auto, listenIPs>>

-----------------------------------------------------------------------------
(* syncAutoRecords: resolve the addresses, select the enabled host names,  *)
(* set each, then list the table and delete what was not selected.         *)
SyncResolve(w) ==
    /\ op[w].pc = "resolve"
    /\ Become(w, [op[w] EXCEPT !.pc = "query", !.ips = listenIPs])
    /\ UNCHANGED <<rows, nextId, rp, fp, auto, listenIPs>>

SyncQuery(w) ==
    /\ op[w].pc = "query"
    /\ \E rs \in Select("sync") :
           Become(w, [op[w] EXCEPT !.pc = "set", !.active = EnabledHosts(rs),
                                                !.todo = EnabledHosts(rs)])
    /\ UNCHANGED <<rows, nextId, rp, fp, auto, listenIPs>>

\* Deviation: a record gets the active hosts in place of the addresses.
SyncSetHosts(w) ==
    /\ op[w].pc = "set"
    /\ \E h \in op[w].todo :
           /\ auto' = Put(auto, h, op[w].active)
           /\ Become(w, [op[w] EXCEPT !.todo = @ \ {h}])
    /\ UNCHANGED <<rows, nextId, rp, fp, listenIPs>>

SyncSet(w) ==
    /\ op[w].pc = "set"
    /\ \E h \in op[w].todo :
           /\ auto' = Put(auto, h, op[w].ips)
           /\ Become(w, [op[w] EXCEPT !.todo = @ \ {h}])
    /\ UNCHANGED <<rows, nextId, rp, fp, listenIPs>>

\* Deviation: everything is pruned, or nothing.
SyncListOf(w, hosts) ==
    /\ op[w].pc = "set" /\ op[w].todo = {}
    /\ Become(w, [op[w] EXCEPT !.pc = "prune", !.todo = hosts])
    /\ UNCHANGED <<rows, nextId, rp, fp, auto, listenIPs>>
SyncListAll(w) == SyncListOf(w, Keys(auto))
SyncListNone(w) == SyncListOf(w, {})

SyncList(w) ==
    /\ op[w].pc = "set" /\ op[w].todo = {}
    /\ Become(w, [op[w] EXCEPT !.pc = "prune", !.todo = Keys(auto) \ op[w].active])
    /\ UNCHANGED <<rows, nextId, rp, fp, auto, listenIPs>>

SyncPrune(w) ==
    /\ op[w].pc = "prune"
    /\ \E h \in op[w].todo :
           /\ auto' = Drop(auto, h)
           /\ Become(w, [op[w] EXCEPT !.todo = @ \ {h}])
    /\ UNCHANGED <<rows, nextId, rp, fp, listenIPs>>

SyncDone(w) ==
    /\ op[w].pc = "prune" /\ op[w].todo = {}
    /\ Finish(w)
    /\ UNCHANGED <<rows, nextId, rp, fp, auto, listenIPs>>

\* No addresses or no query result: the sync returns, the request succeeds.
SyncFails(w) ==
    /\ "sync" \in Faults
    /\ op[w].pc \in {"resolve", "query"}
    /\ Finish(w)
    /\ UNCHANGED <<rows, nextId, rp, fp, auto, listenIPs>>

-----------------------------------------------------------------------------
\* The process dies at any point and starts again from the database.  Each table
\* is read by a SELECT of its own; one that fails is a warning, and its table stays
\* empty (as do the auto records when the addresses cannot be resolved).
Restart ==
    /\ \E rs \in Select("start") : rp' = LoadRules(rs)
    /\ \E rs \in Select("start") : fp' = SyncForwardProxyRules(rs)
    /\ \E rs \in Select("start") : auto' = BuildAutoRecords(rs, listenIPs)
    /\ op' = [w \in Workers |-> Idle]
    /\ UNCHANGED <<rows, nextId, listenIPs>>

\* An interface changes its address.
ListenIPsChange ==
    /\ \E ips \in IPLists : listenIPs' = ips
    /\ UNCHANGED <<rows, nextId, rp, fp, auto, op>>

Request(w) ==
    \/ \E h \in Hosts, b \in Backends, e \in BOOLEAN :
           \/ Create(w, h, b, e)
           \/ \E i \in Ids : BeginUpdate(w, i, h, b, e)
    \/ \E i \in Ids : BeginDelete(w, i) \/ BeginToggle(w, i)

Handler(w) ==
    \/ CommitUpdate(w) \/ RefuseUpdate(w) \/ CommitDelete(w) \/ WriteFails(w)
    \/ CommitToggle(w) \/ Reread(w)
    \/ RpRemove(w) \/ FpRemove(w) \/ AutoRemove(w) \/ RpUpdate(w) \/ FpUpdate(w)
    \/ SyncResolve(w) \/ SyncQuery(w) \/ SyncSet(w) \/ SyncList(w)
    \/ SyncPrune(w) \/ SyncDone(w) \/ SyncFails(w)

Next == \/ \E w \in Workers : Request(w) \/ Handler(w)
        \/ Restart
        \/ ListenIPsChange

Spec == Init /\ [][Next]_vars
=============================================================================
