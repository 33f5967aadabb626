--------------------------- MODULE RuleSyncProofs ---------------------------
(* Type correctness of RuleSync for every client, and RoutesFollowRows for  *)
(* careful clients, by induction over the steps of the handlers.            *)
EXTENDS RuleSyncProps, RoutingTableProofs

-----------------------------------------------------------------------------
(* Type correctness.                                                       *)

LEMMA ZeroRuleType == ZeroRule \in Rule /\ NoHost \in Names
  BY NamesAssumption DEF ZeroRule, Rule

LEMMA IdleType == Idle \in Locals
  BY ZeroRuleType, RuleSyncAssumption DEF Idle, Locals

LEMMA IdsType == \A i \in Ids : i \in 0..MaxId
  BY RuleSyncAssumption DEF Ids

LEMMA BecomeType ==
    ASSUME TypeOK, NEW w \in Workers, NEW o \in Locals, Become(w, o)
    PROVE  op' \in [Workers -> Locals]
  BY DEF TypeOK, Become

LEMMA GotoType ==
    ASSUME TypeOK, NEW w \in Workers, NEW pc \in {"idle"} \cup Routing \cup Syncing,
           Goto(w, pc)
    PROVE  op' \in [Workers -> Locals]
  <1>1. op[w] \in Locals
    BY DEF TypeOK
  <1>2. [op[w] EXCEPT !.pc = pc] \in Locals
    BY <1>1 DEF Locals
  <1> QED BY <1>2, BecomeType DEF Goto

LEMMA FinishType ==
    ASSUME TypeOK, NEW w \in Workers, Finish(w)
    PROVE  op' \in [Workers -> Locals]
  BY IdleType, BecomeType DEF Finish

LEMMA RowOfType ==
    ASSUME NEW rs \in [Ids -> Rule \cup {Absent}], NEW h
    PROVE  RowOf(rs, h) \in Rule \cup {Absent} /\ EnabledOf(rs, h) \in Rule \cup {Absent}
  BY DEF RowOf, EnabledOf

\* A SELECT of all rows sees rows; one that cannot fail sees them all.
LEMMA SelectType ==
    ASSUME NEW fault, rows \in [Ids -> Rule \cup {Absent}]
    PROVE  /\ Select(fault) \subseteq [Ids -> Rule \cup {Absent}]
           /\ fault \notin Faults => Select(fault) = {rows}
  <1>1. ASSUME NEW ids \in SUBSET Ids
        PROVE  [i \in Ids |-> IF i \in ids THEN rows[i] ELSE Absent]
                  \in [Ids -> Rule \cup {Absent}]
    OBVIOUS
  <1> QED BY <1>1 DEF Select

LEMMA HostnameOfType ==
    ASSUME TypeOK, NEW i
    PROVE  HostnameOf(i) \in Names
  BY ZeroRuleType DEF TypeOK, HostnameOf, RowAt, Rule

LEMMA PublishInTable ==
    ASSUME NEW t \in Table(Rule), NEW rule \in Rule
    PROVE  Publish(t, rule) \in Table(Rule)
  BY PutInTable DEF Publish, Drop, Rule

LEMMA TypeInit == Init => TypeOK
  <1> SUFFICES ASSUME Init PROVE TypeOK
    OBVIOUS
  <1>1. EmptyTable \in Table(Rule) /\ EmptyTable \in Table(IPLists)
    BY EmptyTableInTable
  <1>2. nextId \in 1..MaxId + 1
    BY RuleSyncAssumption DEF Init
  <1> QED BY <1>1, <1>2, IdleType DEF Init, TypeOK

LEMMA TypeRequest ==
    ASSUME TypeOK, NEW w \in Workers, Request(w)
    PROVE  TypeOK'
  <1> USE IdleType, ZeroRuleType
  <1>1. ASSUME NEW h \in Hosts, NEW b \in Backends, NEW e \in BOOLEAN, Create(w, h, b, e)
        PROVE  TypeOK'
    <2> DEFINE rule == [id |-> nextId, hostname |-> h, backend |-> b, enabled |-> e]
               o == [Idle EXCEPT !.pc = "rpUpdate", !.id = nextId, !.rule = rule]
    <2>1. rule \in Rule
      BY RuleSyncAssumption DEF TypeOK, Rule
    <2>2. nextId \in 0..MaxId /\ nextId + 1 \in 1..MaxId + 1
      BY <1>1, RuleSyncAssumption DEF TypeOK, Create
    <2>3. o \in Locals
      BY <2>1, <2>2 DEF Locals, Routing, Putting
    <2>4. op' \in [Workers -> Locals]
      BY <1>1, <2>3, BecomeType DEF Create, Begin
    <2> QED BY <1>1, <2>1, <2>2, <2>4 DEF TypeOK, Create
  <1>2. ASSUME NEW h \in Hosts, NEW b \in Backends, NEW e \in BOOLEAN, NEW i \in Ids,
               BeginUpdate(w, i, h, b, e)
        PROVE  TypeOK'
    <2> DEFINE rule == [id |-> i, hostname |-> h, backend |-> b, enabled |-> e]
    <2>1. rule \in Rule /\ i \in 0..MaxId
      BY RuleSyncAssumption DEF Rule, Ids
    <2>2. ASSUME NEW old \in Names
          PROVE  [Idle EXCEPT !.pc = "update", !.id = i, !.old = old, !.rule = rule]
                    \in Locals
      BY <2>1 DEF Locals, Routing, Asking
    <2>3. op' \in [Workers -> Locals]
      BY <1>2, <2>2, HostnameOfType, BecomeType DEF BeginUpdate, Begin
    <2> QED BY <1>2, <2>3 DEF TypeOK, BeginUpdate
  <1>3. ASSUME NEW i \in Ids, BeginDelete(w, i) PROVE TypeOK'
    <2>1. ASSUME NEW old \in Names
          PROVE  [Idle EXCEPT !.pc = "delete", !.id = i, !.old = old] \in Locals
      BY IdsType DEF Locals, Routing, Asking
    <2>2. op' \in [Workers -> Locals]
      BY <1>3, <2>1, HostnameOfType, BecomeType DEF BeginDelete, Begin
    <2> QED BY <1>3, <2>2 DEF TypeOK, BeginDelete
  <1>4. ASSUME NEW i \in Ids, BeginToggle(w, i) PROVE TypeOK'
    <2> DEFINE rule == [ZeroRule EXCEPT !.enabled = ~rows[i].enabled]
    <2>1. rule \in Rule
      BY <1>4 DEF TypeOK, Rule
    <2>2. [Idle EXCEPT !.pc = "toggle", !.id = i, !.rule = rule] \in Locals
      BY <2>1, IdsType DEF Locals, Routing, Asking
    <2>3. op' \in [Workers -> Locals]
      BY <1>4, <2>2, BecomeType DEF BeginToggle, Begin
    <2> QED BY <1>4, <2>3 DEF TypeOK, BeginToggle
  <1> QED BY <1>1, <1>2, <1>3, <1>4 DEF Request

LEMMA TypeHandler ==
    ASSUME TypeOK, NEW w \in Workers, Handler(w)
    PROVE  TypeOK'
  <1> USE ZeroRuleType DEF Routing, Asking, Removing, Putting, Syncing
  <1>1. op[w] \in Locals /\ op[w].old \in Names /\ op[w].rule \in Rule
    BY DEF TypeOK, Locals
  <1>2. CASE CommitUpdate(w)
    <2>1. op' \in [Workers -> Locals]
      BY <1>2, GotoType DEF CommitUpdate
    <2> QED BY <1>1, <1>2, <2>1 DEF TypeOK, CommitUpdate
  <1>3. CASE RefuseUpdate(w) \/ WriteFails(w) \/ SyncDone(w) \/ SyncFails(w)
    BY <1>3, FinishType DEF TypeOK, RefuseUpdate, WriteFails, SyncDone, SyncFails
  <1>4. CASE CommitDelete(w)
    <2>1. op' \in [Workers -> Locals]
      BY <1>4, GotoType DEF CommitDelete
    <2> QED BY <1>4, <2>1 DEF TypeOK, CommitDelete
  <1>5. CASE CommitToggle(w)
    <2>1. [op[w] EXCEPT !.pc = "reread", !.rule = ZeroRule] \in Locals
      BY <1>1 DEF Locals
    <2>2. op' \in [Workers -> Locals]
      BY <1>5, <2>1, BecomeType DEF CommitToggle
    <2>3. op[w].rule.enabled \in BOOLEAN
      BY <1>1 DEF Rule
    <2>4. rows' \in [Ids -> Rule \cup {Absent}]
      BY <1>5, <2>3 DEF TypeOK, CommitToggle, Rule
    <2> QED BY <1>5, <2>2, <2>4 DEF TypeOK, CommitToggle
  <1>6. CASE Reread(w)
    <2>1. RowAt(op[w].id) \in Rule \cup {Absent}
      BY DEF TypeOK, RowAt
    <2>2. ASSUME NEW rule \in Rule
          PROVE  [op[w] EXCEPT !.pc = "rpUpdate", !.rule = rule] \in Locals
      BY <1>1 DEF Locals
    <2>3. op' \in [Workers -> Locals]
      BY <1>6, <2>1, <2>2, BecomeType DEF Reread
    <2> QED BY <1>6, <2>3 DEF TypeOK, Reread
  <1>7. CASE RpRemove(w) \/ FpRemove(w)
    <2>1. op' \in [Workers -> Locals]
      BY <1>7, GotoType DEF RpRemove, FpRemove
    <2>2. Drop(rp, op[w].old) \in Table(Rule) /\ Drop(fp, op[w].old) \in Table(Rule)
      BY <1>1, PutInTable DEF TypeOK, Drop
    <2> QED BY <1>7, <2>1, <2>2 DEF TypeOK, RpRemove, FpRemove
  <1>8. CASE AutoRemove(w)
    <2>1. [op[w] EXCEPT !.pc = "rpUpdate", !.old = NoHost] \in Locals
      BY <1>1 DEF Locals
    <2>2. op' \in [Workers -> Locals]
      BY <1>8, <2>1, BecomeType, FinishType DEF AutoRemove
    <2>3. Drop(auto, op[w].old) \in Table(IPLists)
      BY <1>1, PutInTable DEF TypeOK, Drop
    <2> QED BY <1>8, <2>2, <2>3 DEF TypeOK, AutoRemove
  <1>9. CASE RpUpdate(w)
    <2>1. op' \in [Workers -> Locals]
      BY <1>9, GotoType DEF RpUpdate
    <2>2. Publish(rp, op[w].rule) \in Table(Rule)
      BY <1>1, PublishInTable DEF TypeOK
    <2> QED BY <1>9, <2>1, <2>2 DEF TypeOK, RpUpdate
  <1>10. CASE FpUpdate(w)
    <2>1. [Idle EXCEPT !.pc = "resolve"] \in Locals
      BY IdleType DEF Locals
    <2>2. op' \in [Workers -> Locals]
      BY <1>10, <2>1, BecomeType DEF FpUpdate
    <2>3. Publish(fp, op[w].rule) \in Table(Rule)
      BY <1>1, PublishInTable DEF TypeOK
    <2> QED BY <1>10, <2>2, <2>3 DEF TypeOK, FpUpdate
  <1>11. CASE SyncResolve(w)
    <2>1. [op[w] EXCEPT !.pc = "query", !.ips = listenIPs] \in Locals
      BY <1>1 DEF TypeOK, Locals
    <2>2. op' \in [Workers -> Locals]
      BY <1>11, <2>1, BecomeType DEF SyncResolve
    <2> QED BY <1>11, <2>2 DEF TypeOK, SyncResolve
  <1>12. CASE SyncQuery(w)
    <2>1. PICK rs : Become(w, [op[w] EXCEPT !.pc = "set", !.active = EnabledHosts(rs),
                                            !.todo = EnabledHosts(rs)])
      BY <1>12 DEF SyncQuery
    <2>2. [op[w] EXCEPT !.pc = "set", !.active = EnabledHosts(rs),
                        !.todo = EnabledHosts(rs)] \in Locals
      BY <1>1 DEF Locals, EnabledHosts
    <2>3. op' \in [Workers -> Locals]
      BY <2>1, <2>2, BecomeType
    <2> QED BY <1>12, <2>3 DEF TypeOK, SyncQuery
  <1>13. CASE SyncList(w)
    <2>1. [op[w] EXCEPT !.pc = "prune", !.todo = Keys(auto) \ op[w].active] \in Locals
      BY <1>1 DEF Locals, Keys
    <2>2. op' \in [Workers -> Locals]
      BY <1>13, <2>1, BecomeType DEF SyncList
    <2> QED BY <1>13, <2>2 DEF TypeOK, SyncList
  <1>14. CASE SyncSet(w) \/ SyncPrune(w)
    <2>1. PICK h \in op[w].todo :
             /\ auto' = Put(auto, h, op[w].ips) \/ auto' = Put(auto, h, Absent)
             /\ Become(w, [op[w] EXCEPT !.todo = @ \ {h}])
      BY <1>14 DEF SyncSet, SyncPrune, Drop
    <2>2. /\ h \in Names /\ op[w].ips \in IPLists \cup {Absent}
          /\ [op[w] EXCEPT !.todo = @ \ {h}] \in Locals
      BY <1>1, <2>1 DEF Locals
    <2>3. op' \in [Workers -> Locals]
      BY <2>1, <2>2, BecomeType
    <2>4. auto' \in Table(IPLists)
      BY <2>1, <2>2, PutInTable DEF TypeOK
    <2> QED BY <1>14, <2>3, <2>4 DEF TypeOK, SyncSet, SyncPrune
  <1> QED BY <1>2, <1>3, <1>4, <1>5, <1>6, <1>7, <1>8, <1>9, <1>10, <1>11,
             <1>12, <1>13, <1>14 DEF Handler

\* Every client, every fault: the state is well typed.
THEOREM TypeCorrect == Spec => []TypeOK
  <1>1. Init => TypeOK
    BY TypeInit
  <1>2. TypeOK /\ [Next]_vars => TypeOK'
    <2> SUFFICES ASSUME TypeOK, [Next]_vars PROVE TypeOK'
      OBVIOUS
    <2>1. CASE \E w \in Workers : Request(w) \/ Handler(w)
      BY <2>1, TypeRequest, TypeHandler
    <2>2. CASE Restart
      <3>1. ASSUME NEW rs \in [Ids -> Rule \cup {Absent}]
            PROVE  /\ LoadRules(rs) \in Table(Rule)
                   /\ SyncForwardProxyRules(rs) \in Table(Rule)
                   /\ BuildAutoRecords(rs, listenIPs) \in Table(IPLists)
        BY RowOfType, TableOfInTable
           DEF TypeOK, LoadRules, SyncForwardProxyRules, BuildAutoRecords
      <3>2. rp' \in Table(Rule) /\ fp' \in Table(Rule) /\ auto' \in Table(IPLists)
        BY <2>2, <3>1, SelectType DEF TypeOK, Restart
      <3> QED BY <2>2, <3>2, IdleType DEF TypeOK, Restart
    <2>3. CASE ListenIPsChange
      BY <2>3 DEF TypeOK, ListenIPsChange
    <2>4. CASE UNCHANGED vars
      BY <2>4 DEF TypeOK, vars
    <2> QED BY <2>1, <2>2, <2>3, <2>4 DEF Next
  <1> QED BY <1>1, <1>2, PTL DEF Spec
=============================================================================
