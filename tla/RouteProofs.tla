---------------------------- MODULE RouteProofs ----------------------------
(* The rows, for every client; RoutesFollowRows, for careful clients; the   *)
(* agreement of the two proxies, for clients with disjoint claims; and what *)
(* an undisturbed handler repairs, after any race.  Whatever the number of  *)
(* handlers, a step of one changes only its own row and the table entries   *)
(* of its own host names; what the others know of theirs survives it.       *)
EXTENDS RuleSyncProofs, RuleSyncHeal

-----------------------------------------------------------------------------
(* The row of a host name.                                                 *)

LEMMA RowOfHost ==
    ASSUME NEW rs, UniqueHosts(rs), NEW i \in Ids, NEW h, HasHost(rs, i, h)
    PROVE  RowOf(rs, h) = rs[i]
  <1> DEFINE j == CHOOSE k \in Ids : HasHost(rs, k, h)
  <1>1. j \in Ids /\ HasHost(rs, j, h)
    OBVIOUS
  <1>2. j = i
    BY <1>1 DEF UniqueHosts, HasHost
  <1> QED BY <1>2 DEF RowOf

LEMMA RowOfNone ==
    ASSUME NEW rs, NEW h, \A i \in Ids : ~HasHost(rs, i, h)
    PROVE  RowOf(rs, h) = Absent
  BY DEF RowOf

LEMMA RowOfAbsent ==
    ASSUME NEW rs, NEW h, UniqueHosts(rs), RowOf(rs, h) = Absent
    PROVE  \A i \in Ids : ~HasHost(rs, i, h)
  BY RowOfHost DEF HasHost

\* Two tables that differ in no row of host name h select the same row for h.
LEMMA RowOfFrame ==
    ASSUME NEW rs, NEW rs2, UniqueHosts(rs), UniqueHosts(rs2), NEW h,
           \A i \in Ids : HasHost(rs, i, h) \/ HasHost(rs2, i, h) => rs[i] = rs2[i]
    PROVE  RowOf(rs, h) = RowOf(rs2, h) /\ EnabledOf(rs, h) = EnabledOf(rs2, h)
  <1>1. CASE \E i \in Ids : HasHost(rs, i, h)
    <2>1. PICK i \in Ids : HasHost(rs, i, h)
      BY <1>1
    <2>2. HasHost(rs2, i, h) /\ rs[i] = rs2[i]
      BY <2>1 DEF HasHost
    <2>3. RowOf(rs, h) = RowOf(rs2, h)
      BY <2>1, <2>2, RowOfHost
    <2> QED BY <2>3 DEF EnabledOf
  <1>2. CASE ~ \E i \in Ids : HasHost(rs, i, h)
    <2>1. \A i \in Ids : ~HasHost(rs2, i, h)
      BY <1>2 DEF HasHost
    <2>2. RowOf(rs, h) = RowOf(rs2, h)
      BY <1>2, <2>1, RowOfNone
    <2> QED BY <2>2 DEF EnabledOf
  <1> QED BY <1>1, <1>2

LEMMA EntryOfPublish ==
    ASSUME NEW t \in Table(Rule), NEW rule \in Rule, NEW h \in Names
    PROVE  Entry(Publish(t, rule), h) =
               IF h # rule.hostname THEN Entry(t, h)
               ELSE IF rule.enabled THEN rule ELSE Absent
  BY EntryOfPut DEF Publish, Drop, Rule

LEMMA EntryOfDrop ==
    ASSUME NEW t \in Table(Rule), NEW g \in Names, NEW h \in Names
    PROVE  Entry(Drop(t, g), h) = IF h = g THEN Absent ELSE Entry(t, h)
  BY EntryOfPut DEF Drop

-----------------------------------------------------------------------------
(* The database half: a commit keeps the host names of the rows apart.     *)

LEMMA ValidIsNamed == ASSUME NEW h \in Names, IsValidProxyHostname(h) PROVE h # NoHost
  <1>1. h \in Seq(Labels)
    BY NamesAssumption
  <1> SUFFICES ASSUME h = << >> PROVE FALSE
    BY DEF NoHost
  <1>2. WildcardBase(h) = << >>
    BY DEF WildcardBase, IsWildcard
  <1> QED BY <1>2 DEF IsValidProxyHostname

LEMMA BecomeAt ==
    ASSUME TypeOK, NEW w \in Workers, NEW o, Become(w, o)
    PROVE  op'[w] = o /\ \A v \in Workers : v # w => op'[v] = op[v]
  BY DEF TypeOK, Become

LEMMA RowsStep ==
    ASSUME TypeOK, RowsInv, Next
    PROVE  RowsUnique' /\ HostsNamed'
  <1> USE DEF RowsInv, HostsNamed
  <1>1. ASSUME NEW w \in Workers, NEW h \in Hosts, NEW b \in Backends, NEW e \in BOOLEAN,
               Create(w, h, b, e)
        PROVE  RowsUnique' /\ HostsNamed'
    <2> DEFINE rule == [id |-> nextId, hostname |-> h, backend |-> b, enabled |-> e]
    <2>1. nextId \in Ids /\ rows[nextId] = Absent /\ nextId' = nextId + 1 /\ nextId \in Int
      BY <1>1 DEF Create, TypeOK, RowsUnique, Ids
    <2>2. rows' = [rows EXCEPT ![nextId] = rule] /\ h # NoHost
      BY <1>1, ValidIsNamed, RuleSyncAssumption DEF Create
    <2>3. \A j \in Ids : ~HasHost(rows, j, h)
      BY <1>1 DEF Create, HostnameTaken, Ids
    <2>4. UniqueHosts(rows')
      BY <2>1, <2>2, <2>3 DEF TypeOK, RowsUnique, UniqueHosts, HasHost
    <2>5. \A i \in Ids : rows'[i] # Absent => i < nextId' /\ rows'[i].id = i
      BY <2>1, <2>2 DEF TypeOK, RowsUnique, Ids
    <2>6. HostsNamed'
      BY <2>1, <2>2 DEF TypeOK
    <2> QED BY <2>4, <2>5, <2>6 DEF RowsUnique
  <1>2. ASSUME NEW w \in Workers, CommitUpdate(w), rows[op[w].id] # Absent
        PROVE  RowsUnique' /\ HostsNamed'
    <2>1. op[w].id \in Ids /\ op[w].rule.id = op[w].id /\ op[w].rule.hostname # NoHost
      BY <1>2 DEF CommitUpdate, WritesOwnId, Routing, Asking
    <2>2. \A j \in Ids \ {op[w].id} : ~HasHost(rows, j, op[w].rule.hostname)
      BY <1>2, <2>1 DEF CommitUpdate, HostnameTaken
    <2>3. rows' = [rows EXCEPT ![op[w].id] = op[w].rule] /\ nextId' = nextId
      BY <1>2 DEF CommitUpdate
    <2>4. UniqueHosts(rows')
      BY <1>2, <2>1, <2>2, <2>3 DEF TypeOK, RowsUnique, UniqueHosts, HasHost
    <2>5. \A i \in Ids : rows'[i] # Absent => i < nextId' /\ rows'[i].id = i
      BY <1>2, <2>1, <2>3 DEF TypeOK, RowsUnique
    <2>6. HostsNamed'
      BY <2>1, <2>3 DEF TypeOK
    <2> QED BY <2>4, <2>5, <2>6 DEF RowsUnique
  <1>3. ASSUME NEW w \in Workers, CommitDelete(w) PROVE RowsUnique' /\ HostsNamed'
    BY <1>3 DEF CommitDelete, TypeOK, RowsUnique, UniqueHosts
  <1>4. ASSUME NEW w \in Workers, CommitToggle(w) PROVE RowsUnique' /\ HostsNamed'
    <2>0. op[w].id \in Ids
      BY <1>4 DEF CommitToggle, WritesOwnId, Routing, Asking
    <2>1. CASE rows[op[w].id] = Absent
      BY <1>4, <2>1 DEF CommitToggle, RowsUnique, UniqueHosts
    <2>2. CASE rows[op[w].id] # Absent
      <3> DEFINE r == [rows[op[w].id] EXCEPT !.enabled = op[w].rule.enabled]
      <3>1. rows[op[w].id] \in Rule /\ op[w].rule.enabled \in BOOLEAN
        BY <1>4, <2>0, <2>2 DEF TypeOK, Locals, Rule
      <3>2. r \in Rule
        BY <3>1 DEF Rule
      <3>3. r.hostname = rows[op[w].id].hostname /\ r.id = rows[op[w].id].id /\ r # Absent
        BY <3>1, <3>2, AbsentAssumption DEF Rule
      <3>4. (rows' = rows \/ rows' = [rows EXCEPT ![op[w].id] = r]) /\ nextId' = nextId
        BY <1>4 DEF CommitToggle
      <3> HIDE DEF r
      <3>5. \A i \in Ids : /\ rows'[i] = Absent <=> rows[i] = Absent
                           /\ rows[i] # Absent => /\ rows'[i].hostname = rows[i].hostname
                                                  /\ rows'[i].id = rows[i].id
        BY <2>0, <2>2, <3>3, <3>4, AbsentAssumption DEF TypeOK
      <3> QED BY <3>4, <3>5 DEF RowsUnique, UniqueHosts
    <2> QED BY <2>1, <2>2
  <1>5. CASE UNCHANGED <<rows, nextId>>
    BY <1>5 DEF RowsUnique, UniqueHosts
  <1> QED BY <1>1, <1>2, <1>3, <1>4, <1>5
      DEF Next, Request, Handler, BeginUpdate, CommitUpdate, BeginDelete, BeginToggle, RefuseUpdate,
          WriteFails, Reread, RpRemove, FpRemove, AutoRemove, RpUpdate, FpUpdate,
          SyncResolve, SyncQuery, SyncSet, SyncList, SyncPrune, SyncDone, SyncFails,
          Restart, ListenIPsChange

\* The id and the host name a handler will write are settled when it begins.
LEMMA OwnIdBecomes ==
    ASSUME TypeOK, RowsInv, NEW v \in Workers, NEW o, Become(v, o),
           o.pc \in Routing => /\ op[v].pc \in Routing /\ o.id = op[v].id
                               /\ o.pc # "update"
    PROVE  WritesOwnId(v)'
  <1>1. op'[v] = o /\ WritesOwnId(v)
    BY BecomeAt DEF RowsInv
  <1> QED BY <1>1 DEF WritesOwnId, Routing, Asking

LEMMA OwnIdRequest ==
    ASSUME TypeOK, RowsInv, NEW v \in Workers, Request(v)
    PROVE  WritesOwnId(v)'
  <1>1. ASSUME NEW h \in Hosts, NEW b \in Backends, NEW e \in BOOLEAN, Create(v, h, b, e)
        PROVE  WritesOwnId(v)'
    <2> DEFINE rule == [id |-> nextId, hostname |-> h, backend |-> b, enabled |-> e]
               o == [Idle EXCEPT !.pc = "rpUpdate", !.id = nextId, !.rule = rule]
    <2>1. nextId \in Ids
      BY <1>1, RuleSyncAssumption DEF Create, TypeOK, Ids
    <2>2. Become(v, o) /\ o.pc = "rpUpdate" /\ o.id = nextId
      BY <1>1 DEF Create, Begin, Idle
    <2> HIDE DEF o
    <2> QED BY <2>1, <2>2, BecomeAt DEF WritesOwnId
  <1>2. ASSUME NEW h \in Hosts, NEW b \in Backends, NEW e \in BOOLEAN, NEW i \in Ids,
               BeginUpdate(v, i, h, b, e)
        PROVE  WritesOwnId(v)'
    <2> DEFINE rule == [id |-> i, hostname |-> h, backend |-> b, enabled |-> e]
    <2>1. PICK old : Become(v, [Idle EXCEPT !.pc = "update", !.id = i, !.old = old,
                                !.rule = rule])
      BY <1>2 DEF BeginUpdate, Begin
    <2> DEFINE o == [Idle EXCEPT !.pc = "update", !.id = i, !.old = old, !.rule = rule]
    <2>2. o.id = i /\ o.rule.id = i /\ o.rule.hostname = h /\ h # NoHost
      BY <1>2, ValidIsNamed, RuleSyncAssumption DEF BeginUpdate, Idle
    <2>3. op'[v] = o
      BY <2>1, BecomeAt
    <2> HIDE DEF o
    <2> QED BY <2>2, <2>3 DEF WritesOwnId
  <1>3. ASSUME NEW i \in Ids, BeginDelete(v, i) PROVE WritesOwnId(v)'
    <2>1. PICK old : Become(v, [Idle EXCEPT !.pc = "delete", !.id = i, !.old = old])
      BY <1>3 DEF BeginDelete, Begin
    <2>2. op'[v] = [Idle EXCEPT !.pc = "delete", !.id = i, !.old = old]
      BY <2>1, BecomeAt
    <2> QED BY <2>2 DEF WritesOwnId, Idle
  <1>4. ASSUME NEW i \in Ids, BeginToggle(v, i) PROVE WritesOwnId(v)'
    <2> DEFINE rule == [ZeroRule EXCEPT !.enabled = ~rows[i].enabled]
    <2>1. op'[v] = [Idle EXCEPT !.pc = "toggle", !.id = i, !.rule = rule]
      BY <1>4, BecomeAt DEF BeginToggle, Begin
    <2> HIDE DEF rule
    <2> QED BY <2>1 DEF WritesOwnId, Idle
  <1> QED BY <1>1, <1>2, <1>3, <1>4 DEF Request

LEMMA OwnIdHandler ==
    ASSUME TypeOK, RowsInv, NEW v \in Workers, Handler(v)
    PROVE  WritesOwnId(v)'
  <1>0. op[v] \in Locals
    BY DEF TypeOK
  <1>1. ASSUME NEW pc, Goto(v, pc), op[v].pc \in Routing, pc # "update"
        PROVE  WritesOwnId(v)'
    BY <1>0, <1>1, OwnIdBecomes DEF Goto, Locals
  <1>2. CASE CommitUpdate(v) \/ CommitDelete(v) \/ RpRemove(v) \/ FpRemove(v) \/ RpUpdate(v)
    BY <1>1, <1>2 DEF CommitUpdate, CommitDelete, RpRemove, FpRemove, RpUpdate,
       Routing, Asking, Removing, Putting
  <1>3. ASSUME Finish(v) PROVE WritesOwnId(v)'
    BY <1>3, OwnIdBecomes DEF Finish, Idle, Routing, Asking, Removing, Putting
  <1>4. CASE RefuseUpdate(v) \/ WriteFails(v) \/ SyncDone(v) \/ SyncFails(v)
    BY <1>3, <1>4 DEF RefuseUpdate, WriteFails, SyncDone, SyncFails
  <1>5. CASE CommitToggle(v)
    BY <1>0, <1>5, OwnIdBecomes DEF CommitToggle, Locals, Routing, Asking
  <1>6. CASE Reread(v)
    <2>1. PICK rule : Become(v, [op[v] EXCEPT !.pc = "rpUpdate", !.rule = rule])
      BY <1>6 DEF Reread
    <2> QED BY <1>0, <1>6, <2>1, OwnIdBecomes DEF Reread, Locals, Routing, Asking
  <1>7. CASE AutoRemove(v)
    BY <1>0, <1>3, <1>7, OwnIdBecomes DEF AutoRemove, Locals, Routing, Removing
  <1>8. CASE FpUpdate(v)
    BY <1>8, OwnIdBecomes DEF FpUpdate, Idle, Routing, Asking, Removing, Putting
  <1>9. ASSUME NEW o, Become(v, o), o.pc \in Syncing
        PROVE  WritesOwnId(v)'
    BY <1>9, OwnIdBecomes DEF Routing, Asking, Removing, Putting, Syncing
  <1>10. CASE SyncResolve(v)
    BY <1>0, <1>9, <1>10 DEF SyncResolve, Syncing, Locals
  <1>11. CASE SyncQuery(v)
    <2>1. PICK rs : Become(v, [op[v] EXCEPT !.pc = "set", !.active = EnabledHosts(rs),
                                            !.todo = EnabledHosts(rs)])
      BY <1>11 DEF SyncQuery
    <2> QED BY <1>0, <1>9, <2>1 DEF Syncing, Locals
  <1>12. CASE SyncList(v)
    BY <1>0, <1>9, <1>12 DEF SyncList, Syncing, Locals
  <1>13. CASE SyncSet(v) \/ SyncPrune(v)
    <2>1. PICK h : Become(v, [op[v] EXCEPT !.todo = @ \ {h}])
      BY <1>13 DEF SyncSet, SyncPrune
    <2> QED BY <1>0, <1>9, <1>13, <2>1 DEF SyncSet, SyncPrune, Syncing, Locals
  <1> QED BY <1>2, <1>4, <1>5, <1>6, <1>7, <1>8, <1>10, <1>11, <1>12, <1>13 DEF Handler

\* A handler's step is its own.
LEMMA OthersKeep ==
    ASSUME TypeOK, NEW w \in Workers, Request(w) \/ Handler(w)
    PROVE  \A v \in Workers : v # w => op'[v] = op[v]
  <1>1. \E o : Become(w, o)
    BY DEF Request, Handler, Create, BeginUpdate, CommitUpdate, RefuseUpdate, BeginDelete,
       CommitDelete, WriteFails, BeginToggle, CommitToggle, Reread, RpRemove, FpRemove,
       AutoRemove, RpUpdate, FpUpdate, SyncResolve, SyncQuery, SyncSet, SyncList,
       SyncPrune, SyncDone, SyncFails, Begin, Goto, Finish
  <1> QED BY <1>1, BecomeAt

LEMMA RowsInvNext == TypeOK /\ RowsInv /\ [Next]_vars => RowsInv'
  <1> SUFFICES ASSUME TypeOK, RowsInv, [Next]_vars PROVE RowsInv'
    OBVIOUS
  <1>1. CASE Next
    <2>1. ASSUME NEW v \in Workers PROVE WritesOwnId(v)'
      <3>0. WritesOwnId(v)
        BY DEF RowsInv
      <3>1. ASSUME NEW w \in Workers, w # v, Request(w) \/ Handler(w)
            PROVE  WritesOwnId(v)'
        BY <3>0, <3>1, OthersKeep DEF WritesOwnId
      <3>2. CASE Restart
        BY <3>2 DEF Restart, Idle, WritesOwnId, Routing, Asking, Removing, Putting
      <3>3. CASE ListenIPsChange
        BY <3>0, <3>3 DEF ListenIPsChange, WritesOwnId
      <3> QED BY <1>1, <3>1, <3>2, <3>3, OwnIdRequest, OwnIdHandler DEF Next
    <2> QED BY <1>1, <2>1, RowsStep DEF RowsInv
  <1>2. CASE UNCHANGED vars
    BY <1>2 DEF vars, RowsInv, RowsUnique, UniqueHosts, HostsNamed, WritesOwnId
  <1> QED BY <1>1, <1>2

LEMMA RowsInit == Init => RowsInv
  BY DEF Init, RowsInv, RowsUnique, UniqueHosts, HostsNamed, WritesOwnId, Idle,
     Routing, Asking, Removing, Putting

\* No two rows share a host name and no row has an id not yet handed out, whatever
\* clients ask for at once and whatever fails.
THEOREM RowsCorrect == Spec => []RowsUnique
  <1>1. RowsInv => RowsUnique
    BY DEF RowsInv
  <1> QED BY <1>1, RowsInit, RowsInvNext, TypeCorrect, PTL DEF Spec

\* What a careful client's handlers know includes it.
LEMMA RouteRowsInv == RouteInv => RowsInv
  BY DEF RouteInv, RowsInv, HandlerInv, WritesOwnId

-----------------------------------------------------------------------------
(* The other handlers: what they know survives a step of w.                *)

\* w has committed a change of its own row and of no table.
LEMMA OthersAfterCommit ==
    ASSUME RouteInv, RowsUnique', HostsNamed', ClaimsDisjoint',
           NEW w \in Workers, op'[w].pc \in Routing, op'[w].id \in Ids,
           \A j \in Ids : j # op'[w].id => rows'[j] = rows[j],
           rp' = rp, fp' = fp,
           NEW v \in Workers, v # w, op'[v] = op[v]
    PROVE  HandlerInv(v)' /\ Lagging(v)' = Lagging(v)
  <1>1. op[v] \in Locals
    BY DEF RouteInv, TypeOK
  <1>2. CASE op[v].pc \notin Routing
    BY <1>2 DEF HandlerInv, Lagging, Routing, Asking, Removing, Putting
  <1>3. CASE op[v].pc \in Routing
    <2>1. op[v].id \in Ids
      BY <1>3 DEF RouteInv, HandlerInv
    <2>2. op[v].id # op'[w].id
      BY <1>3 DEF ClaimsDisjoint
    <2>3. rows'[op[v].id] = rows[op[v].id]
      BY <2>1, <2>2
    <2>4. HostnameOf(op[v].id)' = HostnameOf(op[v].id)
      BY <2>1, <2>3 DEF HostnameOf, RowAt
    <2>5. Lagging(v)' = Lagging(v)
      BY <2>4 DEF Lagging
    <2>6. ASSUME rows'[op'[w].id] # Absent
          PROVE  rows'[op'[w].id].hostname \notin Claim(v)'
      <3>1. rows'[op'[w].id].hostname \in Claim(w)'
        BY <2>6 DEF Claim, HostnameOf, RowAt, HostsNamed
      <3> QED BY <3>1 DEF ClaimsDisjoint
    <2>7. op[v].old \in Claim(v)' \cup {NoHost}
      BY <1>3 DEF Claim
    <2>8. ASSUME RowOf(rows, op[v].old) = Absent
          PROVE  RowOf(rows', op[v].old) = Absent
      <3>1. \A i \in Ids : ~HasHost(rows, i, op[v].old)
        BY <2>8, RowOfAbsent DEF RouteInv, RowsUnique
      <3>2. ~HasHost(rows', op'[w].id, op[v].old)
        BY <2>6, <2>7 DEF HasHost, HostsNamed
      <3>3. \A i \in Ids : ~HasHost(rows', i, op[v].old)
        BY <3>1, <3>2 DEF HasHost
      <3> QED BY <3>3, RowOfNone
    <2>9. ASSUME op[v].pc \in Putting
          PROVE  RowOf(rows', op[v].rule.hostname) = RowOf(rows, op[v].rule.hostname)
      <3>1. rows[op[v].id] = op[v].rule /\ op[v].rule # Absent
        BY <1>1, <2>9, AbsentAssumption DEF RouteInv, HandlerInv, Locals
      <3>2. /\ HasHost(rows, op[v].id, op[v].rule.hostname)
            /\ HasHost(rows', op[v].id, op[v].rule.hostname)
        BY <2>3, <3>1 DEF HasHost
      <3> QED BY <2>1, <2>3, <3>2, RowOfHost DEF RouteInv, RowsUnique
    <2>10. HandlerInv(v)
      BY DEF RouteInv
    <2>11. HandlerInv(v)'
      BY <2>1, <2>3, <2>4, <2>8, <2>9, <2>10 DEF HandlerInv, RpFollows, EnabledOf
    <2> QED BY <2>5, <2>11
  <1> QED BY <1>2, <1>3

\* w has changed no row, and no table entry but that of a name k it claims.
LEMMA OthersAfterMemoryStep ==
    ASSUME RouteInv, NEW w \in Workers, NEW v \in Workers, v # w, op'[v] = op[v],
           rows' = rows, NEW k \in Claim(w) \cup {NoHost},
           \A h \in Names : h # k => /\ Entry(rp', h) = Entry(rp, h)
                                     /\ Entry(fp', h) = Entry(fp, h),
           Entry(rp', NoHost) = Absent, Entry(fp', NoHost) = Absent
    PROVE  HandlerInv(v)' /\ Lagging(v)' = Lagging(v)
  <1>1. op[v] \in Locals /\ op[v].old \in Names /\ op[v].rule.hostname \in Names
    BY DEF RouteInv, TypeOK, Locals, Rule
  <1>2. \A i : HostnameOf(i)' = HostnameOf(i)
    BY DEF HostnameOf, RowAt
  <1>3. Lagging(v)' = Lagging(v)
    BY <1>2 DEF Lagging
  <1>4. CASE op[v].pc \notin Routing
    BY <1>3, <1>4 DEF HandlerInv, Routing, Asking, Removing, Putting
  <1>5. CASE op[v].pc \in Routing
    <2>1. k = NoHost \/ k \notin Claim(v)
      BY DEF RouteInv, ClaimsDisjoint
    <2>2. op[v].old # NoHost => op[v].old # k
      BY <1>5, <2>1 DEF Claim
    <2>3. op[v].rule.hostname # NoHost => op[v].rule.hostname # k
      BY <1>5, <2>1 DEF Claim
    <2>4. /\ Entry(rp, op[v].old) = Absent => Entry(rp', op[v].old) = Absent
          /\ Entry(fp, op[v].old) = Absent => Entry(fp', op[v].old) = Absent
      BY <1>1, <2>2
    <2>5. op[v].pc \in Putting => op[v].rule.hostname # NoHost
      BY <1>1, AbsentAssumption DEF RouteInv, HostsNamed, HandlerInv, Locals, Routing
    <2>6. op[v].pc \in Putting =>
             Entry(rp', op[v].rule.hostname) = Entry(rp, op[v].rule.hostname)
      BY <1>1, <2>3, <2>5
    <2>7. HandlerInv(v)
      BY DEF RouteInv
    <2>8. HandlerInv(v)'
      BY <1>2, <2>4, <2>6, <2>7 DEF HandlerInv, RpFollows
    <2> QED BY <1>3, <2>8
  <1> QED BY <1>4, <1>5

-----------------------------------------------------------------------------
(* The routes after a step.                                                *)

LEMMA RoutesAfterCommit ==
    ASSUME RouteInv, RowsUnique', NEW w \in Workers, NEW i \in Ids,
           \A v \in Workers : v # w => Lagging(v)' = Lagging(v),
           Lagging(w) = {},
           \A j \in Ids : j # i => rows'[j] = rows[j],
           rows[i] # Absent => rows[i].hostname \in Lagging(w)',
           rows'[i] # Absent => rows'[i].hostname \in Lagging(w)',
           rp' = rp, fp' = fp
    PROVE  RoutesFollowRows'
  <1> SUFFICES ASSUME NEW h \in Names \ {NoHost}, Settled(h)'
               PROVE  RpFollows(h)' /\ FpFollows(h)'
    BY DEF RoutesFollowRows
  <1>1. Settled(h) /\ h \notin Lagging(w)'
    BY DEF Settled
  <1>2. RowOf(rows', h) = RowOf(rows, h) /\ EnabledOf(rows', h) = EnabledOf(rows, h)
    <2>1. \A j \in Ids : HasHost(rows', j, h) \/ HasHost(rows, j, h) => rows'[j] = rows[j]
      BY <1>1 DEF HasHost
    <2> QED BY <2>1, RowOfFrame DEF RouteInv, RowsUnique
  <1>3. RpFollows(h) /\ FpFollows(h)
    BY <1>1 DEF RouteInv, RoutesFollowRows
  <1> QED BY <1>2, <1>3 DEF RpFollows, FpFollows

LEMMA RoutesAfterMemoryStep ==
    ASSUME RouteInv, NEW w \in Workers, rows' = rows,
           \A v \in Workers : v # w => Lagging(v)' = Lagging(v),
           \A h \in Names \ {NoHost} : h \notin Lagging(w)' =>
               \/ /\ h \notin Lagging(w)
                  /\ Entry(rp', h) = Entry(rp, h) /\ Entry(fp', h) = Entry(fp, h)
               \/ RpFollows(h)' /\ FpFollows(h)'
    PROVE  RoutesFollowRows'
  <1> SUFFICES ASSUME NEW h \in Names \ {NoHost}, Settled(h)', h \notin Lagging(w),
                      Entry(rp', h) = Entry(rp, h), Entry(fp', h) = Entry(fp, h)
               PROVE  RpFollows(h)' /\ FpFollows(h)'
    BY DEF RoutesFollowRows, Settled
  <1>1. Settled(h)
    BY DEF Settled
  <1>2. RpFollows(h) /\ FpFollows(h)
    BY <1>1 DEF RouteInv, RoutesFollowRows
  <1> QED BY <1>2 DEF RpFollows, FpFollows

-----------------------------------------------------------------------------
(* One step of one handler.                                                *)

CarefulStep == ClaimsDisjoint' /\ IdsExist' /\ TypeOK' /\ RowsUnique' /\ HostsNamed'

\* The conjuncts of RouteInv that are not type correctness, the client
\* discipline or the rows'.
RouteGoal == /\ Entry(rp, NoHost) = Absent /\ Entry(fp, NoHost) = Absent
             /\ \A v \in Workers : HandlerInv(v)
             /\ RoutesFollowRows

\* A step that commits a change of the row op'[w].id, and has no table changed.
LEMMA CommitStep ==
    ASSUME RouteInv, CarefulStep, NEW w \in Workers, NEW o \in Locals, Become(w, o),
           o.pc \in Routing, o.id \in Ids, Lagging(w) = {},
           \A j \in Ids : j # o.id => rows'[j] = rows[j],
           rows[o.id] # Absent => rows[o.id].hostname \in Lagging(w)',
           rows'[o.id] # Absent => rows'[o.id].hostname \in Lagging(w)',
           rp' = rp, fp' = fp, HandlerInv(w)'
    PROVE  RouteGoal'
  <1>1. op'[w] = o /\ \A v \in Workers : v # w => op'[v] = op[v]
    BY BecomeAt DEF RouteInv
  <1>2. \A v \in Workers : v # w => HandlerInv(v)' /\ Lagging(v)' = Lagging(v)
    BY <1>1, OthersAfterCommit DEF CarefulStep
  <1>3. RoutesFollowRows'
    BY <1>2, RoutesAfterCommit DEF CarefulStep
  <1> QED BY <1>2, <1>3 DEF RouteGoal, RouteInv

\* A step that changes no row and no entry but that of a claimed name k.
LEMMA MemoryStep ==
    ASSUME RouteInv, NEW w \in Workers, NEW o \in Locals, Become(w, o),
           rows' = rows, NEW k \in Claim(w) \cup {NoHost},
           \A h \in Names : h # k => /\ Entry(rp', h) = Entry(rp, h)
                                     /\ Entry(fp', h) = Entry(fp, h),
           Entry(rp', NoHost) = Absent, Entry(fp', NoHost) = Absent,
           HandlerInv(w)',
           \A h \in Names \ {NoHost} : h \notin Lagging(w)' =>
               \/ /\ h \notin Lagging(w)
                  /\ Entry(rp', h) = Entry(rp, h) /\ Entry(fp', h) = Entry(fp, h)
               \/ RpFollows(h)' /\ FpFollows(h)'
    PROVE  RouteGoal'
  <1>1. op'[w] = o /\ \A v \in Workers : v # w => op'[v] = op[v]
    BY BecomeAt DEF RouteInv
  <1>2. \A v \in Workers : v # w => HandlerInv(v)' /\ Lagging(v)' = Lagging(v)
    BY <1>1, OthersAfterMemoryStep
  <1>3. RoutesFollowRows'
    BY <1>2, RoutesAfterMemoryStep
  <1> QED BY <1>2, <1>3 DEF RouteGoal

\* A step that changes no row and no table, and leaves w without lagging names.
LEMMA LocalStep ==
    ASSUME RouteInv, NEW w \in Workers, NEW o \in Locals, Become(w, o),
           UNCHANGED <<rows, rp, fp>>, HandlerInv(w)', Lagging(w) \subseteq Lagging(w)' \cup {NoHost}
    PROVE  RouteGoal'
  BY MemoryStep DEF RouteInv

LEMMA RequestStep ==
    ASSUME RouteInv, CarefulStep, NEW w \in Workers, Request(w), "read" \notin Faults
    PROVE  RouteGoal'
  <1> USE IdleType, ZeroRuleType
  <1>a. op'[w] \in Locals /\ TypeOK
    BY DEF CarefulStep, TypeOK, RouteInv
  <1>1. ASSUME NEW h \in Hosts, NEW b \in Backends, NEW e \in BOOLEAN, Create(w, h, b, e)
        PROVE  RouteGoal'
    <2> DEFINE rule == [id |-> nextId, hostname |-> h, backend |-> b, enabled |-> e]
               o == [Idle EXCEPT !.pc = "rpUpdate", !.id = nextId, !.rule = rule]
    <2>1. nextId \in Ids /\ rows[nextId] = Absent
      BY <1>1, <1>a DEF Create, Ids, RouteInv, RowsUnique, TypeOK
    <2>2. op'[w] = o /\ Become(w, o)
      BY <1>1, <1>a, BecomeAt DEF Create, Begin
    <2>3. /\ o.pc = "rpUpdate" /\ o.id = nextId /\ o.old = NoHost /\ o.rule = rule
          /\ rule.hostname = h
      BY DEF Idle
    <2> HIDE DEF o, rule
    <2>4. rows' = [rows EXCEPT ![nextId] = rule] /\ rp' = rp /\ fp' = fp
      BY <1>1 DEF Create, rule
    <2>5. Lagging(w) = {}
      BY <1>1 DEF Create, Begin, Lagging, Removing, Putting
    <2>6. Lagging(w)' = {h, NoHost}
      BY <2>2, <2>3 DEF Lagging, Removing, Putting
    <2>7. HandlerInv(w)'
      BY <1>a, <2>1, <2>2, <2>3, <2>4
         DEF HandlerInv, Routing, Asking, Removing, Putting, TypeOK
    <2> QED BY <1>a, <2>1, <2>2, <2>3, <2>4, <2>5, <2>6, <2>7, CommitStep
            DEF Routing, Putting, TypeOK
  <1>2. ASSUME NEW h \in Hosts, NEW b \in Backends, NEW e \in BOOLEAN, NEW i \in Ids,
               BeginUpdate(w, i, h, b, e)
        PROVE  RouteGoal'
    <2> DEFINE rule == [id |-> i, hostname |-> h, backend |-> b, enabled |-> e]
               o == [Idle EXCEPT !.pc = "update", !.id = i, !.old = HostnameOf(i), !.rule = rule]
    <2>1. Become(w, o) /\ op[w].pc = "idle" /\ UNCHANGED <<rows, rp, fp>> /\ h # NoHost
      BY <1>2, ValidIsNamed, RuleSyncAssumption DEF BeginUpdate, Begin
    <2>2. op'[w] = o
      BY <1>a, <2>1, BecomeAt
    <2>3. /\ o.pc = "update" /\ o.id = i /\ o.old = HostnameOf(i) /\ o.rule = rule
          /\ rule.hostname = h /\ rule.id = i
      BY DEF Idle
    <2> HIDE DEF o, rule
    <2>4. HostnameOf(i)' = HostnameOf(i)
      BY <2>1 DEF HostnameOf, RowAt
    <2>5. HandlerInv(w)'
      BY <2>1, <2>2, <2>3, <2>4 DEF HandlerInv, Routing, Asking, Removing, Putting
    <2>6. Lagging(w) = {}
      BY <2>1 DEF Lagging, Removing, Putting
    <2> QED BY <1>a, <2>1, <2>2, <2>5, <2>6, LocalStep
  <1>3. ASSUME NEW i \in Ids, BeginDelete(w, i) PROVE RouteGoal'
    <2> DEFINE o == [Idle EXCEPT !.pc = "delete", !.id = i, !.old = HostnameOf(i)]
    <2>1. Become(w, o) /\ op[w].pc = "idle" /\ UNCHANGED <<rows, rp, fp>>
      BY <1>3 DEF BeginDelete, Begin
    <2>2. op'[w] = o
      BY <1>a, <2>1, BecomeAt
    <2>3. o.pc = "delete" /\ o.id = i /\ o.old = HostnameOf(i) /\ o.rule = ZeroRule
      BY DEF Idle
    <2> HIDE DEF o
    <2>4. HostnameOf(i)' = HostnameOf(i)
      BY <2>1 DEF HostnameOf, RowAt
    <2>5. HandlerInv(w)'
      BY <2>1, <2>2, <2>3, <2>4 DEF HandlerInv, Routing, Asking, Removing, Putting
    <2>6. Lagging(w) = {}
      BY <2>1 DEF Lagging, Removing, Putting
    <2> QED BY <1>a, <2>1, <2>2, <2>5, <2>6, LocalStep
  <1>4. ASSUME NEW i \in Ids, BeginToggle(w, i) PROVE RouteGoal'
    <2> DEFINE o == [Idle EXCEPT !.pc = "toggle", !.id = i,
                     !.rule = [ZeroRule EXCEPT !.enabled = ~rows[i].enabled]]
    <2>1. /\ Become(w, o) /\ op[w].pc = "idle" /\ UNCHANGED <<rows, rp, fp>>
          /\ rows[i] # Absent
      BY <1>4 DEF BeginToggle, Begin
    <2>2. op'[w] = o
      BY <1>a, <2>1, BecomeAt
    <2>3. o.pc = "toggle" /\ o.id = i /\ o.old = NoHost
      BY DEF Idle
    <2> HIDE DEF o
    <2>4. HandlerInv(w)'
      BY <2>1, <2>2, <2>3 DEF HandlerInv, Routing, Asking, Removing, Putting
    <2>5. Lagging(w) = {}
      BY <2>1 DEF Lagging, Removing, Putting
    <2> QED BY <1>a, <2>1, <2>2, <2>4, <2>5, LocalStep
  <1> QED BY <1>1, <1>2, <1>3, <1>4 DEF Request

\* What a handler of a careful client does to its own row.
LEMMA CommitHandlerStep ==
    ASSUME RouteInv, CarefulStep, NEW w \in Workers,
           CommitUpdate(w) \/ CommitDelete(w) \/ CommitToggle(w)
    PROVE  RouteGoal'
  <1> USE ZeroRuleType
  <1>a. TypeOK /\ op[w] \in Locals /\ op'[w] \in Locals /\ HandlerInv(w)
    BY DEF CarefulStep, TypeOK, RouteInv
  <1>b. op[w].id \in Ids /\ op[w].rule \in Rule /\ op[w].old \in Names
    BY <1>a DEF HandlerInv, CommitUpdate, CommitDelete, CommitToggle, Routing, Asking, Locals
  <1>c. Lagging(w) = {}
    BY DEF CommitUpdate, CommitDelete, CommitToggle, Lagging, Removing, Putting
  <1>d. rp' = rp /\ fp' = fp
    BY DEF CommitUpdate, CommitDelete, CommitToggle
  <1>e. HostnameOf(op[w].id) = IF rows[op[w].id] = Absent THEN NoHost
                               ELSE rows[op[w].id].hostname
    BY <1>b DEF HostnameOf, RowAt
  <1>1. CASE CommitUpdate(w)
    <2> DEFINE pc == IF op[w].old # op[w].rule.hostname THEN "rpRemove" ELSE "rpUpdate"
               o == [op[w] EXCEPT !.pc = pc]
    <2>1. Become(w, o) /\ op[w].pc = "update"
      BY <1>1 DEF CommitUpdate, Goto
    <2>2. op'[w] = o
      BY <1>a, <2>1, BecomeAt
    <2>3. o.pc = pc /\ o.id = op[w].id /\ o.old = op[w].old /\ o.rule = op[w].rule
      BY <1>a DEF Locals
    <2> HIDE DEF o
    <2>4. /\ rows[op[w].id] # Absent /\ op[w].old = rows[op[w].id].hostname
          /\ op[w].rule.hostname # NoHost /\ op[w].rule # ZeroRule
      BY <1>a, <1>e, <2>1 DEF RouteInv, IdsExist, HandlerInv, ZeroRule
    <2>5. rows' = [rows EXCEPT ![op[w].id] = op[w].rule]
      BY <1>1, <2>4 DEF CommitUpdate
    <2>6. /\ rows'[op[w].id] = op[w].rule
          /\ \A j \in Ids : j # op[w].id => rows'[j] = rows[j]
      BY <1>a, <1>b, <2>5 DEF TypeOK
    <2>7. Lagging(w)' = {op[w].rule.hostname, op[w].old}
      BY <2>2, <2>3 DEF Lagging, Removing, Putting
    <2>8. op[w].old # op[w].rule.hostname => RowOf(rows', op[w].old) = Absent
      <3> SUFFICES ASSUME op[w].old # op[w].rule.hostname
                   PROVE  \A i \in Ids : ~HasHost(rows', i, op[w].old)
        BY RowOfNone
      <3>1. \A i \in Ids : HasHost(rows, i, op[w].old) => i = op[w].id
        BY <1>b, <2>4 DEF RouteInv, RowsUnique, UniqueHosts, HasHost
      <3> QED BY <2>6, <3>1 DEF HasHost
    <2>9. HandlerInv(w)'
      BY <1>b, <2>2, <2>3, <2>4, <2>6, <2>8
         DEF HandlerInv, Routing, Asking, Removing, Putting
    <2> QED BY <1>a, <1>b, <1>c, <1>d, <2>1, <2>2, <2>3, <2>4, <2>6, <2>7, <2>9, CommitStep
            DEF Routing, Removing, Putting
  <1>2. CASE CommitDelete(w)
    <2> DEFINE o == [op[w] EXCEPT !.pc = "rpRemove"]
    <2>1. Become(w, o) /\ op[w].pc = "delete"
      BY <1>2 DEF CommitDelete, Goto
    <2>2. op'[w] = o
      BY <1>a, <2>1, BecomeAt
    <2>3. o.pc = "rpRemove" /\ o.id = op[w].id /\ o.old = op[w].old /\ o.rule = op[w].rule
      BY <1>a DEF Locals
    <2> HIDE DEF o
    <2>4. op[w].rule = ZeroRule /\ op[w].old = HostnameOf(op[w].id)
      BY <1>a, <2>1 DEF HandlerInv
    <2>5. /\ rows'[op[w].id] = Absent
          /\ \A j \in Ids : j # op[w].id => rows'[j] = rows[j]
      BY <1>2, <1>a, <1>b DEF CommitDelete, TypeOK
    <2>6. Lagging(w)' = {NoHost, op[w].old}
      BY <2>2, <2>3, <2>4 DEF Lagging, Removing, Putting, ZeroRule
    <2>7. RowOf(rows', op[w].old) = Absent
      <3>1. CASE rows[op[w].id] = Absent
        <4>1. op[w].old = NoHost
          BY <1>e, <2>4, <3>1
        <4> QED BY <4>1, RowOfNone DEF CarefulStep, HostsNamed, HasHost
      <3>2. CASE rows[op[w].id] # Absent
        <4>1. HasHost(rows, op[w].id, op[w].old)
          BY <1>e, <2>4, <3>2 DEF HasHost
        <4>2. \A i \in Ids : HasHost(rows, i, op[w].old) => i = op[w].id
          BY <1>b, <4>1 DEF RouteInv, RowsUnique, UniqueHosts, HasHost
        <4> QED BY <2>5, <4>2, RowOfNone DEF HasHost
      <3> QED BY <3>1, <3>2
    <2>8. HandlerInv(w)'
      BY <1>b, <2>2, <2>3, <2>4, <2>5, <2>7
         DEF HandlerInv, Routing, Asking, Removing, Putting, ZeroRule
    <2> QED BY <1>a, <1>b, <1>c, <1>d, <1>e, <2>1, <2>2, <2>3, <2>4, <2>5, <2>6, <2>8,
               CommitStep
            DEF Routing, Removing, Putting
  <1>3. CASE CommitToggle(w)
    <2> DEFINE o == [op[w] EXCEPT !.pc = "reread", !.rule = ZeroRule]
               r == [rows[op[w].id] EXCEPT !.enabled = op[w].rule.enabled]
    <2>1. Become(w, o) /\ op[w].pc = "toggle"
      BY <1>3 DEF CommitToggle
    <2>2. op'[w] = o
      BY <1>a, <2>1, BecomeAt
    <2>3. o.pc = "reread" /\ o.id = op[w].id /\ o.old = op[w].old
      BY <1>a DEF Locals
    <2> HIDE DEF o
    <2>4. rows[op[w].id] # Absent /\ op[w].old = NoHost /\ rows[op[w].id] \in Rule
      BY <1>a, <1>b, <2>1 DEF HandlerInv, TypeOK
    <2>5. r.hostname = rows[op[w].id].hostname /\ r # Absent
      <3>1. op[w].rule.enabled \in BOOLEAN
        BY <1>b DEF Rule
      <3>2. r \in Rule
        BY <2>4, <3>1 DEF Rule
      <3> QED BY <2>4, <3>2, AbsentAssumption DEF Rule
    <2>6. rows' = rows \/ rows' = [rows EXCEPT ![op[w].id] = r]
      BY <1>3 DEF CommitToggle
    <2>7. /\ rows'[op[w].id] # Absent
          /\ rows'[op[w].id].hostname = rows[op[w].id].hostname
          /\ \A j \in Ids : j # op[w].id => rows'[j] = rows[j]
      <3> HIDE DEF r
      <3> QED BY <1>a, <1>b, <2>4, <2>5, <2>6 DEF TypeOK
    <2>8. Lagging(w)' = {rows[op[w].id].hostname}
      <3>1. \A i \in Ids : i = op[w].id => HostnameOf(i)' = rows[op[w].id].hostname
        BY <2>7 DEF HostnameOf, RowAt
      <3>2. op'[w].pc = "reread" /\ op'[w].id = op[w].id
        BY <2>2, <2>3
      <3> QED BY <1>b, <3>1, <3>2 DEF Lagging, Removing, Putting
    <2>9. HandlerInv(w)'
      BY <1>b, <2>2, <2>3, <2>4, <2>7 DEF HandlerInv, Routing, Asking, Removing, Putting
    <2> QED BY <1>a, <1>b, <1>c, <1>d, <2>1, <2>2, <2>3, <2>7, <2>8, <2>9, CommitStep
            DEF Routing, Asking
  <1> QED BY <1>1, <1>2, <1>3

\* The steps under the lock of one of the proxies' tables, and the last one
\* of the removal.
LEMMA TableStep ==
    ASSUME RouteInv, CarefulStep, NEW w \in Workers,
           RpRemove(w) \/ FpRemove(w) \/ AutoRemove(w) \/ RpUpdate(w) \/ FpUpdate(w)
    PROVE  RouteGoal'
  <1> USE ZeroRuleType
  <1>a. TypeOK /\ op[w] \in Locals /\ op'[w] \in Locals /\ HandlerInv(w)
    BY DEF CarefulStep, TypeOK, RouteInv
  <1>b. op[w].pc \in Removing \cup Putting /\ rows' = rows
    BY DEF RpRemove, FpRemove, AutoRemove, RpUpdate, FpUpdate, Removing, Putting
  <1>c. /\ op[w].id \in Ids /\ op[w].rule \in Rule /\ op[w].old \in Names
        /\ op[w].rule.hostname \in Names
    BY <1>a, <1>b DEF HandlerInv, Routing, Locals, Rule
  <1>d. /\ op[w].old \in Claim(w) \cup {NoHost}
        /\ op[w].rule.hostname \in Claim(w) \cup {NoHost}
    BY <1>b DEF Claim, Routing
  <1>e. Entry(rp, NoHost) = Absent /\ Entry(fp, NoHost) = Absent
    BY DEF RouteInv
  <1>f. Lagging(w) = {op[w].rule.hostname, op[w].old}
    BY <1>b DEF Lagging, Removing, Putting
  <1>g. op[w].pc \in Putting => /\ rows[op[w].id] = op[w].rule /\ op[w].rule # Absent
                                /\ op[w].rule.hostname # NoHost /\ op[w].rule # ZeroRule
                                /\ RowOf(rows, op[w].rule.hostname) = op[w].rule
    <2>1. op[w].pc \in Putting => /\ rows[op[w].id] = op[w].rule /\ op[w].rule # Absent
                                  /\ op[w].rule.hostname # NoHost
      BY <1>a, <1>c, AbsentAssumption DEF HandlerInv, RouteInv, HostsNamed
    <2> QED BY <1>c, <2>1, RowOfHost DEF RouteInv, RowsUnique, HasHost, ZeroRule
  <1>1. CASE RpRemove(w)
    <2> DEFINE o == [op[w] EXCEPT !.pc = "fpRemove"]
    <2>1. Become(w, o) /\ op[w].pc = "rpRemove" /\ rp' = Drop(rp, op[w].old) /\ fp' = fp
      BY <1>1 DEF RpRemove, Goto
    <2>2. op'[w] = o
      BY <1>a, <2>1, BecomeAt
    <2>3. o.pc = "fpRemove" /\ o.id = op[w].id /\ o.old = op[w].old /\ o.rule = op[w].rule
      BY <1>a DEF Locals
    <2> HIDE DEF o
    <2>4. \A h \in Names : Entry(rp', h) = IF h = op[w].old THEN Absent ELSE Entry(rp, h)
      BY <1>a, <1>c, <2>1, EntryOfDrop DEF TypeOK
    <2>5. HandlerInv(w)'
      BY <1>a, <1>b, <1>c, <2>1, <2>2, <2>3, <2>4
         DEF HandlerInv, Routing, Asking, Removing, Putting
    <2>6. Lagging(w)' = Lagging(w)
      BY <1>f, <2>2, <2>3 DEF Lagging, Removing, Putting
    <2> QED BY <1>a, <1>b, <1>c, <1>d, <1>e, <1>f, <2>1, <2>2, <2>4, <2>5, <2>6, MemoryStep
  <1>2. CASE FpRemove(w)
    <2> DEFINE o == [op[w] EXCEPT !.pc = "autoRemove"]
    <2>1. Become(w, o) /\ op[w].pc = "fpRemove" /\ fp' = Drop(fp, op[w].old) /\ rp' = rp
      BY <1>2 DEF FpRemove, Goto
    <2>2. op'[w] = o
      BY <1>a, <2>1, BecomeAt
    <2>3. o.pc = "autoRemove" /\ o.id = op[w].id /\ o.old = op[w].old /\ o.rule = op[w].rule
      BY <1>a DEF Locals
    <2> HIDE DEF o
    <2>4. \A h \in Names : Entry(fp', h) = IF h = op[w].old THEN Absent ELSE Entry(fp, h)
      BY <1>a, <1>c, <2>1, EntryOfDrop DEF TypeOK
    <2>5. HandlerInv(w)'
      BY <1>a, <1>b, <1>c, <2>1, <2>2, <2>3, <2>4
         DEF HandlerInv, Routing, Asking, Removing, Putting
    <2>6. Lagging(w)' = Lagging(w)
      BY <1>f, <2>2, <2>3 DEF Lagging, Removing, Putting
    <2> QED BY <1>a, <1>b, <1>c, <1>d, <1>e, <1>f, <2>1, <2>2, <2>4, <2>5, <2>6, MemoryStep
  <1>3. CASE AutoRemove(w)
    <2>1. op[w].pc = "autoRemove" /\ rp' = rp /\ fp' = fp
      BY <1>3 DEF AutoRemove
    <2>2. /\ RowOf(rows, op[w].old) = Absent /\ Entry(rp, op[w].old) = Absent
          /\ Entry(fp, op[w].old) = Absent
      BY <1>a, <2>1 DEF HandlerInv, Removing
    <2>3. \A h : h = op[w].old => RpFollows(h)' /\ FpFollows(h)'
      <3>1. EnabledOf(rows, op[w].old) = Absent
        BY <2>2 DEF EnabledOf
      <3> QED BY <1>b, <2>1, <2>2, <3>1 DEF RpFollows, FpFollows
    <2>4. CASE op[w].rule = ZeroRule
      <3>1. Become(w, Idle) /\ op'[w] = Idle
        BY <1>3, <1>a, <2>4, BecomeAt DEF AutoRemove, Finish
      <3>2. HandlerInv(w)' /\ Lagging(w)' = {}
        BY <3>1 DEF HandlerInv, Idle, Lagging, Routing, Asking, Removing, Putting
      <3>3. op[w].rule.hostname = NoHost
        BY <2>4 DEF ZeroRule
      <3> QED BY <1>b, <1>d, <1>e, <1>f, <2>1, <2>3, <3>1, <3>2, <3>3, IdleType, MemoryStep
    <2>5. CASE op[w].rule # ZeroRule
      <3> DEFINE o == [op[w] EXCEPT !.pc = "rpUpdate", !.old = NoHost]
      <3>1. Become(w, o) /\ op'[w] = o
        BY <1>3, <1>a, <2>5, BecomeAt DEF AutoRemove
      <3>2. o.pc = "rpUpdate" /\ o.id = op[w].id /\ o.old = NoHost /\ o.rule = op[w].rule
        BY <1>a DEF Locals
      <3> HIDE DEF o
      <3>3. rows[op[w].id] = op[w].rule
        BY <1>a, <2>1, <2>5 DEF HandlerInv, Removing
      <3>4. HandlerInv(w)' /\ Lagging(w)' = {op[w].rule.hostname, NoHost}
        BY <1>b, <1>c, <3>1, <3>2, <3>3
           DEF HandlerInv, Lagging, Routing, Asking, Removing, Putting
      <3> QED BY <1>a, <1>b, <1>d, <1>e, <1>f, <2>1, <2>3, <3>1, <3>4, MemoryStep
    <2> QED BY <2>4, <2>5
  <1>4. CASE RpUpdate(w)
    <2> DEFINE o == [op[w] EXCEPT !.pc = "fpUpdate"]
    <2>1. Become(w, o) /\ op[w].pc = "rpUpdate" /\ rp' = Publish(rp, op[w].rule) /\ fp' = fp
      BY <1>4 DEF RpUpdate, Goto
    <2>2. op'[w] = o
      BY <1>a, <2>1, BecomeAt
    <2>3. o.pc = "fpUpdate" /\ o.id = op[w].id /\ o.old = op[w].old /\ o.rule = op[w].rule
      BY <1>a DEF Locals
    <2> HIDE DEF o
    <2>4. \A h \in Names : Entry(rp', h) =
              IF h # op[w].rule.hostname THEN Entry(rp, h)
              ELSE IF op[w].rule.enabled THEN op[w].rule ELSE Absent
      BY <1>a, <1>c, <2>1, EntryOfPublish DEF TypeOK
    <2>5. op[w].pc \in Putting
      BY <2>1 DEF Putting
    <2>6. Entry(rp', op[w].rule.hostname) = EnabledOf(rows', op[w].rule.hostname)
      BY <1>b, <1>c, <1>g, <2>4, <2>5 DEF EnabledOf
    <2>7. HandlerInv(w)'
      BY <1>a, <1>b, <1>c, <2>1, <2>2, <2>3, <2>5, <2>6
         DEF HandlerInv, RpFollows, Routing, Asking, Removing, Putting
    <2>8. Lagging(w)' = Lagging(w)
      BY <1>f, <2>2, <2>3 DEF Lagging, Removing, Putting
    <2>9. Entry(rp', NoHost) = Absent /\ Entry(fp', NoHost) = Absent
      BY <1>e, <1>g, <2>1, <2>4, <2>5
    <2> QED BY <1>a, <1>b, <1>c, <1>d, <1>f, <2>1, <2>2, <2>4, <2>7, <2>8, <2>9, MemoryStep
  <1>5. CASE FpUpdate(w)
    <2> DEFINE o == [Idle EXCEPT !.pc = "resolve"]
    <2>1. Become(w, o) /\ op[w].pc = "fpUpdate" /\ fp' = Publish(fp, op[w].rule) /\ rp' = rp
      BY <1>5 DEF FpUpdate
    <2>2. op'[w] = o /\ o.pc = "resolve"
      BY <1>a, <2>1, BecomeAt DEF Idle
    <2> HIDE DEF o
    <2>3. \A h \in Names : Entry(fp', h) =
              IF h # op[w].rule.hostname THEN Entry(fp, h)
              ELSE IF op[w].rule.enabled THEN op[w].rule ELSE Absent
      BY <1>a, <1>c, <2>1, EntryOfPublish DEF TypeOK
    <2>4. op[w].pc \in Putting
      BY <2>1 DEF Putting
    <2>5. \A h : h = op[w].rule.hostname => RpFollows(h)' /\ FpFollows(h)'
      <3>1. RpFollows(op[w].rule.hostname) /\ op[w].old \in {NoHost, op[w].rule.hostname}
        BY <1>a, <2>1, <2>4 DEF HandlerInv
      <3>2. Entry(fp', op[w].rule.hostname) = EnabledOf(rows, op[w].rule.hostname)
        BY <1>c, <1>g, <2>3, <2>4 DEF EnabledOf
      <3> QED BY <1>b, <2>1, <3>1, <3>2 DEF RpFollows, FpFollows
    <2>6. op[w].old \in {NoHost, op[w].rule.hostname}
      BY <1>a, <2>4 DEF HandlerInv
    <2>7. HandlerInv(w)' /\ Lagging(w)' = {}
      BY <2>2 DEF HandlerInv, Lagging, Routing, Asking, Removing, Putting
    <2>8. Entry(rp', NoHost) = Absent /\ Entry(fp', NoHost) = Absent
      BY <1>e, <1>g, <2>1, <2>3, <2>4
    <2> QED BY <1>a, <1>b, <1>c, <1>d, <1>f, <2>1, <2>2, <2>3, <2>5, <2>6, <2>7, <2>8, MemoryStep
  <1> QED BY <1>1, <1>2, <1>3, <1>4, <1>5

\* Reading the row back, giving up, and the whole of the sync.
LEMMA QuietStep ==
    ASSUME RouteInv, CarefulStep, NEW w \in Workers, "read" \notin Faults,
           \/ Reread(w) \/ RefuseUpdate(w) \/ WriteFails(w)
           \/ SyncResolve(w) \/ SyncQuery(w) \/ SyncSet(w) \/ SyncList(w)
           \/ SyncPrune(w) \/ SyncDone(w) \/ SyncFails(w)
    PROVE  RouteGoal'
  <1>a. TypeOK /\ op[w] \in Locals /\ op'[w] \in Locals /\ HandlerInv(w)
    BY DEF CarefulStep, TypeOK, RouteInv
  <1>b. UNCHANGED <<rows, rp, fp>>
    BY DEF Reread, RefuseUpdate, WriteFails, SyncResolve, SyncQuery, SyncSet, SyncList,
           SyncPrune, SyncDone, SyncFails
  <1>1. CASE Reread(w)
    <2>1. op[w].pc = "reread" /\ op[w].id \in Ids /\ rows[op[w].id] # Absent
          /\ op[w].old = NoHost
      BY <1>1, <1>a DEF Reread, HandlerInv, Routing, Asking
    <2> DEFINE o == [op[w] EXCEPT !.pc = "rpUpdate", !.rule = rows[op[w].id]]
    <2>2. Become(w, o)
      BY <1>1, <2>1 DEF Reread, RowAt
    <2>3. op'[w] = o
      BY <1>a, <2>2, BecomeAt
    <2>4. o.pc = "rpUpdate" /\ o.id = op[w].id /\ o.old = NoHost /\ o.rule = rows[op[w].id]
      BY <1>a, <2>1 DEF Locals
    <2> HIDE DEF o
    <2>5. HandlerInv(w)'
      BY <1>b, <2>1, <2>3, <2>4 DEF HandlerInv, Routing, Asking, Removing, Putting
    <2>6. Lagging(w) = {rows[op[w].id].hostname}
      BY <2>1 DEF Lagging, HostnameOf, RowAt, Removing, Putting
    <2>7. Lagging(w)' = {rows[op[w].id].hostname, NoHost}
      BY <2>3, <2>4 DEF Lagging, Removing, Putting
    <2> QED BY <1>a, <1>b, <2>2, <2>3, <2>5, <2>6, <2>7, LocalStep
  <1>2. CASE ~Reread(w)
    <2>1. PICK o : Become(w, o)
      BY <1>2 DEF RefuseUpdate, WriteFails, SyncResolve, SyncQuery, SyncSet, SyncList,
                  SyncPrune, SyncDone, SyncFails, Finish
    <2>2. op'[w] = o
      BY <1>a, <2>1, BecomeAt
    <2>3. op[w].pc \in {"update", "delete"} \cup Syncing
      BY <1>2 DEF RefuseUpdate, WriteFails, SyncResolve, SyncQuery, SyncSet, SyncList,
                  SyncPrune, SyncDone, SyncFails, Syncing
    <2>4. op'[w].pc \in {"idle"} \cup Syncing
      <3>1. CASE RefuseUpdate(w) \/ WriteFails(w) \/ SyncDone(w) \/ SyncFails(w)
        <4>1. op'[w] = Idle
          BY <1>a, <3>1, BecomeAt
             DEF RefuseUpdate, WriteFails, SyncDone, SyncFails, Finish
        <4> QED BY <4>1 DEF Idle
      <3>2. CASE SyncResolve(w)
        <4>1. op'[w] = [op[w] EXCEPT !.pc = "query", !.ips = listenIPs]
          BY <1>a, <3>2, BecomeAt DEF SyncResolve
        <4> QED BY <1>a, <4>1 DEF Locals, Syncing
      <3>3. CASE SyncQuery(w)
        <4>1. PICK rs : Become(w, [op[w] EXCEPT !.pc = "set", !.active = EnabledHosts(rs),
                                                !.todo = EnabledHosts(rs)])
          BY <3>3 DEF SyncQuery
        <4>2. op'[w] = [op[w] EXCEPT !.pc = "set", !.active = EnabledHosts(rs),
                                     !.todo = EnabledHosts(rs)]
          BY <1>a, <4>1, BecomeAt
        <4> QED BY <1>a, <4>2 DEF Locals, Syncing
      <3>4. CASE SyncList(w)
        <4>1. op'[w] = [op[w] EXCEPT !.pc = "prune", !.todo = Keys(auto) \ op[w].active]
          BY <1>a, <3>4, BecomeAt DEF SyncList
        <4> QED BY <1>a, <4>1 DEF Locals, Syncing
      <3>5. CASE SyncSet(w) \/ SyncPrune(w)
        <4>1. PICK h \in op[w].todo : Become(w, [op[w] EXCEPT !.todo = @ \ {h}])
          BY <3>5 DEF SyncSet, SyncPrune
        <4>2. op'[w] = [op[w] EXCEPT !.todo = @ \ {h}]
          BY <1>a, <4>1, BecomeAt
        <4>3. op'[w].pc = op[w].pc /\ op[w].pc \in {"set", "prune"}
          BY <1>a, <3>5, <4>2 DEF Locals, SyncSet, SyncPrune
        <4> QED BY <4>3 DEF Syncing
      <3> QED BY <1>2, <3>1, <3>2, <3>3, <3>4, <3>5
    <2>5. HandlerInv(w)'
      BY <2>4 DEF HandlerInv, Syncing, Routing, Asking, Removing, Putting
    <2>6. Lagging(w) = {}
      BY <2>3 DEF Lagging, Syncing, Removing, Putting
    <2> QED BY <1>a, <1>b, <2>1, <2>2, <2>5, <2>6, LocalStep
  <1> QED BY <1>1, <1>2

\* A start whose SELECTs succeed loads the tables from the rows.
LEMMA RestartLoads ==
    ASSUME TypeOK, Restart, "start" \notin Faults
    PROVE  \A h \in Names : Entry(rp', h) = RowOf(rows, h) /\ Entry(fp', h) = EnabledOf(rows, h)
  <1>1. rp' = LoadRules(rows) /\ fp' = SyncForwardProxyRules(rows)
    BY SelectType DEF TypeOK, Restart
  <1> QED BY <1>1, EntryOfTableOf DEF LoadRules, SyncForwardProxyRules

\* It has no handler at work, either.
LEMMA RestartStep ==
    ASSUME RouteInv, CarefulStep, Restart, "start" \notin Faults
    PROVE  RouteGoal'
  <1>1. \A h \in Names : /\ Entry(rp', h) = RowOf(rows, h)
                         /\ Entry(fp', h) = EnabledOf(rows, h)
    BY RestartLoads DEF RouteInv
  <1>2. RowOf(rows, NoHost) = Absent /\ EnabledOf(rows, NoHost) = Absent
    BY RowOfNone DEF RouteInv, HostsNamed, HasHost, EnabledOf
  <1>3. \A w \in Workers : HandlerInv(w)'
    BY DEF Restart, HandlerInv, Idle, Routing, Asking, Removing, Putting
  <1>4. RoutesFollowRows'
    BY <1>1 DEF RoutesFollowRows, RpFollows, FpFollows, Restart
  <1> QED BY <1>1, <1>2, <1>3, <1>4, ZeroRuleType DEF RouteGoal

LEMMA UnchangedStep ==
    ASSUME RouteInv, UNCHANGED <<rows, rp, fp, op>>
    PROVE  RouteGoal'
  <1>1. \A w \in Workers : HandlerInv(w)'
    BY DEF RouteInv, HandlerInv, RpFollows, HostnameOf, RowAt
  <1>2. \A w \in Workers : Lagging(w)' = Lagging(w)
    BY DEF Lagging, HostnameOf, RowAt
  <1>3. RoutesFollowRows'
    BY <1>2 DEF RouteInv, RoutesFollowRows, Settled, RpFollows, FpFollows
  <1> QED BY <1>1, <1>3 DEF RouteGoal, RouteInv

-----------------------------------------------------------------------------
(* The theorems.                                                           *)

LEMMA RouteInit == Init => RouteInv
  <1> SUFFICES ASSUME Init PROVE RouteInv
    OBVIOUS
  <1>1. TypeOK
    BY TypeInit
  <1>2. \A h \in Names : Entry(EmptyTable, h) = Absent
    BY EmptyTableInTable
  <1>3. \A h : RowOf(rows, h) = Absent /\ EnabledOf(rows, h) = Absent
    BY DEF Init, RowOf, EnabledOf, HasHost
  <1>4. RoutesFollowRows
    BY <1>2, <1>3 DEF Init, RoutesFollowRows, RpFollows, FpFollows
  <1>5. \A w \in Workers : HandlerInv(w) /\ Claim(w) = {} /\ op[w].pc = "idle"
    BY DEF Init, Idle, HandlerInv, Claim, Routing, Asking, Removing, Putting
  <1>6. ClaimsDisjoint /\ IdsExist
    BY <1>5 DEF ClaimsDisjoint, IdsExist, Routing, Asking, Removing, Putting
  <1>7. RowsUnique
    BY DEF Init, RowsUnique, UniqueHosts
  <1> QED BY <1>1, <1>2, <1>4, <1>5, <1>6, <1>7, ZeroRuleType DEF RouteInv, HostsNamed, Init

\* The inductive invariant holds for careful clients when the reads of a request
\* and of a start do not fail: writes and syncs may, and the process may die at any
\* step.
THEOREM RouteInvariance ==
    ASSUME "read" \notin Faults, "start" \notin Faults
    PROVE  SpecCareful => []RouteInv
  <1>1. Init => RouteInv
    BY RouteInit
  <1>2. RouteInv /\ TypeOK' /\ [Next /\ ClaimsDisjoint' /\ IdsExist']_vars => RouteInv'
    <2> SUFFICES ASSUME RouteInv, TypeOK', [Next /\ ClaimsDisjoint' /\ IdsExist']_vars
                 PROVE  RouteInv'
      OBVIOUS
    <2>1. CASE Next /\ ClaimsDisjoint' /\ IdsExist'
      <3>1. CarefulStep
        BY <2>1, RowsStep, RouteRowsInv DEF CarefulStep, RouteInv
      <3>2. ASSUME NEW w \in Workers, Request(w) PROVE RouteGoal'
        BY <3>1, <3>2, RequestStep
      <3>3. ASSUME NEW w \in Workers, Handler(w) PROVE RouteGoal'
        BY <3>1, <3>3, CommitHandlerStep, TableStep, QuietStep DEF Handler
      <3>4. ASSUME Restart PROVE RouteGoal'
        BY <3>1, <3>4, RestartStep
      <3>5. ASSUME ListenIPsChange PROVE RouteGoal'
        BY <3>5, UnchangedStep DEF ListenIPsChange
      <3>6. RouteGoal'
        BY <2>1, <3>2, <3>3, <3>4, <3>5 DEF Next
      <3> QED BY <3>1, <3>6 DEF RouteInv, RouteGoal, CarefulStep, HostsNamed
    <2>2. CASE UNCHANGED vars
      <3>1. RouteGoal'
        BY <2>2, UnchangedStep DEF vars
      <3>2. IdsExist' /\ RowsUnique' /\ HostsNamed'
        BY <2>2 DEF vars, RouteInv, IdsExist, RowsUnique, UniqueHosts, HostsNamed
      <3>3. \A w \in Workers : Claim(w)' = Claim(w)
        BY <2>2 DEF vars, Claim, HostnameOf, RowAt
      <3>4. ClaimsDisjoint'
        BY <2>2, <3>3 DEF vars, RouteInv, ClaimsDisjoint
      <3> QED BY <3>1, <3>2, <3>4 DEF RouteInv, RouteGoal, HostsNamed
    <2> QED BY <2>1, <2>2
  <1>3. SpecCareful => Spec
    <2>1. [Next /\ ClaimsDisjoint' /\ IdsExist']_vars => [Next]_vars
      OBVIOUS
    <2> QED BY <2>1, PTL DEF SpecCareful, Spec
  <1>4. SpecCareful => []TypeOK
    BY <1>3, TypeCorrect, PTL
  <1> QED BY <1>1, <1>2, <1>4, PTL DEF SpecCareful

\* Each proxy has for a settled host name the rule of its row.
THEOREM RoutesCorrect ==
    ASSUME "read" \notin Faults, "start" \notin Faults
    PROVE  SpecCareful => []RoutesFollowRows
  <1>1. RouteInv => RoutesFollowRows
    BY DEF RouteInv
  <1> QED BY <1>1, RouteInvariance, PTL

-----------------------------------------------------------------------------
(* The action property: an enabled rule keeps its route.                   *)

LEMMA StayStep ==
    ASSUME RouteInv, Next, "start" \notin Faults,
           NEW h \in Names, h # NoHost, EnabledOf(rows', h) # Absent
    PROVE  /\ Entry(rp, h) # Absent => Entry(rp', h) # Absent
           /\ Entry(fp, h) # Absent => Entry(fp', h) # Absent
  <1>1. ASSUME NEW w \in Workers, RpRemove(w) \/ FpRemove(w)
        PROVE  h # op[w].old /\ op[w].old \in Names
    <2>1. op[w].pc \in Removing /\ rows' = rows /\ HandlerInv(w) /\ op[w] \in Locals
      BY <1>1 DEF RpRemove, FpRemove, Removing, RouteInv, TypeOK
    <2>2. RowOf(rows, op[w].old) = Absent
      BY <2>1 DEF HandlerInv
    <2> QED BY <2>1, <2>2 DEF EnabledOf, Locals
  <1>2. ASSUME NEW w \in Workers, RpUpdate(w) \/ FpUpdate(w)
        PROVE  /\ op[w].rule \in Rule /\ op[w].rule # Absent
               /\ h = op[w].rule.hostname => op[w].rule.enabled
    <2>1. op[w].pc \in Putting /\ rows' = rows /\ HandlerInv(w) /\ op[w] \in Locals
      BY <1>2 DEF RpUpdate, FpUpdate, Putting, RouteInv, TypeOK
    <2>2. op[w].rule \in Rule /\ op[w].rule # Absent
      BY <2>1, AbsentAssumption DEF Locals
    <2>3. rows[op[w].id] = op[w].rule /\ op[w].id \in Ids
      BY <2>1 DEF HandlerInv, Routing
    <2>4. h = op[w].rule.hostname => RowOf(rows, h) = op[w].rule
      BY <2>2, <2>3, RowOfHost DEF HasHost, RouteInv, RowsUnique
    <2> QED BY <2>1, <2>2, <2>4 DEF EnabledOf
  <1>3. rp \in Table(Rule) /\ fp \in Table(Rule)
    BY DEF RouteInv, TypeOK
  <1>4. ASSUME NEW w \in Workers, RpRemove(w) \/ FpRemove(w)
        PROVE  Entry(rp', h) = Entry(rp, h) /\ Entry(fp', h) = Entry(fp, h)
    BY <1>1, <1>3, <1>4, EntryOfDrop DEF RpRemove, FpRemove
  <1>5. ASSUME NEW w \in Workers, RpUpdate(w) \/ FpUpdate(w)
        PROVE  /\ Entry(rp, h) # Absent => Entry(rp', h) # Absent
               /\ Entry(fp, h) # Absent => Entry(fp', h) # Absent
    BY <1>2, <1>3, <1>5, EntryOfPublish DEF RpUpdate, FpUpdate
  <1>6. ASSUME Restart
        PROVE  Entry(rp', h) # Absent /\ Entry(fp', h) # Absent
    <2>1. Entry(rp', h) = RowOf(rows, h) /\ Entry(fp', h) = EnabledOf(rows, h)
      BY <1>6, RestartLoads DEF RouteInv
    <2> QED BY <1>6, <2>1 DEF Restart, EnabledOf
  <1>7. ASSUME NEW w \in Workers, Request(w) \/ Handler(w)
        PROVE  \/ rp' = rp /\ fp' = fp
               \/ RpRemove(w) \/ FpRemove(w) \/ RpUpdate(w) \/ FpUpdate(w)
    BY <1>7 DEF Request, Handler, Create, BeginUpdate, CommitUpdate, RefuseUpdate,
       BeginDelete, CommitDelete, WriteFails, BeginToggle, CommitToggle, Reread,
       AutoRemove, SyncResolve, SyncQuery, SyncSet, SyncList, SyncPrune, SyncDone, SyncFails
  <1> QED BY <1>4, <1>5, <1>6, <1>7 DEF Next, ListenIPsChange

\* No step takes away the route of an enabled rule, however many handlers run.
THEOREM RoutesNeverInterrupted ==
    ASSUME "read" \notin Faults, "start" \notin Faults
    PROVE  SpecCareful => RoutesStay
  <1> DEFINE Stay == \A h \in Names \ {NoHost} : EnabledOf(rows', h) # Absent =>
                        /\ Entry(rp, h) # Absent => Entry(rp', h) # Absent
                        /\ Entry(fp, h) # Absent => Entry(fp', h) # Absent
  <1>1. RouteInv /\ [Next /\ ClaimsDisjoint' /\ IdsExist']_vars => [Stay]_vars
    BY StayStep
  <1> QED BY <1>1, RouteInvariance, PTL DEF SpecCareful, RoutesStay

-----------------------------------------------------------------------------
(* The two proxies agree, whatever statement fails: the rows play no part.  *)

\* Two handlers that change the entries of one host name are one handler.
Touches(w, h) == \/ op[w].pc \in Removing /\ op[w].old = h
                 \/ op[w].pc \in Putting /\ op[w].rule.hostname = h

LEMMA TouchedByOne ==
    ASSUME ClaimsDisjoint, NEW v \in Workers, NEW w \in Workers,
           NEW h, h # NoHost, Touches(v, h), Touches(w, h)
    PROVE  v = w
  BY DEF ClaimsDisjoint, Claim, Touches, Routing

\* A step of w on the reverse proxy: the host name g it works on goes halfway.
LEMMA AgreeAfterRp ==
    ASSUME AgreeInv, TypeOK', ClaimsDisjoint', NEW w \in Workers, NEW g \in Names,
           RpRemove(w) \/ RpUpdate(w), Touches(w, g)
    PROVE  AgreeInv'
  <1>0. (RpRemove(w) => g = op[w].old) /\ (RpUpdate(w) => g = op[w].rule.hostname)
    <2>1. (RpRemove(w) => op[w].pc = "rpRemove") /\ (RpUpdate(w) => op[w].pc = "rpUpdate")
      BY DEF RpRemove, RpUpdate
    <2> QED BY <2>1 DEF Touches, Removing, Putting
  <1>1. op[w] \in Locals /\ op[w].rule \in Rule
    BY DEF AgreeInv, TypeOK, Locals
  <1>2. /\ op'[w] = [op[w] EXCEPT !.pc = IF RpRemove(w) THEN "fpRemove" ELSE "fpUpdate"]
        /\ \A v \in Workers : v # w => op'[v] = op[v]
    BY BecomeAt DEF RpRemove, RpUpdate, Goto, AgreeInv
  <1>3. Halfway(w, g)' /\ fp' = fp
    BY <1>0, <1>1, <1>2 DEF Halfway, RpRemove, RpUpdate, Locals
  <1>4. \A h \in Names : h # g => Entry(rp', h) = Entry(rp, h)
    BY <1>0, <1>1, EntryOfDrop, EntryOfPublish DEF RpRemove, RpUpdate, AgreeInv, TypeOK
  <1>5. Entry(rp', g) = IF RpRemove(w) THEN Absent ELSE Published(op[w].rule)
    BY <1>0, <1>1, EntryOfDrop, EntryOfPublish DEF RpRemove, RpUpdate, AgreeInv, TypeOK, Published
  <1>6. ASSUME NEW h \in Names \ {NoHost}, h # g
        PROVE  (Agree(h) \/ \E v \in Workers : Halfway(v, h))'
    <2>1. Agree(h) => Agree(h)'
      BY <1>3, <1>4, <1>6 DEF Agree
    <2>2. ASSUME NEW v \in Workers, Halfway(v, h) PROVE v # w /\ Halfway(v, h)'
      BY <1>2, <2>2 DEF Halfway, RpRemove, RpUpdate
    <2> QED BY <2>1, <2>2 DEF AgreeInv
  <1>7. ASSUME NEW v \in Workers, v # w
        PROVE  /\ op'[v] = op[v]
               /\ op[v].pc = "fpRemove" /\ op[v].old # NoHost => op[v].old # g
               /\ op[v].pc = "fpUpdate" /\ op[v].rule.hostname # NoHost
                      => op[v].rule.hostname # g
    <2>1. op'[v] = op[v] /\ ClaimsDisjoint
      BY <1>2, <1>7 DEF AgreeInv
    <2>2. g # NoHost => ~Touches(v, g)
      BY <1>7, <2>1, TouchedByOne
    <2>3. /\ op[v].pc = "fpRemove" /\ op[v].old = g => Touches(v, g)
          /\ op[v].pc = "fpUpdate" /\ op[v].rule.hostname = g => Touches(v, g)
      BY DEF Touches, Removing, Putting
    <2> QED BY <2>1, <2>2, <2>3
  <1>8. ASSUME NEW v \in Workers
        PROVE  (/\ op[v].pc = "fpRemove" /\ op[v].old # NoHost => Entry(rp, op[v].old) = Absent
                /\ op[v].pc = "fpUpdate" /\ op[v].rule.hostname # NoHost =>
                      Entry(rp, op[v].rule.hostname) = Published(op[v].rule))'
    <2>1. CASE v = w
      BY <1>0, <1>1, <1>2, <1>5, <2>1 DEF RpRemove, RpUpdate, Locals
    <2>2. CASE v # w
      <3>1. op[v].old \in Names /\ op[v].rule.hostname \in Names
        BY DEF AgreeInv, TypeOK, Locals, Rule
      <3> QED BY <1>4, <1>7, <2>2, <3>1 DEF AgreeInv
    <2> QED BY <2>1, <2>2
  <1> QED BY <1>3, <1>6, <1>8 DEF AgreeInv

\* The step of w on the forward proxy after it brings the two together again.
LEMMA AgreeAfterFp ==
    ASSUME AgreeInv, TypeOK', ClaimsDisjoint', NEW w \in Workers, NEW g \in Names,
           FpRemove(w) \/ FpUpdate(w), Touches(w, g)
    PROVE  AgreeInv'
  <1>0. (FpRemove(w) => g = op[w].old) /\ (FpUpdate(w) => g = op[w].rule.hostname)
    <2>1. (FpRemove(w) => op[w].pc = "fpRemove") /\ (FpUpdate(w) => op[w].pc = "fpUpdate")
      BY DEF FpRemove, FpUpdate
    <2> QED BY <2>1 DEF Touches, Removing, Putting
  <1>1. op[w] \in Locals /\ op[w].rule \in Rule
    BY DEF AgreeInv, TypeOK, Locals
  <1>2. /\ op'[w].pc \in {"autoRemove", "resolve"} /\ rp' = rp
        /\ \A v \in Workers : v # w => op'[v] = op[v]
    BY <1>1, BecomeAt DEF FpRemove, FpUpdate, Goto, AgreeInv, Locals, Idle
  <1>3. \A h \in Names : h # g => Entry(fp', h) = Entry(fp, h)
    BY <1>0, <1>1, EntryOfDrop, EntryOfPublish DEF FpRemove, FpUpdate, AgreeInv, TypeOK
  <1>4. Entry(fp', g) = IF FpRemove(w) THEN Absent ELSE Published(op[w].rule)
    BY <1>0, <1>1, EntryOfDrop, EntryOfPublish DEF FpRemove, FpUpdate, AgreeInv, TypeOK, Published
  <1>5. g # NoHost => Agree(g)'
    BY <1>0, <1>2, <1>4 DEF AgreeInv, FpRemove, FpUpdate, Agree
  <1>6. ASSUME NEW h \in Names \ {NoHost}, h # g
        PROVE  (Agree(h) \/ \E v \in Workers : Halfway(v, h))'
    <2>1. Agree(h) => Agree(h)'
      BY <1>2, <1>3, <1>6 DEF Agree
    <2>2. ASSUME NEW v \in Workers, Halfway(v, h) PROVE v # w /\ Halfway(v, h)'
      BY <1>0, <1>2, <1>6, <2>2 DEF Halfway, FpRemove, FpUpdate
    <2> QED BY <2>1, <2>2 DEF AgreeInv
  <1>7. ASSUME NEW v \in Workers
        PROVE  (/\ op[v].pc = "fpRemove" /\ op[v].old # NoHost => Entry(rp, op[v].old) = Absent
                /\ op[v].pc = "fpUpdate" /\ op[v].rule.hostname # NoHost =>
                      Entry(rp, op[v].rule.hostname) = Published(op[v].rule))'
    BY <1>2 DEF AgreeInv
  <1> QED BY <1>5, <1>6, <1>7 DEF AgreeInv

\* Every other step of a handler leaves both tables alone, and no handler is
\* halfway before it or after it.
LEMMA AgreeAfterOther ==
    ASSUME AgreeInv, TypeOK', ClaimsDisjoint', UNCHANGED <<rp, fp>>, NEW w \in Workers,
           NEW o, Become(w, o),
           {op[w].pc, o.pc} \cap {"fpRemove", "fpUpdate"} = {}
    PROVE  AgreeInv'
  <1>1. op'[w] = o /\ \A v \in Workers : v # w => op'[v] = op[v]
    BY BecomeAt DEF AgreeInv
  <1>2. \A h : Agree(h)' = Agree(h)
    BY DEF Agree
  <1>3. ASSUME NEW v \in Workers, NEW h PROVE Halfway(v, h)' = Halfway(v, h)
    BY <1>1 DEF Halfway
  <1> QED BY <1>1, <1>2, <1>3 DEF AgreeInv

LEMMA AgreeRestart ==
    ASSUME AgreeInv, TypeOK', ClaimsDisjoint', Restart, "start" \notin Faults
    PROVE  AgreeInv'
  <1>1. \A h \in Names : /\ Entry(rp', h) = RowOf(rows, h)
                         /\ Entry(fp', h) = EnabledOf(rows, h)
    BY RestartLoads DEF AgreeInv
  <1>2. \A h \in Names : Agree(h)'
    BY <1>1 DEF Agree, EnabledOf
  <1>3. \A w \in Workers : op'[w].pc = "idle"
    BY DEF Restart, Idle
  <1> QED BY <1>2, <1>3 DEF AgreeInv

\* Steps of a handler that are not on a proxy's table.
LEMMA AgreeRequest ==
    ASSUME AgreeInv, TypeOK', ClaimsDisjoint', NEW w \in Workers, Request(w)
    PROVE  AgreeInv'
  <1>1. ASSUME NEW h \in Hosts, NEW b \in Backends, NEW e \in BOOLEAN, Create(w, h, b, e)
        PROVE  AgreeInv'
    BY <1>1, AgreeAfterOther DEF Create, Begin, Idle
  <1>2. ASSUME NEW h \in Hosts, NEW b \in Backends, NEW e \in BOOLEAN, NEW i \in Ids,
               BeginUpdate(w, i, h, b, e)
        PROVE  AgreeInv'
    BY <1>2, AgreeAfterOther DEF BeginUpdate, Begin, Idle
  <1>3. ASSUME NEW i \in Ids, BeginDelete(w, i) PROVE AgreeInv'
    BY <1>3, AgreeAfterOther DEF BeginDelete, Begin, Idle
  <1>4. ASSUME NEW i \in Ids, BeginToggle(w, i) PROVE AgreeInv'
    BY <1>4, AgreeAfterOther DEF BeginToggle, Begin, Idle
  <1> QED BY <1>1, <1>2, <1>3, <1>4 DEF Request

LEMMA AgreeQuietStep ==
    ASSUME AgreeInv, TypeOK', ClaimsDisjoint', NEW w \in Workers, Handler(w),
           ~RpRemove(w), ~FpRemove(w), ~RpUpdate(w), ~FpUpdate(w)
    PROVE  AgreeInv'
  <1>a. op[w] \in Locals
    BY DEF AgreeInv, TypeOK
  <1>1. CASE CommitUpdate(w)
    BY <1>a, <1>1, AgreeAfterOther DEF CommitUpdate, Locals, Goto
  <1>2. CASE CommitDelete(w)
    BY <1>a, <1>2, AgreeAfterOther DEF CommitDelete, Locals, Goto
  <1>3. CASE CommitToggle(w)
    BY <1>a, <1>3, AgreeAfterOther DEF CommitToggle, Locals
  <1>4. CASE RefuseUpdate(w)
    BY <1>a, <1>4, AgreeAfterOther DEF RefuseUpdate, Locals, Finish, Idle
  <1>5. CASE WriteFails(w)
    BY <1>a, <1>5, AgreeAfterOther DEF WriteFails, Locals, Finish, Idle
  <1>6. CASE AutoRemove(w)
    BY <1>a, <1>6, AgreeAfterOther DEF AutoRemove, Locals, Finish, Idle
  <1>7. CASE SyncResolve(w)
    BY <1>a, <1>7, AgreeAfterOther DEF SyncResolve, Locals
  <1>8. CASE SyncQuery(w)
    <2>1. PICK rs : Become(w, [op[w] EXCEPT !.pc = "set", !.active = EnabledHosts(rs),
                                            !.todo = EnabledHosts(rs)])
      BY <1>8 DEF SyncQuery
    <2> QED BY <1>a, <1>8, <2>1, AgreeAfterOther DEF SyncQuery, Locals
  <1>9. CASE SyncSet(w)
    BY <1>a, <1>9, AgreeAfterOther DEF SyncSet, Locals
  <1>10. CASE SyncList(w)
    BY <1>a, <1>10, AgreeAfterOther DEF SyncList, Locals
  <1>11. CASE SyncPrune(w)
    BY <1>a, <1>11, AgreeAfterOther DEF SyncPrune, Locals
  <1>12. CASE SyncDone(w)
    BY <1>a, <1>12, AgreeAfterOther DEF SyncDone, Locals, Finish, Idle
  <1>13. CASE SyncFails(w)
    BY <1>a, <1>13, AgreeAfterOther DEF SyncFails, Locals, Finish, Idle
  <1>14. CASE Reread(w)
    <2>1. PICK rule : Become(w, [op[w] EXCEPT !.pc = "rpUpdate", !.rule = rule])
      BY <1>14 DEF Reread
    <2> QED BY <1>a, <1>14, <2>1, AgreeAfterOther DEF Reread, Locals
  <1> QED BY <1>1, <1>2, <1>3, <1>4, <1>5, <1>6, <1>7, <1>8, <1>9, <1>10, <1>11, <1>12, <1>13, <1>14
          DEF Handler

LEMMA AgreeStep ==
    ASSUME AgreeInv, TypeOK', [Next /\ ClaimsDisjoint']_vars, "start" \notin Faults
    PROVE  AgreeInv'
  <1>1. ASSUME NEW w \in Workers, Handler(w), ClaimsDisjoint'
        PROVE  AgreeInv'
    <2>1. CASE ~RpRemove(w) /\ ~FpRemove(w) /\ ~RpUpdate(w) /\ ~FpUpdate(w)
      BY <1>1, <2>1, AgreeQuietStep
    <2>2. CASE RpRemove(w) \/ FpRemove(w) \/ RpUpdate(w) \/ FpUpdate(w)
      <3>1. PICK g \in Names : Touches(w, g)
        BY <2>2 DEF AgreeInv, TypeOK, Locals, Rule, Touches, Removing, Putting,
                    RpRemove, FpRemove, RpUpdate, FpUpdate
      <3> QED BY <1>1, <2>2, <3>1, AgreeAfterRp, AgreeAfterFp
    <2> QED BY <2>1, <2>2
  <1>2. ASSUME UNCHANGED <<rows, rp, fp, op>> PROVE AgreeInv'
    BY <1>2 DEF AgreeInv, Agree, Halfway, ClaimsDisjoint, Claim, HostnameOf, RowAt
  <1> QED BY <1>1, <1>2, AgreeRequest, AgreeRestart DEF Next, ListenIPsChange, vars

\* Whatever statements of a request fail and whatever ids clients name, as long as
\* no two requests edit one rule or host name at once and the SELECTs of the starts
\* succeed, the two proxies hold the same rule for a host name that no handler is
\* publishing.
THEOREM ProxiesAgreeCorrect ==
    ASSUME "start" \notin Faults
    PROVE  SpecClaims => []ProxiesAgree
  <1>1. Init => AgreeInv
    <2> SUFFICES ASSUME Init PROVE AgreeInv
      OBVIOUS
    <2>1. \A w \in Workers : Claim(w) = {} /\ op[w].pc = "idle"
      BY DEF Init, Idle, Claim, Routing, Asking, Removing, Putting
    <2>2. \A h : Agree(h)
      BY DEF Init, Agree
    <2> QED BY <2>1, <2>2, TypeInit
            DEF AgreeInv, ClaimsDisjoint, Routing, Asking, Removing, Putting
  <1>2. SpecClaims => Spec
    <2>1. [Next /\ ClaimsDisjoint']_vars => [Next]_vars
      OBVIOUS
    <2> QED BY <2>1, PTL DEF SpecClaims, Spec
  <1>3. AgreeInv => ProxiesAgree
    BY DEF AgreeInv, ProxiesAgree, Settled, Lagging, Halfway, Removing, Putting
  <1>4. AgreeInv /\ TypeOK' /\ [Next /\ ClaimsDisjoint']_vars => AgreeInv'
    BY AgreeStep
  <1> QED BY <1>1, <1>2, <1>3, <1>4, TypeCorrect, PTL DEF SpecClaims

-----------------------------------------------------------------------------
(* The handler that has the process to itself repairs what it works on.    *)

LEMMA SyncedEntries ==
    ASSUME NEW t \in Table(IPLists), NEW g \in Names, NEW v, NEW h \in Names
    PROVE  Entry(Put(t, g, v), h) = IF h = g THEN v ELSE Entry(t, h)
  BY EntryOfPut

\* The requests: what a handler knows when it begins.
LEMMA HealRequest ==
    ASSUME TypeOK, NEW w \in Workers, Request(w), ~Misled(w)
    PROVE  Undisturbed(w)'
  <1> USE DEF Removing, Putting
  <1>1. ASSUME NEW h \in Hosts, NEW b \in Backends, NEW e \in BOOLEAN, Create(w, h, b, e)
        PROVE  Undisturbed(w)'
    <2> DEFINE rule == [id |-> nextId, hostname |-> h, backend |-> b, enabled |-> e]
               o == [Idle EXCEPT !.pc = "rpUpdate", !.id = nextId, !.rule = rule]
    <2>1. Become(w, o) /\ o.pc = "rpUpdate" /\ o.id = nextId /\ o.rule = rule
      BY <1>1 DEF Create, Begin, Idle
    <2>2. nextId \in Ids /\ rows' = [rows EXCEPT ![nextId] = rule]
      BY <1>1, RuleSyncAssumption DEF Create, TypeOK, Ids
    <2> HIDE DEF o, rule
    <2>3. rows'[nextId] = rule /\ op'[w] = o
      BY <2>1, <2>2, BecomeAt DEF TypeOK
    <2> QED BY <2>1, <2>3 DEF Undisturbed
  <1>2. ASSUME NEW h \in Hosts, NEW b \in Backends, NEW e \in BOOLEAN, NEW i \in Ids,
               BeginUpdate(w, i, h, b, e)
        PROVE  Undisturbed(w)'
    <2> DEFINE rule == [id |-> i, hostname |-> h, backend |-> b, enabled |-> e]
    <2>1. PICK old \in {NoHost, HostnameOf(i)} :
              Become(w, [Idle EXCEPT !.pc = "update", !.id = i, !.old = old, !.rule = rule])
      BY <1>2 DEF BeginUpdate, Begin
    <2> DEFINE o == [Idle EXCEPT !.pc = "update", !.id = i, !.old = old, !.rule = rule]
    <2>2. o.pc = "update" /\ o.id = i /\ o.old = old
      BY DEF Idle
    <2>3. op'[w] = o
      BY <2>1, BecomeAt
    <2>4. HostnameOf(i)' = HostnameOf(i)
      BY <1>2 DEF BeginUpdate, HostnameOf, RowAt
    <2> HIDE DEF o
    <2>5. old = HostnameOf(i)
      BY <2>2, <2>3 DEF Misled
    <2> QED BY <2>2, <2>3, <2>4, <2>5 DEF Undisturbed
  <1>3. ASSUME NEW i \in Ids, BeginDelete(w, i) PROVE Undisturbed(w)'
    <2>1. PICK old \in {NoHost, HostnameOf(i)} :
              Become(w, [Idle EXCEPT !.pc = "delete", !.id = i, !.old = old])
      BY <1>3 DEF BeginDelete, Begin
    <2> DEFINE o == [Idle EXCEPT !.pc = "delete", !.id = i, !.old = old]
    <2>2. o.pc = "delete" /\ o.id = i /\ o.old = old
      BY DEF Idle
    <2>3. op'[w] = o
      BY <2>1, BecomeAt
    <2>4. HostnameOf(i)' = HostnameOf(i)
      BY <1>3 DEF BeginDelete, HostnameOf, RowAt
    <2> HIDE DEF o
    <2>5. old = HostnameOf(i)
      BY <2>2, <2>3 DEF Misled
    <2> QED BY <2>2, <2>3, <2>4, <2>5 DEF Undisturbed
  <1>4. ASSUME NEW i \in Ids, BeginToggle(w, i) PROVE Undisturbed(w)'
    <2> DEFINE rule == [ZeroRule EXCEPT !.enabled = ~rows[i].enabled]
    <2>1. op'[w] = [Idle EXCEPT !.pc = "toggle", !.id = i, !.rule = rule]
      BY <1>4, BecomeAt DEF BeginToggle, Begin
    <2> HIDE DEF rule
    <2>2. op'[w].pc = "toggle"
      BY <2>1 DEF Idle
    <2> QED BY <2>2 DEF Undisturbed
  <1> QED BY <1>1, <1>2, <1>3, <1>4 DEF Request

\* The steps on the rows: no row is left under the host name to be removed.
LEMMA HealCommit ==
    ASSUME TypeOK, RowsInv, RowsInv', NEW w \in Workers, Undisturbed(w), ~Misled(w),
           CommitUpdate(w) \/ CommitDelete(w) \/ CommitToggle(w) \/ Reread(w)
    PROVE  Undisturbed(w)'
  <1> USE DEF Removing, Putting
  <1> DEFINE i == op[w].id
  <1>0. op[w] \in Locals /\ i \in Ids /\ WritesOwnId(w)
    BY DEF TypeOK, RowsInv, WritesOwnId, Routing, Asking,
           CommitUpdate, CommitDelete, CommitToggle, Reread
  <1>1. HostnameOf(i) = IF rows[i] = Absent THEN NoHost ELSE rows[i].hostname
    BY <1>0 DEF HostnameOf, RowAt
  <1>2. ASSUME op[w].old = HostnameOf(i), \A j \in Ids : j # i => rows'[j] = rows[j],
               rows'[i] # Absent => rows'[i].hostname # op[w].old
        PROVE  RowOf(rows', op[w].old) = Absent
    <2> SUFFICES ASSUME NEW j \in Ids, HasHost(rows', j, op[w].old) PROVE FALSE
      BY RowOfNone
    <2>1. j # i /\ rows'[j] = rows[j] /\ op[w].old # NoHost
      BY <1>2 DEF HasHost, RowsInv, HostsNamed
    <2>2. rows[i] # Absent /\ HasHost(rows, i, op[w].old) /\ HasHost(rows, j, op[w].old)
      BY <1>1, <1>2, <2>1 DEF HasHost
    <2> QED BY <1>0, <2>1, <2>2 DEF RowsInv, RowsUnique, UniqueHosts, HasHost
  <1>3. CASE CommitUpdate(w)
    <2> DEFINE pc == IF op[w].old # op[w].rule.hostname THEN "rpRemove" ELSE "rpUpdate"
    <2>1. /\ op[w].pc = "update" /\ Goto(w, pc)
          /\ rows' = IF rows[i] # Absent THEN [rows EXCEPT ![i] = op[w].rule] ELSE rows
      BY <1>3 DEF CommitUpdate
    <2>2. /\ \A j \in Ids : j # i => rows'[j] = rows[j]
          /\ rows'[i] # Absent => rows'[i] = op[w].rule
      BY <1>0, <2>1 DEF TypeOK
    <2>3. op'[w] = [op[w] EXCEPT !.pc = pc] /\ pc \in {"rpRemove", "rpUpdate"}
      BY <2>1, BecomeAt DEF Goto
    <2>4. op'[w].pc = pc /\ op'[w].id = i /\ op'[w].old = op[w].old /\ op'[w].rule = op[w].rule
      BY <1>0, <2>3 DEF Locals
    <2>5. pc = "rpRemove" => RowOf(rows', op[w].old) = Absent
      BY <1>2, <2>1, <2>2 DEF Undisturbed
    <2> HIDE DEF pc
    <2> QED BY <2>2, <2>3, <2>4, <2>5 DEF Undisturbed
  <1>4. CASE CommitDelete(w)
    <2>1. op[w].pc = "delete" /\ Goto(w, "rpRemove") /\ rows' = [rows EXCEPT ![i] = Absent]
      BY <1>4 DEF CommitDelete
    <2>2. (\A j \in Ids : j # i => rows'[j] = rows[j]) /\ rows'[i] = Absent
      BY <1>0, <2>1 DEF TypeOK
    <2>3. op'[w] = [op[w] EXCEPT !.pc = "rpRemove"]
      BY <2>1, BecomeAt DEF Goto
    <2>4. op'[w].pc = "rpRemove" /\ op'[w].id = i /\ op'[w].old = op[w].old
      BY <1>0, <2>3 DEF Locals
    <2>5. RowOf(rows', op[w].old) = Absent
      BY <1>2, <2>1, <2>2 DEF Undisturbed
    <2> QED BY <2>2, <2>4, <2>5 DEF Undisturbed
  <1>5. CASE CommitToggle(w)
    <2>1. op'[w] = [op[w] EXCEPT !.pc = "reread", !.rule = ZeroRule]
      BY <1>5, BecomeAt DEF CommitToggle
    <2>2. op'[w].pc = "reread"
      BY <1>0, <2>1 DEF Locals
    <2> QED BY <2>2 DEF Undisturbed
  <1>6. CASE Reread(w)
    <2>1. PICK rule : Become(w, [op[w] EXCEPT !.pc = "rpUpdate", !.rule = rule])
      BY <1>6 DEF Reread
    <2>2. op'[w] = [op[w] EXCEPT !.pc = "rpUpdate", !.rule = rule]
      BY <2>1, BecomeAt
    <2>3. /\ op'[w].pc = "rpUpdate" /\ op'[w].id = i /\ op'[w].rule = rule
          /\ op[w].pc = "reread" /\ rows' = rows
      BY <1>0, <1>6, <2>2 DEF Locals, Reread
    <2>4. rows[i] # Absent => rule = rows[i]
      BY <2>3 DEF Misled
    <2> QED BY <2>3, <2>4 DEF Undisturbed
  <1> QED BY <1>3, <1>4, <1>5, <1>6

\* The steps on the three tables.
LEMMA HealTables ==
    ASSUME TypeOK, NEW w \in Workers, Undisturbed(w),
           RpRemove(w) \/ FpRemove(w) \/ AutoRemove(w) \/ RpUpdate(w) \/ FpUpdate(w)
    PROVE  Undisturbed(w)'
  <1> USE DEF Removing, Putting
  <1> DEFINE o == op[w]
  <1>0. /\ o \in Locals /\ o.old \in Names /\ o.rule \in Rule /\ o.rule.hostname \in Names
        /\ rows' = rows /\ rp \in Table(Rule) /\ fp \in Table(Rule)
    BY DEF TypeOK, Locals, Rule, RpRemove, FpRemove, AutoRemove, RpUpdate, FpUpdate
  <1>1. ASSUME NEW pc, Goto(w, pc)
        PROVE  /\ op'[w].pc = pc /\ op'[w].id = o.id /\ op'[w].old = o.old
               /\ op'[w].rule = o.rule
    <2>1. op'[w] = [o EXCEPT !.pc = pc]
      BY <1>1, BecomeAt DEF Goto
    <2> QED BY <1>0, <2>1 DEF Locals
  <1>2. CASE RpRemove(w)
    <2>1. o.pc = "rpRemove" /\ rp' = Drop(rp, o.old) /\ Goto(w, "fpRemove")
      BY <1>2 DEF RpRemove
    <2>2. Entry(rp', o.old) = Absent
      BY <1>0, <2>1, EntryOfDrop
    <2>3. /\ op'[w].pc = "fpRemove" /\ op'[w].id = o.id /\ op'[w].old = o.old
          /\ op'[w].rule = o.rule
      BY <1>1, <2>1
    <2> QED BY <1>0, <2>1, <2>2, <2>3 DEF Undisturbed
  <1>3. CASE FpRemove(w)
    <2>1. o.pc = "fpRemove" /\ fp' = Drop(fp, o.old) /\ Goto(w, "autoRemove") /\ rp' = rp
      BY <1>3 DEF FpRemove
    <2>2. Entry(fp', o.old) = Absent
      BY <1>0, <2>1, EntryOfDrop
    <2>3. /\ op'[w].pc = "autoRemove" /\ op'[w].id = o.id /\ op'[w].old = o.old
          /\ op'[w].rule = o.rule
      BY <1>1, <2>1
    <2> QED BY <1>0, <2>1, <2>2, <2>3 DEF Undisturbed
  <1>4. CASE AutoRemove(w) /\ o.rule = ZeroRule
    <2>1. op'[w] = Idle
      BY <1>4, BecomeAt DEF AutoRemove, Finish
    <2> QED BY <2>1 DEF Undisturbed, Idle
  <1>5. CASE AutoRemove(w) /\ o.rule # ZeroRule
    <2>1. o.pc = "autoRemove" /\ op'[w] = [o EXCEPT !.pc = "rpUpdate", !.old = NoHost]
      BY <1>5, BecomeAt DEF AutoRemove
    <2>2. op'[w].pc = "rpUpdate" /\ op'[w].id = o.id /\ op'[w].rule = o.rule
      BY <1>0, <2>1 DEF Locals
    <2> QED BY <1>0, <2>1, <2>2 DEF Undisturbed
  <1>6. CASE RpUpdate(w)
    <2>1. o.pc = "rpUpdate" /\ rp' = Publish(rp, o.rule) /\ Goto(w, "fpUpdate")
      BY <1>6 DEF RpUpdate
    <2>2. Entry(rp', o.rule.hostname) = Published(o.rule)
      BY <1>0, <2>1, EntryOfPublish DEF Published
    <2>3. /\ op'[w].pc = "fpUpdate" /\ op'[w].id = o.id /\ op'[w].rule = o.rule
      BY <1>1, <2>1
    <2> QED BY <1>0, <2>1, <2>2, <2>3 DEF Undisturbed
  <1>7. CASE FpUpdate(w)
    <2>1. op'[w] = [Idle EXCEPT !.pc = "resolve"]
      BY <1>7, BecomeAt DEF FpUpdate
    <2>2. op'[w].pc = "resolve"
      BY <2>1 DEF Idle
    <2> QED BY <2>2 DEF Undisturbed
  <1> QED BY <1>2, <1>3, <1>4, <1>5, <1>6, <1>7

\* The steps of a sync.
LEMMA HealSync ==
    ASSUME TypeOK, NEW w \in Workers, Undisturbed(w), ~Misled(w),
           SyncQuery(w) \/ SyncSet(w) \/ SyncList(w) \/ SyncPrune(w)
    PROVE  Undisturbed(w)'
  <1> USE DEF Removing, Putting
  <1> DEFINE o == op[w]
  <1>0. /\ o \in Locals /\ o.active \subseteq Names /\ o.todo \subseteq Names
        /\ rows' = rows /\ auto \in Table(IPLists)
    BY DEF TypeOK, Locals, SyncQuery, SyncSet, SyncList, SyncPrune
  <1>1. EnabledHosts(rows)' = EnabledHosts(rows)
    BY <1>0 DEF EnabledHosts
  <1>2. CASE SyncQuery(w)
    <2>1. PICK rs : /\ o.pc = "query"
                    /\ Become(w, [o EXCEPT !.pc = "set", !.active = EnabledHosts(rs),
                                           !.todo = EnabledHosts(rs)])
      BY <1>2 DEF SyncQuery
    <2>2. op'[w] = [o EXCEPT !.pc = "set", !.active = EnabledHosts(rs),
                             !.todo = EnabledHosts(rs)]
      BY <2>1, BecomeAt
    <2>3. /\ op'[w].pc = "set" /\ op'[w].active = EnabledHosts(rs)
          /\ op'[w].todo = EnabledHosts(rs) /\ op'[w].ips = o.ips
      BY <1>0, <2>2 DEF Locals
    <2>4. EnabledHosts(rs) = EnabledHosts(rows)
      BY <2>1, <2>3 DEF Misled
    <2> QED BY <1>1, <2>1, <2>3, <2>4 DEF Undisturbed
  <1>3. CASE SyncSet(w)
    <2>1. PICK h \in o.todo : /\ auto' = Put(auto, h, o.ips)
                              /\ Become(w, [o EXCEPT !.todo = @ \ {h}])
      BY <1>3 DEF SyncSet
    <2>2. o.pc = "set" /\ op'[w] = [o EXCEPT !.todo = @ \ {h}]
      BY <1>3, <2>1, BecomeAt DEF SyncSet
    <2>3. /\ op'[w].pc = "set" /\ op'[w].active = o.active /\ op'[w].ips = o.ips
          /\ op'[w].todo = o.todo \ {h}
      BY <1>0, <2>2 DEF Locals
    <2>4. \A g \in Names : Entry(auto', g) = IF g = h THEN o.ips ELSE Entry(auto, g)
      BY <1>0, <2>1, SyncedEntries
    <2> QED BY <1>0, <1>1, <2>2, <2>3, <2>4 DEF Undisturbed
  <1>4. CASE SyncList(w)
    <2>1. /\ o.pc = "set" /\ o.todo = {} /\ auto' = auto
          /\ op'[w] = [o EXCEPT !.pc = "prune", !.todo = Keys(auto) \ o.active]
      BY <1>4, BecomeAt DEF SyncList
    <2>2. /\ op'[w].pc = "prune" /\ op'[w].active = o.active /\ op'[w].ips = o.ips
          /\ op'[w].todo = Keys(auto) \ o.active
      BY <1>0, <2>1 DEF Locals
    <2>3. Keys(auto)' = Keys(auto)
      BY <2>1 DEF Keys
    <2> QED BY <1>0, <1>1, <2>1, <2>2, <2>3 DEF Undisturbed
  <1>5. CASE SyncPrune(w)
    <2>1. PICK h \in o.todo : /\ auto' = Put(auto, h, Absent)
                              /\ Become(w, [o EXCEPT !.todo = @ \ {h}])
      BY <1>5 DEF SyncPrune, Drop
    <2>2. o.pc = "prune" /\ op'[w] = [o EXCEPT !.todo = @ \ {h}]
      BY <1>5, <2>1, BecomeAt DEF SyncPrune
    <2>3. /\ op'[w].pc = "prune" /\ op'[w].active = o.active /\ op'[w].ips = o.ips
          /\ op'[w].todo = o.todo \ {h}
      BY <1>0, <2>2 DEF Locals
    <2>4. \A g \in Names : Entry(auto', g) = IF g = h THEN Absent ELSE Entry(auto, g)
      BY <1>0, <2>1, SyncedEntries
    <2>5. Keys(auto)' \subseteq Keys(auto) \ {h}
      BY <2>4 DEF Keys
    <2> QED BY <1>0, <1>1, <2>2, <2>3, <2>4, <2>5 DEF Undisturbed
  <1> QED BY <1>2, <1>3, <1>4, <1>5

LEMMA HealHandler ==
    ASSUME TypeOK, RowsInv, RowsInv', NEW w \in Workers, Undisturbed(w), ~Misled(w), Handler(w)
    PROVE  Undisturbed(w)'
  <1>1. CASE RefuseUpdate(w) \/ WriteFails(w) \/ SyncDone(w) \/ SyncFails(w)
    <2>1. op'[w] = Idle
      BY <1>1, BecomeAt DEF RefuseUpdate, WriteFails, SyncDone, SyncFails, Finish
    <2> QED BY <2>1 DEF Undisturbed, Idle, Removing, Putting
  <1>2. CASE SyncResolve(w)
    <2>1. op'[w] = [op[w] EXCEPT !.pc = "query", !.ips = listenIPs] /\ op[w] \in Locals
      BY <1>2, BecomeAt DEF SyncResolve, TypeOK
    <2>2. op'[w].pc = "query" /\ op'[w].ips = listenIPs
      BY <2>1 DEF Locals
    <2> QED BY <2>2 DEF Undisturbed, TypeOK, Removing, Putting
  <1> QED BY <1>1, <1>2, HealCommit, HealTables, HealSync DEF Handler

\* The handler that has had the process to itself is the one that moves.
LEMMA HealNextInv ==
    ASSUME HealInv, TypeOK', RowsInv', [HealNext]_healVars
    PROVE  HealInv'
  <1> SUFFICES ASSUME NEW w \in Workers, alone' = w
               PROVE  OthersIdle(w)' /\ Undisturbed(w)'
    BY DEF HealInv
  <1>0. w # Nobody
    BY NobodyAssumption
  <1>1. ASSUME NEW v \in Workers, Request(v) \/ SyncResolve(v),
               alone' = IF OthersIdle(v) /\ ~Misled(v) THEN v ELSE Nobody
        PROVE  OthersIdle(w)' /\ Undisturbed(w)'
    <2>1. v = w /\ OthersIdle(w) /\ ~Misled(w)
      BY <1>0, <1>1
    <2>2. OthersIdle(w)'
      BY <1>1, <2>1, OthersKeep DEF HealInv, Handler, OthersIdle
    <2>3. CASE Request(w)
      BY <2>1, <2>2, <2>3, HealRequest DEF HealInv
    <2>4. CASE SyncResolve(w)
      <3>1. op'[w] = [op[w] EXCEPT !.pc = "query", !.ips = listenIPs] /\ op[w] \in Locals
        BY <2>4, BecomeAt DEF SyncResolve, TypeOK, HealInv
      <3>2. op'[w].pc = "query" /\ op'[w].ips = listenIPs
        BY <3>1 DEF Locals
      <3> QED BY <2>2, <3>2 DEF HealInv, Undisturbed, TypeOK, Removing, Putting
    <2> QED BY <1>1, <2>1, <2>3, <2>4
  <1>2. ASSUME NEW v \in Workers, Handler(v),
               alone' = IF alone = v /\ ~Misled(v) THEN v ELSE Nobody
        PROVE  OthersIdle(w)' /\ Undisturbed(w)'
    <2>1. v = w /\ OthersIdle(w) /\ Undisturbed(w) /\ ~Misled(w)
      BY <1>0, <1>2 DEF HealInv
    <2>2. OthersIdle(w)'
      BY <1>2, <2>1, OthersKeep DEF HealInv, OthersIdle
    <2> QED BY <1>2, <2>1, <2>2, HealHandler DEF HealInv
  <1>3. CASE UNCHANGED <<rows, rp, fp, auto, op, alone>>
    <2>1. OthersIdle(w) /\ Undisturbed(w)
      BY <1>3 DEF HealInv
    <2>2. HostnameOf(op[w].id)' = HostnameOf(op[w].id)
      BY <1>3 DEF HostnameOf, RowAt
    <2> QED BY <1>3, <2>1, <2>2 DEF OthersIdle, Undisturbed, EnabledHosts, Keys
  <1>4. CASE Restart /\ alone' = Nobody
    BY <1>0, <1>4
  <1> QED BY <1>1, <1>2, <1>3, <1>4 DEF HealNext, healVars, vars, ListenIPsChange

LEMMA HealIsSpec == HealSpec => Spec
  <1>1. [HealNext]_healVars => [Next]_vars
    BY DEF HealNext, healVars, Next, Handler
  <1> QED BY <1>1, PTL DEF HealSpec, HealInit, Spec

LEMMA HealInvariance == HealSpec => []HealInv
  <1>1. HealInit => HealInv
    BY TypeInit, RowsInit, NobodyAssumption DEF HealInit, HealInv
  <1>2. HealInv /\ TypeOK' /\ RowsInv' /\ [HealNext]_healVars => HealInv'
    BY HealNextInv
  <1>3. Spec => []RowsInv
    BY RowsInit, RowsInvNext, TypeCorrect, PTL DEF Spec
  <1> QED BY <1>1, <1>2, <1>3, HealIsSpec, TypeCorrect, PTL DEF HealSpec

-----------------------------------------------------------------------------
\* syncAutoRecords that ran alone and read every enabled host name: their records, and
\* no others.
THEOREM SyncsHeal == HealSpec => UndisturbedSyncHeals
  <1>1. ASSUME HealInv, NEW w \in Workers PROVE SyncHeals(w)
    <2> SUFFICES ASSUME alone = w, SyncDone(w)
                 PROVE  /\ Keys(auto) = EnabledHosts(rows)
                        /\ \A h \in Keys(auto) : Entry(auto, h) = op[w].ips
      BY DEF SyncHeals
    <2>1. op[w].pc = "prune" /\ op[w].todo = {} /\ Undisturbed(w)
      BY <1>1 DEF SyncDone, HealInv
    <2>2. /\ op[w].active = EnabledHosts(rows) /\ op[w].ips # Absent
          /\ \A h \in op[w].active : Entry(auto, h) = op[w].ips
          /\ Keys(auto) \subseteq op[w].active
      BY <2>1, AbsentAssumption DEF Undisturbed
    <2> QED BY <2>2 DEF Keys, EnabledHosts
  <1>2. HealInv => \A w \in Workers : SyncHeals(w)
    BY <1>1
  <1> QED BY <1>2, HealInvariance, PTL DEF UndisturbedSyncHeals

\* A create, an edit or a toggle that ran alone and whose SELECTs, if it has any, told
\* it what the rows hold: both proxies have the row.
THEOREM EditsHeal == HealSpec => UndisturbedEditHeals
  <1>1. ASSUME HealInv, NEW w \in Workers PROVE EditHeals(w)
    <2> DEFINE rule == op[w].rule
               i == op[w].id
               h == HostnameOf(i)
    <2> SUFFICES ASSUME alone = w, FpUpdate(w), rows[i] # Absent
                 PROVE  Entry(rp', h) = EnabledOf(rows, h) /\ Entry(fp', h) = EnabledOf(rows, h)
      BY DEF EditHeals
    <2>1. /\ op[w].pc = "fpUpdate" /\ Undisturbed(w) /\ WritesOwnId(w)
          /\ rp' = rp /\ fp' = Publish(fp, rule)
      BY <1>1 DEF FpUpdate, HealInv, RowsInv
    <2>2. rule = rows[i] /\ h = rule.hostname
      BY <2>1 DEF Undisturbed, Putting, HostnameOf, RowAt, WritesOwnId, Routing
    <2>3. rule \in Rule /\ h \in Names /\ fp \in Table(Rule) /\ i \in Ids
      BY <1>1, <2>1, <2>2 DEF HealInv, TypeOK, Locals, Rule, WritesOwnId, Routing, Putting
    <2>4. Entry(rp', h) = Published(rule) /\ Entry(fp', h) = Published(rule)
      BY <2>1, <2>2, <2>3, EntryOfPublish DEF Undisturbed, Published
    <2>5. RowOf(rows, h) = rule
      BY <1>1, <2>2, <2>3, RowOfHost DEF HealInv, RowsInv, RowsUnique, HasHost
    <2> QED BY <2>2, <2>4, <2>5 DEF EnabledOf, Published
  <1>2. HealInv => \A w \in Workers : EditHeals(w)
    BY <1>1
  <1> QED BY <1>2, HealInvariance, PTL DEF UndisturbedEditHeals

\* A delete or a rename that ran alone and could read the host name the row had:
\* nothing is left of that name.
THEOREM DeletesHeal == HealSpec => UndisturbedDeleteHeals
  <1>1. ASSUME HealInv, NEW w \in Workers PROVE DeleteHeals(w)
    <2> SUFFICES ASSUME alone = w, AutoRemove(w)
                 PROVE  /\ \A t \in {rp', fp', auto'} : Entry(t, op[w].old) = Absent
                        /\ op[w].old \notin EnabledHosts(rows)
      BY DEF DeleteHeals
    <2>1. /\ op[w].pc = "autoRemove" /\ Undisturbed(w) /\ rp' = rp /\ fp' = fp
          /\ auto' = Put(auto, op[w].old, Absent)
      BY <1>1 DEF AutoRemove, HealInv, Drop
    <2>2. op[w].old \in Names /\ auto \in Table(IPLists)
      BY <1>1 DEF HealInv, TypeOK, Locals
    <2>3. Entry(auto', op[w].old) = Absent
      BY <2>1, <2>2, SyncedEntries
    <2>4. op[w].old \notin EnabledHosts(rows)
      BY <2>1 DEF Undisturbed, Removing, EnabledHosts, EnabledOf
    <2> QED BY <2>1, <2>3, <2>4 DEF Undisturbed
  <1>2. HealInv => \A w \in Workers : DeleteHeals(w)
    BY <1>1
  <1> QED BY <1>2, HealInvariance, PTL DEF UndisturbedDeleteHeals

\* No step of an undisturbed handler takes away the record of an enabled rule.
THEOREM RecordsStay == HealSpec => AutoStays
  <1>1. ASSUME HealInv, [HealNext]_healVars, NEW w \in Workers PROVE KeepsRecords(w)
    <2> SUFFICES ASSUME alone = w, alone' = w, NEW h \in Names,
                        Entry(auto, h) # Absent, Entry(auto', h) = Absent
                 PROVE  EnabledOf(rows', h) = Absent
      BY DEF KeepsRecords, Keys
    <2>0. /\ op[w] \in Locals /\ Undisturbed(w) /\ auto \in Table(IPLists) /\ w # Nobody
          /\ op[w].old \in Names /\ op[w].todo \subseteq Names
      BY <1>1, NobodyAssumption DEF HealInv, TypeOK, Locals
    <2>1. AutoRemove(w) \/ SyncSet(w) \/ SyncPrune(w)
      <3>1. auto' # auto
        OBVIOUS
      <3>2. ASSUME NEW v \in Workers, Request(v) PROVE auto' = auto
        BY <3>2 DEF Request, Create, BeginUpdate, BeginDelete, BeginToggle
      <3>3. ASSUME NEW v \in Workers, Handler(v), auto' # auto
            PROVE  AutoRemove(v) \/ SyncSet(v) \/ SyncPrune(v)
        BY <3>3 DEF Handler, CommitUpdate, RefuseUpdate, CommitDelete, WriteFails,
           CommitToggle, Reread, RpRemove, FpRemove, RpUpdate, FpUpdate,
           SyncResolve, SyncQuery, SyncList, SyncDone, SyncFails
      <3>4. PICK v \in Workers : Handler(v) /\ alone' \in {v, Nobody}
        BY <1>1, <2>0, <3>1, <3>2 DEF HealNext, healVars, vars, ListenIPsChange, Handler
      <3> QED BY <2>0, <3>1, <3>3, <3>4
    <2>2. CASE AutoRemove(w)
      <3>1. /\ op[w].pc = "autoRemove" /\ auto' = Put(auto, op[w].old, Absent) /\ rows' = rows
        BY <2>2 DEF AutoRemove, Drop
      <3>2. h = op[w].old
        BY <2>0, <3>1, SyncedEntries
      <3> QED BY <2>0, <3>1, <3>2 DEF Undisturbed, EnabledOf, Removing
    <2>3. CASE SyncSet(w)
      <3>1. PICK g \in op[w].todo : auto' = Put(auto, g, op[w].ips)
        BY <2>3 DEF SyncSet
      <3>2. op[w].ips # Absent
        BY <2>0, <2>3, AbsentAssumption DEF SyncSet, Undisturbed
      <3> QED BY <2>0, <3>1, <3>2, SyncedEntries
    <2>4. CASE SyncPrune(w)
      <3>1. PICK g \in op[w].todo : auto' = Put(auto, g, Absent)
        BY <2>4 DEF SyncPrune, Drop
      <3>2. h = g /\ rows' = rows /\ op[w].pc = "prune"
        BY <2>0, <2>4, <3>1, SyncedEntries DEF SyncPrune
      <3> QED BY <2>0, <3>1, <3>2 DEF Undisturbed, EnabledHosts
    <2> QED BY <2>1, <2>2, <2>3, <2>4
  <1>2. HealInv /\ [HealNext]_healVars => [\A w \in Workers : KeepsRecords(w)]_healVars
    BY <1>1
  <1> QED BY <1>2, HealInvariance, PTL DEF HealSpec, AutoStays
=============================================================================
