---------------------------- MODULE RuleSyncHeal ----------------------------
(***************************************************************************)
(* RuleSync with any number of requests racing and any statement failing,  *)
(* and a history variable that says which handler, if any, has had the     *)
(* process to itself since it began its request or its sync, and was told  *)
(* by every SELECT what the rows hold.  Such a handler is undisturbed: what *)
(* races, failures and failed starts broke, it repairs.                    *)
(***************************************************************************)
EXTENDS RuleSyncProps

CONSTANT Nobody
ASSUME NobodyAssumption == Nobody \notin Workers

VARIABLE alone
healVars == <<vars, alone>>

OthersIdle(w) == \A v \in Workers \ {w} : op[v].pc = "idle"

\* A SELECT of w fails or breaks off, and the code goes on with what it has: no
\* old host name, the zero rule, or some of the enabled host names.
Misled(w) ==
    \/ op'[w].pc \in {"update", "delete"} /\ op'[w].old # HostnameOf(op'[w].id)
    \/ /\ op[w].pc = "reread" /\ rows[op[w].id] # Absent
       /\ op'[w].rule # rows[op[w].id]
    \/ op[w].pc = "query" /\ op'[w].pc = "set" /\ op'[w].active # EnabledHosts(rows)

HealInit == Init /\ alone = Nobody
HealNext ==
    \/ \E w \in Workers :
          \/ /\ Request(w) \/ SyncResolve(w)
             /\ alone' = IF OthersIdle(w) /\ ~Misled(w) THEN w ELSE Nobody
          \/ /\ Handler(w) /\ ~SyncResolve(w)
             /\ alone' = IF alone = w /\ ~Misled(w) THEN w ELSE Nobody
    \/ Restart /\ alone' = Nobody
    \/ ListenIPsChange /\ UNCHANGED alone
HealSpec == HealInit /\ [][HealNext]_healVars

-----------------------------------------------------------------------------
\* A sync that runs undisturbed leaves an auto record for exactly the enabled
\* host names, each with the addresses it resolved, whatever was there before.
SyncHeals(w) ==
    alone = w /\ SyncDone(w) =>
        /\ Keys(auto) = EnabledHosts(rows)
        /\ \A h \in Keys(auto) : Entry(auto, h) = op[w].ips
UndisturbedSyncHeals == [][\A w \in Workers : SyncHeals(w)]_healVars

\* A create, an edit or a toggle that runs undisturbed leaves both proxies with
\* what the row it was for says now: its rule under its host name, and none if it
\* is disabled.
EditHeals(w) ==
    alone = w /\ FpUpdate(w) /\ rows[op[w].id] # Absent =>
        LET h == HostnameOf(op[w].id)
        IN  Entry(rp', h) = EnabledOf(rows, h) /\ Entry(fp', h) = EnabledOf(rows, h)
UndisturbedEditHeals == [][\A w \in Workers : EditHeals(w)]_healVars

\* A delete, and an edit that changes the host name, leave no route and no record
\* of the host name the row had when they began, if they run undisturbed; nor is
\* there another row of that name.
DeleteHeals(w) ==
    alone = w /\ AutoRemove(w) =>
        /\ \A t \in {rp', fp', auto'} : Entry(t, op[w].old) = Absent
        /\ op[w].old \notin EnabledHosts(rows)
UndisturbedDeleteHeals == [][\A w \in Workers : DeleteHeals(w)]_healVars

\* A handler that runs undisturbed never takes away, not even for a moment, the
\* name resolution of an enabled rule.
KeepsRecords(w) ==
    alone = w /\ alone' = w =>
        \A h \in Keys(auto) \ Keys(auto') : EnabledOf(rows', h) = Absent
AutoStays == [][\A w \in Workers : KeepsRecords(w)]_healVars

-----------------------------------------------------------------------------
(* The inductive invariant behind the four: what a handler knows of the    *)
(* rows and the tables while nobody else changes them, whatever they were  *)
(* before it began.                                                        *)
Undisturbed(w) ==
    LET o == op[w]
    IN  /\ o.pc \in {"update", "delete"} => o.old = HostnameOf(o.id)
        /\ o.pc \in Removing => RowOf(rows, o.old) = Absent
        /\ o.pc \in {"fpRemove", "autoRemove"} => Entry(rp, o.old) = Absent
        /\ o.pc = "autoRemove" => Entry(fp, o.old) = Absent
        /\ o.pc \in Removing \cup Putting /\ rows[o.id] # Absent =>
               o.rule = rows[o.id]
        /\ o.pc = "fpUpdate" => Entry(rp, o.rule.hostname) = Published(o.rule)
        /\ o.pc \in {"query", "set", "prune"} => o.ips \in IPLists
        /\ o.pc \in {"set", "prune"} =>
               /\ o.active = EnabledHosts(rows)
               /\ \A h \in o.active :
                      Entry(auto, h) = o.ips \/ (o.pc = "set" /\ h \in o.todo)
        /\ o.pc = "prune" => o.todo \cap o.active = {} /\ Keys(auto) \subseteq o.active \cup o.todo

HealInv == /\ TypeOK /\ RowsInv
           /\ \A w \in Workers : alone = w => OthersIdle(w) /\ Undisturbed(w)
=============================================================================
