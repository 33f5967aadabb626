--------------------------- MODULE RuleSyncProps ----------------------------
(***************************************************************************)
(* What the REST handlers promise about the three in-memory tables, and    *)
(* the client disciplines under which they keep the promise.               *)
(***************************************************************************)
EXTENDS RuleSync

Asking    == {"update", "delete", "toggle", "reread"}
Removing  == {"rpRemove", "fpRemove", "autoRemove"}
Putting   == {"rpUpdate", "fpUpdate"}
Routing   == Asking \cup Removing \cup Putting
Quiescent == \A w \in Workers : op[w].pc = "idle"
Syncing   == {"resolve", "query", "set", "prune"}
Locals == [pc : {"idle"} \cup Routing \cup Syncing,
           id : 0..MaxId, old : Names, rule : Rule, ips : IPLists \cup {Absent},
           active : SUBSET Names, todo : SUBSET Names]

\* Type correctness of the database, the three tables and the handlers.
TypeOK ==
    /\ rows \in [Ids -> Rule \cup {Absent}]
    /\ nextId \in 1..MaxId + 1
    /\ rp \in Table(Rule)
    /\ fp \in Table(Rule)
    /\ auto \in Table(IPLists)
    /\ listenIPs \in IPLists
    /\ op \in [Workers -> Locals]

-----------------------------------------------------------------------------
(* Client disciplines.                                                     *)

\* The host names a handler is busy with until it has published its routes.
Claim(w) ==
    IF op[w].pc \in Routing
    THEN {op[w].rule.hostname, op[w].old, HostnameOf(op[w].id)} \ {NoHost}
    ELSE {}

\* Clients do not edit one rule, or one host name, in two requests at once.
ClaimsDisjoint ==
    \A v, w \in Workers : v # w =>
        /\ Claim(v) \cap Claim(w) = {}
        /\ {op[v].pc, op[w].pc} \subseteq Routing => op[v].id # op[w].id

\* A PUT is for a rule that exists.
IdsExist == \A w \in Workers : op[w].pc = "update" => rows[op[w].id] # Absent

SpecClaims  == Init /\ [][Next /\ ClaimsDisjoint']_vars
SpecCareful == Init /\ [][Next /\ ClaimsDisjoint' /\ IdsExist']_vars

-----------------------------------------------------------------------------
(* Safety.                                                                 *)

\* The host names whose routes a handler has yet to bring in line.
Lagging(w) ==
    CASE op[w].pc = "reread" -> {HostnameOf(op[w].id)}
      [] op[w].pc \in Removing \cup Putting -> {op[w].rule.hostname, op[w].old}
      [] OTHER -> {}
Settled(h) == \A w \in Workers : h \notin Lagging(w)

\* LoadRules keeps disabled rows, so the reverse proxy may still hold one.
RpFollows(h) == \/ Entry(rp, h) = EnabledOf(rows, h)
                \/ Entry(rp, h) = RowOf(rows, h)
FpFollows(h) == Entry(fp, h) = EnabledOf(rows, h)

\* Whatever handlers run side by side, a host name that none of them is
\* publishing has in both proxies exactly the rule its row has: none when the
\* row is gone or disabled (but for disabled rows the reverse proxy loaded).
RoutesFollowRows == \A h \in Names \ {NoHost} : Settled(h) => RpFollows(h) /\ FpFollows(h)

\* No step takes away the route of a host name whose rule is enabled: edits of
\* other rules, or of this one, never interrupt it.
RoutesStay ==
    [][\A h \in Names \ {NoHost} : EnabledOf(rows', h) # Absent =>
           /\ Entry(rp, h) # Absent => Entry(rp', h) # Absent
           /\ Entry(fp, h) # Absent => Entry(fp', h) # Absent]_vars

Agree(h) == \/ Entry(rp, h) = Entry(fp, h)
            \/ Entry(fp, h) = Absent /\ ~Entry(rp, h).enabled

\* Even with PUTs to ids that have no row and with any statement of a request
\* failing, the two proxies have the same rule for a settled host name, but for
\* disabled rules that LoadRules gave to the reverse proxy alone.  The proxies are
\* filled by different SELECTs at a start, so those have to succeed ("start").
ProxiesAgree == \A h \in Names \ {NoHost} : Settled(h) => Agree(h)

UniqueHosts(rs) ==
    \A i, j \in Ids : rs[i] # Absent /\ rs[j] # Absent /\ rs[i].hostname = rs[j].hostname
                      => i = j
\* The UNIQUE column and AUTOINCREMENT: host names identify rows, and an id
\* that was not handed out yet has none.
RowsUnique ==
    /\ UniqueHosts(rows)
    /\ \A i \in Ids : rows[i] # Absent => i < nextId /\ rows[i].id = i

\* The inductive invariant behind it, for every client and every fault: a handler
\* writes under a host name only a row with the id it was asked for.
HostsNamed == \A i \in Ids : rows[i] # Absent => rows[i].hostname # NoHost
WritesOwnId(w) ==
    LET o == op[w]
    IN  /\ o.pc \in Routing => o.id \in Ids
        /\ o.pc = "update" => o.rule.id = o.id /\ o.rule.hostname # NoHost
RowsInv == RowsUnique /\ HostsNamed /\ \A w \in Workers : WritesOwnId(w)

-----------------------------------------------------------------------------
(* The inductive invariant behind RoutesFollowRows: what a handler of a    *)
(* careful client knows between two of its steps.                          *)
HandlerInv(w) ==
    LET o == op[w]
    IN  /\ o.pc \in Routing => o.id \in Ids
        /\ o.pc = "update" =>
              o.old = HostnameOf(o.id) /\ o.rule.id = o.id /\ o.rule.hostname # NoHost
        /\ o.pc = "delete" => o.old = HostnameOf(o.id) /\ o.rule = ZeroRule
        /\ o.pc \in {"toggle", "reread"} => rows[o.id] # Absent /\ o.old = NoHost
        /\ o.pc \in Removing =>
              /\ rows[o.id] = IF o.rule = ZeroRule THEN Absent ELSE o.rule
              /\ o.old # o.rule.hostname \/ o.old = NoHost
              /\ RowOf(rows, o.old) = Absent
              /\ o.pc # "rpRemove" => Entry(rp, o.old) = Absent
              /\ o.pc = "autoRemove" => Entry(fp, o.old) = Absent
        /\ o.pc \in Putting =>
              /\ rows[o.id] = o.rule /\ o.old \in {NoHost, o.rule.hostname}
              /\ o.pc = "fpUpdate" => RpFollows(o.rule.hostname)

RouteInv == /\ TypeOK
            /\ RowsUnique
            /\ HostsNamed
            /\ Entry(rp, NoHost) = Absent /\ Entry(fp, NoHost) = Absent
            /\ ClaimsDisjoint /\ IdsExist
            /\ \A w \in Workers : HandlerInv(w)
            /\ RoutesFollowRows

(* The inductive invariant behind ProxiesAgree, which needs no row at all: *)
(* the proxies differ on h only while a handler is between its step on the *)
(* one and its step on the other, and then it has yet to write to the      *)
(* forward proxy what the reverse proxy holds.                             *)
Halfway(w, h) == \/ op[w].pc = "fpRemove" /\ op[w].old = h
                 \/ op[w].pc = "fpUpdate" /\ op[w].rule.hostname = h
Published(rule) == IF rule.enabled THEN rule ELSE Absent

AgreeInv ==
    /\ TypeOK
    /\ ClaimsDisjoint
    /\ \A h \in Names \ {NoHost} : Agree(h) \/ \E w \in Workers : Halfway(w, h)
    /\ \A w \in Workers :
          /\ op[w].pc = "fpRemove" /\ op[w].old # NoHost => Entry(rp, op[w].old) = Absent
          /\ op[w].pc = "fpUpdate" /\ op[w].rule.hostname # NoHost =>
                Entry(rp, op[w].rule.hostname) = Published(op[w].rule)

-----------------------------------------------------------------------------
(* Statements of the documentation that the code does not keep.            *)

\* The forward proxy applies the same rules, in the same order of priority, as
\* the reverse proxy: with no request in flight a name is served alike by both.
SameServing == Quiescent => \A h \in Names : Serves(rp, h) = Serves(fp, h)

\* With no request in flight DNS answers for exactly the enabled rules.
AutoFollowsRows == Quiescent => Keys(auto) = EnabledHosts(rows)
=============================================================================
