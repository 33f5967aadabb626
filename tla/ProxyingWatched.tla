-------------------------- MODULE ProxyingWatched ---------------------------
(***************************************************************************)
(* Proxying with a history variable: the rules that matched since a        *)
(* request arrived.                                                        *)
(***************************************************************************)
EXTENDS ProxyingProps

VARIABLE seen  \* the enabled rules that a connection's proxy had for its host

InUse(c) == IF op[c].way = "reverse" THEN rp ELSE fp
Watching(c) == op[c].pc = "lookup" \/ op[c].rule # Absent
Found(c) == IF Watching(c) /\ Matched(InUse(c), op[c].host)
            THEN {Match(InUse(c), op[c].host)} ELSE {}

pvars == <<vars, seen>>
WatchedInit == Init /\ seen = [c \in Conns |-> {}]
WatchedNext == /\ Next
               /\ seen' = [c \in Conns |-> IF Watching(c)' THEN seen[c] \cup Found(c)'
                                           ELSE {}]
WatchedSpec == WatchedInit /\ [][WatchedNext]_pvars /\ \A c \in Conns : Fairness(c)

\* A request reaches only a backend that an enabled rule gave its host, in the
\* proxy it came through, at some moment since it arrived: a disabled rule, which
\* the reverse proxy does load at its start, sends no request anywhere.
BackendWasRight ==
    \A c \in Conns : op[c].rule # Absent =>
        \E rule \in seen[c] : rule.backend = op[c].rule.backend

\* Every entry of the access log is of a host and a backend that an enabled rule
\* joined while the request was handled.
OnlyRulesLogged ==
    [][Len(accessLog') > Len(accessLog) =>
           LET entry == accessLog'[Len(accessLog')]
           IN  \E c \in Conns : /\ op[c].pc = "log" /\ op[c].host = entry.host
                                /\ \E rule \in seen[c] : rule.backend = entry.backend]_pvars

-----------------------------------------------------------------------------
(* The inductive invariant behind the two: what is in the table now has    *)
(* been seen, and so has the rule a goroutine found and keeps.             *)
SeenInv == \A c \in Conns : /\ Watching(c) => Found(c) \subseteq seen[c]
                            /\ op[c].rule # Absent => op[c].rule \in seen[c]
=============================================================================
