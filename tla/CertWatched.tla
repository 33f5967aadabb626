---------------------------- MODULE CertWatched -----------------------------
(***************************************************************************)
(* CertManager with a history variable: whether a database statement of    *)
(* the maintenance pass in progress has failed.                            *)
(***************************************************************************)
EXTENDS CertProps

VARIABLE failed

wvars == <<vars, failed>>

\* The steps of a pass that a failing statement sends another way.
StatementFails ==
    \/ CheckCA /\ Expired(caDb) /\ op'[Maintainer].pc # "renewCA"
    \/ RenewCA /\ UNCHANGED caDb
    \/ ListExpired /\ op'[Maintainer].todo # {h \in Names : Expired(hostDb[h])}
    \/ SaveFails(Maintainer) \/ DeleteFails(Maintainer)

WatchedInit == Init /\ failed = FALSE
WatchedNext ==
    /\ Next /\ OneAtATime' /\ (Tick => Quiescent)
    /\ failed' = (StatementFails \/ (failed /\ ~Maintain /\ ~Restart))
WatchedSpec == /\ WatchedInit /\ [][WatchedNext]_wvars
               /\ \A t \in Callers : WF_vars(Step(t))
               /\ WF_vars(Step(Maintainer) \/ Maintenance)

\* A pass of the maintenance none of whose statements failed leaves nothing
\* expired, saved or cached, although only the rows are looked at and a cached
\* certificate is never checked.
MaintenanceClears ==
    [][Maintained /\ ~failed =>
           /\ ~Expired(ca)
           /\ \A h \in Names : ~Expired(hostDb[h]) /\ ~Expired(cache[h])]_wvars

\* Nobody reissues the certificates of a replaced CA, yet the first such pass
\* later than a host certificate lives has replaced or dropped every one.
\* A CA was made CALife before it expires.
Signed(cert) == cert # Absent => cert.issuer = ca.expires
ReplacedCAGone ==
    [][Maintained /\ ~failed /\ now + CALife > ca.expires + HostLife =>
           \A h \in Names : Signed(hostDb[h]) /\ Signed(cache[h])]_wvars

-----------------------------------------------------------------------------
(* The inductive invariant behind the two: as long as no statement of the  *)
(* pass failed, the CA is good once it was checked, and the rows that have *)
(* expired are those still to be renewed.                                  *)
Renewing == {"renewHosts", "load", "loadWildcard", "sign", "save", "store"}
ClearInv ==
    LET m == op[Maintainer]
    IN  ~failed =>
            /\ m.pc \in Renewing \cup {"list", "deleteRow"} => ~Expired(ca)
            /\ m.pc \in Renewing \cup {"deleteRow"} =>
                   \A h \in Names : Expired(hostDb[h]) =>
                       h \in m.todo \/ (m.pc = "deleteRow" /\ h = m.host)
            /\ m.pc = "save" => ~Expired(m.found)
=============================================================================
