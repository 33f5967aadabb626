----------------------------- MODULE CertProps ------------------------------
(***************************************************************************)
(* What the certificate manager promises to handshakes and to the operator.*)
(***************************************************************************)
EXTENDS CertManager

Pcs == {"idle", "load", "loadWildcard", "sign", "save", "store",
        "deleteRow", "checkCA", "renewCA", "list", "renewHosts"}
Locals == [pc : Pcs, host : Names, found : Cert \cup {Absent}, todo : SUBSET Names]

\* Type correctness of the clock, the rows, the memory and the goroutines.
TypeOK ==
    /\ now \in Nat
    /\ caDb \in CA /\ ca \in CA
    /\ hostDb \in [Names -> Cert \cup {Absent}]
    /\ cache \in [Names -> Cert \cup {Absent}]
    /\ serving \in BOOLEAN
    /\ op \in [Threads -> Locals]
    /\ answer \in [host : Names, cert : Cert] \cup {Absent}

Quiescent == \A t \in Threads : op[t].pc = "idle"

-----------------------------------------------------------------------------
\* Whatever handshakes, regenerations, maintenance and failures run side by
\* side, the certificate handed out for a host name is one that names it.
ServedCovers == answer # Absent => Covers(answer.cert, answer.host)

\* The inductive invariant behind it: rows and cache entries are kept under the
\* name they were made for, and a look-up finds its own name or its wildcard.
Named(f) == \A h \in Names : f[h] # Absent => h # NoHost /\ f[h].host = h
LocalsInv(o) ==
    /\ o.pc \in {"load", "loadWildcard", "sign", "save", "store", "deleteRow"} =>
           o.host # NoHost
    /\ o.pc = "save" => o.found # Absent /\ o.found.host = o.host
    /\ o.pc = "store" => /\ o.found # Absent
                         /\ o.found.host \in {o.host, Wildcard(o.host)} \ {NoHost}
    /\ NoHost \notin o.todo

CertInv == /\ TypeOK
           /\ Named(hostDb) /\ Named(cache)
           /\ \A t \in Threads : LocalsInv(op[t])
           /\ ServedCovers

\* The CA in memory is the one a restart will load: a CA that could not be
\* saved signs nothing.
CASaved == ca = caDb

\* A replaced CA leaves the certificates it signed in use.  None of them, saved,
\* cached, handed out or on its way, outlives the replacement by more than the
\* life of a host certificate, also one that was being signed at that moment.
Bounded(cert) == cert # Absent /\ cert.issuer # ca.expires =>
                     cert.expires + CALife <= ca.expires + HostLife
ReplacedCADies == /\ \A h \in Names : Bounded(hostDb[h]) /\ Bounded(cache[h])
                  /\ \A t \in Threads : Bounded(op[t].found)
                  /\ answer # Absent => Bounded(answer.cert)

-----------------------------------------------------------------------------
(* One request or one pass of the maintenance at a time, each far shorter  *)
(* than a tick.                                                            *)
OneAtATime == \A t, u \in Threads : op[t].pc # "idle" /\ op[u].pc # "idle" => t = u
SpecSerial == Init /\ [][Next /\ OneAtATime' /\ (Tick => Quiescent)]_vars

Coherent(h) == cache[h] # Absent => cache[h] = hostDb[h]

\* Between requests a cached certificate is the saved one, so a restart serves
\* what the process served; failed statements do not change that.
CacheCoherent == Quiescent => \A h \in Names : Coherent(h)

\* The inductive invariant behind it: a row changes only while its name is out of
\* the cache, and what is about to be cached is the row.
Alone(o) ==
    /\ o.pc \in {"deleteRow", "load", "loadWildcard", "sign", "save"} =>
           cache[o.host] = Absent
    /\ o.pc = "store" => o.found = hostDb[o.found.host]
SerialInv == /\ OneAtATime
             /\ \A h \in Names : Coherent(h)
             /\ \A t \in Threads : Alone(op[t])

-----------------------------------------------------------------------------
\* Liveness: every handshake and regeneration gets its certificate or an error.
CallersReturn == \A t \in Callers : op[t].pc # "idle" ~> op[t].pc = "idle"

\* Liveness: the pass at start-up ends and lets requests in, unless the process
\* is restarted forever.
MaintenanceEnds ==
    []<><<Restart>>_vars \/ (op[Maintainer].pc # "idle" ~> op[Maintainer].pc = "idle")
=============================================================================
