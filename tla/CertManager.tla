---------------------------- MODULE CertManager ----------------------------
(***************************************************************************)
(* The certificate manager (app/cert/manager.go): one CA and one           *)
(* certificate per host name, kept in the database and cached in memory.   *)
(* TLS handshakes of both proxies and new rules ask for certificates, the  *)
(* REST API regenerates them, the maintenance goroutine renews what has    *)
(* expired.  The mutex covers single accesses of the cache and the CA, not *)
(* the way from a look-up to the store, so the steps of two callers mix.   *)
(***************************************************************************)
EXTENDS Hostnames

CONSTANTS Callers,     \* goroutines asking for or regenerating certificates
          Maintainer,  \* the goroutine of start-up and of the daily maintenance
          Names,       \* host names, closed under taking the wildcard
          Asked,       \* host names certificates are asked for
          Absent,      \* no certificate, no answer
          HostLife,    \* ticks a host certificate is valid (365 days)
          CALife,      \* ticks a CA certificate is valid (10 years)
          MaxNow,      \* bound: the clock stops here
          DbFails      \* whether database statements may fail

ASSUME CertAssumption ==
    /\ Names \subseteq Seq(Labels) /\ NoHost \in Names /\ Asked \subseteq Names \ {NoHost}
    /\ \A h \in Names : Len(h) >= 2 => WildcardOf(WildcardDomain(h)) \in Names
    /\ HostLife \in Nat \ {0} /\ CALife \in Nat \ {0}
    /\ MaxNow \in Nat /\ DbFails \in BOOLEAN
    /\ Maintainer \notin Callers

VARIABLES now,      \* time.Now()
          caDb,     \* the row of ca_certificate
          ca,       \* Manager.caCert and caKey
          hostDb,   \* the rows of host_certificates, by host name
          cache,    \* Manager.cache
          serving,  \* whether start-up is over and requests are accepted
          op,       \* the locals of each goroutine
          answer    \* the last certificate handed out, and for which name

vars == <<now, caDb, ca, hostDb, cache, serving, op, answer>>

Threads == Callers \cup {Maintainer}

\* A key pair is told apart by what it is for and when it expires; the issuer
\* of a host certificate is the CA that expires then.
CA   == [expires : Nat]
Cert == [host : Names, expires : Nat, issuer : Nat]

ASSUME AbsentAssumption == Absent \notin Cert

\* The host name without a first label, made a wildcard; none for a wildcard.
Wildcard(h) == IF IsWildcard(h) \/ Len(h) < 2 THEN NoHost
               ELSE WildcardOf(WildcardDomain(h))

\* The names a client accepts the certificate for: DNSNames of generateHostCert.
Covers(cert, h) == \/ cert.host = h
                   \/ IsWildcard(cert.host) /\ WildcardBase(cert.host) = h
                   \/ Wildcard(h) # NoHost /\ cert.host = Wildcard(h)

Valid(c)   == c # Absent /\ now < c.expires   \* Before(expiresAt)
Expired(c) == c # Absent /\ now > c.expires   \* After(expiresAt)

Idle == [pc |-> "idle", host |-> NoHost, found |-> Absent, todo |-> {}]

Become(t, locals) == op' = [op EXCEPT ![t] = locals]
Goto(t, pc) == Become(t, [op[t] EXCEPT !.pc = pc])

\* A call returns: to its caller, or to the loop over the expired host names.
Return(t) == Become(t, IF t = Maintainer
                       THEN [Idle EXCEPT !.pc = "renewHosts", !.todo = op[t].todo]
                       ELSE Idle)
Answer(t, h, cert) == Return(t) /\ answer' = [host |-> h, cert |-> cert]

\* A row as a query sees it; a failing query looks like a missing row.
Seen(row) == {row} \cup (IF DbFails THEN {Absent} ELSE {})

-----------------------------------------------------------------------------
(* Init and RenewExpiredCerts at start-up, before any request is accepted. *)
\* The row first; the memory follows only when it is written.
GenerateAndSaveCA == /\ caDb' = [expires |-> now + CALife]
                     /\ ca' = [expires |-> now + CALife]

StartCA == \E row \in Seen(caDb) :
               IF Valid(row) THEN ca' = row /\ UNCHANGED caDb
                             ELSE GenerateAndSaveCA

Starting == [t \in Threads |-> IF t = Maintainer THEN [Idle EXCEPT !.pc = "checkCA"]
                                                 ELSE Idle]

Init == /\ now = 0
        /\ caDb = [expires |-> CALife] /\ ca = caDb
        /\ hostDb = [h \in Names |-> Absent]
        /\ cache = [h \in Names |-> Absent]
        /\ serving = FALSE
        /\ op = Starting
        /\ answer = Absent

Restart == /\ StartCA
           /\ cache' = [h \in Names |-> Absent]
           /\ serving' = FALSE
           /\ op' = Starting
           /\ answer' = Absent
           /\ UNCHANGED <<now, hostDb>>

\* Deviation: a missing entry is returned as if it were there.
CacheHitAlways(t, h) ==
    /\ answer' = [host |-> h, cert |-> cache[h]]
    /\ UNCHANGED <<now, caDb, ca, hostDb, cache, serving, op>>

-----------------------------------------------------------------------------
(* GetCertificate(h): the cache, exact then wildcard, under one read lock. *)
CacheHit(t, h) ==
    LET hit == IF cache[h] # Absent THEN h ELSE Wildcard(h)
    IN  /\ cache[hit] # Absent
        /\ answer' = [host |-> h, cert |-> cache[hit]]
        /\ UNCHANGED <<now, caDb, ca, hostDb, cache, serving, op>>

CacheMiss(t, h) ==
    /\ cache[h] = Absent /\ cache[Wildcard(h)] = Absent
    /\ Become(t, [Idle EXCEPT !.pc = "load", !.host = h])
    /\ UNCHANGED <<now, caDb, ca, hostDb, cache, serving, answer>>

\* loadOrGenerateHostCert: a row that is still valid, ...
LoadRow(t) ==
    /\ op[t].pc = "load"
    /\ \E row \in Seen(hostDb[op[t].host]) :
           IF Valid(row) THEN Become(t, [op[t] EXCEPT !.pc = "store", !.found = row])
           ELSE Goto(t, "loadWildcard")
    /\ UNCHANGED <<now, caDb, ca, hostDb, cache, serving, answer>>

\* Deviation: without a wildcard the look-up starts again.
LoadWildcardAgain(t) ==
    /\ op[t].pc = "loadWildcard"
    /\ \E row \in Seen(hostDb[Wildcard(op[t].host)]) :
           IF Valid(row) THEN Become(t, [op[t] EXCEPT !.pc = "store", !.found = row])
           ELSE Goto(t, "load")
    /\ UNCHANGED <<now, caDb, ca, hostDb, cache, serving, answer>>

\* ... else that of the wildcard above the name, ...
LoadWildcard(t) ==
    /\ op[t].pc = "loadWildcard"
    /\ \E row \in Seen(hostDb[Wildcard(op[t].host)]) :
           IF Valid(row) THEN Become(t, [op[t] EXCEPT !.pc = "store", !.found = row])
           ELSE Goto(t, "sign")
    /\ UNCHANGED <<now, caDb, ca, hostDb, cache, serving, answer>>

\* Deviation: a host certificate lives as long as a CA.
SignForLong(t) ==
    /\ op[t].pc = "sign"
    /\ Become(t, [op[t] EXCEPT !.pc = "save",
                  !.found = [host |-> op[t].host, expires |-> now + CALife,
                             issuer |-> ca.expires]])
    /\ UNCHANGED <<now, caDb, ca, hostDb, cache, serving, answer>>

\* ... else a new one of the CA in memory.  The clock is read right after the
\* CA, in the same tick: what happens in between changes nothing here.
Sign(t) ==
    /\ op[t].pc = "sign"
    /\ Become(t, [op[t] EXCEPT !.pc = "save",
                  !.found = [host |-> op[t].host, expires |-> now + HostLife,
                             issuer |-> ca.expires]])
    /\ UNCHANGED <<now, caDb, ca, hostDb, cache, serving, answer>>

\* It is saved over any row of the name.
SaveCert(t) ==
    /\ op[t].pc = "save"
    /\ hostDb' = [hostDb EXCEPT ![op[t].host] = op[t].found]
    /\ Goto(t, "store")
    /\ UNCHANGED <<now, caDb, ca, cache, serving, answer>>

\* Deviation: a certificate that could not be saved is used.
SaveFailsUsed(t) ==
    /\ DbFails /\ op[t].pc = "save"
    /\ Goto(t, "store")
    /\ UNCHANGED <<now, caDb, ca, hostDb, cache, serving, answer>>

SaveFails(t) ==
    /\ DbFails /\ op[t].pc = "save"
    /\ Return(t)
    /\ UNCHANGED <<now, caDb, ca, hostDb, cache, serving, answer>>

\* Deviation: it is cached under the name asked for, or under its wildcard.
StoreAs(t, key) ==
    /\ op[t].pc = "store"
    /\ cache' = [cache EXCEPT ![key] = op[t].found]
    /\ Answer(t, op[t].host, op[t].found)
    /\ UNCHANGED <<now, caDb, ca, hostDb, serving>>
StoreAsAsked(t) == StoreAs(t, op[t].host)
StoreAsWildcard(t) == StoreAs(t, IF Wildcard(op[t].host) # NoHost THEN Wildcard(op[t].host)
                                 ELSE op[t].host)

\* The certificate is cached under its own name and returned.
Store(t) ==
    /\ op[t].pc = "store"
    /\ cache' = [cache EXCEPT ![op[t].found.host] = op[t].found]
    /\ Answer(t, op[t].host, op[t].found)
    /\ UNCHANGED <<now, caDb, ca, hostDb, serving>>

\* Deviation: the cache is left alone.
EvictNot(t, h, todo) ==
    /\ Become(t, [Idle EXCEPT !.pc = "deleteRow", !.host = h, !.todo = todo])
    /\ UNCHANGED <<now, caDb, ca, hostDb, cache, serving, answer>>

-----------------------------------------------------------------------------
(* RegenerateHostCert(h): out of the cache, out of the database, then the   *)
(* look-up above.                                                           *)
Evict(t, h, todo) ==
    /\ cache' = [cache EXCEPT ![h] = Absent]
    /\ Become(t, [Idle EXCEPT !.pc = "deleteRow", !.host = h, !.todo = todo])
    /\ UNCHANGED <<now, caDb, ca, hostDb, serving, answer>>

DeleteRow(t) ==
    /\ op[t].pc = "deleteRow"
    /\ hostDb' = [hostDb EXCEPT ![op[t].host] = Absent]
    /\ Goto(t, "load")
    /\ UNCHANGED <<now, caDb, ca, cache, serving, answer>>

DeleteFails(t) ==
    /\ DbFails /\ op[t].pc = "deleteRow"
    /\ Return(t)
    /\ UNCHANGED <<now, caDb, ca, hostDb, cache, serving, answer>>

-----------------------------------------------------------------------------
(* RenewExpiredCerts: the CA, then every host certificate that was expired *)
(* when the rows were read.                                                *)
Maintain ==
    /\ serving /\ op[Maintainer].pc = "idle"
    /\ Goto(Maintainer, "checkCA")
    /\ UNCHANGED <<now, caDb, ca, hostDb, cache, serving, answer>>

CheckCA ==
    /\ op[Maintainer].pc = "checkCA"
    /\ \E row \in Seen(caDb) : Goto(Maintainer, IF Expired(row) THEN "renewCA" ELSE "list")
    /\ UNCHANGED <<now, caDb, ca, hostDb, cache, serving, answer>>

\* Deviation: the memory is changed before the row is written.
RenewCAUnsaved ==
    /\ op[Maintainer].pc = "renewCA"
    /\ \/ GenerateAndSaveCA
       \/ DbFails /\ ca' = [expires |-> now + CALife] /\ UNCHANGED caDb
    /\ Goto(Maintainer, "list")
    /\ UNCHANGED <<now, hostDb, cache, serving, answer>>

\* generateAndSaveCA holds the write lock over the row and the memory.
RenewCA ==
    /\ op[Maintainer].pc = "renewCA"
    /\ \/ GenerateAndSaveCA
       \/ DbFails /\ UNCHANGED <<caDb, ca>>
    /\ Goto(Maintainer, "list")
    /\ UNCHANGED <<now, hostDb, cache, serving, answer>>

ListExpired ==
    /\ op[Maintainer].pc = "list"
    /\ \E todo \in {{h \in Names : Expired(hostDb[h])}} \cup (IF DbFails THEN {{}} ELSE {}) :
           Become(Maintainer, [Idle EXCEPT !.pc = "renewHosts", !.todo = todo])
    /\ UNCHANGED <<now, caDb, ca, hostDb, cache, serving, answer>>

\* Deviation: the loop does not advance.
RenewHostStuck ==
    /\ op[Maintainer].pc = "renewHosts"
    /\ \E h \in op[Maintainer].todo : Evict(Maintainer, h, op[Maintainer].todo)

RenewHost ==
    /\ op[Maintainer].pc = "renewHosts"
    /\ \E h \in op[Maintainer].todo : Evict(Maintainer, h, op[Maintainer].todo \ {h})

\* The pass is over; the one of the start-up lets requests in.
Maintained ==
    /\ op[Maintainer].pc = "renewHosts" /\ op[Maintainer].todo = {}
    /\ Become(Maintainer, Idle)
    /\ serving' = TRUE
    /\ UNCHANGED <<now, caDb, ca, hostDb, cache, answer>>

-----------------------------------------------------------------------------
Tick == /\ now < MaxNow
        /\ now' = now + 1
        /\ UNCHANGED <<caDb, ca, hostDb, cache, serving, op, answer>>

Call(t) == /\ serving /\ op[t].pc = "idle"
           /\ \E h \in Asked : CacheHit(t, h) \/ CacheMiss(t, h) \/ Evict(t, h, {})

Step(t) == \/ LoadRow(t) \/ LoadWildcard(t) \/ Sign(t) \/ SaveCert(t)
           \/ SaveFails(t) \/ Store(t) \/ DeleteRow(t) \/ DeleteFails(t)

Maintenance == CheckCA \/ RenewCA \/ ListExpired \/ RenewHost \/ Maintained

Next == \/ \E t \in Callers : Call(t)
        \/ \E t \in Threads : Step(t)
        \/ Maintain \/ Maintenance
        \/ Tick \/ Restart

Spec == Init /\ [][Next]_vars

\* Go schedules every goroutine, and no step of one waits for another.
FairSpec == Spec /\ \A t \in Callers : WF_vars(Step(t))
                 /\ WF_vars(Step(Maintainer) \/ Maintenance)
=============================================================================
