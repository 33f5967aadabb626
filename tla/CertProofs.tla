---------------------------- MODULE CertProofs -----------------------------
(* For any number of goroutines that ask, regenerate and fail: a certificate *)
(* handed out names the host it was asked for, and a replaced CA is out of  *)
(* use in time.  With one activity at a time: the cache is the table, and a *)
(* pass of the maintenance clears both.                                     *)
EXTENDS CertWatched, TLAPS

LEMMA NamesType == /\ NoHost \in Names
                   /\ \A h \in Names : Wildcard(h) \in Names
                   /\ Asked \subseteq Names /\ NoHost \notin Asked
  BY CertAssumption DEF Wildcard

LEMMA IdleInv == Idle \in Locals /\ LocalsInv(Idle)
  BY NamesType DEF Idle, Locals, Pcs, LocalsInv

\* What a step has to show when it leaves the rows and the cache alone.
LEMMA BecomeInv ==
    ASSUME CertInv, NEW t \in Threads, NEW o \in Locals, LocalsInv(o), Become(t, o)
    PROVE  op' \in [Threads -> Locals] /\ \A u \in Threads : LocalsInv(op'[u])
  <1>1. op \in [Threads -> Locals]
    BY DEF CertInv, TypeOK
  <1>2. op' \in [Threads -> Locals]
    BY <1>1 DEF Become
  <1>3. \A u \in Threads : op'[u] = IF u = t THEN o ELSE op[u]
    BY <1>1 DEF Become
  <1> QED BY <1>2, <1>3 DEF CertInv

LEMMA StepAlone ==
    ASSUME CertInv, NEW t \in Threads, NEW o \in Locals, LocalsInv(o), Become(t, o),
           UNCHANGED <<now, caDb, ca, hostDb, cache, serving, answer>>
    PROVE  CertInv'
  <1>1. op' \in [Threads -> Locals] /\ \A u \in Threads : LocalsInv(op'[u])
    BY BecomeInv
  <1>2. TypeOK'
    BY <1>1 DEF CertInv, TypeOK
  <1>3. Named(hostDb)' /\ Named(cache)' /\ ServedCovers'
    BY DEF CertInv, Named, ServedCovers
  <1>4. \A u \in Threads : LocalsInv(op[u])'
    BY <1>1 DEF LocalsInv
  <1> QED BY <1>2, <1>3, <1>4 DEF CertInv

LEMMA LocalsOf ==
    ASSUME CertInv, NEW t \in Threads
    PROVE  op[t] \in Locals /\ LocalsInv(op[t])
  BY DEF CertInv, TypeOK

LEMMA ReturnInv ==
    ASSUME CertInv, NEW t \in Threads, Return(t)
    PROVE  \E o \in Locals : LocalsInv(o) /\ Become(t, o)
  <1> DEFINE o == [Idle EXCEPT !.pc = "renewHosts", !.todo = op[t].todo]
  <1>1. o \in Locals /\ LocalsInv(o)
    BY LocalsOf, NamesType DEF Idle, Locals, Pcs, LocalsInv
  <1> QED BY <1>1, IdleInv DEF Return

LEMMA GotoInv ==
    ASSUME CertInv, NEW t \in Threads, NEW pc \in Pcs, Goto(t, pc), pc \notin {"save", "store"},
           pc \in {"load", "loadWildcard", "sign", "deleteRow"} => op[t].host # NoHost
    PROVE  \E o \in Locals : LocalsInv(o) /\ Become(t, o)
  <1> DEFINE o == [op[t] EXCEPT !.pc = pc]
  <1>1. o \in Locals /\ LocalsInv(o)
    BY LocalsOf DEF Locals, LocalsInv
  <1> QED BY <1>1 DEF Goto

LEMMA CertInit == Init => CertInv
  <1> SUFFICES ASSUME Init PROVE CertInv
    OBVIOUS
  <1> DEFINE o == [Idle EXCEPT !.pc = "checkCA"]
  <1>1. o \in Locals /\ LocalsInv(o)
    BY NamesType DEF Idle, Locals, Pcs, LocalsInv
  <1>2. op \in [Threads -> Locals] /\ \A t \in Threads : LocalsInv(op[t])
    BY <1>1, IdleInv DEF Init, Starting
  <1>3. TypeOK
    BY <1>2, CertAssumption DEF Init, TypeOK, CA
  <1> QED BY <1>2, <1>3 DEF Init, CertInv, Named, ServedCovers

LEMMA NewCAType ==
    ASSUME now \in Nat, GenerateAndSaveCA
    PROVE  caDb' \in CA /\ ca' \in CA
  BY CertAssumption DEF GenerateAndSaveCA, CA

LEMMA RestartInv == ASSUME CertInv, Restart PROVE CertInv'
  <1> DEFINE o == [Idle EXCEPT !.pc = "checkCA"]
  <1>1. o \in Locals /\ LocalsInv(o)
    BY NamesType DEF Idle, Locals, Pcs, LocalsInv
  <1>2. op' \in [Threads -> Locals] /\ \A t \in Threads : LocalsInv(op'[t])
    BY <1>1, IdleInv DEF Restart, Starting
  <1>3. caDb' \in CA /\ ca' \in CA
    BY NewCAType DEF Restart, StartCA, Seen, Valid, CertInv, TypeOK
  <1>4. TypeOK'
    BY <1>2, <1>3 DEF Restart, CertInv, TypeOK
  <1>5. \A t \in Threads : LocalsInv(op[t])'
    BY <1>2 DEF LocalsInv
  <1> QED BY <1>4, <1>5 DEF Restart, CertInv, Named, ServedCovers

LEMMA EvictInv ==
    ASSUME CertInv, NEW t \in Threads, NEW h \in Names, h # NoHost,
           NEW todo \in SUBSET Names, NoHost \notin todo, Evict(t, h, todo)
    PROVE  CertInv'
  <1> DEFINE o == [Idle EXCEPT !.pc = "deleteRow", !.host = h, !.todo = todo]
  <1>1. o \in Locals /\ LocalsInv(o)
    BY DEF Idle, Locals, Pcs, LocalsInv
  <1>2. op' \in [Threads -> Locals] /\ \A u \in Threads : LocalsInv(op'[u])
    BY <1>1, BecomeInv DEF Evict
  <1>3. TypeOK' /\ Named(cache)'
    BY <1>2 DEF CertInv, TypeOK, Evict, Named
  <1>4. \A u \in Threads : LocalsInv(op[u])'
    BY <1>2 DEF LocalsInv
  <1> QED BY <1>3, <1>4 DEF CertInv, Evict, Named, ServedCovers

LEMMA CallInv == ASSUME CertInv, NEW t \in Callers, Call(t) PROVE CertInv'
  <1>0. t \in Threads
    BY DEF Threads
  <1>1. ASSUME NEW h \in Asked, CacheHit(t, h) PROVE CertInv'
    <2> DEFINE hit == IF cache[h] # Absent THEN h ELSE Wildcard(h)
    <2>1. h \in Names /\ hit \in Names
      BY NamesType
    <2>2. cache[hit] \in Cert /\ cache[hit].host = hit /\ hit # NoHost
      BY <1>1, <2>1 DEF CertInv, TypeOK, Named, CacheHit
    <2>3. Covers(cache[hit], h)
      BY <2>2 DEF Covers
    <2>4. answer' = [host |-> h, cert |-> cache[hit]]
      BY <1>1 DEF CacheHit
    <2>5. ServedCovers' /\ answer' \in [host : Names, cert : Cert]
      BY <2>1, <2>2, <2>3, <2>4 DEF ServedCovers, Covers
    <2> QED BY <1>1, <2>5 DEF CacheHit, CertInv, TypeOK, Named, LocalsInv
  <1>2. ASSUME NEW h \in Asked, CacheMiss(t, h) PROVE CertInv'
    <2> DEFINE o == [Idle EXCEPT !.pc = "load", !.host = h]
    <2>1. o \in Locals /\ LocalsInv(o)
      BY NamesType DEF Idle, Locals, Pcs, LocalsInv
    <2> QED BY <1>0, <1>2, <2>1, StepAlone DEF CacheMiss
  <1>3. ASSUME NEW h \in Asked, Evict(t, h, {}) PROVE CertInv'
    BY <1>0, <1>3, NamesType, EvictInv
  <1> QED BY <1>1, <1>2, <1>3 DEF Call

LEMMA LoadInv ==
    ASSUME CertInv, NEW t \in Threads, LoadRow(t) \/ LoadWildcard(t)
    PROVE  CertInv'
  <1> DEFINE o(row) == [op[t] EXCEPT !.pc = "store", !.found = row]
             h == op[t].host
             seen == IF LoadRow(t) THEN h ELSE Wildcard(h)
             missed == IF LoadRow(t) THEN "loadWildcard" ELSE "sign"
  <1>1. op[t] \in Locals /\ LocalsInv(op[t]) /\ h \in Names /\ h # NoHost /\ seen \in Names
    BY LocalsOf, NamesType DEF Locals, LocalsInv, LoadRow, LoadWildcard
  <1>2. ASSUME NEW row \in Seen(hostDb[seen]), Valid(row)
        PROVE  o(row) \in Locals /\ LocalsInv(o(row))
    <2>1. row = hostDb[seen] /\ row # Absent
      BY <1>2 DEF Seen, Valid
    <2>2. row \in Cert /\ row.host = seen /\ seen # NoHost
      BY <1>1, <2>1 DEF CertInv, TypeOK, Named
    <2>3. seen \in {h, Wildcard(h)}
      OBVIOUS
    <2> HIDE DEF seen, h
    <2>4. o(row) \in Locals
      BY <1>1, <2>2 DEF Locals, Pcs
    <2>5. o(row).found = row /\ o(row).host = h /\ o(row).todo = op[t].todo
      BY <1>1 DEF Locals, h
    <2> QED BY <1>1, <2>1, <2>2, <2>3, <2>4, <2>5 DEF LocalsInv, h
  <1>3. \E row \in Seen(hostDb[seen]) : IF Valid(row) THEN Become(t, o(row))
                                       ELSE Goto(t, missed)
    BY DEF LoadRow, LoadWildcard
  <1>4. \E p \in Locals : LocalsInv(p) /\ Become(t, p)
    BY <1>1, <1>2, <1>3, GotoInv DEF Pcs
  <1>5. UNCHANGED <<now, caDb, ca, hostDb, cache, serving, answer>>
    BY DEF LoadRow, LoadWildcard
  <1> QED BY <1>4, <1>5, StepAlone

\* A step that changes rows or cache besides its own locals, and no answer.
LEMMA StepOver ==
    ASSUME CertInv, NEW t \in Threads, NEW o \in Locals, LocalsInv(o), Become(t, o),
           hostDb' \in [Names -> Cert \cup {Absent}], Named(hostDb'),
           cache' \in [Names -> Cert \cup {Absent}], Named(cache'),
           UNCHANGED <<now, caDb, ca, serving>>,
           answer' \in [host : Names, cert : Cert] \cup {Absent},
           answer' # Absent => Covers(answer'.cert, answer'.host)
    PROVE  CertInv'
  <1>1. op' \in [Threads -> Locals] /\ \A u \in Threads : LocalsInv(op'[u])
    BY BecomeInv
  <1>2. TypeOK'
    BY <1>1 DEF CertInv, TypeOK
  <1>3. Named(hostDb)' /\ Named(cache)' /\ ServedCovers'
    BY DEF Named, ServedCovers, Covers
  <1>4. \A u \in Threads : LocalsInv(op[u])'
    BY <1>1 DEF LocalsInv
  <1> QED BY <1>2, <1>3, <1>4 DEF CertInv

LEMMA StepInv == ASSUME CertInv, NEW t \in Threads, Step(t) PROVE CertInv'
  <1> DEFINE h == op[t].host
  <1>0. /\ op[t] \in Locals /\ LocalsInv(op[t]) /\ h \in Names
        /\ hostDb \in [Names -> Cert \cup {Absent}] /\ Named(hostDb)
        /\ cache \in [Names -> Cert \cup {Absent}] /\ Named(cache)
        /\ answer \in [host : Names, cert : Cert] \cup {Absent}
        /\ answer # Absent => Covers(answer.cert, answer.host)
    BY LocalsOf DEF Locals, CertInv, TypeOK, ServedCovers
  <1>1. CASE LoadRow(t) \/ LoadWildcard(t)
    BY <1>1, LoadInv
  <1>6. CASE Sign(t)
    <2> DEFINE cert == [host |-> h, expires |-> now + HostLife, issuer |-> ca.expires]
               o == [op[t] EXCEPT !.pc = "save", !.found = cert]
    <2>1. cert \in Cert /\ cert # Absent /\ h # NoHost
      BY <1>0, <1>6, CertAssumption, AbsentAssumption
      DEF Cert, CA, CertInv, TypeOK, Sign, LocalsInv
    <2> HIDE DEF cert
    <2>2. o \in Locals /\ o.host = h /\ o.found = cert /\ o.pc = "save" /\ o.todo = op[t].todo
      BY <1>0, <2>1 DEF Locals, Pcs
    <2>3. LocalsInv(o)
      BY <1>0, <2>1, <2>2 DEF LocalsInv, cert
    <2>4. Become(t, o) /\ UNCHANGED <<now, caDb, ca, hostDb, cache, serving, answer>>
      BY <1>6 DEF Sign, cert
    <2> QED BY <2>2, <2>3, <2>4, StepAlone
  <1>2. CASE SaveCert(t)
    <2> DEFINE cert == op[t].found
               o == [op[t] EXCEPT !.pc = "store"]
    <2>1. cert \in Cert /\ cert # Absent /\ cert.host = h /\ h # NoHost
      BY <1>0, <1>2 DEF Locals, LocalsInv, SaveCert
    <2>2. o \in Locals /\ LocalsInv(o)
      BY <1>0, <2>1 DEF Locals, LocalsInv, Pcs
    <2>3. hostDb' = [hostDb EXCEPT ![h] = cert] /\ Become(t, o)
      BY <1>2 DEF SaveCert, Goto
    <2>4. hostDb' \in [Names -> Cert \cup {Absent}] /\ Named(hostDb')
      BY <1>0, <2>1, <2>3 DEF Named
    <2>5. UNCHANGED <<now, caDb, ca, cache, serving, answer>>
      BY <1>2 DEF SaveCert
    <2> HIDE DEF o, cert
    <2> QED BY <1>0, <2>2, <2>3, <2>4, <2>5, StepOver
  <1>3. CASE SaveFails(t) \/ DeleteFails(t)
    <2>1. UNCHANGED <<now, caDb, ca, hostDb, cache, serving, answer>> /\ Return(t)
      BY <1>3 DEF SaveFails, DeleteFails
    <2> QED BY <2>1, ReturnInv, StepAlone
  <1>4. CASE Store(t)
    <2> DEFINE cert == op[t].found
    <2>1. cert \in Cert /\ cert.host \in {h, Wildcard(h)} \ {NoHost}
      BY <1>0, <1>4 DEF Locals, LocalsInv, Store
    <2>2. Covers(cert, h)
      BY <2>1 DEF Covers
    <2>3. cert.host \in Names
      BY <2>1 DEF Cert
    <2>4. /\ cache' = [cache EXCEPT ![cert.host] = cert]
          /\ answer' = [host |-> h, cert |-> cert]
          /\ Return(t) /\ UNCHANGED <<now, caDb, ca, hostDb, serving>>
      BY <1>4 DEF Store, Answer
    <2>5. cache' \in [Names -> Cert \cup {Absent}] /\ Named(cache')
      BY <1>0, <2>1, <2>3, <2>4 DEF Named
    <2>6. /\ answer' \in [host : Names, cert : Cert]
          /\ Covers(answer'.cert, answer'.host)
      BY <1>0, <2>1, <2>2, <2>4
    <2>7. PICK o \in Locals : LocalsInv(o) /\ Become(t, o)
      BY <2>4, ReturnInv
    <2> HIDE DEF cert
    <2> QED BY <1>0, <2>4, <2>5, <2>6, <2>7, StepOver
  <1>5. CASE DeleteRow(t)
    <2>1. hostDb' = [hostDb EXCEPT ![h] = Absent] /\ Goto(t, "load") /\ h # NoHost
          /\ UNCHANGED <<now, caDb, ca, cache, serving, answer>>
      BY <1>0, <1>5 DEF DeleteRow, LocalsInv
    <2>2. hostDb' \in [Names -> Cert \cup {Absent}] /\ Named(hostDb')
      BY <1>0, <2>1 DEF Named
    <2>3. PICK o \in Locals : LocalsInv(o) /\ Become(t, o)
      BY <2>1, GotoInv DEF Pcs
    <2> QED BY <1>0, <2>1, <2>2, <2>3, StepOver
  <1> QED BY <1>1, <1>2, <1>3, <1>4, <1>5, <1>6 DEF Step

LEMMA MaintenanceInv == ASSUME CertInv, Maintain \/ Maintenance PROVE CertInv'
  <1> DEFINE m == Maintainer
  <1>0. m \in Threads /\ op[m] \in Locals /\ LocalsInv(op[m])
    BY LocalsOf DEF Threads
  <1>1. CASE Maintain \/ CheckCA
    <2>1. PICK pc \in {"checkCA", "renewCA", "list"} : Goto(m, pc)
      BY <1>1 DEF Maintain, CheckCA
    <2>2. PICK o \in Locals : LocalsInv(o) /\ Become(m, o)
      BY <1>0, <2>1, GotoInv DEF Pcs
    <2> QED BY <1>0, <1>1, <2>2, StepAlone DEF Maintain, CheckCA
  <1>2. CASE RenewCA
    <2>1. PICK o \in Locals : LocalsInv(o) /\ Become(m, o)
      BY <1>0, <1>2, GotoInv DEF RenewCA, Pcs
    <2>2. op' \in [Threads -> Locals] /\ \A u \in Threads : LocalsInv(op'[u])
      BY <1>0, <2>1, BecomeInv
    <2>3. caDb' \in CA /\ ca' \in CA
      BY <1>2, NewCAType DEF RenewCA, CertInv, TypeOK
    <2>4. TypeOK' /\ Named(hostDb)' /\ Named(cache)' /\ ServedCovers'
      BY <1>2, <2>2, <2>3 DEF RenewCA, CertInv, TypeOK, Named, ServedCovers
    <2>5. \A u \in Threads : LocalsInv(op[u])'
      BY <2>2 DEF LocalsInv
    <2> QED BY <2>4, <2>5 DEF CertInv
  <1>3. CASE ListExpired
    <2>1. PICK todo \in {{n \in Names : Expired(hostDb[n])}, {}} :
              Become(m, [Idle EXCEPT !.pc = "renewHosts", !.todo = todo])
      BY <1>3 DEF ListExpired
    <2>2. todo \in SUBSET Names /\ NoHost \notin todo
      BY <2>1 DEF Expired, CertInv, Named
    <2> DEFINE o == [Idle EXCEPT !.pc = "renewHosts", !.todo = todo]
    <2>3. o \in Locals /\ LocalsInv(o)
      BY <2>2, NamesType DEF Idle, Locals, Pcs, LocalsInv
    <2> QED BY <1>0, <1>3, <2>1, <2>3, StepAlone DEF ListExpired
  <1>4. CASE RenewHost
    <2>1. PICK h \in op[m].todo : Evict(m, h, op[m].todo \ {h})
      BY <1>4 DEF RenewHost
    <2>2. op[m].todo \in SUBSET Names /\ NoHost \notin op[m].todo
      BY <1>0 DEF Locals, LocalsInv
    <2> QED BY <1>0, <2>1, <2>2, EvictInv
  <1>5. CASE Maintained
    <2>1. op' \in [Threads -> Locals] /\ \A u \in Threads : LocalsInv(op'[u])
      BY <1>0, <1>5, IdleInv, BecomeInv DEF Maintained
    <2>2. TypeOK' /\ Named(hostDb)' /\ Named(cache)' /\ ServedCovers'
      BY <1>5, <2>1 DEF Maintained, CertInv, TypeOK, Named, ServedCovers
    <2>3. \A u \in Threads : LocalsInv(op[u])'
      BY <2>1 DEF LocalsInv
    <2> QED BY <2>2, <2>3 DEF CertInv
  <1> QED BY <1>1, <1>2, <1>3, <1>4, <1>5 DEF Maintenance

LEMMA TickInv == ASSUME CertInv, Tick \/ UNCHANGED vars PROVE CertInv'
  BY DEF Tick, vars, CertInv, TypeOK, Named, LocalsInv, ServedCovers

-----------------------------------------------------------------------------
LEMMA CertNext == CertInv /\ [Next]_vars => CertInv'
  <1> SUFFICES ASSUME CertInv, [Next]_vars PROVE CertInv'
    OBVIOUS
  <1> QED BY CallInv, StepInv, MaintenanceInv, TickInv, RestartInv DEF Next, Threads

\* CertInv holds of every behaviour of the certificate manager.
THEOREM CertInvariance == Spec => []CertInv
  BY CertInit, CertNext, PTL DEF Spec

\* GetCertificate and RegenerateHostCert hand out, for every host name, only a
\* certificate made for that name or for the wildcard above it.
THEOREM ServedCoversTheName == Spec => []ServedCovers
  BY CertInvariance, PTL DEF CertInv

\* Every reachable state of the certificate manager is well typed.
THEOREM TypeCorrect == Spec => []TypeOK
  BY CertInvariance, PTL DEF CertInv

-----------------------------------------------------------------------------
(* The CA: what a step does to it, and what that does to the certificates.  *)
LEMMA CAStep ==
    ASSUME CertInv, CASaved, [Next]_vars
    PROVE  /\ CASaved'
           /\ now' \in Nat /\ now <= now'
           /\ ca' = ca \/ (ca'.expires = now + CALife /\ now' = now)
  <1>0. now \in Nat
    BY DEF CertInv, TypeOK
  <1>1. ASSUME GenerateAndSaveCA, now' = now
        PROVE  ca' = caDb' /\ ca'.expires = now + CALife
    BY <1>1 DEF GenerateAndSaveCA
  <1>2. CASE Restart
    <2>1. PICK row \in Seen(caDb) : IF Valid(row) THEN ca' = row /\ UNCHANGED caDb
                                    ELSE GenerateAndSaveCA
      BY <1>2 DEF Restart, StartCA
    <2>2. Valid(row) => row = caDb
      BY <2>1 DEF Seen, Valid
    <2> QED BY <1>0, <1>1, <1>2, <2>1, <2>2 DEF Restart, CASaved
  <1>3. CASE RenewCA
    BY <1>0, <1>1, <1>3 DEF RenewCA, CASaved
  <1>4. CASE Tick
    BY <1>0, <1>4 DEF Tick, CASaved
  <1>5. CASE (Next /\ ~Restart /\ ~RenewCA /\ ~Tick) \/ UNCHANGED vars
    <2>1. UNCHANGED <<now, caDb, ca>>
      BY <1>5 DEF vars, Next, Call, Step, Maintain, Maintenance, CacheHit, CacheMiss, Evict,
         LoadRow, LoadWildcard, Sign, SaveCert, SaveFails, Store, DeleteRow, DeleteFails,
         CheckCA, ListExpired, RenewHost, Maintained
    <2> QED BY <1>0, <2>1 DEF CASaved
  <1> QED BY <1>2, <1>3, <1>4, <1>5 DEF Next

\* A certificate is never made to outlive its making by more than HostLife, and
\* a CA never by more than CALife: so a CA that replaces another now finds no
\* certificate that lives longer than HostLife from now.
Aged(cert) == cert # Absent => cert.expires <= now + HostLife /\ Bounded(cert)
AgeInv == /\ CertInv /\ CASaved
          /\ ca.expires <= now + CALife
          /\ \A h \in Names : Aged(hostDb[h]) /\ Aged(cache[h])
          /\ \A t \in Threads : Aged(op[t].found)
          /\ answer # Absent => Aged(answer.cert)

LEMMA AgeInit == Init => AgeInv
  <1> SUFFICES ASSUME Init PROVE AgeInv
    OBVIOUS
  <1>1. \A t \in Threads : op[t].found = Absent
    BY DEF Init, Starting, Idle
  <1>2. ca.expires <= now + CALife
    BY CertAssumption DEF Init
  <1> QED BY <1>1, <1>2, CertInit DEF Init, AgeInv, Aged, CASaved

LEMMA AgedStays ==
    ASSUME AgeInv, [Next]_vars, NEW cert \in Cert \cup {Absent}, Aged(cert)
    PROVE  Aged(cert)'
  <1>1. /\ now \in Nat /\ now' \in Nat /\ now <= now'
        /\ ca.expires \in Nat /\ HostLife \in Nat /\ CALife \in Nat
        /\ ca' = ca \/ (ca'.expires = now + CALife /\ now' = now)
    BY CAStep, CertAssumption DEF AgeInv, CertInv, TypeOK, CA
  <1>2. CASE cert = Absent
    BY <1>2 DEF Aged
  <1>3. CASE cert # Absent
    <2>1. cert.expires \in Nat /\ cert.issuer \in Nat
      BY <1>3 DEF Cert
    <2> QED BY <1>1, <1>3, <2>1 DEF Aged, Bounded
  <1> QED BY <1>2, <1>3

\* Where the certificates of a step come from.
LEMMA RowsFrom ==
    ASSUME AgeInv, [Next]_vars, NEW h \in Names
    PROVE  hostDb'[h] \in {hostDb[h], Absent} \cup {op[t].found : t \in Threads}
  <1>0. hostDb \in [Names -> Cert \cup {Absent}]
    BY DEF AgeInv, CertInv, TypeOK
  <1>1. ASSUME NEW t \in Threads, SaveCert(t) \/ DeleteRow(t)
        PROVE  hostDb'[h] \in {hostDb[h], Absent, op[t].found}
    BY <1>0, <1>1 DEF SaveCert, DeleteRow
  <1>2. CASE \E t \in Threads : SaveCert(t) \/ DeleteRow(t)
    BY <1>1, <1>2
  <1>3. CASE ~\E t \in Threads : SaveCert(t) \/ DeleteRow(t)
    <2>1. UNCHANGED hostDb
      BY <1>3 DEF vars, Next, Call, Step, Maintain, Maintenance, CacheHit, CacheMiss, Evict,
         LoadRow, LoadWildcard, Sign, SaveFails, Store, DeleteFails,
         CheckCA, RenewCA, ListExpired, RenewHost, Maintained, Tick, Restart
    <2> QED BY <2>1
  <1> QED BY <1>2, <1>3

LEMMA CacheFrom ==
    ASSUME AgeInv, [Next]_vars, NEW h \in Names
    PROVE  cache'[h] \in {cache[h], Absent} \cup {op[t].found : t \in Threads}
  <1>0. cache \in [Names -> Cert \cup {Absent}]
    BY DEF AgeInv, CertInv, TypeOK
  <1>1. ASSUME NEW t \in Threads, Store(t)
        PROVE  cache'[h] \in {cache[h], op[t].found}
    BY <1>0, <1>1 DEF Store
  <1>2. ASSUME NEW t, NEW x, NEW todo, Evict(t, x, todo)
        PROVE  cache'[h] \in {cache[h], Absent}
    BY <1>0, <1>2 DEF Evict
  <1>3. CASE Restart
    BY <1>3 DEF Restart
  <1>4. CASE Next /\ ~Restart
    BY <1>1, <1>2, <1>4 DEF Next, Call, Step, Maintain, Maintenance, CacheHit, CacheMiss,
       LoadRow, LoadWildcard, Sign, SaveCert, SaveFails, DeleteRow, DeleteFails,
       CheckCA, RenewCA, ListExpired, RenewHost, Maintained, Tick
  <1>5. CASE UNCHANGED vars
    BY <1>5 DEF vars
  <1> QED BY <1>3, <1>4, <1>5

LEMMA AnswerFrom ==
    ASSUME AgeInv, [Next]_vars, answer' # Absent, answer' # answer
    PROVE  answer'.cert \in {cache[h] : h \in Names} \cup {op[t].found : t \in Threads}
  <1>1. ASSUME NEW t \in Threads, Store(t)
        PROVE  answer'.cert = op[t].found
    BY <1>1 DEF Store, Answer
  <1>2. ASSUME NEW t, NEW h \in Asked, CacheHit(t, h)
        PROVE  answer'.cert \in {cache[x] : x \in Names}
    BY <1>2, NamesType DEF CacheHit
  <1> QED BY <1>1, <1>2 DEF vars, Next, Call, Step, Maintain, Maintenance, CacheMiss, Evict,
       LoadRow, LoadWildcard, Sign, SaveCert, SaveFails, DeleteRow, DeleteFails,
       CheckCA, RenewCA, ListExpired, RenewHost, Maintained, Tick, Restart

LEMMA FoundFrom ==
    ASSUME AgeInv, [Next]_vars, NEW u \in Threads
    PROVE  \/ op'[u].found \in {op[u].found, Absent} \cup {hostDb[h] : h \in Names}
           \/ /\ op'[u].found = [host |-> op[u].host, expires |-> now + HostLife,
                                 issuer |-> ca.expires]
              /\ UNCHANGED <<now, ca>>
  <1> DEFINE Old(cert) == cert \in {op[u].found, Absent} \cup {hostDb[h] : h \in Names}
  <1>0. op \in [Threads -> Locals] /\ Idle.found = Absent
    BY DEF AgeInv, CertInv, TypeOK, Idle
  <1>1. \A t \in Threads : /\ op[t] \in Locals
                           /\ op[t].host \in Names /\ Wildcard(op[t].host) \in Names
    BY <1>0, NamesType DEF Locals
  <1>2. ASSUME NEW t \in Threads, NEW o, Become(t, o), t = u => Old(o.found)
        PROVE  Old(op'[u].found)
    BY <1>0, <1>2 DEF Become
  <1>3. ASSUME NEW t \in Threads, NEW pc, Goto(t, pc)
        PROVE  Old(op'[u].found)
    <2> DEFINE o == [op[t] EXCEPT !.pc = pc]
    <2>1. o.found = op[t].found
      BY <1>1 DEF Locals
    <2>2. Become(t, o)
      BY <1>3 DEF Goto
    <2> HIDE DEF o
    <2> QED BY <1>2, <2>1, <2>2
  <1>4. ASSUME NEW t \in Threads, NEW pc, NEW h, NEW todo,
               Become(t, [Idle EXCEPT !.pc = pc, !.host = h, !.todo = todo])
        PROVE  Old(op'[u].found)
    BY <1>2, <1>4 DEF Idle
  <1>5. ASSUME NEW t \in Threads, Return(t)
        PROVE  Old(op'[u].found)
    BY <1>2, <1>5 DEF Return, Idle
  <1>6. ASSUME NEW t \in Threads, Call(t)
        PROVE  Old(op'[u].found)
    <2>1. PICK h \in Asked : CacheHit(t, h) \/ CacheMiss(t, h) \/ Evict(t, h, {})
      BY <1>6 DEF Call
    <2>2. CASE CacheMiss(t, h)
      BY <1>2, <2>2 DEF CacheMiss, Idle
    <2> QED BY <1>4, <2>1, <2>2 DEF CacheHit, Evict
  <1>7. ASSUME NEW t \in Threads, LoadRow(t) \/ LoadWildcard(t)
        PROVE  Old(op'[u].found)
    <2>1. PICK h \in Names : \E row \in Seen(hostDb[h]) :
              \/ Become(t, [op[t] EXCEPT !.pc = "store", !.found = row])
              \/ \E pc \in Pcs : Goto(t, pc)
      BY <1>1, <1>7 DEF LoadRow, LoadWildcard, Pcs
    <2>2. PICK row \in {hostDb[h], Absent} :
              \/ Become(t, [op[t] EXCEPT !.pc = "store", !.found = row])
              \/ \E pc \in Pcs : Goto(t, pc)
      BY <2>1 DEF Seen
    <2>3. CASE Become(t, [op[t] EXCEPT !.pc = "store", !.found = row])
      <3> DEFINE o == [op[t] EXCEPT !.pc = "store", !.found = row]
      <3>1. o.found = row
        BY <1>1 DEF Locals
      <3>2. Become(t, o)
        BY <2>3
      <3> HIDE DEF o
      <3> QED BY <1>2, <2>2, <3>1, <3>2
    <2> QED BY <1>3, <2>2, <2>3
  <1>8. CASE \E t \in Threads : Sign(t)
    <2>1. PICK t \in Threads : Sign(t)
      BY <1>8
    <2> DEFINE cert == [host |-> op[t].host, expires |-> now + HostLife, issuer |-> ca.expires]
               o == [op[t] EXCEPT !.pc = "save", !.found = cert]
    <2>2. o.found = cert
      BY <1>1 DEF Locals
    <2>3. Become(t, o) /\ UNCHANGED <<now, ca>>
      BY <2>1 DEF Sign
    <2> HIDE DEF o
    <2>4. CASE u = t
      BY <1>0, <2>2, <2>3, <2>4 DEF Become
    <2>5. CASE u # t
      BY <1>2, <2>3, <2>5
    <2> QED BY <2>4, <2>5
  <1>9. ASSUME NEW t \in Threads, Step(t), ~Sign(t)
        PROVE  Old(op'[u].found)
    BY <1>3, <1>5, <1>7, <1>9
    DEF Step, SaveCert, SaveFails, Store, Answer, DeleteRow, DeleteFails
  <1>10. ASSUME Maintain \/ Maintenance
         PROVE  Old(op'[u].found)
    <2>0. Maintainer \in Threads
      BY DEF Threads
    <2>1. CASE ListExpired
      BY <1>2, <2>0, <2>1 DEF ListExpired, Idle
    <2>2. CASE Maintained
      BY <1>0, <1>2, <2>0, <2>2 DEF Maintained
    <2>3. CASE Maintain \/ CheckCA \/ RenewCA
      BY <1>3, <2>0, <2>3 DEF Maintain, CheckCA, RenewCA
    <2>4. CASE RenewHost
      BY <1>4, <2>0, <2>4 DEF RenewHost, Evict
    <2> QED BY <1>10, <2>1, <2>2, <2>3, <2>4 DEF Maintenance
  <1>11. CASE Restart
    <2>1. op'[u] \in {[Idle EXCEPT !.pc = "checkCA"], Idle}
      BY <1>11 DEF Restart, Starting
    <2>2. op'[u].found = Absent
      BY <2>1 DEF Idle
    <2> QED BY <2>2
  <1>12. CASE Tick \/ UNCHANGED vars
    BY <1>12 DEF Tick, vars
  <1>13. ASSUME NEW t \in Callers, Call(t)
         PROVE  Old(op'[u].found)
    BY <1>6, <1>13 DEF Threads
  <1> QED BY <1>8, <1>9, <1>10, <1>11, <1>12, <1>13 DEF Next

LEMMA AgeNext == AgeInv /\ [Next]_vars => AgeInv'
  <1> SUFFICES ASSUME AgeInv, [Next]_vars PROVE AgeInv'
    OBVIOUS
  <1> DEFINE Young(cert) == cert # Absent =>
                 /\ cert.expires <= now' + HostLife
                 /\ cert.issuer # ca'.expires =>
                        cert.expires + CALife <= ca'.expires + HostLife
  <1>1. CertInv' /\ CASaved'
    BY CallInv, StepInv, MaintenanceInv, TickInv, RestartInv, CAStep DEF AgeInv, Next, Threads
  <1>2. \A cert \in Cert \cup {Absent} : Aged(cert) => Young(cert)
    BY AgedStays DEF Aged, Bounded
  <1>3. /\ hostDb \in [Names -> Cert \cup {Absent}]
        /\ cache \in [Names -> Cert \cup {Absent}]
        /\ \A t \in Threads : op[t].found \in Cert \cup {Absent}
        /\ answer \in [host : Names, cert : Cert] \cup {Absent}
        /\ now \in Nat /\ now' \in Nat /\ now <= now' /\ ca.expires \in Nat
        /\ HostLife \in Nat /\ CALife \in Nat
        /\ ca' = ca \/ (ca'.expires = now + CALife /\ now' = now)
    BY CAStep, CertAssumption DEF AgeInv, CertInv, TypeOK, Locals, CA
  <1>4. /\ \A h \in Names : Young(hostDb[h]) /\ Young(cache[h])
        /\ \A t \in Threads : Young(op[t].found)
        /\ answer # Absent => Young(answer.cert)
    BY <1>2, <1>3 DEF AgeInv
  <1>5. Young(Absent)
    OBVIOUS
  <1>6. \A h \in Names : Young(hostDb'[h]) /\ Young(cache'[h])
    BY <1>4, <1>5, RowsFrom, CacheFrom
  <1>7. ASSUME NEW t \in Threads
        PROVE  Young(op'[t].found)
    <2>1. CASE op'[t].found \in {op[t].found, Absent} \cup {hostDb[h] : h \in Names}
      <3> HIDE DEF Young
      <3> QED BY <1>4, <1>5, <2>1
    <2>2. CASE /\ op'[t].found = [host |-> op[t].host, expires |-> now + HostLife,
                                  issuer |-> ca.expires]
               /\ UNCHANGED <<now, ca>>
      BY <1>3, <2>2
    <2> QED BY <2>1, <2>2, FoundFrom
  <1>8. answer' # Absent => Young(answer'.cert)
    <2> HIDE DEF Young
    <2> QED BY <1>4, AnswerFrom
  <1>9. ca'.expires <= now' + CALife
    BY <1>3 DEF AgeInv
  <1> QED BY <1>1, <1>6, <1>7, <1>8, <1>9 DEF AgeInv, Aged, Bounded

\* The ages of the CA and of the certificates keep their bounds.
THEOREM AgeInvariance == Spec => []AgeInv
  BY AgeInit, AgeNext, PTL DEF Spec

\* The CA in memory is the saved one, also between two steps of any goroutines
\* and after a failed renewal.
THEOREM CAIsSaved == Spec => []CASaved
  BY AgeInvariance, PTL DEF AgeInv

\* A replaced CA is out of use at the latest when a host certificate made at the
\* moment of the replacement expires.
THEOREM ReplacedCAIsBounded == Spec => []ReplacedCADies
  <1>1. AgeInv => ReplacedCADies
    BY DEF AgeInv, ReplacedCADies, Aged, Bounded
  <1> QED BY <1>1, AgeInvariance, PTL

-----------------------------------------------------------------------------
(* One request at a time: the cache holds what the rows hold.              *)

Working == {"deleteRow", "load", "loadWildcard", "sign", "save", "store"}

LEMMA BecomeAt ==
    ASSUME CertInv, NEW t \in Threads, NEW o, Become(t, o)
    PROVE  op'[t] = o /\ \A u \in Threads : u # t => op'[u] = op[u]
  BY DEF CertInv, TypeOK, Become

LEMMA GotoAt ==
    ASSUME CertInv, NEW t \in Threads, NEW pc, Goto(t, pc)
    PROVE  /\ op'[t].pc = pc /\ op'[t].host = op[t].host /\ op'[t].found = op[t].found
           /\ op'[t].todo = op[t].todo
           /\ \A u \in Threads : u # t => op'[u] = op[u]
  <1>1. op'[t] = [op[t] EXCEPT !.pc = pc] /\ \A u \in Threads : u # t => op'[u] = op[u]
    BY BecomeAt DEF Goto
  <1> QED BY <1>1, LocalsOf DEF Locals

LEMMA ReturnAt ==
    ASSUME CertInv, NEW t \in Threads, Return(t)
    PROVE  /\ op'[t].pc = IF t = Maintainer THEN "renewHosts" ELSE "idle"
           /\ t = Maintainer => op'[t].todo = op[t].todo
           /\ \A u \in Threads : u # t => op'[u] = op[u]
  <1> DEFINE back == [Idle EXCEPT !.pc = "renewHosts", !.todo = op[t].todo]
             o == IF t = Maintainer THEN back ELSE Idle
  <1>1. back.pc = "renewHosts" /\ back.todo = op[t].todo /\ Idle.pc = "idle"
    BY DEF Idle
  <1>2. Become(t, o)
    BY DEF Return
  <1> HIDE DEF back
  <1>3. /\ o.pc = IF t = Maintainer THEN "renewHosts" ELSE "idle"
        /\ t = Maintainer => o.todo = op[t].todo
    BY <1>1
  <1> HIDE DEF o
  <1> QED BY <1>2, <1>3, BecomeAt

\* A step of a goroutine that is busy before or after it: all others are idle.
LEMMA OthersIdle ==
    ASSUME OneAtATime, OneAtATime', NEW t \in Threads, op[t].pc # "idle" \/ op'[t].pc # "idle",
           \A u \in Threads : u # t => op'[u] = op[u]
    PROVE  \A u \in Threads : u # t => op[u].pc = "idle" /\ op'[u].pc = "idle"
  BY DEF OneAtATime

LEMMA SerialOver ==
    ASSUME SerialInv, OneAtATime', NEW t \in Threads, op[t].pc # "idle" \/ op'[t].pc # "idle",
           \A u \in Threads : u # t => op'[u] = op[u],
           \A h \in Names : Coherent(h)', Alone(op[t])'
    PROVE  SerialInv'
  <1>1. \A u \in Threads : u # t => op'[u].pc = "idle"
    BY OthersIdle DEF SerialInv
  <1>2. \A u \in Threads : u # t => Alone(op[u])'
    BY <1>1 DEF Alone
  <1> QED BY <1>2 DEF SerialInv

\* A step that leaves the rows and the cache alone and goes nowhere near them.
LEMMA SerialQuiet ==
    ASSUME SerialInv, OneAtATime', NEW t \in Threads, op[t].pc # "idle" \/ op'[t].pc # "idle",
           \A u \in Threads : u # t => op'[u] = op[u],
           UNCHANGED <<hostDb, cache>>, op'[t].pc \notin Working
    PROVE  SerialInv'
  <1>1. \A h \in Names : Coherent(h)'
    BY DEF SerialInv, Coherent
  <1>2. Alone(op[t])'
    BY DEF Alone, Working
  <1> QED BY <1>1, <1>2, SerialOver

LEMMA SerialUnchanged ==
    ASSUME SerialInv, UNCHANGED <<hostDb, cache, op>>
    PROVE  SerialInv'
  BY DEF SerialInv, OneAtATime, Coherent, Alone

LEMMA SerialEvict ==
    ASSUME CertInv, SerialInv, OneAtATime', NEW t \in Threads, NEW h \in Names, NEW todo,
           Evict(t, h, todo)
    PROVE  SerialInv'
  <1> DEFINE o == [Idle EXCEPT !.pc = "deleteRow", !.host = h, !.todo = todo]
  <1>1. o.pc = "deleteRow" /\ o.host = h /\ Become(t, o)
    BY DEF Idle, Evict
  <1> HIDE DEF o
  <1>2. op'[t].pc = "deleteRow" /\ op'[t].host = h /\ \A u \in Threads : u # t => op'[u] = op[u]
    BY <1>1, BecomeAt
  <1>3. /\ cache \in [Names -> Cert \cup {Absent}] /\ cache' = [cache EXCEPT ![h] = Absent]
        /\ hostDb' = hostDb
    BY DEF Evict, CertInv, TypeOK
  <1>4. \A n \in Names : Coherent(n)'
    BY <1>3 DEF SerialInv, Coherent
  <1>5. Alone(op[t])'
    BY <1>2, <1>3 DEF Alone
  <1> QED BY <1>2, <1>4, <1>5, SerialOver

LEMMA SerialLoad ==
    ASSUME CertInv, SerialInv, OneAtATime', NEW t \in Threads, LoadRow(t) \/ LoadWildcard(t)
    PROVE  SerialInv'
  <1> DEFINE seen == IF LoadRow(t) THEN op[t].host ELSE Wildcard(op[t].host)
             missed == IF LoadRow(t) THEN "loadWildcard" ELSE "sign"
  <1>1. /\ op[t].pc \in {"load", "loadWildcard"} /\ op[t] \in Locals
        /\ seen \in Names /\ UNCHANGED <<hostDb, cache>>
    BY LocalsOf, NamesType DEF Locals, LoadRow, LoadWildcard
  <1>2. cache[op[t].host] = Absent
    BY <1>1 DEF SerialInv, Alone
  <1>3. \A h \in Names : Coherent(h)'
    BY <1>1 DEF SerialInv, Coherent
  <1>4. PICK row \in Seen(hostDb[seen]) :
            IF Valid(row) THEN Become(t, [op[t] EXCEPT !.pc = "store", !.found = row])
                          ELSE Goto(t, missed)
    BY DEF LoadRow, LoadWildcard
  <1>5. missed \in {"loadWildcard", "sign"}
    OBVIOUS
  <1> HIDE DEF seen, missed
  <1>6. CASE Valid(row)
    <2>1. row = hostDb[seen] /\ row # Absent
      BY <1>4, <1>6 DEF Seen, Valid
    <2>2. row.host = seen
      BY <1>1, <2>1 DEF CertInv, Named
    <2>3. /\ op'[t] = [op[t] EXCEPT !.pc = "store", !.found = row]
          /\ \A u \in Threads : u # t => op'[u] = op[u]
      BY <1>4, <1>6, BecomeAt
    <2>4. op'[t].pc = "store" /\ op'[t].found = row
      BY <1>1, <2>3 DEF Locals
    <2>5. Alone(op[t])'
      BY <1>1, <2>1, <2>2, <2>4 DEF Alone
    <2> QED BY <1>1, <1>3, <2>3, <2>5, SerialOver
  <1>7. CASE ~Valid(row)
    <2>1. /\ op'[t].pc = missed /\ op'[t].host = op[t].host
          /\ \A u \in Threads : u # t => op'[u] = op[u]
      BY <1>4, <1>7, GotoAt
    <2>2. Alone(op[t])'
      BY <1>1, <1>2, <1>5, <2>1 DEF Alone
    <2> QED BY <1>1, <1>3, <2>1, <2>2, SerialOver
  <1> QED BY <1>6, <1>7

LEMMA SerialStep ==
    ASSUME CertInv, SerialInv, OneAtATime', NEW t \in Threads, Step(t)
    PROVE  SerialInv'
  <1> DEFINE h == op[t].host
  <1>0. /\ op[t] \in Locals /\ LocalsInv(op[t]) /\ h \in Names /\ Alone(op[t])
        /\ hostDb \in [Names -> Cert \cup {Absent}] /\ cache \in [Names -> Cert \cup {Absent}]
        /\ \A n \in Names : Coherent(n)
    BY LocalsOf DEF Locals, CertInv, TypeOK, SerialInv
  <1>1. CASE LoadRow(t) \/ LoadWildcard(t)
    BY <1>1, SerialLoad
  <1>2. CASE Sign(t)
    <2>1. PICK cert : Become(t, [op[t] EXCEPT !.pc = "save", !.found = cert])
      BY <1>2 DEF Sign
    <2>2. op[t].pc = "sign" /\ UNCHANGED <<hostDb, cache>>
      BY <1>2 DEF Sign
    <2>3. /\ op'[t] = [op[t] EXCEPT !.pc = "save", !.found = cert]
          /\ \A u \in Threads : u # t => op'[u] = op[u]
      BY <2>1, BecomeAt
    <2>4. op'[t].pc = "save" /\ op'[t].host = h
      BY <1>0, <2>3 DEF Locals
    <2>5. Alone(op[t])'
      BY <1>0, <2>2, <2>4 DEF Alone
    <2>6. \A n \in Names : Coherent(n)'
      BY <1>0, <2>2 DEF Coherent
    <2> QED BY <2>2, <2>3, <2>5, <2>6, SerialOver
  <1>3. CASE SaveCert(t)
    <2>1. /\ op[t].pc = "save" /\ cache' = cache
          /\ hostDb' = [hostDb EXCEPT ![h] = op[t].found]
          /\ op'[t].pc = "store" /\ op'[t].found = op[t].found
          /\ \A u \in Threads : u # t => op'[u] = op[u]
      BY <1>3, GotoAt DEF SaveCert
    <2>2. cache[h] = Absent /\ op[t].found.host = h
      BY <1>0, <2>1 DEF Alone, LocalsInv
    <2>3. \A n \in Names : Coherent(n)'
      BY <1>0, <2>1, <2>2 DEF Coherent
    <2>4. Alone(op[t])'
      BY <1>0, <2>1, <2>2 DEF Alone
    <2> QED BY <2>1, <2>3, <2>4, SerialOver
  <1>4. CASE SaveFails(t) \/ DeleteFails(t)
    <2>1. /\ op[t].pc \in {"save", "deleteRow"} /\ UNCHANGED <<hostDb, cache>>
          /\ op'[t].pc \in {"idle", "renewHosts"}
          /\ \A u \in Threads : u # t => op'[u] = op[u]
      BY <1>4, ReturnAt DEF SaveFails, DeleteFails
    <2> QED BY <2>1, SerialQuiet DEF Working
  <1>5. CASE Store(t)
    <2> DEFINE cert == op[t].found
    <2>1. /\ op[t].pc = "store" /\ hostDb' = hostDb
          /\ cache' = [cache EXCEPT ![cert.host] = cert]
          /\ op'[t].pc \in {"idle", "renewHosts"}
          /\ \A u \in Threads : u # t => op'[u] = op[u]
      BY <1>5, ReturnAt DEF Store, Answer
    <2>2. cert = hostDb[cert.host]
      BY <1>0, <2>1 DEF Alone
    <2>3. \A n \in Names : Coherent(n)'
      BY <1>0, <2>1, <2>2 DEF Coherent
    <2>4. Alone(op[t])'
      BY <2>1 DEF Alone
    <2> QED BY <2>1, <2>3, <2>4, SerialOver
  <1>6. CASE DeleteRow(t)
    <2>1. /\ op[t].pc = "deleteRow" /\ cache' = cache
          /\ hostDb' = [hostDb EXCEPT ![h] = Absent]
          /\ op'[t].pc = "load" /\ op'[t].host = h
          /\ \A u \in Threads : u # t => op'[u] = op[u]
      BY <1>6, GotoAt DEF DeleteRow
    <2>2. cache[h] = Absent
      BY <1>0, <2>1 DEF Alone
    <2>3. \A n \in Names : Coherent(n)'
      BY <1>0, <2>1, <2>2 DEF Coherent
    <2>4. Alone(op[t])'
      BY <2>1, <2>2 DEF Alone
    <2> QED BY <2>1, <2>3, <2>4, SerialOver
  <1> QED BY <1>1, <1>2, <1>3, <1>4, <1>5, <1>6 DEF Step

LEMMA SerialMaintenance ==
    ASSUME CertInv, SerialInv, OneAtATime', Maintain \/ Maintenance
    PROVE  SerialInv'
  <1> DEFINE m == Maintainer
  <1>0. m \in Threads /\ op[m] \in Locals
    BY LocalsOf DEF Threads
  <1>1. CASE Maintain \/ CheckCA \/ RenewCA
    <2>1. PICK pc \in {"checkCA", "renewCA", "list"} : Goto(m, pc) /\ UNCHANGED <<hostDb, cache>>
      BY <1>1 DEF Maintain, CheckCA, RenewCA
    <2>2. op'[m].pc = pc /\ \A u \in Threads : u # m => op'[u] = op[u]
      BY <1>0, <2>1, GotoAt
    <2> QED BY <1>0, <2>1, <2>2, SerialQuiet DEF Working
  <1>2. CASE ListExpired
    <2>1. PICK todo : Become(m, [Idle EXCEPT !.pc = "renewHosts", !.todo = todo])
      BY <1>2 DEF ListExpired
    <2>2. /\ op'[m] = [Idle EXCEPT !.pc = "renewHosts", !.todo = todo]
          /\ \A u \in Threads : u # m => op'[u] = op[u]
      BY <1>0, <2>1, BecomeAt
    <2>3. op'[m].pc = "renewHosts"
      BY <2>2 DEF Idle
    <2> QED BY <1>0, <1>2, <2>2, <2>3, SerialQuiet DEF ListExpired, Working
  <1>3. CASE RenewHost
    <2>1. PICK h \in op[m].todo : Evict(m, h, op[m].todo \ {h})
      BY <1>3 DEF RenewHost
    <2>2. h \in Names
      BY <1>0, <2>1 DEF Locals
    <2> QED BY <1>0, <2>1, <2>2, SerialEvict
  <1>4. CASE Maintained
    <2>1. op[m].pc = "renewHosts" /\ UNCHANGED <<hostDb, cache>> /\ Become(m, Idle)
      BY <1>4 DEF Maintained
    <2>2. op'[m].pc = "idle" /\ \A u \in Threads : u # m => op'[u] = op[u]
      BY <1>0, <2>1, BecomeAt DEF Idle
    <2> QED BY <1>0, <2>1, <2>2, SerialQuiet DEF Working
  <1> QED BY <1>1, <1>2, <1>3, <1>4 DEF Maintenance

LEMMA SerialCall ==
    ASSUME CertInv, SerialInv, OneAtATime', NEW t \in Callers, Call(t)
    PROVE  SerialInv'
  <1>0. t \in Threads
    BY DEF Threads
  <1>1. PICK h \in Asked : CacheHit(t, h) \/ CacheMiss(t, h) \/ Evict(t, h, {})
    BY DEF Call
  <1>2. h \in Names
    BY NamesType
  <1>3. CASE CacheHit(t, h)
    BY <1>3, SerialUnchanged DEF CacheHit
  <1>4. CASE CacheMiss(t, h)
    <2>1. Become(t, [Idle EXCEPT !.pc = "load", !.host = h])
      BY <1>4 DEF CacheMiss
    <2>2. /\ op'[t] = [Idle EXCEPT !.pc = "load", !.host = h]
          /\ \A u \in Threads : u # t => op'[u] = op[u]
      BY <1>0, <2>1, BecomeAt
    <2>3. op'[t].pc = "load" /\ op'[t].host = h
      BY <2>2 DEF Idle
    <2>4. cache[h] = Absent /\ UNCHANGED <<hostDb, cache>>
      BY <1>4 DEF CacheMiss
    <2>5. Alone(op[t])'
      BY <2>3, <2>4 DEF Alone
    <2>6. \A n \in Names : Coherent(n)'
      BY <2>4 DEF SerialInv, Coherent
    <2> QED BY <1>0, <2>2, <2>3, <2>5, <2>6, SerialOver
  <1>5. CASE Evict(t, h, {})
    BY <1>0, <1>2, <1>5, SerialEvict
  <1> QED BY <1>1, <1>3, <1>4, <1>5

LEMMA SerialInit == Init => SerialInv
  BY DEF Init, Starting, Idle, SerialInv, OneAtATime, Coherent, Alone

LEMMA SerialNext ==
    ASSUME CertInv, SerialInv, [Next /\ OneAtATime']_vars
    PROVE  SerialInv'
  <1>1. CASE Restart /\ OneAtATime'
    <2>1. \A h \in Names : cache'[h] = Absent
      BY <1>1 DEF Restart
    <2>2. \A t \in Threads : op'[t].pc \in {"checkCA", "idle"}
      BY <1>1 DEF Restart, Starting, Idle
    <2>3. \A t \in Threads : Alone(op[t])'
      BY <2>2 DEF Alone
    <2> QED BY <1>1, <2>1, <2>3 DEF SerialInv, Coherent
  <1>2. CASE Tick \/ UNCHANGED vars
    BY <1>2, SerialUnchanged DEF Tick, vars
  <1> QED BY <1>1, <1>2, SerialCall, SerialStep, SerialMaintenance DEF Next

LEMMA SerialIsSpec == SpecSerial => Spec
  <1>1. [Next /\ OneAtATime' /\ (Tick => Quiescent)]_vars => [Next]_vars
    OBVIOUS
  <1> QED BY <1>1, PTL DEF SpecSerial, Spec

\* With one request at a time a cached certificate is the saved one, whatever
\* statements fail and whenever the process dies.
THEOREM CacheIsCoherent == SpecSerial => []CacheCoherent
  <1>1. CertInv /\ SerialInv /\ [Next /\ OneAtATime' /\ (Tick => Quiescent)]_vars => SerialInv'
    BY SerialNext
  <1>2. SerialInv => CacheCoherent
    BY DEF SerialInv, CacheCoherent
  <1> QED BY <1>1, <1>2, SerialInit, SerialIsSpec, CertInvariance, PTL DEF SpecSerial

-----------------------------------------------------------------------------
(* A pass whose statements all succeed: nothing expired is left.           *)

\* A step of a caller finds the maintenance idle or changes nothing it looks at.
LEMMA CallersStill ==
    ASSUME CertInv, OneAtATime, OneAtATime', NEW t \in Callers, Call(t) \/ Step(t)
    PROVE  op'[Maintainer].pc = "idle" \/ UNCHANGED <<now, ca, hostDb, op>>
  <1>0. t \in Threads /\ Maintainer \in Threads /\ Maintainer # t
    BY CertAssumption DEF Threads
  <1>1. ASSUME NEW o, Become(t, o), op[t].pc # "idle" \/ o.pc # "idle"
        PROVE  op'[Maintainer].pc = "idle"
    <2>1. op'[t] = o /\ \A u \in Threads : u # t => op'[u] = op[u]
      BY <1>0, <1>1, BecomeAt
    <2> QED BY <1>0, <1>1, <2>1, OthersIdle
  <1>2. CASE Step(t)
    <2>1. op[t].pc # "idle"
      BY <1>2 DEF Step, LoadRow, LoadWildcard, Sign, SaveCert, SaveFails, Store,
                  DeleteRow, DeleteFails
    <2>2. \E o : Become(t, o)
      BY <1>2 DEF Step, LoadRow, LoadWildcard, Sign, SaveCert, SaveFails, Store,
                  DeleteRow, DeleteFails, Goto, Return, Answer
    <2> QED BY <1>1, <2>1, <2>2
  <1>3. CASE Call(t)
    <2>1. PICK h \in Asked : CacheHit(t, h) \/ CacheMiss(t, h) \/ Evict(t, h, {})
      BY <1>3 DEF Call
    <2>2. CASE CacheHit(t, h)
      BY <2>2 DEF CacheHit
    <2>3. CASE CacheMiss(t, h)
      <3> DEFINE o == [Idle EXCEPT !.pc = "load", !.host = h]
      <3>1. o.pc = "load" /\ Become(t, o)
        BY <2>3 DEF CacheMiss, Idle
      <3> HIDE DEF o
      <3> QED BY <1>1, <3>1
    <2>4. CASE Evict(t, h, {})
      <3> DEFINE o == [Idle EXCEPT !.pc = "deleteRow", !.host = h, !.todo = {}]
      <3>1. o.pc = "deleteRow" /\ Become(t, o)
        BY <2>4 DEF Evict, Idle
      <3> HIDE DEF o
      <3> QED BY <1>1, <3>1
    <2> QED BY <2>1, <2>2, <2>3, <2>4
  <1> QED BY <1>2, <1>3

LEMMA ClearTrivially ==
    ASSUME failed' \/ op'[Maintainer].pc \in {"idle", "checkCA", "renewCA"}
    PROVE  ClearInv'
  BY DEF ClearInv, Renewing

\* The maintenance goes on with a name without a row being written.
LEMMA ClearSame ==
    ASSUME ClearInv, ~failed, UNCHANGED <<now, ca, hostDb>>,
           op[Maintainer].pc \in Renewing, op'[Maintainer].pc \in Renewing \ {"save"},
           op'[Maintainer].todo = op[Maintainer].todo
    PROVE  ClearInv'
  BY DEF ClearInv, Renewing, Expired

LEMMA ClearStep ==
    ASSUME CertInv, ClearInv, ~failed, ~StatementFails, Step(Maintainer)
    PROVE  ClearInv'
  <1> DEFINE m == Maintainer
             h == op[m].host
  <1>0. /\ m \in Threads /\ op[m] \in Locals /\ LocalsInv(op[m]) /\ h \in Names
        /\ hostDb \in [Names -> Cert \cup {Absent}]
        /\ now \in Nat /\ HostLife \in Nat
    BY LocalsOf, CertAssumption DEF Threads, Locals, CertInv, TypeOK
  <1>1. CASE LoadRow(m) \/ LoadWildcard(m)
    <2>1. /\ op[m].pc \in {"load", "loadWildcard"} /\ UNCHANGED <<now, ca, hostDb>>
          /\ \E row : \/ Become(m, [op[m] EXCEPT !.pc = "store", !.found = row])
                      \/ \E pc \in {"loadWildcard", "sign"} : Goto(m, pc)
      BY <1>1 DEF LoadRow, LoadWildcard
    <2>2. CASE \E row : Become(m, [op[m] EXCEPT !.pc = "store", !.found = row])
      <3>1. PICK row : Become(m, [op[m] EXCEPT !.pc = "store", !.found = row])
        BY <2>2
      <3>2. op'[m] = [op[m] EXCEPT !.pc = "store", !.found = row]
        BY <1>0, <3>1, BecomeAt
      <3>3. op'[m].pc = "store" /\ op'[m].todo = op[m].todo
        BY <1>0, <3>2 DEF Locals
      <3> QED BY <2>1, <3>3, ClearSame DEF Renewing
    <2>3. CASE \E pc \in {"loadWildcard", "sign"} : Goto(m, pc)
      <3>1. op'[m].pc \in {"loadWildcard", "sign"} /\ op'[m].todo = op[m].todo
        BY <1>0, <2>3, GotoAt
      <3> QED BY <2>1, <3>1, ClearSame DEF Renewing
    <2> QED BY <2>1, <2>2, <2>3
  <1>2. CASE Sign(m)
    <2> DEFINE cert == [host |-> h, expires |-> now + HostLife, issuer |-> ca.expires]
    <2>1. Become(m, [op[m] EXCEPT !.pc = "save", !.found = cert])
          /\ op[m].pc = "sign" /\ UNCHANGED <<now, ca, hostDb>>
      BY <1>2 DEF Sign
    <2>2. ~(now > cert.expires)
      BY <1>0
    <2> HIDE DEF cert
    <2>3. op'[m] = [op[m] EXCEPT !.pc = "save", !.found = cert]
      BY <1>0, <2>1, BecomeAt
    <2>4. op'[m].pc = "save" /\ op'[m].found = cert /\ op'[m].todo = op[m].todo
      BY <1>0, <2>3 DEF Locals
    <2> QED BY <2>1, <2>2, <2>4 DEF ClearInv, Renewing, Expired
  <1>3. CASE SaveCert(m)
    <2>1. /\ op[m].pc = "save" /\ UNCHANGED <<now, ca>>
          /\ hostDb' = [hostDb EXCEPT ![h] = op[m].found]
          /\ op'[m].pc = "store" /\ op'[m].todo = op[m].todo
      BY <1>0, <1>3, GotoAt DEF SaveCert
    <2>2. ~Expired(hostDb'[h]) /\ \A n \in Names : n # h => hostDb'[n] = hostDb[n]
      BY <1>0, <2>1 DEF ClearInv
    <2> QED BY <1>0, <2>1, <2>2 DEF ClearInv, Renewing, Expired
  <1>4. CASE Store(m)
    <2>1. /\ op[m].pc = "store" /\ UNCHANGED <<now, ca, hostDb>>
          /\ op'[m].pc = "renewHosts" /\ op'[m].todo = op[m].todo
      BY <1>0, <1>4, ReturnAt DEF Store, Answer
    <2> QED BY <2>1, ClearSame DEF Renewing
  <1>5. CASE DeleteRow(m)
    <2>1. /\ op[m].pc = "deleteRow" /\ UNCHANGED <<now, ca>>
          /\ hostDb' = [hostDb EXCEPT ![h] = Absent]
          /\ op'[m].pc = "load" /\ op'[m].todo = op[m].todo
      BY <1>0, <1>5, GotoAt DEF DeleteRow
    <2>2. hostDb'[h] = Absent /\ \A n \in Names : n # h => hostDb'[n] = hostDb[n]
      BY <1>0, <2>1
    <2> QED BY <1>0, <2>1, <2>2 DEF ClearInv, Renewing, Expired
  <1> QED BY <1>1, <1>2, <1>3, <1>4, <1>5 DEF Step, StatementFails

LEMMA ClearMaintenance ==
    ASSUME AgeInv, ClearInv, ~failed, ~StatementFails, Maintenance
    PROVE  ClearInv'
  <1> DEFINE m == Maintainer
  <1>0. /\ m \in Threads /\ CertInv /\ op[m] \in Locals /\ ca = caDb
        /\ now \in Nat /\ CALife \in Nat
    BY LocalsOf, CertAssumption DEF Threads, AgeInv, CertInv, TypeOK, CASaved
  <1>1. CASE CheckCA
    <2>1. UNCHANGED <<now, ca, hostDb>> /\ op'[m].pc \in {"renewCA", "list"}
      BY <1>0, <1>1, GotoAt DEF CheckCA
    <2>2. CASE op'[m].pc = "list"
      <3>1. ~Expired(ca)
        BY <1>0, <1>1, <2>2 DEF StatementFails
      <3> QED BY <2>1, <2>2, <3>1 DEF ClearInv, Renewing, Expired
    <2> QED BY <2>1, <2>2, ClearTrivially
  <1>2. CASE RenewCA
    <2>1. GenerateAndSaveCA /\ now' = now /\ Goto(m, "list")
      BY <1>2 DEF RenewCA, StatementFails
    <2>2. op'[m].pc = "list" /\ ca'.expires = now + CALife
      BY <1>0, <2>1, GotoAt DEF GenerateAndSaveCA
    <2> QED BY <1>0, <2>1, <2>2 DEF ClearInv, Renewing, Expired
  <1>3. CASE ListExpired
    <2>1. op[m].pc = "list" /\ UNCHANGED <<now, ca, hostDb>>
      BY <1>3 DEF ListExpired
    <2>2. PICK todo : Become(m, [Idle EXCEPT !.pc = "renewHosts", !.todo = todo])
      BY <1>3 DEF ListExpired
    <2>3. op'[m] = [Idle EXCEPT !.pc = "renewHosts", !.todo = todo]
      BY <1>0, <2>2, BecomeAt
    <2>4. op'[m].pc = "renewHosts"
      BY <2>3 DEF Idle
    <2>5. op'[m].todo = {h \in Names : Expired(hostDb[h])}
      BY <1>3 DEF StatementFails
    <2> QED BY <2>1, <2>4, <2>5 DEF ClearInv, Renewing, Expired
  <1>4. CASE RenewHost
    <2>1. PICK h \in op[m].todo : Evict(m, h, op[m].todo \ {h})
      BY <1>4 DEF RenewHost
    <2> DEFINE o == [Idle EXCEPT !.pc = "deleteRow", !.host = h, !.todo = op[m].todo \ {h}]
    <2>2. o.pc = "deleteRow" /\ o.host = h /\ o.todo = op[m].todo \ {h}
      BY DEF Idle
    <2>3. Become(m, o) /\ UNCHANGED <<now, ca, hostDb>> /\ op[m].pc = "renewHosts"
      BY <1>4, <2>1 DEF Evict, RenewHost
    <2> HIDE DEF o
    <2>4. /\ op'[m].pc = "deleteRow" /\ op'[m].host = h
          /\ op'[m].todo = op[m].todo \ {h}
      BY <1>0, <2>2, <2>3, BecomeAt
    <2> QED BY <2>3, <2>4 DEF ClearInv, Renewing, Expired
  <1>5. CASE Maintained
    <2>1. Become(m, Idle) /\ Idle.pc = "idle"
      BY <1>5 DEF Maintained, Idle
    <2>2. op'[m].pc = "idle"
      BY <1>0, <2>1, BecomeAt
    <2> QED BY <2>2, ClearTrivially
  <1> QED BY <1>1, <1>2, <1>3, <1>4, <1>5 DEF Maintenance

LEMMA ClearNext ==
    ASSUME AgeInv, SerialInv, ClearInv, [WatchedNext]_wvars
    PROVE  ClearInv'
  <1>0. CertInv /\ Maintainer \in Threads
    BY DEF AgeInv, Threads
  <1>1. CASE UNCHANGED wvars
    BY <1>1 DEF wvars, vars, ClearInv, Expired
  <1>2. CASE failed'
    BY <1>2, ClearTrivially
  <1>3. CASE WatchedNext /\ ~failed'
    <2>1. /\ Next /\ OneAtATime /\ OneAtATime' /\ (Tick => Quiescent) /\ ~StatementFails
          /\ ~failed \/ Maintain \/ Restart
      BY <1>3 DEF WatchedNext, SerialInv
    <2>2. CASE Maintain \/ Restart
      <3>1. CASE Maintain
        BY <1>0, <3>1, GotoAt, ClearTrivially DEF Maintain
      <3>2. CASE Restart
        <4>1. op'[Maintainer] = [Idle EXCEPT !.pc = "checkCA"]
          BY <1>0, <3>2 DEF Restart, Starting
        <4> QED BY <4>1, ClearTrivially DEF Idle
      <3> QED BY <2>2, <3>1, <3>2
    <2>3. CASE ~failed /\ \E t \in Callers : Call(t) \/ Step(t)
      <3>1. op'[Maintainer].pc = "idle" \/ UNCHANGED <<now, ca, hostDb, op>>
        BY <1>0, <2>1, <2>3, CallersStill
      <3> QED BY <2>3, <3>1, ClearTrivially DEF ClearInv, Expired
    <2>4. CASE ~failed /\ Step(Maintainer)
      BY <1>0, <2>1, <2>4, ClearStep
    <2>5. CASE ~failed /\ Maintenance
      BY <2>1, <2>5, ClearMaintenance
    <2>6. CASE Tick
      BY <1>0, <2>1, <2>6, ClearTrivially DEF Tick, Quiescent
    <2> QED BY <2>1, <2>2, <2>3, <2>4, <2>5, <2>6 DEF Next, Threads
  <1> QED BY <1>1, <1>2, <1>3

LEMMA WatchedIsSerial == WatchedSpec => SpecSerial
  <1>1. WatchedInit => Init
    BY DEF WatchedInit
  <1>2. [WatchedNext]_wvars => [Next /\ OneAtATime' /\ (Tick => Quiescent)]_vars
    BY DEF WatchedNext, wvars
  <1> QED BY <1>1, <1>2, PTL DEF WatchedSpec, SpecSerial

LEMMA WatchedInvariance == WatchedSpec => [](AgeInv /\ SerialInv /\ ClearInv)
  <1>1. WatchedInit => ClearInv
    BY DEF WatchedInit, Init, Starting, Idle, Threads, ClearInv, Renewing
  <1>2. AgeInv /\ SerialInv /\ ClearInv /\ [WatchedNext]_wvars => ClearInv'
    BY ClearNext
  <1>3. CertInv /\ SerialInv /\ [Next /\ OneAtATime' /\ (Tick => Quiescent)]_vars => SerialInv'
    BY SerialNext
  <1>4. WatchedSpec => [](AgeInv /\ SerialInv)
    BY <1>3, SerialInit, SerialIsSpec, WatchedIsSerial, CertInvariance, AgeInvariance, PTL
    DEF SpecSerial
  <1> QED BY <1>1, <1>2, <1>4, PTL DEF WatchedSpec

\* A pass of RenewExpiredCerts whose statements all succeed leaves no expired
\* certificate, neither in the database nor in the cache it never looks at.
THEOREM PassesClear == WatchedSpec => MaintenanceClears
  <1>1. ASSUME SerialInv, ClearInv, Maintained, ~failed
        PROVE  ~Expired(ca) /\ \A h \in Names : ~Expired(hostDb[h]) /\ ~Expired(cache[h])
    <2>1. op[Maintainer].pc = "renewHosts" /\ op[Maintainer].todo = {}
      BY <1>1 DEF Maintained
    <2>2. ~Expired(ca) /\ \A h \in Names : ~Expired(hostDb[h])
      BY <1>1, <2>1 DEF ClearInv, Renewing
    <2> QED BY <1>1, <2>2 DEF SerialInv, Coherent, Expired
  <1>2. SerialInv /\ ClearInv =>
            (Maintained /\ ~failed =>
                 ~Expired(ca) /\ \A h \in Names : ~Expired(hostDb[h]) /\ ~Expired(cache[h]))
    BY <1>1
  <1> QED BY <1>2, WatchedInvariance, PTL DEF MaintenanceClears

\* Nothing reissues what a replaced CA signed, yet such a pass leaves none of it
\* once a host certificate's life has gone by since the new CA was made.
THEOREM ReplacedCAGoes == WatchedSpec => ReplacedCAGone
  <1>1. ASSUME AgeInv, SerialInv, ClearInv, Maintained, ~failed,
               now + CALife > ca.expires + HostLife, NEW h \in Names
        PROVE  Signed(hostDb[h]) /\ Signed(cache[h])
    <2>1. op[Maintainer].pc = "renewHosts" /\ op[Maintainer].todo = {}
      BY <1>1 DEF Maintained
    <2>2. ~Expired(hostDb[h])
      BY <1>1, <2>1 DEF ClearInv, Renewing
    <2>3. /\ now \in Nat /\ ca.expires \in Nat /\ HostLife \in Nat /\ CALife \in Nat
          /\ hostDb[h] \in Cert \cup {Absent}
      BY <1>1, CertAssumption DEF AgeInv, CertInv, TypeOK, CA
    <2>4. hostDb[h] # Absent => hostDb[h].expires \in Nat /\ Bounded(hostDb[h])
      BY <1>1, <2>3 DEF Cert, AgeInv, Aged
    <2>5. Signed(hostDb[h])
      BY <1>1, <2>2, <2>3, <2>4 DEF Expired, Bounded, Signed
    <2> QED BY <1>1, <2>5 DEF SerialInv, Coherent, Signed
  <1>2. AgeInv /\ SerialInv /\ ClearInv =>
            (Maintained /\ ~failed /\ now + CALife > ca.expires + HostLife =>
                 \A h \in Names : Signed(hostDb[h]) /\ Signed(cache[h]))
    BY <1>1
  <1> QED BY <1>2, WatchedInvariance, PTL DEF ReplacedCAGone
=============================================================================
