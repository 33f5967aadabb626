--------------------------- MODULE ProxyingProofs ---------------------------
(* The certificate shown in an intercepted tunnel names the host the client *)
(* asked for, for every number of connections, rules and edits: ProxyInv is *)
(* inductive.  So is SeenInv: the backend of a request was a rule's.        *)
EXTENDS ProxyingWatched, RoutingTableProofs

LEMMA IdleInv == Idle \in Locals /\ LocalsInv(Idle)
  BY NamesAssumption DEF Idle, Locals, LocalsInv, Ways, Sending, Intercepted

LEMMA NoRelayType == NoRelay \in Relay /\ NewRelay \in Relay
  BY DEF NoRelay, NewRelay, Relay

LEMMA RuleHostsInNames == \A rule \in Rule : rule.hostname \in RuleHosts /\ rule.hostname \in Names
  BY ProxyingAssumption DEF Rule

-----------------------------------------------------------------------------
(* The tables.                                                             *)

\* Changing the entry of h, to a rule of that name or to none, keeps the keys.
LEMMA PutKeyed ==
    ASSUME NEW t \in Table(Rule), Keyed(t), NEW h \in Names, NEW v \in Rule \cup {Absent},
           v # Absent => v.hostname = h
    PROVE  Put(t, h, v) \in Table(Rule) /\ Keyed(Put(t, h, v))
  <1>1. Put(t, h, v) \in Table(Rule)
    BY PutInTable
  <1>2. CASE IsWildcard(h)
    BY <1>2, WildcardBaseInNames DEF Put, Keyed, Table
  <1>3. CASE ~IsWildcard(h)
    BY <1>3 DEF Put, Keyed, Table
  <1> QED BY <1>1, <1>2, <1>3

LEMMA DropKeyed ==
    ASSUME NEW t \in Table(Rule), Keyed(t), NEW h \in Names
    PROVE  Drop(t, h) \in Table(Rule) /\ Keyed(Drop(t, h))
  BY PutKeyed DEF Drop

LEMMA UpdatedKeyed ==
    ASSUME NEW t \in Table(Rule), Keyed(t), NEW rule \in Rule
    PROVE  Updated(t, rule) \in Table(Rule) /\ Keyed(Updated(t, rule))
  BY PutKeyed, DropKeyed, RuleHostsInNames DEF Updated

LEMMA BaseOfWildcardOf ==
    ASSUME NEW b \in Names, IsWildcard(WildcardOf(b))
    PROVE  WildcardBase(WildcardOf(b)) = b
  <1>1. b \in Seq(Labels) /\ Star \in Labels
    BY NamesAssumption, StarAssumption
  <1>2. Tail(<<Star>> \o b) = b
    BY <1>1
  <1> QED BY <1>2 DEF WildcardBase, WildcardOf

LEMMA TableOfKeyed ==
    ASSUME NEW f \in [Names -> Rule \cup {Absent}],
           \A h \in Names : f[h] # Absent => f[h].hostname = h
    PROVE  TableOf(f) \in Table(Rule) /\ Keyed(TableOf(f))
  BY TableOfInTable, BaseOfWildcardOf DEF TableOf, Keyed

\* What a look-up finds is a rule whose certificate covers the name looked up.
LEMMA MatchCovers ==
    ASSUME NEW t \in Table(Rule), Keyed(t), NEW h \in Names, Match(t, h) # Absent
    PROVE  Match(t, h) \in Rule /\ Covers(Match(t, h).hostname, h)
  <1>1. WildcardDomain(h) \in Names
    BY NamesAssumption
  <1>2. CASE t.exact[h] # Absent
    BY <1>2 DEF Match, Keyed, Table, Covers
  <1>3. CASE t.exact[h] = Absent
    BY <1>1, <1>3 DEF Match, Keyed, Table, Covers
  <1> QED BY <1>2, <1>3

-----------------------------------------------------------------------------
(* The steps.                                                              *)

LEMMA LocalsOf == ASSUME ProxyInv, NEW c \in Conns
                  PROVE  op[c] \in Locals /\ LocalsInv(op[c])
  BY DEF ProxyInv, TypeOK

LEMMA BecomeInv ==
    ASSUME ProxyInv, NEW c \in Conns, NEW o \in Locals, LocalsInv(o), Become(c, o)
    PROVE  op' \in [Conns -> Locals] /\ \A d \in Conns : LocalsInv(op'[d])
  BY DEF ProxyInv, TypeOK, Become

\* A step that changes the locals of its goroutine and nothing else.
LEMMA StepAlone ==
    ASSUME ProxyInv, NEW c \in Conns, NEW o \in Locals, LocalsInv(o), Become(c, o), Unshared
    PROVE  ProxyInv'
  BY BecomeInv DEF ProxyInv, TypeOK, Unshared, Keyed, LocalsInv

LEMMA FinishAlone ==
    ASSUME ProxyInv, NEW c \in Conns, Finish(c), Unshared
    PROVE  ProxyInv'
  BY StepAlone, IdleInv DEF Finish

\* A step that changes nothing but the copying goroutines.
LEMMA RelayAlone ==
    ASSUME ProxyInv, relay' \in [Conns -> Relay], UNCHANGED <<rp, fp, accessLog, op>>
    PROVE  ProxyInv'
  BY DEF ProxyInv, TypeOK, Keyed, LocalsInv

LEMMA ProxyInit == Init => ProxyInv
  <1> SUFFICES ASSUME Init PROVE ProxyInv
    OBVIOUS
  <1>1. op \in [Conns -> Locals] /\ \A c \in Conns : LocalsInv(op[c])
    BY IdleInv DEF Init
  <1>2. relay \in [Conns -> Relay] /\ accessLog \in Seq(Log)
    BY NoRelayType DEF Init
  <1>3. PICK f \in [RuleHosts -> Backends \X BOOLEAN \cup {Absent}] :
            LET load(all) == TableOf([h \in Names |->
                    IF h \notin RuleHosts \/ f[h] = Absent THEN Absent
                    ELSE IF all \/ f[h][2]
                    THEN [hostname |-> h, backend |-> f[h][1], enabled |-> f[h][2]]
                    ELSE Absent])
            IN  rp = load(TRUE) /\ fp = load(FALSE)
    BY DEF Init
  <1>4. ASSUME NEW all \in BOOLEAN
        PROVE  LET g == [h \in Names |->
                       IF h \notin RuleHosts \/ f[h] = Absent THEN Absent
                       ELSE IF all \/ f[h][2]
                       THEN [hostname |-> h, backend |-> f[h][1], enabled |-> f[h][2]]
                       ELSE Absent]
               IN  TableOf(g) \in Table(Rule) /\ Keyed(TableOf(g))
    <2> DEFINE g == [h \in Names |->
                       IF h \notin RuleHosts \/ f[h] = Absent THEN Absent
                       ELSE IF all \/ f[h][2]
                       THEN [hostname |-> h, backend |-> f[h][1], enabled |-> f[h][2]]
                       ELSE Absent]
    <2>1. ASSUME NEW h \in Names
          PROVE  g[h] \in Rule \cup {Absent} /\ (g[h] # Absent => g[h].hostname = h)
      BY DEF Rule
    <2>2. g \in [Names -> Rule \cup {Absent}]
      BY <2>1
    <2> HIDE DEF g
    <2>3. TableOf(g) \in Table(Rule) /\ Keyed(TableOf(g))
      BY <2>1, <2>2, TableOfKeyed
    <2> QED BY <2>3 DEF g
  <1>5. rp \in Table(Rule) /\ fp \in Table(Rule) /\ Keyed(rp) /\ Keyed(fp)
    BY <1>3, <1>4
  <1> QED BY <1>1, <1>2, <1>5 DEF ProxyInv, TypeOK

LEMMA RulesInv ==
    ASSUME ProxyInv, (\E rule \in Rule : UpdateRule(rule)) \/ (\E h \in RuleHosts : RemoveRule(h))
    PROVE  ProxyInv'
  <1>1. rp' \in Table(Rule) /\ fp' \in Table(Rule) /\ Keyed(rp') /\ Keyed(fp')
    BY UpdatedKeyed, DropKeyed, ProxyingAssumption DEF ProxyInv, TypeOK, UpdateRule, RemoveRule
  <1>2. UNCHANGED <<accessLog, op, relay>>
    BY DEF UpdateRule, RemoveRule
  <1> QED BY <1>1, <1>2 DEF ProxyInv, TypeOK, Keyed, LocalsInv

LEMMA CleanupInv == ASSUME ProxyInv, Cleanup PROVE ProxyInv'
  <1>1. accessLog' \in Seq(Log)
    BY DEF Cleanup, ProxyInv, TypeOK
  <1> QED BY <1>1 DEF Cleanup, ProxyInv, TypeOK, Keyed, LocalsInv

LEMMA WithRule ==
    ASSUME NEW o \in Locals, NEW rule \in Rule, Covers(rule.hostname, o.host),
           NEW pc \in {"intercept", "send"}, pc = "intercept" <=> o.way = "connect"
    PROVE  LET found == [o EXCEPT !.pc = pc, !.rule = rule]
           IN  found \in Locals /\ LocalsInv(found)
  BY NoRuleAssumption DEF Locals, LocalsInv, Sending, Intercepted

LEMMA MatchedRule ==
    ASSUME ProxyInv, NEW c \in Conns, NEW t \in {rp, fp}, Matched(t, op[c].host)
    PROVE  /\ Match(t, op[c].host) \in Rule
           /\ Covers(Match(t, op[c].host).hostname, op[c].host)
  <1>1. op[c].host \in Names
    BY LocalsOf DEF Locals
  <1> QED BY <1>1, MatchCovers DEF ProxyInv, TypeOK, Matched

\* A request arrives, is looked up, or ends in the hands of others.
LEMMA LookupInv ==
    ASSUME ProxyInv, NEW c \in Conns, Request(c) \/ LookupReverse(c) \/ LookupForward(c)
    PROVE  ProxyInv'
  <1> USE LocalsOf, NamesAssumption
  <1>1. CASE Request(c)
    <2>1. PICK way \in Ways, h \in Asked, health \in BOOLEAN : Receive(c, way, h, health)
      BY <1>1 DEF Request
    <2> DEFINE o == [Idle EXCEPT !.pc = "lookup", !.way = way, !.host = h, !.health = health]
    <2>2. o \in Locals /\ LocalsInv(o)
      BY IdleInv, ProxyingAssumption DEF Idle, Locals, LocalsInv, Sending, Intercepted
    <2> QED BY <2>1, <2>2, StepAlone DEF Receive
  <1>2. CASE LookupReverse(c)
    <2> DEFINE o == [op[c] EXCEPT !.pc = "send", !.rule = Match(rp, op[c].host)]
    <2>1. ASSUME Matched(rp, op[c].host) PROVE o \in Locals /\ LocalsInv(o)
      BY <1>2, <2>1, MatchedRule, WithRule DEF LookupReverse
    <2>2. CASE op[c].health \/ ~Matched(rp, op[c].host)
      BY <1>2, <2>2, FinishAlone DEF LookupReverse
    <2>3. CASE ~(op[c].health \/ ~Matched(rp, op[c].host))
      <3>1. Become(c, o) /\ Unshared
        BY <1>2, <2>3 DEF LookupReverse
      <3>2. o \in Locals /\ LocalsInv(o)
        BY <2>1, <2>3
      <3> HIDE DEF o
      <3> QED BY <3>1, <3>2, StepAlone
    <2> QED BY <2>2, <2>3
  <1>3. CASE LookupForward(c)
    <2> DEFINE o(pc) == [op[c] EXCEPT !.pc = pc, !.rule = Match(fp, op[c].host)]
               u(pc) == [op[c] EXCEPT !.pc = pc]
    <2>1. ASSUME Matched(fp, op[c].host)
          PROVE  /\ op[c].way = "connect" => o("intercept") \in Locals /\ LocalsInv(o("intercept"))
                 /\ op[c].way # "connect" => o("send") \in Locals /\ LocalsInv(o("send"))
      BY <2>1, MatchedRule, WithRule
    <2>2. ASSUME NEW pc \in {"dial", "send"}, pc = "send" => op[c].way # "connect",
                 op[c].pc = "lookup"
          PROVE  u(pc) \in Locals /\ LocalsInv(u(pc))
      BY <2>2 DEF Locals, LocalsInv, Sending, Intercepted
    <2>3. CASE ~Matched(fp, op[c].host)
      <3>1. PICK pc \in {"dial", "send"} : /\ pc = IF op[c].way = "connect" THEN "dial" ELSE "send"
                                           /\ Become(c, u(pc)) /\ Unshared
        BY <1>3, <2>3 DEF LookupForward, Goto
      <3>2. u(pc) \in Locals /\ LocalsInv(u(pc))
        BY <1>3, <2>2, <3>1 DEF LookupForward
      <3> HIDE DEF u
      <3> QED BY <3>1, <3>2, StepAlone
    <2>4. CASE Matched(fp, op[c].host)
      <3>1. PICK pc \in {"intercept", "send"} :
                /\ pc = IF op[c].way = "connect" THEN "intercept" ELSE "send"
                /\ Become(c, o(pc)) /\ Unshared
        BY <1>3, <2>4 DEF LookupForward
      <3>2. o(pc) \in Locals /\ LocalsInv(o(pc))
        BY <2>1, <2>4, <3>1
      <3> HIDE DEF o
      <3> QED BY <3>1, <3>2, StepAlone
    <2> QED BY <2>3, <2>4
  <1> QED BY <1>1, <1>2, <1>3

\* A request to the backend of a rule or outside, until its answer has been passed on.
LEMMA SendingInv ==
    ASSUME ProxyInv, NEW c \in Conns,
           \/ BadBackend(c) \/ BodySent(c) \/ BackendAnswers(c) \/ BackendFails(c)
           \/ Answered(c) \/ BodyBreaks(c)
    PROVE  ProxyInv'
  <1> USE LocalsOf
  <1> DEFINE u(pc) == [op[c] EXCEPT !.pc = pc]
             o(pc, sent, location) ==
                 [op[c] EXCEPT !.pc = pc, !.sent = sent, !.location = location]
             v(pc, sent) == [op[c] EXCEPT !.pc = pc, !.sent = sent]
  <1>0. CASE BadBackend(c) \/ BodyBreaks(c)
    BY <1>0, FinishAlone DEF BadBackend, BodyBreaks
  <1>1. ASSUME op[c].pc \in Sending, op[c].rule # Absent
        PROVE  HostSent(op[c]) \in Names /\ LocationSent(op[c]) \in Names \cup Backends
    BY <1>1, RuleHostsInNames DEF HostSent, LocationSent, Locals, Rule
  <1>2. ASSUME op[c].pc \in Sending, NEW pc \in Sending PROVE u(pc) \in Locals /\ LocalsInv(u(pc))
    BY <1>2 DEF Locals, LocalsInv, Sending, Intercepted
  <1>3. ASSUME op[c].pc \in Sending, op[c].rule # Absent
        PROVE  u(Following(op[c])) \in Locals /\ LocalsInv(u(Following(op[c])))
    BY <1>3 DEF Following, Locals, LocalsInv, Sending, Intercepted
  <1>4. ASSUME NEW pc, u(pc) \in Locals, LocalsInv(u(pc)), NEW sent \in Names,
               NEW location \in Names \cup Backends \cup {Absent}
        PROVE  /\ o(pc, sent, location) \in Locals /\ LocalsInv(o(pc, sent, location))
               /\ v(pc, sent) \in Locals /\ LocalsInv(v(pc, sent))
    BY <1>4 DEF Locals, LocalsInv, Intercepted
  <1>5. CASE BodySent(c)
    BY <1>2, <1>5, StepAlone DEF BodySent, Goto, Sending
  <1>6. CASE BackendAnswers(c)
    <2>1. op[c].pc \in Sending /\ Unshared
      BY <1>6 DEF BackendAnswers, Sending
    <2>2. u("answer") \in Locals /\ LocalsInv(u("answer"))
      BY <1>2, <2>1 DEF Sending
    <2>3. CASE op[c].rule = Absent
      BY <1>6, <2>2, <2>3, StepAlone DEF BackendAnswers, Goto
    <2>4. CASE op[c].rule # Absent
      <3>1. PICK location \in {Absent, LocationSent(op[c])} :
                Become(c, o("answer", HostSent(op[c]), location))
        BY <1>6, <2>4 DEF BackendAnswers
      <3>2. LET n == o("answer", HostSent(op[c]), location) IN n \in Locals /\ LocalsInv(n)
        BY <1>1, <1>4, <2>1, <2>2, <2>4
      <3> HIDE DEF o
      <3> QED BY <2>1, <3>1, <3>2, StepAlone
    <2> QED BY <2>3, <2>4
  <1>7. CASE BackendFails(c)
    <2>1. op[c].pc \in Sending /\ Unshared
      BY <1>7 DEF BackendFails, Sending
    <2>2. CASE op[c].rule = Absent
      BY <1>7, <2>2, FinishAlone DEF BackendFails
    <2>3. CASE op[c].rule # Absent
      <3>1. Become(c, v(Following(op[c]), HostSent(op[c])))
        BY <1>7, <2>3 DEF BackendFails
      <3>2. LET n == v(Following(op[c]), HostSent(op[c])) IN n \in Locals /\ LocalsInv(n)
        BY <1>1, <1>3, <1>4, <2>1, <2>3
      <3> HIDE DEF v
      <3> QED BY <2>1, <3>1, <3>2, StepAlone
    <2> QED BY <2>2, <2>3
  <1>8. CASE Answered(c)
    <2>1. op[c].pc \in Sending /\ Unshared
      BY <1>8 DEF Answered, Sending
    <2>2. CASE op[c].rule = Absent
      BY <1>8, <2>2, FinishAlone DEF Answered
    <2>3. CASE op[c].rule # Absent
      BY <1>3, <1>8, <2>1, <2>3, StepAlone DEF Answered, Goto
    <2> QED BY <2>2, <2>3
  <1> QED BY <1>0, <1>5, <1>6, <1>7, <1>8

LEMMA LogInv == ASSUME ProxyInv, NEW c \in Conns, LogAccess(c) PROVE ProxyInv'
  <1> DEFINE entry == [source |-> op[c].way, host |-> op[c].host, backend |-> op[c].rule.backend]
  <1>1. op[c].rule \in Rule /\ op[c].way \in {"reverse", "forward"}
    BY LocalsOf DEF LogAccess, LocalsInv, Locals, Ways
  <1>2. entry \in Log
    BY <1>1, LocalsOf DEF Log, Locals, Rule
  <1>3. accessLog' \in Seq(Log)
    BY <1>2 DEF LogAccess, ProxyInv, TypeOK
  <1>4. op' \in [Conns -> Locals] /\ \A d \in Conns : LocalsInv(op'[d])
    BY BecomeInv, IdleInv DEF LogAccess, Finish
  <1> QED BY <1>3, <1>4 DEF LogAccess, ProxyInv, TypeOK, Keyed, LocalsInv

LEMMA InterceptInv ==
    ASSUME ProxyInv, NEW c \in Conns,
           GetCert(c) \/ Handshake(c) \/ InterceptFails(c) \/ TunnelRequest(c) \/ TunnelEnds(c)
    PROVE  ProxyInv'
  <1> USE LocalsOf, RuleHostsInNames
  <1>1. CASE GetCert(c)
    <2> DEFINE o == [op[c] EXCEPT !.pc = "handshake", !.cert = op[c].rule.hostname]
    <2>1. op[c].rule \in Rule
      BY <1>1 DEF GetCert, LocalsInv, Locals
    <2>2. o \in Locals /\ LocalsInv(o)
      BY <1>1, <2>1 DEF GetCert, Locals, LocalsInv, Sending, Intercepted
    <2> QED BY <1>1, <2>2, StepAlone DEF GetCert
  <1>2. CASE Handshake(c)
    <2> DEFINE o == [op[c] EXCEPT !.pc = "tunnel"]
    <2>1. o \in Locals /\ LocalsInv(o)
      BY <1>2 DEF Handshake, Locals, LocalsInv, Sending, Intercepted
    <2> QED BY <1>2, <2>1, StepAlone DEF Handshake, Goto
  <1>3. CASE InterceptFails(c) \/ TunnelEnds(c)
    BY <1>3, FinishAlone DEF InterceptFails, TunnelEnds
  <1>4. CASE TunnelRequest(c)
    <2> DEFINE o == [op[c] EXCEPT !.pc = "send", !.sent = NoHost, !.location = Absent]
    <2>1. o \in Locals /\ LocalsInv(o)
      BY <1>4, NamesAssumption DEF TunnelRequest, Locals, LocalsInv, Sending, Intercepted
    <2> QED BY <1>4, <2>1, StepAlone DEF TunnelRequest
  <1> QED BY <1>1, <1>2, <1>3, <1>4

LEMMA RelayInv ==
    ASSUME ProxyInv, NEW c \in Conns,
           \/ Dial(c) \/ DialFails(c) \/ RelayEnds(c)
           \/ \E d \in Directions : \/ Read(c, d) \/ Written(c, d) \/ ReadEnds(c, d)
                                    \/ WriteRefused(c, d) \/ WriteFails(c, d)
                                    \/ CloseSource(c, d) \/ CloseTarget(c, d)
    PROVE  ProxyInv'
  <1>0. relay \in [Conns -> Relay]
    BY DEF ProxyInv, TypeOK
  <1>1. CASE Dial(c)
    <2> DEFINE o == [op[c] EXCEPT !.pc = "relay"]
    <2>1. o \in Locals /\ LocalsInv(o)
      BY <1>1, LocalsOf DEF Dial, Locals, LocalsInv, Sending, Intercepted
    <2>2. op' \in [Conns -> Locals] /\ \A d \in Conns : LocalsInv(op'[d])
      BY <1>1, <2>1, BecomeInv DEF Dial, Goto
    <2>3. relay' \in [Conns -> Relay]
      BY <1>0, <1>1, NoRelayType DEF Dial
    <2> QED BY <1>1, <2>2, <2>3 DEF Dial, ProxyInv, TypeOK, Keyed, LocalsInv
  <1>2. CASE DialFails(c) \/ RelayEnds(c)
    BY <1>2, FinishAlone DEF DialFails, RelayEnds
  <1>3. ASSUME NEW d \in Directions,
               \/ Read(c, d) \/ Written(c, d) \/ ReadEnds(c, d)
               \/ WriteRefused(c, d) \/ WriteFails(c, d)
        PROVE  ProxyInv'
    <2>1. \A to \in {"copy", "write", "closeSource"} : [relay[c] EXCEPT !.run[d] = to] \in Relay
      BY <1>0 DEF Relay
    <2>2. PICK to \in {"copy", "write", "closeSource"} : relay' = [relay EXCEPT ![c].run[d] = to]
      BY <1>3 DEF Read, Written, ReadEnds, WriteRefused, WriteFails
    <2>3. relay' \in [Conns -> Relay]
      BY <1>0, <2>1, <2>2
    <2> QED BY <1>3, <2>3, RelayAlone DEF Read, Written, ReadEnds, WriteRefused, WriteFails
  <1>4. ASSUME NEW d \in Directions, CloseSource(c, d) \/ CloseTarget(c, d)
        PROVE  ProxyInv'
    <2> DEFINE r(to, end) == [relay[c] EXCEPT !.run[d] = to, !.open = @ \ {end}]
    <2>1. ASSUME NEW to \in {"closeTarget", "done"}, NEW end PROVE r(to, end) \in Relay
      BY <1>0 DEF Relay
    <2>2. PICK to \in {"closeTarget", "done"}, end \in {"client", "target"} :
              relay' = [relay EXCEPT ![c] = r(to, end)]
      BY <1>0, <1>4 DEF CloseSource, CloseTarget, Source, Target, Relay
    <2> HIDE DEF r
    <2>3. relay' \in [Conns -> Relay]
      BY <1>0, <2>1, <2>2
    <2> QED BY <1>4, <2>3, RelayAlone DEF CloseSource, CloseTarget
  <1> QED BY <1>1, <1>2, <1>3, <1>4

LEMMA LeaveInv ==
    ASSUME ProxyInv, NEW c \in Conns, NEW end \in {"client", "target"}, Leave(c, end)
    PROVE  ProxyInv'
  <1> DEFINE o == [op[c] EXCEPT !.gone = @ \cup {end}]
  <1>1. o \in Locals /\ LocalsInv(o)
    BY LocalsOf DEF Locals, LocalsInv, Intercepted
  <1> QED BY <1>1, StepAlone DEF Leave

-----------------------------------------------------------------------------
LEMMA ProxyStep == ProxyInv /\ [Next]_vars => ProxyInv'
  <1> SUFFICES ASSUME ProxyInv, [Next]_vars PROVE ProxyInv'
    OBVIOUS
  <1>1. CASE UNCHANGED vars
    BY <1>1 DEF vars, ProxyInv, TypeOK, Keyed, LocalsInv
  <1>2. ASSUME NEW c \in Conns, Request(c) \/ Prompt(c) \/ Waiting(c) PROVE ProxyInv'
    BY <1>2, LookupInv, SendingInv, LogInv, InterceptInv, RelayInv DEF Prompt, Waiting
  <1> QED BY <1>1, <1>2, LeaveInv, RulesInv, CleanupInv DEF Next

\* What the goroutines know of their rules holds in every reachable state.
THEOREM ProxyInvariance == Spec => []ProxyInv
  BY ProxyInit, ProxyStep, PTL DEF Spec

\* Every reachable state of the proxies and their tunnels is well typed.
THEOREM TypeCorrect == Spec => []TypeOK
  BY ProxyInvariance, PTL DEF ProxyInv

\* The certificate of an intercepted tunnel names the host the client asked for.
THEOREM InterceptedCertificates == Spec => []CertificateNamesHost
  <1>1. ProxyInv => CertificateNamesHost
    BY DEF ProxyInv, LocalsInv, CertificateNamesHost
  <1> QED BY <1>1, ProxyInvariance, PTL

-----------------------------------------------------------------------------
(* The rule of a request matched since the request arrived.                *)

LEMMA BecomeAt ==
    ASSUME ProxyInv, NEW c \in Conns, NEW o, Become(c, o)
    PROVE  op'[c] = o /\ \A d \in Conns : d # c => op'[d] = op[d]
  BY DEF ProxyInv, TypeOK, Become

\* A goroutine that works with a rule has just found it, or had it before.
Kept(c) == IF op[c].pc = "lookup" THEN op'[c].rule \in Found(c)
           ELSE op'[c].rule = op[c].rule

LEMMA RuleKept ==
    ASSUME ProxyInv, NEW c \in Conns, Request(c) \/ Prompt(c) \/ Waiting(c),
           op'[c].rule # Absent
    PROVE  Kept(c)
  <1>0. op[c] \in Locals /\ LocalsInv(op[c])
    BY LocalsOf
  <1>1. ASSUME Finish(c) PROVE FALSE
    BY <1>1, BecomeAt DEF Finish, Idle
  <1>2. ASSUME NEW o, Become(c, o), o.rule = op[c].rule PROVE op[c].rule # Absent /\ Kept(c)
    <2>1. op'[c].rule = op[c].rule
      BY <1>2, BecomeAt
    <2> QED BY <1>0, <2>1 DEF Kept, LocalsInv
  <1>3. ASSUME NEW pc, Goto(c, pc) PROVE op[c].rule # Absent /\ Kept(c)
    BY <1>0, <1>2, <1>3 DEF Goto, Locals
  <1>4. CASE Request(c)
    <2>1. PICK way \in Ways, h \in Asked, health \in BOOLEAN : Receive(c, way, h, health)
      BY <1>4 DEF Request
    <2> DEFINE o == [Idle EXCEPT !.pc = "lookup", !.way = way, !.host = h, !.health = health]
    <2>2. Become(c, o) /\ o.rule = Absent
      BY <2>1 DEF Receive, Idle
    <2> HIDE DEF o
    <2> QED BY <2>2, BecomeAt
  <1>5. CASE LookupReverse(c)
    <2>1. /\ op[c].pc = "lookup" /\ op[c].way = "reverse" /\ Matched(rp, op[c].host)
          /\ Become(c, [op[c] EXCEPT !.pc = "send", !.rule = Match(rp, op[c].host)])
      BY <1>1, <1>5 DEF LookupReverse
    <2>2. op'[c] = [op[c] EXCEPT !.pc = "send", !.rule = Match(rp, op[c].host)]
      BY <2>1, BecomeAt
    <2>3. op'[c].rule = Match(rp, op[c].host)
      BY <1>0, <2>2 DEF Locals
    <2> QED BY <2>1, <2>3 DEF Kept, Found, InUse, Watching
  <1>6. CASE LookupForward(c)
    <2>1. op[c].pc = "lookup" /\ op[c].way # "reverse"
      BY <1>6 DEF LookupForward
    <2>2. CASE Matched(fp, op[c].host)
      <3>1. PICK pc : Become(c, [op[c] EXCEPT !.pc = pc, !.rule = Match(fp, op[c].host)])
        BY <1>6, <2>2 DEF LookupForward
      <3>2. op'[c] = [op[c] EXCEPT !.pc = pc, !.rule = Match(fp, op[c].host)]
        BY <3>1, BecomeAt
      <3>3. op'[c].rule = Match(fp, op[c].host)
        BY <1>0, <3>2 DEF Locals
      <3> QED BY <2>1, <2>2, <3>3 DEF Kept, Found, InUse, Watching
    <2>3. CASE ~Matched(fp, op[c].host)
      BY <1>3, <1>6, <2>3 DEF LookupForward
    <2> QED BY <2>2, <2>3
  <1>7. CASE BackendAnswers(c)
    <2>1. CASE op[c].rule = Absent
      BY <1>3, <1>7, <2>1 DEF BackendAnswers
    <2>2. CASE op[c].rule # Absent
      <3>1. PICK location : Become(c, [op[c] EXCEPT !.pc = "answer", !.sent = HostSent(op[c]),
                                                    !.location = location])
        BY <1>7, <2>2 DEF BackendAnswers
      <3> QED BY <1>0, <1>2, <3>1 DEF Locals
    <2> QED BY <2>1, <2>2
  <1>8. CASE BackendFails(c)
    BY <1>0, <1>1, <1>2, <1>8 DEF BackendFails, Locals
  <1>9. CASE GetCert(c) \/ TunnelRequest(c)
    BY <1>0, <1>2, <1>9 DEF GetCert, TunnelRequest, Locals
  <1>10. CASE BodySent(c) \/ Answered(c) \/ Handshake(c) \/ Dial(c)
    BY <1>1, <1>3, <1>10 DEF BodySent, Answered, Handshake, Dial
  <1>11. CASE \/ BadBackend(c) \/ BodyBreaks(c) \/ LogAccess(c) \/ InterceptFails(c)
              \/ TunnelEnds(c) \/ DialFails(c) \/ RelayEnds(c)
    BY <1>1, <1>11 DEF BadBackend, BodyBreaks, LogAccess, InterceptFails, TunnelEnds, DialFails,
                       RelayEnds
  <1>12. ASSUME NEW d \in Directions,
                \/ Read(c, d) \/ Written(c, d) \/ ReadEnds(c, d) \/ WriteRefused(c, d)
                \/ WriteFails(c, d) \/ CloseSource(c, d) \/ CloseTarget(c, d)
         PROVE  Kept(c)
    <2>1. op' = op
      BY <1>12 DEF Read, Written, ReadEnds, WriteRefused, WriteFails, CloseSource, CloseTarget
    <2> QED BY <1>0, <2>1 DEF Kept, LocalsInv
  <1> QED BY <1>4, <1>5, <1>6, <1>7, <1>8, <1>9, <1>10, <1>11, <1>12 DEF Prompt, Waiting

\* Whoever moves, a goroutine that goes on working with a rule keeps it.
LEMMA AnyRuleKept ==
    ASSUME ProxyInv, Next, NEW c \in Conns, op'[c].rule # Absent
    PROVE  Kept(c)
  <1>1. ASSUME op'[c].rule = op[c].rule PROVE Kept(c)
    BY <1>1, LocalsOf DEF Kept, LocalsInv
  <1>2. ASSUME NEW d \in Conns, Request(d) \/ Prompt(d) \/ Waiting(d), d # c PROVE op'[c] = op[c]
    <2>1. (\E o : Become(d, o)) \/ op' = op
      BY <1>2 DEF Request, Receive, Prompt, Waiting, LookupReverse, LookupForward, LogAccess,
             GetCert, Dial, DialFails, TunnelEnds, Read, Written, ReadEnds, WriteRefused,
             WriteFails, CloseSource, CloseTarget, RelayEnds, BadBackend, BodySent,
             BackendAnswers, BackendFails, Answered, BodyBreaks, Handshake, InterceptFails,
             TunnelRequest, Goto, Finish
    <2> QED BY <1>2, <2>1, BecomeAt
  <1>3. ASSUME NEW d \in Conns, NEW end \in {"client", "target"}, Leave(d, end) PROVE Kept(c)
    <2>1. op[d] \in Locals
      BY LocalsOf
    <2>2. op'[c].rule = op[c].rule
      BY <1>3, <2>1, BecomeAt DEF Leave, Locals
    <2> QED BY <1>1, <2>2
  <1>4. ASSUME \/ \E rule \in Rule : UpdateRule(rule)
               \/ \E h \in RuleHosts : RemoveRule(h)
               \/ Cleanup
        PROVE  op' = op
    BY <1>4 DEF UpdateRule, RemoveRule, Cleanup
  <1> QED BY <1>1, <1>2, <1>3, <1>4, RuleKept DEF Next

LEMMA SeenAt ==
    ASSUME SeenInv, NEW c \in Conns
    PROVE  /\ Watching(c) => Found(c) \subseteq seen[c]
           /\ op[c].rule # Absent => op[c].rule \in seen[c]
  BY DEF SeenInv

LEMMA SeenStep ==
    ASSUME ProxyInv, SeenInv, WatchedNext
    PROVE  SeenInv'
  <1> SUFFICES ASSUME NEW c \in Conns
               PROVE  /\ Watching(c)' => Found(c)' \subseteq seen'[c]
                      /\ op'[c].rule # Absent => op'[c].rule \in seen'[c]
    BY DEF SeenInv
  <1>1. ASSUME Watching(c)' PROVE seen'[c] = seen[c] \cup Found(c)'
    BY <1>1 DEF WatchedNext
  <1>2. ASSUME op'[c].rule # Absent PROVE op'[c].rule \in seen[c]
    <2>1. Kept(c)
      BY <1>2, AnyRuleKept DEF WatchedNext
    <2>2. CASE op[c].pc = "lookup"
      <3>1. op'[c].rule \in Found(c) /\ Watching(c)
        BY <2>1, <2>2 DEF Kept, Watching
      <3> QED BY <3>1, SeenAt
    <2>3. CASE op[c].pc # "lookup"
      <3>1. op'[c].rule = op[c].rule
        BY <2>1, <2>3 DEF Kept
      <3> QED BY <1>2, <3>1, SeenAt
    <2> QED BY <2>2, <2>3
  <1> QED BY <1>1, <1>2 DEF Watching

LEMMA WatchedInvariance == WatchedSpec => [](ProxyInv /\ SeenInv)
  <1>1. WatchedInit => ProxyInv /\ SeenInv
    <2>1. Init => \A c \in Conns : op[c].pc = "idle" /\ op[c].rule = Absent
      BY DEF Init, Idle
    <2> QED BY <2>1, ProxyInit DEF WatchedInit, SeenInv, Watching
  <1>2. ProxyInv /\ SeenInv /\ [WatchedNext]_pvars => (ProxyInv /\ SeenInv)'
    <2>1. [WatchedNext]_pvars => [Next]_vars
      BY DEF WatchedNext, pvars
    <2>2. ProxyInv /\ SeenInv /\ UNCHANGED pvars => SeenInv'
      BY DEF pvars, vars, SeenInv, Found, InUse, Watching
    <2> QED BY <2>1, <2>2, ProxyStep, SeenStep
  <1> QED BY <1>1, <1>2, PTL DEF WatchedSpec

\* A request reaches only a backend that an enabled rule gave its host at some
\* moment since it arrived, for every number of requests, tunnels and edits.
THEOREM BackendsWereRight == WatchedSpec => []BackendWasRight
  <1>1. SeenInv => BackendWasRight
    BY SeenAt DEF BackendWasRight
  <1> QED BY <1>1, WatchedInvariance, PTL

\* Only the last step of a request adds to the access log, by one entry.
LEMMA LogStep ==
    ASSUME ProxyInv, Next, Len(accessLog') > Len(accessLog)
    PROVE  \E c \in Conns : /\ op[c].pc = "log"
                            /\ accessLog' = Append(accessLog,
                                   [source |-> op[c].way, host |-> op[c].host,
                                    backend |-> op[c].rule.backend])
  <1>1. accessLog \in Seq(Log)
    BY DEF ProxyInv, TypeOK
  <1>2. accessLog' # accessLog
    BY <1>1
  <1>3. ~Cleanup
    <2>1. ASSUME NEW n \in 0..Len(accessLog)
          PROVE  Len(SubSeq(accessLog, n + 1, Len(accessLog))) <= Len(accessLog)
      BY <1>1
    <2> QED BY <1>1, <2>1 DEF Cleanup
  <1>4. \A c \in Conns, d \in Directions :
            /\ ~Read(c, d) /\ ~Written(c, d) /\ ~ReadEnds(c, d) /\ ~WriteRefused(c, d)
            /\ ~WriteFails(c, d) /\ ~CloseSource(c, d) /\ ~CloseTarget(c, d)
    BY <1>2 DEF Read, Written, ReadEnds, WriteRefused, WriteFails, CloseSource, CloseTarget
  <1>5. PICK c \in Conns : LogAccess(c)
    BY <1>2, <1>3, <1>4
       DEF Next, UpdateRule, RemoveRule, Request, Receive, Prompt, Waiting, LookupReverse,
           LookupForward, GetCert, Dial, DialFails, TunnelEnds, RelayEnds, BadBackend, BodySent,
           BackendAnswers, BackendFails, Answered, BodyBreaks, Handshake, InterceptFails,
           TunnelRequest, Leave, Unshared
  <1> QED BY <1>2, <1>5 DEF LogAccess

\* Every entry of the access log is of a host and a backend that an enabled rule
\* joined while the request was handled.
THEOREM LogsAreOfRules == WatchedSpec => OnlyRulesLogged
  <1> DEFINE entry == accessLog'[Len(accessLog')]
             OfRule == Len(accessLog') > Len(accessLog) =>
                          \E c \in Conns : /\ op[c].pc = "log" /\ op[c].host = entry.host
                                           /\ \E rule \in seen[c] : rule.backend = entry.backend
  <1>1. ProxyInv /\ SeenInv /\ [WatchedNext]_pvars => [OfRule]_pvars
    <2> SUFFICES ASSUME ProxyInv, SeenInv, WatchedNext, Len(accessLog') > Len(accessLog)
                 PROVE  \E c \in Conns : /\ op[c].pc = "log" /\ op[c].host = entry.host
                                         /\ \E rule \in seen[c] : rule.backend = entry.backend
      OBVIOUS
    <2>1. PICK c \in Conns : /\ op[c].pc = "log"
                             /\ accessLog' = Append(accessLog,
                                    [source |-> op[c].way, host |-> op[c].host,
                                     backend |-> op[c].rule.backend])
      BY LogStep DEF WatchedNext
    <2>2. entry = [source |-> op[c].way, host |-> op[c].host, backend |-> op[c].rule.backend]
      BY <2>1 DEF ProxyInv, TypeOK
    <2>3. op[c].rule \in seen[c]
      <3>1. op[c].rule # Absent
        BY <2>1, LocalsOf DEF LocalsInv
      <3> QED BY <3>1, SeenAt
    <2> QED BY <2>1, <2>2, <2>3
  <1> QED BY <1>1, WatchedInvariance, PTL DEF WatchedSpec, OnlyRulesLogged
=============================================================================
