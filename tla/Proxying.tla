------------------------------ MODULE Proxying ------------------------------
(***************************************************************************)
(* Requests on their way through the two proxies (app/proxy) while the     *)
(* rules change.  Every client connection has a goroutine, which looks its *)
(* host up in the table of its proxy once, under the read lock, and then   *)
(* works with the rule it found: for one request, or, when it intercepts a *)
(* CONNECT, for every request that comes through the tunnel.               *)
(***************************************************************************)
EXTENDS RoutingTable

CONSTANTS Conns,      \* client connections, each with a request or a tunnel at a time
          Asked,      \* host names requests are for
          RuleHosts,  \* host names of proxy rules
          Backends,   \* backend protocol, address and port of a rule
          MaxLog,     \* bound: entries of access_logs
          DbFails     \* whether the INSERT of an access log entry may fail

ASSUME ProxyingAssumption ==
    /\ Asked \subseteq Names /\ RuleHosts \subseteq Names
    /\ MaxLog \in Nat
    /\ DbFails \in BOOLEAN

VARIABLES rp,         \* ReverseProxy.rules and wildcardRules
          fp,         \* ForwardProxy.rules and wildcardRules
          accessLog,  \* the access_logs table, oldest first
          op,         \* the locals of each connection's goroutine
          relay       \* the two copying goroutines of each plain tunnel

vars == <<rp, fp, accessLog, op, relay>>

Rule == [hostname : RuleHosts, backend : Backends, enabled : BOOLEAN]

ASSUME NoRuleAssumption == Absent \notin Rule /\ Absent \notin Backends /\ Absent \notin Names

\* A request comes to the HTTP(S) ports, or to the proxy port, perhaps as CONNECT.
Ways == {"reverse", "forward", "connect"}

Idle == [pc |-> "idle", way |-> "reverse", host |-> NoHost, health |-> FALSE,
         rule |-> Absent,     \* the rule found; a request without one goes outside
         cert |-> NoHost,     \* the name a certificate was asked for
         sent |-> NoHost,     \* the Host header the backend got
         location |-> Absent, \* the host in the Location header the client got
         gone |-> {}]         \* the ends that have closed or stopped sending

Log == [source : {"reverse", "forward"}, host : Names, backend : Backends]

\* The two transfer goroutines of a tunnel: each copies, that is waits for something
\* to read, or writes it, and closes its source and its target when that is over.
Directions == {"up", "down"}
Source(d) == IF d = "up" THEN "client" ELSE "target"
Target(d) == IF d = "up" THEN "target" ELSE "client"
NoRelay == [open |-> {}, run |-> [d \in Directions |-> "done"]]
NewRelay == [open |-> {"client", "target"}, run |-> [d \in Directions |-> "copy"]]

Become(c, locals) == op' = [op EXCEPT ![c] = locals]
Goto(c, pc) == Become(c, [op[c] EXCEPT !.pc = pc])
Finish(c) == Become(c, Idle)
Unshared == UNCHANGED <<rp, fp, accessLog, relay>>

\* The tables at the start: the reverse proxy loads the disabled rules, too.
Init == /\ \E f \in [RuleHosts -> Backends \X BOOLEAN \cup {Absent}] :
               LET load(all) ==
                       TableOf([h \in Names |->
                           IF h \notin RuleHosts \/ f[h] = Absent THEN Absent
                           ELSE IF all \/ f[h][2]
                           THEN [hostname |-> h, backend |-> f[h][1], enabled |-> f[h][2]]
                           ELSE Absent])
               IN  rp = load(TRUE) /\ fp = load(FALSE)
        /\ accessLog = << >>
        /\ op = [c \in Conns |-> Idle]
        /\ relay = [c \in Conns |-> NoRelay]

-----------------------------------------------------------------------------
(* The rules, as the REST handlers change them: UpdateRule and RemoveRule. *)
\* Deviation: a wildcard rule goes among the exact names, under its base.
UpdatedExact(t, rule) ==
    [t EXCEPT !.exact[WildcardBase(rule.hostname)] = IF rule.enabled THEN rule ELSE Absent]

Updated(t, rule) == IF rule.enabled THEN Put(t, rule.hostname, rule)
                    ELSE Drop(t, rule.hostname)

UpdateRule(rule) ==
    /\ \/ rp' = Updated(rp, rule) /\ fp' = fp
       \/ fp' = Updated(fp, rule) /\ rp' = rp
    /\ UNCHANGED <<accessLog, op, relay>>

RemoveRule(h) ==
    /\ \/ rp' = Drop(rp, h) /\ fp' = fp
       \/ fp' = Drop(fp, h) /\ rp' = rp
    /\ UNCHANGED <<accessLog, op, relay>>

-----------------------------------------------------------------------------
(* Receiving a request and finding its rule.                               *)
Receive(c, way, h, health) ==
    /\ op[c].pc = "idle" /\ Len(accessLog) < MaxLog
    /\ health => way = "reverse"
    /\ Become(c, [Idle EXCEPT !.pc = "lookup", !.way = way, !.host = h, !.health = health])
    /\ Unshared

Matched(t, h) == Match(t, h) # Absent /\ Match(t, h).enabled

\* Deviation: the proxy does not look whether the rule is enabled.
LookupReverseAny(c) ==
    /\ op[c].pc = "lookup" /\ op[c].way = "reverse"
    /\ IF op[c].health \/ Match(rp, op[c].host) = Absent THEN Finish(c)
       ELSE Become(c, [op[c] EXCEPT !.pc = "send", !.rule = Match(rp, op[c].host)])
    /\ Unshared

\* /health is answered for every host; a host without a rule gets a 502.
LookupReverse(c) ==
    /\ op[c].pc = "lookup" /\ op[c].way = "reverse"
    /\ IF op[c].health \/ ~Matched(rp, op[c].host) THEN Finish(c)
       ELSE Become(c, [op[c] EXCEPT !.pc = "send", !.rule = Match(rp, op[c].host)])
    /\ Unshared

\* A host without a rule is forwarded outside, or a tunnel to it is opened.
LookupForward(c) ==
    /\ op[c].pc = "lookup" /\ op[c].way # "reverse"
    /\ IF Matched(fp, op[c].host)
       THEN Become(c, [op[c] EXCEPT !.pc = IF op[c].way = "connect" THEN "intercept" ELSE "send",
                                    !.rule = Match(fp, op[c].host)])
       ELSE Goto(c, IF op[c].way = "connect" THEN "dial" ELSE "send")
    /\ Unshared

-----------------------------------------------------------------------------
(* A request to the backend of a rule, of a tunnel or not, or outside.  It *)
(* is sent while its body is read from the client; then the backend is     *)
(* waited for, which may answer before it has the whole body; the answer   *)
(* is passed on as it comes.  Nothing of this has a deadline.              *)

\* The Host header a backend gets, and the hosts its answer may name in a Location
\* header (or a cookie domain): but for a tunnel's, they are rewritten.
HostSent(o) == IF o.way = "connect" THEN o.rule.hostname ELSE o.host
LocationSent(o) == IF o.way = "connect" THEN o.rule.backend ELSE o.host

\* The URL of the backend cannot be parsed: a 500, and nothing is logged.
BadBackend(c) ==
    /\ op[c].pc = "send" /\ op[c].rule # Absent /\ op[c].way # "connect"
    /\ Finish(c)
    /\ Unshared

BodySent(c) == op[c].pc = "send" /\ Goto(c, "backend") /\ Unshared

BackendAnswers(c) ==
    /\ op[c].pc \in {"send", "backend"}
    /\ IF op[c].rule = Absent THEN Goto(c, "answer")
       ELSE \E location \in {Absent, LocationSent(op[c])} :
                Become(c, [op[c] EXCEPT !.pc = "answer", !.sent = HostSent(op[c]),
                                        !.location = location])
    /\ Unshared

\* What follows a request: the log, the tunnel it came through, or nothing.
Following(o) == IF o.way = "connect" THEN "tunnel" ELSE "log"

\* There is no answer, or a protocol switch: the client gets a 502.
BackendFails(c) ==
    /\ op[c].pc \in {"send", "backend"}
    /\ IF op[c].rule = Absent THEN Finish(c)
       ELSE Become(c, [op[c] EXCEPT !.pc = Following(op[c]), !.sent = HostSent(op[c])])
    /\ Unshared

\* Deviation: the requests of a tunnel are logged, too.
AnsweredAndLogged(c) ==
    /\ op[c].pc = "answer"
    /\ IF op[c].rule = Absent THEN Finish(c) ELSE Goto(c, "log")
    /\ Unshared

\* The answer has been written to the client.
Answered(c) ==
    /\ op[c].pc = "answer"
    /\ IF op[c].rule = Absent THEN Finish(c) ELSE Goto(c, Following(op[c]))
    /\ Unshared

\* The answer breaks off, at either end: the ReverseProxy of net/http panics, which
\* ends the goroutine before it logs the request, and the tunnel with it.  A tunnel
\* whose request switches protocols ends so, too.
BodyBreaks(c) == op[c].pc = "answer" /\ Finish(c) /\ Unshared

\* Deviation: a request is logged under the host name of its rule.
LogAccessOfRule(c) ==
    /\ op[c].pc = "log"
    /\ accessLog' = Append(accessLog, [source |-> op[c].way, host |-> op[c].rule.hostname,
                                       backend |-> op[c].rule.backend])
    /\ Finish(c)
    /\ UNCHANGED <<rp, fp, relay>>

LogAccess(c) ==
    /\ op[c].pc = "log"
    /\ \/ accessLog' = Append(accessLog, [source |-> op[c].way, host |-> op[c].host,
                                          backend |-> op[c].rule.backend])
       \/ DbFails /\ UNCHANGED accessLog
    /\ Finish(c)
    /\ UNCHANGED <<rp, fp, relay>>

\* AccessLogger.Cleanup: the entries before the cutoff, an oldest part, go.
Cleanup ==
    /\ \E n \in 0..Len(accessLog) : accessLog' = SubSeq(accessLog, n + 1, Len(accessLog))
    /\ UNCHANGED <<rp, fp, op, relay>>

-----------------------------------------------------------------------------
(* handleConnectWithIntercept: the client is answered and shown a          *)
(* certificate; its requests then all go to the rule's backend, under the  *)
(* rule's host name, with the answers left as they are and without a log.  *)
\* Deviation: the certificate is asked for without the "*.".
GetCertOfBase(c) ==
    /\ op[c].pc = "intercept"
    /\ Become(c, [op[c] EXCEPT !.pc = "handshake", !.cert = Tail(op[c].rule.hostname)])
    /\ Unshared

GetCert(c) ==
    /\ op[c].pc = "intercept"
    /\ Become(c, [op[c] EXCEPT !.pc = "handshake", !.cert = op[c].rule.hostname])
    /\ Unshared

Handshake(c) == op[c].pc = "handshake" /\ Goto(c, "tunnel") /\ Unshared

\* The connection cannot be taken over, there is no certificate, no handshake, or
\* the URL of the backend cannot be parsed.
InterceptFails(c) == op[c].pc \in {"intercept", "handshake"} /\ Finish(c) /\ Unshared

\* What the client sent before it left may still hold a request.
TunnelRequest(c) ==
    /\ op[c].pc = "tunnel"
    /\ Become(c, [op[c] EXCEPT !.pc = "send", !.sent = NoHost, !.location = Absent])
    /\ Unshared

TunnelEnds(c) == op[c].pc = "tunnel" /\ "client" \in op[c].gone /\ Finish(c) /\ Unshared

-----------------------------------------------------------------------------
(* handleConnect without a rule: dial the target, then copy both ways.     *)
DialFails(c) == op[c].pc = "dial" /\ Finish(c) /\ Unshared

Dial(c) ==
    /\ op[c].pc = "dial"
    /\ Goto(c, "relay")
    /\ relay' = [relay EXCEPT ![c] = NewRelay]
    /\ UNCHANGED <<rp, fp, accessLog>>

\* The source sent something, perhaps before it went.
Read(c, d) ==
    /\ relay[c].run[d] = "copy" /\ Source(d) \in relay[c].open
    /\ relay' = [relay EXCEPT ![c].run[d] = "write"]
    /\ UNCHANGED <<rp, fp, accessLog, op>>

\* The target takes it; one that does not read leaves the goroutine in the Write,
\* where it does not notice that its source has gone.
Written(c, d) ==
    /\ relay[c].run[d] = "write" /\ Target(d) \in relay[c].open
    /\ relay' = [relay EXCEPT ![c].run[d] = "copy"]
    /\ UNCHANGED <<rp, fp, accessLog, op>>

\* io.Copy returns: the source has no more, or was closed by the other goroutine.
ReadEnds(c, d) ==
    /\ relay[c].run[d] = "copy"
    /\ Source(d) \in op[c].gone \/ Source(d) \notin relay[c].open
    /\ relay' = [relay EXCEPT ![c].run[d] = "closeSource"]
    /\ UNCHANGED <<rp, fp, accessLog, op>>

\* io.Copy returns because it cannot write: the other goroutine has closed the target.
WriteRefused(c, d) ==
    /\ relay[c].run[d] = "write" /\ Target(d) \notin relay[c].open
    /\ relay' = [relay EXCEPT ![c].run[d] = "closeSource"]
    /\ UNCHANGED <<rp, fp, accessLog, op>>

\* The same, because the target has gone and its connection is reset.
WriteFails(c, d) ==
    /\ relay[c].run[d] = "write" /\ Target(d) \in op[c].gone \cap relay[c].open
    /\ relay' = [relay EXCEPT ![c].run[d] = "closeSource"]
    /\ UNCHANGED <<rp, fp, accessLog, op>>

\* Deviation: the source is all that is closed.
CloseSourceOnly(c, d) ==
    /\ relay[c].run[d] = "closeSource"
    /\ relay' = [relay EXCEPT ![c].run[d] = "done", ![c].open = @ \ {Source(d)}]
    /\ UNCHANGED <<rp, fp, accessLog, op>>

\* The deferred calls run last in, first out.
CloseSource(c, d) ==
    /\ relay[c].run[d] = "closeSource"
    /\ relay' = [relay EXCEPT ![c].run[d] = "closeTarget", ![c].open = @ \ {Source(d)}]
    /\ UNCHANGED <<rp, fp, accessLog, op>>

CloseTarget(c, d) ==
    /\ relay[c].run[d] = "closeTarget"
    /\ relay' = [relay EXCEPT ![c].run[d] = "done", ![c].open = @ \ {Target(d)}]
    /\ UNCHANGED <<rp, fp, accessLog, op>>

RelayEnds(c) ==
    /\ op[c].pc = "relay" /\ \A d \in Directions : relay[c].run[d] = "done"
    /\ Finish(c)
    /\ Unshared

\* The client leaves, whatever is being done for it, or the target of a tunnel does.
Leave(c, end) ==
    /\ op[c].pc # "idle" /\ end \notin op[c].gone
    /\ end = "target" => op[c].pc = "relay"
    /\ Become(c, [op[c] EXCEPT !.gone = @ \cup {end}])
    /\ Unshared

-----------------------------------------------------------------------------
Request(c) == \E way \in Ways, h \in Asked, health \in BOOLEAN : Receive(c, way, h, health)

Prompt(c) == \/ LookupReverse(c) \/ LookupForward(c) \/ LogAccess(c)
             \/ GetCert(c) \/ Dial(c) \/ DialFails(c) \/ TunnelEnds(c)
             \/ \E d \in Directions : \/ ReadEnds(c, d) \/ WriteRefused(c, d)
                                      \/ CloseSource(c, d) \/ CloseTarget(c, d)
             \/ RelayEnds(c)

\* What waits for the client, the backend or the target, without any deadline.
Waiting(c) == \/ BadBackend(c) \/ BodySent(c) \/ BackendAnswers(c) \/ BackendFails(c)
              \/ Answered(c) \/ BodyBreaks(c)
              \/ Handshake(c) \/ InterceptFails(c) \/ TunnelRequest(c)
              \/ \E d \in Directions : Read(c, d) \/ Written(c, d) \/ WriteFails(c, d)

Next == \/ \E c \in Conns : \/ Request(c) \/ Prompt(c) \/ Waiting(c)
                            \/ \E end \in {"client", "target"} : Leave(c, end)
        \/ \E rule \in Rule : UpdateRule(rule)
        \/ \E h \in RuleHosts : RemoveRule(h)
        \/ Cleanup

Spec == Init /\ [][Next]_vars

\* When the client leaves, a handshake breaks off, and a request whose body has
\* been read is cancelled: only then does net/http watch the connection.
GiveUp(c) == /\ "client" \in op[c].gone
             /\ (op[c].pc = "backend" /\ BackendFails(c)) \/ InterceptFails(c)

\* The program's own steps are fair.  What an end sent before it left is finite: a
\* goroutine that comes back to read again and again finds the end some time.
Fairness(c) == /\ WF_vars(Prompt(c)) /\ WF_vars(GiveUp(c)) /\ SF_vars(TunnelEnds(c))
               /\ \A d \in Directions : SF_vars(ReadEnds(c, d))
FairSpec == Spec /\ \A c \in Conns : Fairness(c)
=============================================================================
