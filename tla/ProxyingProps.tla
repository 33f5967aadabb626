--------------------------- MODULE ProxyingProps ----------------------------
(***************************************************************************)
(* What the proxies promise to clients while rules are edited.             *)
(***************************************************************************)
EXTENDS Proxying

Sending == {"send", "backend", "answer"}

Locals == [pc : Sending \cup {"idle", "lookup", "log", "intercept", "handshake", "tunnel",
                              "dial", "relay"},
           way : Ways, host : Names, health : BOOLEAN, rule : Rule \cup {Absent},
           cert : Names, sent : Names, location : Names \cup Backends \cup {Absent},
           gone : SUBSET {"client", "target"}]

Relay == [open : SUBSET {"client", "target"},
          run : [Directions -> {"copy", "write", "closeSource", "closeTarget", "done"}]]

\* Type correctness of the tables, the log and the goroutines.
TypeOK == /\ rp \in Table(Rule) /\ fp \in Table(Rule)
          /\ accessLog \in Seq(Log)
          /\ op \in [Conns -> Locals]
          /\ relay \in [Conns -> Relay]

\* The names a certificate made for name has.
Covers(name, h) == \/ h = name
                   \/ IsWildcard(name) /\ WildcardBase(name) \in {h, WildcardDomain(h)}

\* A client in a tunnel has been shown a certificate, or is about to be.
Intercepted(o) == \/ o.pc \in {"handshake", "tunnel"}
                  \/ o.pc \in Sending /\ o.way = "connect"

\* The certificate a client is shown in an intercepted tunnel names the host it
\* asked for, however the rules have changed since: handleConnectWithIntercept
\* asks for one of the rule's host name, which may be a wildcard.
CertificateNamesHost ==
    \A c \in Conns : Intercepted(op[c]) => Covers(op[c].cert, op[c].host)

\* Rules are found under their own host names, wildcards under the base.
Keyed(t) == \A n \in Names :
    /\ t.exact[n] # Absent => t.exact[n].hostname = n
    /\ t.wild[n] # Absent => /\ IsWildcard(t.wild[n].hostname)
                             /\ WildcardBase(t.wild[n].hostname) = n

\* What a goroutine knows of the rule and the certificate it works with.
LocalsInv(o) ==
    /\ o.pc \in {"idle", "lookup", "dial", "relay"} => o.rule = Absent
    /\ o.pc = "log" => o.way # "connect" /\ o.rule # Absent
    /\ o.pc = "intercept" \/ Intercepted(o) => o.way = "connect" /\ o.rule # Absent
    /\ o.pc = "intercept" => Covers(o.rule.hostname, o.host)
    /\ Intercepted(o) => Covers(o.cert, o.host)

\* The inductive invariant behind CertificateNamesHost: LookupForward finds only
\* rules that cover the host, and what it found stays with the goroutine.
ProxyInv == /\ TypeOK
            /\ Keyed(rp) /\ Keyed(fp)
            /\ \A c \in Conns : LocalsInv(op[c])

\* Liveness: when an end has closed, everything done for the connection ends: the
\* backend request, the handshake, the tunnel, both copying goroutines.  The exception
\* is a Write that never returns, since no Write has a deadline: of the request to a
\* backend that takes no more, of the answer to a client that takes none, or of one
\* direction of a tunnel to an end that stays and does not read.
HandlersEnd ==
    \A c \in Conns : \/ op[c].gone # {} ~> op[c].pc = "idle"
                     \/ <>[](op[c].pc \in {"send", "answer"})
                     \/ \E d \in Directions : <>[](relay[c].run[d] = "write")

-----------------------------------------------------------------------------
(* A statement of the documents that the code does not keep.               *)

\* Whatever way a request takes to a backend, it carries the host the client asked
\* for, and the answer names that host in place of the backend's.
HeadersAlike ==
    \A c \in Conns : op[c].sent # NoHost =>
        op[c].sent = op[c].host /\ op[c].location \in {Absent, op[c].host}
=============================================================================
