---------------------------- MODULE MCLifecycle -----------------------------
(* A small instance of LifecycleProps: a port, the listen addresses and the  *)
(* fallback servers, five sockets, one goroutine for HTTPS and the edits and *)
(* one for the others.                                                       *)
EXTENDS LifecycleProps, AccessLog, TLC

CONSTANTS default, zero, h1, udp, http, https, proxy, admin

MCKeys      == {"http_port", "listen_addresses", "upstream_dns_fallback"}
MCDefault   == [k \in MCKeys |-> default]
MCServers   == {udp, http, https, proxy, admin}
MCServersOf == [dns |-> <<udp>>, reverse |-> <<http, https>>,
                forward |-> <<proxy>>, api |-> <<admin>>]
MCAsked     == [h \in Handlers |-> IF h = h1 THEN {https, admin} ELSE {udp, proxy}]
MCChecks    == <<http, admin>>
MCGiven     == {<<>>, [http_port |-> default], [http_port |-> zero],
                [listen_addresses |-> default]}
\* The clean-up, over some days of moments.
ASSUME CleanupChecked ==
    \A now \in 0..12, retention \in 0..4 : \A stamp \in 0..now : CleanupKeeps(stamp, now, retention)

MCBodies    == {[http_port |-> default]}
=============================================================================
