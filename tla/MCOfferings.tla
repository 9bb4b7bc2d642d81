---------------------------- MODULE MCOfferings ----------------------------
(***************************************************************************)
(* An instance of Offerings for TLC: two instances of one service and one  *)
(* of another, two or three ports, calls of which two offer the same one.   *)
(***************************************************************************)
EXTENDS Offerings, TLC

CONSTANTS a, b, c, d, s, r, i, j

MCKey == [x \in Calls |-> CASE x = c -> <<r, i>>
                             [] x = d -> <<s, j>>
                             [] OTHER -> <<s, i>>]

UdpTcp(u, t) == "udp" :> u @@ "tcp" :> t

MCConfig == [x \in Calls |-> CASE x = a -> UdpTcp({0}, {})
                                [] x = b -> UdpTcp({2}, {0})
                                [] x = c -> UdpTcp({0}, {2})]

\* Another process has TCP port 1.
MCOthers == UdpTcp({}, {1})

\* All calls let the runtime choose a UDP port.
AutoConfig == [x \in Calls |-> UdpTcp({0}, {})]

\* runtime/server.rs:103: each instance of the same service id must use a
\* different port, the only thing a request tells them apart by.
OneInstancePerPort ==
  \A k, l \in Offered, t \in Transports :
    k # l /\ Service(k) = Service(l) => offered[k][t] \cap offered[l][t] = {}

\* handles/runtime.rs:672: start() is refused when the service is already
\* offered; so each call that succeeded has its service until it drops it.
LiveIsOffered ==
  \A x \in Calls : phase = "up" /\ handle[x] = "live" => owner[key[x]] = {x}
=============================================================================
