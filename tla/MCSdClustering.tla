--------------------------- MODULE MCSdClustering ---------------------------
(***************************************************************************)
(* An instance of SdClustering for TLC: two services with both transports  *)
(* and one with UDP only, and indices that run out at the fifth option.    *)
(***************************************************************************)
EXTENDS SdClustering, TLC

CONSTANTS s, u, v

UdpTcp(x, y) == "udp" :> x @@ "tcp" :> y

MCEndpoints == s :> UdpTcp(1, 2) @@ u :> UdpTcp(3, 0) @@ v :> UdpTcp(4, 5)
MCLocals == {[port |-> 6, protocol |-> "udp"], [port |-> 7, protocol |-> "tcp"]}

\* runtime/event_loop.rs:1152: when messages are merged, option indices are
\* recalculated to point to the correct positions in the merged option array.
IndicesAreCorrect ==
  \A i \in DOMAIN read : read[i].understood = read[i].meant
=============================================================================
