------------------------------ MODULE MCTcpPool ------------------------------
(***************************************************************************)
(* Instances of TcpPool for TLC.                                           *)
(***************************************************************************)
EXTENDS TcpPool

\* handles/client/subscription.rs:98: a subscription can be used to receive
\* events; so those that arrive on the connection it is registered with are
\* routed to it: the connection's key is that of the subscription.
EventsAreRouted ==
  \A r \in subs : conns[r.conn] = "open" => slotOf[r.conn] = r.slot

\* runtime/event_loop.rs:690: connections to unrelated services are not
\* closed; so no subscription of another service loses its connection.
OthersKeepTheirConnection ==
  [][\A gone \in SUBSET Services : Withdraw(gone) =>
       \A r \in subs' : conns[r.conn] = "open" => conns'[r.conn] = "open"]_vars
=============================================================================
