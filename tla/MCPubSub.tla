------------------------------ MODULE MCPubSub ------------------------------
(***************************************************************************)
(* Instances of PubSub for TLC.                                            *)
(***************************************************************************)
EXTENDS PubSub, TLC

CONSTANTS a, g1

\* Every call may ask for any eventgroups; or one asks for all of them and
\* the others for all or for a given one.
AskAny  == [s \in Calls |-> SUBSET Groups]
AskMost == [s \in Calls |-> {Groups} \cup (IF s = a THEN {} ELSE {{g1}})]

Symmetry == Permutations(Calls) \cup Permutations(Groups)

\* Nothing is on its way.
Settled == toServer = <<>> /\ toClient = <<>> /\ offers = <<>> /\ commands = {}

\* runtime/client.rs:437: sockets are chosen to isolate the eventgroups, for
\* correct event routing; so once everything has arrived, the events of a
\* group go to no port where a subscription without that group listens.
EventIsolation ==
  Settled /\ offered => \A e \in subscribers, r \in subs :
                          e.port = r.port => e.eg \in chosen[r.id]

\* DESIGN.md:53: no events without active subscriptions; so when a service is
\* offered again and everything sent before has arrived, each subscriber that
\* gets its events has a subscription.
NoUnsolicitedEvents ==
  [][~offered /\ offered' /\ Settled =>
       \A e \in subscribers' : \E r \in subs : r.eg = e.eg /\ r.port = e.port]_vars
=============================================================================
