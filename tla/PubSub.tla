------------------------------- MODULE PubSub -------------------------------
(***************************************************************************)
(* Subscriptions to the eventgroups of one UDP service: the client runtime *)
(* that subscribes, the server runtime that offers, and the SD messages    *)
(* between them.                                                           *)
(*                                                                         *)
(* A message holds a set of entries that are built in one turn and so      *)
(* always travel in one datagram.  A unicast queue stands for the batch    *)
(* that waits in pending_unicast_sd and for the network behind it, which   *)
(* keeps the order but may lose messages; offers travel by multicast, so   *)
(* they and the unicast messages overtake one another.  Time is abstracted *)
(* away: a TTL that is not infinite may run out at any moment.             *)
(***************************************************************************)
EXTENDS Naturals, Sequences, FiniteSets

CONSTANTS
  Calls,       \* the calls of subscribe(); also their subscription ids
  Groups,      \* the eventgroups of the service
  asks,        \* asks[s]: the sets of eventgroups call s may ask for
  Rpc,         \* the port that RPC and the first subscription share
  InfiniteTtl, \* is subscribe_ttl = 16#FFFFFF?
  Faults,      \* what may go wrong, see Fault
  MaxLoss,     \* bound: how many messages the network loses
  MaxFlight    \* bound: messages in one queue

Fault == {"stop_offer", "expiry", "restart", "cancel"}

ASSUME GroupsAssumption == IsFiniteSet(Groups)
ASSUME AsksAssumption  == asks \in [Calls -> SUBSET SUBSET Groups]
ASSUME RpcAssumption   == Rpc \notin Calls
ASSUME TtlAssumption   == InfiniteTtl \in BOOLEAN
ASSUME FaultAssumption == Faults \subseteq Fault
ASSUME BoundAssumption == MaxLoss \in Nat /\ MaxFlight \in Nat \ {0}

\* A dedicated socket gets an ephemeral port that no other socket has; it is
\* identified with the call it is bound for.
Port  == Calls \cup {Rpc}
Entry == [eg: Groups, port: Port]

ToServer == [kind: {"subscribe", "stop_subscribe"}, entries: SUBSET Entry]
ToClient == [kind: {"ack", "nack"}, egs: SUBSET Groups]

\* ClientSubscription.  It has a dedicated socket unless its port is Rpc.
ClientSubscription == [id: Calls, eg: Groups, port: Port]

VARIABLES
  \* The client: RuntimeState restricted to the service, and the callers.
  found,       \* has an offer been seen? the callers have a proxy only then
  discovered,  \* is the service in discovered?
  subs,        \* subscriptions
  pending,     \* the keys (eventgroups) of pending_subscriptions
  waiters,     \* waiters[g]: its list, {} if the key is absent
  multi,       \* the keys (calls) of multi_eventgroup_subscriptions
  acked,       \* acked[s]: acked_eventgroups of its record
  usage,       \* the ports the service has in subscription_endpoint_usage
  chosen,      \* chosen[s]: the eventgroup_ids of call s
  outcome,     \* outcome[s]: where call s stands
  commands,    \* Unsubscribe commands on their way to the event loop
  \* The server.
  offered,     \* is the service in offered?
  subscribers, \* server_subscribers: the client's entries
  \* The network.
  toServer, toClient, \* unicast queues
  offers,             \* multicast queue: TRUE an offer, FALSE a StopOffer
  reborn,             \* has the server restarted, unnoticed by the client?
  losses              \* messages lost so far

client == <<found, discovered, subs, pending, waiters, multi, acked, usage>>
server == <<offered, subscribers>>
vars   == <<client, chosen, outcome, commands, server,
            toServer, toClient, offers, reborn, losses>>

Init ==
  /\ found = FALSE /\ discovered = FALSE /\ subs = {}
  /\ pending = {} /\ waiters = [g \in Groups |-> {}]
  /\ multi = {} /\ acked = [s \in Calls |-> {}]
  /\ usage = {}
  /\ chosen  = [s \in Calls |-> {}]
  /\ outcome = [s \in Calls |-> "idle"]
  /\ commands = {}
  /\ offered = FALSE /\ subscribers = {}
  /\ toServer = <<>> /\ toClient = <<>> /\ offers = <<>>
  /\ reborn = FALSE /\ losses = 0

\* queue_unicast_sd, if there is anything to send.
Send(kind, entries) ==
  IF entries = {} THEN UNCHANGED toServer
  ELSE /\ Len(toServer) < MaxFlight
       /\ toServer' = Append(toServer, [kind |-> kind, entries |-> entries])

-----------------------------------------------------------------------------
(* The client's commands.                                                  *)

\* handle_subscribe_udp, with local_port Any: the first subscription, and any
\* other that finds it unused by the service, takes the RPC port; the rest
\* get a dedicated socket each.
SubscriptionPort(s) == IF subs # {} /\ Rpc \in usage THEN s ELSE Rpc

\* record_subscription_state, then one Subscribe for those eventgroups that
\* no other call is waiting for already.
Subscribe(s, G) ==
  LET port  == SubscriptionPort(s)
      first == {g \in G : waiters[g] = {}}
  IN  /\ found /\ outcome[s] = "idle" /\ G \in asks[s] \ {{}}
      /\ outcome' = [outcome EXCEPT ![s] = "waiting"]
      /\ chosen'  = [chosen EXCEPT ![s] = G]
      /\ usage'   = usage \cup {port}
      /\ subs'    = subs \cup {[id |-> s, eg |-> g, port |-> port] : g \in G}
      /\ multi'   = IF Cardinality(G) > 1 THEN multi \cup {s} ELSE multi
      /\ pending' = pending \cup G
      /\ waiters' = [g \in Groups |-> IF g \in G THEN waiters[g] \cup {s}
                                                 ELSE waiters[g]]
      /\ Send("subscribe", [eg: first, port: {port}])
      /\ UNCHANGED <<found, discovered, acked, commands, server, toClient, offers,
                     reborn, losses>>

\* The dedicated socket cannot be bound.
SubscribeFails(s) ==
  /\ found /\ outcome[s] = "idle"
  /\ SubscriptionPort(s) # Rpc
  /\ outcome' = [outcome EXCEPT ![s] = "err"]
  /\ UNCHANGED <<client, chosen, commands, server, toServer, toClient, offers,
                 reborn, losses>>

\* The caller drops the future of subscribe(): only the answer is lost.
Cancel(s) ==
  /\ "cancel" \in Faults
  /\ outcome[s] = "waiting"
  /\ outcome' = [outcome EXCEPT ![s] = "cancelled"]
  /\ UNCHANGED <<client, chosen, commands, server, toServer, toClient, offers,
                 reborn, losses>>

\* Drop for Subscription: one Unsubscribe command per eventgroup.
Drop(s) ==
  /\ outcome[s] = "ok"
  /\ outcome'  = [outcome EXCEPT ![s] = "dropped"]
  /\ commands' = commands \cup [id: {s}, eg: chosen[s]]
  /\ UNCHANGED <<client, chosen, server, toServer, toClient, offers,
                 reborn, losses>>

\* unregister_subscription_endpoint: a port goes free with the last
\* subscription that uses it.
FreedWithAny(gone, left) == {r.port : r \in gone}
Freed(gone, left) == {r.port : r \in gone} \ {r.port : r \in left}

\* handle_unsubscribe: the server is told only when the last subscription to
\* the eventgroup goes.
Unsubscribe(c) ==
  LET gone == {r \in subs : r.id = c.id /\ r.eg = c.eg}
      left == subs \ gone
      last == discovered /\ \A r \in left : r.eg # c.eg
  IN  /\ commands' = commands \ {c}
      /\ subs'  = left
      /\ usage' = usage \ Freed(gone, left)
      /\ Send("stop_subscribe",
              IF last THEN {[eg |-> r.eg, port |-> r.port] : r \in gone} ELSE {})
      /\ UNCHANGED <<found, discovered, pending, waiters, multi, acked, chosen, outcome,
                     server, toClient, offers, reborn, losses>>

-----------------------------------------------------------------------------
(* The client's SD handlers.  When a message betrays that the server has   *)
(* restarted, handle_peer_reboot comes first: the service and its          *)
(* subscriptions are forgotten unless one of them has a pending key.       *)

Forget == reborn /\ discovered /\ \A r \in subs : r.eg \notin pending
SubsKept == IF Forget THEN {} ELSE subs

\* What an offer renews: what is not pending, unless it never expires.
RenewedOnRpc == {r \in SubsKept : ~InfiniteTtl /\ r.port = Rpc /\ r.eg \notin pending}
Renewed == {r \in SubsKept : ~InfiniteTtl /\ r.eg \notin pending}

\* handle_offer.
ReceiveOffer ==
  /\ offers # <<>> /\ Head(offers)
  /\ offers' = Tail(offers)
  /\ reborn' = FALSE
  /\ found' = TRUE /\ discovered' = TRUE
  /\ subs' = SubsKept
  /\ Send("subscribe", {[eg |-> r.eg, port |-> r.port] : r \in Renewed})
  /\ UNCHANGED <<pending, waiters, multi, acked, usage, chosen, outcome,
                 commands, server, toClient, losses>>

\* handle_stop_offer: the subscriptions go with a service that was known.
ReceiveStopOffer ==
  /\ offers # <<>> /\ ~Head(offers)
  /\ offers' = Tail(offers)
  /\ reborn' = FALSE
  /\ discovered' = FALSE
  /\ subs' = IF discovered THEN {} ELSE subs
  /\ UNCHANGED <<found, pending, waiters, multi, acked, usage, chosen, outcome,
                 commands, server, toServer, toClient, losses>>

\* The lists after an answer for the eventgroups egs: theirs are removed, and
\* the calls in gone leave the others.
ListsKept(egs, gone)   == [g \in Groups |-> waiters[g] \ gone]
OthersKept(egs, gone)  == [g \in Groups |-> IF g \in egs THEN {} ELSE waiters[g]]
ListsAfter(egs, gone)  == [g \in Groups |-> IF g \in egs THEN {} ELSE waiters[g] \ gone]

\* Is call s complete, when the eventgroups in acks are acknowledged?
OneAcked(s, acks) == TRUE
AllAcked(s, acks) == s \in multi => chosen[s] \subseteq acks

\* handle_subscribe_ack, for each eventgroup of the message.
ReceiveAck ==
  LET egs      == Head(toClient).egs
      hit      == UNION {waiters[g] : g \in egs}
      acks(s)  == acked[s] \cup {g \in egs : s \in waiters[g]}
      done     == {s \in hit : AllAcked(s, acks(s))}
  IN  /\ toClient # <<>> /\ Head(toClient).kind = "ack"
      /\ toClient' = Tail(toClient)
      /\ reborn' = FALSE
      /\ discovered' = (discovered /\ ~Forget)
      /\ subs' = SubsKept
      /\ pending' = pending \ egs
      /\ waiters' = ListsAfter(egs, {})
      /\ multi'   = multi \ done
      /\ acked'   = [s \in Calls |->
           IF s \in done \/ s \notin multi THEN {} ELSE acks(s)]
      /\ outcome' = [s \in Calls |->
           IF s \in done /\ outcome[s] = "waiting" THEN "ok" ELSE outcome[s]]
      /\ UNCHANGED <<found, usage, chosen, commands, server, toServer, offers, losses>>

\* handle_subscribe_nack, for each eventgroup of the message: a call for
\* several eventgroups leaves the other lists, whose keys stay.
ReceiveNack ==
  LET egs == Head(toClient).egs
      hit == UNION {waiters[g] : g \in egs}
  IN  /\ toClient # <<>> /\ Head(toClient).kind = "nack"
      /\ toClient' = Tail(toClient)
      /\ reborn' = FALSE
      /\ discovered' = (discovered /\ ~Forget)
      /\ subs' = {r \in SubsKept : r.eg \notin egs /\ r.id \notin hit \cap multi}
      /\ pending' = pending \ egs
      /\ waiters' = ListsAfter(egs, hit \cap multi)
      /\ multi'   = multi \ hit
      /\ acked'   = [s \in Calls |-> IF s \in hit THEN {} ELSE acked[s]]
      /\ outcome' = [s \in Calls |->
           IF s \in hit /\ outcome[s] = "waiting" THEN "err" ELSE outcome[s]]
      /\ UNCHANGED <<found, usage, chosen, commands, server, toServer, offers, losses>>

\* handle_periodic: the offer's TTL has run out.
ExpireService ==
  /\ "expiry" \in Faults
  /\ discovered
  /\ discovered' = FALSE
  /\ subs' = {}
  /\ UNCHANGED <<found, pending, waiters, multi, acked, usage, chosen, outcome, commands,
                 server, toServer, toClient, offers, reborn, losses>>

-----------------------------------------------------------------------------
(* The server.                                                             *)

StartOffer ==
  /\ ~offered
  /\ offered' = TRUE
  /\ UNCHANGED <<client, chosen, outcome, commands, subscribers,
                 toServer, toClient, offers, reborn, losses>>

\* The initial offer, and the cyclic ones of handle_periodic.
SendOffer ==
  /\ offered
  /\ Len(offers) < MaxFlight
  /\ offers' = Append(offers, TRUE)
  /\ UNCHANGED <<client, chosen, outcome, commands, server, toServer, toClient,
                 reborn, losses>>

\* handle_stop_offer of the server: its subscribers stay.
StopOffer ==
  /\ "stop_offer" \in Faults
  /\ offered
  /\ Len(offers) < MaxFlight
  /\ offered' = FALSE
  /\ offers' = Append(offers, FALSE)
  /\ UNCHANGED <<client, chosen, outcome, commands, subscribers, toServer,
                 toClient, reborn, losses>>

\* The ACK, or the NACK if the service is not offered, for a Subscribe.
AckOnly(entries) ==
  IF offered THEN Append(toClient, [kind |-> "ack", egs |-> {e.eg : e \in entries}])
             ELSE toClient
Answer(entries) ==
  Append(toClient, [kind |-> IF offered THEN "ack" ELSE "nack",
                    egs  |-> {e.eg : e \in entries}])

\* handle_subscribe_request, for each entry of the message.
AcceptSubscribe ==
  LET entries == Head(toServer).entries IN
  /\ toServer # <<>> /\ Head(toServer).kind = "subscribe"
  /\ Len(toClient) < MaxFlight
  /\ toServer' = Tail(toServer)
  /\ subscribers' = IF offered THEN subscribers \cup entries ELSE subscribers
  /\ toClient' = Answer(entries)
  /\ UNCHANGED <<client, chosen, outcome, commands, offered, offers, reborn, losses>>

\* handle_unsubscribe_request.
AcceptStopSubscribe ==
  /\ toServer # <<>> /\ Head(toServer).kind = "stop_subscribe"
  /\ toServer' = Tail(toServer)
  /\ subscribers' = IF offered THEN subscribers \ Head(toServer).entries
                               ELSE subscribers
  /\ UNCHANGED <<client, chosen, outcome, commands, offered, toClient, offers,
                 reborn, losses>>

\* handle_periodic: the TTL of a subscription has run out.
ExpireSubscriber(e) ==
  /\ "expiry" \in Faults /\ ~InfiniteTtl
  /\ e \in subscribers
  /\ subscribers' = subscribers \ {e}
  /\ UNCHANGED <<client, chosen, outcome, commands, offered, toServer, toClient,
                 offers, reborn, losses>>

\* The server's process restarts and forgets everything; what it had sent is
\* no longer under way.  SdSession is about how the client finds out.
RestartServer ==
  /\ "restart" \in Faults
  /\ offered' = FALSE /\ subscribers' = {}
  /\ toClient' = <<>> /\ offers' = <<>>
  /\ reborn' = TRUE
  /\ UNCHANGED <<client, chosen, outcome, commands, toServer, losses>>

\* The network loses the next message of a queue.
Lose ==
  /\ losses < MaxLoss
  /\ losses' = losses + 1
  /\ \/ toServer # <<>> /\ toServer' = Tail(toServer) /\ UNCHANGED <<toClient, offers>>
     \/ toClient # <<>> /\ toClient' = Tail(toClient) /\ UNCHANGED <<toServer, offers>>
     \/ offers # <<>> /\ offers' = Tail(offers) /\ UNCHANGED <<toServer, toClient>>
  /\ UNCHANGED <<client, chosen, outcome, commands, server, reborn>>

-----------------------------------------------------------------------------
ClientNext ==
  \/ \E s \in Calls : \/ \E G \in SUBSET Groups : Subscribe(s, G)
                      \/ SubscribeFails(s) \/ Cancel(s) \/ Drop(s)
  \/ \E c \in commands : Unsubscribe(c)
  \/ ReceiveOffer \/ ReceiveStopOffer \/ ReceiveAck \/ ReceiveNack
  \/ ExpireService

ServerNext ==
  \/ StartOffer \/ SendOffer \/ StopOffer \/ RestartServer
  \/ AcceptSubscribe \/ AcceptStopSubscribe
  \/ \E e \in subscribers : ExpireSubscriber(e)

Next == ClientNext \/ ServerNext \/ Lose

Spec == Init /\ [][Next]_vars

\* The event loops serve every queue, commands included, and the server
\* offers cyclically.
FairSpec ==
  /\ Spec
  /\ WF_vars(\E c \in commands : Unsubscribe(c))
  /\ WF_vars(ReceiveOffer \/ ReceiveStopOffer)
  /\ WF_vars(ReceiveAck \/ ReceiveNack)
  /\ WF_vars(StartOffer) /\ WF_vars(SendOffer)
  /\ WF_vars(AcceptSubscribe \/ AcceptStopSubscribe)

-----------------------------------------------------------------------------
(* Properties.                                                             *)

TypeOK ==
  /\ found \in BOOLEAN
  /\ discovered \in BOOLEAN
  /\ subs \subseteq ClientSubscription
  /\ pending \subseteq Groups
  /\ waiters \in [Groups -> SUBSET Calls]
  /\ \A g \in Groups \ pending : waiters[g] = {}
  /\ multi \subseteq Calls
  /\ acked \in [Calls -> SUBSET Groups]
  /\ usage \subseteq Port
  /\ chosen \in [Calls -> SUBSET Groups]
  /\ outcome \in [Calls -> {"idle", "waiting", "ok", "err", "cancelled", "dropped"}]
  /\ commands \subseteq [id: Calls, eg: Groups]
  /\ offered \in BOOLEAN
  /\ subscribers \subseteq Entry
  /\ toServer \in Seq(ToServer)
  /\ toClient \in Seq(ToClient)
  /\ offers \in Seq(BOOLEAN)
  /\ reborn \in BOOLEAN
  /\ losses \in 0..MaxLoss

\* Two subscriptions of the service never share a port, whatever comes and
\* goes in between: events carry no eventgroup, so the port is what tells
\* the client's subscriptions apart (handle_subscribe_udp, handle_unsubscribe).
OnePortPerSubscription ==
  \A r1, r2 \in subs : r1.port = r2.port => r1.id = r2.id

\* The ports of the subscriptions are marked as used, and a dedicated port
\* belongs to the subscription it was bound for.
PortInv ==
  \A r \in subs : r.port \in usage /\ r.port \in {r.id, Rpc}

\* A call that waits is on the list of every eventgroup that is still open,
\* one at least, and on no other; so an answer of the server can reach it,
\* and an acked eventgroup is never waited for again.
WaiterInv ==
  \A s \in Calls :
    LET open == {g \in Groups : s \in waiters[g]} IN
    /\ outcome[s] = "waiting" => open # {}
    /\ open # {} =>
         /\ outcome[s] \in {"waiting", "cancelled"}
         /\ open = chosen[s] \ acked[s]
         /\ s \in multi \/ Cardinality(chosen[s]) = 1

\* Every answer to a subscribe() is justified by the server's, all or nothing.
Abstract == INSTANCE SubscribeCall WITH
  wanted    <- chosen,
  confirmed <- [s \in Calls |->
    IF outcome[s] = "waiting" THEN {g \in chosen[s] : s \notin waiters[g]} ELSE {}]

ImplementsSubscribeCall == Abstract!Spec

\* While messages are neither lost nor cut off by a restart, every call is
\* answered, however calls, offers and StopOffers interleave: a call that
\* sends no Subscribe of its own is answered with the one under way.
EveryCallAnswered ==
  \A s \in Calls : outcome[s] = "waiting" ~> outcome[s] # "waiting"

\* Does the server know the subscriptions of call s, each with its port?
Registered(s) ==
  \A r \in subs : r.id = s => [eg |-> r.eg, port |-> r.port] \in subscribers

\* A subscription that the caller was given and that its client still holds
\* reaches the server again and again, though it may expire there and though
\* its own Subscribe may have been left out for another's: the offers renew
\* it, unless they stop.
ActiveIsServed ==
  \A s \in Calls : outcome[s] = "ok" ~> Registered(s) \/ outcome[s] # "ok" \/ ~offered
=============================================================================
