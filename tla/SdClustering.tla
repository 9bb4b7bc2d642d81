---------------------------- MODULE SdClustering ----------------------------
(***************************************************************************)
(* What an SD message says, from its builder to its reader: the entries    *)
(* and options that the builders make, the batches that are merged into    *)
(* one message for each target, the fields of limited width on the wire,   *)
(* and the endpoints that the reader finds for each entry.                 *)
(*                                                                         *)
(* Indices count from 0, as on the wire.  No builder uses the second run   *)
(* of options.  Flags and session ids are those of SdSession.              *)
(***************************************************************************)
EXTENDS Naturals, Sequences, FiniteSets, SequencesExt

CONSTANTS
  Services, Groups,  \* what is offered and subscribed
  endpoints,         \* the ports each service is offered at, 0 for none
  Locals,            \* local endpoints of subscriptions
  Targets, Multicast,\* SD endpoints of the peers, and the multicast group
  IndexMax,          \* u8::MAX
  TtlMax,            \* SD_TTL_INFINITE (2^24 - 1)
  ConfiguredTtl,     \* the TTL that the builder of the runtime is given
  MaxQueued          \* bound: messages in a batch

Protocols == {"udp", "tcp"}
Option == [port : Nat \ {0}, protocol : Protocols]

ASSUME ClusteringAssumption ==
  /\ IsFiniteSet(Services) /\ IsFiniteSet(Groups)
  /\ endpoints \in [Services -> [Protocols -> Nat]]
  /\ \A s \in Services : \E p \in Protocols : endpoints[s][p] # 0
  /\ Locals \subseteq Option
  /\ Multicast \notin Targets
  /\ IndexMax \in Nat /\ TtlMax \in Nat \ {0} /\ ConfiguredTtl \in Nat \ {0}
  /\ MaxQueued \in Nat

VARIABLES
  pending,   \* pending_unicast_sd, with what each message is to say
  datagrams, \* messages on their way, with what they are to say, and whether
             \* their options can be indexed
  read       \* the same of the last message that was read, until the next
             \* one is queued

vars == <<pending, datagrams, read>>

Types == {"find", "offer", "subscribe", "ack"}
Things == Services \cup Groups

\* What an entry says, as the handlers see it.
Saying == [type : Types, stop : BOOLEAN, thing : Things, udp : Nat, tcp : Nat]

Init == pending = <<>> /\ datagrams = {} /\ read = <<>>

-----------------------------------------------------------------------------
(* The builders.                                                           *)

\* clamp_ttl_to_24bit.
Ttl == IF ConfiguredTtl > TtlMax THEN TtlMax ELSE ConfiguredTtl

Entry(type, thing, ttl, index, count) ==
  [type |-> type, thing |-> thing, ttl |-> ttl, index |-> index, count |-> count]
Says(type, stop, thing, udp, tcp) ==
  [type |-> type, stop |-> stop, thing |-> thing, udp |-> udp, tcp |-> tcp]

\* The options of an offer: UDP first.
OfferOption(s, p) ==
  IF endpoints[s][p] = 0 THEN <<>> ELSE <<[port |-> endpoints[s][p], protocol |-> p]>>
OfferOptions(s) == OfferOption(s, "udp") \o OfferOption(s, "tcp")

\* build_offer_message, for options that start at an index.
OfferEntry(s, index) == Entry("offer", s, Ttl, index, Len(OfferOptions(s)))
SaysOffer(s) == Says("offer", FALSE, s, endpoints[s]["udp"], endpoints[s]["tcp"])

OfferMessage(s) == [entries |-> <<OfferEntry(s, 0)>>, options |-> OfferOptions(s),
                    says |-> <<SaysOffer(s)>>]

\* build_find_message.
FindMessage(s) == [entries |-> <<Entry("find", s, Ttl, 0, 0)>>, options |-> <<>>,
                   says |-> <<Says("find", FALSE, s, 0, 0)>>]

\* build_subscribe_message_multi, build_unsubscribe_message_multi: the entries
\* share the option.
SubscribeMessage(gs, local, stop) ==
  LET port(p) == IF local.protocol = p THEN local.port ELSE 0
  IN  [entries |-> [i \in DOMAIN gs |->
                      Entry("subscribe", gs[i], IF stop THEN 0 ELSE Ttl, 0, 1)],
       options |-> <<local>>,
       says |-> [i \in DOMAIN gs |->
                   Says("subscribe", stop, gs[i], port("udp"), port("tcp"))]]

\* subscribe_eventgroup_ack and, with TTL 0, subscribe_eventgroup_nack.
AnswerMessage(g, nack) ==
  [entries |-> <<Entry("ack", g, IF nack THEN 0 ELSE Ttl, 0, 0)>>, options |-> <<>>,
   says |-> <<Says("ack", nack, g, 0, 0)>>]

\* Members of a set in any order, as hash maps and sets give them.
Orders(S) == SetToAllKPermutations(S)

\* What is queued for a peer.
UnicastMessages ==
  {OfferMessage(s) : s \in Services}
    \cup {SubscribeMessage(gs, l, stop) : gs \in Orders(Groups) \ {<<>>},
                                          l \in Locals, stop \in BOOLEAN}
    \cup {AnswerMessage(g, nack) : g \in Groups, nack \in BOOLEAN}

-----------------------------------------------------------------------------
(* cluster_sd_actions.                                                     *)

Empty == [entries |-> <<>>, options |-> <<>>, says |-> <<>>, fits |-> TRUE]

\* saturating_add, of indices of one byte; builders start at 0, so that the
\* maximum is reached but never passed.
Rebased(index, offset) ==
  IF index + offset > IndexMax THEN IndexMax ELSE index + offset

\* Mutant: the options are added before the offset is taken.
OffsetAfter(cluster, m) == (Len(cluster.options) + Len(m.options)) % (IndexMax + 1)
\* "as u8" takes the length modulo 256.
Offset(cluster, m) == Len(cluster.options) % (IndexMax + 1)

\* The options of m follow those of the cluster; indices are adjusted in the
\* entries that have options.
Merge(cluster, m) ==
  LET offset == Offset(cluster, m)
      moved(e) == IF e.count > 0 THEN [e EXCEPT !.index = Rebased(@, offset)] ELSE e
  IN  [entries |-> cluster.entries \o [i \in DOMAIN m.entries |-> moved(m.entries[i])],
       options |-> cluster.options \o m.options,
       says    |-> cluster.says \o m.says,
       fits    |-> cluster.fits /\ (m.options # <<>> => Len(cluster.options) <= IndexMax)]

\* The message for a target, after each action of the list; other actions
\* leave it alone.
Clustered(actions, target) ==
  LET after[n \in 0..Len(actions)] ==
        IF n = 0 THEN Empty
        ELSE IF actions[n].target = target THEN Merge(after[n - 1], actions[n].message)
        ELSE after[n - 1]
  IN  after[Len(actions)]

\* Mutant: indices of any size.
AddOfferWide(m, s) ==
  [entries |-> Append(m.entries, OfferEntry(s, Len(m.options))),
   options |-> m.options \o OfferOptions(s),
   says    |-> Append(m.says, SaysOffer(s)),
   fits    |-> m.fits /\ Len(m.options) <= IndexMax]

\* flush_pending_initial_offers builds one message itself; add_option returns
\* the index of the option, modulo 256.
AddOffer(m, s) ==
  [entries |-> Append(m.entries, OfferEntry(s, Len(m.options) % (IndexMax + 1))),
   options |-> m.options \o OfferOptions(s),
   says    |-> Append(m.says, SaysOffer(s)),
   fits    |-> m.fits /\ Len(m.options) <= IndexMax]

InitialOffers(services) ==
  LET after[n \in 0..Len(services)] ==
        IF n = 0 THEN Empty ELSE AddOffer(after[n - 1], services[n])
  IN  after[Len(services)]

\* SdEntry::serialize and parse: a count has 4 bits, a TTL has 24.
WireEntry(e) == [e EXCEPT !.count = @ % 16, !.ttl = @ % (TtlMax + 1)]

\* The message as it is parsed again.
OnWire(m, target) ==
  [target |-> target, options |-> m.options, says |-> m.says, fits |-> m.fits,
   entries |-> [i \in DOMAIN m.entries |-> WireEntry(m.entries[i])]]

\* The messages of a list of actions, one for each target.
ClusterSdActions(actions) ==
  {OnWire(Clustered(actions, t), t) : t \in {actions[i].target : i \in DOMAIN actions}}

-----------------------------------------------------------------------------
(* The sender.  Bounds: what is sent is read before more is built, and the *)
(* multicast messages, which depend on nothing else, are sent first.       *)

SendSd(m, target) == [target |-> target, message |-> m]

\* queue_unicast_sd.
Queue(m, target) ==
  /\ datagrams = {} /\ Len(pending) < MaxQueued
  /\ pending' = Append(pending, SendSd(m, target))
  /\ read' = <<>>
  /\ UNCHANGED datagrams

\* flush_pending_unicast_sd.
Flush ==
  /\ datagrams = {} /\ pending # <<>>
  /\ datagrams' = ClusterSdActions(pending)
  /\ pending' = <<>>
  /\ UNCHANGED read

\* The cyclic offers and the repeated finds of a periodic turn.
Periodic(offers, finds) ==
  /\ datagrams = {}
  /\ offers \o finds # <<>>
  /\ datagrams' = ClusterSdActions(
       [i \in DOMAIN offers |-> SendSd(OfferMessage(offers[i]), Multicast)]
         \o [i \in DOMAIN finds |-> SendSd(FindMessage(finds[i]), Multicast)])
  /\ UNCHANGED <<pending, read>>

\* Services that were withdrawn meanwhile are left out, perhaps all.
FlushInitial(services) ==
  /\ datagrams = {}
  /\ datagrams' = {OnWire(InitialOffers(services), Multicast)}
  /\ UNCHANGED <<pending, read>>

-----------------------------------------------------------------------------
(* The reader.                                                             *)

\* get_endpoint_with_protocol: the first option of the run with the protocol;
\* an index without an option is passed over.
Hits(e, options, protocol) ==
  {i \in (e.index + 1)..(e.index + e.count) :
     i \in DOMAIN options /\ options[i].protocol = protocol}
EndpointOf(e, options, protocol) ==
  LET hits == Hits(e, options, protocol)
  IN  IF hits = {} THEN 0 ELSE options[CHOOSE i \in hits : \A j \in hits : i <= j].port

\* process_sd_entries; handle_offer ignores an entry without endpoints.
Reading(e, options) ==
  LET stop == e.type # "find" /\ e.ttl = 0
      udp == EndpointOf(e, options, "udp")
      tcp == EndpointOf(e, options, "tcp")
      ignored == e.type = "offer" /\ ~stop /\ udp = 0 /\ tcp = 0
  IN  Says(IF ignored THEN "ignored" ELSE e.type, stop, e.thing, udp, tcp)
Understood(d) == [i \in DOMAIN d.entries |-> Reading(d.entries[i], d.options)]

Receive(d) ==
  /\ d \in datagrams
  /\ datagrams' = datagrams \ {d}
  /\ read' = <<[target |-> d.target, meant |-> d.says, fits |-> d.fits,
                understood |-> Understood(d)]>>
  /\ UNCHANGED pending

-----------------------------------------------------------------------------
Next ==
  \/ \E m \in UnicastMessages, t \in Targets : Queue(m, t)
  \/ Flush
  \/ /\ pending = <<>> /\ read = <<>>
     /\ \/ \E offers, finds \in Orders(Services) : Periodic(offers, finds)
        \/ \E services \in Orders(Services) : FlushInitial(services)
  \/ \E d \in datagrams : Receive(d)

Spec == Init /\ [][Next]_vars

-----------------------------------------------------------------------------
(* Properties.                                                             *)

\* Fields fit their width, also those of a batch that outgrows the indices.
TypeOK ==
  /\ Len(pending) <= MaxQueued
  /\ \A i \in DOMAIN pending : /\ pending[i].target \in Targets
                               /\ pending[i].message \in UnicastMessages
  /\ \A d \in datagrams : \A i \in DOMAIN d.entries :
       /\ d.entries[i].index \in 0..IndexMax
       /\ d.entries[i].ttl \in 0..TtlMax
       /\ d.entries[i].count <= 2
  /\ \A d \in datagrams : d.says \in Seq(Saying) /\ d.options \in Seq(Option)

\* Each target reads what was to be said to it, everything and in order, with
\* the endpoints that belong to each entry, whatever the messages in a batch
\* are: as long as the options of each start at an index that a byte can hold
\* (cluster_sd_actions, get_endpoint_with_protocol).
ReadAsMeant ==
  \A i \in DOMAIN read : read[i].fits => read[i].understood = read[i].meant
=============================================================================
