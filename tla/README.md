# TLA+ model of recentip

recentip is a Rust implementation of SOME/IP, the automotive service-oriented
middleware, with its service discovery (SOME/IP-SD). A runtime is one tokio
task, the event loop, that owns a `RuntimeState`; handles that applications
hold send it commands over a channel, sockets and TCP tasks send it messages,
and timers send it deadlines. This directory holds TLA+ modules of that
program, what TLC checks of them on small instances, and what TLAPS proves of
them for all. Paths below are relative to `src/src/` of the repository unless
they start with `tests/` or are documents at its root.

## 1. Inventory

| component | state | operations | hard behaviour |
|---|---|---|---|
| SD sessions and reboot detection (`runtime/state.rs`, `event_loop.rs`) | two counters with a wrap flag; per peer and channel the last id and flag | number and flag a message, `check_reboot_and_reset`, `handle_peer_reboot` | flag and number are fixed at different times; wrap; two channels that tell of the same restart; loss, reordering |
| client subscriptions (`runtime/client.rs`, `sd.rs`, `handles/client/subscription.rs`) | `subscriptions`, `pending_subscriptions`, `multi_eventgroup_subscriptions`, `subscription_endpoint_usage` | subscribe, unsubscribe, ACK, NACK, renewal on an offer, StopOffer, expiry | calls that share an eventgroup; all or nothing over several; lost answers; ports that are reused |
| server subscribers (`runtime/sd.rs`, `server.rs`) | `offered`, `server_subscribers` | offer, stop offer, Subscribe and StopSubscribe requests, expiry | subscribers outlive offerings; expiry against renewal |
| TCP subscriptions (`runtime/client_concurrent.rs`, `event_loop.rs`) | a task that connects, connection keys | connect, then commit the state update in the event loop | what the task captured is stale when it commits |
| service discovery (`runtime/client.rs`, `sd.rs`, `handles/client/find.rs`) | `discovered`, `find_requests` | find, stop find, offer, stop offer, repetition, expiry | two finds with one key; offers that answer a find wait in the batch while a StopOffer does not |
| clustering of SD messages (`runtime/event_loop.rs`) | `pending_unicast_sd` | merge the entries of one target, rebase option indices, flush | one flag for merged messages; the order of a hash map; option index overflow |
| TCP connections of the client (`tcp.rs`) | pool of connections by key, per-connection tasks | connect once, send, receive, clean up, close endpoints, magic cookies | cleanup of an old connection against a new one under its key |
| TCP server (`tcp.rs`) | senders and task handles by peer address, per-connection tasks, bounded channels | accept, read, forward, route an answer, close the connections of a rebooted peer, clean up | three tasks that wait for one another in a circle of channels; an address that is used again |
| RPC (`runtime/client.rs`, `server.rs`, `handles/client/proxy.rs`, `handles/server/responder.rs`) | `pending_calls`, the payload session counter, pending responses | call, fire and forget, response, error, drop of a responder | session ids that are reused; shutdown that drains responses |
| event delivery (`runtime/client.rs`, `handles/server/event.rs`) | bounded channels of subscriptions, subscribers by group | notify, route an event to its subscriptions | eventgroup is told from the port only; full channels |
| offerings (`runtime/server.rs`, `handles/server/offering.rs`) | sockets and listeners, the ports in use | bind or share a socket, announce, withdraw | port search, two services on one port, offering twice |
| runtime and shutdown (`runtime/event_loop.rs`, `handles/runtime.rs`) | channels, timers, `draining` | select loop, shutdown | a shutdown that waits for the application |
| configuration (`config.rs`, `builder.rs`) | none | builders, transport preference | none beyond the choice of transport |
| wire format (`wire.rs`, `error.rs`) | none | parse and serialise | truncated and odd input |
| network abstraction (`net/`) | none | traits over tokio and the simulator turmoil | none of its own |

Applications call the handles; a handle sends a `Command` (bounded, 64) with a
oneshot for the answer; the event loop answers it, or remembers the oneshot
until a message of the peer answers it. Multicast SD messages are sent at once,
unicast ones wait for a batching deadline. TCP connections are made by tasks
that report back over a channel.

What makes the components correct:

- sessions: a peer acts on each restart once and on no imagined one; ids are
  never 0; each restart that can be noticed is.
- subscriptions: an answer to `subscribe()` is justified by the server's
  answers since the call, all eventgroups or none; every call is answered; no
  two subscriptions of a service share a port; what the caller holds is served.
- server: subscribers are those clients that want events.
- discovery: a service is known while it is offered, and not for good after.
- TCP: one live connection per key; a cleanup never removes a newer one.
- RPC: a call is answered at most once, and by the response to its own request;
  each accepted request is answered.
- TCP server: a working connection keeps its sender; the event loop goes on.
- offerings: what is announced is offered, and has its sockets; a handle has its
  service.
- clustering: an entry refers to the options it was built with.

## 2. Modules

| module | what it is |
|---|---|
| `SdSession` | the sender's counters and flags, the batch, TCP tasks that capture flags, restarts, the network, and each peer's baselines |
| `MCSdSession` | its instances, and what documents and tests say that the code does not do |
| `SdSession_proofs` | its type invariant, its inductive invariant and "one alarm per restart" |
| `SubscribeCall` | abstract specification: what `subscribe()` promises its callers |
| `PubSub` | client, server and network of the subscriptions to one UDP service; implements `SubscribeCall` |
| `MCPubSub` | its instances, and statements of documents and comments |
| `PubSub_proofs` | its type invariant, ports, waiting calls, and the refinement |
| `TcpPool` | the client's connections to one endpoint that several services share: the pool, the subscribe tasks, the connection tasks and the event loop's part |
| `MCTcpPool` | its instances, and statements of documents and comments |
| `TcpPool_proofs` | its type invariant, slots, that open connections are not lost, attempts to connect, and what subscriptions are registered with |
| `TcpServer` | the server task, the task of each connection, the event loop and the bounded channels between them |
| `MCTcpServer` | its instance |
| `TcpServer_proofs` | its type invariant with the capacities, that cleanups leave newer connections alone, and what the event loop waits for |
| `Discovery` | finds of a client, offers of a server, expiry, reboot, and a monitor |
| `MCDiscovery` | its instances, and statements of documents and comments |
| `Discovery_proofs` | its type invariant, that no find misses its service, and what monitors know |
| `SdClustering` | what SD messages say: builders, merging, the widths on the wire, and the reader |
| `MCSdClustering` | its instance, and a statement of a comment |
| `SdClustering_proofs` | its type invariant with the widths, and that messages are read as meant |
| `Offerings` | offered services: handles, commands, ports, announcements, events, shutdown |
| `MCOfferings` | its instances, and statements of comments |
| `Offerings_proofs` | its type invariant, announcements, sockets and handles |
| `MethodCall` | abstract specification: what a call of a method promises its caller |
| `Rpc` | calls, session ids, responders, and shutdown of either side; implements `MethodCall` |
| `MCRpc` | its instances |
| `Rpc_proofs` | its type invariant, what is owed, that answers and failures belong to their call, that no call is forgotten, and the refinement |

### SdSession

`next` and `wrapped` are `RuntimeState`'s `*_session_id` and
`*_has_wrapped_once`. `SdFlags` is read when a unicast message is built
(`QueueUnicast`) or when a TCP subscribe starts (`StartTcpSubscribe`), and
`Flush` draws the ids when `flush_pending_sd` sends one message per target, in
the order of a hash map, which is any order here. `SendMulticast` does both in
one turn. `session[p][ch]` is what peer p keeps in `peer_sessions`; `Deliver` is
`check_reboot_and_reset` with the part of `handle_peer_reboot` that the
properties speak of, counted by `alarms`. `boot`, `heard`, `alarms` and `stale`
are history variables. `stale` becomes true when a flag is sent that no longer
matches its counter.

Bounds: `MaxSid` is the width of the counter (65535 in the code; 3 here, so that
wraps happen), `MaxBoot` the incarnations, `MaxFlight` the datagrams in one
queue. `alarms` saturates at 2. A restart takes longer than a datagram lives,
so none of the previous incarnation is still under way when the next sends.

### PubSub

One client runtime, one server runtime, one service offered over UDP. The
client's variables are `RuntimeState` restricted to the service; `outcome` and
`chosen` are the callers. Each action is one turn of an event loop or one step of
an application: `Subscribe` is `handle_subscribe_udp` with
`record_subscription_state` and the Subscribe it queues, `Unsubscribe` is
`handle_unsubscribe`, `ReceiveAck`/`ReceiveNack` are the SD handlers applied to
every entry of one message, and all receiving actions begin with what
`handle_peer_reboot` does (`Forget`) when the message betrays a restart.
`AcceptSubscribe` is `handle_subscribe_request`, for all entries of the message.

Abstractions:

- A message is a set of entries of one turn. Batches of several turns are
  modelled as several messages; the real datagram merges them, and so may lose
  only all of them at once.
- A TTL that is finite may run out at any time (`ExpireService`,
  `ExpireSubscriber`).
- A dedicated socket has an ephemeral port that nobody else has, so it is named
  after the call it was bound for; the shared RPC port is `Rpc`.
- The restart of the server is noticed with the next message of it; how, and
  when not, is the subject of `SdSession`. The client does not restart.
- Not modelled: fixed local ports, other services on the same sockets, TCP, a
  command channel that is full when a subscription is dropped, and the channel
  on which the server's application hears of subscribers.

Bounds: `Calls` (two; three in `MCPubSubIsolation.cfg`, where a third call finds a
port that a second one left), `Groups` (one or two), `MaxLoss` lost messages,
`MaxFlight` messages in one queue. Each call is made once, so nothing else grows.
Two calls are what shares eventgroups and ports; two groups are what a call needs
to be acknowledged for some and refused for others. `asks` is what each call may
ask for: any set of eventgroups in `pubsub`; in `pubsub_live` one call asks for both
and the other for both or for a given one, which leaves out only pairs that are
mirror images and two calls for one eventgroup each.

The runs of `SdSession` have one peer. With several, the gaps and the order of a
batch matter; the theorem `RestartNoticedOnce` covers any number of peers.

`SubscribeCall` knows only callers: a set of wanted eventgroups, those confirmed,
the outcome. The refinement mapping takes `chosen` for the wanted ones and, for a
waiting call, those of its eventgroups on whose list it no longer is as the
confirmed ones.

### TcpPool

One endpoint of a server, on which all `Services` are offered. `pool[k]` is the
`OnceCell` under key k of `TcpConnectionPool::connections`, where a key is the
`subscription_id` (the slot; 0 for RPC), since the address is the same. A cell
that is in the map and uninitialised behaves as one that is not there, so both
are `NoConn`; tasks that wait for an initialisation are in phase "waiting", the
one that runs it is "dialing", and `fresh[k]` is what `do_connect` has returned
before the cell is set: the connection's task runs by then, and may end.
`Begin` is `Command::Subscribe` with `allocate_tcp_conn_key`, `LookForRpc` and
`LookForSlot` are the two steps of `ensure_connected`, `Commit` is `apply_state`,
`Reject` the failed update. `SendConnects` is `send()` when it has to connect:
it does so inside the event loop, so `blocked` disables all of the event loop's
actions until then. `Withdraw` is `handle_stop_offer`, or a reboot of the peer,
with the `close_endpoints` that follows in the same turn; `Disconnect` and
`HandleCleanup` are the end of a connection's task and the event loop's answer.

Abstractions: a call with several eventgroups is one entry; the SD messages
and their answers are left out (PubSub has them for UDP), and a NACK acts as
`Unsubscribe`; a failed connect is any failed connect, local port conflicts
included; and what is sent over a connection, and the capacity of its channels,
is not modelled. A call needs a service that was found, so the services are
known in the initial state.

Bounds: two calls, which may be for one service or for two; two slots, which
is what two calls can need; `MaxConn` connections, two, after which connecting
fails. Two connections are what a late cleanup needs to meet a newer connection
under its key.

### TcpServer

The server's half of `tcp.rs`. A request goes from a connection's task through
`tcp_rpc_tx` to the event loop, and its answer through the service's `send_tx` to
the server task, which hands it to the channel of the connection. `phase[c]` is
where the task of c stands in its `select!`: a read that has requests to forward,
or a message that is being written, holds it up. `routing` and `sending` are the
message that the server task and the event loop hold while they wait for room.
`senders` and `tasks` are `client_senders` and `client_tasks`; the task removes its
own handle when it ends, the server task removes the sender when it takes the
cleanup request. `ClosePeer` is the close request that a reboot of the peer leads
to. A request that the event loop takes is tracked, so that an answer is owed
(`Track`), answered with an error at once (`Refuse`), or dropped, because the
application's channel is full or closed or no service has the port (`Drop`).
`Respond` sends an answer that is owed through the transport captured with its
request, also after the StopOffer, and may wait for room then as at any time.
`Notify` sends an event to one subscriber; a notification is one such step for each.

Services with different ids may share a listener. `up` says that one of them is still
offered, and `StopOffer` is that of the last; the StopOffer of another changes nothing
here. `Held` is who has a clone of `send_tx`: an offered service, an answer that
is owed, or the message that is being sent. The server task ends (`ServerEnds`) when
nobody has and its channel is empty, so it outlives the StopOffer while answers
are owed, and takes the senders of the connections with it.

Abstractions: messages are counted, or named after the peer. An address is used
again only when the peer has closed its last connection, as TCP demands. The
channel of close requests and that of cleanups are sets, as their order does not
matter and the first of them may lose a request without harm to what is checked.
Magic cookies, framing of the byte stream and binding are left out, and so is
the shutdown of the runtime, whose drain is in `Offerings` and `Rpc`.

Bounds: one peer with two connections in turn, which is what an old task needs to
interfere with a new one; capacity one for each channel (32 to 100 in the code); up
to two requests in one read; seven requests and events in all, one more than `Circle`, so
that the circle does fill. With the capacities of the code `Circle` is 235.

### Discovery

One client, one server, instances of one service. `discovered` is `RuntimeState`'s
map with an entry either alive or past its TTL but not removed yet; `requests` is
`find_requests`, at most one for each key. `HandleFind` and `HandleStopFind` are the
commands, `ReceiveOffers` is `handle_offer` for all entries of a message, together
with what `expire_services_from_rebooted_peer` does first; `HandlePeriodic` repeats
finds and removes expired services. `MonitorSd` registers
a monitor, which is not told of what is known already; `view` is that, with what
the events since then have added and removed. The offers that answer a find travel in a queue of their own,
which includes the time they spend in the unicast batch, so that they are
overtaken by multicast StopOffers. The server's `AnswerFind` ignores the major
version, as `handle_find_request` does.

Bounds: two finds, for the same service or one of them for any; one instance and
major version; one repetition; one lost message; one message in each queue. There is
one monitor at a time.

### SdClustering

Here messages have contents: entries with index and count, options with port and
protocol. Each message of a builder (`OfferMessage`, `FindMessage`, `SubscribeMessage`,
`AnswerMessage`) carries along what it is to say; `Merge` is one step of the loop of
`cluster_sd_actions`, which `Clustered` runs over a batch, `AddOffer` and
`InitialOffers` are the same of `flush_pending_initial_offers`. The loops are recursive
functions of the number of steps, so that they can be reasoned about. `OnWire` is what
serialising and parsing does to the fields of limited width, `Understood` what the
handlers read. Bounds: up to three messages in a batch; two services with both
transports and one with UDP only; indices up to 3 where the code has 255, TTLs up
to 3 where it has 2^24 - 1, and a configured TTL beyond that.

### Offerings

A call is one `OfferBuilder::start` and the `ServiceOffering` it returns. `commands` is
the command channel, in the order of the code; `Offer` is `handle_offer_command`,
with the port search (`FirstFree`, which wraps, after `Shareable`) for UDP and
then TCP; `Withdraw` is `handle_stop_offer`, which leaves the key in
`pending_initial_offers`. `listening` are the ports whose socket tasks
run: a task ends when the last sender is dropped, and a response that is owed
holds one (`owed`). `Shutdown` and `Down` are the drain of `runtime_task`.

`FlushInitial` and `Periodic` announce by multicast, `Withdraw` and `Shutdown` say by multicast
that a service is gone, all at once. `HandleFind` is `handle_find_request`: its offers are made of
what is offered then and wait in the unicast batch (`answers`), which
`FlushUnicast` sends as it is, whatever became of the services; a runtime that
shuts down does not get to it. `told` is what the last SD message said of a service
to a peer that hears the multicast and whose finds are answered. Two history
variables say when that may be wrong: `outdated` has the services withdrawn or
replaced while an answer about them waits, `late` those of which such an answer
was the last message. So a service can be announced after it was withdrawn, and
no further StopOffer follows; `AnnouncedInv` allows for that and for nothing else.

A handle is `orphan` when its `start()` was cancelled, and `lost` when its
StopOffer found the command channel full. Its builder can still create events
(`Create`), for as long as the service stays offered.

Abstractions: which of several sharable sockets is taken is the order of a hash
map, so any; errors other than a port in use are failures of the attempt; the
deadlines for the initial offers and for the unicast batch may come at any time; what
else is in that batch is in `SdSession`, `PubSub` and `SdClustering`. What a peer
believes that loses messages, or hears of a service from its finds alone, is in `Discovery`.
Unless `Faults` has "twice", a service is offered again only when no handle of it is in use.

Bounds: three calls, of which two offer the same instance of a service and the
third that of another, which can share its socket. Two ports, one of them held
by another process for TCP, with the search starting at the second so that it
wraps. A command channel of capacity two; one response owed (`MaxOwed`); one event and one
EventHandle (`MaxHandles`; registrations whose `create()` was cancelled come on top). Peers
look for the service with two calls (`Sought`), which is the one whose offering can
be replaced while an answer waits: by a second call after a cancelled `start()` or a lost StopOffer.

### Rpc

One client, one server, one service. `pending` is `pending_calls`, at most one call
for each session id; `Call` replaces an older entry, whose call then fails, since
its channel closes. A datagram names its call, which stands for its payload; the
network is a set, so datagrams overtake one another, and `Duplicate` copies one.
`queue` is the requests channel of the offering, `owed` is `pending_responses` with
what became of each responder. `HandleRequest` has all the ways out of
`handle_incoming_request`, those included that answer nothing; these are recorded
in the history variable `silent`, as lost datagrams are. `replied` records what
the application did.

"reuse" in `Faults` allows a session id to be drawn while a datagram or responder
of its last use is under way, which takes 65535 calls meanwhile. Without it ids
still wrap, and entries are still replaced.

`MethodCall` knows only callers: where each call stands, what it returned, what the
application did with its requests, whether the service is offered and whether the
callers' runtime runs; these are `status`, `answer`, `replied`, `offering` and `client`.
It knows neither session ids nor datagrams: a call returns at most once, and then
what the application gave for its own request, or that the service is gone, or that
its own request was bad. It fails only when the runtime ends or a newer call takes its place.

Bounds: three calls over two session ids in `rpc`, so that ids are used again; one
session id, a fire-and-forget and all other faults in `rpc_live`; a requests channel
of capacity one; one duplication at a time.

## 3. Runs

All runs finish in less than a minute, but for `pubsub_live`, `tcp_server` and
`offerings` (about two), `discovery` and `rpc` (about one and a half). Runs with expectation *violation* check
one statement that a document, comment or test of the repository makes and the
code does not keep; PROJECT.json quotes each.

| run | shows |
|---|---|
| `sd_session` | one peer, ids up to 3, two restarts, loss: while flags are not stale, one alarm per restart and none without; the inductive invariant; the first message of an incarnation is noticed |
| `sd_clustering` | every batch of up to three messages for two targets, cyclic offers with finds, and initial offers: while the indices suffice, each reader finds for every entry the endpoints it was built with, and TTLs of 24 bits |
| `discovery` | two finds under expiry, one loss, restart, cancellation, a full command channel and monitors that come and lag: no find misses its service, each ends, a monitor hears of what is known, and what is known follows what is offered |
| `pubsub` | two calls, one or two eventgroups, StopOffer, expiry, restart, cancellation, one loss: every answer is justified (`ImplementsSubscribeCall`), a waiting call is on the lists it should be on, and no two subscriptions share a port |
| `pubsub_live` | without loss or restart every call is answered, and offers renew what the server lets expire, for two calls that share eventgroups |
| `pubsub_loss` | *violation*: one lost message and an active subscription is renewed no more |
| `tcp_pool` | two calls, two services, two connections, RPC, failures, breaks, cleanups, StopOffers: no slot is shared within a service, no open connection drops out of the pool, nobody waits for an attempt to connect that nobody makes, a subscription is registered with a connection made for it or for RPC, every call ends although others fail and the event loop blocks |
| `tcp_shared` | *violation*: the StopOffer of one service closes the connection that another's subscription uses |
| `tcp_server` | two connections of one address: late cleanups take no sender from the newer one, a connection without a sender ends; after the last StopOffer the answers owed are sent, then the server task and all connections end; the event loop waits in a send, also of such an answer, only for a task that can go on or in a full circle, and never for good while no circle is full |
| `offerings` | three calls for two services, cancelled, dropped, with a full channel, events, finds, requests and shutdown: handles, events and sockets agree; what is announced is offered, but for a find answer that left after its service was withdrawn or replaced; announcements catch up, but for such an answer about a service that stays withdrawn; shutdown ends |
| `rpc` | three calls over two ids with copies and overtaking, dropped offerings and shutdown: a call returns what the application gave for it, or fails for a reason of its own (`ImplementsMethodCall`); for each call that waits something of it is under way or owed, unless it was lost |
| `rpc_live` | with loss, cancellation and either side going down, a call ends, unless a datagram of it was lost or dropped in silence |

**Statements the code does not keep, without a run in PROJECT.json.** Each has a
configuration that reproduces it; run it as `tlc -config X.cfg M`.

| configuration | statement, and what TLC finds |
|---|---|
| `MCSdSessionWrap.cfg` (`WrapIsNoReboot`) | tests/compliance/server_behavior/sd_session.rs:2956: a wrap is no reboot. A flag that was built before a wrap and is sent after it looks like one. |
| `MCSdSessionTwice.cfg` (`RebootAgainIsNoticed`) | sd_session.rs:1458: a second reboot is noticed. The message that betrays a restart clears both baselines, its own included; if the next one that arrives follows another restart, there is nothing to compare it with. |
| `MCPubSubIsolation.cfg` (`EventIsolation`) | runtime/client.rs:437: sockets isolate eventgroups. A port is reused while it is still registered at the server for an older eventgroup. |
| `MCPubSubReoffer.cfg` (`NoUnsolicitedEvents`) | DESIGN.md:53: no events without active subscriptions. Subscribers outlive the offering and are served by the next. |
| `MCTcpPoolRouting.cfg` (`EventsAreRouted`) | handles/client/subscription.rs:98: a subscription receives events. One that was given the RPC connection has another key than the connection, and gets none. |
| `MCDiscoveryFinds.cfg` (`UnavailableIsExhausted`) | handles/client/find.rs:114: NotAvailable means that all repetitions are used up. A second find with the same key, or a proxy of it that is dropped, ends the first at once. |
| `MCDiscoveryMonitor.cfg` (`GoneIsReported`) | handles/runtime.rs:438: a monitor hears of all activity. The services of a rebooted peer are forgotten without an event. |
| `MCOfferingsPorts.cfg` (`OneInstancePerPort`) | runtime/server.rs:103: each instance of a service must use a port of its own. Two instances get the same port when both share that of a third service, and a request cannot tell them apart. |
| `MCOfferingsTwice.cfg` (`LiveIsOffered`) | handles/runtime.rs:672: `start()` returns AlreadyOffered for a service that is offered. `handle_offer_command` replaces the offering, the first handle gets no more requests, and either handle's drop ends the offering. |
| `MCSdClusteringIndices.cfg` (`IndicesAreCorrect`) | runtime/event_loop.rs:1152: option indices are recalculated to point to the correct positions. Beyond 255 options they wrap, and entries point to the endpoints of others (TODO.md:94 knows). |

Some more were met in reading. With `Reorder`, two swapped datagrams look like a
restart, although TODO.md:126 names a threshold. A second call for an eventgroup that
is pending succeeds with the first one's ACK, before the server knows its port
(`runtime/state.rs:895`). A StopOffer forgets the subscription of a waiting call but
not its pending entry, so that a late ACK returns a handle to nothing
(`runtime/sd.rs:355`). These three are in the models. Not in the models:
`builder.rs:299` says that a Subscribe has the larger of the configured TTL and that
of the offer, `runtime/sd.rs:324` takes the configured one; a subscription may be
given the dedicated socket of another service's subscription, whose task passes
events to that one alone (`runtime/client.rs:491`); the task of a dedicated socket
notices that its subscription is gone only with the next event, so that a fixed port
stays taken (`runtime/client.rs:199`); a subscription that is dropped while the command
channel is full is never unsubscribed (`handles/client/subscription.rs:284`).

`CHECK_DEADLOCK FALSE` is set where a bound ends a behaviour (all calls made,
all restarts used up, all connections made), when every caller is done and nothing
is offered, or when a runtime has shut down. Symmetry is used only in `pubsub`, which checks no liveness.

**Fairness.** Common to all: `tokio::select!` in `event_loop.rs` picks among ready
branches at random, so that no queue starves; a task that is woken runs; timers
fire. So each queue an event loop reads, and each of its timers, has weak fairness.

- PubSub: also the server offers the service, and repeats offers for as long as it
  does (`handle_periodic`). Nothing is assumed of callers, of expiry, of loss or of
  StopOffers. `EveryCallAnswered` is checked without loss and restart, since the
  code has no timeout for a subscribe: with either, the caller may wait for ever.
- TcpPool: tasks take their steps and a connect ends one way or the other (the
  stack's timeout bounds it): weak fairness. The event loop takes the update of a
  task, but is not always free to while `send()` connects, so this is strong
  fairness of each call's `Commit` or `Reject`. Nothing is assumed of RPC, of breaks
  or cleanups.
- Discovery: for each service, its cyclic offer, and the expiry of one that stays
  withdrawn, since no offer renews it. Nothing is assumed of other expiry, of loss,
  restart, or of the application. `DiscoveryFollowsOffers` is conditional on a service that stays
  offered, or withdrawn; what happens before that is unrestricted.
- TcpServer: every task, one at a time; peers read what they are sent (`Write`) and
  the application answers (`Respond`, in `Loop`), also after the StopOffer, since a responder is
  used or dropped in the end. Nothing is assumed of reads, events and StopOffers:
  clients need not send. `UnsentEnds` and `LoopGoesOn` are conditional on
  `CircleNeverFull`, that for no connection as much as `Circle` is under way in the
  channels of the circle through it; without that condition TLC finds the full circle in which event
  loop, server task and connection task wait for one another.
- Offerings: the offer of each service is due some time (`CyclicOffer`); the application uses or
  drops each responder (`Answer`), without which a shutdown waits for ever; and the drain
  ends when nothing is owed (`Down`). The two properties need no more: nothing is assumed of commands, finds,
  the unicast batch, the flush of initial offers (the periodic turn flushes too) and socket tasks.
- Rpc: a datagram arrives or is lost (fairness of each call's datagrams); the
  application takes requests and uses or drops responders. Nothing is assumed of the other faults.

## 4. Proofs

All theorems hold for every value of the constants under the ASSUMEs of the
modules (finite sets of peers, finds, services and eventgroups, positive ids, bounds
and capacities, names that differ such as `Rpc` from a call) and, where it is said,
without one of the faults.

- `SdSession_proofs!TypeCorrect`.
- `SdSession_proofs!SessionCorrect` and `RestartNoticedOnce`, for channels that
  keep the order (`~Reorder`). `OneAlarmPerRestart` is not inductive: it says
  nothing of messages under way. `SessionInv` adds that everything under way is
  numbered behind the counter and in increasing order until the flag is
  cleared (`LinkInv`), that it follows what the peer remembers
  (`BaselineInv`), and that a peer that has acted on a restart remembers nothing
  older (`AlarmInv`). The step that needs care is `Flush`, where several peers
  draw from one counter that may wrap inside the batch; lemmas say what a run of
  draws yields.
- `PubSub_proofs!TypeCorrect`.
- `PubSub_proofs!PortsStayApart`: `OnePortPerSubscription`, strengthened with
  `PortInv` (ports of subscriptions are marked as used; a dedicated port is of
  the call it was bound for) and with what calls that have not begun cannot own.
- `PubSub_proofs!WaitersCorrect`: `WaiterInv` with type correctness and what
  `chosen` and `acked` hold for calls that are idle or done.
- `PubSub_proofs!Implementation`: `Spec => SubscribeCall!Spec` under the
  mapping, from `WaiterInv`; every action is a step of the abstract call, or a
  stutter.

- `TcpPool_proofs!TypeCorrect`.
- `TcpPool_proofs!SlotsStayApart`: `OneSubscriptionPerSlot` is strengthened to
  `SlotInv`: a call under way has its slot reserved, nobody else has the same
  one, and no subscription has a reserved slot.
- `TcpPool_proofs!OpenStaysPooled`: `OpenIsPooled` is strengthened to `PoolInv`:
  what is under a key was made for that key, the cell of a key is empty while
  somebody connects for it, and cleanups under way are about closed
  connections. So a cleanup cannot take an open connection out.
- `TcpPool_proofs!AttemptsCorrect`: `WaitersHaveDialer` is inductive, since who waits for a key
  has found its cell empty and an attempt under way, and one of those that wait makes the next
  attempt in the step in which one fails (`NextDials`).
- `TcpPool_proofs!ConnectionsAreOwn`: `RegisteredWithOwn`, strengthened with `LinkInv`
  (the connection that a task carries from `ensure_connected` to its commit was made for the
  slot it asked for) and `PoolInv`, for a pool whose cells are emptied and filled meanwhile.

- `TcpServer_proofs!TypeCorrect`: with the types, that no channel exceeds its
  capacity. It needs that a task that forwards has something to forward
  (`ForwardInv`), and that cleanups are of connections that have ended.
- `TcpServer_proofs!SendersStay`: the action property `SenderStays`. A late cleanup
  compares the connection, so it takes only the sender of a connection that has
  ended (`CleanupInv`).
- `TcpServer_proofs!WaitsOnlyInFullCircle`: `WaitsInFullCircle`, for any capacities. When
  the event loop waits, its channel to the server task is full. Either the server task is free,
  or it holds a message for one connection; either that connection has room or has
  ended, or its inbox is full too. Then its task can step, unless it waits to forward, and
  then the channel to the event loop is full as well. Adding up gives `Circle`. The
  invariant `CircleInv` supplies what the sum needs: the capacities, that a task that forwards holds
  a request (`ForwardInv`), that the server task is there while anything is sent to it or
  routed, a service is offered or an answer is owed (`LifeInv`), and that a message is routed to a connection that exists (`RoutesInv`).

- `Discovery_proofs!TypeCorrect`, and in it that no two requests have one key.
- `Discovery_proofs!NothingUnannounced`: `KnownIsAnnounced` is inductive: whatever
  becomes known is emitted in the same turn, a monitor starts with what is known, and a monitor that could miss an
  event is removed.
- `Discovery_proofs!NoFindMissed`: `WaitingInv`, strengthened with `KeyInv` (the
  request of a find has the key the find asked for). The heart of it is that
  `handle_find` answers from expired entries too, so that a request exists only
  while nothing it matches is known, and every offer that makes something known
  passes through the requests.

- `Offerings_proofs!TypeCorrect`; the lemmas about `Attempts` say what the search for a
  port returns, for any port range.
- `Offerings_proofs!AnnouncedIsOffered`: `AnnouncedInv`, strengthened with `QuietInv`: an answer
  that waits says what is offered, or its service is in `outdated`; and a runtime that shuts
  down announces nothing but what a late answer said. It holds for any finds, and shows that
  an answer is false only when its service was withdrawn or replaced after the find.
- `Offerings_proofs!SocketsStay`: `SocketsInv` is inductive.
- `Offerings_proofs!HandlesCorrect`: `HandleInv`, if `"twice" \notin Faults`. It is
  strengthened to `UpInv`: of the calls for one service one is asked for or live, and
  nothing in the command channel that concerns the service comes after its offer
  (`ChannelInv`). So a StopOffer that waits in the channel is always an older
  handle's and has been taken when the next offer is answered.

- `Rpc_proofs!TypeCorrect` and `OwedCorrect`: a request that waits in the channel is owed
  its response, and a runtime that ended owes none. `OwedInv` is inductive; it supports
  `NoneForgotten` and is stated in the proofs' module.
- `Rpc_proofs!NoForeignFailure`: `FailInv`, strengthened with `PendingInv`: a waiting
  call has its entry, under its own id.
- `Rpc_proofs!NoCallForgotten`: `NoneForgotten`, under every fault and however often ids are
  used again. With `OwedInv` and `PendingInv` it needs `SidInv`: whatever is under way or owed of a
  call bears the id the call was registered under, so that what it hopes for finds
  its entry, and ends the call rather than being thrown away.
- `Rpc_proofs!OwnAnswer`: `AnswerInv`, if no id is used again while something with it is
  under way. Either `Faults` rules that out (no `"reuse"`), or there are no more
  calls than ids (`FewCalls`): then `DrawInv` says that the ids drawn so far are as many as the calls
  made, and lie behind the counter, so that each is fresh (`DrawnFresh`). `AnswerInv` is strengthened to
  `AnswerIInv`: whatever is under way with an id of a pending entry is of that entry's call
  (`MatchInv`), and every response says what the application did (`ReplyInv`).
  With `"reuse"` and more calls TLC finds a late response that answers a newer call.
- `Rpc_proofs!Implementation`: `Spec => MethodCall!Spec` under the mapping and the same
  condition. `RpcInv` joins `AnswerIInv`, `PendingInv` and `MadeInv` (what is under way, owed or replied
  is of a call that was made). `Call` is `Make`, where the replaced call is that of the old
  entry; `HandleResponse` is `Return` or a stutter; `UseResponder` and the
  drain of a dropped offering are `Serve`; everything between is a stutter.

- `SdClustering_proofs!TypeCorrect`, with the widths of indices, TTLs and counts, also of
  batches that outgrow them.
- `SdClustering_proofs!MessagesAreRead`: `ReadAsMeant`, for batches of any length. The
  library's induction theorems cannot be used, since they have an operator as a
  parameter; so induction is derived from the well-foundedness of < on the
  numbers (`SetInduction`), and with it that the recursive functions of
  the model exist. The invariant of the loops is `Sound`: as long as indices suffice, each
  entry of the cluster so far is read as meant. Merging preserves it, because options that are added behind
  do not change what an entry finds (`PrefixReading`), and a run of options that moves together with
  its index does not either (`ShiftedReading`).

`SdSession_proofs!FirstMessageNoticed` proves the action property
`FirstMessageIsNoticed` for every kind of channel, also one that reorders, from the fact
that what a peer remembers is an id, so at least 1 (`NotedInv`).

Only model-checked:

- liveness: `EveryCallAnswered`, `ActiveIsServed`, `EveryCallEnds`, `UnsentEnds`,
  `LoopGoesOn`, `FindEnds`, `DiscoveryFollowsOffers`, `AnnouncementsCatchUp`,
  `ShutdownEnds` and `CallsEnd`, which are out of the prover's reach;
- the violations.

## 5. Not modelled, and what is left

Left, in this order:

1. In `PubSub`: several services on one socket, fixed ports and the choice of a
   transport, which is where the misrouting of `runtime/client.rs:491` would show; the
   reboot of the client at the server (`expire_server_subscriptions`), the
   application's channel of subscribers, and a full command channel. They are left
   out because each multiplies the states of the runs.
2. TCP subscriptions as a composition of `PubSub` with the slots of `TcpPool`: so far their
   SD answers are checked for UDP, and their connections without answers.
3. Delivery of events into bounded channels of subscriptions: a handful of
   `try_send`s without further state.
4. In `Discovery`: several services, whose finds and events would only add to one
   another.
5. In `TcpServer`: several peers at once. The proofs cover them; the run has one.

Not planned: magic cookies and the framing of byte streams, byte layout and parsing
errors of `wire.rs` (bytes are below the level of the models; what decides meaning,
the indices, counts and TTLs, is in `SdClustering`); the network abstraction and
its simulator (no state of their own); the builders of `builder.rs` and `config.rs`
beyond the clamping of TTLs (values validated once); the construction of the
runtime; the lints in `someip-lints/`, scripts, examples.
