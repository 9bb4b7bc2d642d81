----------------------------- MODULE Offerings -----------------------------
(***************************************************************************)
(* The services a runtime offers: the handles of the application, the      *)
(* commands they send, the ports the event loop binds or shares for them,  *)
(* and what Service Discovery announces of them, by multicast and in the   *)
(* answers to the finds of a peer, which wait in the unicast batch.        *)
(*                                                                         *)
(* A call is one OfferBuilder::start and the ServiceOffering it returns.   *)
(* Ports are 1..MaxPort and 0 in a configuration means "any port".  An     *)
(* optional port is a set with at most one element.                        *)
(***************************************************************************)
EXTENDS Naturals, Sequences, FiniteSets

CONSTANTS Calls,     \* calls of OfferBuilder::start
          Services,  \* service ids
          Instances, \* instance ids, together with the major version
          Events,    \* event ids
          MaxPort,   \* u16::MAX
          FirstPort, \* where the search for a port starts
          CmdCap,    \* capacity of the command channel
          MaxOwed,   \* bound: responses the application owes at a time
          MaxHandles,\* bound: EventHandles the application creates
          Sought,    \* the service ids that peers look for
          key,       \* the service and instance a call offers
          config,    \* the ports a call asks for, for each transport
          others,    \* ports that other processes hold, for each transport
          Faults     \* what may happen: "cancel", "full", "twice", "find"

Keys == Services \X Instances
Transports == {"udp", "tcp"}
Ports == 1..MaxPort
Endpoints == [Transports -> SUBSET Ports]
Nowhere == [t \in Transports |-> {}]

ASSUME OfferingsAssumption ==
  /\ MaxPort \in Nat \ {0}
  /\ FirstPort \in Ports
  /\ CmdCap \in Nat \ {0}
  /\ MaxOwed \in Nat
  /\ MaxHandles \in Nat
  /\ Sought \subseteq Services
  /\ key \in [Calls -> Keys]
  /\ config \in [Calls -> [Transports -> SUBSET (0..MaxPort)]]
  /\ others \in [Transports -> SUBSET Ports]

VARIABLES
  handle,    \* what became of each call: new, asked, live, refused, dropped;
             \* orphan when start() was cancelled, lost when the StopOffer was
  commands,  \* the command channel
  offered,   \* the endpoints of each offered service
  registered,\* registered_events of each service
  granted,   \* the EventHandles: the call whose service they were created for
  owner,     \* the call whose ServiceOffering gets a service's requests
  initial,   \* the services in pending_initial_offers
  nextPort,  \* next_server_rpc_port
  listening, \* the ports this runtime's socket tasks hold
  told,      \* the endpoints the last SD message about a service announced
             \* to a peer that hears all of them
  answers,   \* what the last find answer in pending_unicast_sd says of a service
  outdated,  \* history: services with an answer in the batch that were
             \* withdrawn or replaced since
  late,      \* history: services of which the last message was such an answer
  owed,      \* accepted requests that are not answered, with their port
  phase      \* up, draining or down

finds == <<answers, outdated, late>>
vars == <<handle, commands, offered, owner, registered, granted, initial,
          nextPort, listening, told, finds, owed, phase>>

Commands == [op : {"offer", "stop"}, call : Calls]
              \cup [op : {"register"}, call : Calls, event : Events]
Service(k) == k[1]
Offered == {k \in Keys : offered[k] # Nowhere}

\* Mutant: a response does not keep the socket.
InUseByOffers(t) == UNION {offered[k][t] : k \in Keys}

\* The transport senders that keep the socket of a port open.
InUse(t) == (UNION {offered[k][t] : k \in Keys})
              \cup {r.port : r \in {o \in owed : o.transport = t}}

Init ==
  /\ handle = [c \in Calls |-> "new"]
  /\ commands = <<>>
  /\ offered = [k \in Keys |-> Nowhere]
  /\ owner = [k \in Keys |-> {}]
  /\ registered = [k \in Keys |-> {}]
  /\ granted = {}
  /\ initial = {}
  /\ nextPort = FirstPort
  /\ listening = Nowhere
  /\ told = [k \in Keys |-> Nowhere]
  /\ answers = [k \in Keys |-> Nowhere]
  /\ outdated = {} /\ late = {}
  /\ owed = {}
  /\ phase = "up"

-----------------------------------------------------------------------------
(***************************************************************************)
(* The application.                                                        *)
(***************************************************************************)

\* OfferBuilder::start waits for room in the command channel.  Unless "twice"
\* is given, a service is offered again only when the last handle of it is
\* gone.
Start(c) ==
  /\ handle[c] = "new"
  /\ phase # "down"
  /\ Len(commands) < CmdCap
  /\ \/ "twice" \in Faults
     \/ \A d \in Calls : key[d] = key[c] => handle[d] \notin {"asked", "live"}
  /\ handle' = [handle EXCEPT ![c] = "asked"]
  /\ commands' = Append(commands, [op |-> "offer", call |-> c])
  /\ UNCHANGED <<offered, owner, registered, granted, initial, nextPort, listening, told, finds, owed, phase>>

\* The future of start() is dropped after its command was sent: the answer,
\* and with it the receiver of the requests, goes nowhere.  Dropping it just
\* after the answer was sent comes to the same.
Cancel(c) ==
  /\ "cancel" \in Faults
  /\ handle[c] = "asked"
  /\ handle' = [handle EXCEPT ![c] = "orphan"]
  /\ UNCHANGED <<commands, offered, owner, registered, granted, initial, nextPort, listening, told, finds, owed, phase>>

\* Drop of a ServiceOffering uses try_send: with a full channel the
\* StopOffer is lost.
Drop(c) ==
  /\ handle[c] = "live"
  /\ \/ /\ phase # "down"
        /\ Len(commands) < CmdCap
        /\ handle' = [handle EXCEPT ![c] = "dropped"]
        /\ commands' = Append(commands, [op |-> "stop", call |-> c])
     \/ /\ phase # "down" => "full" \in Faults /\ Len(commands) = CmdCap
        /\ handle' = [handle EXCEPT ![c] = "lost"]
        /\ UNCHANGED commands
  /\ UNCHANGED <<offered, owner, registered, granted, initial, nextPort, listening, told, finds, owed, phase>>

\* EventBuilder::create; the builder may outlive its ServiceOffering.
Create(c, e) ==
  /\ handle[c] \in {"live", "dropped", "lost"}
  /\ phase # "down"
  /\ Len(commands) < CmdCap
  /\ <<c, e>> \notin granted
  /\ Cardinality(granted) < MaxHandles
  /\ \A i \in 1..Len(commands) : commands[i].op # "register"
  /\ commands' = Append(commands, [op |-> "register", call |-> c, event |-> e])
  /\ UNCHANGED <<handle, offered, owner, registered, granted, initial, nextPort,
                 listening, told, finds, owed, phase>>

-----------------------------------------------------------------------------
(***************************************************************************)
(* Ports.                                                                  *)
(***************************************************************************)

\* find_shareable_udp_socket, find_shareable_tcp_socket: a socket of another
\* service id, for a given port or, for UDP only, any.
Shareable(t, c) ==
  {p \in Ports : /\ \E k \in Keys : Service(k) # Service(key[c]) /\ p \in offered[k][t]
                 /\ p \in config[c][t] \/ (t = "udp" /\ 0 \in config[c][t])}

Free(t) == Ports \ (listening[t] \cup others[t])

\* Mutant: the port after the last one is not the first.
AfterNoWrap(p) == p + 1

After(p) == IF p = MaxPort THEN 1 ELSE p + 1

\* How many ports a search that starts at p has passed when it tries q.
Distance(p, q) == IF q >= p THEN q - p ELSE MaxPort - p + q

FirstFree(t, from, p) ==
  p \in Free(t) /\ \A q \in Free(t) : Distance(from, p) <= Distance(from, q)

\* What handle_offer_command may get for one transport: nothing when none is
\* asked for, a shared socket, the first free port of a search that starts at
\* "from", or the port that is given; else it fails.
Attempts(t, c, from) ==
  LET got(p, next) == [ok |-> TRUE, ports |-> {p}, next |-> next]
      shared == {got(p, from) : p \in Shareable(t, c)}
      found  == {got(p, After(p)) :
                   p \in {q \in Ports : 0 \in config[c][t] /\ FirstFree(t, from, q)}}
      given  == {got(p, from) : p \in config[c][t] \cap Free(t)}
  IN CASE config[c][t] = {}      -> {[ok |-> TRUE, ports |-> {}, next |-> from]}
       [] shared # {}            -> shared
       [] found \cup given # {}  -> found \cup given
       [] OTHER                  -> {[ok |-> FALSE, ports |-> {}, next |-> from]}

-----------------------------------------------------------------------------
(***************************************************************************)
(* The event loop.                                                         *)
(***************************************************************************)

\* An answer in the batch is not asked again whether it is still true.
Overtaken(k) == IF answers[k] = Nowhere THEN outdated ELSE outdated \cup {k}

\* The binding of TCP is tried when that of UDP succeeded; a socket bound
\* for UDP is dropped when TCP fails.
Offer(c, u, b) ==
  /\ commands' = Tail(commands)
  /\ nextPort' = b.next
  /\ listening' = [listening EXCEPT !["udp"] = @ \cup u.ports,
                                    !["tcp"] = @ \cup (IF u.ok THEN b.ports ELSE {})]
  /\ LET eps == [t \in Transports |-> IF t = "udp" THEN u.ports ELSE b.ports]
         answered(s) == handle' = [handle EXCEPT ![c] = IF @ = "asked" THEN s ELSE @]
     IN \/ /\ b.ok /\ eps # Nowhere
           /\ offered' = [offered EXCEPT ![key[c]] = eps]
           /\ owner' = [owner EXCEPT ![key[c]] = {c}]
           /\ initial' = initial \cup {key[c]}
           /\ outdated' = Overtaken(key[c])
           /\ answered("live")
        \/ /\ ~b.ok \/ eps = Nowhere
           /\ answered("refused")
           /\ UNCHANGED <<offered, owner, initial, outdated>>
  /\ UNCHANGED <<registered, granted, told, answers, late, owed, phase>>

\* The offering goes, with whoever gets its requests.
Remove(k) ==
  /\ offered' = [offered EXCEPT ![k] = Nowhere]
  /\ owner' = [owner EXCEPT ![k] = {}]
  /\ outdated' = Overtaken(k)

Forget(k) == registered' = [registered EXCEPT ![k] = {}]

\* The multicast StopOffer is sent at once.
SayGone(k) ==
  /\ told' = [told EXCEPT ![k] = Nowhere]
  /\ late' = late \ {k}

\* Mutants: a service with an initial offer pending is thought not to be
\* announced; registered events stay; no StopOffer is sent.
WithdrawPendingQuietly(k) ==
  /\ Remove(k) /\ Forget(k)
  /\ IF k \in Offered \ initial THEN SayGone(k) ELSE UNCHANGED <<told, late>>

WithdrawKeepsEvents(k) ==
  /\ Remove(k) /\ UNCHANGED registered
  /\ IF k \in Offered THEN SayGone(k) ELSE UNCHANGED <<told, late>>

WithdrawSilently(k) == Remove(k) /\ Forget(k) /\ UNCHANGED <<told, late>>

\* handle_stop_offer: the key stays in pending_initial_offers, and answers in
\* the unicast batch.
Withdraw(k) ==
  /\ Remove(k) /\ Forget(k)
  /\ IF k \in Offered THEN SayGone(k) ELSE UNCHANGED <<told, late>>

StopOffer(c) ==
  /\ commands # <<>> /\ Head(commands) = [op |-> "stop", call |-> c]
  /\ phase = "up"
  /\ commands' = Tail(commands)
  /\ Withdraw(key[c])
  /\ UNCHANGED <<handle, granted, initial, nextPort, listening, answers, owed, phase>>

\* handle_register_event: an event id is registered once, for a service that
\* is offered.  A cancelled create() leaves it registered without a handle.
RegisterEvent(c, e) ==
  /\ commands # <<>> /\ Head(commands) = [op |-> "register", call |-> c, event |-> e]
  /\ phase = "up"
  /\ commands' = Tail(commands)
  /\ \/ /\ key[c] \in Offered
        /\ e \notin registered[key[c]]
        /\ registered' = [registered EXCEPT ![key[c]] = @ \cup {e}]
        /\ \/ granted' = granted \cup {<<c, e>>}
           \/ "cancel" \in Faults /\ UNCHANGED granted
     \/ /\ key[c] \notin Offered \/ e \in registered[key[c]]
        /\ UNCHANGED <<registered, granted>>
  /\ UNCHANGED <<handle, offered, owner, initial, nextPort, listening, told, finds, owed, phase>>

\* Offers of the services in ks are multicast.
Announce(ks) ==
  /\ told' = [k \in Keys |-> IF k \in ks THEN offered[k] ELSE told[k]]
  /\ late' = late \ ks

\* flush_pending_initial_offers skips the keys that are no longer offered.
\* Whether and when a deadline for the initial offers is set depends on the
\* clock: they may be flushed at any time.
FlushInitial ==
  /\ phase = "up"
  /\ initial # {}
  /\ Announce(Offered \cap initial)
  /\ initial' = {}
  /\ UNCHANGED <<handle, commands, offered, owner, registered, granted, nextPort, listening,
                 answers, outdated, owed, phase>>

\* The periodic turn flushes and then repeats the offers in due, those whose
\* last offer is half a cycle old.
Periodic(due) ==
  /\ phase = "up"
  /\ Announce(due \cup (Offered \cap initial))
  /\ initial' = {}
  /\ UNCHANGED <<handle, commands, offered, owner, registered, granted, nextPort, listening,
                 answers, outdated, owed, phase>>

\* handle_find_request: an offer of each service that matches, made of what is
\* offered now, is put in the unicast batch.  A find is for one instance or any.
HandleFind(s, is) ==
  /\ "find" \in Faults
  /\ phase = "up"
  /\ LET found == {k \in Offered : Service(k) = s /\ k[2] \in is}
     IN  /\ found # {}
         /\ answers'  = [k \in Keys |-> IF k \in found THEN offered[k] ELSE answers[k]]
         /\ outdated' = outdated \ found
  /\ UNCHANGED <<handle, commands, offered, owner, registered, granted, initial, nextPort,
                 listening, told, late, owed, phase>>

\* flush_pending_unicast_sd sends the answers as they are, whatever became of
\* the services; a runtime that shuts down does not get to it.
FlushUnicast ==
  LET answered == {k \in Keys : answers[k] # Nowhere}
  IN  /\ phase = "up" /\ answered # {}
      /\ told' = [k \in Keys |-> IF k \in answered THEN answers[k] ELSE told[k]]
      /\ late' = (late \ answered) \cup outdated
      /\ answers' = [k \in Keys |-> Nowhere]
      /\ outdated' = {}
      /\ UNCHANGED <<handle, commands, offered, owner, registered, granted, initial, nextPort,
                     listening, owed, phase>>

\* handle_incoming_request finds the offering by service id and port; the
\* response keeps a sender of the socket it has to be sent from.
Request(k, t, p) ==
  /\ phase = "up"
  /\ p \in offered[k][t]
  /\ [key |-> k, transport |-> t, port |-> p] \notin owed
  /\ \E c \in owner[k] : handle[c] = "live"
  /\ Cardinality(owed) < MaxOwed
  /\ owed' = owed \cup {[key |-> k, transport |-> t, port |-> p]}
  /\ UNCHANGED <<handle, commands, offered, owner, registered, granted, initial, nextPort, listening, told, finds, phase>>

\* Mutant: nobody reads the responders of a runtime that shuts down.
RespondWhileUp(o) ==
  /\ o \in owed
  /\ phase = "up"
  /\ owed' = owed \ {o}
  /\ UNCHANGED <<handle, commands, offered, owner, registered, granted, initial, nextPort,
                 listening, told, finds, phase>>

\* The responder is used or dropped: the response goes out, whether or not
\* the service is still offered.
Respond(o) ==
  /\ o \in owed
  /\ phase \in {"up", "draining"}
  /\ owed' = owed \ {o}
  /\ UNCHANGED <<handle, commands, offered, owner, registered, granted, initial, nextPort, listening, told, finds, phase>>

\* The task of a socket ends when the last sender of it is gone.
SocketTaskEnds(t, p) ==
  /\ p \in listening[t] \ InUse(t)
  /\ listening' = [listening EXCEPT ![t] = @ \ {p}]
  /\ UNCHANGED <<handle, commands, offered, owner, registered, granted, initial, nextPort, told, finds, owed, phase>>

\* Command::Shutdown: send_stop_offers, then the pending responses are awaited.
Shutdown ==
  /\ phase = "up"
  /\ phase' = "draining"
  /\ told' = [k \in Keys |-> IF k \in Offered THEN Nowhere ELSE told[k]]
  /\ late' = late \ Offered
  /\ UNCHANGED <<handle, commands, offered, owner, registered, granted, initial, nextPort,
                 listening, answers, outdated, owed>>

\* The event loop ends and drops its state.
Down ==
  /\ phase = "draining"
  /\ owed = {}
  /\ phase' = "down"
  /\ offered' = [k \in Keys |-> Nowhere]
  /\ owner' = [k \in Keys |-> {}]
  /\ registered' = [k \in Keys |-> {}]
  /\ initial' = {}
  /\ commands' = <<>>
  /\ handle' = [c \in Calls |-> IF handle[c] = "asked" THEN "refused" ELSE handle[c]]
  /\ answers' = [k \in Keys |-> Nowhere] /\ outdated' = {}
  /\ UNCHANGED <<granted, nextPort, listening, told, late, owed>>

-----------------------------------------------------------------------------
Application == \E c \in Calls :
                 \/ Start(c) \/ Cancel(c) \/ Drop(c)
                 \/ \E e \in Events : Create(c, e)

Command == \E c \in Calls :
             \/ /\ phase = "up"
                /\ commands # <<>> /\ Head(commands) = [op |-> "offer", call |-> c]
                /\ \E u \in Attempts("udp", c, nextPort) :
                     \E b \in IF u.ok THEN Attempts("tcp", c, u.next) ELSE {u} : Offer(c, u, b)
             \/ StopOffer(c)
             \/ \E e \in Events : RegisterEvent(c, e)

Turn == \E due \in SUBSET Offered : Periodic(due)

\* The periodic turn in which the offer of k is due.
CyclicOffer(k) == \E due \in SUBSET Offered : k \in due /\ Periodic(due)

Find == \E s \in Sought : HandleFind(s, Instances) \/ \E i \in Instances : HandleFind(s, {i})

Serve == \E k \in Keys, t \in Transports, p \in Ports : Request(k, t, p)

Answer == \E o \in owed : Respond(o)

SocketEnds == \E t \in Transports, p \in Ports : SocketTaskEnds(t, p)

Next == \/ Application \/ Command \/ FlushInitial \/ Turn \/ Find \/ FlushUnicast
        \/ Serve \/ Answer \/ SocketEnds \/ Shutdown \/ Down

Spec == Init /\ [][Next]_vars

\* tokio::select! takes each ready branch in the end, the interval timer
\* fires and each offer is due some time, and a responder is used or dropped.
Fairness ==
  /\ \A k \in Keys : WF_vars(CyclicOffer(k))
  /\ WF_vars(Answer)
  /\ WF_vars(Down)

FairSpec == Spec /\ Fairness

-----------------------------------------------------------------------------
(***************************************************************************)
(* Properties.                                                             *)
(***************************************************************************)

TypeOK ==
  /\ handle \in [Calls -> {"new", "asked", "live", "refused", "dropped", "orphan", "lost"}]
  /\ commands \in Seq(Commands)
  /\ offered \in [Keys -> Endpoints]
  /\ owner \in [Keys -> SUBSET Calls]
  /\ registered \in [Keys -> SUBSET Events]
  /\ granted \subseteq Calls \X Events
  /\ initial \subseteq Keys
  /\ nextPort \in Ports
  /\ listening \in Endpoints
  /\ told \in [Keys -> Endpoints] /\ answers \in [Keys -> Endpoints]
  /\ outdated \subseteq Keys /\ late \subseteq Keys
  /\ owed \subseteq [key : Keys, transport : Transports, port : Ports]
  /\ phase \in {"up", "draining", "down"}

\* What the last SD message said of a service is what the service is, unless
\* an initial offer of it still waits, and nothing is announced that is not
\* offered, whatever was offered, stopped and offered again in between.  The
\* only exception (late) is an answer to a find that waited in the batch when
\* the service was withdrawn or replaced, and left afterwards; any other answer
\* is true when it leaves.
AnnouncedInv ==
  /\ \A k \in Keys : told[k] # Nowhere => k \in Offered \cup late
  /\ phase = "up" => \A k \in Keys : told[k] # offered[k] => k \in initial \cup late

\* A ServiceOffering in use is the one its service is offered for, with the
\* events created for it; no event outlives its service; and a service
\* without one in use is about to be stopped, or its handle was lost with a
\* full command channel or a cancelled start().
HandleInv ==
  phase = "up" =>
    /\ \A c \in Calls : handle[c] = "live" =>
         /\ owner[key[c]] = {c}
         /\ \A e \in Events : <<c, e>> \in granted => e \in registered[key[c]]
    /\ \A k \in Keys : registered[k] # {} => owner[k] # {}
    /\ \A k \in Keys : \A c \in owner[k] :
         \/ handle[c] \in {"live", "orphan", "lost"}
         \/ \E i \in 1..Len(commands) : commands[i] = [op |-> "stop", call |-> c]

\* Neither an offered endpoint nor the port a response has to be sent from is
\* ever without its socket, however services share ports and come and go.
SocketsInv ==
  \A t \in Transports :
    /\ \A k \in Keys : offered[k][t] \subseteq listening[t]
    /\ \A o \in owed : o.transport = t => o.port \in listening[t]
    /\ listening[t] \cap others[t] = {}

\* Again and again, what is announced is what is offered; the cyclic offers
\* repair what an answer that left too late said of a service that is offered.
\* Of one that stays withdrawn nothing does: it is announced until its
\* TTL ends.
AnnouncementsCatchUp == []<>(\A k \in Keys : told[k] = offered[k] \/ k \in late \ Offered)

\* A runtime that is shut down ends, once its application has used or dropped
\* the responders it holds.
ShutdownEnds == phase = "draining" ~> phase = "down"
=============================================================================
