----------------------------- MODULE Discovery -----------------------------
(***************************************************************************)
(* Service discovery: a client runtime with the finds of its application,  *)
(* a server runtime that offers instances of one service, and the SD       *)
(* messages between them.                                                  *)
(*                                                                         *)
(* A message holds the entries of one turn.  Finds, and offers with        *)
(* StopOffers, travel by multicast; the offers that answer a find by       *)
(* unicast, after they have waited in pending_unicast_sd, which is taken   *)
(* as a part of that queue.  Each queue keeps its order, they overtake one *)
(* another.  Time is abstracted away: a TTL may run out, and an interval   *)
(* may have passed or not, at each turn of the periodic handler.           *)
(***************************************************************************)
EXTENDS Naturals, Sequences, FiniteSets

CONSTANTS
  Instances, Majors,       \* instance ids and major versions
  AnyInstance, AnyMajor,   \* the wildcards 16#FFFF and 16#FF
  Searches,                \* what the finds may search for, all taken together
  Finds,                   \* the calls of find()
  Repetitions,             \* DEFAULT_FIND_REPETITIONS
  Faults,                  \* what may go wrong, see Fault
  MaxLoss,                 \* bound: messages the network loses
  MaxFlight                \* bound: messages in one queue

Fault == {"expiry", "restart", "cancel", "full", "lag"}

ASSUME WildcardAssumption == AnyInstance \notin Instances /\ AnyMajor \notin Majors
ASSUME FaultAssumption    == Faults \subseteq Fault
ASSUME BoundAssumption    ==
  Repetitions \in Nat /\ MaxLoss \in Nat /\ MaxFlight \in Nat \ {0}

\* ServiceKey, of a service and of a search.
Key       == [instance: Instances, major: Majors]
SearchKey == [instance: Instances \cup {AnyInstance}, major: Majors \cup {AnyMajor}]

ASSUME SearchesAssumption == 
  Searches \subseteq [Finds -> SearchKey] /\ IsFiniteSet(Finds)

\* FindRequest, with the find whose channel notify is.
Request == [key: SearchKey, find: Finds, left: 0..Repetitions]
Command == [kind: {"find", "stop_find"}, find: Finds]
Message == [kind: {"offer", "stop_offer"}, keys: SUBSET Key]

VARIABLES
  \* The client: RuntimeState, and the callers.
  discovered, \* discovered[k]: "no", "alive", or "expired" and not yet removed
  requests,   \* find_requests
  criterion,  \* criterion[f]: the search key of find f
  outcome,    \* outcome[f]: where find f stands; "dropped" with its future or its proxy
  commands,   \* the command channel, as far as finds use it
  monitored,  \* is a monitor of the application in sd_monitors?
  view,       \* the services that were known when it was added and that its
              \* events leave available, with those they added
  \* The server.
  offered,    \* the services in offered that are announcing
  \* The network.
  finds,      \* multicast: the search keys of each Find message
  offers,     \* multicast: offers and StopOffers
  answers,    \* unicast: the services of each answer
  reborn,     \* has the server restarted, unnoticed by the client?
  losses      \* messages lost so far

callers == <<criterion, outcome>>
monitor == <<monitored, view>>
network == <<finds, offers, answers, losses>>
vars == <<discovered, requests, callers, commands, monitor, offered, network, reborn>>

Init ==
  /\ discovered = [k \in Key |-> "no"] /\ requests = {}
  /\ criterion \in Searches
  /\ outcome = [f \in Finds |-> "idle"]
  /\ commands = <<>>
  /\ monitored = FALSE /\ view = {}
  /\ offered = {}
  /\ finds = <<>> /\ offers = <<>> /\ answers = <<>>
  /\ reborn = FALSE /\ losses = 0

\* ServiceKey::matches.
Matches(c, k) == /\ c.instance \in {k.instance, AnyInstance}
                 /\ c.major \in {k.major, AnyMajor}

Known == {k \in Key : discovered[k] # "no"}

\* send_to, to a queue that has room; nothing is sent without entries.
SendOn(queue, entries, m) ==
  IF entries = {} THEN queue' = queue
  ELSE Len(queue) < MaxFlight /\ queue' = Append(queue, m)

\* The outcomes when some of the waiting finds get a service, and the senders
\* of others go with their requests: recv() then returns None.
Outcomes(notified, closed) ==
  outcome' = [f \in Finds |-> IF outcome[f] # "waiting" THEN outcome[f]
                              ELSE IF f \in notified    THEN "found"
                              ELSE IF f \in closed      THEN "unavailable"
                              ELSE outcome[f]]

\* The finds whose request is gone.
Closed(left) == {r.find : r \in requests} \ {r.find : r \in left}

\* Action::EmitSdEvent: try_send, and a monitor whose channel is full is
\* removed.
EmitOrSkip(available) ==
  /\ monitored' = monitored
  /\ \/ view' = available
     \/ "lag" \in Faults /\ view' = view
Emit(available) ==
  \/ monitored' = monitored /\ view' = IF monitored THEN available ELSE view
  \/ "lag" \in Faults /\ monitored' = FALSE /\ view' = {}

-----------------------------------------------------------------------------
(* The application.                                                        *)

\* await_discovery sends Command::Find.
Find(f) ==
  /\ outcome[f] = "idle"
  /\ outcome'  = [outcome EXCEPT ![f] = "waiting"]
  /\ commands' = Append(commands, [kind |-> "find", find |-> f])
  /\ UNCHANGED <<discovered, requests, criterion, monitor, offered, network, reborn>>

\* The future is dropped: nothing stops the find.
Cancel(f) ==
  /\ "cancel" \in Faults
  /\ outcome[f] = "waiting"
  /\ outcome' = [outcome EXCEPT ![f] = "dropped"]
  /\ UNCHANGED <<discovered, requests, criterion, commands, monitor, offered,
                 network, reborn>>

\* Drop for OfferedService: Command::StopFind, unless the channel is full.
DropProxy(f) ==
  /\ outcome[f] = "found"
  /\ outcome' = [outcome EXCEPT ![f] = "dropped"]
  /\ \/ commands' = Append(commands, [kind |-> "stop_find", find |-> f])
     \/ "full" \in Faults /\ commands' = commands
  /\ UNCHANGED <<discovered, requests, criterion, monitor, offered, network, reborn>>

-----------------------------------------------------------------------------
(* The client's event loop.                                                *)

\* What a find is answered with at once: entries of discovered, alive or not.
AnswerableAlive == {k \in Key : discovered[k] = "alive"}
Answerable      == Known

\* A request takes the place of any other with the same key, in find_requests.
RequestsButExhausted(c) == {r \in requests : r.key # c \/ r.left > 0}
RequestsBut(c) == {r \in requests : r.key # c}

\* handle_find: the find is answered, or its request is made and sent.
HandleFind ==
  LET f    == Head(commands).find
      c    == criterion[f]
      left == RequestsBut(c)
  IN  /\ commands # <<>> /\ Head(commands).kind = "find"
      /\ commands' = Tail(commands)
      /\ IF \E k \in Answerable : Matches(c, k)
         THEN /\ Outcomes({f}, {})
              /\ UNCHANGED <<requests, finds>>
         ELSE /\ requests' = left \cup {[key |-> c, find |-> f, left |-> Repetitions]}
              /\ Outcomes({}, Closed(left))
              /\ SendOn(finds, {c}, {c})
      /\ UNCHANGED <<discovered, criterion, monitor, offered, offers, answers,
                     reborn, losses>>

\* handle_stop_find: the request with that key goes, whoever made it.
HandleStopFind ==
  LET left == RequestsBut(criterion[Head(commands).find])
  IN  /\ commands # <<>> /\ Head(commands).kind = "stop_find"
      /\ commands' = Tail(commands)
      /\ requests' = left
      /\ Outcomes({}, Closed(left))
      /\ UNCHANGED <<discovered, criterion, monitor, offered, network, reborn>>

\* Command::MonitorSd, one monitor at a time; it is not told of the services
\* that are known already.
MonitorSd ==
  /\ ~monitored
  /\ monitored' = TRUE /\ view' = Known
  /\ UNCHANGED <<discovered, requests, callers, commands, offered, network, reborn>>

\* expire_services_from_rebooted_peer, when the message is the first since
\* the server restarted: services are forgotten, and requests for exactly
\* them; monitors are not told.
Remembered   == IF reborn THEN {} ELSE Known
RequestsKept == {r \in requests : ~(reborn /\ r.key \in Known)}

\* handle_offer, for each entry of the message: a service that was not known
\* is passed to every request it matches.
ReceiveOffers(K) ==
  LET new == K \ Remembered
  IN  /\ reborn' = FALSE
      /\ discovered' = [k \in Key |-> IF k \in K THEN "alive"
                                      ELSE IF k \in Remembered THEN discovered[k]
                                      ELSE "no"]
      /\ requests' = RequestsKept
      /\ Outcomes({r.find : r \in {q \in RequestsKept : \E k \in new : Matches(q.key, k)}},
                  Closed(RequestsKept))
      /\ IF new = {} THEN UNCHANGED monitor ELSE Emit(view \cup new)
      /\ UNCHANGED <<criterion, commands, offered, finds, losses>>

ReceiveMulticastOffers ==
  /\ offers # <<>> /\ Head(offers).kind = "offer"
  /\ offers' = Tail(offers) /\ UNCHANGED answers
  /\ ReceiveOffers(Head(offers).keys)

ReceiveAnswer ==
  /\ answers # <<>>
  /\ answers' = Tail(answers) /\ UNCHANGED offers
  /\ ReceiveOffers(Head(answers))

\* handle_stop_offer, for each entry.
ReceiveStopOffer ==
  LET gone == Head(offers).keys \cap Remembered
  IN  /\ offers # <<>> /\ Head(offers).kind = "stop_offer"
      /\ offers' = Tail(offers)
      /\ reborn' = FALSE
      /\ discovered' = [k \in Key |-> IF k \in Remembered \ gone THEN discovered[k]
                                      ELSE "no"]
      /\ requests' = RequestsKept
      /\ Outcomes({}, Closed(RequestsKept))
      /\ IF gone = {} THEN UNCHANGED monitor ELSE Emit(view \ gone)
      /\ UNCHANGED <<criterion, commands, offered, finds, answers, losses>>

\* A TTL runs out: soon after the server has withdrawn the service, or when
\* no offer comes through in time.
Expire(k) ==
  /\ k \notin offered \/ "expiry" \in Faults
  /\ discovered[k] = "alive"
  /\ discovered' = [discovered EXCEPT ![k] = "expired"]
  /\ UNCHANGED <<requests, callers, commands, monitor, offered, network, reborn>>

\* The requests after a turn of handle_periodic that repeats those due, and
\* the services whose TTL has run out.
AfterKeeps(due) == (requests \ due) \cup {[r EXCEPT !.left = @ - 1] : r \in due}
After(due) == ({r \in requests : r.left > 0} \ due) \cup {[r EXCEPT !.left = @ - 1] : r \in due}
StaleWhileFinding == {k \in Key : requests # {} /\ discovered[k] = "expired"}
Stale == {k \in Key : discovered[k] = "expired"}

\* handle_periodic: the requests whose interval has passed are repeated, those
\* without repetitions left end, and services whose TTL has run out go.
HandlePeriodic(due) ==
  /\ \A r \in due : r.left > 0
  /\ requests' = After(due)
  /\ Outcomes({}, Closed(After(due)))
  /\ SendOn(finds, due, {r.key : r \in due})
  /\ discovered' = [k \in Key |-> IF k \in Stale THEN "no" ELSE discovered[k]]
  /\ IF Stale = {} THEN UNCHANGED monitor ELSE Emit(view \ Stale)
  /\ UNCHANGED <<criterion, commands, offered, offers, answers, reborn, losses>>

-----------------------------------------------------------------------------
(* The server.                                                             *)

\* handle_offer_command; the first announcement is the next cyclic one.
Offer(k) ==
  /\ k \notin offered
  /\ offered' = offered \cup {k}
  /\ UNCHANGED <<discovered, requests, callers, commands, monitor, network, reborn>>

\* handle_periodic, flush_pending_initial_offers: the services that are due.
SendOffers(K) ==
  /\ K \subseteq offered /\ K # {}
  /\ SendOn(offers, K, [kind |-> "offer", keys |-> K])
  /\ UNCHANGED <<discovered, requests, callers, commands, monitor, offered, finds,
                 answers, reborn, losses>>

\* handle_stop_offer of the server.
StopOffer(k) ==
  /\ k \in offered
  /\ offered' = offered \ {k}
  /\ SendOn(offers, {k}, [kind |-> "stop_offer", keys |-> {k}])
  /\ UNCHANGED <<discovered, requests, callers, commands, monitor, finds, answers,
                 reborn, losses>>

\* handle_find_request, for each entry: the major version does not count.
AnswerFind ==
  LET hit == {k \in offered : \E c \in Head(finds) : c.instance \in {k.instance, AnyInstance}}
  IN  /\ finds # <<>>
      /\ finds' = Tail(finds)
      /\ SendOn(answers, hit, hit)
      /\ UNCHANGED <<discovered, requests, callers, commands, monitor, offered,
                     offers, reborn, losses>>

\* The server's process restarts; what it had sent is no longer under way.
Restart ==
  /\ "restart" \in Faults
  /\ offered' = {} /\ offers' = <<>> /\ answers' = <<>>
  /\ reborn' = TRUE
  /\ UNCHANGED <<discovered, requests, callers, commands, monitor, finds, losses>>

\* The network loses the next message of a queue.
Lose ==
  /\ losses < MaxLoss
  /\ losses' = losses + 1
  /\ \/ finds # <<>>   /\ finds' = Tail(finds)     /\ UNCHANGED <<offers, answers>>
     \/ offers # <<>>  /\ offers' = Tail(offers)   /\ UNCHANGED <<finds, answers>>
     \/ answers # <<>> /\ answers' = Tail(answers) /\ UNCHANGED <<finds, offers>>
  /\ UNCHANGED <<discovered, requests, callers, commands, monitor, offered, reborn>>

-----------------------------------------------------------------------------
Application == \E f \in Finds : Find(f) \/ Cancel(f) \/ DropProxy(f)

HandleCommand == HandleFind \/ HandleStopFind \/ MonitorSd
Periodic == \E due \in SUBSET requests : HandlePeriodic(due)

ClientNext ==
  \/ HandleCommand
  \/ ReceiveMulticastOffers \/ ReceiveAnswer \/ ReceiveStopOffer
  \/ \E k \in Key : Expire(k)
  \/ Periodic

ServerNext ==
  \/ \E k \in Key : Offer(k) \/ StopOffer(k)
  \/ \E K \in SUBSET Key : SendOffers(K)
  \/ AnswerFind
  \/ Restart

Next == Application \/ ClientNext \/ ServerNext \/ Lose

Spec == Init /\ [][Next]_vars

\* The event loops serve every queue and their timers, a TTL that nobody
\* renews runs out, and each service is announced cyclically.
FairSpec ==
  /\ Spec
  /\ WF_vars(HandleFind \/ HandleStopFind)
  /\ WF_vars(ReceiveMulticastOffers \/ ReceiveStopOffer) /\ WF_vars(ReceiveAnswer)
  /\ WF_vars(Periodic)
  /\ WF_vars(AnswerFind)
  /\ \A k \in Key : /\ WF_vars(k \notin offered /\ Expire(k))
                    /\ WF_vars(\E K \in SUBSET Key : k \in K /\ SendOffers(K))

-----------------------------------------------------------------------------
(* Properties.                                                             *)

TypeOK ==
  /\ discovered \in [Key -> {"no", "alive", "expired"}]
  /\ requests \subseteq Request
  /\ \A r1, r2 \in requests : r1.key = r2.key => r1 = r2
  /\ criterion \in Searches
  /\ outcome \in [Finds -> {"idle", "waiting", "found", "unavailable", "dropped"}]
  /\ commands \in Seq(Command)
  /\ monitored \in BOOLEAN /\ view \subseteq Key
  /\ offered \subseteq Key
  /\ finds \in Seq(SUBSET SearchKey)
  /\ offers \in Seq(Message)
  /\ answers \in Seq(SUBSET Key)
  /\ reborn \in BOOLEAN
  /\ losses \in 0..MaxLoss

\* No find misses its service: one that waits has its command under way or a
\* request of its own, and while it has a request no service it matches is
\* known, not even an expired one, since offers tell the requests only of
\* services that were not known (handle_find, handle_offer's is_new).
WaitingInv ==
  \A f \in Finds : outcome[f] = "waiting" =>
    \/ [kind |-> "find", find |-> f] \in {commands[i] : i \in DOMAIN commands}
    \/ \E r \in requests : r.find = f /\ \A k \in Known : ~Matches(r.key, k)

\* As long as a monitor is registered, what it was told, added to what was
\* known when it was, makes every service that the runtime knows available: no
\* announcement is lost on it or overtaken by an older end (handle_offer,
\* EmitSdEvent, which removes one that lags).
KnownIsAnnounced == monitored => Known \subseteq view

\* Every find ends, however finds, proxies, losses and restarts interleave.
FindEnds == \A f \in Finds : outcome[f] = "waiting" ~> outcome[f] # "waiting"

\* What the client knows follows what the server offers: a service that stays
\* offered is alive again and again, and one that stays withdrawn is forgotten
\* for good, also when a late answer brought it back after its StopOffer, or
\* the StopOffer was lost.
DiscoveryFollowsOffers ==
  \A k \in Key : /\ <>[](k \in offered) => []<>(discovered[k] = "alive")
                 /\ <>[](k \notin offered) => <>[](discovered[k] = "no")
=============================================================================
