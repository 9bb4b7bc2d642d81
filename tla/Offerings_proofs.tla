-------------------------- MODULE Offerings_proofs --------------------------
(***************************************************************************)
(* Proofs about Offerings: types, what is announced, sockets and handles.  *)
(***************************************************************************)
EXTENDS Offerings, TLAPS

\* An answer to a find that waits is true, unless its service was withdrawn or
\* replaced since; what is announced is offered, up to answers that left too
\* late; and a runtime that shuts down announces nothing else any more.
QuietInv ==
  /\ AnnouncedInv
  /\ phase = "up" => \A k \in Keys : \/ answers[k] \in {Nowhere, offered[k]}
                                    \/ k \in outdated
  /\ phase # "up" => \A k \in Keys : told[k] = Nowhere \/ k \in late

\* A command that offers or stops service k.
Concerns(m, k) == m.op \in {"offer", "stop"} /\ key[m.call] = k

Slots == 1..Len(commands)

\* Of the calls for one service only one is asked for or live, nothing in the
\* channel comes after its own offer, and nothing at all once it is live.
ChannelInv ==
  /\ \A c, d \in Calls : /\ key[c] = key[d]
                         /\ handle[c] \in {"asked", "live"}
                         /\ handle[d] \in {"asked", "live"}
                         => c = d
  /\ \A i, j \in Slots : /\ i < j
                         /\ commands[i].op = "offer"
                         /\ handle[commands[i].call] = "asked"
                         => ~Concerns(commands[j], key[commands[i].call])
  /\ \A c \in Calls : handle[c] = "live" =>
       \A i \in Slots : ~Concerns(commands[i], key[c])
  /\ \A i \in Slots :
       /\ commands[i].op = "offer" => handle[commands[i].call] \in {"asked", "orphan"}
       /\ commands[i].op = "register" => handle[commands[i].call] \notin {"new", "asked"}

\* Who has what: offers have an owner of their own service, and events come
\* after their call was live.
OwnerInv ==
  /\ \A k \in Keys : \A c \in owner[k] : key[c] = k
  /\ \A k \in Offered : owner[k] # {}
  /\ \A g \in granted : handle[g[1]] \notin {"new", "asked"}

UpInv == phase = "up" => ChannelInv /\ OwnerInv /\ HandleInv

-----------------------------------------------------------------------------
(* Types.                                                                  *)

LEMMA PortTypes ==
  /\ FirstPort \in Ports
  /\ \A p \in Ports : After(p) \in Ports
  /\ Nowhere \in Endpoints
  /\ "udp" \in Transports /\ "tcp" \in Transports
  /\ \A t \in Transports : others[t] \subseteq Ports
  /\ key \in [Calls -> Keys]
<1>1. \A p \in Ports : After(p) \in Ports
  BY OfferingsAssumption DEF Ports, After
<1>2. Nowhere \in Endpoints
  BY DEF Nowhere, Endpoints
<1> QED BY <1>1, <1>2, OfferingsAssumption DEF Transports

\* What an attempt to get a port yields: a port that is free, or that another
\* service is offered at, or none.
LEMMA AttemptYields ==
  ASSUME NEW t \in Transports, NEW c \in Calls, NEW from \in Ports,
         NEW a \in Attempts(t, c, from)
  PROVE  /\ a.ports \subseteq Ports /\ a.next \in Ports
         /\ \A p \in a.ports : p \in Free(t) \/ \E k \in Keys : p \in offered[k][t]
<1> DEFINE got(p, next) == [ok |-> TRUE, ports |-> {p}, next |-> next]
           unasked == [ok |-> TRUE, ports |-> {}, next |-> from]
           failed == [ok |-> FALSE, ports |-> {}, next |-> from]
<1>1. \/ a = unasked \/ a = failed
      \/ \E p \in Shareable(t, c) : a = got(p, from)
      \/ \E p \in Ports : FirstFree(t, from, p) /\ a = got(p, After(p))
      \/ \E p \in Free(t) : a = got(p, from)
  BY DEF Attempts
<1>2. CASE a = unasked \/ a = failed
  BY <1>2
<1>3. CASE \E p \in Shareable(t, c) : a = got(p, from)
  BY <1>3 DEF Shareable
<1>4. CASE \E p \in Ports : FirstFree(t, from, p) /\ a = got(p, After(p))
  BY <1>4, PortTypes DEF FirstFree
<1>5. CASE \E p \in Free(t) : a = got(p, from)
  BY <1>5 DEF Free
<1> QED BY <1>1, <1>2, <1>3, <1>4, <1>5

\* What a turn that takes Command::Offer has in its hands.
Attempted(c, u, b) ==
  /\ u \in Attempts("udp", c, nextPort)
  /\ b \in IF u.ok THEN Attempts("tcp", c, u.next) ELSE {u}

LEMMA AttemptedYields ==
  ASSUME TypeOK, NEW c \in Calls, NEW u, NEW b, Attempted(c, u, b)
  PROVE  /\ u.ports \subseteq Ports /\ b.ports \subseteq Ports /\ b.next \in Ports
         /\ \A p \in u.ports : p \in Free("udp") \/ \E k \in Keys : p \in offered[k]["udp"]
         /\ u.ok => \A p \in b.ports : p \in Free("tcp") \/ \E k \in Keys : p \in offered[k]["tcp"]
         /\ b.ok => u.ok
<1>1. nextPort \in Ports
  BY DEF TypeOK
<1>2. /\ u.ports \subseteq Ports /\ u.next \in Ports
      /\ \A p \in u.ports : p \in Free("udp") \/ \E k \in Keys : p \in offered[k]["udp"]
  BY <1>1, AttemptYields, PortTypes DEF Attempted
<1>3. CASE u.ok
  <2>1. b \in Attempts("tcp", c, u.next)
    BY <1>3 DEF Attempted
  <2> QED BY <1>2, <1>3, <2>1, AttemptYields, PortTypes
<1>4. CASE ~u.ok
  BY <1>2, <1>4 DEF Attempted
<1> QED BY <1>3, <1>4

LEMMA TypeInit == Init => TypeOK
<1> SUFFICES ASSUME Init PROVE TypeOK
  OBVIOUS
<1>1. commands \in Seq(Commands)
  BY DEF Init
<1>2. /\ offered \in [Keys -> Endpoints] /\ told \in [Keys -> Endpoints]
      /\ answers \in [Keys -> Endpoints] /\ listening \in Endpoints
  BY PortTypes DEF Init
<1> QED BY <1>1, <1>2, PortTypes DEF Init, TypeOK

\* Commands that are appended or taken keep the channel's type.
LEMMA CommandTypes ==
  ASSUME commands \in Seq(Commands), NEW c \in Calls, NEW e \in Events
  PROVE  /\ Append(commands, [op |-> "offer", call |-> c]) \in Seq(Commands)
         /\ Append(commands, [op |-> "stop", call |-> c]) \in Seq(Commands)
         /\ Append(commands, [op |-> "register", call |-> c, event |-> e]) \in Seq(Commands)
<1>1. /\ [op |-> "offer", call |-> c] \in Commands
      /\ [op |-> "stop", call |-> c] \in Commands
      /\ [op |-> "register", call |-> c, event |-> e] \in Commands
  BY DEF Commands
<1> QED BY <1>1

LEMMA CommandTypesNoEvent ==
  ASSUME commands \in Seq(Commands), NEW c \in Calls
  PROVE  /\ Append(commands, [op |-> "offer", call |-> c]) \in Seq(Commands)
         /\ Append(commands, [op |-> "stop", call |-> c]) \in Seq(Commands)
         /\ commands # <<>> => Tail(commands) \in Seq(Commands)
<1>1. /\ [op |-> "offer", call |-> c] \in Commands
      /\ [op |-> "stop", call |-> c] \in Commands
  BY DEF Commands
<1> QED BY <1>1

LEMMA TypeOffer ==
  ASSUME TypeOK, NEW c \in Calls, NEW u, NEW b, Attempted(c, u, b),
         commands # <<>>, Offer(c, u, b)
  PROVE  TypeOK'
<1>1. /\ u.ports \subseteq Ports /\ b.ports \subseteq Ports /\ b.next \in Ports
  BY AttemptedYields
<1> DEFINE eps == [t \in Transports |-> IF t = "udp" THEN u.ports ELSE b.ports]
<1>2. eps \in Endpoints
  BY <1>1 DEF Endpoints
<1>3. listening' \in Endpoints
  BY <1>1, PortTypes DEF Offer, TypeOK, Endpoints
<1>4. /\ offered' \in [Keys -> Endpoints]
      /\ owner' \in [Keys -> SUBSET Calls]
      /\ initial' \subseteq Keys /\ outdated' \subseteq Keys
  <2>1. \/ /\ offered' = [offered EXCEPT ![key[c]] = eps]
           /\ owner' = [owner EXCEPT ![key[c]] = {c}]
           /\ initial' = initial \cup {key[c]}
           /\ outdated' = Overtaken(key[c])
        \/ UNCHANGED <<offered, owner, initial, outdated>>
    BY DEF Offer
  <2>2. Overtaken(key[c]) \subseteq Keys BY PortTypes DEF Overtaken, TypeOK
  <2> HIDE DEF eps
  <2> QED BY <1>2, <2>1, <2>2, PortTypes DEF TypeOK
<1>5. handle' \in [Calls -> {"new", "asked", "live", "refused", "dropped", "orphan", "lost"}]
  BY DEF Offer, TypeOK
<1>6. commands' \in Seq(Commands)
  BY CommandTypesNoEvent DEF Offer, TypeOK
<1> QED BY <1>1, <1>3, <1>4, <1>5, <1>6 DEF Offer, TypeOK

LEMMA TypeCommand == ASSUME TypeOK, Command PROVE TypeOK'
<1>1. PICK c \in Calls :
        \/ /\ commands # <<>>
           /\ \E u, b : Attempted(c, u, b) /\ Offer(c, u, b)
        \/ StopOffer(c)
        \/ \E e \in Events : RegisterEvent(c, e)
  BY DEF Command, Attempted
<1>2. CASE commands # <<>> /\ \E u, b : Attempted(c, u, b) /\ Offer(c, u, b)
  BY <1>2, TypeOffer
<1>3. CASE StopOffer(c)
  <2>1. commands' \in Seq(Commands)
    BY <1>3, CommandTypesNoEvent DEF StopOffer, TypeOK
  <2>2. key[c] \in Keys
    BY PortTypes
  <2>3. UNCHANGED <<handle, granted, initial, nextPort, listening, answers, owed, phase>>
    BY <1>3 DEF StopOffer
  <2>4. /\ offered' \in [Keys -> Endpoints] /\ owner' \in [Keys -> SUBSET Calls]
        /\ registered' \in [Keys -> SUBSET Events] /\ outdated' \subseteq Keys
    BY <1>3, <2>2, PortTypes DEF StopOffer, Withdraw, Remove, Forget, Overtaken, TypeOK
  <2>5. told' \in [Keys -> Endpoints] /\ late' \subseteq Keys
    BY <1>3, <2>2, PortTypes DEF StopOffer, Withdraw, SayGone, TypeOK
  <2> QED BY <2>1, <2>3, <2>4, <2>5 DEF TypeOK
<1>4. ASSUME NEW e \in Events, RegisterEvent(c, e) PROVE TypeOK'
  <2>1. commands' \in Seq(Commands)
    BY <1>4, CommandTypesNoEvent DEF RegisterEvent, TypeOK
  <2>2. /\ registered' \in [Keys -> SUBSET Events]
        /\ granted' \subseteq Calls \X Events
    BY <1>4, PortTypes DEF RegisterEvent, TypeOK
  <2> QED BY <1>4, <2>1, <2>2 DEF RegisterEvent, finds, TypeOK
<1> QED BY <1>1, <1>2, <1>3, <1>4

LEMMA TypeNext == TypeOK /\ [Next]_vars => TypeOK'
<1> SUFFICES ASSUME TypeOK, [Next]_vars PROVE TypeOK'
  OBVIOUS
<1>1. ASSUME NEW c \in Calls, Start(c) \/ Cancel(c) \/ Drop(c) PROVE TypeOK'
  <2>1. commands' \in Seq(Commands)
    BY <1>1, CommandTypesNoEvent DEF Start, Cancel, Drop, TypeOK
  <2>2. handle' \in [Calls -> {"new", "asked", "live", "refused", "dropped", "orphan", "lost"}]
    BY <1>1 DEF Start, Cancel, Drop, TypeOK
  <2> QED BY <1>1, <2>1, <2>2 DEF Start, Cancel, Drop, finds, TypeOK
<1>2. ASSUME NEW c \in Calls, NEW e \in Events, Create(c, e) PROVE TypeOK'
  <2>1. commands' \in Seq(Commands)
    BY <1>2, CommandTypes DEF Create, TypeOK
  <2> QED BY <1>2, <2>1 DEF Create, finds, TypeOK
<1>3. CASE Command
  BY <1>3, TypeCommand
<1>4. ASSUME NEW ks \in SUBSET Keys, Announce(ks)
      PROVE  told' \in [Keys -> Endpoints] /\ late' \subseteq Keys
  BY <1>4 DEF Announce, TypeOK
<1>5. CASE FlushInitial
  <2>1. told' \in [Keys -> Endpoints] /\ late' \subseteq Keys
    BY <1>4, <1>5 DEF FlushInitial, Offered
  <2> QED BY <1>5, <2>1 DEF FlushInitial, TypeOK
<1>6. ASSUME NEW due \in SUBSET Offered, Periodic(due) PROVE TypeOK'
  <2>1. told' \in [Keys -> Endpoints] /\ late' \subseteq Keys
    BY <1>4, <1>6 DEF Periodic, Offered
  <2> QED BY <1>6, <2>1 DEF Periodic, TypeOK
<1>13. ASSUME NEW s, NEW is, HandleFind(s, is) PROVE TypeOK'
  <2>1. answers' \in [Keys -> Endpoints] /\ outdated' \subseteq Keys
    BY <1>13 DEF HandleFind, TypeOK
  <2> QED BY <1>13, <2>1 DEF HandleFind, TypeOK
<1>14. CASE FlushUnicast
  <2>1. told' \in [Keys -> Endpoints] /\ answers' \in [Keys -> Endpoints]
    BY <1>14, PortTypes DEF FlushUnicast, TypeOK
  <2>2. late' \subseteq Keys BY <1>14 DEF FlushUnicast, TypeOK
  <2> QED BY <1>14, <2>1, <2>2 DEF FlushUnicast, TypeOK
<1>7. ASSUME NEW k \in Keys, NEW t \in Transports, NEW p \in Ports, Request(k, t, p)
      PROVE  TypeOK'
  <2>1. owed' \subseteq [key : Keys, transport : Transports, port : Ports]
    BY <1>7 DEF Request, TypeOK
  <2> QED BY <1>7, <2>1 DEF Request, finds, TypeOK
<1>8. ASSUME NEW o \in owed, Respond(o) PROVE TypeOK'
  BY <1>8 DEF Respond, finds, TypeOK
<1>9. ASSUME NEW t \in Transports, NEW p \in Ports, SocketTaskEnds(t, p) PROVE TypeOK'
  <2>1. listening' \in Endpoints
    BY <1>9 DEF SocketTaskEnds, TypeOK, Endpoints
  <2> QED BY <1>9, <2>1 DEF SocketTaskEnds, finds, TypeOK
<1>10. CASE Shutdown
  <2>1. told' \in [Keys -> Endpoints]
    BY <1>10, PortTypes DEF Shutdown, TypeOK
  <2> QED BY <1>10, <2>1 DEF Shutdown, TypeOK
<1>11. CASE Down
  <2>1. commands' \in Seq(Commands)
    BY <1>11 DEF Down
  <2>2. handle' \in [Calls -> {"new", "asked", "live", "refused", "dropped", "orphan", "lost"}]
    BY <1>11 DEF Down, TypeOK
  <2>3. /\ offered' \in [Keys -> Endpoints]
        /\ owner' \in [Keys -> SUBSET Calls]
        /\ registered' \in [Keys -> SUBSET Events]
        /\ answers' \in [Keys -> Endpoints]
    BY <1>11, PortTypes DEF Down
  <2> QED BY <1>11, <2>1, <2>2, <2>3 DEF Down, TypeOK
<1>12. CASE UNCHANGED vars
  BY <1>12 DEF vars, finds, TypeOK
<1> QED BY <1>1, <1>2, <1>3, <1>5, <1>6, <1>7, <1>8, <1>9, <1>10, <1>11, <1>12,
           <1>13, <1>14
        DEF Next, Application, Turn, Find, Serve, Answer, SocketEnds

\* The state of handles, event loop and sockets keeps its shape: TypeOK.
THEOREM TypeCorrect == Spec => []TypeOK
BY TypeInit, TypeNext, PTL DEF Spec

-----------------------------------------------------------------------------
(* What is announced.                                                      *)

LEMMA QuietInit == Init => QuietInv
BY DEF Init, QuietInv, AnnouncedInv, Offered

\* A step that neither announces nor changes what is offered.
LEMMA QuietUntouched ==
  ASSUME QuietInv, UNCHANGED <<told, finds, offered, initial, phase>>
  PROVE  QuietInv'
BY DEF QuietInv, AnnouncedInv, Offered, finds

\* Multicast offers, those of the initial offers among them, leave everything
\* told as it is offered, up to late answers.
LEMMA QuietAnnounce ==
  ASSUME QuietInv, phase = "up", NEW ks \in SUBSET Offered, Offered \cap initial \subseteq ks,
         Announce(ks), UNCHANGED <<offered, answers, outdated, phase>>
  PROVE  QuietInv'
<1>1. \A k \in Keys : /\ k \in ks => told'[k] = offered[k]
                      /\ k \notin ks => told'[k] = told[k] /\ (k \in late => k \in late')
  BY DEF Announce
<1>2. ASSUME NEW k \in Keys PROVE told'[k] = offered[k] \/ k \in late'
  <2>1. CASE k \in ks BY <1>1, <2>1
  <2>2. CASE k \notin ks /\ k \in Offered
    BY <1>1, <2>2 DEF QuietInv, AnnouncedInv
  <2>3. CASE k \notin Offered
    BY <1>1, <2>3 DEF QuietInv, AnnouncedInv, Offered
  <2> QED BY <2>1, <2>2, <2>3
<1> QED BY <1>2 DEF QuietInv, AnnouncedInv, Offered

LEMMA QuietOffer ==
  ASSUME TypeOK, QuietInv, phase = "up", NEW c \in Calls, NEW u, NEW b, Offer(c, u, b)
  PROVE  QuietInv'
<1>1. PICK eps : \/ /\ eps # Nowhere
                    /\ offered' = [offered EXCEPT ![key[c]] = eps]
                    /\ initial' = initial \cup {key[c]}
                    /\ outdated' = Overtaken(key[c])
                 \/ UNCHANGED <<offered, initial, outdated>>
  BY DEF Offer
<1>2. UNCHANGED <<told, answers, late, phase>>
  BY DEF Offer
<1>3. \A k \in Keys : k \in Offered => k \in Offered'
  BY <1>1, PortTypes DEF Offered, TypeOK
<1>4. AnnouncedInv'
  BY <1>1, <1>2, <1>3, PortTypes DEF QuietInv, AnnouncedInv, TypeOK
<1>5. \A k \in Keys : answers[k] \in {Nowhere, offered'[k]} \/ k \in outdated'
  BY <1>1, PortTypes DEF QuietInv, Overtaken, TypeOK
<1> QED BY <1>2, <1>4, <1>5 DEF QuietInv

LEMMA QuietStopOffer ==
  ASSUME TypeOK, QuietInv, NEW c \in Calls, StopOffer(c)
  PROVE  QuietInv'
<1> DEFINE n == key[c]
<1>1. /\ n \in Keys
      /\ phase = "up" /\ UNCHANGED <<initial, answers, phase>>
      /\ offered' = [offered EXCEPT ![n] = Nowhere] /\ outdated' = Overtaken(n)
      /\ IF n \in Offered THEN SayGone(n) ELSE UNCHANGED <<told, late>>
  BY PortTypes DEF StopOffer, Withdraw, Remove
<1> HIDE DEF n
<1>2. \A k \in Keys : k # n => offered'[k] = offered[k] /\ told'[k] = told[k]
                            /\ (k \in late => k \in late')
  BY <1>1 DEF SayGone, TypeOK
<1>3. offered'[n] = Nowhere /\ (told'[n] = Nowhere \/ n \in late')
  BY <1>1 DEF SayGone, QuietInv, AnnouncedInv, TypeOK
<1>4. AnnouncedInv'
  BY <1>1, <1>2, <1>3 DEF QuietInv, AnnouncedInv, Offered
<1>5. \A k \in Keys : answers[k] \in {Nowhere, offered'[k]} \/ k \in outdated'
  BY <1>1, <1>2 DEF QuietInv, Overtaken
<1> QED BY <1>1, <1>4, <1>5 DEF QuietInv

\* The answers of a flush are true or marked as outdated.
LEMMA QuietFlushUnicast ==
  ASSUME TypeOK, QuietInv, FlushUnicast
  PROVE  QuietInv'
<1>1. /\ phase = "up" /\ UNCHANGED <<offered, initial, phase>>
      /\ \A k \in Keys : answers'[k] = Nowhere
  BY DEF FlushUnicast
<1>2. \A k \in Keys :
        /\ told'[k] = IF answers[k] = Nowhere THEN told[k] ELSE answers[k]
        /\ k \in outdated => k \in late'
        /\ answers[k] = Nowhere /\ k \in late => k \in late'
  BY DEF FlushUnicast
<1>3. \A k \in Keys : answers[k] \in {Nowhere, offered[k]} \/ k \in outdated
  BY <1>1 DEF QuietInv
<1>4. \A k \in Keys : told'[k] # Nowhere => k \in Offered' \/ k \in late'
  BY <1>1, <1>2, <1>3 DEF QuietInv, AnnouncedInv, Offered
<1>5. \A k \in Keys : told'[k] # offered[k] => k \in initial \/ k \in late'
  BY <1>1, <1>2, <1>3 DEF QuietInv, AnnouncedInv
<1> QED BY <1>1, <1>4, <1>5 DEF QuietInv, AnnouncedInv

LEMMA QuietNext == TypeOK /\ QuietInv /\ [Next]_vars => QuietInv'
<1> SUFFICES ASSUME TypeOK, QuietInv, [Next]_vars PROVE QuietInv'
  OBVIOUS
<1>1. CASE Application \/ Serve \/ Answer \/ SocketEnds \/ UNCHANGED vars
  <2>1. UNCHANGED <<told, finds, offered, initial, phase>>
    BY <1>1 DEF Application, Start, Cancel, Drop, Create, Serve, Request, Answer,
                Respond, SocketEnds, SocketTaskEnds, vars
  <2> QED BY <2>1, QuietUntouched
<1>2. CASE Command
  <2>1. PICK c \in Calls :
          \/ phase = "up" /\ \E u, b : Offer(c, u, b)
          \/ StopOffer(c)
          \/ \E e \in Events : RegisterEvent(c, e)
    BY <1>2 DEF Command
  <2>2. ASSUME NEW e \in Events, RegisterEvent(c, e) PROVE QuietInv'
    BY <2>2, QuietUntouched DEF RegisterEvent
  <2> QED BY <2>1, <2>2, QuietOffer, QuietStopOffer
<1>3. CASE FlushInitial
  <2>1. Offered \cap initial \in SUBSET Offered
    OBVIOUS
  <2> QED BY <1>3, <2>1, QuietAnnounce DEF FlushInitial
<1>4. ASSUME NEW due \in SUBSET Offered, Periodic(due) PROVE QuietInv'
  <2>1. due \cup (Offered \cap initial) \in SUBSET Offered
    OBVIOUS
  <2> QED BY <1>4, <2>1, QuietAnnounce DEF Periodic
<1>5. CASE Shutdown
  <2>1. \A k \in Keys : told'[k] = Nowhere \/ k \in late'
    BY <1>5 DEF Shutdown, QuietInv, AnnouncedInv
  <2> QED BY <1>5, <2>1 DEF Shutdown, QuietInv, AnnouncedInv
<1>6. CASE Down
  BY <1>6 DEF Down, QuietInv, AnnouncedInv, Offered
<1>7. ASSUME NEW s, NEW is, HandleFind(s, is) PROVE QuietInv'
  BY <1>7 DEF HandleFind, QuietInv, AnnouncedInv, Offered, TypeOK
<1> QED BY <1>1, <1>2, <1>3, <1>4, <1>5, <1>6, <1>7, QuietFlushUnicast DEF Next, Turn, Find

\* What the last SD message said of a service is what the service is, unless
\* an initial offer of it waits, or an answer to a find (handle_find_request)
\* left after its StopOffer or replacement: AnnouncedInv.
THEOREM AnnouncedIsOffered == Spec => []AnnouncedInv
<1>1. Init => TypeOK /\ QuietInv
  BY TypeInit, QuietInit
<1>2. TypeOK /\ QuietInv /\ [Next]_vars => TypeOK' /\ QuietInv'
  BY TypeNext, QuietNext
<1>3. QuietInv => AnnouncedInv
  BY DEF QuietInv
<1> QED BY <1>1, <1>2, <1>3, PTL DEF Spec

-----------------------------------------------------------------------------
(* Sockets.                                                                *)

LEMMA SocketsInit == Init => SocketsInv
BY DEF Init, SocketsInv, Nowhere, Keys, Transports

\* A step that opens or closes no socket, and needs none that is not open.
LEMMA SocketsUntouched ==
  ASSUME SocketsInv, listening' = listening,
         \A k \in Keys : offered'[k] = offered[k] \/ offered'[k] = Nowhere,
         owed' \subseteq owed
  PROVE  SocketsInv'
BY DEF SocketsInv, Nowhere

LEMMA SocketsOffer ==
  ASSUME TypeOK, SocketsInv, NEW c \in Calls, NEW u, NEW b, Attempted(c, u, b),
         Offer(c, u, b)
  PROVE  SocketsInv'
<1> DEFINE eps == [t \in Transports |-> IF t = "udp" THEN u.ports ELSE b.ports]
<1>1. /\ \A p \in u.ports : p \in Free("udp") \/ \E k \in Keys : p \in offered[k]["udp"]
      /\ u.ok => \A p \in b.ports : p \in Free("tcp") \/ \E k \in Keys : p \in offered[k]["tcp"]
      /\ b.ok => u.ok
  BY AttemptedYields
<1>2. /\ u.ports \cap others["udp"] = {}
      /\ u.ok => b.ports \cap others["tcp"] = {}
  <2>1. \A t \in Transports, k \in Keys : offered[k][t] \cap others[t] = {}
    BY DEF SocketsInv
  <2> QED BY <1>1, <2>1, PortTypes DEF Free
<1>3. /\ listening'["udp"] = listening["udp"] \cup u.ports
      /\ listening'["tcp"] = listening["tcp"] \cup (IF u.ok THEN b.ports ELSE {})
  BY DEF Offer, TypeOK, Endpoints, Transports
<1>4. /\ \A k \in Keys : k # key[c] => offered'[k] = offered[k]
      /\ offered'[key[c]] = offered[key[c]] \/ (b.ok /\ offered'[key[c]] = eps)
  <2>1. key[c] \in Keys
    BY PortTypes
  <2>2. \/ b.ok /\ offered' = [offered EXCEPT ![key[c]] = eps]
        \/ UNCHANGED offered
    BY DEF Offer
  <2> HIDE DEF eps
  <2> QED BY <2>1, <2>2 DEF TypeOK
<1>5. \A t \in Transports : t = "udp" \/ t = "tcp"
  BY DEF Transports
<1>6. \A t \in Transports, k \in Keys : offered'[k][t] \subseteq listening'[t]
  BY <1>1, <1>3, <1>4, <1>5 DEF SocketsInv, Transports
<1>7. \A t \in Transports : listening'[t] \cap others[t] = {}
  BY <1>2, <1>3, <1>5 DEF SocketsInv
<1>8. \A t \in Transports, o \in owed : o.transport = t => o.port \in listening'[t]
  BY <1>3, <1>5 DEF SocketsInv
<1> QED BY <1>6, <1>7, <1>8 DEF Offer, SocketsInv

LEMMA SocketsNext == TypeOK /\ SocketsInv /\ [Next]_vars => SocketsInv'
<1> SUFFICES ASSUME TypeOK, SocketsInv, [Next]_vars PROVE SocketsInv'
  OBVIOUS
<1>1. CASE Application \/ Answer \/ FlushInitial \/ Turn \/ Find \/ FlushUnicast \/ Shutdown
           \/ UNCHANGED vars
  <2>1. listening' = listening /\ offered' = offered /\ owed' \subseteq owed
    BY <1>1 DEF Application, Start, Cancel, Drop, Create, Answer, Respond, FlushInitial,
                Turn, Periodic, Find, HandleFind, FlushUnicast, Shutdown, vars
  <2> QED BY <2>1, SocketsUntouched
<1>2. CASE Command
  <2>1. PICK c \in Calls :
          \/ \E u, b : Attempted(c, u, b) /\ Offer(c, u, b)
          \/ StopOffer(c)
          \/ \E e \in Events : RegisterEvent(c, e)
    BY <1>2 DEF Command, Attempted
  <2>2. CASE StopOffer(c)
    BY <2>2, PortTypes, SocketsUntouched DEF StopOffer, Withdraw, Remove, TypeOK
  <2>3. ASSUME NEW e \in Events, RegisterEvent(c, e) PROVE SocketsInv'
    BY <2>3, SocketsUntouched DEF RegisterEvent
  <2> QED BY <2>1, <2>2, <2>3, SocketsOffer
<1>3. ASSUME NEW k \in Keys, NEW t \in Transports, NEW p \in Ports, Request(k, t, p)
      PROVE  SocketsInv'
  BY <1>3 DEF Request, SocketsInv
<1>4. ASSUME NEW t \in Transports, NEW p \in Ports, SocketTaskEnds(t, p)
      PROVE  SocketsInv'
  <2>1. /\ \A k \in Keys : p \notin offered[k][t]
        /\ \A o \in owed : o.transport = t => o.port # p
    <3>1. p \notin InUse(t)
      BY <1>4 DEF SocketTaskEnds
    <3>2. \A k \in Keys : offered[k][t] \subseteq InUse(t)
      BY DEF InUse
    <3>3. ASSUME NEW o \in owed, o.transport = t PROVE o.port \in InUse(t)
      <4>1. o \in {x \in owed : x.transport = t}
        BY <3>3
      <4>2. o.port \in {r.port : r \in {x \in owed : x.transport = t}}
        BY <4>1
      <4> QED BY <4>2 DEF InUse
    <3> QED BY <3>1, <3>2, <3>3
  <2>2. /\ listening'[t] = listening[t] \ {p}
        /\ \A x \in Transports : x # t => listening'[x] = listening[x]
    BY <1>4 DEF SocketTaskEnds, TypeOK, Endpoints
  <2> QED BY <1>4, <2>1, <2>2 DEF SocketTaskEnds, SocketsInv
<1>5. CASE Down
  BY <1>5, SocketsUntouched DEF Down
<1> QED BY <1>1, <1>2, <1>3, <1>4, <1>5 DEF Next, Serve, SocketEnds

\* No offered endpoint and no response is without its socket: SocketsInv.
THEOREM SocketsStay == Spec => []SocketsInv
<1>1. Init => TypeOK /\ SocketsInv
  BY TypeInit, SocketsInit
<1>2. TypeOK /\ SocketsInv /\ [Next]_vars => TypeOK' /\ SocketsInv'
  BY TypeNext, SocketsNext
<1> QED BY <1>1, <1>2, PTL DEF Spec

-----------------------------------------------------------------------------
(* Handles.                                                                *)

LEMMA UpInit == Init => UpInv
<1> SUFFICES ASSUME Init PROVE ChannelInv /\ OwnerInv /\ HandleInv
  BY DEF UpInv
<1>1. Slots = {}
  BY DEF Init, Slots
<1>2. ChannelInv
  <2>1. \A c \in Calls : handle[c] = "new"
    BY DEF Init
  <2> QED BY <1>1, <2>1 DEF ChannelInv
<1>3. OwnerInv
  BY DEF Init, OwnerInv, Offered
<1>4. HandleInv
  BY DEF Init, HandleInv
<1> QED BY <1>2, <1>3, <1>4

\* The channel after a command is sent, or taken.
LEMMA ChannelHolds ==
  ASSUME TypeOK
  PROVE  /\ Slots = 1..Len(commands) /\ Len(commands) \in Nat
         /\ \A i \in Slots : commands[i] \in Commands /\ commands[i].call \in Calls
<1>1. \A m \in Commands : m.call \in Calls
  BY DEF Commands
<1> QED BY <1>1 DEF TypeOK, Slots

LEMMA ChannelAfterSend ==
  ASSUME TypeOK, NEW m \in Commands, commands' = Append(commands, m)
  PROVE  /\ Len(commands') = Len(commands) + 1
         /\ Slots' = Slots \cup {Len(commands) + 1}
         /\ \A i \in Slots : commands'[i] = commands[i]
         /\ commands'[Len(commands) + 1] = m
BY DEF TypeOK, Slots

LEMMA ChannelAfterTake ==
  ASSUME TypeOK, commands # <<>>, commands' = Tail(commands)
  PROVE  /\ Len(commands') = Len(commands) - 1
         /\ Slots' = 1..(Len(commands) - 1)
         /\ 1 \in Slots /\ Head(commands) = commands[1]
         /\ \A i \in Slots' : i + 1 \in Slots /\ commands'[i] = commands[i + 1]
BY DEF TypeOK, Slots

LEMMA StartKeeps ==
  ASSUME TypeOK, ChannelInv, OwnerInv, HandleInv, phase = "up",
         "twice" \notin Faults, NEW c \in Calls, Start(c)
  PROVE  ChannelInv' /\ OwnerInv' /\ HandleInv'
<1> DEFINE m == [op |-> "offer", call |-> c]
<1>1. m \in Commands
  BY DEF Commands
<1>2. /\ Len(commands') = Len(commands) + 1
      /\ \A i \in Slots : commands'[i] = commands[i] /\ commands[i] \in Commands
      /\ commands'[Len(commands) + 1] = m
      /\ Slots' = Slots \cup {Len(commands) + 1}
      /\ Slots = 1..Len(commands) /\ Len(commands) \in Nat
  BY <1>1, ChannelHolds, ChannelAfterSend DEF Start
<1>3. /\ handle[c] = "new" /\ handle'[c] = "asked"
      /\ \A d \in Calls : d # c => handle'[d] = handle[d]
      /\ \A d \in Calls : key[d] = key[c] => handle[d] \notin {"asked", "live"}
      /\ UNCHANGED <<owner, registered, granted, offered, phase>>
  BY DEF Start, TypeOK
<1>4. \A i \in Slots : commands[i].call \in Calls
  BY ChannelHolds
<1>5. ChannelInv'
  BY <1>2, <1>3, <1>4 DEF ChannelInv, Concerns
<1>6. OwnerInv'
  BY <1>3 DEF OwnerInv, Offered, TypeOK
<1>7. HandleInv'
  <2>1. \A k \in Keys : \A d \in owner[k] :
          \/ handle'[d] \in {"live", "orphan", "lost"}
          \/ \E i \in 1..Len(commands') : commands'[i] = [op |-> "stop", call |-> d]
    <3>1. ASSUME NEW k \in Keys, NEW d \in owner[k], handle[d] \in {"live", "orphan", "lost"}
          PROVE  handle'[d] \in {"live", "orphan", "lost"}
      BY <1>3, <3>1 DEF TypeOK
    <3>2. 1..Len(commands) \subseteq 1..Len(commands')
      BY <1>2
    <3> QED BY <1>2, <3>1, <3>2 DEF HandleInv
  <2>2. \A d \in Calls : handle'[d] = "live" => handle[d] = "live"
    BY <1>3
  <2> QED BY <1>3, <2>1, <2>2 DEF HandleInv
<1> QED BY <1>5, <1>6, <1>7

LEMMA CancelKeeps ==
  ASSUME TypeOK, ChannelInv, OwnerInv, HandleInv, phase = "up",
         NEW c \in Calls, Cancel(c)
  PROVE  ChannelInv' /\ OwnerInv' /\ HandleInv'
<1>1. /\ handle[c] = "asked" /\ handle'[c] = "orphan"
      /\ \A d \in Calls : d # c => handle'[d] = handle[d]
      /\ UNCHANGED <<commands, owner, registered, granted, offered, phase>>
  BY DEF Cancel, TypeOK
<1>2. \A i \in Slots : commands[i].call \in Calls
  BY ChannelHolds
<1>3. ChannelInv'
  BY <1>1, <1>2 DEF ChannelInv, Concerns, Slots
<1>4. OwnerInv'
  BY <1>1 DEF OwnerInv, Offered, TypeOK
<1>5. HandleInv'
  BY <1>1 DEF HandleInv, TypeOK
<1> QED BY <1>3, <1>4, <1>5

LEMMA DropKeeps ==
  ASSUME TypeOK, ChannelInv, OwnerInv, HandleInv, phase = "up",
         NEW c \in Calls, Drop(c)
  PROVE  ChannelInv' /\ OwnerInv' /\ HandleInv'
<1>1. /\ handle[c] = "live" /\ handle'[c] \in {"dropped", "lost"}
      /\ \A d \in Calls : d # c => handle'[d] = handle[d]
      /\ UNCHANGED <<owner, registered, granted, offered, phase>>
  BY DEF Drop, TypeOK
<1>2. \A i \in Slots : commands[i].call \in Calls
  BY ChannelHolds
<1>3. OwnerInv'
  BY <1>1 DEF OwnerInv, Offered, TypeOK
<1>4. CASE commands' = commands /\ handle'[c] = "lost"
  <2>1. ChannelInv'
    BY <1>1, <1>2, <1>4 DEF ChannelInv, Concerns, Slots
  <2>2. HandleInv'
    BY <1>1, <1>4 DEF HandleInv, TypeOK
  <2> QED BY <1>3, <2>1, <2>2
<1>5. CASE commands' = Append(commands, [op |-> "stop", call |-> c])
  <2>1. [op |-> "stop", call |-> c] \in Commands
    BY DEF Commands
  <2>2. /\ Len(commands') = Len(commands) + 1
        /\ \A i \in Slots : commands'[i] = commands[i]
        /\ commands'[Len(commands) + 1] = [op |-> "stop", call |-> c]
        /\ Slots' = Slots \cup {Len(commands) + 1}
        /\ Slots = 1..Len(commands) /\ Len(commands) \in Nat
    BY <1>5, <2>1, ChannelHolds, ChannelAfterSend
  <2>3. ChannelInv'
    BY <1>1, <1>2, <2>2 DEF ChannelInv, Concerns
  <2>4. \A k \in Keys : \A d \in owner[k] :
          \/ handle'[d] \in {"live", "orphan", "lost"}
          \/ \E i \in 1..Len(commands') : commands'[i] = [op |-> "stop", call |-> d]
    <3>1. ASSUME NEW k \in Keys, NEW d \in owner[k], d # c,
                 handle[d] \in {"live", "orphan", "lost"}
          PROVE  handle'[d] \in {"live", "orphan", "lost"}
      BY <1>1, <3>1 DEF TypeOK
    <3>2. 1..Len(commands) \subseteq 1..Len(commands') /\ Len(commands) + 1 \in 1..Len(commands')
      BY <2>2
    <3> QED BY <2>2, <3>1, <3>2 DEF HandleInv
  <2>5. \A d \in Calls : handle'[d] = "live" => handle[d] = "live"
    BY <1>1
  <2>6. HandleInv'
    BY <1>1, <2>4, <2>5 DEF HandleInv
  <2> QED BY <1>3, <2>3, <2>6
<1> QED BY <1>4, <1>5 DEF Drop, TypeOK

LEMMA CreateKeeps ==
  ASSUME TypeOK, ChannelInv, OwnerInv, HandleInv, phase = "up",
         NEW c \in Calls, NEW e \in Events, Create(c, e)
  PROVE  ChannelInv' /\ OwnerInv' /\ HandleInv'
<1> DEFINE m == [op |-> "register", call |-> c, event |-> e]
<1>1. m \in Commands
  BY DEF Commands
<1>2. /\ Len(commands') = Len(commands) + 1
      /\ \A i \in Slots : commands'[i] = commands[i]
      /\ commands'[Len(commands) + 1] = m
      /\ Slots' = Slots \cup {Len(commands) + 1}
      /\ Slots = 1..Len(commands) /\ Len(commands) \in Nat
  BY <1>1, ChannelHolds, ChannelAfterSend DEF Create
<1>3. /\ handle[c] \in {"live", "dropped", "lost"}
      /\ UNCHANGED <<handle, owner, registered, granted, offered, phase>>
  BY DEF Create
<1>4. \A i \in Slots : commands[i].call \in Calls
  BY ChannelHolds
<1>5. ChannelInv'
  BY <1>2, <1>3, <1>4 DEF ChannelInv, Concerns
<1>6. OwnerInv'
  BY <1>3 DEF OwnerInv, Offered
<1>7. HandleInv'
  BY <1>2, <1>3 DEF HandleInv, Slots
<1> QED BY <1>5, <1>6, <1>7

LEMMA OfferKeeps ==
  ASSUME TypeOK, ChannelInv, OwnerInv, HandleInv, phase = "up",
         NEW c \in Calls, NEW u, NEW b, Offer(c, u, b),
         commands # <<>>, Head(commands) = [op |-> "offer", call |-> c]
  PROVE  ChannelInv' /\ OwnerInv' /\ HandleInv'
<1>1. /\ Len(commands') = Len(commands) - 1
      /\ Slots' = 1..(Len(commands) - 1)
      /\ 1 \in Slots /\ commands[1] = [op |-> "offer", call |-> c]
      /\ \A i \in Slots' : i + 1 \in Slots /\ commands'[i] = commands[i + 1]
      /\ Slots = 1..Len(commands) /\ Len(commands) \in Nat
  BY ChannelHolds, ChannelAfterTake DEF Offer
<1>2. \A i \in Slots : commands[i].call \in Calls
  BY ChannelHolds
<1>3. /\ key[c] \in Keys
      /\ handle[c] \in {"asked", "orphan"}
      /\ \A i \in Slots' : handle[c] = "asked" => ~Concerns(commands'[i], key[c])
      /\ \A d \in Calls : handle[d] = "live" => key[d] # key[c]
  BY <1>1, PortTypes DEF ChannelInv, Concerns
<1>4. PICK eps :
        \/ /\ owner' = [owner EXCEPT ![key[c]] = {c}]
           /\ offered' = [offered EXCEPT ![key[c]] = eps]
           /\ handle' = [handle EXCEPT ![c] = IF @ = "asked" THEN "live" ELSE @]
        \/ /\ UNCHANGED <<owner, offered>>
           /\ handle' = [handle EXCEPT ![c] = IF @ = "asked" THEN "refused" ELSE @]
  BY DEF Offer
<1>5. /\ \A d \in Calls : d # c => handle'[d] = handle[d]
      /\ \/ handle'[c] = "orphan" /\ handle[c] = "orphan"
         \/ handle'[c] \in {"live", "refused"} /\ handle[c] = "asked"
  BY <1>3, <1>4 DEF TypeOK
<1>6. /\ UNCHANGED <<registered, granted, phase>>
      /\ \/ /\ owner'[key[c]] = {c}
            /\ \A k \in Keys : k # key[c] => owner'[k] = owner[k] /\ offered'[k] = offered[k]
            /\ handle'[c] \in {"live", "orphan"}
         \/ /\ UNCHANGED <<owner, offered>>
            /\ handle'[c] # "live"
  BY <1>3, <1>4 DEF Offer, TypeOK
<1>9. ChannelInv'
  <2>1. \A i \in Slots' :
          /\ commands'[i].op = "offer" => handle'[commands'[i].call] \in {"asked", "orphan"}
          /\ commands'[i].op = "register" => handle'[commands'[i].call] \notin {"new", "asked"}
    BY <1>1, <1>2, <1>3, <1>5 DEF ChannelInv, Concerns
  <2>2. ASSUME NEW i \in Slots', NEW j \in Slots', i < j, commands'[i].op = "offer",
               handle'[commands'[i].call] = "asked"
        PROVE  ~Concerns(commands'[j], key[commands'[i].call])
    <3>1. /\ i + 1 \in Slots /\ j + 1 \in Slots /\ i + 1 < j + 1
          /\ commands'[i] = commands[i + 1] /\ commands'[j] = commands[j + 1]
      BY <1>1, <2>2
    <3>2. handle[commands[i + 1].call] = "asked"
      BY <1>2, <1>5, <2>2, <3>1
    <3> QED BY <2>2, <3>1, <3>2 DEF ChannelInv
  <2>3. ASSUME NEW d \in Calls, handle'[d] = "live", NEW i \in Slots'
        PROVE  ~Concerns(commands'[i], key[d])
    <3>1. CASE d = c
      BY <1>3, <1>5, <2>3, <3>1
    <3>2. CASE d # c
      BY <1>1, <1>5, <2>3, <3>2 DEF ChannelInv
    <3> QED BY <3>1, <3>2
  <2>4. ASSUME NEW d \in Calls, NEW e \in Calls, key[d] = key[e],
               handle'[d] \in {"asked", "live"}, handle'[e] \in {"asked", "live"}
        PROVE  d = e
    <3>1. handle[d] \in {"asked", "live"} /\ handle[e] \in {"asked", "live"}
      BY <1>5, <2>4
    <3> QED BY <2>4, <3>1 DEF ChannelInv
  <2> HIDE DEF Concerns
  <2> QED BY <2>1, <2>2, <2>3, <2>4 DEF ChannelInv, Concerns
<1>7. OwnerInv'
  BY <1>3, <1>5, <1>6 DEF OwnerInv, Offered, TypeOK
<1>8. HandleInv'
  <2>1. \A d \in Calls : handle'[d] = "live" =>
          /\ owner'[key[d]] = {d}
          /\ \A e \in Events : <<d, e>> \in granted => e \in registered[key[d]]
    BY <1>3, <1>5, <1>6, PortTypes DEF HandleInv, OwnerInv, TypeOK
  <2>2. \A k \in Keys : registered[k] # {} => owner'[k] # {}
    BY <1>3, <1>6 DEF HandleInv, TypeOK
  <2>3. ASSUME NEW k \in Keys, NEW d \in owner'[k]
        PROVE  \/ handle'[d] \in {"live", "orphan", "lost"}
               \/ \E i \in 1..Len(commands') : commands'[i] = [op |-> "stop", call |-> d]
    <3>1. CASE d = c /\ handle'[c] \in {"live", "orphan", "lost"}
      BY <3>1
    <3>2. CASE d \in owner[k]
      <4>0. d \in Calls
        BY <3>2 DEF TypeOK
      <4>1. CASE handle[d] \in {"live", "orphan", "lost"}
        BY <1>3, <1>5, <4>0, <4>1
      <4>2. CASE \E i \in 1..Len(commands) : commands[i] = [op |-> "stop", call |-> d]
        <5>1. PICK i \in 1..Len(commands) : commands[i] = [op |-> "stop", call |-> d]
          BY <4>2
        <5>2. i # 1
          BY <1>1, <5>1
        <5>3. i - 1 \in 1..Len(commands') /\ commands'[i - 1] = commands[i]
          BY <1>1, <5>1, <5>2
        <5> QED BY <5>1, <5>3
      <4> QED BY <3>2, <4>1, <4>2 DEF HandleInv
    <3> QED BY <1>3, <1>6, <2>3, <3>1, <3>2 DEF TypeOK
  <2> QED BY <1>6, <2>1, <2>2, <2>3 DEF HandleInv
<1> QED BY <1>7, <1>8, <1>9

\* A command that is not an offer leaves the calls alone.
LEMMA ChannelTaken ==
  ASSUME TypeOK, ChannelInv, commands # <<>>, commands' = Tail(commands),
         handle' = handle
  PROVE  ChannelInv'
<1>1. /\ Slots' = 1..(Len(commands) - 1)
      /\ \A i \in Slots' : i + 1 \in Slots /\ commands'[i] = commands[i + 1]
      /\ Slots = 1..Len(commands) /\ Len(commands) \in Nat
  BY ChannelHolds, ChannelAfterTake
<1>2. \A i, j \in Slots' : i < j => i + 1 < j + 1
  BY <1>1
<1> QED BY <1>1, <1>2 DEF ChannelInv, Concerns

LEMMA StopOfferKeeps ==
  ASSUME TypeOK, ChannelInv, OwnerInv, HandleInv, phase = "up",
         NEW c \in Calls, StopOffer(c)
  PROVE  ChannelInv' /\ OwnerInv' /\ HandleInv'
<1>1. /\ 1 \in Slots /\ commands[1] = [op |-> "stop", call |-> c]
      /\ Slots = 1..Len(commands) /\ Len(commands) \in Nat
      /\ Len(commands') = Len(commands) - 1
      /\ \A i \in 1..(Len(commands) - 1) : commands'[i] = commands[i + 1]
  BY ChannelHolds, ChannelAfterTake DEF StopOffer
<1>2. ChannelInv'
  BY ChannelTaken DEF StopOffer
<1>3. /\ key[c] \in Keys /\ \A d \in Calls : key[d] \in Keys
      /\ \A d \in Calls : handle[d] = "live" => key[d] # key[c]
  BY <1>1, PortTypes DEF ChannelInv, Concerns
<1>4. /\ UNCHANGED <<handle, granted, phase>>
      /\ owner' = [owner EXCEPT ![key[c]] = {}]
      /\ registered' = [registered EXCEPT ![key[c]] = {}]
      /\ offered' = [offered EXCEPT ![key[c]] = Nowhere]
  BY DEF StopOffer, Withdraw, Remove, Forget
<1>5. OwnerInv'
  BY <1>3, <1>4 DEF OwnerInv, Offered, TypeOK
<1>6. \A d \in Calls : handle[d] = "live" =>
        /\ owner'[key[d]] = {d}
        /\ \A e \in Events : <<d, e>> \in granted => e \in registered'[key[d]]
  BY <1>3, <1>4 DEF HandleInv, TypeOK
<1>7. \A k \in Keys : registered'[k] # {} => owner'[k] # {}
  BY <1>3, <1>4 DEF HandleInv, TypeOK
<1>8. ASSUME NEW k \in Keys, NEW d \in owner'[k]
      PROVE  \/ handle'[d] \in {"live", "orphan", "lost"}
             \/ \E i \in 1..Len(commands') : commands'[i] = [op |-> "stop", call |-> d]
  <2>1. k # key[c] /\ d \in owner[k] /\ d # c
    BY <1>3, <1>4, <1>8 DEF TypeOK, OwnerInv
  <2>2. CASE handle[d] \in {"live", "orphan", "lost"}
    BY <1>4, <2>2
  <2>3. CASE \E i \in 1..Len(commands) : commands[i] = [op |-> "stop", call |-> d]
    <3>1. PICK i \in 1..Len(commands) : commands[i] = [op |-> "stop", call |-> d]
      BY <2>3
    <3>2. i # 1
      BY <1>1, <2>1, <3>1
    <3>3. i - 1 \in 1..Len(commands') /\ commands'[i - 1] = commands[i]
      BY <1>1, <3>1, <3>2
    <3> QED BY <3>1, <3>3
  <2> QED BY <2>1, <2>2, <2>3 DEF HandleInv
<1>9. HandleInv'
  BY <1>4, <1>6, <1>7, <1>8 DEF HandleInv
<1> QED BY <1>2, <1>5, <1>9

LEMMA RegisterKeeps ==
  ASSUME TypeOK, ChannelInv, OwnerInv, HandleInv, phase = "up",
         NEW c \in Calls, NEW e \in Events, RegisterEvent(c, e)
  PROVE  ChannelInv' /\ OwnerInv' /\ HandleInv'
<1>1. /\ 1 \in Slots /\ commands[1] = [op |-> "register", call |-> c, event |-> e]
      /\ Slots = 1..Len(commands) /\ Len(commands) \in Nat
      /\ Len(commands') = Len(commands) - 1
      /\ \A i \in 1..(Len(commands) - 1) : commands'[i] = commands[i + 1]
  BY ChannelHolds, ChannelAfterTake DEF RegisterEvent
<1>2. ChannelInv'
  BY ChannelTaken DEF RegisterEvent
<1>3. /\ key[c] \in Keys /\ \A d \in Calls : key[d] \in Keys
      /\ handle[c] \notin {"new", "asked"}
  BY <1>1, PortTypes DEF ChannelInv
<1>4. /\ UNCHANGED <<handle, owner, offered, phase>>
      /\ \A k \in Keys : registered[k] \subseteq registered'[k]
      /\ \A k \in Keys : registered'[k] # registered[k] => k \in Offered
      /\ granted' \subseteq granted \cup {<<c, e>>}
      /\ granted' # granted => e \in registered'[key[c]]
  BY <1>3 DEF RegisterEvent, TypeOK
<1>5. OwnerInv'
  <2>1. \A g \in granted' : handle[g[1]] \notin {"new", "asked"}
    BY <1>3, <1>4 DEF OwnerInv
  <2> QED BY <1>4, <2>1 DEF OwnerInv, Offered
<1>6. \A d \in Calls : handle[d] = "live" =>
        /\ owner[key[d]] = {d}
        /\ \A f \in Events : <<d, f>> \in granted' => f \in registered'[key[d]]
  BY <1>3, <1>4 DEF HandleInv
<1>7. \A k \in Keys : registered'[k] # {} => owner[k] # {}
  BY <1>4 DEF HandleInv, OwnerInv
<1>8. ASSUME NEW k \in Keys, NEW d \in owner[k]
      PROVE  \/ handle[d] \in {"live", "orphan", "lost"}
             \/ \E i \in 1..Len(commands') : commands'[i] = [op |-> "stop", call |-> d]
  <2>1. CASE \E i \in 1..Len(commands) : commands[i] = [op |-> "stop", call |-> d]
    <3>1. PICK i \in 1..Len(commands) : commands[i] = [op |-> "stop", call |-> d]
      BY <2>1
    <3>2. i # 1
      BY <1>1, <3>1
    <3>3. i - 1 \in 1..Len(commands') /\ commands'[i - 1] = commands[i]
      BY <1>1, <3>1, <3>2
    <3> QED BY <3>1, <3>3
  <2> QED BY <1>8, <2>1 DEF HandleInv
<1>9. HandleInv'
  BY <1>4, <1>6, <1>7, <1>8 DEF HandleInv
<1> QED BY <1>2, <1>5, <1>9

LEMMA UpNext ==
  ASSUME "twice" \notin Faults
  PROVE  TypeOK /\ UpInv /\ [Next]_vars => UpInv'
<1> SUFFICES ASSUME TypeOK, UpInv, [Next]_vars, phase' = "up"
             PROVE  ChannelInv' /\ OwnerInv' /\ HandleInv'
  BY DEF UpInv
<1>1. phase = "up" /\ ~Shutdown /\ ~Down
  BY DEF Next, Application, Start, Cancel, Drop, Create, Command, Offer, StopOffer,
         RegisterEvent, FlushInitial, Turn, Periodic, Find, HandleFind, FlushUnicast, Serve, Request, Answer, Respond,
         SocketEnds, SocketTaskEnds, Shutdown, Down, vars
<1>2. ChannelInv /\ OwnerInv /\ HandleInv
  BY <1>1 DEF UpInv
<1>3. CASE Application
  BY <1>1, <1>2, <1>3, StartKeeps, CancelKeeps, DropKeeps, CreateKeeps DEF Application
<1>4. CASE Command
  BY <1>1, <1>2, <1>4, OfferKeeps, StopOfferKeeps, RegisterKeeps DEF Command
<1>5. CASE FlushInitial \/ Turn \/ Find \/ FlushUnicast \/ Serve \/ Answer \/ SocketEnds
           \/ UNCHANGED vars
  <2>1. UNCHANGED <<handle, commands, offered, owner, registered, granted, phase>>
    BY <1>5 DEF FlushInitial, Turn, Periodic, Find, HandleFind, FlushUnicast, Serve,
                Request, Answer, Respond,
                SocketEnds, SocketTaskEnds, vars
  <2> QED BY <1>2, <2>1 DEF ChannelInv, Slots, OwnerInv, Offered, HandleInv
<1> QED BY <1>1, <1>3, <1>4, <1>5 DEF Next

\* Unless a service is offered while it is offered, each handle in use has its
\* service and its events, and each service its handle: HandleInv.
THEOREM HandlesCorrect ==
  ASSUME "twice" \notin Faults
  PROVE  Spec => []HandleInv
<1>1. Init => TypeOK /\ UpInv
  BY TypeInit, UpInit
<1>2. TypeOK /\ UpInv /\ [Next]_vars => TypeOK' /\ UpInv'
  BY TypeNext, UpNext
<1>3. UpInv => HandleInv
  BY DEF UpInv, HandleInv
<1> QED BY <1>1, <1>2, <1>3, PTL DEF Spec
=============================================================================
