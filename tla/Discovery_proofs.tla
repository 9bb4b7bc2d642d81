-------------------------- MODULE Discovery_proofs --------------------------
(***************************************************************************)
(* Proofs about service discovery, for any services, searches, finds and   *)
(* repetitions, any bounds on messages and losses, and all the faults.     *)
(***************************************************************************)
EXTENDS Discovery, SequenceTheorems, TLAPS

USE WildcardAssumption, BoundAssumption, SearchesAssumption

-----------------------------------------------------------------------------
(* Queues.                                                                 *)

Elements(q) == {q[i] : i \in DOMAIN q}

LEMMA AfterSend ==
  ASSUME NEW S, NEW q \in Seq(S), NEW m \in S
  PROVE  Append(q, m) \in Seq(S)
  OBVIOUS

LEMMA AfterTake ==
  ASSUME NEW S, NEW q \in Seq(S), q # <<>>
  PROVE  Tail(q) \in Seq(S) /\ Head(q) \in S
  OBVIOUS

\* A queue to which a message may have been sent, or from which one may have
\* been taken.
LEMMA Sent ==
  ASSUME NEW S, NEW q \in Seq(S), NEW m \in S, NEW r, r = q \/ r = Append(q, m)
  PROVE  r \in Seq(S)
  BY AfterSend

LEMMA Taken ==
  ASSUME NEW S, NEW q \in Seq(S), NEW r, r = q \/ (q # <<>> /\ r = Tail(q))
  PROVE  r \in Seq(S)
  BY AfterTake

LEMMA EmptyQueue == ASSUME NEW S PROVE <<>> \in Seq(S)
  OBVIOUS

LEMMA ElementsAfterSend ==
  ASSUME NEW q \in Seq(Command), NEW m \in Command
  PROVE  Elements(q) \subseteq Elements(Append(q, m)) /\ m \in Elements(Append(q, m))
  <1>1. /\ DOMAIN q = 1..Len(q) /\ DOMAIN Append(q, m) = 1..(Len(q) + 1)
        /\ Len(q) \in Nat
        /\ \A i \in 1..Len(q) : Append(q, m)[i] = q[i]
        /\ Append(q, m)[Len(q) + 1] = m
    OBVIOUS
  <1>2. DOMAIN q \subseteq DOMAIN Append(q, m) /\ Len(q) + 1 \in DOMAIN Append(q, m)
    BY <1>1
  <1> QED BY <1>1, <1>2 DEF Elements

LEMMA ElementsAfterTake ==
  ASSUME NEW q \in Seq(Command), q # <<>>
  PROVE  Elements(q) \subseteq Elements(Tail(q)) \cup {Head(q)}
  <1> SUFFICES ASSUME NEW i \in DOMAIN q, i # 1 PROVE q[i] \in Elements(Tail(q))
    BY DEF Elements
  <1>1. i \in 2..Len(q) /\ Len(q) \in Nat OBVIOUS
  <1>2. i - 1 \in DOMAIN Tail(q) /\ Tail(q)[i - 1] = q[i] BY <1>1
  <1> QED BY <1>2 DEF Elements

-----------------------------------------------------------------------------
(* Types.                                                                  *)

OutcomeType == outcome \in [Finds -> {"idle", "waiting", "found", "unavailable", "dropped"}]

LEMMA OutcomesType ==
  ASSUME OutcomeType, NEW notified, NEW closed, Outcomes(notified, closed)
  PROVE  OutcomeType'
  BY DEF OutcomeType, Outcomes

LEMMA EmitType ==
  ASSUME TypeOK, NEW available \in SUBSET Key, Emit(available)
  PROVE  monitored' \in BOOLEAN /\ view' \subseteq Key
  BY DEF TypeOK, Emit

LEMMA CriterionType ==
  ASSUME TypeOK, NEW f \in Finds PROVE criterion[f] \in SearchKey
  BY DEF TypeOK

\* At most one request for each key.
RequestsType ==
  /\ requests \subseteq Request
  /\ \A r1, r2 \in requests : r1.key = r2.key => r1 = r2

LEMMA SubsetType ==
  ASSUME RequestsType, requests' \subseteq requests PROVE RequestsType'
  BY DEF RequestsType

LEMMA TypeInit == Init => TypeOK
  <1> SUFFICES ASSUME Init PROVE TypeOK OBVIOUS
  <1>1. /\ commands \in Seq(Command) /\ finds \in Seq(SUBSET SearchKey)
        /\ offers \in Seq(Message) /\ answers \in Seq(SUBSET Key)
    BY Zenon, EmptyQueue DEF Init
  <1>2. /\ discovered \in [Key -> {"no", "alive", "expired"}]
        /\ outcome \in [Finds -> {"idle", "waiting", "found", "unavailable", "dropped"}]
    BY DEF Init
  <1>3. /\ requests \subseteq Request
        /\ \A r1, r2 \in requests : r1.key = r2.key => r1 = r2
        /\ losses \in 0..MaxLoss
    BY DEF Init
  <1>4. /\ criterion \in Searches /\ view \subseteq Key /\ offered \subseteq Key
        /\ monitored \in BOOLEAN /\ reborn \in BOOLEAN
    BY DEF Init
  <1> QED BY Zenon, <1>1, <1>2, <1>3, <1>4 DEF TypeOK

LEMMA ApplicationType == ASSUME TypeOK, Application PROVE TypeOK'
  <1>1. ASSUME NEW f \in Finds, Find(f) PROVE TypeOK'
    <2>1. [kind |-> "find", find |-> f] \in Command BY DEF Command
    <2>2. commands' \in Seq(Command) BY <1>1, <2>1, AfterSend DEF TypeOK, Find
    <2> QED BY <1>1, <2>2 DEF TypeOK, Find, monitor, network
  <1>2. ASSUME NEW f \in Finds, Cancel(f) PROVE TypeOK'
    BY <1>2 DEF TypeOK, Cancel, monitor, network
  <1>3. ASSUME NEW f \in Finds, DropProxy(f) PROVE TypeOK'
    <2>1. [kind |-> "stop_find", find |-> f] \in Command BY DEF Command
    <2>2. commands' \in Seq(Command)
      <3>1. \/ commands' = commands
            \/ commands' = Append(commands, [kind |-> "stop_find", find |-> f])
        BY <1>3 DEF DropProxy
      <3>2. commands \in Seq(Command) BY DEF TypeOK
      <3> QED BY Zenon, <2>1, <3>1, <3>2, Sent
    <2> QED BY <1>3, <2>2 DEF TypeOK, DropProxy, monitor, network
  <1> QED BY <1>1, <1>2, <1>3 DEF Application

LEMMA HandleFindType == ASSUME TypeOK, HandleFind PROVE TypeOK'
  <1> DEFINE f == Head(commands).find
             c == criterion[f]
             new == [key |-> c, find |-> f, left |-> Repetitions]
  <1>1. Head(commands) \in Command /\ commands' \in Seq(Command)
    BY AfterTake DEF TypeOK, HandleFind
  <1>2. f \in Finds BY <1>1 DEF Command
  <1>3. c \in SearchKey BY <1>2, CriterionType
  <1>4. new \in Request BY <1>2, <1>3 DEF Request
  <1>5. OutcomeType' BY OutcomesType DEF HandleFind, TypeOK, OutcomeType
  <1>6. RequestsType'
    <2>1. CASE requests' = requests BY <2>1 DEF TypeOK, RequestsType
    <2>2. CASE requests' = RequestsBut(c) \cup {new}
      BY <1>4, <2>2 DEF TypeOK, RequestsType, RequestsBut
    <2> QED BY <2>1, <2>2 DEF HandleFind
  <1>7. finds' \in Seq(SUBSET SearchKey)
    <2>1. {c} \in SUBSET SearchKey BY <1>3
    <2>2. finds' = finds \/ finds' = Append(finds, {c}) BY DEF HandleFind, SendOn
    <2>3. finds \in Seq(SUBSET SearchKey) BY DEF TypeOK
    <2> HIDE DEF c
    <2> QED BY Zenon, <2>1, <2>2, <2>3, Sent
  <1> QED BY <1>1, <1>5, <1>6, <1>7
         DEF TypeOK, OutcomeType, RequestsType, HandleFind, monitor

LEMMA HandleStopFindType == ASSUME TypeOK, HandleStopFind PROVE TypeOK'
  <1>1. commands' \in Seq(Command) BY AfterTake DEF TypeOK, HandleStopFind
  <1>2. OutcomeType' BY OutcomesType DEF HandleStopFind, TypeOK, OutcomeType
  <1>3. RequestsType'
    BY SubsetType DEF HandleStopFind, RequestsBut, TypeOK, RequestsType
  <1> QED BY <1>1, <1>2, <1>3
         DEF TypeOK, OutcomeType, RequestsType, HandleStopFind, monitor, network

LEMMA MonitorSdType == ASSUME TypeOK, MonitorSd PROVE TypeOK'
  BY DEF TypeOK, MonitorSd, Known, callers, network

LEMMA ReceiveOffersType ==
  ASSUME TypeOK, NEW K \in SUBSET Key, ReceiveOffers(K)
  PROVE  /\ discovered' \in [Key -> {"no", "alive", "expired"}]
         /\ RequestsType' /\ OutcomeType'
         /\ monitored' \in BOOLEAN /\ view' \subseteq Key
         /\ reborn' \in BOOLEAN
         /\ UNCHANGED <<criterion, commands, offered, finds, losses>>
  <1>1. discovered' \in [Key -> {"no", "alive", "expired"}]
    BY DEF TypeOK, ReceiveOffers
  <1>2. RequestsType'
    BY SubsetType DEF ReceiveOffers, RequestsKept, TypeOK, RequestsType
  <1>3. OutcomeType' BY OutcomesType DEF ReceiveOffers, TypeOK, OutcomeType
  <1>4. monitored' \in BOOLEAN /\ view' \subseteq Key
    BY EmitType DEF ReceiveOffers, TypeOK, monitor
  <1> QED BY <1>1, <1>2, <1>3, <1>4 DEF ReceiveOffers

LEMMA ReceiveType ==
  ASSUME TypeOK, ReceiveMulticastOffers \/ ReceiveAnswer PROVE TypeOK'
  <1>1. CASE ReceiveMulticastOffers
    <2>1. Head(offers) \in Message /\ offers' \in Seq(Message)
      BY <1>1, AfterTake DEF TypeOK, ReceiveMulticastOffers
    <2>2. Head(offers).keys \in SUBSET Key BY <2>1 DEF Message
    <2> QED BY <1>1, <2>1, <2>2, ReceiveOffersType
           DEF TypeOK, OutcomeType, RequestsType, ReceiveMulticastOffers
  <1>2. CASE ReceiveAnswer
    <2>1. Head(answers) \in SUBSET Key /\ answers' \in Seq(SUBSET Key)
      BY <1>2, AfterTake DEF TypeOK, ReceiveAnswer
    <2> QED BY <1>2, <2>1, ReceiveOffersType
           DEF TypeOK, OutcomeType, RequestsType, ReceiveAnswer
  <1> QED BY <1>1, <1>2

LEMMA ReceiveStopOfferType == ASSUME TypeOK, ReceiveStopOffer PROVE TypeOK'
  <1>1. offers' \in Seq(Message) BY AfterTake DEF TypeOK, ReceiveStopOffer
  <1>2. discovered' \in [Key -> {"no", "alive", "expired"}]
    BY DEF TypeOK, ReceiveStopOffer
  <1>3. RequestsType'
    BY SubsetType DEF ReceiveStopOffer, RequestsKept, TypeOK, RequestsType
  <1>4. OutcomeType' BY OutcomesType DEF ReceiveStopOffer, TypeOK, OutcomeType
  <1>5. monitored' \in BOOLEAN /\ view' \subseteq Key
    BY EmitType DEF ReceiveStopOffer, TypeOK, monitor
  <1> QED BY <1>1, <1>2, <1>3, <1>4, <1>5
         DEF TypeOK, OutcomeType, RequestsType, ReceiveStopOffer

LEMMA AfterType ==
  ASSUME RequestsType, NEW due \in SUBSET requests, \A r \in due : r.left > 0,
         requests' = After(due)
  PROVE  RequestsType'
  <1> DEFINE repeated(r) == [r EXCEPT !.left = @ - 1]
  <1>1. ASSUME NEW r \in due
        PROVE repeated(r) \in Request /\ repeated(r).key = r.key
    <2>1. r \in Request BY DEF RequestsType
    <2>2. r.left \in 0..Repetitions /\ r.left > 0 BY <2>1 DEF Request
    <2> QED BY <2>1, <2>2 DEF Request
  <1>2. requests' = ({r \in requests : r.left > 0} \ due) \cup {repeated(r) : r \in due}
    BY DEF After
  <1> HIDE DEF repeated
  <1> QED BY <1>1, <1>2 DEF RequestsType

LEMMA PeriodicType ==
  ASSUME TypeOK, NEW due \in SUBSET requests, HandlePeriodic(due) PROVE TypeOK'
  <1>1. RequestsType' BY AfterType DEF TypeOK, RequestsType, HandlePeriodic
  <1>2. OutcomeType' BY OutcomesType DEF HandlePeriodic, TypeOK, OutcomeType
  <1>3. finds' \in Seq(SUBSET SearchKey)
    <2>1. {r.key : r \in due} \in SUBSET SearchKey BY DEF TypeOK, Request
    <2>2. finds' = finds \/ finds' = Append(finds, {r.key : r \in due})
      BY DEF HandlePeriodic, SendOn
    <2>3. finds \in Seq(SUBSET SearchKey) BY DEF TypeOK
    <2> QED BY Zenon, <2>1, <2>2, <2>3, Sent
  <1>4. discovered' \in [Key -> {"no", "alive", "expired"}]
    BY DEF TypeOK, HandlePeriodic
  <1>5. monitored' \in BOOLEAN /\ view' \subseteq Key
    BY EmitType DEF HandlePeriodic, TypeOK, monitor
  <1> QED BY <1>1, <1>2, <1>3, <1>4, <1>5
         DEF TypeOK, OutcomeType, RequestsType, HandlePeriodic

LEMMA ExpireType == ASSUME TypeOK, NEW k \in Key, Expire(k) PROVE TypeOK'
  BY DEF TypeOK, Expire, callers, monitor, network

LEMMA ServerType == ASSUME TypeOK, ServerNext PROVE TypeOK'
  <1>1. ASSUME NEW k \in Key, Offer(k) PROVE TypeOK'
    BY <1>1 DEF TypeOK, Offer, callers, monitor, network
  <1>2. ASSUME NEW k \in Key, StopOffer(k) PROVE TypeOK'
    <2>1. [kind |-> "stop_offer", keys |-> {k}] \in Message BY DEF Message
    <2>2. offers' \in Seq(Message) BY <1>2, <2>1, AfterSend DEF StopOffer, SendOn, TypeOK
    <2> QED BY <1>2, <2>2 DEF TypeOK, StopOffer, callers, monitor
  <1>3. ASSUME NEW K \in SUBSET Key, SendOffers(K) PROVE TypeOK'
    <2>1. [kind |-> "offer", keys |-> K] \in Message BY DEF Message
    <2>2. offers' \in Seq(Message)
      <3>1. offers' = Append(offers, [kind |-> "offer", keys |-> K])
        BY <1>3 DEF SendOffers, SendOn
      <3>2. offers \in Seq(Message) BY DEF TypeOK
      <3> QED BY Zenon, <2>1, <3>1, <3>2, Sent
    <2> QED BY <1>3, <2>2 DEF TypeOK, SendOffers, callers, monitor
  <1>4. CASE AnswerFind
    <2>1. finds' \in Seq(SUBSET SearchKey) BY <1>4, AfterTake DEF TypeOK, AnswerFind
    <2>2. answers' \in Seq(SUBSET Key)
      <3> DEFINE hit == {k \in offered : \E c \in Head(finds) :
                                           c.instance \in {k.instance, AnyInstance}}
      <3>1. hit \in SUBSET Key BY DEF TypeOK
      <3>2. answers' = answers \/ answers' = Append(answers, hit)
        BY <1>4 DEF AnswerFind, SendOn
      <3> HIDE DEF hit
      <3>3. answers \in Seq(SUBSET Key) BY DEF TypeOK
      <3> QED BY Zenon, <3>1, <3>2, <3>3, Sent
    <2> QED BY <1>4, <2>1, <2>2 DEF TypeOK, AnswerFind, callers, monitor
  <1>5. CASE Restart
    BY <1>5, EmptyQueue DEF TypeOK, Restart, callers, monitor
  <1> QED BY <1>1, <1>2, <1>3, <1>4, <1>5 DEF ServerNext

LEMMA LoseType == ASSUME TypeOK, Lose PROVE TypeOK'
  <1>1. losses' \in 0..MaxLoss BY DEF TypeOK, Lose
  <1>2. /\ finds' \in Seq(SUBSET SearchKey) /\ offers' \in Seq(Message)
        /\ answers' \in Seq(SUBSET Key)
    <2>1. /\ finds' = finds \/ (finds # <<>> /\ finds' = Tail(finds))
          /\ offers' = offers \/ (offers # <<>> /\ offers' = Tail(offers))
          /\ answers' = answers \/ (answers # <<>> /\ answers' = Tail(answers))
      BY DEF Lose
    <2>2. /\ finds \in Seq(SUBSET SearchKey) /\ offers \in Seq(Message)
          /\ answers \in Seq(SUBSET Key)
      BY DEF TypeOK
    <2> QED BY Zenon, <2>1, <2>2, Taken
  <1> QED BY <1>1, <1>2 DEF TypeOK, Lose, callers, monitor

\* One step, whichever it is.
LEMMA Steps ==
  ASSUME Next
  PROVE  \/ Application
         \/ HandleFind \/ HandleStopFind \/ MonitorSd
         \/ ReceiveMulticastOffers \/ ReceiveAnswer \/ ReceiveStopOffer
         \/ \E k \in Key : Expire(k)
         \/ \E due \in SUBSET requests : HandlePeriodic(due)
         \/ ServerNext \/ Lose
  BY Zenon DEF Next, ClientNext, HandleCommand, Periodic

LEMMA TypeStep == TypeOK /\ [Next]_vars => TypeOK'
  <1> SUFFICES ASSUME TypeOK, [Next]_vars PROVE TypeOK' OBVIOUS
  <1>1. CASE UNCHANGED vars BY <1>1 DEF TypeOK, vars, callers, monitor, network
  <1> QED BY Zenon, <1>1, Steps, ApplicationType, HandleFindType, HandleStopFindType,
             MonitorSdType,
             ReceiveType, ReceiveStopOfferType, ExpireType, PeriodicType, ServerType, LoseType

\* Client, server and network keep their types, and find_requests holds at
\* most one request for each key.
THEOREM TypeCorrect == Spec => []TypeOK
  BY TypeInit, TypeStep, PTL DEF Spec

-----------------------------------------------------------------------------
(* Monitors.                                                               *)

LEMMA EmitCovers ==
  ASSUME NEW available, Emit(available), KnownIsAnnounced, monitored'
  PROVE  monitored /\ view' = available
  BY DEF Emit

LEMMA AnnouncedOffers ==
  ASSUME TypeOK, KnownIsAnnounced, NEW K \in SUBSET Key, ReceiveOffers(K)
  PROVE  KnownIsAnnounced'
  <1> SUFFICES ASSUME monitored', NEW k \in Key, discovered'[k] # "no" PROVE k \in view'
    BY DEF KnownIsAnnounced, Known
  <1>1. k \in K \cup Remembered BY DEF ReceiveOffers
  <1>2. Remembered \subseteq Known BY DEF Remembered
  <1>3. CASE K \subseteq Remembered
    <2>1. UNCHANGED monitor BY <1>3 DEF ReceiveOffers
    <2> QED BY <1>1, <1>2, <1>3, <2>1 DEF monitor, KnownIsAnnounced
  <1>4. CASE ~(K \subseteq Remembered)
    <2>1. Emit(view \cup (K \ Remembered)) BY <1>4 DEF ReceiveOffers
    <2>2. monitored /\ view' = view \cup (K \ Remembered) BY <2>1, EmitCovers
    <2> QED BY <1>1, <1>2, <2>2 DEF KnownIsAnnounced
  <1> QED BY <1>3, <1>4

\* Services that go, as G, are told to the monitor.
LEMMA AnnouncedGone ==
  ASSUME TypeOK, KnownIsAnnounced, NEW G, Known' \subseteq Known \ G,
         IF G = {} THEN UNCHANGED monitor ELSE Emit(view \ G)
  PROVE  KnownIsAnnounced'
  <1>1. CASE G = {} BY <1>1 DEF KnownIsAnnounced, monitor
  <1>2. CASE G # {}
    <2> SUFFICES ASSUME monitored' PROVE Known' \subseteq view' BY DEF KnownIsAnnounced
    <2>1. monitored /\ view' = view \ G BY <1>2, EmitCovers
    <2> QED BY <2>1 DEF KnownIsAnnounced
  <1> QED BY <1>1, <1>2

LEMMA AnnouncedStopOffer ==
  ASSUME TypeOK, KnownIsAnnounced, ReceiveStopOffer PROVE KnownIsAnnounced'
  <1> DEFINE gone == Head(offers).keys \cap Remembered
  <1>1. Known' \subseteq Known \ gone
    BY DEF ReceiveStopOffer, Known, Remembered
  <1>2. IF gone = {} THEN UNCHANGED monitor ELSE Emit(view \ gone)
    BY DEF ReceiveStopOffer
  <1> HIDE DEF gone
  <1> QED BY <1>1, <1>2, AnnouncedGone

LEMMA AnnouncedPeriodic ==
  ASSUME TypeOK, KnownIsAnnounced, NEW due \in SUBSET requests, HandlePeriodic(due)
  PROVE  KnownIsAnnounced'
  <1>1. Known' \subseteq Known \ Stale BY DEF HandlePeriodic, Known, Stale
  <1>2. IF Stale = {} THEN UNCHANGED monitor ELSE Emit(view \ Stale)
    BY DEF HandlePeriodic
  <1> QED BY <1>1, <1>2, AnnouncedGone

\* Messages hold services.
LEMMA ReceivedKeys ==
  ASSUME TypeOK, ReceiveMulticastOffers \/ ReceiveAnswer
  PROVE  \E K \in SUBSET Key : ReceiveOffers(K)
  <1>1. CASE ReceiveMulticastOffers
    <2>1. Head(offers) \in Message BY <1>1, AfterTake DEF TypeOK, ReceiveMulticastOffers
    <2>2. Head(offers).keys \in SUBSET Key BY <2>1 DEF Message
    <2> QED BY <1>1, <2>2 DEF ReceiveMulticastOffers
  <1>2. CASE ReceiveAnswer
    <2>1. Head(answers) \in SUBSET Key BY <1>2, AfterTake DEF TypeOK, ReceiveAnswer
    <2> QED BY <1>2, <2>1 DEF ReceiveAnswer
  <1> QED BY <1>1, <1>2

LEMMA AnnouncedStep == TypeOK /\ KnownIsAnnounced /\ [Next]_vars => KnownIsAnnounced'
  <1> SUFFICES ASSUME TypeOK, KnownIsAnnounced, [Next]_vars PROVE KnownIsAnnounced'
    OBVIOUS
  <1> DEFINE Same == UNCHANGED <<discovered, monitored, view>>
  <1>1. CASE Same BY <1>1 DEF KnownIsAnnounced, Known
  <1>2. UNCHANGED vars \/ Lose => Same BY DEF vars, monitor, Lose
  <1>3. Application => Same BY DEF Application, Find, Cancel, DropProxy, monitor
  <1>4. HandleFind \/ HandleStopFind => Same BY DEF HandleFind, HandleStopFind, monitor
  <1>5. ServerNext => Same
    BY DEF ServerNext, Offer, StopOffer, SendOffers, AnswerFind, Restart, monitor
  <1>6. ASSUME NEW k \in Key, Expire(k) PROVE KnownIsAnnounced'
    <2>1. Known' \subseteq Known BY <1>6 DEF Expire, Known, TypeOK
    <2> QED BY <1>6, <2>1 DEF Expire, KnownIsAnnounced, monitor
  <1>7. MonitorSd => KnownIsAnnounced' BY DEF MonitorSd, KnownIsAnnounced, Known
  <1> HIDE DEF Same
  <1> QED BY Zenon, <1>1, <1>2, <1>3, <1>4, <1>5, <1>6, <1>7, Steps, ReceivedKeys,
             AnnouncedOffers, AnnouncedStopOffer, AnnouncedPeriodic

\* Whatever expires, is lost, lags or restarts, a monitor that is registered
\* was told of every service that the client knows.
THEOREM NothingUnannounced == Spec => []KnownIsAnnounced
  <1>1. Init => KnownIsAnnounced BY DEF Init, KnownIsAnnounced, Known
  <1> QED BY <1>1, TypeCorrect, AnnouncedStep, PTL DEF Spec

-----------------------------------------------------------------------------
(* Finds that wait.                                                        *)

\* A request asks for what its find was called for.
KeyInv == \A r \in requests : r.key = criterion[r.find]

FindCommand(f) == [kind |-> "find", find |-> f]

\* A request that is served by no service that is known.
Asks(f) == \E r \in requests : r.find = f /\ \A k \in Known : ~Matches(r.key, k)

LEMMA WaitingMeans ==
  WaitingInv <=> \A f \in Finds : outcome[f] = "waiting" =>
                                    FindCommand(f) \in Elements(commands) \/ Asks(f)
  BY DEF WaitingInv, FindCommand, Elements, Asks

\* The find of a request that goes sees its channel closed: no other request
\* can be its own.
LEMMA ClosedFind ==
  ASSUME TypeOK, KeyInv, NEW left \in SUBSET requests, NEW r \in requests, r \notin left
  PROVE  r.find \in Closed(left)
  <1>1. ASSUME NEW q \in left PROVE q.find # r.find
    BY <1>1 DEF KeyInv, TypeOK
  <1> QED BY <1>1 DEF Closed

\* A step after which the requests of left are still there.
LEMMA WaitingKept ==
  ASSUME TypeOK, KeyInv, WaitingInv,
         NEW left \in SUBSET requests, left \subseteq requests',
         NEW notified, Outcomes(notified, Closed(left)),
         NEW f \in Finds, outcome'[f] = "waiting",
         FindCommand(f) \in Elements(commands) => FindCommand(f) \in Elements(commands'),
         \A r \in left : r.find = f => \A k \in Known' \ Known : ~Matches(r.key, k)
  PROVE  FindCommand(f) \in Elements(commands') \/ Asks(f)'
  <1>1. outcome[f] = "waiting" /\ f \notin Closed(left) BY DEF Outcomes
  <1>2. CASE Asks(f)
    <2>1. PICK r \in requests : r.find = f /\ \A k \in Known : ~Matches(r.key, k)
      BY <1>2 DEF Asks
    <2>2. r \in left BY <1>1, <2>1, ClosedFind
    <2>3. \A k \in Known' : ~Matches(r.key, k) BY <2>1, <2>2
    <2> QED BY <2>1, <2>2, <2>3 DEF Asks, Matches
  <1> QED BY <1>1, <1>2, WaitingMeans

\* A find stays in the queue when the command of another one is taken.
LEMMA OthersQueued ==
  ASSUME TypeOK, commands # <<>>, commands' = Tail(commands),
         NEW f \in Finds, Head(commands) # FindCommand(f),
         FindCommand(f) \in Elements(commands)
  PROVE  FindCommand(f) \in Elements(commands')
  BY ElementsAfterTake DEF TypeOK

LEMMA FindWaiting ==
  ASSUME TypeOK, KeyInv, WaitingInv, HandleFind PROVE KeyInv' /\ WaitingInv'
  <1> DEFINE g == Head(commands).find
             c == criterion[g]
             new == [key |-> c, find |-> g, left |-> Repetitions]
             left == RequestsBut(c)
  <1>1. Head(commands) \in Command /\ Head(commands).kind = "find"
    BY AfterTake DEF TypeOK, HandleFind
  <1>2. Head(commands) = FindCommand(g) /\ g \in Finds
    BY <1>1 DEF Command, FindCommand
  <1>3. UNCHANGED <<criterion, discovered>> /\ Known' = Known
    BY DEF HandleFind, Known
  <1>4. ASSUME NEW f \in Finds, f # g, FindCommand(f) \in Elements(commands)
        PROVE FindCommand(f) \in Elements(commands')
    <2>1. Head(commands) # FindCommand(f) BY <1>2, <1>4 DEF FindCommand
    <2> QED BY <1>4, <2>1, OthersQueued DEF HandleFind
  <1>5. CASE \E k \in Answerable : Matches(c, k)
    <2>1. Outcomes({g}, {}) /\ requests' = requests BY <1>5 DEF HandleFind
    <2>2. KeyInv' BY <1>3, <2>1 DEF KeyInv
    <2>3. ASSUME NEW f \in Finds, outcome'[f] = "waiting"
          PROVE FindCommand(f) \in Elements(commands') \/ Asks(f)'
      <3>1. f # g /\ outcome[f] = "waiting" BY <2>1, <2>3 DEF Outcomes
      <3> QED BY <1>3, <1>4, <2>1, <3>1, WaitingMeans DEF Asks, Matches
    <2>4. WaitingInv' BY <2>3, WaitingMeans DEF WaitingInv, FindCommand, Elements, Asks
    <2> QED BY <2>2, <2>4
  <1>6. CASE ~\E k \in Answerable : Matches(c, k)
    <2>1. requests' = left \cup {new} /\ Outcomes({}, Closed(left))
      BY <1>6 DEF HandleFind
    <2>2. left \in SUBSET requests BY DEF RequestsBut
    <2>3. KeyInv' BY <1>3, <2>1, <2>2 DEF KeyInv
    <2>4. ASSUME NEW f \in Finds, outcome'[f] = "waiting"
          PROVE FindCommand(f) \in Elements(commands') \/ Asks(f)'
      <3>1. CASE f = g
        <4>1. new \in requests' /\ new.find = f /\ new.key = c BY <2>1, <3>1
        <4>2. \A k \in Known' : ~Matches(new.key, k)
          BY <1>3, <1>6, <4>1 DEF Answerable
        <4> QED BY <4>1, <4>2 DEF Asks, Matches
      <3>2. CASE f # g
        <4> HIDE DEF left
        <4> QED BY <1>3, <1>4, <2>1, <2>2, <2>4, <3>2, WaitingKept
      <3> QED BY <3>1, <3>2
    <2>5. WaitingInv' BY <2>4 DEF WaitingInv, FindCommand, Elements, Asks
    <2> QED BY <2>3, <2>5
  <1> QED BY <1>5, <1>6

LEMMA StopFindWaiting ==
  ASSUME TypeOK, KeyInv, WaitingInv, HandleStopFind PROVE KeyInv' /\ WaitingInv'
  <1> DEFINE left == RequestsBut(criterion[Head(commands).find])
  <1>1. /\ requests' = left /\ Outcomes({}, Closed(left))
        /\ UNCHANGED <<criterion, discovered>> /\ Known' = Known
    BY DEF HandleStopFind, Known
  <1>2. left \in SUBSET requests BY DEF RequestsBut
  <1>3. KeyInv' BY <1>1, <1>2 DEF KeyInv
  <1>4. ASSUME NEW f \in Finds, outcome'[f] = "waiting"
        PROVE FindCommand(f) \in Elements(commands') \/ Asks(f)'
    <2>1. Head(commands) # FindCommand(f) BY DEF HandleStopFind, FindCommand
    <2>2. FindCommand(f) \in Elements(commands) => FindCommand(f) \in Elements(commands')
      BY <2>1, OthersQueued DEF HandleStopFind
    <2> HIDE DEF left
    <2> QED BY <1>1, <1>2, <1>4, <2>2, WaitingKept
  <1>5. WaitingInv' BY <1>4 DEF WaitingInv, FindCommand, Elements, Asks
  <1> QED BY <1>3, <1>5

LEMMA OffersWaiting ==
  ASSUME TypeOK, KeyInv, WaitingInv, NEW K \in SUBSET Key, ReceiveOffers(K)
  PROVE  KeyInv' /\ WaitingInv'
  <1> DEFINE new == K \ Remembered
             told == {r.find : r \in {q \in RequestsKept : \E k \in new : Matches(q.key, k)}}
  <1>1. /\ requests' = RequestsKept /\ Outcomes(told, Closed(RequestsKept))
        /\ UNCHANGED <<criterion, commands>>
    BY DEF ReceiveOffers
  <1>2. RequestsKept \in SUBSET requests BY DEF RequestsKept
  <1>3. Known' \subseteq K \cup Remembered /\ Remembered \subseteq Known
    BY DEF ReceiveOffers, Known, Remembered
  <1>4. KeyInv' BY <1>1, <1>2 DEF KeyInv
  <1>5. ASSUME NEW f \in Finds, outcome'[f] = "waiting"
        PROVE FindCommand(f) \in Elements(commands') \/ Asks(f)'
    <2>1. f \notin told BY <1>1, <1>5 DEF Outcomes
    <2>2. \A r \in RequestsKept : r.find = f => \A k \in Known' \ Known : ~Matches(r.key, k)
      BY <1>3, <2>1
    <2>3. FindCommand(f) \in Elements(commands) => FindCommand(f) \in Elements(commands')
      BY <1>1
    <2> HIDE DEF told
    <2> QED BY <1>1, <1>2, <1>5, <2>2, <2>3, WaitingKept
  <1>6. WaitingInv' BY <1>5 DEF WaitingInv, FindCommand, Elements, Asks
  <1> QED BY <1>4, <1>6

LEMMA StopOfferWaiting ==
  ASSUME TypeOK, KeyInv, WaitingInv, ReceiveStopOffer PROVE KeyInv' /\ WaitingInv'
  <1>1. /\ requests' = RequestsKept /\ Outcomes({}, Closed(RequestsKept))
        /\ UNCHANGED <<criterion, commands>>
    BY DEF ReceiveStopOffer
  <1>2. RequestsKept \in SUBSET requests BY DEF RequestsKept
  <1>3. Known' \subseteq Known BY DEF ReceiveStopOffer, Known, Remembered
  <1>4. KeyInv' BY <1>1, <1>2 DEF KeyInv
  <1>5. ASSUME NEW f \in Finds, outcome'[f] = "waiting"
        PROVE FindCommand(f) \in Elements(commands') \/ Asks(f)'
    BY <1>1, <1>2, <1>3, <1>5, WaitingKept
  <1>6. WaitingInv' BY <1>5 DEF WaitingInv, FindCommand, Elements, Asks
  <1> QED BY <1>4, <1>6

LEMMA PeriodicWaiting ==
  ASSUME TypeOK, KeyInv, WaitingInv, NEW due \in SUBSET requests, HandlePeriodic(due)
  PROVE  KeyInv' /\ WaitingInv'
  <1> DEFINE repeated(r) == [r EXCEPT !.left = @ - 1]
  <1>1. ASSUME NEW r \in requests
        PROVE repeated(r).find = r.find /\ repeated(r).key = r.key
    BY DEF TypeOK, Request
  <1>2. requests' = ({r \in requests : r.left > 0} \ due) \cup {repeated(r) : r \in due}
    BY DEF HandlePeriodic, After
  <1>3. /\ Outcomes({}, Closed(requests'))
        /\ UNCHANGED <<criterion, commands>>
        /\ \A r \in due : r.left > 0
    BY DEF HandlePeriodic
  <1>4. Known' \subseteq Known BY DEF HandlePeriodic, Known
  <1> HIDE DEF repeated
  <1>5. \A q \in requests' : \E r \in requests : r.find = q.find /\ r.key = q.key /\ r.left > 0
    BY <1>1, <1>2, <1>3
  <1>6. KeyInv' BY <1>3, <1>5 DEF KeyInv
  <1>7. ASSUME NEW f \in Finds, outcome'[f] = "waiting", Asks(f) PROVE Asks(f)'
    <2>1. f \notin Closed(requests') BY <1>3, <1>7 DEF Outcomes
    <2>2. PICK r \in requests : r.find = f /\ \A k \in Known : ~Matches(r.key, k)
      BY <1>7 DEF Asks
    <2>3. PICK q \in requests' : q.find = f BY <2>1, <2>2 DEF Closed
    <2>4. q.key = r.key BY <1>5, <2>2, <2>3 DEF KeyInv
    <2> QED BY <1>4, <2>2, <2>3, <2>4 DEF Asks, Matches
  <1>8. ASSUME NEW f \in Finds, outcome'[f] = "waiting" PROVE outcome[f] = "waiting"
    BY <1>3, <1>8 DEF Outcomes
  <1>9. WaitingInv'
    BY <1>3, <1>7, <1>8, WaitingMeans DEF WaitingInv, FindCommand, Elements, Asks
  <1> QED BY <1>6, <1>9

\* Steps of the application: a find is begun, or given up.
LEMMA ApplicationWaiting ==
  ASSUME TypeOK, KeyInv, WaitingInv, Application PROVE KeyInv' /\ WaitingInv'
  <1>1. UNCHANGED <<requests, criterion, discovered>> /\ Known' = Known
    BY DEF Application, Find, Cancel, DropProxy, Known
  <1>2. KeyInv' BY <1>1 DEF KeyInv
  <1>3. Elements(commands) \subseteq Elements(commands')
    <2>1. \A f \in Finds : FindCommand(f) \in Command /\ [kind |-> "stop_find", find |-> f] \in Command
      BY DEF FindCommand, Command
    <2> QED BY <2>1, ElementsAfterSend
           DEF Application, Find, Cancel, DropProxy, FindCommand, TypeOK
  <1>4. ASSUME NEW f \in Finds, outcome'[f] = "waiting"
        PROVE outcome[f] = "waiting" \/ FindCommand(f) \in Elements(commands')
    <2>1. FindCommand(f) \in Command BY DEF FindCommand, Command
    <2> QED BY <1>4, <2>1, ElementsAfterSend
           DEF Application, Find, Cancel, DropProxy, FindCommand, TypeOK
  <1>5. WaitingInv'
    BY <1>1, <1>3, <1>4, WaitingMeans DEF WaitingInv, FindCommand, Elements, Asks, Matches
  <1> QED BY <1>2, <1>5

LEMMA WaitingStep ==
  TypeOK /\ KeyInv /\ WaitingInv /\ [Next]_vars => KeyInv' /\ WaitingInv'
  <1> SUFFICES ASSUME TypeOK, KeyInv, WaitingInv, [Next]_vars PROVE KeyInv' /\ WaitingInv'
    OBVIOUS
  <1> DEFINE Same == UNCHANGED <<requests, criterion, outcome, commands>> /\ Known' = Known
  <1>1. CASE Same
    BY <1>1, WaitingMeans DEF KeyInv, WaitingInv, FindCommand, Elements, Asks, Matches
  <1>2. UNCHANGED vars \/ Lose => Same BY DEF vars, callers, Lose, Known
  <1>3. ServerNext => Same
    BY DEF ServerNext, Offer, StopOffer, SendOffers, AnswerFind, Restart, callers, Known
  <1>4. ASSUME NEW k \in Key, Expire(k) PROVE Same
    BY <1>4 DEF Expire, callers, Known, TypeOK
  <1>5. MonitorSd => Same BY DEF MonitorSd, callers, Known
  <1> HIDE DEF Same
  <1> QED BY Zenon, <1>1, <1>2, <1>3, <1>4, <1>5, Steps, ApplicationWaiting, FindWaiting,
             StopFindWaiting, ReceivedKeys, OffersWaiting, StopOfferWaiting, PeriodicWaiting

\* No find misses its service: whatever is lost, dropped, overwritten or
\* restarts, one that waits is still in the queue or asks for something that
\* is not known.
THEOREM NoFindMissed == Spec => []WaitingInv
  <1>1. Init => KeyInv /\ WaitingInv BY DEF Init, KeyInv, WaitingInv
  <1> QED BY <1>1, TypeCorrect, WaitingStep, PTL DEF Spec
=============================================================================
