---------------------------- MODULE PubSub_proofs ----------------------------
(***************************************************************************)
(* TLAPS proofs about PubSub: type correctness, one port per subscription, *)
(* the invariant of the waiting calls, and that the protocol implements    *)
(* SubscribeCall, for any number of calls and eventgroups.                 *)
(***************************************************************************)
EXTENDS PubSub, SequenceTheorems, FiniteSetTheorems, TLAPS

-----------------------------------------------------------------------------
(* Types.                                                                  *)

\* What is sent to the server is typed, the empty Send included.
LEMMA SendType ==
  ASSUME toServer \in Seq(ToServer),
         NEW kind \in {"subscribe", "stop_subscribe"},
         NEW entries \in SUBSET Entry, Send(kind, entries)
  PROVE  toServer' \in Seq(ToServer)
<1>1. [kind |-> kind, entries |-> entries] \in ToServer
  BY DEF ToServer
<1> QED BY <1>1 DEF Send

\* The entries that renew or end subscriptions are typed.
LEMMA EntriesType ==
  ASSUME NEW R \in SUBSET ClientSubscription
  PROVE  {[eg |-> r.eg, port |-> r.port] : r \in R} \in SUBSET Entry
BY DEF ClientSubscription, Entry

\* The head of a queue is typed.
LEMMA HeadType ==
  ASSUME TypeOK
  PROVE  /\ toServer # <<>> => /\ Tail(toServer) \in Seq(ToServer)
                               /\ Head(toServer).entries \in SUBSET Entry
         /\ toClient # <<>> => /\ Tail(toClient) \in Seq(ToClient)
                               /\ Head(toClient).egs \in SUBSET Groups
         /\ offers # <<>> => Tail(offers) \in Seq(BOOLEAN)
<1>1. ASSUME toServer # <<>>
      PROVE  /\ Tail(toServer) \in Seq(ToServer)
             /\ Head(toServer).entries \in SUBSET Entry
  <2>1. Head(toServer) \in ToServer /\ Tail(toServer) \in Seq(ToServer)
    BY <1>1, HeadTailProperties DEF TypeOK
  <2> QED BY <2>1 DEF ToServer
<1>2. ASSUME toClient # <<>>
      PROVE  /\ Tail(toClient) \in Seq(ToClient)
             /\ Head(toClient).egs \in SUBSET Groups
  <2>1. Head(toClient) \in ToClient /\ Tail(toClient) \in Seq(ToClient)
    BY <1>2, HeadTailProperties DEF TypeOK
  <2> QED BY <2>1 DEF ToClient
<1>3. ASSUME offers # <<>> PROVE Tail(offers) \in Seq(BOOLEAN)
  BY <1>3, HeadTailProperties DEF TypeOK
<1> QED BY <1>1, <1>2, <1>3

\* The initial state is typed.
LEMMA TypeInit == Init => TypeOK
<1> SUFFICES ASSUME Init PROVE TypeOK
  OBVIOUS
<1>1. /\ waiters \in [Groups -> SUBSET Calls]
      /\ \A g \in Groups \ pending : waiters[g] = {}
      /\ acked \in [Calls -> SUBSET Groups]
      /\ chosen \in [Calls -> SUBSET Groups]
      /\ outcome \in [Calls -> {"idle", "waiting", "ok", "err",
                                "cancelled", "dropped"}]
  BY DEF Init
<1>2. /\ toServer \in Seq(ToServer) /\ toClient \in Seq(ToClient)
      /\ offers \in Seq(BOOLEAN) /\ losses \in 0..MaxLoss
  BY BoundAssumption DEF Init
<1> QED BY <1>1, <1>2 DEF Init, TypeOK

\* The client's commands keep the types.
LEMMA CommandsKeepTypes ==
  ASSUME TypeOK, NEW s \in Calls,
         \/ \E G \in SUBSET Groups : Subscribe(s, G)
         \/ SubscribeFails(s) \/ Cancel(s) \/ Drop(s)
         \/ \E c \in commands : Unsubscribe(c)
  PROVE  TypeOK'
<1> USE DEF TypeOK
<1>1. ASSUME NEW G \in SUBSET Groups, Subscribe(s, G) PROVE TypeOK'
  <2> DEFINE port  == SubscriptionPort(s)
             first == {g \in G : waiters[g] = {}}
  <2>1. port \in Port
    BY DEF SubscriptionPort, Port
  <2>2. [eg: first, port: {port}] \in SUBSET Entry
    BY <2>1 DEF Entry
  <2>3. toServer' \in Seq(ToServer)
    BY <1>1, <2>2, SendType DEF Subscribe
  <2>4. {[id |-> s, eg |-> g, port |-> port] : g \in G}
          \in SUBSET ClientSubscription
    BY <2>1 DEF ClientSubscription
  <2>5. subs' \subseteq ClientSubscription /\ usage' \subseteq Port
    BY <1>1, <2>1, <2>4 DEF Subscribe
  <2>6. /\ waiters' \in [Groups -> SUBSET Calls]
        /\ \A g \in Groups \ pending' : waiters'[g] = {}
        /\ pending' \subseteq Groups
    BY <1>1 DEF Subscribe
  <2>7. /\ multi' \subseteq Calls
        /\ chosen' \in [Calls -> SUBSET Groups]
        /\ outcome' \in [Calls -> {"idle", "waiting", "ok", "err",
                                   "cancelled", "dropped"}]
    BY <1>1 DEF Subscribe
  <2> QED BY <1>1, <2>3, <2>5, <2>6, <2>7 DEF Subscribe, server
<1>2. ASSUME SubscribeFails(s) PROVE TypeOK'
  BY <1>2 DEF SubscribeFails, client, server
<1>3. ASSUME Cancel(s) PROVE TypeOK'
  BY <1>3 DEF Cancel, client, server
<1>4. ASSUME Drop(s) PROVE TypeOK'
  <2>1. [id: {s}, eg: chosen[s]] \subseteq [id: Calls, eg: Groups]
    OBVIOUS
  <2>2. /\ commands' \subseteq [id: Calls, eg: Groups]
        /\ outcome' \in [Calls -> {"idle", "waiting", "ok", "err",
                                   "cancelled", "dropped"}]
    BY <1>4, <2>1 DEF Drop
  <2> QED BY <1>4, <2>2 DEF Drop, client, server
<1>5. ASSUME NEW c \in commands, Unsubscribe(c) PROVE TypeOK'
  <2> DEFINE gone == {r \in subs : r.id = c.id /\ r.eg = c.eg}
             last == discovered /\ \A r \in subs \ gone : r.eg # c.eg
             entries == IF last THEN {[eg |-> r.eg, port |-> r.port] : r \in gone}
                                ELSE {}
  <2>1. entries \in SUBSET Entry
    BY EntriesType
  <2>2. Send("stop_subscribe", entries)
    BY <1>5 DEF Unsubscribe
  <2> HIDE DEF entries
  <2>3. toServer' \in Seq(ToServer)
    BY <2>1, <2>2, SendType
  <2>4. /\ subs' \subseteq ClientSubscription /\ usage' \subseteq Port
        /\ commands' \subseteq [id: Calls, eg: Groups]
    BY <1>5 DEF Unsubscribe
  <2> QED BY <1>5, <2>3, <2>4 DEF Unsubscribe, server
<1> QED BY <1>1, <1>2, <1>3, <1>4, <1>5

\* The client's handlers keep the types.
LEMMA HandlersKeepTypes ==
  ASSUME TypeOK,
         ReceiveOffer \/ ReceiveStopOffer \/ ReceiveAck \/ ReceiveNack
           \/ ExpireService
  PROVE  TypeOK'
<1> USE DEF TypeOK
<1>k. SubsKept \subseteq subs
  BY DEF SubsKept
<1>1. ASSUME ReceiveOffer PROVE TypeOK'
  <2> DEFINE entries == {[eg |-> r.eg, port |-> r.port] : r \in Renewed}
  <2>1. Renewed \in SUBSET ClientSubscription
    BY <1>k DEF Renewed
  <2>2. entries \in SUBSET Entry
    BY <2>1, EntriesType
  <2>3. Send("subscribe", entries)
    BY <1>1 DEF ReceiveOffer
  <2> HIDE DEF entries
  <2>4. toServer' \in Seq(ToServer)
    BY <2>2, <2>3, SendType
  <2>5. offers' \in Seq(BOOLEAN)
    BY <1>1, HeadType DEF ReceiveOffer
  <2> QED BY <1>1, <1>k, <2>4, <2>5 DEF ReceiveOffer, server
<1>2. ASSUME ReceiveStopOffer PROVE TypeOK'
  <2>1. offers' \in Seq(BOOLEAN)
    BY <1>2, HeadType DEF ReceiveStopOffer
  <2>2. subs' \subseteq ClientSubscription
    BY <1>2 DEF ReceiveStopOffer
  <2> QED BY <1>2, <2>1, <2>2 DEF ReceiveStopOffer, server
<1>3. ASSUME ReceiveAck PROVE TypeOK'
  <2>1. PICK egs \in SUBSET Groups :
               egs = Head(toClient).egs /\ Tail(toClient) \in Seq(ToClient)
    BY <1>3, HeadType DEF ReceiveAck
  <2>2. toClient' \in Seq(ToClient) /\ discovered' \in BOOLEAN
    BY <1>3, <2>1 DEF ReceiveAck
  <2>3. /\ waiters' \in [Groups -> SUBSET Calls]
        /\ \A g \in Groups \ pending' : waiters'[g] = {}
        /\ pending' \subseteq Groups
    BY <1>3, <2>1 DEF ReceiveAck, ListsAfter
  <2>4. multi' \subseteq Calls /\ subs' \subseteq ClientSubscription
    BY <1>3, <1>k DEF ReceiveAck
  <2>5. acked' \in [Calls -> SUBSET Groups]
    BY <1>3, <2>1 DEF ReceiveAck
  <2>6. outcome' \in [Calls -> {"idle", "waiting", "ok", "err",
                                "cancelled", "dropped"}]
    BY <1>3 DEF ReceiveAck
  <2>7. /\ UNCHANGED <<found, usage, chosen, commands, server, toServer,
                       offers, losses>>
        /\ reborn' = FALSE
    BY <1>3 DEF ReceiveAck
  <2> QED BY <2>2, <2>3, <2>4, <2>5, <2>6, <2>7 DEF server
<1>4. ASSUME ReceiveNack PROVE TypeOK'
  <2>1. PICK egs \in SUBSET Groups :
               egs = Head(toClient).egs /\ Tail(toClient) \in Seq(ToClient)
    BY <1>4, HeadType DEF ReceiveNack
  <2>2. toClient' \in Seq(ToClient) /\ discovered' \in BOOLEAN
    BY <1>4, <2>1 DEF ReceiveNack
  <2>3. /\ waiters' \in [Groups -> SUBSET Calls]
        /\ \A g \in Groups \ pending' : waiters'[g] = {}
        /\ pending' \subseteq Groups
    BY <1>4, <2>1 DEF ReceiveNack, ListsAfter
  <2>4. multi' \subseteq Calls /\ subs' \subseteq ClientSubscription
    BY <1>4, <1>k DEF ReceiveNack
  <2>5. acked' \in [Calls -> SUBSET Groups]
    BY <1>4, <2>1 DEF ReceiveNack
  <2>6. outcome' \in [Calls -> {"idle", "waiting", "ok", "err",
                                "cancelled", "dropped"}]
    BY <1>4 DEF ReceiveNack
  <2>7. /\ UNCHANGED <<found, usage, chosen, commands, server, toServer,
                       offers, losses>>
        /\ reborn' = FALSE
    BY <1>4 DEF ReceiveNack
  <2> QED BY <2>2, <2>3, <2>4, <2>5, <2>6, <2>7 DEF server
<1>5. ASSUME ExpireService PROVE TypeOK'
  BY <1>5 DEF ExpireService, server
<1> QED BY <1>1, <1>2, <1>3, <1>4, <1>5

\* The server and the network keep the types.
LEMMA ServerKeepsTypes ==
  ASSUME TypeOK, ServerNext \/ Lose
  PROVE  TypeOK'
<1> USE DEF TypeOK
<1>1. ASSUME StartOffer PROVE TypeOK'
  BY <1>1 DEF StartOffer, client
<1>2. ASSUME SendOffer PROVE TypeOK'
  BY <1>2 DEF SendOffer, client, server
<1>3. ASSUME StopOffer PROVE TypeOK'
  <2>1. offers' \in Seq(BOOLEAN) /\ offered' \in BOOLEAN
    BY <1>3, AppendProperties DEF StopOffer
  <2> QED BY <1>3, <2>1 DEF StopOffer, client
<1>4. ASSUME RestartServer PROVE TypeOK'
  <2>1. toClient' \in Seq(ToClient) /\ offers' \in Seq(BOOLEAN)
    BY <1>4 DEF RestartServer
  <2>2. offered' \in BOOLEAN /\ reborn' \in BOOLEAN /\ subscribers' \subseteq Entry
    BY <1>4 DEF RestartServer
  <2> QED BY <1>4, <2>1, <2>2 DEF RestartServer, client
<1>5. ASSUME AcceptSubscribe PROVE TypeOK'
  <2>1. PICK entries \in SUBSET Entry :
               /\ entries = Head(toServer).entries
               /\ Tail(toServer) \in Seq(ToServer)
    BY <1>5, HeadType DEF AcceptSubscribe
  <2>2. {e.eg : e \in entries} \in SUBSET Groups
    BY <2>1 DEF Entry
  <2>3. Answer(entries) \in Seq(ToClient)
    <3>1. [kind |-> IF offered THEN "ack" ELSE "nack",
           egs  |-> {e.eg : e \in entries}] \in ToClient
      BY <2>2 DEF ToClient
    <3> QED BY <3>1, AppendProperties DEF Answer
  <2>4. /\ toServer' \in Seq(ToServer) /\ toClient' \in Seq(ToClient)
        /\ subscribers' \subseteq Entry
    BY <1>5, <2>1, <2>3 DEF AcceptSubscribe
  <2> QED BY <1>5, <2>4 DEF AcceptSubscribe, client
<1>6. ASSUME AcceptStopSubscribe PROVE TypeOK'
  <2>1. toServer' \in Seq(ToServer) /\ subscribers' \subseteq Entry
    BY <1>6, HeadType DEF AcceptStopSubscribe
  <2> QED BY <1>6, <2>1 DEF AcceptStopSubscribe, client
<1>7. ASSUME NEW e \in subscribers, ExpireSubscriber(e) PROVE TypeOK'
  BY <1>7 DEF ExpireSubscriber, client
<1>8. ASSUME Lose PROVE TypeOK'
  <2>1. /\ toServer' \in Seq(ToServer) /\ toClient' \in Seq(ToClient)
        /\ offers' \in Seq(BOOLEAN)
    BY <1>8, HeadType DEF Lose
  <2>2. losses' \in 0..MaxLoss
    BY <1>8, BoundAssumption DEF Lose
  <2> QED BY <1>8, <2>1, <2>2 DEF Lose, client, server
<1> QED BY <1>1, <1>2, <1>3, <1>4, <1>5, <1>6, <1>7, <1>8 DEF ServerNext

\* Every step keeps the types.
LEMMA TypeNext == TypeOK /\ [Next]_vars => TypeOK'
<1> SUFFICES ASSUME TypeOK, [Next]_vars PROVE TypeOK'
  OBVIOUS
<1>1. CASE UNCHANGED vars
  BY <1>1 DEF vars, client, server, TypeOK
<1>2. CASE ClientNext
  <2>1. CASE \E c \in commands : Unsubscribe(c)
    <3>1. PICK c \in commands : Unsubscribe(c)
      BY <2>1
    <3>2. c.id \in Calls
      BY DEF TypeOK
    <3> QED BY <3>1, <3>2, CommandsKeepTypes
  <2> QED BY <1>2, <2>1, CommandsKeepTypes, HandlersKeepTypes DEF ClientNext
<1>3. CASE ServerNext \/ Lose
  BY <1>3, ServerKeepsTypes
<1> QED BY <1>1, <1>2, <1>3 DEF Next

(***************************************************************************)
(* Every state of client, server and network is typed, whatever is lost,   *)
(* expires or restarts; in particular a list of waiting calls exists only  *)
(* under a key of pending_subscriptions.                                   *)
(***************************************************************************)
THEOREM TypeCorrect == Spec => []TypeOK
BY TypeInit, TypeNext, PTL DEF Spec

-----------------------------------------------------------------------------
(* Ports.                                                                  *)

PortsInv == TypeOK /\ PortInv /\ OnePortPerSubscription

\* The ports stay apart when subscriptions only disappear and no port in
\* use goes free.
LEMMA FewerSubscriptions ==
  ASSUME PortInv, OnePortPerSubscription, subs' \subseteq subs,
         \A r \in subs' : r.port \in usage => r.port \in usage'
  PROVE  PortInv' /\ OnePortPerSubscription'
BY DEF PortInv, OnePortPerSubscription

\* A new subscription takes a port that no other one of the service uses.
LEMMA SubscribeKeepsPorts ==
  ASSUME PortsInv, NEW s \in Calls, NEW G \in SUBSET Groups, Subscribe(s, G)
  PROVE  PortInv' /\ OnePortPerSubscription'
<1> DEFINE port == SubscriptionPort(s)
           new  == {[id |-> s, eg |-> g, port |-> port] : g \in G}
<1>1. subs' = subs \cup new /\ usage' = usage \cup {port}
  BY DEF Subscribe
<1>2. \A r \in new : r.id = s /\ r.port = port
  OBVIOUS
<1>3. port \in {s, Rpc}
  BY DEF SubscriptionPort
<1>4. \A r \in subs : r.port = port => r.id = s
  BY RpcAssumption DEF SubscriptionPort, PortsInv, PortInv, TypeOK,
                       ClientSubscription
<1> HIDE DEF port, new
<1>5. PortInv'
  BY <1>1, <1>2, <1>3 DEF PortInv, PortsInv
<1>6. OnePortPerSubscription'
  BY <1>1, <1>2, <1>4 DEF OnePortPerSubscription, PortsInv
<1> QED BY <1>5, <1>6

\* Every step keeps the ports apart.
LEMMA PortsNext == PortsInv /\ [Next]_vars => PortsInv'
<1> SUFFICES ASSUME PortsInv, [Next]_vars
             PROVE  PortInv' /\ OnePortPerSubscription'
  BY TypeNext DEF PortsInv
<1> USE DEF PortsInv
<1>k. SubsKept \subseteq subs
  BY DEF SubsKept
<1>1. CASE UNCHANGED <<subs, usage>>
  BY <1>1 DEF PortInv, OnePortPerSubscription
<1>2. CASE \E s \in Calls, G \in SUBSET Groups : Subscribe(s, G)
  BY <1>2, SubscribeKeepsPorts
<1>3. CASE \E c \in commands : Unsubscribe(c)
  <2>1. /\ subs' \subseteq subs
        /\ \A r \in subs' : r.port \in usage => r.port \in usage'
    BY <1>3 DEF Unsubscribe, Freed
  <2> QED BY <2>1, FewerSubscriptions
<1>4. CASE ReceiveOffer \/ ReceiveStopOffer \/ ReceiveAck \/ ReceiveNack
             \/ ExpireService
  <2>1. subs' \subseteq subs /\ usage' = usage
    BY <1>4, <1>k DEF ReceiveOffer, ReceiveStopOffer, ReceiveAck, ReceiveNack,
                      ExpireService
  <2> QED BY <2>1, FewerSubscriptions
<1>5. CASE \E s \in Calls : SubscribeFails(s) \/ Cancel(s) \/ Drop(s)
  BY <1>5, <1>1 DEF SubscribeFails, Cancel, Drop, client
<1>6. CASE ServerNext
  BY <1>6, <1>1 DEF ServerNext, StartOffer, SendOffer, StopOffer,
                    RestartServer, AcceptSubscribe, AcceptStopSubscribe,
                    ExpireSubscriber, client
<1>7. CASE Lose
  BY <1>7, <1>1 DEF Lose, client
<1>8. CASE UNCHANGED vars
  BY <1>8, <1>1 DEF vars, client
<1> QED BY <1>2, <1>3, <1>4, <1>5, <1>6, <1>7, <1>8 DEF Next, ClientNext

(***************************************************************************)
(* Two subscriptions of the service never listen on the same port.  It     *)
(* holds because a port is marked as used while a subscription holds it,   *)
(* and a dedicated port belongs to the call that bound it (PortInv).       *)
(***************************************************************************)
THEOREM PortsStayApart == Spec => []OnePortPerSubscription
<1>1. Init => PortsInv
  BY TypeInit DEF PortsInv, Init, PortInv, OnePortPerSubscription
<1>2. PortsInv => OnePortPerSubscription
  BY DEF PortsInv
<1> QED BY <1>1, <1>2, PortsNext, PTL DEF Spec

-----------------------------------------------------------------------------
(* Waiting calls.                                                          *)

Open(s) == {g \in Groups : s \in waiters[g]}

\* One call's part of the invariant, with its open eventgroups as a parameter.
\* WaiterInv needs to know in addition that a call not yet made has left no
\* trace, and that acknowledged eventgroups are only recorded for a call that
\* wants several.
CallInv(s, open) ==
  /\ outcome[s] = "waiting" => open # {}
  /\ open # {} => /\ outcome[s] \in {"waiting", "cancelled"}
                  /\ open = chosen[s] \ acked[s]
                  /\ s \in multi \/ Cardinality(chosen[s]) = 1
  /\ s \notin multi => acked[s] = {}
  /\ outcome[s] = "idle" => s \notin multi /\ open = {}

WaitingInv == TypeOK /\ \A s \in Calls : CallInv(s, Open(s))

\* The strengthening implies what it strengthens.
LEMMA WaitingImpliesWaiter == WaitingInv => WaiterInv
BY DEF WaitingInv, WaiterInv, CallInv, Open

\* A call that is not for several eventgroups waits for one.
LEMMA OnlyOneOpen ==
  ASSUME TypeOK, NEW s \in Calls, CallInv(s, Open(s)), s \notin multi,
         NEW egs \in SUBSET Groups, Open(s) \cap egs # {}
  PROVE  Open(s) \subseteq egs
<1>1. Open(s) = chosen[s] /\ Cardinality(chosen[s]) = 1
  BY DEF CallInv
<1>2. IsFiniteSet(chosen[s])
  BY GroupsAssumption, FS_Subset DEF TypeOK
<1>3. PICK g : chosen[s] = {g}
  BY <1>1, <1>2, FS_Singleton
<1> QED BY <1>1, <1>3

\* A call starts out waiting for all it wants.
LEMMA SubscribeKeepsCallInv ==
  ASSUME TypeOK, NEW s \in Calls, NEW G \in SUBSET Groups, Subscribe(s, G),
         NEW t \in Calls, CallInv(t, Open(t))
  PROVE  CallInv(t, Open(t))'
<1>1. CASE t = s
  <2>1. Open(s)' = G
    BY <1>1 DEF Subscribe, Open, CallInv, TypeOK
  <2>2. Cardinality(G) > 1 \/ Cardinality(G) = 1
    <3>1. IsFiniteSet(G) /\ G # {}
      BY GroupsAssumption, FS_Subset DEF Subscribe
    <3>2. Cardinality(G) \in Nat /\ Cardinality(G) # 0
      BY <3>1, FS_CardinalityType, FS_EmptySet
    <3> QED BY <3>2
  <2>3. /\ outcome'[s] = "waiting" /\ chosen'[s] = G /\ G # {}
        /\ acked'[s] = {}
    BY <1>1 DEF Subscribe, CallInv, TypeOK
  <2>4. s \in multi' \/ Cardinality(G) = 1
    BY <2>2 DEF Subscribe
  <2> QED BY <1>1, <2>1, <2>3, <2>4 DEF CallInv
<1>2. CASE t # s
  <2>1. Open(t)' = Open(t)
    BY <1>2 DEF Subscribe, Open, TypeOK
  <2>2. /\ outcome'[t] = outcome[t] /\ chosen'[t] = chosen[t]
        /\ acked'[t] = acked[t] /\ (t \in multi' <=> t \in multi)
    BY <1>2 DEF Subscribe, TypeOK
  <2> QED BY <2>1, <2>2 DEF CallInv
<1> QED BY <1>1, <1>2

\* An ACK takes its eventgroups off a call's list, and answers the call
\* exactly when they were the last.
LEMMA AckEffect ==
  ASSUME TypeOK, ReceiveAck, NEW s \in Calls, CallInv(s, Open(s)),
         NEW egs \in SUBSET Groups, egs = Head(toClient).egs
  PROVE  /\ Open(s)' = Open(s) \ egs
         /\ chosen' = chosen
         /\ CASE Open(s) \cap egs = {} ->
                   /\ outcome'[s] = outcome[s] /\ acked'[s] = acked[s]
                   /\ s \in multi' <=> s \in multi
              [] Open(s) \cap egs # {} /\ Open(s) \subseteq egs ->
                   /\ outcome'[s] = IF outcome[s] = "waiting" THEN "ok"
                                                             ELSE outcome[s]
                   /\ acked'[s] = {} /\ s \notin multi'
              [] OTHER ->
                   /\ outcome'[s] = outcome[s] /\ s \in multi /\ s \in multi'
                   /\ acked'[s] = acked[s] \cup (Open(s) \cap egs)
<1> DEFINE hit     == UNION {waiters[g] : g \in egs}
           acks(t) == acked[t] \cup {g \in egs : t \in waiters[g]}
           done    == {t \in hit : AllAcked(t, acks(t))}
<1>1. /\ waiters' = ListsAfter(egs, {})
      /\ multi' = multi \ done
      /\ acked' = [t \in Calls |-> IF t \in done \/ t \notin multi THEN {}
                                                                  ELSE acks(t)]
      /\ outcome' = [t \in Calls |-> IF t \in done /\ outcome[t] = "waiting"
                                     THEN "ok" ELSE outcome[t]]
      /\ chosen' = chosen
  BY DEF ReceiveAck
<1>2. Open(s)' = Open(s) \ egs
  BY <1>1 DEF Open, ListsAfter
<1>3. /\ s \in hit <=> Open(s) \cap egs # {}
      /\ acks(s) = acked[s] \cup (Open(s) \cap egs)
  BY DEF Open
<1>4. s \in hit => (s \in done <=> Open(s) \subseteq egs)
  <2>1. CASE s \in multi
    BY <2>1, <1>3 DEF AllAcked, CallInv
  <2>2. CASE s \notin multi
    BY <2>2, <1>3, OnlyOneOpen DEF AllAcked
  <2> QED BY <2>1, <2>2
<1>5. s \in done => s \in hit
  OBVIOUS
<1> HIDE DEF hit, acks, done
<1>6. CASE Open(s) \cap egs = {}
  <2>1. s \notin done /\ acks(s) = acked[s]
    BY <1>6, <1>3, <1>5
  <2>2. s \notin multi => acked[s] = {}
    BY DEF CallInv
  <2>3. outcome'[s] = outcome[s] /\ acked'[s] = acked[s]
    BY <1>1, <2>1, <2>2
  <2>4. s \in multi' <=> s \in multi
    BY <1>1, <2>1
  <2> QED BY <1>6, <1>1, <1>2, <2>3, <2>4
<1>7. CASE Open(s) \cap egs # {} /\ Open(s) \subseteq egs
  <2>1. s \in done
    BY <1>7, <1>3, <1>4
  <2>2. /\ outcome'[s] = IF outcome[s] = "waiting" THEN "ok" ELSE outcome[s]
        /\ acked'[s] = {} /\ s \notin multi'
    BY <1>1, <2>1
  <2> QED BY <1>7, <1>1, <1>2, <2>2
<1>8. CASE Open(s) \cap egs # {} /\ ~(Open(s) \subseteq egs)
  <2>1. s \notin done
    BY <1>8, <1>3, <1>4
  <2>2. s \in multi
    BY <1>8, OnlyOneOpen
  <2>3. /\ outcome'[s] = outcome[s] /\ s \in multi'
        /\ acked'[s] = acked[s] \cup (Open(s) \cap egs)
    BY <1>1, <1>3, <2>1, <2>2
  <2> QED BY <1>8, <1>1, <1>2, <2>2, <2>3
<1> QED BY <1>6, <1>7, <1>8

\* A NACK for one of its open eventgroups ends a call as a whole.
LEMMA NackEffect ==
  ASSUME TypeOK, ReceiveNack, NEW s \in Calls, CallInv(s, Open(s)),
         NEW egs \in SUBSET Groups, egs = Head(toClient).egs
  PROVE  /\ chosen' = chosen
         /\ IF Open(s) \cap egs = {}
            THEN /\ Open(s)' = Open(s)
                 /\ outcome'[s] = outcome[s] /\ acked'[s] = acked[s]
                 /\ s \in multi' <=> s \in multi
            ELSE /\ Open(s)' = {}
                 /\ outcome'[s] = IF outcome[s] = "waiting" THEN "err"
                                                           ELSE outcome[s]
                 /\ acked'[s] = {} /\ s \notin multi'
<1> DEFINE hit == UNION {waiters[g] : g \in egs}
<1>1. /\ waiters' = ListsAfter(egs, hit \cap multi)
      /\ multi' = multi \ hit
      /\ acked' = [t \in Calls |-> IF t \in hit THEN {} ELSE acked[t]]
      /\ outcome' = [t \in Calls |-> IF t \in hit /\ outcome[t] = "waiting"
                                     THEN "err" ELSE outcome[t]]
      /\ chosen' = chosen
  BY DEF ReceiveNack
<1>2. s \in hit <=> Open(s) \cap egs # {}
  BY DEF Open
<1>3. Open(s)' = IF s \in hit \cap multi THEN {} ELSE Open(s) \ egs
  BY <1>1 DEF Open, ListsAfter
<1> HIDE DEF hit
<1>4. CASE Open(s) \cap egs = {}
  <2>1. Open(s)' = Open(s)
    BY <1>2, <1>3, <1>4
  <2> QED BY <1>1, <1>2, <1>4, <2>1
<1>5. CASE Open(s) \cap egs # {}
  <2>1. Open(s)' = {}
    <3>1. CASE s \in multi
      BY <3>1, <1>2, <1>3, <1>5
    <3>2. CASE s \notin multi
      BY <3>2, <1>3, <1>5, OnlyOneOpen
    <3> QED BY <3>1, <3>2
  <2> QED BY <1>1, <1>2, <1>5, <2>1
<1> QED BY <1>4, <1>5

\* A step that leaves a call's records alone, and moves it on only when it
\* does not wait any more, keeps its part of the invariant.
LEMMA CallUntouched ==
  ASSUME NEW t \in Calls, CallInv(t, Open(t)),
         UNCHANGED <<waiters, multi, acked, chosen>>,
         \/ outcome'[t] = outcome[t]
         \/ outcome[t] = "idle" /\ outcome'[t] = "err"
         \/ outcome[t] = "ok" /\ outcome'[t] = "dropped"
         \/ outcome[t] = "waiting" /\ outcome'[t] = "cancelled"
  PROVE  CallInv(t, Open(t))'
<1>1. Open(t)' = Open(t)
  BY DEF Open
<1> QED BY <1>1 DEF CallInv

\* Initially no call has been made.
LEMMA WaitingInit == Init => WaitingInv
<1> SUFFICES ASSUME Init, NEW s \in Calls PROVE CallInv(s, Open(s))
  BY TypeInit DEF WaitingInv
<1>1. Open(s) = {} /\ outcome[s] = "idle" /\ acked[s] = {} /\ s \notin multi
  BY DEF Init, Open
<1> QED BY <1>1 DEF CallInv

\* Every step keeps the invariant of every call.
LEMMA WaitingNext == WaitingInv /\ [Next]_vars => WaitingInv'
<1> SUFFICES ASSUME TypeOK, [Next]_vars, NEW t \in Calls, CallInv(t, Open(t))
             PROVE  CallInv(t, Open(t))'
  BY TypeNext DEF WaitingInv
<1>1. CASE UNCHANGED <<waiters, multi, acked, chosen, outcome>>
  BY <1>1, CallUntouched
<1>2. CASE \E s \in Calls, G \in SUBSET Groups : Subscribe(s, G)
  BY <1>2, SubscribeKeepsCallInv
<1>3. CASE \E s \in Calls : SubscribeFails(s) \/ Cancel(s) \/ Drop(s)
  <2>1. /\ UNCHANGED <<waiters, multi, acked, chosen>>
        /\ \/ outcome'[t] = outcome[t]
           \/ outcome[t] = "idle" /\ outcome'[t] = "err"
           \/ outcome[t] = "ok" /\ outcome'[t] = "dropped"
           \/ outcome[t] = "waiting" /\ outcome'[t] = "cancelled"
    BY <1>3 DEF SubscribeFails, Cancel, Drop, client, TypeOK
  <2> QED BY <2>1, CallUntouched
<1>4. CASE ReceiveAck
  <2>1. PICK egs \in SUBSET Groups : egs = Head(toClient).egs
    BY <1>4, HeadType DEF ReceiveAck
  <2> QED BY <1>4, <2>1, AckEffect DEF CallInv
<1>5. CASE ReceiveNack
  <2>1. PICK egs \in SUBSET Groups : egs = Head(toClient).egs
    BY <1>5, HeadType DEF ReceiveNack
  <2> QED BY <1>5, <2>1, NackEffect DEF CallInv
<1>6. CASE \E c \in commands : Unsubscribe(c)
  BY <1>6, <1>1 DEF Unsubscribe
<1>7. CASE ReceiveOffer \/ ReceiveStopOffer \/ ExpireService
  BY <1>7, <1>1 DEF ReceiveOffer, ReceiveStopOffer, ExpireService
<1>8. CASE ServerNext
  BY <1>8, <1>1 DEF ServerNext, StartOffer, SendOffer, StopOffer,
                    RestartServer, AcceptSubscribe, AcceptStopSubscribe,
                    ExpireSubscriber, client
<1>9. CASE Lose \/ UNCHANGED vars
  BY <1>9, <1>1 DEF Lose, vars, client
<1> QED BY <1>2, <1>3, <1>4, <1>5, <1>6, <1>7, <1>8, <1>9 DEF Next, ClientNext

(***************************************************************************)
(* A waiting call is on the list of every eventgroup it has no answer for, *)
(* one at least, and nobody else is on a list: each call can still be      *)
(* answered by the server, and never twice.                                *)
(***************************************************************************)
THEOREM WaitersCorrect == Spec => []WaiterInv
BY WaitingInit, WaitingNext, WaitingImpliesWaiter, PTL DEF Spec

-----------------------------------------------------------------------------
(* Implementation.                                                         *)

\* The refinement mapping of Abstract: what the server has confirmed.
Confirmed == [s \in Calls |->
  IF outcome[s] = "waiting" THEN {g \in chosen[s] : s \notin waiters[g]} ELSE {}]

\* A call for the eventgroups G starts out with none confirmed.
LEMMA SubscribeImplementsCall ==
  ASSUME WaitingInv, NEW s \in Calls, NEW G \in SUBSET Groups, Subscribe(s, G)
  PROVE  Abstract!Next
<1>1. Confirmed' = Confirmed
  <2>1. \A t \in Calls : Confirmed'[t] = Confirmed[t]
    BY DEF Confirmed, Subscribe, WaitingInv, TypeOK
  <2> QED BY <2>1 DEF Confirmed
<1>2. Abstract!Call(s, G)
  BY <1>1 DEF Abstract!Call, Subscribe, Confirmed
<1>3. G # {}
  BY DEF Subscribe
<1>4. G \in (SUBSET Groups) \ {{}}
  BY <1>3
<1> QED BY <1>2, <1>4, Zenon DEF Abstract!Next

\* An ACK for some eventgroups accepts exactly these.
LEMMA AckImplementsAccept ==
  ASSUME WaitingInv, TypeOK', ReceiveAck
  PROVE  Abstract!Next
<1>1. PICK egs \in SUBSET Groups : egs = Head(toClient).egs
  BY HeadType DEF ReceiveAck, WaitingInv
<1> DEFINE now(s)  == Confirmed[s] \cup (egs \cap chosen[s])
           done(s) == outcome[s] = "waiting" /\ now(s) = chosen[s]
<1>2. ASSUME NEW s \in Calls
      PROVE  /\ outcome'[s] = IF done(s) THEN "ok" ELSE outcome[s]
             /\ Confirmed'[s] = IF outcome[s] = "waiting" /\ ~done(s) THEN now(s)
                                                                     ELSE {}
  <2>0. TypeOK /\ CallInv(s, Open(s)) /\ chosen[s] \subseteq Groups
    BY DEF WaitingInv, TypeOK
  <2>1. /\ Open(s)' = Open(s) \ egs
        /\ chosen' = chosen
        /\ outcome'[s] = IF /\ outcome[s] = "waiting"
                           /\ Open(s) \cap egs # {} /\ Open(s) \subseteq egs
                        THEN "ok" ELSE outcome[s]
    BY <1>1, <2>0, AckEffect
  <2>2. Confirmed[s] = IF outcome[s] = "waiting" THEN chosen[s] \ Open(s) ELSE {}
    BY <2>0 DEF Confirmed, Open, TypeOK
  <2>5. Confirmed'[s] = IF outcome'[s] = "waiting" THEN chosen'[s] \ Open(s)'
                                                   ELSE {}
    BY DEF Confirmed, Open, TypeOK
  <2>3. CASE outcome[s] = "waiting"
    <3>1. Open(s) # {} /\ Open(s) \subseteq chosen[s]
      BY <2>0, <2>3 DEF CallInv
    <3>2. now(s) = chosen[s] \ (Open(s) \ egs)
      BY <2>2, <2>3, <3>1
    <3>3. done(s) <=> Open(s) \subseteq egs
      BY <2>3, <3>1, <3>2
    <3> HIDE DEF now, done
    <3> QED BY <2>1, <2>2, <2>5, <2>3, <3>1, <3>2, <3>3
  <2>4. CASE outcome[s] # "waiting"
    BY <2>1, <2>2, <2>5, <2>4
  <2> QED BY <2>3, <2>4
<1>3. outcome' = [s \in Calls |-> IF done(s) THEN "ok" ELSE outcome[s]]
  BY <1>2 DEF TypeOK
<1>4. Confirmed' = [s \in Calls |-> IF outcome[s] = "waiting" /\ ~done(s)
                                   THEN now(s) ELSE {}]
  BY <1>2 DEF Confirmed
<1>5. chosen' = chosen
  BY DEF ReceiveAck
<1>6. Abstract!Accept(egs)
  BY <1>3, <1>4, <1>5 DEF Abstract!Accept, Confirmed
<1> QED BY <1>6 DEF Abstract!Next

\* A NACK for some eventgroups refuses exactly these.
LEMMA NackImplementsRefuse ==
  ASSUME WaitingInv, TypeOK', ReceiveNack
  PROVE  Abstract!Next
<1>1. PICK egs \in SUBSET Groups : egs = Head(toClient).egs
  BY HeadType DEF ReceiveNack, WaitingInv
<1> DEFINE hit(s) == /\ outcome[s] = "waiting"
                     /\ egs \cap (chosen[s] \ Confirmed[s]) # {}
<1>2. ASSUME NEW s \in Calls
      PROVE  /\ outcome'[s] = IF hit(s) THEN "err" ELSE outcome[s]
             /\ Confirmed'[s] = IF hit(s) THEN {} ELSE Confirmed[s]
  <2>0. TypeOK /\ CallInv(s, Open(s)) /\ chosen[s] \subseteq Groups
    BY DEF WaitingInv, TypeOK
  <2>1. /\ chosen' = chosen
        /\ Open(s) \cap egs = {} => /\ Open(s)' = Open(s)
                                    /\ outcome'[s] = outcome[s]
        /\ Open(s) \cap egs # {} =>
             outcome'[s] = IF outcome[s] = "waiting" THEN "err" ELSE outcome[s]
    BY <1>1, <2>0, NackEffect
  <2>2. Confirmed[s] = IF outcome[s] = "waiting" THEN chosen[s] \ Open(s) ELSE {}
    BY <2>0 DEF Confirmed, Open, TypeOK
  <2>5. Confirmed'[s] = IF outcome'[s] = "waiting" THEN chosen'[s] \ Open(s)'
                                                   ELSE {}
    BY DEF Confirmed, Open, TypeOK
  <2>3. CASE outcome[s] = "waiting"
    <3>1. Open(s) \subseteq chosen[s]
      BY <2>0, <2>3 DEF CallInv
    <3>2. hit(s) <=> Open(s) \cap egs # {}
      BY <2>2, <2>3, <3>1
    <3> HIDE DEF hit
    <3> QED BY <2>1, <2>2, <2>5, <2>3, <3>2
  <2>4. CASE outcome[s] # "waiting"
    BY <2>1, <2>2, <2>5, <2>4
  <2> QED BY <2>3, <2>4
<1>3. outcome' = [s \in Calls |-> IF hit(s) THEN "err" ELSE outcome[s]]
  BY <1>2 DEF TypeOK
<1>4. Confirmed' = [s \in Calls |-> IF hit(s) THEN {} ELSE Confirmed[s]]
  BY <1>2 DEF Confirmed
<1>5. chosen' = chosen
  BY DEF ReceiveNack
<1>6. Abstract!Refuse(egs)
  BY <1>3, <1>4, <1>5 DEF Abstract!Refuse, Confirmed
<1> QED BY <1>6 DEF Abstract!Next

\* What happens to one call outside the handlers is a step of its own.
LEMMA CallerStep ==
  ASSUME TypeOK, NEW s \in Calls, SubscribeFails(s) \/ Cancel(s) \/ Drop(s)
  PROVE  Abstract!Next
<1>1. UNCHANGED <<waiters, chosen>>
  BY DEF SubscribeFails, Cancel, Drop, client
<1>2. CASE SubscribeFails(s)
  <2>1. outcome[s] = "idle" /\ outcome' = [outcome EXCEPT ![s] = "err"]
    BY <1>2 DEF SubscribeFails
  <2>2. Confirmed' = Confirmed
    BY <1>1, <2>1 DEF Confirmed, TypeOK
  <2> QED BY <1>1, <2>1, <2>2 DEF Abstract!Next, Abstract!Fail, Confirmed
<1>3. CASE Cancel(s)
  <2>1. outcome[s] = "waiting" /\ outcome' = [outcome EXCEPT ![s] = "cancelled"]
    BY <1>3 DEF Cancel
  <2>2. Confirmed' = [Confirmed EXCEPT ![s] = {}]
    BY <1>1, <2>1 DEF Confirmed, TypeOK
  <2> QED BY <1>1, <2>1, <2>2 DEF Abstract!Next, Abstract!Cancel, Confirmed
<1>4. CASE Drop(s)
  <2>1. outcome[s] = "ok" /\ outcome' = [outcome EXCEPT ![s] = "dropped"]
    BY <1>4 DEF Drop
  <2>2. Confirmed' = Confirmed
    BY <1>1, <2>1 DEF Confirmed, TypeOK
  <2> QED BY <1>1, <2>1, <2>2 DEF Abstract!Next, Abstract!Drop, Confirmed
<1> QED BY <1>2, <1>3, <1>4

\* Every step is a step of SubscribeCall or leaves the calls alone.
LEMMA StepSimulation ==
  WaitingInv /\ TypeOK' /\ [Next]_vars => [Abstract!Next]_(Abstract!vars)
<1> SUFFICES ASSUME WaitingInv, TypeOK', [Next]_vars
             PROVE  [Abstract!Next]_(Abstract!vars)
  OBVIOUS
<1>1. CASE UNCHANGED <<waiters, chosen, outcome>>
  BY <1>1 DEF Abstract!vars
<1>2. CASE \E s \in Calls, G \in SUBSET Groups : Subscribe(s, G)
  BY <1>2, SubscribeImplementsCall
<1>3. CASE \E s \in Calls : SubscribeFails(s) \/ Cancel(s) \/ Drop(s)
  BY <1>3, CallerStep DEF WaitingInv
<1>4. CASE ReceiveAck
  BY <1>4, AckImplementsAccept
<1>5. CASE ReceiveNack
  BY <1>5, NackImplementsRefuse
<1>6. CASE \E c \in commands : Unsubscribe(c)
  BY <1>6, <1>1 DEF Unsubscribe
<1>7. CASE ReceiveOffer \/ ReceiveStopOffer \/ ExpireService
  BY <1>7, <1>1 DEF ReceiveOffer, ReceiveStopOffer, ExpireService
<1>8. CASE ServerNext
  BY <1>8, <1>1 DEF ServerNext, StartOffer, SendOffer, StopOffer,
                    RestartServer, AcceptSubscribe, AcceptStopSubscribe,
                    ExpireSubscriber, client
<1>9. CASE Lose \/ UNCHANGED vars
  BY <1>9, <1>1 DEF Lose, vars, client
<1> QED BY <1>2, <1>3, <1>4, <1>5, <1>6, <1>7, <1>8, <1>9 DEF Next, ClientNext

(***************************************************************************)
(* Whatever is lost, expires, restarts or is offered anew, the calls of    *)
(* subscribe() are answered as SubscribeCall says: all eventgroups or      *)
(* nothing, and only by answers of the server that came since the call.    *)
(***************************************************************************)
THEOREM Implementation == Spec => ImplementsSubscribeCall
<1>1. Init => Abstract!Init
  BY DEF Init, Abstract!Init
<1>2. WaitingInv => TypeOK
  BY DEF WaitingInv
<1> QED BY <1>1, <1>2, WaitingInit, WaitingNext, StepSimulation, PTL
        DEF Spec, ImplementsSubscribeCall, Abstract!Spec
=============================================================================
