-------------------------- MODULE TcpServer_proofs --------------------------
(***************************************************************************)
(* Proofs about the TCP side of an offered service, for any peers, number  *)
(* of connections and capacities.                                          *)
(***************************************************************************)
EXTENDS TcpServer, SequenceTheorems, TLAPS

USE NoOneAssumption, CapAssumption, BoundAssumption

\* A task that forwards has an address and something to forward.
ForwardInv == \A c \in Conns : phase[c] = "forward" => peer[c] \in Peers /\ chunk[c] > 0

\* A cleanup request is of a connection that has ended.
CleanupInv == \A c \in cleanups : phase[c] = "ended"

IInv == TypeOK /\ ForwardInv /\ CleanupInv

-----------------------------------------------------------------------------
(* Channels between tasks.                                                 *)

LEMMA AfterAppend ==
  ASSUME NEW q \in Seq(Peers), NEW p \in Peers
  PROVE  Append(q, p) \in Seq(Peers) /\ Len(Append(q, p)) = Len(q) + 1
  OBVIOUS

LEMMA AfterTail ==
  ASSUME NEW q \in Seq(Peers), q # <<>>
  PROVE  Tail(q) \in Seq(Peers) /\ Len(Tail(q)) = Len(q) - 1 /\ Head(q) \in Peers
         /\ Len(q) \in Nat
  OBVIOUS

LEMMA EmptyChannel == <<>> \in Seq(Peers) /\ Len(<<>>) = 0
  OBVIOUS

-----------------------------------------------------------------------------
(* The connections.                                                        *)

LEMMA DisconnectInv == ASSUME IInv, NEW c \in Conns, Disconnect(c) PROVE IInv'
  BY DEF IInv, TypeOK, ForwardInv, CleanupInv, Disconnect, conns, server, loop

LEMMA ReadInv == ASSUME IInv, NEW c \in Conns, Read(c) PROVE IInv'
  <1>1. PICK n \in 1..ReadMax : /\ sent + n <= MaxRequests
                                /\ sent'  = sent + n
                                /\ chunk' = [chunk EXCEPT ![c] = n]
    BY DEF Read
  <1>2. sent' \in 0..MaxRequests BY <1>1 DEF IInv, TypeOK
  <1>3. peer[c] \in Peers BY DEF Read, Open, Accepted, IInv, TypeOK
  <1> QED BY <1>1, <1>2, <1>3
         DEF IInv, TypeOK, ForwardInv, CleanupInv, Read, Open, server, loop

LEMMA ForwardStep == ASSUME IInv, NEW c \in Conns, Forward(c) PROVE IInv'
  <1>1. peer[c] \in Peers /\ chunk[c] > 0 BY DEF IInv, ForwardInv, Forward
  <1>2. toLoop' \in Seq(Peers) /\ Len(toLoop') <= LoopCap
    BY <1>1, AfterAppend DEF IInv, TypeOK, Forward
  <1>3. TypeOK' BY <1>1, <1>2 DEF IInv, TypeOK, Forward, streams, server, loop
  <1>4. ForwardInv' BY <1>1 DEF IInv, TypeOK, ForwardInv, Forward, streams
  <1>5. CleanupInv' BY DEF IInv, TypeOK, CleanupInv, Forward, server
  <1> QED BY <1>3, <1>4, <1>5 DEF IInv

LEMMA EndInv ==
  ASSUME IInv, NEW c \in Conns, End(c), UNCHANGED <<chunk, inbox>> PROVE IInv'
  <1>1. TypeOK' BY DEF IInv, TypeOK, End, streams, loop
  <1>2. ForwardInv' BY DEF IInv, TypeOK, ForwardInv, End, streams
  <1>3. CleanupInv' BY DEF IInv, TypeOK, CleanupInv, End
  <1> QED BY <1>1, <1>2, <1>3 DEF IInv

LEMMA TaskInv == ASSUME IInv, NEW c \in Conns, Task(c) PROVE IInv'
  <1>1. CASE TakeMessage(c)
    <2>1. inbox' \in [Conns -> 0..InboxCap] BY <1>1 DEF IInv, TypeOK, TakeMessage
    <2> QED BY <1>1, <2>1 DEF IInv, TypeOK, ForwardInv, CleanupInv, TakeMessage, Open,
                              streams, server, loop
  <1>2. CASE Write(c)
    BY <1>2 DEF IInv, TypeOK, ForwardInv, CleanupInv, Write, streams, server, loop
  <1> QED BY <1>1, <1>2, ForwardStep, EndInv DEF Task, ReadEof, WriteFails, SendersGone

-----------------------------------------------------------------------------
(* The server task.                                                        *)

LEMMA AcceptInv == ASSUME IInv, NEW c \in Conns, NEW p \in Peers, Accept(c, p) PROVE IInv'
  BY DEF IInv, TypeOK, ForwardInv, CleanupInv, Accept, Accepted, conns, loop

LEMMA RouteInv == ASSUME IInv, Route PROVE IInv'
  <1>1. /\ toServer' \in Seq(Peers) /\ Len(toServer') <= SendCap
        /\ Head(toServer) \in Peers
    BY AfterTail DEF IInv, TypeOK, Route
  <1>2. TypeOK' BY <1>1 DEF IInv, TypeOK, Route, streams, conns, loop
  <1> QED BY <1>2 DEF IInv, ForwardInv, CleanupInv, Route, streams, conns

LEMMA HandOverInv == ASSUME IInv, HandOver PROVE IInv'
  <1>1. routing \in Conns BY DEF IInv, TypeOK, HandOver
  <1>2. inbox' \in [Conns -> 0..InboxCap]
    BY <1>1 DEF IInv, TypeOK, HandOver, RoomOrEnded
  <1> QED BY <1>2 DEF IInv, TypeOK, ForwardInv, CleanupInv, HandOver, streams, loop

LEMMA ClosePeerInv == ASSUME IInv, NEW p \in Peers, ClosePeer(p) PROVE IInv'
  <1>1. \A c \in Conns : phase'[c] \in {phase[c], "ended"}
    BY DEF ClosePeer
  <1>2. phase' \in [Conns -> {"select", "forward", "write", "ended"}]
    BY <1>1 DEF IInv, TypeOK, ClosePeer
  <1>3. TypeOK' BY <1>2 DEF IInv, TypeOK, ClosePeer, streams, loop
  <1>4. ForwardInv' BY <1>1 DEF IInv, ForwardInv, ClosePeer, streams
  <1>5. CleanupInv' BY <1>1 DEF IInv, TypeOK, CleanupInv, ClosePeer
  <1> QED BY <1>3, <1>4, <1>5 DEF IInv

LEMMA CleanUpInv == ASSUME IInv, NEW c \in Conns, CleanUp(c) PROVE IInv'
  <1>1. senders' \in [Peers -> Conns \cup {NoOne}]
    BY DEF IInv, TypeOK, CleanUp, SendersWithout
  <1> QED BY <1>1 DEF IInv, TypeOK, ForwardInv, CleanupInv, CleanUp, streams, conns, loop

LEMMA ServerInv == ASSUME IInv, Server PROVE IInv'
  <1>1. CASE ServerEnds
    BY <1>1 DEF IInv, TypeOK, ForwardInv, CleanupInv, ServerEnds, streams, conns, loop
  <1> QED BY <1>1, RouteInv, HandOverInv, ClosePeerInv, CleanUpInv DEF Server

-----------------------------------------------------------------------------
(* The event loop.                                                         *)

LEMMA LoopInv == ASSUME IInv, Loop PROVE IInv'
  <1>1. CASE HandleRequest
    <2>1. /\ toLoop' \in Seq(Peers) /\ Len(toLoop') <= LoopCap
          /\ Head(toLoop) \in Peers
      BY <1>1, AfterTail DEF IInv, TypeOK, HandleRequest
    <2>2. owed' \in [Peers -> Nat] /\ sending' \in Peers \cup {NoOne}
      <3> DEFINE p == Head(toLoop)
      <3>1. p \in Peers /\ owed \in [Peers -> Nat] /\ sending \in Peers \cup {NoOne}
        BY <2>1 DEF IInv, TypeOK
      <3>2. Track(p) \/ Refuse(p) \/ Drop BY <1>1 DEF HandleRequest
      <3> HIDE DEF p
      <3> QED BY <3>1, <3>2 DEF Track, Refuse, Drop
    <2> QED BY <1>1, <2>1, <2>2 DEF IInv, TypeOK, ForwardInv, CleanupInv, HandleRequest,
                                    streams, conns, server
  <1>2. CASE Send
    <2>1. toServer' \in Seq(Peers) /\ Len(toServer') <= SendCap
      BY <1>2, AfterAppend DEF IInv, TypeOK, Send
    <2> QED BY <1>2, <2>1 DEF IInv, TypeOK, ForwardInv, CleanupInv, Send,
                              streams, conns, server
  <1>3. ASSUME NEW p \in Peers, Respond(p) PROVE IInv'
    <2>1. owed' \in [Peers -> Nat] BY <1>3 DEF IInv, TypeOK, Respond
    <2> QED BY <1>3, <2>1 DEF IInv, TypeOK, ForwardInv, CleanupInv, Respond,
                              streams, conns, server
  <1> QED BY <1>1, <1>2, <1>3 DEF Loop

LEMMA NotifyInv == ASSUME IInv, NEW p \in Peers, Notify(p) PROVE IInv'
  <1>1. sent' \in 0..MaxRequests BY DEF IInv, TypeOK, Notify
  <1> QED BY <1>1 DEF IInv, TypeOK, ForwardInv, CleanupInv, Notify, conns, server

LEMMA RestInv ==
  ASSUME IInv, StopOffer \/ \E p \in Peers : Notify(p) \/ Reboot(p) PROVE IInv'
  <1>1. CASE StopOffer
    BY <1>1 DEF IInv, TypeOK, ForwardInv, CleanupInv, StopOffer, streams, conns, loop
  <1>2. CASE \E p \in Peers : Reboot(p)
    BY <1>2 DEF IInv, TypeOK, ForwardInv, CleanupInv, Reboot, streams, conns, loop
  <1> QED BY <1>1, <1>2, NotifyInv

-----------------------------------------------------------------------------
LEMMA InitInv == Init => IInv
  <1> SUFFICES ASSUME Init PROVE IInv OBVIOUS
  <1>1. TypeOK BY EmptyChannel DEF Init, TypeOK
  <1> QED BY <1>1 DEF Init, IInv, ForwardInv, CleanupInv

LEMMA StepInv == IInv /\ [Next]_vars => IInv'
  <1> SUFFICES ASSUME IInv, [Next]_vars PROVE IInv' OBVIOUS
  <1>1. CASE UNCHANGED vars
    BY <1>1 DEF IInv, TypeOK, ForwardInv, CleanupInv, vars, streams, conns, server, loop
  <1>2. CASE Next
    BY <1>2, DisconnectInv, ReadInv, TaskInv, AcceptInv, ServerInv, LoopInv, RestInv DEF Next
  <1> QED BY <1>1, <1>2

\* Connections, channels and tasks keep their types, no channel exceeds its
\* capacity, and nothing is handed to a connection that does not exist.
THEOREM TypeCorrect == Spec => []TypeOK
  <1>1. IInv => TypeOK BY DEF IInv
  <1> QED BY <1>1, InitInv, StepInv, PTL DEF Spec

-----------------------------------------------------------------------------
(* Senders.                                                                *)

LEMMA OwnCleanUp ==
  ASSUME IInv, NEW c \in Open, senders[peer[c]] = c, NEW d \in Conns, CleanUp(d)
  PROVE  senders'[peer[c]] = c
  <1>1. d # c BY DEF IInv, CleanupInv, CleanUp, Open
  <1>2. peer[c] \in Peers BY DEF Open, Accepted, IInv, TypeOK
  <1> QED BY <1>1, <1>2 DEF IInv, TypeOK, CleanUp, SendersWithout

LEMMA NewAccept ==
  ASSUME IInv, NEW c \in Open, alive[c], senders[peer[c]] = c,
         NEW d \in Conns, NEW p \in Peers, Accept(d, p)
  PROVE  senders'[peer[c]] = c
  <1>1. p # peer[c] BY DEF Accept, Open
  <1> QED BY <1>1 DEF IInv, TypeOK, Accept, Open, Accepted

LEMMA SenderStep ==
  ASSUME IInv, [Next]_vars, NEW c \in Open, alive[c], senders[peer[c]] = c,
         senders'[peer[c]] # c
  PROVE  peer[c] \in closes \/ ~running'
  <1>0. peer[c] \in Peers BY DEF Open, Accepted, IInv, TypeOK
  <1>1. UNCHANGED vars => UNCHANGED senders BY DEF vars, server
  <1>2. ASSUME NEW d \in Conns, Read(d) \/ Disconnect(d) \/ Task(d) PROVE UNCHANGED senders
    BY <1>2 DEF Read, Disconnect, Task, Forward, ReadEof, TakeMessage, Write, WriteFails,
                SendersGone, End, server
  <1>3. ASSUME Loop \/ StopOffer \/ \E p \in Peers : Notify(p) \/ Reboot(p)
        PROVE UNCHANGED senders
    BY <1>3 DEF Loop, HandleRequest, Send, Respond, StopOffer, Notify, Reboot, server
  <1>4. Route \/ HandOver => UNCHANGED senders BY DEF Route, HandOver
  <1>5. ServerEnds => ~running' BY DEF ServerEnds
  <1>6. ASSUME NEW p \in Peers, ClosePeer(p) PROVE peer[c] \in closes
    BY <1>0, <1>6 DEF ClosePeer, IInv, TypeOK
  <1> QED BY <1>1, <1>2, <1>3, <1>4, <1>5, <1>6, OwnCleanUp, NewAccept DEF Next, Server

\* However late a cleanup comes, and whatever connection replaced the one it
\* is of, a connection that works keeps its sender until a reboot of its peer
\* or the end of the server task.
THEOREM SendersStay == Spec => SenderStays
  <1>1. IInv /\ [Next]_vars => [TakesNoSender]_vars
    BY SenderStep DEF TakesNoSender
  <1> QED BY <1>1, InitInv, StepInv, PTL DEF Spec, SenderStays

-----------------------------------------------------------------------------
(* The circle.  The server task outlives every offer, owed answer and      *)
(* message that the event loop holds, so that it is there when the loop    *)
(* sends, also after a StopOffer; and what it hands a message to is a      *)
(* connection that was accepted.                                           *)

LifeInv == Held \/ routing # NoOne => running

RoutesInv ==
  /\ \A p \in Peers : senders[p] # NoOne => senders[p] \in Accepted
  /\ routing # NoOne => routing \in Accepted

CircleInv == IInv /\ LifeInv /\ RoutesInv

LEMMA LifeStep == ASSUME CircleInv, [Next]_vars PROVE LifeInv'
  <1>0. TypeOK /\ LifeInv BY DEF CircleInv, IInv
  <1>1. CASE UNCHANGED vars BY <1>0, <1>1 DEF LifeInv, Held, vars, server, loop
  <1>2. ASSUME NEW c \in Conns,
               Read(c) \/ Disconnect(c) \/ Task(c) \/ \E p \in Peers : Accept(c, p)
        PROVE  UNCHANGED <<loop, up, routing, running>>
    BY <1>2 DEF Read, Disconnect, Task, Accept, Forward, ReadEof, TakeMessage, Write,
                WriteFails, SendersGone, End, server, loop
  <1>3. CASE Server
    BY <1>0, <1>3 DEF LifeInv, Held, Server, Route, HandOver, ServerEnds, ClosePeer, CleanUp,
                      ServerIsFree, loop
  <1>4. CASE Loop
    <2>1. UNCHANGED <<up, running, routing>>
      BY <1>4 DEF Loop, HandleRequest, Send, Respond, server
    <2>2. CASE HandleRequest
      BY <1>0, <2>1, <2>2 DEF LifeInv, Held, HandleRequest, Track, Refuse, Drop, LoopIsFree
    <2>3. ASSUME NEW p \in Peers, Respond(p) PROVE running
      BY <1>0, <2>3 DEF LifeInv, Held, Respond
    <2>4. Send => running BY <1>0 DEF LifeInv, Held, Send
    <2> QED BY <1>4, <2>1, <2>2, <2>3, <2>4 DEF Loop, LifeInv
  <1>5. CASE StopOffer \/ \E p \in Peers : Notify(p) \/ Reboot(p)
    BY <1>0, <1>5 DEF LifeInv, Held, StopOffer, Notify, Reboot, LoopIsFree, loop, server
  <1>6. UNCHANGED <<loop, up, routing, running>> => LifeInv'
    BY <1>0 DEF LifeInv, Held, loop
  <1> QED BY <1>1, <1>2, <1>3, <1>4, <1>5, <1>6 DEF Next

\* A connection that was accepted keeps its address.
LEMMA AcceptedStays ==
  ASSUME IInv, [Next]_vars
  PROVE  \A c \in Accepted : c \in Accepted' /\ peer'[c] = peer[c]
  <1>1. CASE UNCHANGED peer BY <1>1 DEF Accepted
  <1>2. ASSUME NEW c \in Conns, NEW p \in Peers, Accept(c, p)
        PROVE  \A d \in Accepted : d \in Accepted' /\ peer'[d] = peer[d]
    BY <1>2 DEF Accept, Accepted, IInv, TypeOK
  <1>3. ASSUME NEW c \in Conns, Read(c) \/ Disconnect(c) \/ Task(c) PROVE UNCHANGED peer
    BY <1>3 DEF Read, Disconnect, Task, Forward, ReadEof, TakeMessage, Write,
                WriteFails, SendersGone, End, streams
  <1>4. Server => UNCHANGED peer
    BY DEF Server, Route, HandOver, ServerEnds, ClosePeer, CleanUp, streams
  <1>5. Loop \/ StopOffer \/ (\E p \in Peers : Notify(p) \/ Reboot(p)) => UNCHANGED peer
    BY DEF Loop, HandleRequest, Send, Respond, StopOffer, Notify, Reboot, streams
  <1>6. UNCHANGED vars => UNCHANGED peer BY DEF vars, streams
  <1> QED BY <1>1, <1>2, <1>3, <1>4, <1>5, <1>6 DEF Next

LEMMA RoutesStep == ASSUME CircleInv, [Next]_vars PROVE RoutesInv'
  <1>0. IInv /\ RoutesInv BY DEF CircleInv
  <1>1. \A c \in Accepted : c \in Accepted' BY <1>0, AcceptedStays
  <1>2. CASE /\ \A p \in Peers : senders'[p] \in {senders[p], NoOne}
             /\ routing' \in {routing, NoOne}
    BY <1>0, <1>1, <1>2 DEF RoutesInv
  <1>3. ASSUME NEW c \in Conns, NEW p \in Peers, Accept(c, p) PROVE RoutesInv'
    <2>1. c \in Accepted' BY <1>0, <1>3, NoOneAssumption DEF Accept, Accepted, IInv, TypeOK
    <2>2. \A q \in Peers : senders'[q] = c \/ senders'[q] = senders[q]
      BY <1>0, <1>3 DEF Accept, IInv, TypeOK
    <2>3. routing' = routing BY <1>3 DEF Accept
    <2> QED BY <1>0, <1>1, <2>1, <2>2, <2>3 DEF RoutesInv
  <1>4. CASE Route
    <2>1. Head(toServer) \in Peers BY <1>0, <1>4, AfterTail DEF IInv, TypeOK, Route
    <2>2. senders' = senders /\ routing' = senders[Head(toServer)] BY <1>4 DEF Route
    <2> QED BY <1>0, <1>1, <2>1, <2>2 DEF RoutesInv
  <1>5. ASSUME NEW p \in Peers, ClosePeer(p)
        PROVE  (\A q \in Peers : senders'[q] \in {senders[q], NoOne}) /\ routing' = routing
    BY <1>0, <1>5 DEF ClosePeer, IInv, TypeOK
  <1>6. ASSUME NEW c \in Conns, CleanUp(c)
        PROVE  (\A q \in Peers : senders'[q] \in {senders[q], NoOne}) /\ routing' = routing
    BY <1>0, <1>6 DEF CleanUp, SendersWithout, IInv, TypeOK
  <1>7. CASE HandOver \/ ServerEnds
    BY <1>2, <1>7 DEF HandOver, ServerEnds
  <1>8. ASSUME NEW c \in Conns, Read(c) \/ Disconnect(c) \/ Task(c)
        PROVE  UNCHANGED <<senders, routing>>
    BY <1>8 DEF Read, Disconnect, Task, Forward, ReadEof, TakeMessage, Write,
                WriteFails, SendersGone, End, server
  <1>9. Loop \/ StopOffer \/ (\E p \in Peers : Notify(p) \/ Reboot(p)) => UNCHANGED <<senders, routing>>
    BY DEF Loop, HandleRequest, Send, Respond, StopOffer, Notify, Reboot, server
  <1>10. UNCHANGED vars => UNCHANGED <<senders, routing>> BY DEF vars, server
  <1> QED BY <1>2, <1>3, <1>4, <1>5, <1>6, <1>7, <1>8, <1>9, <1>10 DEF Next, Server

\* In a state where none of the three tasks can go on, every channel of the
\* circle is full.
LEMMA Standstill == CircleInv => WaitsInFullCircle
  <1> SUFFICES ASSUME CircleInv, sending # NoOne, Len(toServer) = SendCap, ~ServerIsFree,
                      ~(/\ running /\ routing # NoOne
                        /\ RoomOrEnded(routing) \/ TaskCanStep(routing))
               PROVE  running /\ routing # NoOne /\ UnderWay(routing) >= Circle
    BY DEF WaitsInFullCircle
  <1>1. TypeOK /\ ForwardInv /\ running /\ routing # NoOne
    BY DEF CircleInv, IInv, LifeInv, Held, ServerIsFree
  <1> DEFINE c == routing
  <1>2. c \in Accepted /\ c \in Conns BY <1>1 DEF CircleInv, RoutesInv, Accepted
  <1>3. ~RoomOrEnded(c) /\ ~TaskCanStep(c) BY <1>1
  <1> HIDE DEF c
  <1>4. inbox[c] = InboxCap /\ phase[c] # "ended"
    BY <1>1, <1>2, <1>3, CapAssumption DEF RoomOrEnded, TypeOK
  <1>5. phase[c] = "forward" /\ Len(toLoop) = LoopCap
    <2>1. phase[c] # "write" BY <1>3 DEF TaskCanStep
    <2>2. phase[c] # "select"
      BY <1>2, <1>3, <1>4, CapAssumption DEF TaskCanStep, Open
    <2>3. phase[c] = "forward" BY <1>1, <1>2, <1>4, <2>1, <2>2 DEF TypeOK
    <2>4. Len(toLoop) \in Nat /\ Len(toLoop) <= LoopCap BY <1>1 DEF TypeOK
    <2> QED BY <1>3, <2>3, <2>4, CapAssumption DEF TaskCanStep
  <1>6. chunk[c] \in Nat /\ chunk[c] >= 1
    BY <1>1, <1>2, <1>5, CapAssumption DEF TypeOK, ForwardInv
  <1>7. InHand(routing) = 1 /\ InHand(sending) = 1 BY <1>1 DEF InHand
  <1>8. UnderWay(c) = chunk[c] + InboxCap + LoopCap + SendCap + 1 + 1
    BY <1>4, <1>5, <1>7 DEF UnderWay
  <1>9. UnderWay(c) >= Circle BY <1>6, <1>8, CapAssumption DEF Circle
  <1> QED BY <1>1, <1>9 DEF c

\* The event loop waits in a send only while some task that it depends on can
\* go on, or in a circle whose channels are all full: no end of a connection,
\* a peer or a service makes it wait, also when it answers after the StopOffer
\* (the captured transport of pending_responses, Action::SendServerMessage,
\* TcpServer's select loop, handle_tcp_connection).
THEOREM WaitsOnlyInFullCircle == Spec => []WaitsInFullCircle
  <1>1. Init => CircleInv
    <2> SUFFICES ASSUME Init PROVE LifeInv /\ RoutesInv BY InitInv DEF CircleInv
    <2> QED BY DEF Init, LifeInv, RoutesInv
  <1>2. CircleInv /\ [Next]_vars => CircleInv'
    BY StepInv, LifeStep, RoutesStep DEF CircleInv
  <1> QED BY <1>1, <1>2, Standstill, PTL DEF Spec
=============================================================================
