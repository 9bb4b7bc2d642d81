----------------------------- MODULE TcpServer -----------------------------
(***************************************************************************)
(* The TCP side of an offered service: the event loop, the server task,    *)
(* one task for each accepted connection, and the bounded channels between *)
(* them.                                                                   *)
(*                                                                         *)
(*   client => connection task => toLoop => event loop => toServer =>      *)
(*   server task => inbox of the connection => connection task => client   *)
(*                                                                         *)
(* Each arrow waits when the channel is full, so a circle of tasks may wait*)
(* for one another.  Messages are counted or named after the peer that     *)
(* they come from or go to; what they say does not matter here.            *)
(*                                                                         *)
(* Services may share the listener.  Each holds a sender of the server     *)
(* task's channel, and so does each answer that is owed; the server task   *)
(* goes on until all of these are gone.                                    *)
(***************************************************************************)
EXTENDS Naturals, Sequences

CONSTANTS
  Peers,     \* addresses of clients
  NoOne,     \* stands for no peer and no connection
  LoopCap,   \* capacity of tcp_rpc_tx (100)
  SendCap,   \* capacity of send_tx (100)
  InboxCap,  \* capacity of a connection's channel (32)
  ReadMax,   \* bound: requests in one read
  MaxConn,   \* bound: accepted connections
  MaxRequests, \* bound: requests and events made
  Faults     \* what may happen, see Fault

Fault == {"disconnect", "reboot", "stop_offer"}

ASSUME NoOneAssumption == NoOne \notin Peers /\ NoOne \notin Nat
ASSUME CapAssumption   == LoopCap \in Nat \ {0} /\ SendCap \in Nat \ {0}
                          /\ InboxCap \in Nat \ {0} /\ ReadMax \in Nat \ {0}
ASSUME BoundAssumption == MaxConn \in Nat /\ MaxRequests \in Nat
ASSUME FaultAssumption == Faults \subseteq Fault

Conns == 1..MaxConn   \* connection ids

VARIABLES
  \* The connections: their tasks, and the streams.
  peer,     \* peer[c]: its address, NoOne if it has not been accepted
  alive,    \* is the peer's end of c open?
  phase,    \* what the task of c does: "select", "forward", "write" or "ended"
  chunk,    \* chunk[c]: requests in its read buffer
  inbox,    \* inbox[c]: messages in its channel
  sent,     \* requests and events made so far
  \* The server task.
  up,       \* is a service on this listener still offered?
  running,  \* is the server task there?
  senders,  \* client_senders: the connection of each peer
  tasks,    \* client_tasks: the connection whose handle is kept
  routing,  \* the connection it is handing a message to
  \* The event loop, and the channels.
  sending,  \* the peer it is sending a message to
  owed,     \* owed[p]: answers that the application has not given yet
  toLoop,   \* requests for the event loop
  toServer, \* messages for the server task
  closes,   \* close_peer: peers whose connections are to be closed
  cleanups  \* cleanup: connections whose tasks have ended

streams == <<peer, alive, sent>>
conns   == <<phase, chunk, inbox>>
server  == <<up, running, senders, tasks, routing, closes, cleanups>>
loop    == <<sending, owed>>
vars == <<streams, conns, server, loop, toLoop, toServer>>

Init ==
  /\ peer = [c \in Conns |-> NoOne] /\ alive = [c \in Conns |-> FALSE]
  /\ phase = [c \in Conns |-> "select"]
  /\ chunk = [c \in Conns |-> 0] /\ inbox = [c \in Conns |-> 0]
  /\ sent = 0
  /\ up = TRUE /\ running = TRUE
  /\ senders = [p \in Peers |-> NoOne] /\ tasks = [p \in Peers |-> NoOne]
  /\ routing = NoOne
  /\ sending = NoOne /\ owed = [p \in Peers |-> 0]
  /\ toLoop = <<>> /\ toServer = <<>>
  /\ closes = {} /\ cleanups = {}

Accepted == {c \in Conns : peer[c] # NoOne}
Open     == {c \in Accepted : phase[c] # "ended"}

-----------------------------------------------------------------------------
(* The clients.                                                            *)

\* The peer closes its end, or crashes.
Disconnect(c) ==
  /\ "disconnect" \in Faults
  /\ c \in Accepted /\ alive[c]
  /\ alive' = [alive EXCEPT ![c] = FALSE]
  /\ UNCHANGED <<peer, sent, conns, server, loop, toLoop, toServer>>

-----------------------------------------------------------------------------
(* The task of a connection: handle_tcp_connection.                        *)

\* It ends: the cleanup request is sent, and the handle kept for the address
\* is removed, whichever connection it is of.
End(c) ==
  /\ phase'    = [phase EXCEPT ![c] = "ended"]
  /\ cleanups' = cleanups \cup {c}
  /\ tasks'    = [tasks EXCEPT ![peer[c]] = NoOne]
  /\ UNCHANGED <<streams, up, running, senders, routing, closes,
                 loop, toLoop, toServer>>

\* One read may return many requests, made while the peer was there.
Read(c) ==
  /\ c \in Open /\ phase[c] = "select"
  /\ \E n \in 1..ReadMax : /\ sent + n <= MaxRequests
                           /\ sent'  = sent + n
                           /\ chunk' = [chunk EXCEPT ![c] = n]
  /\ phase' = [phase EXCEPT ![c] = "forward"]
  /\ UNCHANGED <<peer, alive, inbox, server, loop, toLoop, toServer>>

\* All of them are forwarded before anything else is done.
Forward(c) ==
  /\ phase[c] = "forward"
  /\ Len(toLoop) < LoopCap
  /\ toLoop' = Append(toLoop, peer[c])
  /\ chunk'  = [chunk EXCEPT ![c] = @ - 1]
  /\ phase'  = [phase EXCEPT ![c] = IF chunk[c] = 1 THEN "select" ELSE "forward"]
  /\ UNCHANGED <<streams, inbox, server, loop, toServer>>

ReadEof(c) ==
  /\ c \in Open /\ phase[c] = "select"
  /\ ~alive[c]
  /\ End(c)
  /\ UNCHANGED <<chunk, inbox>>

TakeMessage(c) ==
  /\ c \in Open /\ phase[c] = "select"
  /\ inbox[c] > 0
  /\ inbox' = [inbox EXCEPT ![c] = @ - 1]
  /\ phase' = [phase EXCEPT ![c] = "write"]
  /\ UNCHANGED <<streams, chunk, server, loop, toLoop, toServer>>

\* write_all waits until the peer has read enough.
Write(c) ==
  /\ phase[c] = "write" /\ alive[c]
  /\ phase' = [phase EXCEPT ![c] = "select"]
  /\ UNCHANGED <<streams, chunk, inbox, server, loop, toLoop, toServer>>

WriteFails(c) ==
  /\ phase[c] = "write" /\ ~alive[c]
  /\ End(c)
  /\ UNCHANGED <<chunk, inbox>>

\* Its sender is gone with the server task, with the close request of a
\* reboot, or in favour of a newer connection from the address.
UnsentWhenDown(c) == ~running
Unsent(c) == senders[peer[c]] # c

SendersGone(c) ==
  /\ c \in Open /\ phase[c] = "select"
  /\ inbox[c] = 0 /\ Unsent(c)
  /\ End(c)
  /\ UNCHANGED <<chunk, inbox>>

Task(c) == \/ Forward(c) \/ ReadEof(c)
           \/ TakeMessage(c) \/ Write(c) \/ WriteFails(c) \/ SendersGone(c)

-----------------------------------------------------------------------------
(* The server task: TcpServer::spawn.  While it hands a message to a       *)
(* connection it does nothing else.                                        *)

ServerIsFree == running /\ routing = NoOne

\* A peer uses its address again only when its end of the last connection
\* is closed; the task of that one need not have noticed.
Accept(c, p) ==
  /\ ServerIsFree
  /\ c \notin Accepted /\ \A d \in Conns : d < c => d \in Accepted
  /\ \A d \in Accepted : peer[d] = p => ~alive[d]
  /\ peer'    = [peer EXCEPT ![c] = p]
  /\ alive'   = [alive EXCEPT ![c] = TRUE]
  /\ senders' = [senders EXCEPT ![p] = c]
  /\ tasks'   = [tasks EXCEPT ![p] = c]
  /\ UNCHANGED <<sent, conns, up, running, routing, closes,
                 cleanups, loop, toLoop, toServer>>

\* A message for a peer without a connection is dropped.
Route ==
  /\ ServerIsFree /\ toServer # <<>>
  /\ toServer' = Tail(toServer)
  /\ routing'  = senders[Head(toServer)]
  /\ UNCHANGED <<streams, conns, up, running, senders, tasks, closes, cleanups,
                 loop, toLoop>>

\* sender.send() waits for room, or fails when the task has ended.
NoWait(c) == TRUE
Room(c) == inbox[c] < InboxCap
RoomOrEnded(c) == inbox[c] < InboxCap \/ phase[c] = "ended"

HandOver ==
  /\ routing # NoOne /\ RoomOrEnded(routing)
  /\ inbox'   = IF phase[routing] = "ended" THEN inbox
                ELSE [inbox EXCEPT ![routing] = @ + 1]
  /\ routing' = NoOne
  /\ UNCHANGED <<streams, phase, chunk, up, running, senders, tasks, closes,
                 cleanups, loop, toLoop, toServer>>

\* The sender is removed, and the task aborted if its handle is still kept.
ClosePeer(p) ==
  /\ ServerIsFree /\ p \in closes
  /\ closes'  = closes \ {p}
  /\ senders' = [senders EXCEPT ![p] = NoOne]
  /\ LET abort == IF senders[p] = NoOne THEN NoOne ELSE tasks[p]
     IN  /\ tasks' = [tasks EXCEPT ![p] = IF senders[p] = NoOne THEN @ ELSE NoOne]
         /\ phase' = [c \in Conns |-> IF c = abort THEN "ended" ELSE phase[c]]
  /\ UNCHANGED <<streams, chunk, inbox, up, running, routing, cleanups, loop,
                 toLoop, toServer>>

\* The sender of a connection that has ended goes, unless a newer one has
\* taken its place.
SendersWithoutPeer(c) == [senders EXCEPT ![peer[c]] = NoOne]
SendersWithout(c)     == [senders EXCEPT ![peer[c]] = IF @ = c THEN NoOne ELSE @]

CleanUp(c) ==
  /\ ServerIsFree /\ c \in cleanups
  /\ cleanups' = cleanups \ {c}
  /\ senders'  = SendersWithout(c)
  /\ UNCHANGED <<streams, conns, up, running, tasks, routing, closes, loop,
                 toLoop, toServer>>

\* Mutant: answers that are owed hold no sender.
HeldByServices == up

\* Who holds a sender of the channel: an offered service, an answer that is
\* owed or the one that the event loop is sending.
Held == up \/ sending # NoOne \/ \E p \in Peers : owed[p] > 0

\* All senders are gone, and the channel is empty.
ServerEnds ==
  /\ ServerIsFree /\ ~Held /\ toServer = <<>>
  /\ running' = FALSE
  /\ senders' = [p \in Peers |-> NoOne]
  /\ UNCHANGED <<streams, conns, up, tasks, routing, closes, cleanups, loop,
                 toLoop, toServer>>

Server == \/ Route \/ HandOver \/ ServerEnds
          \/ \E p \in Peers : ClosePeer(p)
          \/ \E c \in Conns : CleanUp(c)

-----------------------------------------------------------------------------
(* The event loop and the application behind it.  While it sends it does   *)
(* nothing else.                                                           *)

LoopIsFree == sending = NoOne

\* handle_incoming_request: the application owes an answer, the loop sends an
\* error, or the request is dropped, because the application's channel is full
\* or closed or no service has the port.
Track(p)  == up /\ owed' = [owed EXCEPT ![p] = @ + 1] /\ UNCHANGED sending
Refuse(p) == up /\ sending' = p /\ UNCHANGED owed
Drop      == UNCHANGED <<owed, sending>>

HandleRequest ==
  /\ LoopIsFree /\ toLoop # <<>>
  /\ toLoop' = Tail(toLoop)
  /\ Track(Head(toLoop)) \/ Refuse(Head(toLoop)) \/ Drop
  /\ UNCHANGED <<streams, conns, server, toServer>>

\* A completed answer is sent through the transport that was captured with the
\* request, also when the service is not offered any more.
Respond(p) ==
  /\ LoopIsFree /\ owed[p] > 0
  /\ owed'    = [owed EXCEPT ![p] = @ - 1]
  /\ sending' = p
  /\ UNCHANGED <<streams, conns, server, toLoop, toServer>>

\* handle_notify: an event for the subscriber at p, connected or not.
Notify(p) ==
  /\ LoopIsFree /\ up /\ sent < MaxRequests
  /\ sent'    = sent + 1
  /\ sending' = p
  /\ UNCHANGED <<peer, alive, conns, server, owed, toLoop, toServer>>

Send ==
  /\ sending # NoOne
  /\ Len(toServer) < SendCap
  /\ toServer' = Append(toServer, sending)
  /\ sending'  = NoOne
  /\ UNCHANGED <<streams, conns, server, owed, toLoop>>

\* handle_peer_reboot: ResetPeerTcpConnections, with try_send.
Reboot(p) ==
  /\ "reboot" \in Faults
  /\ LoopIsFree /\ up
  /\ closes' = closes \cup {p}
  /\ UNCHANGED <<streams, conns, up, running, senders, tasks, routing, cleanups,
                 loop, toLoop, toServer>>

\* The StopOffer of the last service on the listener.
StopOffer ==
  /\ "stop_offer" \in Faults
  /\ LoopIsFree /\ up
  /\ up' = FALSE
  /\ UNCHANGED <<streams, conns, running, senders, tasks, routing, closes,
                 cleanups, loop, toLoop, toServer>>

Loop == HandleRequest \/ Send \/ \E p \in Peers : Respond(p)

-----------------------------------------------------------------------------
Next ==
  \/ \E c \in Conns : \/ Read(c) \/ Disconnect(c) \/ Task(c)
                      \/ \E p \in Peers : Accept(c, p)
  \/ Server \/ Loop
  \/ \E p \in Peers : Notify(p) \/ Reboot(p)
  \/ StopOffer

Spec == Init /\ [][Next]_vars

\* Tasks run, peers read what they are sent, and the application answers.
FairSpec ==
  /\ Spec
  /\ \A c \in Conns : WF_vars(Task(c)) /\ WF_vars(CleanUp(c))
  /\ \A p \in Peers : WF_vars(ClosePeer(p))
  /\ WF_vars(Route \/ HandOver) /\ WF_vars(ServerEnds)
  /\ WF_vars(Loop)

-----------------------------------------------------------------------------
(* Properties.                                                             *)

TypeOK ==
  /\ peer \in [Conns -> Peers \cup {NoOne}]
  /\ alive \in [Conns -> BOOLEAN]
  /\ phase \in [Conns -> {"select", "forward", "write", "ended"}]
  /\ chunk \in [Conns -> 0..ReadMax] /\ inbox \in [Conns -> 0..InboxCap]
  /\ sent \in 0..MaxRequests
  /\ up \in BOOLEAN /\ running \in BOOLEAN
  /\ senders \in [Peers -> Conns \cup {NoOne}]
  /\ tasks \in [Peers -> Conns \cup {NoOne}]
  /\ routing \in Conns \cup {NoOne}
  /\ sending \in Peers \cup {NoOne} /\ owed \in [Peers -> Nat]
  /\ toLoop \in Seq(Peers) /\ Len(toLoop) <= LoopCap
  /\ toServer \in Seq(Peers) /\ Len(toServer) <= SendCap
  /\ closes \subseteq Peers /\ cleanups \subseteq Conns

\* Cleanups of older connections, however late, take no sender from a
\* connection that works: only the end of the peer, a close request for its
\* reboot or the end of the server task does, and a StopOffer alone does not.
TakesNoSender ==
  \A c \in Open : /\ alive[c] /\ senders[peer[c]] = c
                  /\ senders'[peer[c]] # c
                  => peer[c] \in closes \/ ~running'
SenderStays == [][TakesNoSender]_vars

\* Requests, answers and events in the circle through a connection: in its
\* buffers, in the channels, and in the hands of server task and event loop.
InHand(holder) == IF holder = NoOne THEN 0 ELSE 1
UnderWay(c) == chunk[c] + inbox[c] + Len(toLoop) + Len(toServer)
               + InHand(routing) + InHand(sending)

\* What it takes to fill the circle, with a message in the hands of each of
\* the three tasks.
Circle == LoopCap + SendCap + InboxCap + 3
CircleNeverFull == [](\A c \in Conns : UnderWay(c) < Circle)

TaskCanStep(c) ==
  \/ c \in Open /\ phase[c] = "select" /\ inbox[c] > 0
  \/ phase[c] = "forward" /\ Len(toLoop) < LoopCap
  \/ phase[c] = "write"

\* While the event loop waits for room in the server's channel, the server task
\* is there and can go on, or the connection that it waits for can, or that
\* connection waits for the event loop: and then each channel of the circle is
\* full and each of the three tasks holds a message.  Nothing else, no end of a
\* connection, of its peer or of the service, makes the loop wait.
WaitsInFullCircle ==
  sending # NoOne /\ Len(toServer) = SendCap =>
    \/ ServerIsFree
    \/ /\ running /\ routing # NoOne
       /\ RoomOrEnded(routing) \/ TaskCanStep(routing) \/ UnderWay(routing) >= Circle

\* A connection that lost its sender ends, also when the handle that could
\* abort it was removed by an older task of the same address; and when the last
\* service on the listener is withdrawn, the answers owed are given and then the
\* server task and all connections end.  But a task that waits in a full circle
\* cannot.
Unserved(c) == c \in Open /\ senders[peer[c]] # c
AllEnded == ~running /\ Open = {}
UnsentEnds ==
  CircleNeverFull => /\ \A c \in Conns : Unserved(c) ~> c \notin Open
                     /\ ~up ~> AllEnded

\* The event loop never waits for good in a send, as long as no circle is full.
LoopGoesOn == CircleNeverFull => []<>LoopIsFree
=============================================================================
