-------------------------------- MODULE Rpc --------------------------------
(***************************************************************************)
(* Method calls: the calls of one client runtime, matched to their         *)
(* responses by session id alone, and the server runtime that hands the    *)
(* requests to the application and sends what it owes.  Datagrams may be   *)
(* lost, duplicated and reordered; either runtime may be shut down.        *)
(***************************************************************************)
EXTENDS Naturals, Sequences

CONSTANTS Calls,    \* calls of proxies: method calls and fire-and-forget
          kind,     \* what the server finds in the request of a call
          MaxSid,   \* largest payload session id (2^16 - 1)
          QueueCap, \* capacity of the requests channel of an offering
          Faults    \* what may happen: "loss", "copy", "cancel", "reuse",
                    \* "drop", "client_down", "shutdown"

\* A bad request has the id of an event or another interface version.
Kinds == {"good", "bad", "fire"}
Sids == 1..MaxSid
Codes == {"ok", "app_error", "not_ok", "unknown_service", "malformed", "wrong_version"}

ASSUME RpcAssumption ==
  /\ kind \in [Calls -> Kinds]
  /\ MaxSid \in Nat \ {0}
  /\ QueueCap \in Nat \ {0}

VARIABLES
  status,    \* of each call: idle, waiting, answered, failed, cancelled, sent
  answer,    \* the response a call returned: whose request it answers, its code
  sidOf,     \* the session id of each call's request, 0 before and for "sent"
  pending,   \* pending_calls: at most one call for each session id
  nextSid,   \* payload_session_id
  client,    \* the client runtime runs
  net,       \* datagrams on their way
  offering,  \* live, closed (its handle is gone) or stopped
  queue,     \* the requests channel of the offering
  owed,      \* pending_responses, with what became of each responder
  server,    \* up, draining or down
  replied,   \* what the application did with the responders of each call
  silent     \* calls with a datagram that was lost or dropped without answer

clientVars == <<status, answer, sidOf, pending, nextSid, client>>
serverVars == <<offering, queue, owed, server, replied>>
vars == <<clientVars, net, serverVars, silent>>

\* A datagram names its call, which stands for its payload; copy is 1, or 2
\* and 3 for the two datagrams after a duplication.
Requests == [type : {"request", "fire"}, call : Calls, sid : 0..MaxSid, copy : 1..3]
Responses == [type : {"response"}, call : Calls, sid : 0..MaxSid, copy : 1..3, code : Codes]
Results == {"none", "ok", "error", "dropped"}

Init ==
  /\ status = [c \in Calls |-> "idle"]
  /\ answer = [c \in Calls |-> {}]
  /\ sidOf = [c \in Calls |-> 0]
  /\ pending = [i \in Sids |-> {}]
  /\ nextSid = 1
  /\ client = TRUE
  /\ net = {}
  /\ offering = "live"
  /\ queue = <<>>
  /\ owed = {}
  /\ server = "up"
  /\ replied = {}
  /\ silent = {}

-----------------------------------------------------------------------------
(***************************************************************************)
(* The client runtime.                                                     *)
(***************************************************************************)

\* Mutant: the counter does not wrap around.
AfterSidNoWrap(i) == i + 1

\* next_payload_session_id.
AfterSid(i) == IF i = MaxSid THEN 1 ELSE i + 1

\* A call whose entry is gone and that got no response sees its channel
\* closed and returns RuntimeShutdown.
Left(st, pend) ==
  [c \in Calls |-> IF st[c] = "waiting" /\ \A i \in Sids : c \notin pend[i]
                   THEN "failed" ELSE st[c]]

\* Anything that still bears session id i, except an entry of pending_calls.
UnderWay(i) == (\E m \in net : m.sid = i) \/ (\E o \in owed : o.msg.sid = i)

\* Mutant: the entry of an older call stays beside the new one.
EnteredBeside(c) == [pending EXCEPT ![nextSid] = @ \cup {c}]

\* pending_calls.insert: the entry of an older call with the same id goes.
Entered(c) == [pending EXCEPT ![nextSid] = {c}]

\* handle_call.
Call(c) ==
  /\ status[c] = "idle" /\ kind[c] # "fire"
  /\ client
  /\ "reuse" \in Faults \/ ~UnderWay(nextSid)
  /\ sidOf' = [sidOf EXCEPT ![c] = nextSid]
  /\ pending' = Entered(c)
  /\ status' = Left([status EXCEPT ![c] = "waiting"], pending')
  /\ nextSid' = AfterSid(nextSid)
  /\ net' = net \cup {[type |-> "request", call |-> c, sid |-> nextSid, copy |-> 1]}
  /\ UNCHANGED <<answer, client, serverVars, silent>>

\* handle_fire_and_forget: no session id is drawn and nothing is awaited.
FireAndForget(c) ==
  /\ status[c] = "idle" /\ kind[c] = "fire"
  /\ client
  /\ status' = [status EXCEPT ![c] = "sent"]
  /\ net' = net \cup {[type |-> "fire", call |-> c, sid |-> 0, copy |-> 1]}
  /\ UNCHANGED <<answer, sidOf, pending, nextSid, client, serverVars, silent>>

\* The future of call() is dropped; its entry stays.
Cancel(c) ==
  /\ "cancel" \in Faults
  /\ status[c] = "waiting"
  /\ status' = [status EXCEPT ![c] = "cancelled"]
  /\ UNCHANGED <<answer, sidOf, pending, nextSid, client, net, serverVars, silent>>

\* Mutant: a response ends all calls that wait.
HandleResponseToAll(m) ==
  /\ m \in net /\ m.type = "response"
  /\ net' = net \ {m}
  /\ pending' = [i \in Sids |-> {}]
  /\ status' = Left([c \in Calls |-> IF m.sid \in Sids /\ c \in pending[m.sid]
                                       /\ status[c] = "waiting"
                                     THEN "answered" ELSE status[c]], pending')
  /\ UNCHANGED <<answer, sidOf, nextSid, client, serverVars, silent>>

\* handle_incoming_response: the entry with the id of the response, if any.
HandleResponse(m) ==
  /\ m \in net /\ m.type = "response"
  /\ net' = net \ {m}
  /\ LET mine == {c \in Calls : m.sid \in Sids /\ c \in pending[m.sid]}
         got == {c \in mine : status[c] = "waiting"}
     IN /\ status' = [c \in Calls |-> IF c \in got THEN "answered" ELSE status[c]]
        /\ answer' = [c \in Calls |-> IF c \in got THEN {[call |-> m.call, code |-> m.code]}
                                      ELSE answer[c]]
  /\ pending' = [i \in Sids |-> IF i = m.sid THEN {} ELSE pending[i]]
  /\ UNCHANGED <<sidOf, nextSid, client, serverVars, silent>>

\* The client runtime ends and drops its state.
ClientDown ==
  /\ "client_down" \in Faults
  /\ client
  /\ client' = FALSE
  /\ pending' = [i \in Sids |-> {}]
  /\ status' = Left(status, pending')
  /\ UNCHANGED <<answer, sidOf, nextSid, net, serverVars, silent>>

-----------------------------------------------------------------------------
(***************************************************************************)
(* The server runtime.                                                     *)
(***************************************************************************)

\* Mutant: the response takes the session id of any request that is owed one.
ReplyToAny(m, code) ==
  [type |-> "response", call |-> m.call, copy |-> m.copy, code |-> code,
   sid |-> IF owed = {} THEN m.sid ELSE (CHOOSE o \in owed : TRUE).msg.sid]

\* build_response copies the ids of the request.
Reply(m, code) == [type |-> "response", call |-> m.call, sid |-> m.sid, copy |-> m.copy,
                   code |-> code]

\* Mutant: the error message is not sent.
RejectUnsent(m, code) ==
  /\ net' = net \ {m}
  /\ UNCHANGED <<queue, owed, silent>>

\* The request is rejected with an error message.
Reject(m, code) ==
  /\ net' = (net \ {m}) \cup {Reply(m, code)}
  /\ UNCHANGED <<queue, owed, silent>>

\* The request leaves no trace: its caller hears nothing of it.
Ignore(m) ==
  /\ net' = net \ {m}
  /\ silent' = silent \cup {m.call}
  /\ UNCHANGED <<queue, owed>>

Accepts == offering = "live" /\ Len(queue) < QueueCap

\* handle_incoming_request: when the service is not offered, the answer
\* depends on whether another one is offered on the port; a bad request is
\* rejected; a failure of try_send is not reported to the client.
HandleRequest(m) ==
  /\ m \in net /\ m.type = "request"
  /\ server = "up"
  /\ \/ offering = "stopped" /\ (Reject(m, "unknown_service") \/ Ignore(m))
     \/ /\ offering # "stopped" /\ kind[m.call] = "bad"
        /\ \E code \in {"malformed", "wrong_version"} : Reject(m, code)
     \/ /\ offering # "stopped" /\ kind[m.call] = "good" /\ Accepts
        /\ net' = net \ {m}
        /\ queue' = Append(queue, m)
        /\ owed' = owed \cup {[msg |-> m, result |-> "none"]}
        /\ UNCHANGED silent
     \/ offering # "stopped" /\ kind[m.call] = "good" /\ ~Accepts /\ Ignore(m)
  /\ UNCHANGED <<clientVars, offering, server, replied>>

\* handle_incoming_fire_forget.
HandleFireForget(m) ==
  /\ m \in net /\ m.type = "fire"
  /\ server = "up"
  /\ net' = net \ {m}
  /\ queue' = IF Accepts THEN Append(queue, m) ELSE queue
  /\ UNCHANGED <<clientVars, offering, owed, server, replied, silent>>

\* Command::StopOffer after its handle was dropped.
StopOffer ==
  /\ offering = "closed"
  /\ server = "up"
  /\ offering' = "stopped"
  /\ UNCHANGED <<clientVars, net, queue, owed, server, replied, silent>>

\* What is sent for a responder: a shutdown does not tell errors apart.
CodeOf(result) ==
  CASE result = "ok" -> "ok"
    [] result = "error" /\ server = "up" -> "app_error"
    [] OTHER -> "not_ok"

\* A completed entry of pending_responses, in the loop or while draining.
Respond(o) ==
  /\ o \in owed /\ o.result # "none"
  /\ server \in {"up", "draining"}
  /\ owed' = owed \ {o}
  /\ net' = net \cup {Reply(o.msg, CodeOf(o.result))}
  /\ UNCHANGED <<clientVars, offering, queue, server, replied, silent>>

Shutdown ==
  /\ "shutdown" \in Faults
  /\ server = "up"
  /\ server' = "draining"
  /\ UNCHANGED <<clientVars, net, offering, queue, owed, replied, silent>>

\* Mutant: the responses are not drained.
DownAtOnce ==
  /\ server = "draining"
  /\ server' = "down"
  /\ offering' = "stopped"
  /\ UNCHANGED <<clientVars, net, queue, owed, replied, silent>>

\* The loop ends when nothing is owed.
Down ==
  /\ server = "draining"
  /\ owed = {}
  /\ server' = "down"
  /\ offering' = "stopped"
  /\ UNCHANGED <<clientVars, net, queue, owed, replied, silent>>

-----------------------------------------------------------------------------
(***************************************************************************)
(* The application of the server.                                          *)
(***************************************************************************)

\* ServiceOffering::next.
Take ==
  /\ offering = "live"
  /\ queue # <<>>
  /\ queue' = Tail(queue)
  /\ UNCHANGED <<clientVars, net, offering, owed, server, replied, silent>>

Queued(m) == \E i \in 1..Len(queue) : queue[i] = m

\* Responder::reply, reply_error or drop, once the request was taken.
Use(o, r) ==
  /\ o \in owed /\ o.result = "none"
  /\ ~Queued(o.msg)
  /\ owed' = (owed \ {o}) \cup {[o EXCEPT !.result = r]}
  /\ replied' = replied \cup {<<o.msg.call, r>>}
  /\ UNCHANGED <<clientVars, net, offering, queue, server, silent>>

\* The handle is dropped, and with it the requests in its channel and their
\* responders.
DropOffering ==
  /\ "drop" \in Faults
  /\ offering = "live"
  /\ offering' = "closed"
  /\ owed' = {[o EXCEPT !.result = IF Queued(o.msg) THEN "dropped" ELSE @] : o \in owed}
  /\ replied' = replied \cup {<<c, "dropped">> : c \in {o.msg.call : o \in {x \in owed : Queued(x.msg)}}}
  /\ queue' = <<>>
  /\ UNCHANGED <<clientVars, net, server, silent>>

-----------------------------------------------------------------------------
(***************************************************************************)
(* The network.                                                            *)
(***************************************************************************)

Lose(m) ==
  /\ m \in net
  /\ \/ "loss" \in Faults
     \/ m.type = "response" /\ ~client
     \/ m.type # "response" /\ server # "up"
  /\ net' = net \ {m}
  /\ silent' = silent \cup {m.call}
  /\ UNCHANGED <<clientVars, serverVars>>

\* In each exchange one datagram may be duplicated, the request or the
\* response, and in one exchange at a time.
Duplicate(m) ==
  /\ "copy" \in Faults
  /\ m \in net
  /\ \A x \in net \cup {o.msg : o \in owed} : x.copy = 1
  /\ net' = (net \ {m}) \cup {[m EXCEPT !.copy = i] : i \in {2, 3}}
  /\ UNCHANGED <<clientVars, serverVars, silent>>

-----------------------------------------------------------------------------
Application == Take \/ \E o \in owed, r \in Results \ {"none"} : Use(o, r)

Deliver == \E m \in net : HandleResponse(m) \/ HandleRequest(m) \/ HandleFireForget(m)

Completed == \E o \in owed : Respond(o)

Next ==
  \/ \E c \in Calls : Call(c) \/ FireAndForget(c) \/ Cancel(c)
  \/ Deliver \/ Completed \/ Application
  \/ ClientDown \/ DropOffering \/ StopOffer \/ Shutdown \/ Down
  \/ \E m \in net : Lose(m) \/ Duplicate(m)

Spec == Init /\ [][Next]_vars

\* The loops read their sockets and channels again and again, a datagram that
\* is not lost arrives, and the application takes the requests and uses or
\* drops their responders.
Fairness ==
  /\ WF_vars(Take)
  /\ WF_vars(Completed)
  /\ WF_vars(Down)
  /\ \A c \in Calls :
       /\ WF_vars(\E m \in net : m.call = c /\ (HandleResponse(m) \/ HandleRequest(m) \/ HandleFireForget(m) \/ Lose(m)))
       /\ WF_vars(\E o \in owed, r \in Results \ {"none"} : o.msg.call = c /\ Use(o, r))

FairSpec == Spec /\ Fairness

-----------------------------------------------------------------------------
(***************************************************************************)
(* Properties.                                                             *)
(***************************************************************************)

TypeOK ==
  /\ status \in [Calls -> {"idle", "waiting", "answered", "failed", "cancelled", "sent"}]
  /\ answer \in [Calls -> SUBSET [call : Calls, code : Codes]]
  /\ sidOf \in [Calls -> 0..MaxSid]
  /\ pending \in [Sids -> SUBSET Calls]
  /\ nextSid \in Sids
  /\ client \in BOOLEAN
  /\ net \subseteq Requests \cup Responses
  /\ offering \in {"live", "closed", "stopped"}
  /\ queue \in Seq(Requests)
  /\ owed \subseteq [msg : Requests, result : Results]
  /\ server \in {"up", "draining", "down"}
  /\ replied \subseteq Calls \X Results
  /\ silent \subseteq Calls

\* A call that returns a response returns the one to its own request, with
\* what the application replied, although responses are matched by an id that
\* wraps around and datagrams are late, repeated and out of order: unless an
\* id is used again while something with it is still under way.
AnswerInv ==
  \A c \in Calls : \A a \in answer[c] :
    /\ a.call = c
    /\ a.code = "ok" => <<c, "ok">> \in replied
    /\ a.code = "app_error" => <<c, "error">> \in replied
    /\ a.code = "not_ok" => \E r \in {"error", "dropped"} : <<c, r>> \in replied

\* A call fails only when the client runtime ended or a later call took its
\* session id: no response to, or loss of, another call makes it fail.
FailInv ==
  \A c \in Calls : status[c] = "failed" =>
    \/ ~client
    \/ \E d \in Calls : d # c /\ sidOf[d] = sidOf[c] /\ status[d] # "idle"

\* No call is forgotten: for one that waits there is a datagram under way with
\* its session id, or the server owes it a response and has not ended, unless a
\* datagram of it was lost or dropped in silence.  What is under way can only
\* become the response that ends it, however often ids are used again, offers
\* dropped and responses repeated (handle_call, handle_incoming_request,
\* handle_incoming_response, the draining of pending_responses).
NoneForgotten ==
  \A c \in Calls : status[c] = "waiting" /\ c \notin silent =>
    \/ \E m \in net : m.call = c /\ m.sid = sidOf[c]
    \/ server # "down" /\ \E o \in owed : o.msg.call = c

\* The client and the server together, with ids that wrap around and datagrams
\* that are lost, repeated and reordered, do what a call promises, and no more:
\* each call returns at most once, with a response to its own request that the
\* application or the state of the service accounts for, and fails only when
\* its runtime ends or in the step in which one newer call takes its id.
Abstract == INSTANCE MethodCall WITH
  outcome <- status, result <- answer, given <- replied,
  offered <- offering # "stopped", running <- client
ImplementsMethodCall == Abstract!Spec

\* Every call ends, unless a datagram of it was lost or its request was
\* dropped in silence: with a full or closed channel, or by a runtime that has
\* no such service or is shutting down.
CallsEnd ==
  \A c \in Calls : status[c] = "waiting" ~> status[c] # "waiting" \/ c \in silent
=============================================================================
