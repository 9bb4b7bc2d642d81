----------------------------- MODULE Rpc_proofs -----------------------------
(***************************************************************************)
(* Proofs about the method calls of Rpc.tla, for any number of calls, any  *)
(* range of session ids, any capacity and all the faults.                  *)
(***************************************************************************)
EXTENDS Rpc, SequenceTheorems, FiniteSets, FiniteSetTheorems, TLAPS

USE RpcAssumption

LEMMA NextSidTypes == ASSUME NEW i \in Sids PROVE AfterSid(i) \in Sids
  BY DEF AfterSid, Sids

LEMMA CodeTypes == ASSUME NEW r PROVE CodeOf(r) \in Codes
  BY DEF CodeOf, Codes

\* A datagram that is handled as a request or fire-and-forget call is one.
LEMMA RequestTypes ==
  ASSUME TypeOK, NEW m \in net, m.type # "response" PROVE m \in Requests
  BY DEF TypeOK, Requests, Responses

LEMMA ResponseTypes ==
  ASSUME TypeOK, NEW m \in net, m.type = "response" PROVE m \in Responses
  BY DEF TypeOK, Requests, Responses

LEMMA ReplyTypes ==
  ASSUME NEW m \in Requests, NEW code \in Codes PROVE Reply(m, code) \in Responses
  BY DEF Reply, Requests, Responses

LEMMA MessageTypes ==
  ASSUME TypeOK, NEW m \in net PROVE m.call \in Calls /\ m.sid \in 0..MaxSid
  BY DEF TypeOK, Requests, Responses

LEMMA CopyTypes ==
  ASSUME NEW m \in Requests \cup Responses, NEW i \in 1..3
  PROVE [m EXCEPT !.copy = i] \in Requests \cup Responses
  BY DEF Requests, Responses

\* What a channel holds after a message was put into it.
LEMMA QueueAfterSend ==
  ASSUME NEW q \in Seq(Requests), NEW m \in Requests
  PROVE  /\ Append(q, m) \in Seq(Requests)
         /\ Len(Append(q, m)) = Len(q) + 1
         /\ \A i \in 1..Len(Append(q, m)) :
              Append(q, m)[i] = m \/ (i \in 1..Len(q) /\ Append(q, m)[i] = q[i])
  OBVIOUS

\* What a channel holds after a message was taken from it.
LEMMA QueueAfterTake ==
  ASSUME NEW q \in Seq(Requests), q # <<>>
  PROVE  /\ Tail(q) \in Seq(Requests)
         /\ Len(Tail(q)) < Len(q)
         /\ \A i \in 1..Len(Tail(q)) : i + 1 \in 1..Len(q) /\ Tail(q)[i] = q[i + 1]
  OBVIOUS

LEMMA EmptyQueue == <<>> \in Seq(Requests) /\ Len(<<>>) = 0
  OBVIOUS

-----------------------------------------------------------------------------
(***************************************************************************)
(* Types.                                                                  *)
(***************************************************************************)

LEMMA TypeInit == Init => TypeOK
  <1> SUFFICES ASSUME Init PROVE TypeOK OBVIOUS
  <1>1. 1 \in Sids BY DEF Sids
  <1> QED BY <1>1, EmptyQueue DEF Init, TypeOK, Requests, Responses

LEMMA LeftTypes ==
  ASSUME NEW st \in [Calls -> {"idle", "waiting", "answered", "failed", "cancelled", "sent"}],
         NEW pend
  PROVE Left(st, pend) \in [Calls -> {"idle", "waiting", "answered", "failed", "cancelled", "sent"}]
  BY DEF Left

LEMMA CallType == ASSUME TypeOK, NEW c \in Calls, Call(c) PROVE TypeOK'
  <1>1. [type |-> "request", call |-> c, sid |-> nextSid, copy |-> 1] \in Requests
    BY DEF TypeOK, Requests, Sids
  <1>2. net' \subseteq Requests \cup Responses BY <1>1 DEF TypeOK, Call
  <1>3. nextSid' \in Sids BY NextSidTypes DEF TypeOK, Call
  <1>4. status' \in [Calls -> {"idle", "waiting", "answered", "failed", "cancelled", "sent"}]
    BY LeftTypes DEF TypeOK, Call
  <1>5. sidOf' \in [Calls -> 0..MaxSid] /\ pending' \in [Sids -> SUBSET Calls]
    BY DEF TypeOK, Call, Entered, Sids
  <1> QED BY <1>2, <1>3, <1>4, <1>5 DEF TypeOK, Call, serverVars

LEMMA FireType == ASSUME TypeOK, NEW c \in Calls, FireAndForget(c) PROVE TypeOK'
  <1>1. [type |-> "fire", call |-> c, sid |-> 0, copy |-> 1] \in Requests
    BY DEF TypeOK, Requests, Sids
  <1> QED BY <1>1 DEF TypeOK, FireAndForget, serverVars

LEMMA CancelType == ASSUME TypeOK, NEW c \in Calls, Cancel(c) PROVE TypeOK'
  BY DEF TypeOK, Cancel, serverVars

LEMMA ResponseType == ASSUME TypeOK, NEW m \in net, HandleResponse(m) PROVE TypeOK'
  <1>1. m \in Responses BY ResponseTypes DEF HandleResponse
  <1>2. m.call \in Calls /\ m.code \in Codes BY <1>1 DEF Responses
  <1>3. status' \in [Calls -> {"idle", "waiting", "answered", "failed", "cancelled", "sent"}]
    BY DEF TypeOK, HandleResponse
  <1>4. answer' \in [Calls -> SUBSET [call : Calls, code : Codes]]
    BY <1>2 DEF TypeOK, HandleResponse
  <1>5. pending' \in [Sids -> SUBSET Calls] BY DEF TypeOK, HandleResponse
  <1> QED BY <1>3, <1>4, <1>5 DEF TypeOK, HandleResponse, serverVars

LEMMA ClientDownType == ASSUME TypeOK, ClientDown PROVE TypeOK'
  <1>1. status' \in [Calls -> {"idle", "waiting", "answered", "failed", "cancelled", "sent"}]
    BY LeftTypes DEF TypeOK, ClientDown
  <1> QED BY <1>1 DEF TypeOK, ClientDown, serverVars

LEMMA RequestType == ASSUME TypeOK, NEW m \in net, HandleRequest(m) PROVE TypeOK'
  <1>1. m \in Requests /\ m.call \in Calls BY RequestTypes, MessageTypes DEF HandleRequest
  <1>2. \A code \in Codes : Reject(m, code) => TypeOK'
    <2> TAKE code \in Codes
    <2> HAVE Reject(m, code)
    <2>1. Reply(m, code) \in Responses BY <1>1, ReplyTypes
    <2> QED BY <2>1 DEF TypeOK, HandleRequest, Reject, clientVars
  <1>3. Ignore(m) => TypeOK'
    BY <1>1 DEF TypeOK, HandleRequest, Ignore, clientVars
  <1>4. "unknown_service" \in Codes /\ "malformed" \in Codes /\ "wrong_version" \in Codes
    BY DEF Codes
  <1>5. CASE /\ net' = net \ {m}
             /\ queue' = Append(queue, m)
             /\ owed' = owed \cup {[msg |-> m, result |-> "none"]}
             /\ UNCHANGED silent
    <2>1. queue' \in Seq(Requests) BY <1>1, <1>5, QueueAfterSend DEF TypeOK
    <2>2. [msg |-> m, result |-> "none"] \in [msg : Requests, result : Results]
      BY <1>1 DEF Results
    <2> QED BY <1>5, <2>1, <2>2 DEF TypeOK, HandleRequest, clientVars
  <1> QED BY <1>2, <1>3, <1>4, <1>5 DEF HandleRequest

LEMMA FireForgetType == ASSUME TypeOK, NEW m \in net, HandleFireForget(m) PROVE TypeOK'
  <1>1. m \in Requests BY RequestTypes DEF HandleFireForget
  <1>2. queue' \in Seq(Requests) BY <1>1, QueueAfterSend DEF TypeOK, HandleFireForget
  <1> QED BY <1>2 DEF TypeOK, HandleFireForget, clientVars

LEMMA RespondType == ASSUME TypeOK, NEW o \in owed, Respond(o) PROVE TypeOK'
  <1>1. o.msg \in Requests BY DEF TypeOK
  <1>2. Reply(o.msg, CodeOf(o.result)) \in Responses BY <1>1, CodeTypes, ReplyTypes
  <1> QED BY <1>2 DEF TypeOK, Respond, clientVars

LEMMA UseType ==
  ASSUME TypeOK, NEW o \in owed, NEW r \in Results \ {"none"}, Use(o, r) PROVE TypeOK'
  <1>1. o \in [msg : Requests, result : Results] BY DEF TypeOK
  <1>2. o.msg.call \in Calls BY <1>1 DEF Requests
  <1>3. [o EXCEPT !.result = r] \in [msg : Requests, result : Results] BY <1>1
  <1>4. owed' \subseteq [msg : Requests, result : Results] BY <1>3 DEF TypeOK, Use
  <1>5. replied' \subseteq Calls \X Results BY <1>2 DEF TypeOK, Use
  <1> QED BY <1>4, <1>5 DEF TypeOK, Use, clientVars

LEMMA TakeType == ASSUME TypeOK, Take PROVE TypeOK'
  <1>1. queue' \in Seq(Requests) BY QueueAfterTake DEF TypeOK, Take
  <1> QED BY <1>1 DEF TypeOK, Take, clientVars

LEMMA DropType == ASSUME TypeOK, DropOffering PROVE TypeOK'
  <1>1. owed' \subseteq [msg : Requests, result : Results]
    <2> SUFFICES ASSUME NEW o \in owed
                 PROVE [o EXCEPT !.result = IF Queued(o.msg) THEN "dropped" ELSE @]
                         \in [msg : Requests, result : Results]
      BY DEF DropOffering
    <2>1. o \in [msg : Requests, result : Results] BY DEF TypeOK
    <2> QED BY <2>1 DEF Results
  <1>2. replied' \subseteq Calls \X Results
    <2> SUFFICES ASSUME NEW o \in owed PROVE <<o.msg.call, "dropped">> \in Calls \X Results
      BY DEF TypeOK, DropOffering
    <2> QED BY DEF TypeOK, Requests, Results
  <1> QED BY <1>1, <1>2, EmptyQueue DEF TypeOK, DropOffering, clientVars

LEMMA LoseType == ASSUME TypeOK, NEW m \in net, Lose(m) PROVE TypeOK'
  BY MessageTypes DEF TypeOK, Lose, clientVars, serverVars

LEMMA DuplicateType == ASSUME TypeOK, NEW m \in net, Duplicate(m) PROVE TypeOK'
  <1>1. m \in Requests \cup Responses BY DEF TypeOK
  <1>2. \A i \in {2, 3} : [m EXCEPT !.copy = i] \in Requests \cup Responses
    <2> TAKE i \in {2, 3}
    <2>1. i \in 1..3 OBVIOUS
    <2> QED BY ONLY <1>1, <2>1, CopyTypes
  <1>3. net' \subseteq Requests \cup Responses BY <1>2 DEF TypeOK, Duplicate
  <1> QED BY <1>3 DEF TypeOK, Duplicate, clientVars, serverVars

\* One step, whichever it is.
LEMMA Steps ==
  ASSUME Next
  PROVE  \/ \E c \in Calls : Call(c) \/ FireAndForget(c) \/ Cancel(c)
         \/ \E m \in net : HandleResponse(m) \/ HandleRequest(m) \/ HandleFireForget(m)
                           \/ Lose(m) \/ Duplicate(m)
         \/ \E o \in owed : Respond(o) \/ \E r \in Results \ {"none"} : Use(o, r)
         \/ Take \/ ClientDown \/ DropOffering \/ StopOffer \/ Shutdown \/ Down
  BY Zenon DEF Next, Deliver, Completed, Application

LEMMA TypeStep == TypeOK /\ [Next]_vars => TypeOK'
  <1> SUFFICES ASSUME TypeOK, [Next]_vars PROVE TypeOK' OBVIOUS
  <1>1. CASE UNCHANGED vars
    BY <1>1 DEF TypeOK, vars, clientVars, serverVars
  <1>2. CASE StopOffer \/ Shutdown \/ Down
    BY <1>2 DEF TypeOK, StopOffer, Shutdown, Down, clientVars
  <1> QED BY Zenon, <1>1, <1>2, Steps, CallType, FireType, CancelType, ResponseType,
             RequestType, FireForgetType, RespondType, UseType, TakeType, ClientDownType,
             DropType, LoseType, DuplicateType

\* The calls, the datagrams and the server keep their types.
THEOREM TypeCorrect == Spec => []TypeOK
  BY TypeInit, TypeStep, PTL DEF Spec

-----------------------------------------------------------------------------
(***************************************************************************)
(* What is owed.                                                           *)
(***************************************************************************)

\* Every request that was accepted is owed until it is answered: what waits in
\* the channel is owed, and nothing is owed by a runtime that ended.
OwedInv ==
  /\ \A i \in 1..Len(queue) :
       queue[i].type = "request" => [msg |-> queue[i], result |-> "none"] \in owed
  /\ server = "down" => owed = {}
  /\ Len(queue) <= QueueCap

LEMMA OwedRequest == ASSUME TypeOK, NEW m \in net, HandleRequest(m), OwedInv PROVE OwedInv'
  <1>1. m \in Requests BY RequestTypes DEF HandleRequest
  <1>2. CASE UNCHANGED <<queue, owed>> BY <1>2 DEF OwedInv, HandleRequest
  <1>3. CASE /\ queue' = Append(queue, m)
             /\ owed' = owed \cup {[msg |-> m, result |-> "none"]}
             /\ Accepts
    <2>1. \A i \in 1..Len(queue') : queue'[i] = m \/ (i \in 1..Len(queue) /\ queue'[i] = queue[i])
      BY <1>1, <1>3, QueueAfterSend DEF TypeOK
    <2>2. Len(queue') <= QueueCap
      BY <1>1, <1>3, QueueAfterSend DEF TypeOK, Accepts
    <2> QED BY <1>3, <2>1, <2>2 DEF OwedInv, HandleRequest
  <1> QED BY <1>2, <1>3 DEF HandleRequest, Reject, Ignore

LEMMA OwedFire == ASSUME TypeOK, NEW m \in net, HandleFireForget(m), OwedInv PROVE OwedInv'
  <1>1. m \in Requests /\ m.type # "request"
    BY RequestTypes DEF HandleFireForget
  <1>2. CASE queue' = queue BY <1>2 DEF OwedInv, HandleFireForget
  <1>3. CASE queue' = Append(queue, m) /\ Accepts
    <2>1. \A i \in 1..Len(queue') : queue'[i] = m \/ (i \in 1..Len(queue) /\ queue'[i] = queue[i])
      BY <1>1, <1>3, QueueAfterSend DEF TypeOK
    <2>2. Len(queue') <= QueueCap
      BY <1>1, <1>3, QueueAfterSend DEF TypeOK, Accepts
    <2> QED BY <1>1, <2>1, <2>2 DEF OwedInv, HandleFireForget
  <1> QED BY <1>2, <1>3 DEF HandleFireForget

LEMMA OwedTake == ASSUME TypeOK, Take, OwedInv PROVE OwedInv'
  <1>1. /\ Len(queue') <= QueueCap
        /\ \A i \in 1..Len(queue') : i + 1 \in 1..Len(queue) /\ queue'[i] = queue[i + 1]
    BY QueueAfterTake DEF TypeOK, Take, OwedInv
  <1> QED BY <1>1 DEF OwedInv, Take

LEMMA OwedUse ==
  ASSUME TypeOK, NEW o \in owed, NEW r \in Results \ {"none"}, Use(o, r), OwedInv
  PROVE  OwedInv'
  <1>1. \A i \in 1..Len(queue) : [msg |-> queue[i], result |-> "none"] # o
    BY DEF Use, Queued
  <1>2. server # "down" BY DEF OwedInv
  <1> QED BY <1>1, <1>2 DEF OwedInv, Use

LEMMA OwedRest ==
  ASSUME OwedInv,
         DropOffering \/ Down \/ \E o \in owed : Respond(o)
  PROVE  OwedInv'
  <1>1. CASE DropOffering
    BY <1>1, EmptyQueue DEF OwedInv, DropOffering
  <1>2. CASE Down BY <1>2 DEF OwedInv, Down
  <1>3. CASE \E o \in owed : Respond(o) BY <1>3 DEF OwedInv, Respond
  <1> QED BY <1>1, <1>2, <1>3

LEMMA OwedStep == TypeOK /\ OwedInv /\ [Next]_vars => OwedInv'
  <1> SUFFICES ASSUME TypeOK, OwedInv, [Next]_vars PROVE OwedInv' OBVIOUS
  <1>1. CASE UNCHANGED <<queue, owed, server>> BY <1>1 DEF OwedInv
  <1>2. CASE Shutdown BY <1>2 DEF OwedInv, Shutdown
  <1>3. UNCHANGED vars => UNCHANGED <<queue, owed, server>> BY DEF vars, serverVars
  <1>4. StopOffer => UNCHANGED <<queue, owed, server>> BY DEF StopOffer
  <1>5. ClientDown => UNCHANGED <<queue, owed, server>> BY DEF ClientDown, serverVars
  <1>6. ASSUME NEW c \in Calls, Call(c) \/ FireAndForget(c) \/ Cancel(c)
        PROVE UNCHANGED <<queue, owed, server>>
    BY <1>6 DEF Call, FireAndForget, Cancel, serverVars
  <1>7. ASSUME NEW m \in net, HandleResponse(m) \/ Lose(m) \/ Duplicate(m)
        PROVE UNCHANGED <<queue, owed, server>>
    BY <1>7 DEF HandleResponse, Lose, Duplicate, serverVars
  <1> QED BY Zenon, <1>1, <1>2, <1>3, <1>4, <1>5, <1>6, <1>7, Steps, OwedRequest, OwedFire,
             OwedTake, OwedUse, OwedRest

\* Whatever is dropped, stopped or shut down, a request that waits in the
\* channel is owed its response, and a runtime that ended owes none.
THEOREM OwedCorrect == Spec => []OwedInv
  <1>1. Init => OwedInv BY EmptyQueue DEF Init, OwedInv
  <1> QED BY <1>1, OwedStep, TypeCorrect, PTL DEF Spec

-----------------------------------------------------------------------------
(***************************************************************************)
(* Calls that fail.                                                        *)
(***************************************************************************)

\* pending_calls lists each call under its session id, and each that waits.
PendingInv ==
  /\ \A i \in Sids : \A c \in pending[i] : sidOf[c] = i /\ status[c] # "idle"
  /\ \A c \in Calls : status[c] = "waiting" => sidOf[c] \in Sids /\ c \in pending[sidOf[c]]

LEMMA PendingCall ==
  ASSUME TypeOK, PendingInv, NEW c \in Calls, Call(c)
  PROVE  PendingInv' /\ (FailInv => FailInv')
  <1> DEFINE st == [status EXCEPT ![c] = "waiting"]
  <1>1. /\ nextSid \in Sids
        /\ sidOf' = [sidOf EXCEPT ![c] = nextSid]
        /\ pending' = [pending EXCEPT ![nextSid] = {c}]
        /\ status' = Left(st, pending')
        /\ status[c] = "idle"
    BY DEF Call, Entered, TypeOK
  <1>2. \A d \in Calls :
          status'[d] = IF st[d] = "waiting" /\ \A i \in Sids : d \notin pending'[i]
                       THEN "failed" ELSE st[d]
    BY <1>1 DEF Left
  <1>3. \A i \in Sids : c \notin pending[i]
    BY <1>1 DEF PendingInv
  <1>4. status'[c] = "waiting" /\ sidOf'[c] = nextSid /\ c \in pending'[nextSid]
    BY <1>1, <1>2 DEF TypeOK
  <1>5. \A d \in Calls \ {c} : sidOf'[d] = sidOf[d] /\ st[d] = status[d]
    BY <1>1 DEF TypeOK
  <1>6. \A i \in Sids : i # nextSid => pending'[i] = pending[i]
    BY <1>1 DEF TypeOK
  <1>7. pending'[nextSid] = {c}
    BY <1>1 DEF TypeOK
  <1>8. \A d \in Calls \ {c} : status'[d] # status[d] =>
          status'[d] = "failed" /\ sidOf[d] = nextSid
    BY <1>2, <1>5, <1>6 DEF PendingInv
  <1>9. ASSUME NEW i \in Sids, NEW d \in pending'[i]
        PROVE sidOf'[d] = i /\ status'[d] # "idle"
    <2>1. CASE i = nextSid BY <1>4, <1>7, <2>1, <1>9
    <2>2. CASE i # nextSid
      <3>1. d \in pending[i] /\ d \in Calls \ {c} BY <1>3, <1>6, <1>9, <2>2 DEF TypeOK
      <3> QED BY <1>5, <1>8, <3>1 DEF PendingInv
    <2> QED BY <2>1, <2>2
  <1>10. ASSUME NEW d \in Calls, status'[d] = "waiting"
         PROVE sidOf'[d] \in Sids /\ d \in pending'[sidOf'[d]]
    <2>1. CASE d = c BY <1>1, <1>4, <2>1
    <2>2. CASE d # c
      <3>1. \E i \in Sids : d \in pending'[i] BY <1>2, <1>10
      <3> QED BY <1>9, <3>1
    <2> QED BY <2>1, <2>2
  <1>11. ASSUME FailInv, NEW d \in Calls, status'[d] = "failed"
         PROVE ~client' \/ \E e \in Calls : e # d /\ sidOf'[e] = sidOf'[d] /\ status'[e] # "idle"
    <2>1. d # c BY <1>4, <1>11
    <2>2. CASE status[d] = "failed"
      <3>1. client BY DEF Call
      <3>2. PICK e \in Calls : e # d /\ sidOf[e] = sidOf[d] /\ status[e] # "idle"
        BY <1>11, <2>2, <3>1 DEF FailInv
      <3>3. e # c BY <1>1, <3>2
      <3> QED BY <1>5, <1>8, <2>1, <3>2, <3>3
    <2>3. CASE status[d] # "failed"
      BY <1>4, <1>5, <1>8, <1>11, <2>1, <2>3
    <2> QED BY <2>2, <2>3
  <1>12. PendingInv' BY <1>9, <1>10 DEF PendingInv
  <1> QED BY <1>11, <1>12 DEF FailInv

LEMMA PendingResponse ==
  ASSUME TypeOK, PendingInv, NEW m \in net, HandleResponse(m)
  PROVE  PendingInv' /\ (FailInv => FailInv')
  <1>1. /\ \A d \in Calls :
             status'[d] = IF m.sid \in Sids /\ d \in pending[m.sid] /\ status[d] = "waiting"
                          THEN "answered" ELSE status[d]
        /\ \A i \in Sids : pending'[i] = IF i = m.sid THEN {} ELSE pending[i]
        /\ UNCHANGED <<sidOf, client>>
    BY DEF HandleResponse
  <1>2. PendingInv'
    BY <1>1 DEF PendingInv, TypeOK
  <1> QED BY <1>1, <1>2 DEF FailInv

LEMMA PendingDown ==
  ASSUME TypeOK, PendingInv, ClientDown PROVE PendingInv' /\ FailInv'
  <1>1. /\ \A i \in Sids : pending'[i] = {}
        /\ \A d \in Calls : status'[d] = IF status[d] = "waiting" THEN "failed" ELSE status[d]
        /\ ~client'
    BY DEF ClientDown, Left
  <1> QED BY <1>1 DEF PendingInv, FailInv

LEMMA PendingFire ==
  ASSUME TypeOK, PendingInv, NEW c \in Calls, FireAndForget(c) \/ Cancel(c)
  PROVE  PendingInv' /\ (FailInv => FailInv')
  <1>1. /\ UNCHANGED <<pending, sidOf, client>>
        /\ \A d \in Calls : status'[d] = status[d] \/ status'[d] \in {"sent", "cancelled"}
    BY DEF FireAndForget, Cancel, TypeOK
  <1>2. PendingInv' BY <1>1 DEF PendingInv, TypeOK
  <1> QED BY <1>1, <1>2 DEF FailInv

LEMMA PendingStep ==
  ASSUME TypeOK, PendingInv, [Next]_vars PROVE PendingInv' /\ (FailInv => FailInv')
  <1>1. CASE UNCHANGED clientVars
    BY <1>1 DEF PendingInv, FailInv, clientVars
  <1>2. UNCHANGED vars => UNCHANGED clientVars BY DEF vars
  <1>3. StopOffer \/ Take \/ DropOffering \/ Shutdown \/ Down => UNCHANGED clientVars
    BY DEF StopOffer, Take, DropOffering, Shutdown, Down
  <1>4. ASSUME NEW m \in net, HandleRequest(m) \/ HandleFireForget(m) \/ Lose(m) \/ Duplicate(m)
        PROVE UNCHANGED clientVars
    BY <1>4 DEF HandleRequest, HandleFireForget, Lose, Duplicate
  <1>5. ASSUME NEW o \in owed, Respond(o) \/ \E r \in Results \ {"none"} : Use(o, r)
        PROVE UNCHANGED clientVars
    BY <1>5 DEF Respond, Use
  <1> QED BY Zenon, <1>1, <1>2, <1>3, <1>4, <1>5, Steps, PendingCall, PendingResponse,
             PendingDown, PendingFire

LEMMA PendingInit == Init => PendingInv /\ FailInv
  BY DEF Init, PendingInv, FailInv

\* A call fails only because its runtime ended or a later call took its id.
THEOREM NoForeignFailure == Spec => []FailInv
  BY TypeCorrect, PendingInit, PendingStep, PTL DEF Spec

-----------------------------------------------------------------------------
(***************************************************************************)
(* No call is forgotten.                                                   *)
(***************************************************************************)

\* A datagram, or a responder, of a call that draws an id bears the id of this
\* call, and those without a response are of calls that await none.
SidInv ==
  /\ \A m \in net : /\ status[m.call] # "idle"
                    /\ m.type = "fire" => status[m.call] = "sent" /\ m.sid = 0
                    /\ m.type # "fire" => m.sid = sidOf[m.call]
  /\ \A o \in owed : /\ status[o.msg.call] # "idle"
                     /\ o.msg.sid = sidOf[o.msg.call]
                     /\ o.msg.type = "request"

\* What a waiting call still hopes for.
Hope(c) ==
  \/ \E m \in net : m.call = c /\ m.sid = sidOf[c]
  \/ server # "down" /\ \E o \in owed : o.msg.call = c

LEMMA ForgottenMeans ==
  NoneForgotten <=> \A c \in Calls : status[c] = "waiting" /\ c \notin silent => Hope(c)
  BY DEF NoneForgotten, Hope

LEMMA OwedCalls == ASSUME TypeOK, NEW o \in owed PROVE o.msg.call \in Calls
  BY DEF TypeOK, Requests

\* Steps of the client that leave what is owed alone.
LEMMA SidCall ==
  ASSUME TypeOK, SidInv, NEW c \in Calls, Call(c) PROVE SidInv'
  <1> DEFINE new == [type |-> "request", call |-> c, sid |-> nextSid, copy |-> 1]
  <1>1. /\ net' = net \cup {new}
        /\ UNCHANGED owed
        /\ \A d \in Calls : d # c => sidOf'[d] = sidOf[d]
        /\ sidOf'[c] = nextSid
        /\ status[c] = "idle"
    BY DEF Call, serverVars, TypeOK
  <1>2. \A d \in Calls : /\ (status[d] # "idle" \/ d = c) => status'[d] # "idle"
                         /\ status[d] = "sent" => status'[d] = "sent"
    BY DEF Call, Left, TypeOK
  <1>3. \A m \in net : m.call \in Calls BY MessageTypes
  <1>4. \A m \in net' : m \in net \/ (m.call = c /\ m.type = "request" /\ m.sid = nextSid)
    BY <1>1
  <1> HIDE DEF new
  <1> QED BY <1>1, <1>2, <1>3, <1>4, OwedCalls DEF SidInv

LEMMA SidFire ==
  ASSUME TypeOK, SidInv, NEW c \in Calls, FireAndForget(c) PROVE SidInv'
  <1>1. /\ \A m \in net' : m \in net \/ (m.call = c /\ m.type = "fire" /\ m.sid = 0)
        /\ UNCHANGED <<owed, sidOf>>
        /\ \A d \in Calls : d # c => status'[d] = status[d]
        /\ status'[c] = "sent"
    BY DEF FireAndForget, serverVars, TypeOK
  <1>2. \A m \in net : m.call \in Calls BY MessageTypes
  <1> QED BY <1>1, <1>2, OwedCalls DEF SidInv

\* What every step but a new call makes of the datagrams and of what is owed.
Turned ==
  /\ \A m \in net' : \/ m \in net
                     \/ \E x \in net : m.type = x.type /\ m.call = x.call /\ m.sid = x.sid
                     \/ \E x \in net : /\ x.type = "request" /\ m.type = "response"
                                       /\ m.call = x.call /\ m.sid = x.sid
                     \/ \E o \in owed : /\ m.type = "response"
                                        /\ m.call = o.msg.call /\ m.sid = o.msg.sid
  /\ \A o \in owed' : \/ \E x \in owed : o.msg = x.msg
                      \/ o.msg \in net /\ o.msg.type = "request"

LEMMA SidTurned ==
  ASSUME TypeOK, SidInv, Turned, UNCHANGED sidOf,
         \A c \in Calls : /\ status[c] # "idle" => status'[c] # "idle"
                          /\ status[c] = "sent" => status'[c] = "sent"
  PROVE  SidInv'
  <1>1. \A m \in net : m.call \in Calls BY MessageTypes
  <1>2. \A m \in net' : m.type # "fire" => m.call \in Calls /\ status[m.call] # "idle"
                                           /\ m.sid = sidOf[m.call]
    BY <1>1, OwedCalls DEF Turned, SidInv
  <1>3. \A m \in net' : m.type = "fire" => m.call \in Calls /\ status[m.call] = "sent"
                                           /\ m.sid = 0
    BY <1>1 DEF Turned, SidInv
  <1>4. \A o \in owed' : /\ o.msg.call \in Calls /\ status[o.msg.call] # "idle"
                         /\ o.msg.sid = sidOf[o.msg.call]
                         /\ o.msg.type = "request"
    BY <1>1, OwedCalls DEF Turned, SidInv
  <1> QED BY <1>2, <1>3, <1>4 DEF SidInv


\* What SidInv and Hope rest on.
ForgetInv == TypeOK /\ PendingInv /\ OwedInv /\ SidInv /\ NoneForgotten

\* A call keeps its hope when the step keeps, or answers, what it hoped for.
LEMMA HopeKept ==
  ASSUME ForgetInv, UNCHANGED sidOf, silent \subseteq silent',
         \A c \in Calls : status'[c] = "waiting" => status[c] = "waiting",
         \A c \in Calls : status'[c] = "waiting" /\ c \notin silent' /\ Hope(c) => Hope(c)'
  PROVE  NoneForgotten'
  <1>1. \A c \in Calls : status'[c] = "waiting" /\ c \notin silent' => Hope(c)'
    BY ForgottenMeans DEF ForgetInv
  <1> QED BY <1>1 DEF NoneForgotten, Hope

LEMMA HopeCall ==
  ASSUME ForgetInv, NEW c \in Calls, Call(c) PROVE NoneForgotten'
  <1> DEFINE new == [type |-> "request", call |-> c, sid |-> nextSid, copy |-> 1]
  <1>1. /\ net' = net \cup {new}
        /\ UNCHANGED <<owed, server, silent>>
        /\ \A d \in Calls : d # c => sidOf'[d] = sidOf[d]
        /\ sidOf'[c] = nextSid
        /\ \A d \in Calls : d # c /\ status'[d] = "waiting" => status[d] = "waiting"
    BY DEF Call, Left, serverVars, TypeOK, ForgetInv
  <1>2. new \in net' /\ new.call = c /\ new.sid = nextSid BY <1>1
  <1> HIDE DEF new
  <1>3. ASSUME NEW d \in Calls, status'[d] = "waiting", d \notin silent'
        PROVE  Hope(d)'
    <2>1. CASE d = c BY <1>1, <1>2, <2>1 DEF Hope
    <2>2. CASE d # c
      <3>1. Hope(d) BY <1>1, <1>3, <2>2, ForgottenMeans DEF ForgetInv
      <3> QED BY <1>1, <2>2, <3>1 DEF Hope
    <2> QED BY <2>1, <2>2
  <1> QED BY <1>3 DEF NoneForgotten, Hope

LEMMA HopeFire ==
  ASSUME ForgetInv, NEW c \in Calls, FireAndForget(c) \/ Cancel(c) PROVE NoneForgotten'
  <1>1. /\ net \subseteq net'
        /\ UNCHANGED <<owed, server, silent, sidOf>>
        /\ \A d \in Calls : status'[d] = "waiting" => status[d] = "waiting"
    BY DEF FireAndForget, Cancel, serverVars, TypeOK, ForgetInv
  <1>2. \A d \in Calls : Hope(d) => Hope(d)' BY <1>1 DEF Hope
  <1> QED BY <1>1, <1>2, HopeKept

\* A response ends the call that it is for, whose id it bears.
LEMMA HopeResponse ==
  ASSUME ForgetInv, NEW m \in net, HandleResponse(m)
  PROVE  Turned /\ NoneForgotten'
  <1>1. /\ net' = net \ {m} /\ m.type = "response"
        /\ UNCHANGED <<owed, server, silent, sidOf>>
        /\ \A d \in Calls : status'[d] = "waiting" => status[d] = "waiting"
        /\ \A d \in Calls : m.sid \in Sids /\ d \in pending[m.sid] => status'[d] # "waiting"
    BY DEF HandleResponse, serverVars, TypeOK, ForgetInv
  <1>2. Turned BY <1>1 DEF Turned
  <1>3. ASSUME NEW d \in Calls, status'[d] = "waiting", Hope(d)
        PROVE  Hope(d)'
    <2>1. sidOf[d] \in Sids /\ d \in pending[sidOf[d]]
      BY <1>1, <1>3 DEF ForgetInv, PendingInv
    <2>2. m.sid # sidOf[d] BY <1>1, <1>3, <2>1
    <2> QED BY <1>1, <1>3, <2>2 DEF Hope
  <1> QED BY <1>1, <1>2, <1>3, HopeKept

LEMMA HopeDown ==
  ASSUME ForgetInv, ClientDown PROVE Turned /\ NoneForgotten'
  <1>1. /\ \A c \in Calls : status'[c] # "waiting"
        /\ UNCHANGED <<net, owed>>
    BY DEF ClientDown, Left, serverVars
  <1> QED BY <1>1 DEF Turned, NoneForgotten

\* A request is answered, owed its answer, or leaves no trace.
LEMMA HopeRequest ==
  ASSUME ForgetInv, NEW m \in net, HandleRequest(m) PROVE Turned /\ NoneForgotten'
  <1>1. UNCHANGED <<status, sidOf, server>> /\ m.type = "request" /\ server = "up"
    BY DEF HandleRequest, clientVars
  <1>2. ASSUME NEW code, Reject(m, code)
        PROVE  Turned /\ silent \subseteq silent'
               /\ \A c \in Calls : c \notin silent' /\ Hope(c) => Hope(c)'
    <2> DEFINE sent == Reply(m, code)
    <2>1. sent.type = "response" /\ sent.call = m.call /\ sent.sid = m.sid BY DEF Reply
    <2>2. net' = (net \ {m}) \cup {sent} /\ UNCHANGED <<owed, silent>> BY <1>2 DEF Reject
    <2> HIDE DEF sent
    <2> QED BY <1>1, <2>1, <2>2 DEF Turned, Hope
  <1>3. CASE Ignore(m)
    <2>1. net' = net \ {m} /\ silent' = silent \cup {m.call} /\ UNCHANGED owed
      BY <1>3 DEF Ignore
    <2>2. Turned BY <2>1 DEF Turned
    <2>3. \A c \in Calls : c \notin silent' /\ Hope(c) => Hope(c)' BY <1>1, <2>1 DEF Hope
    <2> QED BY <1>1, <2>1, <2>2, <2>3, HopeKept
  <1>4. CASE /\ net' = net \ {m}
             /\ owed' = owed \cup {[msg |-> m, result |-> "none"]}
             /\ UNCHANGED silent
    <2> DEFINE entry == [msg |-> m, result |-> "none"]
    <2>1. entry.msg = m OBVIOUS
    <2>2. owed' = owed \cup {entry} BY <1>4
    <2> HIDE DEF entry
    <2>3. Turned BY <1>1, <1>4, <2>1, <2>2 DEF Turned
    <2>4. \A c \in Calls : Hope(c) => Hope(c)' BY <1>1, <1>4, <2>1, <2>2 DEF Hope
    <2> QED BY <1>1, <1>4, <2>3, <2>4, HopeKept
  <1>5. ASSUME NEW code, Reject(m, code) PROVE Turned /\ NoneForgotten'
    BY <1>1, <1>2, <1>5, HopeKept
  <1> QED BY <1>3, <1>4, <1>5 DEF HandleRequest

\* A fire-and-forget call does not wait.
LEMMA HopeFireForget ==
  ASSUME ForgetInv, NEW m \in net, HandleFireForget(m) PROVE Turned /\ NoneForgotten'
  <1>1. /\ net' = net \ {m} /\ m.type = "fire"
        /\ UNCHANGED <<status, sidOf, owed, server, silent>>
    BY DEF HandleFireForget, clientVars
  <1>2. Turned BY <1>1 DEF Turned
  <1>3. status[m.call] = "sent" BY <1>1 DEF ForgetInv, SidInv
  <1>4. \A c \in Calls : status[c] = "waiting" /\ Hope(c) => Hope(c)'
    BY <1>1, <1>3 DEF Hope
  <1> QED BY <1>1, <1>2, <1>4, HopeKept

LEMMA HopeRespond ==
  ASSUME ForgetInv, NEW o \in owed, Respond(o) PROVE Turned /\ NoneForgotten'
  <1> DEFINE sent == Reply(o.msg, CodeOf(o.result))
  <1>1. sent.type = "response" /\ sent.call = o.msg.call /\ sent.sid = o.msg.sid BY DEF Reply
  <1>2. /\ net' = net \cup {sent} /\ owed' = owed \ {o}
        /\ UNCHANGED <<status, sidOf, server, silent>>
    BY DEF Respond, clientVars
  <1> HIDE DEF sent
  <1>3. Turned BY <1>1, <1>2 DEF Turned
  <1>4. o.msg.sid = sidOf[o.msg.call] BY DEF ForgetInv, SidInv
  <1>5. \A c \in Calls : Hope(c) => Hope(c)' BY <1>1, <1>2, <1>4 DEF Hope
  <1> QED BY <1>2, <1>3, <1>5, HopeKept

LEMMA HopeUse ==
  ASSUME ForgetInv, NEW o \in owed, NEW r \in Results \ {"none"}, Use(o, r)
  PROVE  Turned /\ NoneForgotten'
  <1> DEFINE used == [o EXCEPT !.result = r]
  <1>1. used.msg = o.msg BY DEF ForgetInv, TypeOK
  <1>2. /\ owed' = (owed \ {o}) \cup {used}
        /\ UNCHANGED <<net, status, sidOf, server, silent>>
    BY DEF Use, clientVars
  <1> HIDE DEF used
  <1>3. Turned BY <1>1, <1>2 DEF Turned
  <1>4. \A c \in Calls : Hope(c) => Hope(c)' BY <1>1, <1>2 DEF Hope
  <1> QED BY <1>2, <1>3, <1>4, HopeKept

\* The responders that are dropped with the channel are owed all the same.
LEMMA HopeDrop ==
  ASSUME ForgetInv, DropOffering PROVE Turned /\ NoneForgotten'
  <1> DEFINE left(x) == [x EXCEPT !.result = IF Queued(x.msg) THEN "dropped" ELSE @]
  <1>1. \A x \in owed : left(x).msg = x.msg BY DEF ForgetInv, TypeOK
  <1>2. /\ owed' = {left(x) : x \in owed}
        /\ UNCHANGED <<net, status, sidOf, server, silent>>
    BY DEF DropOffering, clientVars
  <1> HIDE DEF left
  <1>3. Turned BY <1>1, <1>2 DEF Turned
  <1>4. \A c \in Calls : Hope(c) => Hope(c)' BY <1>1, <1>2 DEF Hope
  <1> QED BY <1>2, <1>3, <1>4, HopeKept

LEMMA HopeLose ==
  ASSUME ForgetInv, NEW m \in net, Lose(m) PROVE Turned /\ NoneForgotten'
  <1>1. /\ net' = net \ {m} /\ silent' = silent \cup {m.call}
        /\ UNCHANGED <<status, sidOf, owed, server>>
    BY DEF Lose, clientVars, serverVars
  <1>2. Turned BY <1>1 DEF Turned
  <1>3. \A c \in Calls : c \notin silent' /\ Hope(c) => Hope(c)' BY <1>1 DEF Hope
  <1> QED BY <1>1, <1>2, <1>3, HopeKept

LEMMA HopeDuplicate ==
  ASSUME ForgetInv, NEW m \in net, Duplicate(m) PROVE Turned /\ NoneForgotten'
  <1> DEFINE twin(i) == [m EXCEPT !.copy = i]
  <1>1. \A i \in {2, 3} : twin(i).type = m.type /\ twin(i).call = m.call /\ twin(i).sid = m.sid
    <2>1. m \in Requests \/ m \in Responses BY DEF ForgetInv, TypeOK
    <2> QED BY <2>1 DEF Requests, Responses
  <1>2. /\ net' = (net \ {m}) \cup {twin(i) : i \in {2, 3}}
        /\ UNCHANGED <<status, sidOf, owed, server, silent>>
    BY DEF Duplicate, clientVars, serverVars
  <1> HIDE DEF twin
  <1>3. Turned BY <1>1, <1>2 DEF Turned
  <1>4. twin(2) \in net' BY <1>2
  <1>5. \A c \in Calls : Hope(c) => Hope(c)' BY <1>1, <1>2, <1>4 DEF Hope
  <1> QED BY <1>2, <1>3, <1>5, HopeKept

\* The loop ends only when nothing is owed.
LEMMA HopeRest ==
  ASSUME ForgetInv, UNCHANGED vars \/ StopOffer \/ Take \/ Shutdown \/ Down
  PROVE  Turned /\ NoneForgotten'
  <1>1. /\ UNCHANGED <<net, owed, status, sidOf, silent>>
        /\ server' # "down" \/ server' = server \/ owed = {}
    BY DEF vars, clientVars, serverVars, StopOffer, Take, Shutdown, Down
  <1>2. Turned BY <1>1 DEF Turned
  <1>3. \A c \in Calls : Hope(c) => Hope(c)' BY <1>1 DEF Hope
  <1> QED BY <1>1, <1>2, <1>3, HopeKept

\* A call that was made, or that awaits nothing, stays so.
LEMMA StatusKept ==
  ASSUME TypeOK, [Next]_vars, ~\E c \in Calls : Call(c) \/ FireAndForget(c)
  PROVE  /\ UNCHANGED sidOf
         /\ \A c \in Calls : /\ status[c] # "idle" => status'[c] # "idle"
                             /\ status[c] = "sent" => status'[c] = "sent"
  <1>1. CASE UNCHANGED <<status, sidOf>> BY <1>1
  <1>2. UNCHANGED vars \/ StopOffer \/ Take \/ DropOffering \/ Shutdown \/ Down
          => UNCHANGED <<status, sidOf>>
    BY DEF vars, clientVars, StopOffer, Take, DropOffering, Shutdown, Down
  <1>3. ASSUME NEW m \in net, HandleRequest(m) \/ HandleFireForget(m) \/ Lose(m) \/ Duplicate(m)
        PROVE UNCHANGED <<status, sidOf>>
    BY <1>3 DEF HandleRequest, HandleFireForget, Lose, Duplicate, clientVars
  <1>4. ASSUME NEW o \in owed, Respond(o) \/ \E r \in Results \ {"none"} : Use(o, r)
        PROVE UNCHANGED <<status, sidOf>>
    BY <1>4 DEF Respond, Use, clientVars
  <1> DEFINE Kept == /\ UNCHANGED sidOf
                     /\ \A c \in Calls : /\ status[c] # "idle" => status'[c] # "idle"
                                         /\ status[c] = "sent" => status'[c] = "sent"
  <1>5. ClientDown => Kept BY DEF ClientDown, Left
  <1>6. ASSUME NEW m \in net, HandleResponse(m) PROVE Kept BY <1>6 DEF HandleResponse
  <1>7. ASSUME NEW c \in Calls, Cancel(c) PROVE Kept BY <1>7 DEF Cancel, TypeOK
  <1> QED BY Zenon, <1>1, <1>2, <1>3, <1>4, <1>5, <1>6, <1>7, Steps

LEMMA ForgetStep == ForgetInv /\ [Next]_vars => SidInv' /\ NoneForgotten'
  <1> SUFFICES ASSUME ForgetInv, [Next]_vars PROVE SidInv' /\ NoneForgotten' OBVIOUS
  <1>1. TypeOK /\ SidInv BY DEF ForgetInv
  <1>2. ASSUME NEW c \in Calls, Call(c) \/ FireAndForget(c) PROVE SidInv' /\ NoneForgotten'
    BY <1>1, <1>2, SidCall, SidFire, HopeCall, HopeFire
  <1>3. CASE ~\E c \in Calls : Call(c) \/ FireAndForget(c)
    <2>1. ASSUME NEW c \in Calls, Cancel(c) PROVE Turned /\ NoneForgotten'
      <3>1. Turned BY <2>1 DEF Cancel, serverVars, Turned
      <3> QED BY <2>1, <3>1, HopeFire
    <2>2. Turned /\ NoneForgotten'
      BY Zenon, <1>3, <2>1, Steps, HopeResponse, HopeDown, HopeRequest, HopeFireForget,
         HopeRespond, HopeUse, HopeDrop, HopeLose, HopeDuplicate, HopeRest
    <2>3. SidInv' BY Zenon, <1>1, <1>3, <2>2, StatusKept, SidTurned
    <2> QED BY <2>2, <2>3
  <1> QED BY Zenon, <1>2, <1>3

LEMMA ForgetCorrect == Spec => [](SidInv /\ NoneForgotten)
  <1>1. Init => SidInv /\ NoneForgotten BY DEF Init, SidInv, NoneForgotten
  <1>2. TypeOK /\ PendingInv /\ OwedInv /\ SidInv /\ NoneForgotten /\ [Next]_vars
          => SidInv' /\ NoneForgotten'
    BY ForgetStep DEF ForgetInv
  <1>3. TypeOK /\ PendingInv /\ [Next]_vars => PendingInv' BY PendingStep
  <1> QED BY <1>1, <1>2, <1>3, TypeCorrect, PendingInit, OwedCorrect, PTL DEF Spec

LEMMA SidsCorrect == Spec => []SidInv
  BY ForgetCorrect, PTL

\* For a call that waits something is always under way, or owed, that can only
\* become the response that ends it, under every fault but the loss of it.
THEOREM NoCallForgotten == Spec => []NoneForgotten
  BY ForgetCorrect, PTL

-----------------------------------------------------------------------------
(***************************************************************************)
(* Session ids.                                                            *)
(***************************************************************************)

\* No session id is drawn twice in the life of the client runtime.
FewCalls == IsFiniteSet(Calls) /\ Cardinality(Calls) <= MaxSid

\* The calls that have drawn a session id.
Drawn == {c \in Calls : sidOf[c] # 0}

\* Ids are drawn in order, one for each call, and the next one is above them.
DrawInv ==
  /\ nextSid = AfterSid(Cardinality(Drawn))
  /\ \A c \in Calls : status[c] = "idle" => c \notin Drawn
  /\ \A c \in Drawn : sidOf[c] <= Cardinality(Drawn)
  /\ \A c, d \in Drawn : sidOf[c] = sidOf[d] => c = d

LEMMA DrawnIsFew ==
  ASSUME FewCalls
  PROVE  IsFiniteSet(Drawn) /\ Cardinality(Drawn) \in Nat /\ Cardinality(Drawn) <= MaxSid
  <1>1. Drawn \in SUBSET Calls BY DEF Drawn
  <1>2. /\ IsFiniteSet(Drawn) /\ Cardinality(Drawn) <= Cardinality(Calls)
    BY <1>1, FS_Subset DEF FewCalls
  <1>3. Cardinality(Drawn) \in Nat /\ Cardinality(Calls) \in Nat
    BY <1>2, FS_CardinalityType DEF FewCalls
  <1> QED BY <1>2, <1>3 DEF FewCalls

\* A call that is made finds an id above all that were drawn.
LEMMA DrawCall ==
  ASSUME FewCalls, TypeOK, DrawInv, NEW c \in Calls, Call(c)
  PROVE  /\ nextSid = Cardinality(Drawn) + 1
         /\ Drawn' = Drawn \cup {c} /\ c \notin Drawn
         /\ Cardinality(Drawn') = Cardinality(Drawn) + 1
         /\ DrawInv'
  <1> DEFINE n == Cardinality(Drawn)
  <1>1. /\ status[c] = "idle" /\ nextSid \in Sids
        /\ sidOf' = [sidOf EXCEPT ![c] = nextSid]
        /\ nextSid' = AfterSid(nextSid)
    BY DEF Call, TypeOK
  <1>2. c \notin Drawn BY <1>1 DEF DrawInv
  <1>3. Drawn' = Drawn \cup {c} BY <1>1 DEF Drawn, TypeOK, Sids
  <1>4. Cardinality(Drawn') = n + 1
    BY <1>2, <1>3, DrawnIsFew, FS_AddElement
  <1>5. n \in Nat /\ n + 1 <= MaxSid
    <2>1. Drawn' \in SUBSET Calls BY <1>3 DEF Drawn
    <2>2. Cardinality(Drawn') <= Cardinality(Calls) /\ Cardinality(Calls) \in Nat
      BY <2>1, FS_Subset, FS_CardinalityType DEF FewCalls
    <2> QED BY <1>4, <2>2, DrawnIsFew DEF FewCalls
  <1>6. nextSid = n + 1 BY <1>5 DEF DrawInv, AfterSid
  <1> HIDE DEF n
  <1>7. sidOf'[c] = n + 1 /\ \A d \in Calls : d # c => sidOf'[d] = sidOf[d]
    BY <1>1, <1>6 DEF TypeOK
  <1>8. \A d \in Drawn : d \in Calls /\ sidOf[d] \in Nat /\ sidOf[d] <= n
    <2>1. \A d \in Drawn : d \in Calls BY DEF Drawn
    <2>2. \A d \in Calls : sidOf[d] \in Nat BY DEF TypeOK
    <2>3. \A d \in Drawn : sidOf[d] <= n BY DEF DrawInv, n
    <2> QED BY <2>1, <2>2, <2>3
  <1>9. nextSid' = AfterSid(Cardinality(Drawn'))
    BY <1>1, <1>4, <1>6
  <1>10. \A d \in Drawn' : sidOf'[d] <= Cardinality(Drawn')
    BY <1>2, <1>3, <1>4, <1>5, <1>7, <1>8
  <1>11. \A d, e \in Drawn' : sidOf'[d] = sidOf'[e] => d = e
    <2>1. \A d, e \in Drawn : sidOf[d] = sidOf[e] => d = e BY DEF DrawInv
    <2> QED BY <1>2, <1>3, <1>5, <1>7, <1>8, <2>1
  <1>12. \A d \in Calls : status'[d] = "idle" => d \notin Drawn'
    <2>1. \A d \in Calls : status'[d] = "idle" => status[d] = "idle" /\ d # c
      BY DEF Call, Left, TypeOK
    <2> QED BY <1>3, <2>1 DEF DrawInv
  <1> QED BY <1>2, <1>3, <1>4, <1>6, <1>9, <1>10, <1>11, <1>12 DEF DrawInv, n

LEMMA DrawStep == ASSUME FewCalls, TypeOK, DrawInv, [Next]_vars PROVE DrawInv'
  <1>1. ASSUME UNCHANGED <<sidOf, nextSid>>,
               \A c \in Calls : status[c] # "idle" => status'[c] # "idle"
        PROVE  DrawInv'
    <2>1. Drawn' = Drawn BY <1>1 DEF Drawn
    <2> QED BY <1>1, <2>1 DEF DrawInv
  <1>2. ASSUME NEW c \in Calls, FireAndForget(c) PROVE DrawInv'
    BY <1>1, <1>2 DEF FireAndForget, TypeOK
  <1>3. CASE ~\E c \in Calls : Call(c) \/ FireAndForget(c)
    <2>1. \A c \in Calls : status[c] # "idle" => status'[c] # "idle"
      BY <1>3, StatusKept
    <2>2. UNCHANGED sidOf BY <1>3, StatusKept
    <2>3. CASE UNCHANGED clientVars BY <1>1, <2>1, <2>3 DEF clientVars
    <2>4. CASE UNCHANGED nextSid BY <1>1, <2>1, <2>2, <2>4
    <2>5. UNCHANGED vars \/ StopOffer \/ Take \/ DropOffering \/ Shutdown \/ Down
            => UNCHANGED clientVars
      BY DEF vars, StopOffer, Take, DropOffering, Shutdown, Down
    <2>6. ASSUME NEW m \in net,
                 HandleRequest(m) \/ HandleFireForget(m) \/ Lose(m) \/ Duplicate(m)
          PROVE UNCHANGED clientVars
      BY <2>6 DEF HandleRequest, HandleFireForget, Lose, Duplicate
    <2>7. ASSUME NEW o \in owed, Respond(o) \/ \E r \in Results \ {"none"} : Use(o, r)
          PROVE UNCHANGED clientVars
      BY <2>7 DEF Respond, Use
    <2>8. ASSUME NEW c \in Calls, Cancel(c) PROVE UNCHANGED nextSid BY <2>8 DEF Cancel
    <2>9. ASSUME NEW m \in net, HandleResponse(m) PROVE UNCHANGED nextSid
      BY <2>9 DEF HandleResponse
    <2>10. ClientDown => UNCHANGED nextSid BY DEF ClientDown
    <2> QED BY Zenon, <1>3, <2>3, <2>4, <2>5, <2>6, <2>7, <2>8, <2>9, <2>10, Steps
  <1> QED BY Zenon, <1>2, <1>3, DrawCall

LEMMA DrawInit == Init => DrawInv
  <1> SUFFICES ASSUME Init PROVE DrawInv OBVIOUS
  <1>1. Drawn = {} BY DEF Init, Drawn
  <1>2. Cardinality(Drawn) = 0 BY <1>1, FS_EmptySet
  <1> QED BY <1>1, <1>2 DEF Init, DrawInv, AfterSid

\* The id that a call draws is not under way: it was kept free, or it was
\* never drawn before.
LEMMA DrawnFresh ==
  ASSUME TypeOK, SidInv, "reuse" \notin Faults \/ (FewCalls /\ DrawInv),
         NEW c \in Calls, Call(c)
  PROVE  ~UnderWay(nextSid)
  <1>1. CASE "reuse" \notin Faults BY <1>1 DEF Call
  <1>2. CASE FewCalls /\ DrawInv
    <2>1. nextSid = Cardinality(Drawn) + 1 BY <1>2, DrawCall
    <2>2. Cardinality(Drawn) \in Nat BY <1>2, DrawnIsFew
    <2>3. \A d \in Calls : sidOf[d] # nextSid
      <3> SUFFICES ASSUME NEW d \in Calls PROVE sidOf[d] # nextSid OBVIOUS
      <3>1. CASE d \in Drawn
        <4>1. sidOf[d] <= Cardinality(Drawn) BY <1>2, <3>1 DEF DrawInv
        <4>2. sidOf[d] \in Nat BY DEF TypeOK
        <4> QED BY <2>1, <2>2, <4>1, <4>2
      <3>2. CASE d \notin Drawn
        <4>1. sidOf[d] = 0 BY <3>2 DEF Drawn
        <4> QED BY <2>1, <2>2, <4>1
      <3> QED BY <3>1, <3>2
    <2>4. nextSid # 0 BY <2>1, <2>2
    <2>5. \A o \in owed : o.msg.sid # nextSid BY <2>3, OwedCalls DEF SidInv
    <2>6. ASSUME NEW m \in net PROVE m.sid # nextSid
      <3>1. CASE m.type = "fire" BY <2>4, <2>6, <3>1 DEF SidInv
      <3>2. CASE m.type # "fire" BY <2>3, <3>2, MessageTypes DEF SidInv
      <3> QED BY <3>1, <3>2
    <2> QED BY <2>5, <2>6 DEF UnderWay
  <1> QED BY <1>1, <1>2

-----------------------------------------------------------------------------
(***************************************************************************)
(* Answers.                                                                *)
(***************************************************************************)

\* The application gave the call what the code of its response says.
Justified(c, code) ==
  /\ code = "ok" => <<c, "ok">> \in replied
  /\ code = "app_error" => <<c, "error">> \in replied
  /\ code = "not_ok" => \E r \in {"error", "dropped"} : <<c, r>> \in replied

\* Whatever bears the session id of a listed call belongs to this call.
MatchInv ==
  \A i \in Sids : \A c \in pending[i] :
    /\ \A m \in net : m.sid = i => m.call = c
    /\ \A o \in owed : o.msg.sid = i => o.msg.call = c

\* What is sent or about to be sent says what the application did.
ReplyInv ==
  /\ \A m \in net : m.type = "response" => Justified(m.call, m.code)
  /\ \A o \in owed : /\ o.msg.type # "response"
                     /\ o.result # "none" => <<o.msg.call, o.result>> \in replied

AnswerIInv == MatchInv /\ ReplyInv /\ AnswerInv

LEMMA AnswerMeans ==
  ASSUME AnswerInv, NEW c \in Calls, NEW a \in answer[c]
  PROVE  a.call = c /\ Justified(c, a.code)
  BY DEF AnswerInv, Justified

\* The part about answers needs no step when no answer is added.
LEMMA AnswerKept ==
  ASSUME AnswerInv, UNCHANGED answer, replied \subseteq replied' PROVE AnswerInv'
  BY DEF AnswerInv

\* Codes that say nothing of the application need no reply of its own.
LEMMA OwnCodes ==
  ASSUME NEW c, NEW code \in {"unknown_service", "malformed", "wrong_version"}
  PROVE  Justified(c, code)
  BY DEF Justified

LEMMA AnswerCall ==
  ASSUME TypeOK, AnswerIInv, NEW c \in Calls, Call(c), ~UnderWay(nextSid)
  PROVE  AnswerIInv'
  <1> DEFINE new == [type |-> "request", call |-> c, sid |-> nextSid, copy |-> 1]
  <1>1. /\ net' = net \cup {new}
        /\ nextSid \in Sids
        /\ pending' = [pending EXCEPT ![nextSid] = {c}]
        /\ ~UnderWay(nextSid)
        /\ UNCHANGED <<owed, replied, answer>>
    BY DEF TypeOK, Call, Entered, serverVars
  <1>2. MatchInv'
    <2> SUFFICES ASSUME NEW i \in Sids, NEW d \in pending'[i]
                 PROVE  /\ \A m \in net' : m.sid = i => m.call = d
                        /\ \A o \in owed' : o.msg.sid = i => o.msg.call = d
      BY DEF MatchInv
    <2>1. CASE i = nextSid
      <3>1. d = c BY <1>1, <2>1 DEF TypeOK
      <3>2. \A m \in net : m.sid # i BY <1>1, <2>1 DEF UnderWay
      <3>3. \A o \in owed : o.msg.sid # i BY <1>1, <2>1 DEF UnderWay
      <3> QED BY <1>1, <3>1, <3>2, <3>3
    <2>2. CASE i # nextSid
      <3>1. d \in pending[i] BY <1>1, <2>2 DEF TypeOK
      <3> QED BY <1>1, <2>2, <3>1 DEF AnswerIInv, MatchInv
    <2> QED BY <2>1, <2>2
  <1>3. ReplyInv' BY <1>1 DEF AnswerIInv, ReplyInv, Justified
  <1> QED BY <1>1, <1>2, <1>3, AnswerKept DEF AnswerIInv

LEMMA AnswerFire ==
  ASSUME AnswerIInv, NEW c \in Calls, FireAndForget(c) PROVE AnswerIInv'
  <1>1. /\ net' = net \cup {[type |-> "fire", call |-> c, sid |-> 0, copy |-> 1]}
        /\ UNCHANGED <<pending, owed, replied, answer>>
    BY DEF FireAndForget, serverVars
  <1>2. MatchInv' BY <1>1 DEF AnswerIInv, MatchInv, Sids
  <1>3. ReplyInv' BY <1>1 DEF AnswerIInv, ReplyInv, Justified
  <1> QED BY <1>1, <1>2, <1>3, AnswerKept DEF AnswerIInv

LEMMA AnswerResponse ==
  ASSUME TypeOK, AnswerIInv, NEW m \in net, HandleResponse(m) PROVE AnswerIInv'
  <1>1. /\ net' \subseteq net
        /\ \A i \in Sids : pending'[i] \subseteq pending[i]
        /\ UNCHANGED <<owed, replied>>
        /\ m.type = "response"
    BY DEF HandleResponse, serverVars
  <1>2. MatchInv' BY <1>1 DEF AnswerIInv, MatchInv
  <1>3. ReplyInv' BY <1>1 DEF AnswerIInv, ReplyInv, Justified
  <1>4. ASSUME NEW c \in Calls, NEW a \in answer'[c]
        PROVE a.call = c /\ Justified(c, a.code)
    <2>1. CASE a \in answer[c] BY <2>1, AnswerMeans DEF AnswerIInv
    <2>2. CASE a \notin answer[c]
      <3>1. /\ m.sid \in Sids /\ c \in pending[m.sid]
            /\ a = [call |-> m.call, code |-> m.code]
        BY <1>4, <2>2 DEF HandleResponse
      <3>2. m.call = c BY <3>1 DEF AnswerIInv, MatchInv
      <3>3. Justified(m.call, m.code) BY <1>1 DEF AnswerIInv, ReplyInv
      <3> QED BY <3>1, <3>2, <3>3
    <2> QED BY <2>1, <2>2
  <1>5. AnswerInv' BY <1>1, <1>4 DEF AnswerInv, Justified
  <1> QED BY <1>2, <1>3, <1>5 DEF AnswerIInv

LEMMA AnswerRequest ==
  ASSUME AnswerIInv, NEW m \in net, HandleRequest(m) PROVE AnswerIInv'
  <1>1. UNCHANGED <<pending, replied, answer>> /\ m.type = "request"
    BY DEF HandleRequest, clientVars
  <1>2. ASSUME NEW code \in {"unknown_service", "malformed", "wrong_version"}, Reject(m, code)
        PROVE MatchInv' /\ ReplyInv'
    <2>1. net' = (net \ {m}) \cup {Reply(m, code)} /\ UNCHANGED owed
      BY <1>2 DEF Reject
    <2>2. /\ Reply(m, code).type = "response"
          /\ Reply(m, code).call = m.call /\ Reply(m, code).sid = m.sid
          /\ Reply(m, code).code = code
      BY DEF Reply
    <2>3. MatchInv' BY <1>1, <2>1, <2>2 DEF AnswerIInv, MatchInv
    <2>4. Justified(m.call, code) BY OwnCodes
    <2>5. ReplyInv' BY <1>1, <2>1, <2>2, <2>4 DEF AnswerIInv, ReplyInv, Justified
    <2> QED BY <2>3, <2>5
  <1>3. CASE Ignore(m)
    <2>1. net' \subseteq net /\ UNCHANGED owed BY <1>3 DEF Ignore
    <2>2. MatchInv' BY <1>1, <2>1 DEF AnswerIInv, MatchInv
    <2> QED BY <1>1, <2>1, <2>2, AnswerKept DEF AnswerIInv, ReplyInv, Justified
  <1>4. CASE /\ net' = net \ {m}
             /\ owed' = owed \cup {[msg |-> m, result |-> "none"]}
    <2>1. MatchInv' BY <1>1, <1>4 DEF AnswerIInv, MatchInv
    <2>2. ReplyInv' BY <1>1, <1>4 DEF AnswerIInv, ReplyInv, Justified
    <2> QED BY <1>1, <2>1, <2>2, AnswerKept DEF AnswerIInv
  <1>5. AnswerInv' BY <1>1, AnswerKept DEF AnswerIInv
  <1> QED BY <1>2, <1>3, <1>4, <1>5 DEF HandleRequest, AnswerIInv

LEMMA AnswerRespond ==
  ASSUME TypeOK, AnswerIInv, NEW o \in owed, Respond(o) PROVE AnswerIInv'
  <1> DEFINE sent == Reply(o.msg, CodeOf(o.result))
  <1>1. /\ net' = net \cup {sent}
        /\ owed' \subseteq owed
        /\ UNCHANGED <<pending, replied, answer>>
        /\ <<o.msg.call, o.result>> \in replied
    BY DEF Respond, clientVars, AnswerIInv, ReplyInv
  <1>2. /\ sent.type = "response" /\ sent.call = o.msg.call /\ sent.sid = o.msg.sid
        /\ sent.code = CodeOf(o.result)
    BY DEF Reply
  <1> HIDE DEF sent
  <1>3. MatchInv' BY <1>1, <1>2 DEF AnswerIInv, MatchInv
  <1>4. Justified(o.msg.call, CodeOf(o.result))
    <2>1. o.result = "ok" \/ o.result = "error" \/ o.result = "dropped"
      BY DEF TypeOK, Results, Respond
    <2> QED BY <1>1, <2>1 DEF Justified, CodeOf
  <1>5. ReplyInv' BY <1>1, <1>2, <1>4 DEF AnswerIInv, ReplyInv, Justified
  <1> QED BY <1>1, <1>3, <1>5, AnswerKept DEF AnswerIInv

LEMMA AnswerUse ==
  ASSUME TypeOK, AnswerIInv, NEW o \in owed, NEW r \in Results \ {"none"}, Use(o, r)
  PROVE  AnswerIInv'
  <1> DEFINE used == [o EXCEPT !.result = r]
  <1>1. o \in [msg : Requests, result : Results] BY DEF TypeOK
  <1>2. used.msg = o.msg /\ used.result = r BY <1>1
  <1>3. /\ owed' = (owed \ {o}) \cup {used}
        /\ replied' = replied \cup {<<o.msg.call, r>>}
        /\ UNCHANGED <<net, pending, answer>>
    BY DEF Use, clientVars
  <1> HIDE DEF used
  <1>4. MatchInv' BY <1>2, <1>3 DEF AnswerIInv, MatchInv
  <1>5. ReplyInv' BY <1>2, <1>3 DEF AnswerIInv, ReplyInv, Justified
  <1> QED BY <1>3, <1>4, <1>5, AnswerKept DEF AnswerIInv

LEMMA AnswerDrop ==
  ASSUME TypeOK, AnswerIInv, DropOffering PROVE AnswerIInv'
  <1>1. /\ UNCHANGED <<net, pending, answer>>
        /\ replied \subseteq replied'
    BY DEF DropOffering, clientVars
  <1>2. \A o \in owed' : \E x \in owed :
          /\ o.msg = x.msg
          /\ IF Queued(x.msg) THEN o.result = "dropped" ELSE o.result = x.result
    <2> DEFINE left(x) == [x EXCEPT !.result = IF Queued(x.msg) THEN "dropped" ELSE @]
    <2>1. ASSUME NEW x \in owed
          PROVE /\ left(x).msg = x.msg
                /\ IF Queued(x.msg) THEN left(x).result = "dropped"
                   ELSE left(x).result = x.result
      <3>1. x \in [msg : Requests, result : Results] BY DEF TypeOK
      <3> QED BY <3>1
    <2>2. owed' = {left(x) : x \in owed} BY DEF DropOffering
    <2> HIDE DEF left
    <2> QED BY <2>1, <2>2
  <1>3. \A x \in owed : Queued(x.msg) => <<x.msg.call, "dropped">> \in replied'
    BY DEF DropOffering
  <1>4. MatchInv' BY <1>1, <1>2 DEF AnswerIInv, MatchInv
  <1>5. ReplyInv' BY <1>1, <1>2, <1>3 DEF AnswerIInv, ReplyInv, Justified
  <1> QED BY <1>1, <1>4, <1>5, AnswerKept DEF AnswerIInv

LEMMA AnswerDuplicate ==
  ASSUME TypeOK, AnswerIInv, NEW m \in net, Duplicate(m) PROVE AnswerIInv'
  <1>1. ASSUME NEW x \in net'
        PROVE \E y \in net : /\ x.type = y.type /\ x.sid = y.sid /\ x.call = y.call
                             /\ y.type = "response" => x.code = y.code
    <2>1. CASE x \in net BY <2>1
    <2>2. CASE x \notin net
      <3>1. PICK i \in {2, 3} : x = [m EXCEPT !.copy = i] BY <1>1, <2>2 DEF Duplicate
      <3>2. m \in Requests \/ m \in Responses BY DEF TypeOK
      <3>3. CASE m \in Requests BY <3>1, <3>3 DEF Requests
      <3>4. CASE m \in Responses BY <3>1, <3>4 DEF Responses
      <3> QED BY <3>2, <3>3, <3>4
    <2> QED BY <2>1, <2>2
  <1>2. UNCHANGED <<pending, owed, replied, answer>>
    BY DEF Duplicate, clientVars, serverVars
  <1>3. MatchInv' BY <1>1, <1>2 DEF AnswerIInv, MatchInv
  <1>4. ReplyInv' BY <1>1, <1>2 DEF AnswerIInv, ReplyInv, Justified
  <1> QED BY <1>2, <1>3, <1>4, AnswerKept DEF AnswerIInv

\* Steps that only take something away.
LEMMA AnswerRest ==
  ASSUME AnswerIInv, net' \subseteq net, UNCHANGED <<owed, replied, answer>>,
         \A i \in Sids : pending'[i] \subseteq pending[i]
  PROVE  AnswerIInv'
  <1>1. MatchInv' BY DEF AnswerIInv, MatchInv
  <1>2. ReplyInv' BY DEF AnswerIInv, ReplyInv, Justified
  <1> QED BY <1>1, <1>2, AnswerKept DEF AnswerIInv

LEMMA AnswerStep ==
  ASSUME TypeOK, AnswerIInv, [Next]_vars, \A c \in Calls : Call(c) => ~UnderWay(nextSid)
  PROVE  AnswerIInv'
  <1> DEFINE Less == /\ net' \subseteq net
                     /\ UNCHANGED <<owed, replied, answer>>
                     /\ \A i \in Sids : pending'[i] \subseteq pending[i]
  <1>1. CASE Less BY <1>1, AnswerRest
  <1>2. UNCHANGED vars => Less BY DEF vars, clientVars, serverVars
  <1>3. StopOffer \/ Take \/ Shutdown \/ Down => Less
    BY DEF StopOffer, Take, Shutdown, Down, clientVars
  <1>4. ClientDown => Less BY DEF ClientDown, serverVars
  <1>5. ASSUME NEW m \in net, HandleFireForget(m) \/ Lose(m) PROVE Less
    BY <1>5 DEF HandleFireForget, Lose, clientVars, serverVars
  <1>6. ASSUME NEW c \in Calls, Cancel(c) PROVE Less
    BY <1>6 DEF Cancel, serverVars
  <1> QED BY Zenon, <1>1, <1>2, <1>3, <1>4, <1>5, <1>6, Steps, AnswerCall, AnswerFire,
             AnswerResponse, AnswerRequest, AnswerRespond, AnswerUse, AnswerDrop,
             AnswerDuplicate

LEMMA AnswerInit == Init => AnswerIInv
  BY DEF Init, AnswerIInv, MatchInv, ReplyInv, AnswerInv

\* The ids under way and drawn, and the answers.
LEMMA AnswersCorrect ==
  ASSUME "reuse" \notin Faults \/ FewCalls PROVE Spec => []AnswerIInv
  <1> DEFINE Draws == FewCalls => DrawInv
  <1>1. TypeOK /\ SidInv /\ Draws /\ AnswerIInv /\ [Next]_vars => AnswerIInv'
    BY AnswerStep, DrawnFresh
  <1>2. TypeOK /\ Draws /\ [Next]_vars => Draws' BY DrawStep DEF FewCalls
  <1>3. Init => Draws BY DrawInit
  <1> HIDE DEF Draws
  <1> QED BY <1>1, <1>2, <1>3, AnswerInit, TypeCorrect, SidsCorrect, PTL DEF Spec

\* Unless a session id is used again while something with it is still under
\* way, a call returns the response to its own request, with what the
\* application replied, however datagrams are lost, repeated and reordered;
\* and in any case as long as no more calls are made than there are ids.
THEOREM OwnAnswer ==
  ASSUME "reuse" \notin Faults \/ FewCalls PROVE Spec => []AnswerInv
  <1>1. AnswerIInv => AnswerInv BY DEF AnswerIInv
  <1> QED BY <1>1, AnswersCorrect, PTL

-----------------------------------------------------------------------------
(***************************************************************************)
(* Implementation.                                                         *)
(***************************************************************************)

\* What is under way, or owed, is of a call that was made; a rejection says
\* what is wrong with the request or that the offer has ended.
MadeInv ==
  /\ \A i \in Sids : \A c, d \in pending[i] : c = d
  /\ \A m \in net :
       /\ status[m.call] # "idle"
       /\ m.type = "response" /\ m.code = "unknown_service" => offering = "stopped"
       /\ m.type = "response" /\ m.code \in {"malformed", "wrong_version"} => kind[m.call] = "bad"
  /\ \A o \in owed : status[o.msg.call] # "idle" /\ kind[o.msg.call] = "good"

LEMMA MadeInit == Init => MadeInv
  BY DEF Init, MadeInv

\* A call that was made stays so.
Grown == /\ \A c \in Calls : status[c] # "idle" => status'[c] # "idle"
         /\ offering = "stopped" => offering' = "stopped"
         /\ \A i \in Sids : \A c, d \in pending'[i] : c = d

LEMMA MadeKept ==
  ASSUME TypeOK, MadeInv, Grown, net' \subseteq net, owed' \subseteq owed
  PROVE  MadeInv'
  <1>1. \A m \in net : m.call \in Calls BY MessageTypes
  <1>2. \A o \in owed : o.msg.call \in Calls BY DEF TypeOK, Requests
  <1> QED BY <1>1, <1>2 DEF MadeInv, Grown

LEMMA MadeCall ==
  ASSUME TypeOK, MadeInv, NEW c \in Calls, Call(c) PROVE MadeInv'
  <1> DEFINE new == [type |-> "request", call |-> c, sid |-> nextSid, copy |-> 1]
             st == [status EXCEPT ![c] = "waiting"]
  <1>1. /\ net' = net \cup {new}
        /\ UNCHANGED <<owed, offering>>
        /\ pending' = [pending EXCEPT ![nextSid] = {c}]
        /\ status' = Left(st, pending')
    BY DEF Call, Entered, serverVars
  <1>2. \A d \in Calls : (status[d] # "idle" \/ d = c) => status'[d] # "idle"
    BY <1>1 DEF Left, TypeOK
  <1>3. \A i \in Sids : \A d, e \in pending'[i] : d = e
    BY <1>1 DEF TypeOK, MadeInv
  <1>4. \A m \in net : m.call \in Calls BY MessageTypes
  <1>5. \A o \in owed : o.msg.call \in Calls BY DEF TypeOK, Requests
  <1>6. \A m \in net' : m \in net \/ (m.call = c /\ m.type = "request")
    BY <1>1
  <1> HIDE DEF new, st
  <1> QED BY <1>1, <1>2, <1>3, <1>4, <1>5, <1>6 DEF MadeInv

LEMMA MadeFire ==
  ASSUME TypeOK, MadeInv, NEW c \in Calls, FireAndForget(c) PROVE MadeInv'
  <1>1. /\ \A m \in net' : m \in net \/ (m.call = c /\ m.type = "fire")
        /\ UNCHANGED <<owed, offering, pending>>
        /\ \A d \in Calls : (status[d] # "idle" \/ d = c) => status'[d] # "idle"
    BY DEF FireAndForget, serverVars, TypeOK
  <1>2. \A m \in net : m.call \in Calls BY MessageTypes
  <1>3. \A o \in owed : o.msg.call \in Calls BY DEF TypeOK, Requests
  <1> QED BY <1>1, <1>2, <1>3 DEF MadeInv

LEMMA MadeRequest ==
  ASSUME TypeOK, MadeInv, NEW m \in net, HandleRequest(m) PROVE MadeInv'
  <1>1. UNCHANGED <<status, pending, offering>> BY DEF HandleRequest, clientVars
  <1>2. ASSUME NEW code \in Codes, Reject(m, code),
               code = "unknown_service" => offering = "stopped",
               code \in {"malformed", "wrong_version"} => kind[m.call] = "bad"
        PROVE  MadeInv'
    <2>1. \A x \in net' : x \in net \/ (x.call = m.call /\ x.code = code)
      BY <1>2 DEF Reject, Reply
    <2>2. UNCHANGED owed BY <1>2 DEF Reject
    <2> QED BY <1>1, <1>2, <2>1, <2>2 DEF MadeInv
  <1>3. CASE Ignore(m)
    BY <1>1, <1>3 DEF Ignore, MadeInv
  <1>4. CASE /\ kind[m.call] = "good"
             /\ net' = net \ {m}
             /\ owed' = owed \cup {[msg |-> m, result |-> "none"]}
    BY <1>1, <1>4 DEF MadeInv
  <1>5. "unknown_service" \in Codes /\ "malformed" \in Codes /\ "wrong_version" \in Codes
    BY DEF Codes
  <1> QED BY <1>2, <1>3, <1>4, <1>5 DEF HandleRequest

LEMMA MadeRespond ==
  ASSUME TypeOK, MadeInv, NEW o \in owed, Respond(o) PROVE MadeInv'
  <1>1. UNCHANGED <<status, pending, offering>> BY DEF Respond, clientVars
  <1>2. CodeOf(o.result) \in {"ok", "app_error", "not_ok"} BY DEF CodeOf
  <1>3. \A x \in net' : x \in net \/ (x.call = o.msg.call /\ x.code = CodeOf(o.result))
    BY DEF Respond, Reply
  <1>4. owed' \subseteq owed BY DEF Respond
  <1> QED BY <1>1, <1>2, <1>3, <1>4 DEF MadeInv

LEMMA MadeUse ==
  ASSUME TypeOK, MadeInv, NEW o \in owed, NEW r \in Results \ {"none"}, Use(o, r)
  PROVE  MadeInv'
  <1>1. UNCHANGED <<status, pending, offering, net>> BY DEF Use, clientVars
  <1>2. [o EXCEPT !.result = r].msg = o.msg BY DEF TypeOK
  <1>3. \A x \in owed' : x \in owed \/ x.msg = o.msg BY <1>2 DEF Use
  <1> QED BY <1>1, <1>3 DEF MadeInv

LEMMA MadeDrop ==
  ASSUME TypeOK, MadeInv, DropOffering PROVE MadeInv'
  <1>1. UNCHANGED <<status, pending, net>> /\ offering # "stopped"
    BY DEF DropOffering, clientVars
  <1>2. \A x \in owed' : \E o \in owed : x.msg = o.msg
    <2>1. ASSUME NEW o \in owed
          PROVE [o EXCEPT !.result = IF Queued(o.msg) THEN "dropped" ELSE @].msg = o.msg
      BY DEF TypeOK
    <2> QED BY <2>1 DEF DropOffering
  <1> QED BY <1>1, <1>2 DEF MadeInv

LEMMA MadeDuplicate ==
  ASSUME TypeOK, MadeInv, NEW m \in net, Duplicate(m) PROVE MadeInv'
  <1>1. ASSUME NEW x \in net'
        PROVE \E y \in net : /\ x.type = y.type /\ x.call = y.call
                             /\ y.type = "response" => x.code = y.code
    <2>1. CASE x \in net BY <2>1
    <2>2. CASE x \notin net
      <3>1. PICK i \in {2, 3} : x = [m EXCEPT !.copy = i] BY <1>1, <2>2 DEF Duplicate
      <3>2. m \in Requests \/ m \in Responses BY DEF TypeOK
      <3>3. CASE m \in Requests BY <3>1, <3>3 DEF Requests
      <3>4. CASE m \in Responses BY <3>1, <3>4 DEF Responses
      <3> QED BY <3>2, <3>3, <3>4
    <2> QED BY <2>1, <2>2
  <1>2. UNCHANGED <<pending, owed, offering, status>>
    BY DEF Duplicate, clientVars, serverVars
  <1> QED BY <1>1, <1>2 DEF MadeInv

LEMMA MadeStep ==
  ASSUME TypeOK, MadeInv, [Next]_vars PROVE MadeInv'
  <1> DEFINE Less == Grown /\ net' \subseteq net /\ owed' \subseteq owed
  <1>1. CASE Less BY <1>1, MadeKept
  <1>2. UNCHANGED vars => Less BY DEF vars, clientVars, serverVars, Grown, MadeInv
  <1>3. StopOffer \/ Take \/ Shutdown \/ Down => Less
    BY DEF StopOffer, Take, Shutdown, Down, clientVars, Grown, MadeInv
  <1>4. ClientDown => Less BY DEF ClientDown, serverVars, Grown, MadeInv, Left, TypeOK
  <1>5. ASSUME NEW m \in net, HandleFireForget(m) \/ Lose(m) PROVE Less
    BY <1>5 DEF HandleFireForget, Lose, clientVars, serverVars, Grown, MadeInv
  <1>6. ASSUME NEW c \in Calls, Cancel(c) PROVE Less
    BY <1>6 DEF Cancel, serverVars, Grown, MadeInv, TypeOK
  <1>7. ASSUME NEW m \in net, HandleResponse(m) PROVE Less
    BY <1>7 DEF HandleResponse, serverVars, Grown, MadeInv, TypeOK
  <1> QED BY Zenon, <1>1, <1>2, <1>3, <1>4, <1>5, <1>6, <1>7, Steps, MadeCall, MadeFire,
             MadeRequest, MadeRespond, MadeUse, MadeDrop, MadeDuplicate


\* What TypeOK, PendingInv, AnswerIInv and MadeInv say together.
RpcInv == TypeOK /\ PendingInv /\ AnswerIInv /\ MadeInv

\* What is outside the callers' view: the datagrams, the channel, what is owed.
CallsView == <<status, answer, replied, offering, client>>

LEMMA Unseen ==
  ASSUME UNCHANGED CallsView PROVE UNCHANGED Abstract!vars
  BY DEF CallsView, Abstract!vars

\* A call takes the place of the one that waits with its session id, if any.
LEMMA CallMakes ==
  ASSUME RpcInv, NEW c \in Calls, Call(c) PROVE Abstract!Next
  <1> DEFINE old == {d \in Calls : d \in pending[nextSid] /\ status[d] = "waiting"}
  <1>1. /\ nextSid \in Sids
        /\ pending' = [pending EXCEPT ![nextSid] = {c}]
        /\ status' = Left([status EXCEPT ![c] = "waiting"], pending')
        /\ status[c] = "idle" /\ kind[c] # "fire" /\ client
        /\ UNCHANGED <<answer, replied, offering, client>>
    BY DEF RpcInv, TypeOK, Call, Entered, serverVars
  <1>2. status' = [d \in Calls |-> IF d = c THEN "waiting"
                                   ELSE IF d \in old THEN "failed" ELSE status[d]]
    <2>1. ASSUME NEW d \in Calls, d # c, status[d] = "waiting"
          PROVE (\A i \in Sids : d \notin pending'[i]) <=> d \in old
      <3>1. /\ sidOf[d] \in Sids /\ d \in pending[sidOf[d]]
            /\ \A i \in Sids : d \in pending[i] => i = sidOf[d]
        BY <2>1 DEF RpcInv, PendingInv
      <3>2. \A i \in Sids : pending'[i] = IF i = nextSid THEN {c} ELSE pending[i]
        BY <1>1 DEF RpcInv, TypeOK
      <3> QED BY <1>1, <2>1, <3>1, <3>2
    <2>2. c \in pending'[nextSid] BY <1>1 DEF RpcInv, TypeOK
    <2>3. status \in [Calls -> {"idle", "waiting", "answered", "failed", "cancelled", "sent"}]
      BY DEF RpcInv, TypeOK
    <2> DEFINE st == [status EXCEPT ![c] = "waiting"]
    <2>4. st[c] = "waiting" /\ \A d \in Calls : d # c => st[d] = status[d]
      BY <2>3
    <2>5. \A d \in Calls : d \in old => status[d] = "waiting" OBVIOUS
    <2>6. status' = [d \in Calls |-> IF st[d] = "waiting" /\ \A i \in Sids : d \notin pending'[i]
                                     THEN "failed" ELSE st[d]]
      BY <1>1 DEF Left
    <2> DEFINE gone(d) == \A i \in Sids : d \notin pending'[i]
    <2>7. ~gone(c) /\ \A d \in Calls : d # c /\ status[d] = "waiting" => (gone(d) <=> d \in old)
      BY <1>1, <2>1, <2>2
    <2>8. status' = [d \in Calls |-> IF st[d] = "waiting" /\ gone(d) THEN "failed" ELSE st[d]]
      BY <2>6
    <2> HIDE DEF old, st, gone
    <2>9. \A d \in Calls : (IF st[d] = "waiting" /\ gone(d) THEN "failed" ELSE st[d])
                          = (IF d = c THEN "waiting"
                             ELSE IF d \in old THEN "failed" ELSE status[d])
      BY <2>4, <2>5, <2>7
    <2> QED BY <2>8, <2>9
  <1>3. old \in {{}} \cup {{d} : d \in Abstract!Waiting}
    <2>1. \A d, e \in old : d = e BY <1>1 DEF RpcInv, MadeInv
    <2>2. old \subseteq Abstract!Waiting BY DEF Abstract!Waiting
    <2> HIDE DEF old
    <2>3. CASE old = {} BY <2>3
    <2>4. CASE old # {}
      <3>1. PICK d \in old : TRUE BY <2>4
      <3> QED BY <2>1, <2>2, <3>1
    <2> QED BY <2>3, <2>4
  <1> HIDE DEF old
  <1>4. Abstract!Make(c, old) BY <1>1, <1>2 DEF Abstract!Make
  <1> QED BY <1>3, <1>4, Zenon DEF Abstract!Next

LEMMA FireFires ==
  ASSUME NEW c \in Calls, FireAndForget(c) PROVE Abstract!Next
  <1>1. Abstract!FireAndForget(c) BY DEF FireAndForget, serverVars, Abstract!FireAndForget
  <1> QED BY <1>1, Zenon DEF Abstract!Next

LEMMA CancelCancels ==
  ASSUME NEW c \in Calls, Cancel(c) PROVE Abstract!Next
  <1>1. Abstract!Cancel(c) BY DEF Cancel, serverVars, Abstract!Cancel
  <1> QED BY <1>1, Zenon DEF Abstract!Next

\* A response under way may be said to the call that it names.
LEMMA ResponseMayBeSaid ==
  ASSUME RpcInv, NEW m \in net, m.type = "response"
  PROVE  m.code \in Abstract!Codes /\ Abstract!MaySay(m.call, m.code)
  <1>1. m.code \in Codes BY ResponseTypes DEF RpcInv, Responses
  <1>2. Justified(m.call, m.code) BY DEF RpcInv, AnswerIInv, ReplyInv
  <1>3. /\ m.code = "unknown_service" => offering = "stopped"
        /\ m.code \in {"malformed", "wrong_version"} => kind[m.call] = "bad"
    BY DEF RpcInv, MadeInv
  <1> QED BY <1>1, <1>2, <1>3 DEF Codes, Justified, Abstract!Codes, Abstract!MaySay

\* A response returns the call listed with its id, or no call.
LEMMA ResponseReturns ==
  ASSUME RpcInv, NEW m \in net, HandleResponse(m)
  PROVE  Abstract!Next \/ UNCHANGED Abstract!vars
  <1> DEFINE got == {c \in Calls : m.sid \in Sids /\ c \in pending[m.sid] /\ status[c] = "waiting"}
  <1>1. /\ m.type = "response"
        /\ status' = [c \in Calls |-> IF c \in got THEN "answered" ELSE status[c]]
        /\ answer' = [c \in Calls |-> IF c \in got THEN {[call |-> m.call, code |-> m.code]}
                                      ELSE answer[c]]
        /\ UNCHANGED <<replied, offering, client>>
    BY DEF HandleResponse, serverVars
  <1>2. /\ status \in [Calls -> {"idle", "waiting", "answered", "failed", "cancelled", "sent"}]
        /\ answer \in [Calls -> SUBSET [call : Calls, code : Codes]]
    BY DEF RpcInv, TypeOK
  <1>3. \A c \in got : c \in Calls /\ status[c] = "waiting" /\ m.call = c
    BY DEF RpcInv, AnswerIInv, MatchInv
  <1>4. \A c, d \in got : c = d BY DEF RpcInv, MadeInv
  <1> HIDE DEF got
  <1>5. CASE got = {}
    <2>1. status' = status /\ answer' = answer BY <1>1, <1>2, <1>5
    <2> QED BY <1>1, <2>1, Unseen DEF CallsView
  <1>6. ASSUME NEW c \in got PROVE Abstract!Next
    <2>1. c \in Calls /\ status[c] = "waiting" /\ m.call = c BY <1>3
    <2>2. \A d \in Calls : d \in got <=> d = c BY <1>4, <1>6
    <2>3. status' = [status EXCEPT ![c] = "answered"] BY <1>1, <1>2, <2>1, <2>2
    <2>4. answer' = [answer EXCEPT ![c] = {[call |-> c, code |-> m.code]}]
      BY <1>1, <1>2, <2>1, <2>2
    <2>5. m.code \in Abstract!Codes /\ Abstract!MaySay(c, m.code)
      BY <1>1, <2>1, ResponseMayBeSaid
    <2>6. Abstract!Return(c, m.code)
      BY <1>1, <2>1, <2>3, <2>4, <2>5 DEF Abstract!Return
    <2> QED BY <2>1, <2>5, <2>6, Zenon DEF Abstract!Next
  <1> QED BY <1>5, <1>6

LEMMA ClientDownEnds ==
  ASSUME ClientDown PROVE Abstract!Next
  <1>1. status' = [c \in Calls |-> IF status[c] = "waiting" THEN "failed" ELSE status[c]]
    BY DEF ClientDown, Left
  <1>2. status' = [c \in Calls |-> IF c \in Abstract!Waiting THEN "failed" ELSE status[c]]
    BY <1>1 DEF Abstract!Waiting
  <1>3. Abstract!End BY <1>2 DEF ClientDown, serverVars, Abstract!End
  <1> QED BY <1>3 DEF Abstract!Next

\* What the application does with responders, it does with requests of calls.
LEMMA UseServes ==
  ASSUME RpcInv, NEW o \in owed, NEW r \in Results \ {"none"}, Use(o, r)
  PROVE  Abstract!Next
  <1> DEFINE S == {<<o.msg.call, r>>}
  <1>1. o.msg.call \in Calls BY DEF RpcInv, TypeOK, Requests
  <1>2. r \in Abstract!Given BY DEF Results, Abstract!Given
  <1>3. status[o.msg.call] # "idle" /\ kind[o.msg.call] = "good" BY DEF RpcInv, MadeInv
  <1>4. S \in SUBSET (Calls \X Abstract!Given) BY <1>1, <1>2
  <1>5. \A s \in S : s[1] = o.msg.call OBVIOUS
  <1>6. replied' = replied \cup S /\ UNCHANGED <<status, answer, offering, client>>
    BY DEF Use, clientVars
  <1> HIDE DEF S
  <1>7. Abstract!Serve(S) BY <1>3, <1>5, <1>6 DEF Abstract!Serve
  <1> QED BY <1>4, <1>7 DEF Abstract!Next

LEMMA DropServes ==
  ASSUME RpcInv, DropOffering PROVE Abstract!Next
  <1> DEFINE S == {<<c, "dropped">> : c \in {o.msg.call : o \in {x \in owed : Queued(x.msg)}}}
  <1>1. ASSUME NEW s \in S
        PROVE  /\ s \in Calls \X Abstract!Given
               /\ status[s[1]] # "idle" /\ kind[s[1]] = "good"
    <2>1. PICK o \in owed : s = <<o.msg.call, "dropped">> OBVIOUS
    <2>2. o.msg.call \in Calls BY DEF RpcInv, TypeOK, Requests
    <2>3. status[o.msg.call] # "idle" /\ kind[o.msg.call] = "good" BY DEF RpcInv, MadeInv
    <2> QED BY <2>1, <2>2, <2>3 DEF Abstract!Given
  <1>2. /\ replied' = replied \cup S
        /\ offering # "stopped" /\ offering' # "stopped"
        /\ UNCHANGED <<status, answer, client>>
    BY DEF DropOffering, clientVars
  <1> HIDE DEF S
  <1>3. S \in SUBSET (Calls \X Abstract!Given) BY <1>1
  <1>4. Abstract!Serve(S) BY <1>1, <1>2 DEF Abstract!Serve
  <1> QED BY <1>3, <1>4 DEF Abstract!Next

LEMMA StopWithdraws ==
  ASSUME StopOffer \/ Down PROVE Abstract!Next
  <1>1. offering' = "stopped" /\ UNCHANGED <<status, answer, replied, client>>
    BY DEF StopOffer, Down, clientVars
  <1>2. Abstract!Withdraw BY <1>1 DEF Abstract!Withdraw
  <1> QED BY <1>2 DEF Abstract!Next

\* Every step is a step of MethodCall or one that no call sees.
LEMMA StepSimulation ==
  ASSUME RpcInv, [Next]_vars PROVE [Abstract!Next]_(Abstract!vars)
  <1>1. CASE UNCHANGED CallsView BY <1>1, Unseen
  <1>2. UNCHANGED vars \/ Take \/ Shutdown => UNCHANGED CallsView
    BY DEF vars, clientVars, serverVars, Take, Shutdown, CallsView
  <1>3. ASSUME NEW m \in net,
               HandleRequest(m) \/ HandleFireForget(m) \/ Lose(m) \/ Duplicate(m)
        PROVE  UNCHANGED CallsView
    BY <1>3 DEF HandleRequest, HandleFireForget, Lose, Duplicate, clientVars, serverVars, CallsView
  <1>4. ASSUME NEW o \in owed, Respond(o) PROVE UNCHANGED CallsView
    BY <1>4 DEF Respond, clientVars, CallsView
  <1> QED BY Zenon, <1>1, <1>2, <1>3, <1>4, Steps, CallMakes, FireFires, CancelCancels,
             ResponseReturns, ClientDownEnds, UseServes, DropServes, StopWithdraws

\* Unless a session id is used again while something with it is still under
\* way, or more calls are made than there are ids, the two runtimes do for each
\* call what MethodCall promises, whatever is lost, repeated, reordered,
\* cancelled, dropped or shut down.
THEOREM Implementation ==
  ASSUME "reuse" \notin Faults \/ FewCalls PROVE Spec => ImplementsMethodCall
  <1>1. Init => Abstract!Init
    BY DEF Init, Abstract!Init
  <1>2. TypeOK /\ PendingInv /\ [Next]_vars => PendingInv' BY PendingStep
  <1>3. TypeOK /\ MadeInv /\ [Next]_vars => MadeInv' BY MadeStep
  <1>4. TypeOK /\ PendingInv /\ AnswerIInv /\ MadeInv /\ [Next]_vars
          => [Abstract!Next]_(Abstract!vars)
    BY StepSimulation DEF RpcInv
  <1> QED BY <1>1, <1>2, <1>3, <1>4, TypeCorrect, PendingInit, AnswersCorrect, MadeInit, PTL
          DEF Spec, ImplementsMethodCall, Abstract!Spec
=============================================================================
