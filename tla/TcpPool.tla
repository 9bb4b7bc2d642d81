------------------------------- MODULE TcpPool -------------------------------
(***************************************************************************)
(* The client's TCP connections to one endpoint of a server, which several *)
(* services may share.                                                     *)
(*                                                                         *)
(* The pool maps a key to a cell that is initialised once, by the first    *)
(* task that needs it; here a key is its slot, since the endpoint is the   *)
(* same.  Slot 0 is for RPC, which the event loop sends itself; the others *)
(* are reserved by the event loop for subscribe calls and connected by a   *)
(* task per call, which hands the result back to the event loop.  Every    *)
(* connection has a task of its own that asks for a cleanup when it ends.  *)
(* Event loop and tasks interleave freely; what they send, and the answers *)
(* of the SD protocol, are left to PubSub.                                 *)
(***************************************************************************)
EXTENDS Naturals, FiniteSets

CONSTANTS
  Calls,    \* the TCP calls of subscribe()
  Services, \* the services that the server offers on the endpoint
  MaxSlot,  \* bound: slots; as many as calls are enough
  MaxConn   \* bound: connections that are made

ASSUME BoundAssumption == MaxSlot \in Nat \ {0} /\ MaxConn \in Nat

RpcSlot   == 0
SlotZero  == 0
FirstSlot == 1
Slot      == FirstSlot..MaxSlot  \* where a subscription's slot is sought
Key       == RpcSlot..MaxSlot
Conn      == 1..MaxConn
NoConn    == 0

\* ClientSubscription: whose it is, of which service, its tcp_conn_key, and
\* the connection whose local address it is registered with at the server.
\* Calls for several eventgroups have several entries, alike but for those.
Subscription == [call: Calls, svc: Services, slot: Key,
                 conn: Conn \cup {NoConn}]

Phase == {"idle", "started", "lookup", "waiting", "dialing", "connected",
          "failed", "active", "error", "gone"}

VARIABLES
  \* The event loop's state.
  known,    \* discovered services
  subs,     \* subscriptions
  reserved, \* pending_tcp_conn_keys
  blocked,  \* is it inside send(), until the RPC connection is made?
  \* The pool, shared by all tasks.
  pool,     \* pool[k]: connection in the cell of k; NoConn if uninitialised
  \* The subscribe tasks.
  phase,    \* phase[s]: where call s stands
  svc,      \* svc[s]: the service it is for
  slot,     \* slot[s]: conn_key
  link,     \* link[s]: the connection ensure_connected found for it
  \* The connections.
  fresh,    \* fresh[k]: connected for k, but not in its cell yet
  conns,    \* conns[c]: is the task of connection c running?
  slotOf,   \* slotOf[c]: subscription_id of the connection
  cleanups  \* cleanup requests under way

loop  == <<known, subs, reserved, blocked>>
tasks == <<phase, svc, slot, link>>
links == <<fresh, conns, slotOf, cleanups>>
vars  == <<loop, pool, tasks, links>>

Init ==
  /\ known = Services /\ subs = {} /\ reserved = {} /\ blocked = FALSE
  /\ pool  = [k \in Key |-> NoConn]
  /\ phase = [s \in Calls |-> "idle"]
  /\ svc   \in [Calls -> Services]
  /\ slot  = [s \in Calls |-> 1]
  /\ link  = [s \in Calls |-> NoConn]
  /\ fresh = [k \in Key |-> NoConn]
  /\ conns = [c \in Conn |-> "unused"]
  /\ slotOf = [c \in Conn |-> RpcSlot]
  /\ cleanups = {}

-----------------------------------------------------------------------------
(* The event loop.  Each action is a turn of its own, which it cannot take *)
(* while it is blocked.                                                    *)

\* Is slot k of service v taken by a subscription, or by a call under way?
TakenBySubscription(v, k) == \E r \in subs : r.svc = v /\ r.slot = k
Taken(v, k) == TakenBySubscription(v, k) \/ [svc |-> v, slot |-> k] \in reserved

\* Command::Subscribe: reserve the smallest free slot and spawn the task.
Begin(s) ==
  /\ ~blocked /\ phase[s] = "idle"
  /\ \E k \in Slot :
       /\ ~Taken(svc[s], k)
       /\ \A j \in Slot : j < k => Taken(svc[s], j)
       /\ slot' = [slot EXCEPT ![s] = k]
       /\ reserved' = reserved \cup {[svc |-> svc[s], slot |-> k]}
  /\ phase' = [phase EXCEPT ![s] = "started"]
  /\ UNCHANGED <<known, subs, blocked, pool, svc, link, links>>

\* SubscribeStateUpdate::Success: apply_state, whatever has become of the
\* service and of the connection in between.
Commit(s) ==
  /\ ~blocked /\ phase[s] = "connected"
  /\ phase'    = [phase EXCEPT ![s] = "active"]
  /\ reserved' = reserved \ {[svc |-> svc[s], slot |-> slot[s]]}
  /\ subs'     = subs \cup {[call |-> s, svc |-> svc[s], slot |-> slot[s],
                             conn |-> link[s]]}
  /\ UNCHANGED <<known, blocked, pool, svc, slot, link, links>>

\* SubscribeStateUpdate::Failed.
Reject(s) ==
  /\ ~blocked /\ phase[s] = "failed"
  /\ phase'    = [phase EXCEPT ![s] = "error"]
  /\ reserved' = reserved \ {[svc |-> svc[s], slot |-> slot[s]]}
  /\ UNCHANGED <<known, subs, blocked, pool, svc, slot, link, links>>

\* handle_unsubscribe, or a NACK: the connection stays.
Unsubscribe(s) ==
  /\ ~blocked /\ phase[s] = "active"
  /\ phase' = [phase EXCEPT ![s] = "gone"]
  /\ subs'  = {r \in subs : r.call # s}
  /\ UNCHANGED <<known, reserved, blocked, pool, svc, slot, link, links>>

\* handle_offer.
Offer(v) ==
  /\ ~blocked
  /\ known' = known \cup {v}
  /\ UNCHANGED <<subs, reserved, blocked, pool, tasks, links>>

\* handle_periodic: the offer of v has expired; connections stay.
Expire(v) ==
  /\ ~blocked /\ v \in known
  /\ known' = known \ {v}
  /\ subs'  = {r \in subs : r.svc # v}
  /\ UNCHANGED <<reserved, blocked, pool, tasks, links>>

\* A StopOffer (for one service), or a reboot of the peer (for those without a
\* pending subscription), and then close_endpoints: every connection to the
\* endpoint that is in a cell is taken out and its task aborted.
Withdraw(gone) ==
  /\ ~blocked /\ gone # {} /\ gone \subseteq known
  /\ known' = known \ gone
  /\ subs'  = {r \in subs : r.svc \notin gone}
  /\ pool'  = [k \in Key |-> NoConn]
  /\ conns' = [c \in Conn |-> IF \E k \in Key : pool[k] = c THEN "closed"
                                                           ELSE conns[c]]
  /\ UNCHANGED <<reserved, blocked, tasks, fresh, slotOf, cleanups>>

\* handle_cleanup: the cell goes only if the connection is still in it.
ClearedBySlot(c) == [pool EXCEPT ![slotOf[c]] = NoConn]
Cleared(c) == [k \in Key |-> IF pool[k] = c THEN NoConn ELSE pool[k]]

HandleCleanup(c) ==
  /\ ~blocked /\ c \in cleanups
  /\ cleanups' = cleanups \ {c}
  /\ pool' = Cleared(c)
  /\ UNCHANGED <<loop, tasks, fresh, conns, slotOf>>

\* send(), when no cell holds a connection; otherwise it uses one and changes
\* nothing here.
SendConnects ==
  /\ ~blocked
  /\ \A k \in Key : pool[k] = NoConn
  /\ blocked' = TRUE
  /\ UNCHANGED <<known, subs, reserved, pool, tasks, links>>

-----------------------------------------------------------------------------
(* The subscribe tasks: ensure_connected.                                  *)

\* First it looks for an RPC connection to share.
LookForRpc(s) ==
  /\ phase[s] = "started"
  /\ IF pool[RpcSlot] # NoConn
     THEN /\ phase' = [phase EXCEPT ![s] = "connected"]
          /\ link'  = [link EXCEPT ![s] = pool[RpcSlot]]
     ELSE phase' = [phase EXCEPT ![s] = "lookup"] /\ UNCHANGED link
  /\ UNCHANGED <<loop, pool, svc, slot, links>>

\* Mutant: one cell for the endpoint.
DialersOfAny(k) == {s \in Calls : phase[s] = "dialing"}
DialersOf(k) == {s \in Calls : slot[s] = k /\ phase[s] = "dialing"}
WaitersOf(k) == {s \in Calls : slot[s] = k /\ phase[s] = "waiting"}
Dialing(k)   == IF k = RpcSlot THEN blocked ELSE DialersOf(k) # {}

\* get_or_try_init on its own cell: use it, initialise it, or wait for the
\* one that does.
LookForSlot(s) ==
  LET k == slot[s] IN
  /\ phase[s] = "lookup"
  /\ \/ /\ pool[k] # NoConn
        /\ phase' = [phase EXCEPT ![s] = "connected"]
        /\ link'  = [link EXCEPT ![s] = pool[k]]
     \/ /\ pool[k] = NoConn
        /\ phase' = [phase EXCEPT ![s] = IF Dialing(k) THEN "waiting" ELSE "dialing"]
        /\ UNCHANGED link
  /\ UNCHANGED <<loop, pool, svc, slot, links>>

\* do_connect succeeds: the connection gets its number and its task.
Connect(k) ==
  /\ Dialing(k) /\ fresh[k] = NoConn
  /\ \E c \in Conn :
       /\ conns[c] = "unused"
       /\ \A d \in Conn : d < c => conns[d] # "unused"
       /\ fresh'  = [fresh EXCEPT ![k] = c]
       /\ conns'  = [conns EXCEPT ![c] = "open"]
       /\ slotOf' = [slotOf EXCEPT ![c] = k]
  /\ UNCHANGED <<loop, pool, tasks, cleanups>>

\* The cell is initialised: everybody who waits for it goes on.
Publish(k) ==
  /\ fresh[k] # NoConn
  /\ pool'  = [pool EXCEPT ![k] = fresh[k]]
  /\ fresh' = [fresh EXCEPT ![k] = NoConn]
  /\ LET all == DialersOf(k) \cup WaitersOf(k) IN
       /\ phase' = [s \in Calls |-> IF s \in all THEN "connected" ELSE phase[s]]
       /\ link'  = [s \in Calls |-> IF s \in all THEN fresh[k] ELSE link[s]]
  /\ blocked' = (blocked /\ k # RpcSlot)
  /\ UNCHANGED <<known, subs, reserved, svc, slot, conns, slotOf, cleanups>>

\* The phases after the dialer of k has failed: the next one that waits
\* tries, if there is one.
NextKeepsWaiting(k) ==
  {[s \in Calls |-> IF s \in DialersOf(k) THEN "failed" ELSE phase[s]]}
NextDials(k) ==
  {[s \in Calls |-> IF s \in DialersOf(k) THEN "failed"
                    ELSE IF s \in heir THEN "dialing" ELSE phase[s]] :
     heir \in IF WaitersOf(k) = {} THEN {{}} ELSE {{w} : w \in WaitersOf(k)}}

\* do_connect fails.
FailToConnect(k) ==
  /\ Dialing(k) /\ fresh[k] = NoConn
  /\ phase' \in NextDials(k)
  /\ blocked' = (blocked /\ k # RpcSlot)
  /\ UNCHANGED <<known, subs, reserved, pool, svc, slot, link, links>>

\* The server closes a connection, or it breaks: its task ends.
Disconnect(c) ==
  /\ conns[c] = "open"
  /\ conns'    = [conns EXCEPT ![c] = "closed"]
  /\ cleanups' = cleanups \cup {c}
  /\ UNCHANGED <<loop, pool, tasks, fresh, slotOf>>

-----------------------------------------------------------------------------
LoopNext ==
  \/ \E s \in Calls : Begin(s) \/ Commit(s) \/ Reject(s) \/ Unsubscribe(s)
  \/ \E v \in Services : Offer(v) \/ Expire(v)
  \/ \E gone \in SUBSET Services : Withdraw(gone)
  \/ \E c \in Conn : HandleCleanup(c)
  \/ SendConnects

TaskNext ==
  \/ \E s \in Calls : LookForRpc(s) \/ LookForSlot(s)
  \/ \E k \in Key : Connect(k) \/ Publish(k) \/ FailToConnect(k)
  \/ \E c \in Conn : Disconnect(c)

Next == LoopNext \/ TaskNext

Spec == Init /\ [][Next]_vars

\* Tasks are scheduled, connecting takes an end one way or the other, and the
\* event loop serves its queues.
FairSpec ==
  /\ Spec
  /\ \A s \in Calls : WF_vars(LookForRpc(s)) /\ WF_vars(LookForSlot(s))
  /\ \A k \in Key : WF_vars(Connect(k) \/ FailToConnect(k)) /\ WF_vars(Publish(k))
  /\ \A s \in Calls : SF_vars(Commit(s) \/ Reject(s))

-----------------------------------------------------------------------------
(* Properties.                                                             *)

TypeOK ==
  /\ known \subseteq Services
  /\ subs \subseteq Subscription
  /\ reserved \subseteq [svc: Services, slot: Key]
  /\ blocked \in BOOLEAN
  /\ pool \in [Key -> Conn \cup {NoConn}]
  /\ phase \in [Calls -> Phase]
  /\ svc \in [Calls -> Services]
  /\ slot \in [Calls -> Key \ {RpcSlot}]
  /\ link \in [Calls -> Conn \cup {NoConn}]
  /\ fresh \in [Key -> Conn \cup {NoConn}]
  /\ conns \in [Conn -> {"unused", "open", "closed"}]
  /\ slotOf \in [Conn -> Key]
  /\ cleanups \subseteq Conn

\* Subscriptions of one service never share a slot, though slots are chosen
\* while other calls still connect and come free in any order: the slot is
\* all that tells whom an event on a connection is for (allocate_tcp_conn_key,
\* handle_incoming_notification).
OneSubscriptionPerSlot ==
  \A r1, r2 \in subs : r1.svc = r2.svc /\ r1.slot = r2.slot => r1.call = r2.call

\* A connection that is open is in the cell of its key, or about to be put
\* there: no late cleanup and no second task can leave one behind that nobody
\* uses and nobody closes; so there is one for a key at most (ensure_connected,
\* handle_cleanup, close_endpoints).
OpenIsPooled ==
  \A c \in Conn : conns[c] = "open" => pool[slotOf[c]] = c \/ fresh[slotOf[c]] = c

\* However tasks interleave, fail and are overtaken by cleanups, there is one
\* attempt to connect for a key at a time, and a task that waits for a cell
\* waits for an attempt that is made, or for its success to be stored: nobody
\* is left behind when an attempt fails (get_or_try_init in ensure_connected).
WaitersHaveDialer ==
  \A s \in Calls :
    /\ phase[s] = "waiting" => \E t \in Calls : phase[t] = "dialing" /\ slot[t] = slot[s]
    /\ phase[s] = "dialing" => DialersOf(slot[s]) = {s} /\ pool[slot[s]] = NoConn

\* A subscription is registered at the server with the connection of its own
\* slot, or with the one of RPC: never with that of another subscription of
\* its service (ensure_connected, whatever becomes of slots in between).
RegisteredWithOwn ==
  \A r \in subs : r.conn # NoConn /\ slotOf[r.conn] \in {r.slot, RpcSlot}

\* Every call ends: its task reports a connection or an error, also when it
\* waits for the attempt of another that fails.
EveryCallEnds ==
  \A s \in Calls : phase[s] = "started" ~> phase[s] \in {"active", "error", "gone"}
=============================================================================
