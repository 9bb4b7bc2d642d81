---------------------------- MODULE TcpPool_proofs ----------------------------
(***************************************************************************)
(* Proofs about TcpPool: types, slots and open connections.                *)
(***************************************************************************)
EXTENDS TcpPool, TLAPS

\* Is the task of call s under way, so that its slot is reserved?
UnderWay(s) == phase[s] \in {"started", "lookup", "waiting", "dialing",
                             "connected", "failed"}

Reservation(v, k) == [svc |-> v, slot |-> k]

\* A slot that a call under way has reserved is nobody else's: neither
\* another call nor a subscription of the service has it.
SlotInv ==
  /\ \A s \in Calls : UnderWay(s) => Reservation(svc[s], slot[s]) \in reserved
  /\ \A s, t \in Calls :
       UnderWay(s) /\ UnderWay(t) /\ svc[s] = svc[t] /\ slot[s] = slot[t] => s = t
  /\ \A r \in subs : Reservation(r.svc, r.slot) \notin reserved
  /\ OneSubscriptionPerSlot

\* While somebody dials for a key its cell is empty, what is dialled or pooled
\* under a key was made for it, and cleanups are about closed connections.
PoolInv ==
  /\ \A k \in Key : pool[k] # NoConn =>
       slotOf[pool[k]] = k /\ conns[pool[k]] # "unused"
  /\ \A k \in Key : fresh[k] # NoConn =>
       slotOf[fresh[k]] = k /\ conns[fresh[k]] # "unused" /\ Dialing(k)
  /\ \A k \in Key : Dialing(k) => pool[k] = NoConn
  /\ \A c \in cleanups : conns[c] = "closed"
  /\ OpenIsPooled

-----------------------------------------------------------------------------
(* Types.                                                                  *)

\* Slots are sought among the keys that are not for RPC.
LEMMA SlotsAreKeys == Slot = Key \ {RpcSlot} /\ RpcSlot \in Key /\ 1 \in Slot
BY BoundAssumption DEF Slot, FirstSlot, Key, RpcSlot

LEMMA TypeInit == Init => TypeOK
<1> SUFFICES ASSUME Init PROVE TypeOK
  OBVIOUS
<1>1. "idle" \in Phase
  BY DEF Phase
<1> QED BY <1>1, SlotsAreKeys DEF Init, TypeOK

\* After a failed attempt every call is in some phase, and only the dialers
\* and one that waits have changed theirs.
LEMMA NextDialsChanges ==
  ASSUME TypeOK, NEW k \in Key, phase' \in NextDials(k)
  PROVE  /\ phase' \in [Calls -> Phase]
         /\ \A s \in Calls :
              \/ phase'[s] = phase[s]
              \/ s \in DialersOf(k) /\ phase'[s] = "failed"
              \/ s \in WaitersOf(k) /\ phase'[s] = "dialing"
<1>1. PICK heir \in IF WaitersOf(k) = {} THEN {{}} ELSE {{w} : w \in WaitersOf(k)} :
        phase' = [s \in Calls |-> IF s \in DialersOf(k) THEN "failed"
                                  ELSE IF s \in heir THEN "dialing" ELSE phase[s]]
  BY DEF NextDials
<1>2. heir \subseteq WaitersOf(k)
  OBVIOUS
<1> QED BY <1>1, <1>2 DEF TypeOK, Phase

LEMMA TypeNext == TypeOK /\ [Next]_vars => TypeOK'
<1> SUFFICES ASSUME TypeOK, [Next]_vars PROVE TypeOK'
  OBVIOUS
<1>0. {"started", "lookup", "waiting", "dialing", "connected", "failed",
       "active", "error", "gone"} \subseteq Phase
  BY DEF Phase
<1>1. ASSUME NEW s \in Calls, Begin(s) PROVE TypeOK'
  <2>1. PICK k \in Slot : /\ slot' = [slot EXCEPT ![s] = k]
                          /\ reserved' = reserved \cup {[svc |-> svc[s], slot |-> k]}
    BY <1>1 DEF Begin
  <2> QED BY <1>0, <1>1, <2>1, SlotsAreKeys DEF Begin, TypeOK, links
<1>2. ASSUME NEW s \in Calls, Commit(s) PROVE TypeOK'
  <2>1. [call |-> s, svc |-> svc[s], slot |-> slot[s], conn |-> link[s]] \in Subscription
    BY DEF Subscription, TypeOK
  <2> QED BY <1>0, <1>2, <2>1 DEF Commit, TypeOK, links
<1>3. ASSUME NEW s \in Calls, Reject(s) PROVE TypeOK'
  BY <1>0, <1>3 DEF Reject, TypeOK, links
<1>4. ASSUME NEW s \in Calls, Unsubscribe(s) PROVE TypeOK'
  BY <1>0, <1>4 DEF Unsubscribe, TypeOK, links
<1>5. ASSUME NEW v \in Services, Offer(v) \/ Expire(v) PROVE TypeOK'
  BY <1>5 DEF Offer, Expire, TypeOK, tasks, links
<1>6. ASSUME NEW gone \in SUBSET Services, Withdraw(gone) PROVE TypeOK'
  BY <1>6 DEF Withdraw, TypeOK, tasks
<1>7. ASSUME NEW c \in Conn, HandleCleanup(c) PROVE TypeOK'
  BY <1>7 DEF HandleCleanup, Cleared, TypeOK, loop, tasks
<1>8. CASE SendConnects
  BY <1>8 DEF SendConnects, TypeOK, tasks, links
<1>9. ASSUME NEW s \in Calls, LookForRpc(s) PROVE TypeOK'
  <2> QED BY <1>0, <1>9, SlotsAreKeys DEF LookForRpc, TypeOK, loop, links
<1>10. ASSUME NEW s \in Calls, LookForSlot(s) PROVE TypeOK'
  <2>1. slot[s] \in Key
    BY DEF TypeOK
  <2> QED BY <1>0, <1>10, <2>1 DEF LookForSlot, TypeOK, loop, links
<1>11. ASSUME NEW k \in Key, Connect(k) PROVE TypeOK'
  BY <1>11 DEF Connect, TypeOK, loop, tasks
<1>12. ASSUME NEW k \in Key, Publish(k) PROVE TypeOK'
  <2>1. /\ phase' \in [Calls -> Phase]
        /\ link' \in [Calls -> Conn \cup {NoConn}]
    BY <1>0, <1>12 DEF Publish, TypeOK
  <2> QED BY <1>12, <2>1 DEF Publish, TypeOK
<1>13. ASSUME NEW k \in Key, FailToConnect(k) PROVE TypeOK'
  <2>1. phase' \in [Calls -> Phase]
    BY <1>13, NextDialsChanges DEF FailToConnect
  <2> QED BY <1>13, <2>1 DEF FailToConnect, TypeOK, links
<1>14. ASSUME NEW c \in Conn, Disconnect(c) PROVE TypeOK'
  BY <1>14 DEF Disconnect, TypeOK, loop, tasks
<1>15. CASE UNCHANGED vars
  BY <1>15 DEF vars, loop, tasks, links, TypeOK
<1> QED BY <1>1, <1>2, <1>3, <1>4, <1>5, <1>6, <1>7, <1>8, <1>9, <1>10, <1>11,
           <1>12, <1>13, <1>14, <1>15 DEF Next, LoopNext, TaskNext

\* The state of event loop, tasks and pool keeps its shape: TypeOK.
THEOREM TypeCorrect == Spec => []TypeOK
BY TypeInit, TypeNext, PTL DEF Spec

-----------------------------------------------------------------------------
(* Slots.                                                                  *)

LEMMA SlotInit == Init => SlotInv
BY DEF Init, SlotInv, UnderWay, OneSubscriptionPerSlot

\* A step that reserves nothing, adds no subscription and sets no call out
\* keeps slots apart.
LEMMA SlotsUntouched ==
  ASSUME SlotInv, reserved' = reserved, subs' \subseteq subs,
         UNCHANGED <<svc, slot>>,
         \A s \in Calls : UnderWay(s)' => UnderWay(s)
  PROVE  SlotInv'
BY DEF SlotInv, OneSubscriptionPerSlot, Reservation

LEMMA SlotNext == TypeOK /\ SlotInv /\ [Next]_vars => SlotInv'
<1> SUFFICES ASSUME TypeOK, SlotInv, [Next]_vars PROVE SlotInv'
  OBVIOUS
<1>1. ASSUME NEW s \in Calls, Begin(s) PROVE SlotInv'
  <2>1. PICK k \in Slot : /\ ~Taken(svc[s], k)
                          /\ slot' = [slot EXCEPT ![s] = k]
                          /\ reserved' = reserved \cup {Reservation(svc[s], k)}
    BY <1>1 DEF Begin, Reservation
  <2>2. /\ Reservation(svc[s], k) \notin reserved
        /\ \A r \in subs : r.svc = svc[s] => r.slot # k
    BY <2>1 DEF Taken, TakenBySubscription, Reservation
  <2>3. /\ subs' = subs /\ svc' = svc /\ ~UnderWay(s)
        /\ slot'[s] = k
        /\ \A t \in Calls : t # s => slot'[t] = slot[t] /\ (UnderWay(t)' <=> UnderWay(t))
    BY <1>1, <2>1 DEF Begin, UnderWay, TypeOK
  <2>4. \A t \in Calls : UnderWay(t)' => Reservation(svc'[t], slot'[t]) \in reserved'
    BY <2>1, <2>3 DEF SlotInv
  <2>5. ASSUME NEW t \in Calls, NEW u \in Calls, UnderWay(t)', UnderWay(u)',
               svc'[t] = svc'[u], slot'[t] = slot'[u]
        PROVE  t = u
    BY <2>2, <2>3, <2>5 DEF SlotInv, Reservation
  <2>6. \A r \in subs' : Reservation(r.svc, r.slot) \notin reserved'
    BY <2>1, <2>2, <2>3 DEF SlotInv, Reservation
  <2> QED BY <2>3, <2>4, <2>5, <2>6 DEF SlotInv, OneSubscriptionPerSlot
<1>2. ASSUME NEW s \in Calls, Commit(s) PROVE SlotInv'
  <2> DEFINE new == [call |-> s, svc |-> svc[s], slot |-> slot[s], conn |-> link[s]]
  <2>1. /\ reserved' = reserved \ {Reservation(svc[s], slot[s])}
        /\ subs' = subs \cup {new}
        /\ UnderWay(s) /\ ~UnderWay(s)'
        /\ UNCHANGED <<svc, slot>>
        /\ \A t \in Calls : t # s => (UnderWay(t)' <=> UnderWay(t))
    BY <1>2 DEF Commit, UnderWay, TypeOK, Reservation
  <2>2. Reservation(svc[s], slot[s]) \in reserved
    BY <2>1 DEF SlotInv
  <2>3. \A t \in Calls : UnderWay(t)' => Reservation(svc'[t], slot'[t]) \in reserved'
    BY <2>1 DEF SlotInv, Reservation
  <2>4. \A r \in subs : ~(r.svc = svc[s] /\ r.slot = slot[s])
    BY <2>2 DEF SlotInv
  <2>5. \A r \in subs' : Reservation(r.svc, r.slot) \notin reserved'
    BY <2>1 DEF SlotInv
  <2>6. OneSubscriptionPerSlot'
    BY <2>1, <2>4 DEF SlotInv, OneSubscriptionPerSlot
  <2> QED BY <2>1, <2>3, <2>5, <2>6 DEF SlotInv
<1>3. ASSUME NEW s \in Calls, Reject(s) PROVE SlotInv'
  <2>1. /\ reserved' = reserved \ {Reservation(svc[s], slot[s])}
        /\ subs' = subs
        /\ UnderWay(s) /\ ~UnderWay(s)'
        /\ UNCHANGED <<svc, slot>>
        /\ \A t \in Calls : t # s => (UnderWay(t)' <=> UnderWay(t))
    BY <1>3 DEF Reject, UnderWay, TypeOK, Reservation
  <2>2. \A t \in Calls : UnderWay(t)' => Reservation(svc'[t], slot'[t]) \in reserved'
    BY <2>1 DEF SlotInv, Reservation
  <2> QED BY <2>1, <2>2 DEF SlotInv, OneSubscriptionPerSlot
<1>4. ASSUME NEW s \in Calls, Unsubscribe(s) PROVE SlotInv'
  <2>1. \A t \in Calls : UnderWay(t)' => UnderWay(t)
    BY <1>4 DEF Unsubscribe, UnderWay, TypeOK
  <2> QED BY <1>4, <2>1, SlotsUntouched DEF Unsubscribe
<1>5. ASSUME NEW v \in Services, Offer(v) \/ Expire(v) PROVE SlotInv'
  BY <1>5, SlotsUntouched DEF Offer, Expire, tasks, UnderWay
<1>6. ASSUME NEW gone \in SUBSET Services, Withdraw(gone) PROVE SlotInv'
  BY <1>6, SlotsUntouched DEF Withdraw, tasks, UnderWay
<1>7. ASSUME NEW c \in Conn, HandleCleanup(c) \/ Disconnect(c) PROVE SlotInv'
  BY <1>7, SlotsUntouched DEF HandleCleanup, Disconnect, loop, tasks, UnderWay
<1>8. CASE SendConnects
  BY <1>8, SlotsUntouched DEF SendConnects, tasks, UnderWay
<1>9. ASSUME NEW s \in Calls, LookForRpc(s) \/ LookForSlot(s) PROVE SlotInv'
  <2>1. UnderWay(s) /\ \A t \in Calls : t # s => phase'[t] = phase[t]
    BY <1>9 DEF LookForRpc, LookForSlot, UnderWay, TypeOK
  <2>2. \A t \in Calls : UnderWay(t)' => UnderWay(t)
    BY <2>1 DEF UnderWay
  <2> QED BY <1>9, <2>2, SlotsUntouched DEF LookForRpc, LookForSlot, loop
<1>10. ASSUME NEW k \in Key, Connect(k) PROVE SlotInv'
  BY <1>10, SlotsUntouched DEF Connect, loop, tasks, UnderWay
<1>11. ASSUME NEW k \in Key, Publish(k) PROVE SlotInv'
  <2>1. \A t \in Calls : UnderWay(t)' => UnderWay(t)
    BY <1>11 DEF Publish, UnderWay, DialersOf, WaitersOf
  <2> QED BY <1>11, <2>1, SlotsUntouched DEF Publish
<1>12. ASSUME NEW k \in Key, FailToConnect(k) PROVE SlotInv'
  <2>1. \A t \in Calls : UnderWay(t)' => UnderWay(t)
    BY <1>12, NextDialsChanges DEF FailToConnect, UnderWay, DialersOf, WaitersOf
  <2> QED BY <1>12, <2>1, SlotsUntouched DEF FailToConnect
<1>13. CASE UNCHANGED vars
  BY <1>13, SlotsUntouched DEF vars, loop, tasks, UnderWay
<1> QED BY <1>1, <1>2, <1>3, <1>4, <1>5, <1>6, <1>7, <1>8, <1>9, <1>10, <1>11,
           <1>12, <1>13 DEF Next, LoopNext, TaskNext

\* Subscriptions of one service never share a slot (allocate_tcp_conn_key).
THEOREM SlotsStayApart == Spec => []OneSubscriptionPerSlot
<1>1. SlotInv => OneSubscriptionPerSlot
  BY DEF SlotInv
<1> QED BY <1>1, SlotInit, SlotNext, TypeCorrect, PTL DEF Spec

-----------------------------------------------------------------------------
(* Open connections.                                                       *)

LEMMA PoolInit == Init => PoolInv
<1> SUFFICES ASSUME Init PROVE PoolInv
  OBVIOUS
<1>1. \A k \in Key : ~Dialing(k)
  BY DEF Init, Dialing, DialersOf
<1> QED BY <1>1 DEF Init, PoolInv, OpenIsPooled

\* A step that touches neither cells nor connections, and lets a task dial
\* only where a cell is empty, keeps the pool in order.
LEMMA PoolUntouched ==
  ASSUME PoolInv, UNCHANGED <<pool, links>>,
         \A k \in Key : Dialing(k) /\ fresh[k] # NoConn => Dialing(k)',
         \A k \in Key : Dialing(k)' => pool[k] = NoConn
  PROVE  PoolInv'
BY DEF PoolInv, OpenIsPooled, links

LEMMA PoolNext == TypeOK /\ PoolInv /\ [Next]_vars => PoolInv'
<1> SUFFICES ASSUME TypeOK, PoolInv, [Next]_vars PROVE PoolInv'
  OBVIOUS
<1>0. NoConn \notin Conn /\ \A k \in Slot : k \in Key /\ k # RpcSlot
  BY SlotsAreKeys DEF NoConn, Conn
<1>1. ASSUME NEW s \in Calls, Begin(s) \/ Commit(s) \/ Reject(s) \/ Unsubscribe(s)
      PROVE  PoolInv'
  <2>1. \A k \in Key : Dialing(k)' <=> Dialing(k)
    BY <1>1 DEF Begin, Commit, Reject, Unsubscribe, Dialing, DialersOf, TypeOK
  <2>2. UNCHANGED <<pool, links>>
    BY <1>1 DEF Begin, Commit, Reject, Unsubscribe
  <2> QED BY <2>1, <2>2, PoolUntouched DEF PoolInv
<1>2. ASSUME NEW v \in Services, Offer(v) \/ Expire(v) PROVE PoolInv'
  <2>1. \A k \in Key : Dialing(k)' <=> Dialing(k)
    BY <1>2 DEF Offer, Expire, Dialing, DialersOf, tasks
  <2>2. UNCHANGED <<pool, links>>
    BY <1>2 DEF Offer, Expire
  <2> QED BY <2>1, <2>2, PoolUntouched DEF PoolInv
<1>3. ASSUME NEW gone \in SUBSET Services, Withdraw(gone) PROVE PoolInv'
  <2>1. \A k \in Key : Dialing(k)' <=> Dialing(k)
    BY <1>3 DEF Withdraw, Dialing, DialersOf, tasks
  <2>2. /\ UNCHANGED <<fresh, slotOf, cleanups>>
        /\ \A k \in Key : pool'[k] = NoConn
        /\ \A c \in Conn : conns'[c] = IF \E k \in Key : pool[k] = c THEN "closed"
                                                                 ELSE conns[c]
    BY <1>3 DEF Withdraw
  <2>3. \A c \in Conn : conns[c] # "unused" => conns'[c] # "unused"
    BY <2>2
  <2>4. \A c \in cleanups : conns'[c] = "closed"
    BY <2>2 DEF PoolInv, TypeOK
  <2>5. OpenIsPooled'
    <3> SUFFICES ASSUME NEW c \in Conn, conns'[c] = "open"
                 PROVE  fresh[slotOf[c]] = c
      BY <2>2 DEF OpenIsPooled
    <3>1. conns[c] = "open" /\ \A k \in Key : pool[k] # c
      BY <2>2
    <3> QED BY <3>1 DEF PoolInv, OpenIsPooled, TypeOK
  <2>6. \A k \in Key : fresh[k] # NoConn => fresh[k] \in Conn
    BY DEF TypeOK
  <2> QED BY <2>1, <2>2, <2>3, <2>4, <2>5, <2>6 DEF PoolInv
<1>4. ASSUME NEW c \in Conn, HandleCleanup(c) PROVE PoolInv'
  <2>1. \A k \in Key : Dialing(k)' <=> Dialing(k)
    BY <1>4 DEF HandleCleanup, Dialing, DialersOf, loop, tasks
  <2>2. /\ UNCHANGED <<fresh, conns, slotOf>>
        /\ cleanups' \subseteq cleanups
        /\ \A k \in Key : pool'[k] = IF pool[k] = c THEN NoConn ELSE pool[k]
        /\ conns[c] = "closed"
    BY <1>4 DEF HandleCleanup, Cleared, PoolInv
  <2>3. OpenIsPooled'
    BY <2>2 DEF PoolInv, OpenIsPooled, TypeOK
  <2> QED BY <2>1, <2>2, <2>3 DEF PoolInv
<1>5. CASE SendConnects
  <2>1. \A k \in Key : Dialing(k) => Dialing(k)'
    BY <1>5 DEF SendConnects, Dialing, DialersOf, tasks
  <2>2. \A k \in Key : pool[k] = NoConn
    BY <1>5 DEF SendConnects
  <2> QED BY <1>5, <2>1, <2>2, PoolUntouched DEF SendConnects
<1>6. ASSUME NEW s \in Calls, LookForRpc(s) PROVE PoolInv'
  <2>1. \A k \in Key : Dialing(k)' <=> Dialing(k)
    BY <1>6 DEF LookForRpc, Dialing, DialersOf, loop, TypeOK
  <2> QED BY <1>6, <2>1, PoolUntouched DEF LookForRpc, PoolInv
<1>7. ASSUME NEW s \in Calls, LookForSlot(s) PROVE PoolInv'
  <2>1. /\ UNCHANGED <<slot, blocked, pool, links>>
        /\ phase[s] = "lookup"
        /\ \A t \in Calls : t # s => phase'[t] = phase[t]
        /\ phase'[s] = "dialing" => pool[slot[s]] = NoConn
    BY <1>7 DEF LookForSlot, loop, TypeOK
  <2>2. \A k \in Key : Dialing(k) => Dialing(k)'
    BY <2>1 DEF Dialing, DialersOf
  <2>3. ASSUME NEW k \in Key, Dialing(k)' PROVE pool[k] = NoConn
    <3>1. CASE Dialing(k)
      BY <3>1 DEF PoolInv
    <3>2. CASE ~Dialing(k)
      BY <2>1, <2>3, <3>2 DEF Dialing, DialersOf
    <3> QED BY <3>1, <3>2
  <2> QED BY <2>1, <2>2, <2>3, PoolUntouched
<1>8. ASSUME NEW k \in Key, Connect(k) PROVE PoolInv'
  <2>1. PICK c \in Conn : /\ conns[c] = "unused"
                          /\ fresh'  = [fresh EXCEPT ![k] = c]
                          /\ conns'  = [conns EXCEPT ![c] = "open"]
                          /\ slotOf' = [slotOf EXCEPT ![c] = k]
    BY <1>8 DEF Connect
  <2>2. \A j \in Key : Dialing(j)' <=> Dialing(j)
    BY <1>8 DEF Connect, Dialing, DialersOf, loop, tasks
  <2>3. /\ UNCHANGED <<pool, cleanups>> /\ Dialing(k) /\ fresh[k] = NoConn
        /\ fresh'[k] = c /\ conns'[c] = "open" /\ slotOf'[c] = k
        /\ \A j \in Key : j # k => fresh'[j] = fresh[j]
        /\ \A d \in Conn : d # c => conns'[d] = conns[d] /\ slotOf'[d] = slotOf[d]
    BY <1>8, <2>1 DEF Connect, TypeOK
  <2>4. \A j \in Key : pool[j] # c /\ fresh[j] # c
    BY <1>0, <2>1 DEF PoolInv
  <2>5. \A j \in Key : (pool[j] # NoConn => pool[j] \in Conn)
                     /\ (fresh[j] # NoConn => fresh[j] \in Conn)
    BY DEF TypeOK
  <2>6. \A d \in cleanups' : conns'[d] = "closed"
    BY <2>1, <2>3 DEF PoolInv, TypeOK
  <2>7. OpenIsPooled'
    <3> SUFFICES ASSUME NEW d \in Conn, conns'[d] = "open"
                 PROVE  pool'[slotOf'[d]] = d \/ fresh'[slotOf'[d]] = d
      BY DEF OpenIsPooled
    <3>1. CASE d = c
      BY <2>3, <3>1
    <3>2. CASE d # c
      <4>1. slotOf[d] \in Key /\ (pool[slotOf[d]] = d \/ fresh[slotOf[d]] = d)
        BY <2>3, <3>2 DEF PoolInv, OpenIsPooled, TypeOK
      <4> QED BY <1>0, <2>3, <3>2, <4>1
    <3> QED BY <3>1, <3>2
  <2> QED BY <1>0, <2>2, <2>3, <2>4, <2>5, <2>6, <2>7 DEF PoolInv
<1>9. ASSUME NEW k \in Key, Publish(k) PROVE PoolInv'
  <2>1. /\ UNCHANGED <<conns, slotOf, cleanups>>
        /\ fresh[k] # NoConn /\ pool'[k] = fresh[k] /\ fresh'[k] = NoConn
        /\ \A j \in Key : j # k => pool'[j] = pool[j] /\ fresh'[j] = fresh[j]
    BY <1>9 DEF Publish, TypeOK
  <2>2. ~Dialing(k)'
    BY <1>9 DEF Publish, Dialing, DialersOf, WaitersOf
  <2>3. ASSUME NEW j \in Key, j # k PROVE Dialing(j)' <=> Dialing(j)
    <3>1. slot' = slot /\ blocked' = (blocked /\ k # RpcSlot)
      BY <1>9 DEF Publish
    <3>2. \A s \in Calls : slot[s] = j => phase'[s] = phase[s]
      BY <1>9, <2>3 DEF Publish, DialersOf, WaitersOf
    <3>3. DialersOf(j)' = DialersOf(j)
      BY <3>1, <3>2 DEF DialersOf
    <3>4. j = RpcSlot => (blocked' <=> blocked)
      BY <2>3, <3>1 DEF TypeOK
    <3> QED BY <3>3, <3>4 DEF Dialing
  <2>4. pool[k] = NoConn
    BY <2>1 DEF PoolInv
  <2>5. OpenIsPooled'
    <3> SUFFICES ASSUME NEW d \in Conn, conns[d] = "open"
                 PROVE  pool'[slotOf[d]] = d \/ fresh'[slotOf[d]] = d
      BY <2>1 DEF OpenIsPooled
    <3>1. slotOf[d] \in Key /\ (pool[slotOf[d]] = d \/ fresh[slotOf[d]] = d)
      BY DEF PoolInv, OpenIsPooled, TypeOK
    <3> QED BY <1>0, <2>1, <2>4, <3>1
  <2> QED BY <2>1, <2>2, <2>3, <2>4, <2>5 DEF PoolInv
<1>10. ASSUME NEW k \in Key, FailToConnect(k) PROVE PoolInv'
  <2>1. /\ UNCHANGED <<pool, links, slot>> /\ Dialing(k) /\ fresh[k] = NoConn
        /\ blocked' = (blocked /\ k # RpcSlot)
    BY <1>10 DEF FailToConnect
  <2>2. \A s \in Calls :
          \/ phase'[s] = phase[s]
          \/ s \in DialersOf(k) /\ phase'[s] = "failed"
          \/ s \in WaitersOf(k) /\ phase'[s] = "dialing"
    BY <1>10, NextDialsChanges DEF FailToConnect
  <2>3. ASSUME NEW j \in Key, j # k PROVE Dialing(j)' <=> Dialing(j)
    <3>1. \A s \in Calls : slot[s] = j => phase'[s] = phase[s]
      BY <2>2, <2>3 DEF DialersOf, WaitersOf
    <3>2. DialersOf(j)' = DialersOf(j)
      BY <2>1, <3>1 DEF DialersOf
    <3>3. j = RpcSlot => (blocked' <=> blocked)
      BY <2>1, <2>3 DEF TypeOK
    <3> QED BY <3>2, <3>3 DEF Dialing
  <2> QED BY <2>1, <2>3, PoolUntouched DEF PoolInv
<1>11. ASSUME NEW c \in Conn, Disconnect(c) PROVE PoolInv'
  <2>1. \A k \in Key : Dialing(k)' <=> Dialing(k)
    BY <1>11 DEF Disconnect, Dialing, DialersOf, loop, tasks
  <2>2. /\ UNCHANGED <<pool, fresh, slotOf>>
        /\ cleanups' = cleanups \cup {c}
        /\ conns'[c] = "closed" /\ \A d \in Conn : d # c => conns'[d] = conns[d]
    BY <1>11 DEF Disconnect, TypeOK
  <2>3. /\ \A j \in Key : (pool[j] # NoConn => pool[j] \in Conn)
                        /\ (fresh[j] # NoConn => fresh[j] \in Conn)
        /\ cleanups \subseteq Conn
    BY DEF TypeOK
  <2>4. OpenIsPooled'
    BY <2>2 DEF PoolInv, OpenIsPooled
  <2> QED BY <2>1, <2>2, <2>3, <2>4 DEF PoolInv
<1>12. CASE UNCHANGED vars
  <2>1. \A k \in Key : Dialing(k)' <=> Dialing(k)
    BY <1>12 DEF vars, loop, tasks, Dialing, DialersOf
  <2> QED BY <1>12, <2>1, PoolUntouched DEF vars, PoolInv
<1> QED BY <1>1, <1>2, <1>3, <1>4, <1>5, <1>6, <1>7, <1>8, <1>9, <1>10, <1>11,
           <1>12 DEF Next, LoopNext, TaskNext

\* An open connection is in the cell of its key, or about to be put there
\* (ensure_connected, handle_cleanup, close_endpoints).
THEOREM OpenStaysPooled == Spec => []OpenIsPooled
<1>1. PoolInv => OpenIsPooled
  BY DEF PoolInv
<1> QED BY <1>1, PoolInit, PoolNext, TypeCorrect, PTL DEF Spec


-----------------------------------------------------------------------------
(* Attempts to connect.                                                    *)

\* What the invariant says of the state of tasks and cells.
LEMMA AttemptsUntouched ==
  ASSUME TypeOK, WaitersHaveDialer,
         \A s \in Calls : phase'[s] # phase[s] \/ slot'[s] # slot[s] =>
           /\ phase[s] \notin {"waiting", "dialing"}
           /\ phase'[s] \notin {"waiting", "dialing"},
         \A k \in Key : pool[k] = NoConn => pool'[k] = NoConn
  PROVE  WaitersHaveDialer'
<1>1. \A s \in Calls : phase[s] \in {"waiting", "dialing"} \/ phase'[s] \in {"waiting", "dialing"}
        => phase'[s] = phase[s] /\ slot'[s] = slot[s]
  OBVIOUS
<1>2. \A s \in Calls : slot[s] \in Key
  BY DEF TypeOK
<1> QED BY <1>1, <1>2 DEF WaitersHaveDialer, DialersOf

LEMMA AttemptsLook ==
  ASSUME TypeOK, WaitersHaveDialer, NEW s \in Calls, LookForSlot(s)
  PROVE  WaitersHaveDialer'
<1> DEFINE k == slot[s]
<1>1. /\ UNCHANGED <<pool, slot>> /\ phase[s] = "lookup"
      /\ \A t \in Calls : t # s => phase'[t] = phase[t]
  BY DEF LookForSlot, loop, links, TypeOK
<1>2. CASE phase'[s] = "connected"
  BY <1>1, <1>2 DEF WaitersHaveDialer, DialersOf
<1>3. CASE pool[k] = NoConn /\ phase'[s] = "waiting" /\ DialersOf(k) # {}
  <2>1. \E t \in Calls : phase'[t] = "dialing" /\ slot[t] = k
    BY <1>1, <1>3 DEF DialersOf
  <2> QED BY <1>1, <1>3, <2>1 DEF WaitersHaveDialer, DialersOf
<1>4. CASE pool[k] = NoConn /\ phase'[s] = "dialing" /\ DialersOf(k) = {}
  <2>1. \A t \in Calls : phase[t] = "waiting" => slot[t] # k
    BY <1>4 DEF WaitersHaveDialer, DialersOf
  <2>2. DialersOf(k)' = {s}
    BY <1>1, <1>4 DEF DialersOf
  <2>3. \A t \in Calls : t # s /\ phase[t] = "dialing" =>
          slot[t] # k /\ DialersOf(slot[t])' = DialersOf(slot[t])
    BY <1>1, <1>4 DEF DialersOf
  <2> QED BY <1>1, <1>4, <2>1, <2>2, <2>3 DEF WaitersHaveDialer, DialersOf
<1>5. Dialing(k) <=> DialersOf(k) # {}
  BY SlotsAreKeys DEF Dialing, TypeOK
<1>6. \/ phase'[s] = "connected"
      \/ pool[k] = NoConn /\ phase'[s] = IF Dialing(k) THEN "waiting" ELSE "dialing"
  BY DEF LookForSlot, TypeOK
<1> QED BY <1>2, <1>3, <1>4, <1>5, <1>6

\* All who dial or wait for the cell go on together.
LEMMA AttemptsPublish ==
  ASSUME TypeOK, WaitersHaveDialer, NEW k \in Key, Publish(k)
  PROVE  WaitersHaveDialer'
<1>1. /\ UNCHANGED slot
      /\ \A s \in Calls :
           phase'[s] = IF slot[s] = k /\ phase[s] \in {"waiting", "dialing"}
                       THEN "connected" ELSE phase[s]
      /\ \A j \in Key : j # k => pool'[j] = pool[j]
  BY DEF Publish, DialersOf, WaitersOf, TypeOK
<1>2. \A s \in Calls : slot[s] \in Key
  BY DEF TypeOK
<1> QED BY <1>1, <1>2 DEF WaitersHaveDialer, DialersOf

\* Whoever dials next is the only one.
LEMMA AttemptsFail ==
  ASSUME TypeOK, WaitersHaveDialer, NEW k \in Key, FailToConnect(k)
  PROVE  WaitersHaveDialer'
<1>1. PICK heir \in IF WaitersOf(k) = {} THEN {{}} ELSE {{w} : w \in WaitersOf(k)} :
        phase' = [s \in Calls |-> IF s \in DialersOf(k) THEN "failed"
                                  ELSE IF s \in heir THEN "dialing" ELSE phase[s]]
  BY DEF FailToConnect, NextDials
<1>2. UNCHANGED <<slot, pool>> /\ \A s \in Calls : slot[s] \in Key
  BY DEF FailToConnect, TypeOK
<1>3. /\ heir \subseteq WaitersOf(k)
      /\ \A s, t \in heir : s = t
      /\ WaitersOf(k) # {} => heir # {}
  OBVIOUS
<1>4. \A s \in Calls : s \in WaitersOf(k) <=> slot[s] = k /\ phase[s] = "waiting"
  BY DEF WaitersOf
<1>5. \A s \in Calls : s \in DialersOf(k) <=> slot[s] = k /\ phase[s] = "dialing"
  BY DEF DialersOf
<1>6. \A s \in Calls : slot[s] # k => phase'[s] = phase[s]
  BY <1>1, <1>3, <1>4, <1>5
<1>7. \A s \in Calls : slot[s] = k =>
        /\ phase'[s] = "dialing" <=> s \in heir
        /\ phase'[s] = "waiting" => phase[s] = "waiting"
  BY <1>1, <1>3, <1>4, <1>5
<1>8. ASSUME NEW w \in WaitersOf(k) PROVE pool[k] = NoConn
  <2>1. w \in Calls /\ slot[w] = k /\ phase[w] = "waiting"
    BY DEF WaitersOf
  <2>2. PICK t \in Calls : phase[t] = "dialing" /\ slot[t] = k
    BY <2>1 DEF WaitersHaveDialer
  <2> QED BY <2>2 DEF WaitersHaveDialer
<1>9. ASSUME NEW s \in Calls, slot[s] = k
      PROVE  /\ phase'[s] = "waiting" => \E t \in Calls : phase'[t] = "dialing" /\ slot[t] = k
             /\ phase'[s] = "dialing" => DialersOf(k)' = {s} /\ pool[k] = NoConn
  <2>1. phase'[s] = "waiting" => \E t \in Calls : phase'[t] = "dialing" /\ slot[t] = k
    BY <1>3, <1>4, <1>7, <1>9 DEF WaitersOf
  <2>2. ASSUME phase'[s] = "dialing" PROVE DialersOf(k)' = {s} /\ pool[k] = NoConn
    <3>1. s \in heir /\ WaitersOf(k) # {}
      BY <1>3, <1>7, <1>9, <2>2
    <3>2. \A t \in Calls : t \in DialersOf(k)' <=> t = s
      BY <1>2, <1>3, <1>7, <1>9, <2>2, <3>1 DEF DialersOf
    <3>3. DialersOf(k)' \subseteq Calls
      BY DEF DialersOf
    <3> QED BY <1>8, <3>1, <3>2, <3>3
  <2> QED BY <2>1, <2>2
<1>10. ASSUME NEW s \in Calls, slot[s] # k
       PROVE  /\ phase'[s] = "waiting" => \E t \in Calls : phase'[t] = "dialing" /\ slot[t] = slot[s]
              /\ phase'[s] = "dialing" => DialersOf(slot[s])' = {s} /\ pool[slot[s]] = NoConn
  BY <1>2, <1>6, <1>10 DEF WaitersHaveDialer, DialersOf
<1> QED BY <1>2, <1>9, <1>10 DEF WaitersHaveDialer

LEMMA AttemptsNext == TypeOK /\ WaitersHaveDialer /\ [Next]_vars => WaitersHaveDialer'
<1> SUFFICES ASSUME TypeOK, WaitersHaveDialer, [Next]_vars PROVE WaitersHaveDialer'
  OBVIOUS
<1> DEFINE Calm == /\ \A s \in Calls : phase'[s] # phase[s] \/ slot'[s] # slot[s] =>
                        /\ phase[s] \notin {"waiting", "dialing"}
                        /\ phase'[s] \notin {"waiting", "dialing"}
                   /\ \A k \in Key : pool[k] = NoConn => pool'[k] = NoConn
<1>1. Calm => WaitersHaveDialer'
  BY AttemptsUntouched
<1>2. ASSUME NEW s \in Calls,
             Begin(s) \/ Commit(s) \/ Reject(s) \/ Unsubscribe(s) \/ LookForRpc(s)
      PROVE  Calm
  BY <1>2 DEF Begin, Commit, Reject, Unsubscribe, LookForRpc, TypeOK
<1>3. ASSUME NEW v \in Services, Offer(v) \/ Expire(v) PROVE Calm
  BY <1>3 DEF Offer, Expire, tasks
<1>4. ASSUME NEW gone \in SUBSET Services, Withdraw(gone) PROVE Calm
  BY <1>4 DEF Withdraw, tasks
<1>5. ASSUME NEW c \in Conn, HandleCleanup(c) \/ Disconnect(c) PROVE Calm
  BY <1>5 DEF HandleCleanup, Disconnect, Cleared, loop, tasks
<1>6. SendConnects \/ UNCHANGED vars => Calm
  BY DEF SendConnects, vars, tasks
<1>7. ASSUME NEW k \in Key, Connect(k) PROVE Calm
  BY <1>7 DEF Connect, tasks
<1> HIDE DEF Calm
<1> QED BY <1>1, <1>2, <1>3, <1>4, <1>5, <1>6, <1>7, AttemptsLook, AttemptsPublish,
           AttemptsFail DEF Next, LoopNext, TaskNext

\* One attempt for a key at a time, and nobody waits without one.
THEOREM AttemptsCorrect == Spec => []WaitersHaveDialer
<1>1. Init => WaitersHaveDialer
  BY DEF Init, WaitersHaveDialer
<1> QED BY <1>1, AttemptsNext, TypeCorrect, PTL DEF Spec

-----------------------------------------------------------------------------
(* Connections of subscriptions.                                           *)

\* Is c a connection made for slot k, or for RPC?
MadeFor(c, k) ==
  c # NoConn /\ conns[c] # "unused" /\ slotOf[c] \in {k, RpcSlot}

\* What a task has found for its call and what a subscription is registered
\* with was made for its slot or for RPC.
LinkInv ==
  /\ \A s \in Calls : phase[s] = "connected" => MadeFor(link[s], slot[s])
  /\ \A r \in subs : MadeFor(r.conn, r.slot)

\* A connection that was made keeps its slot.
LEMMA MadeForKept ==
  ASSUME TypeOK, [Next]_vars, NEW c \in Conn \cup {NoConn}, NEW k, MadeFor(c, k)
  PROVE  MadeFor(c, k)'
<1>1. c \in Conn /\ c # NoConn /\ conns[c] # "unused"
  BY DEF MadeFor
<1>2. slotOf'[c] = slotOf[c] /\ conns'[c] # "unused"
  <2>1. CASE UNCHANGED <<slotOf, conns>>
    BY <1>1, <2>1
  <2>2. ASSUME NEW gone \in SUBSET Services, Withdraw(gone)
        PROVE  slotOf'[c] = slotOf[c] /\ conns'[c] # "unused"
    BY <1>1, <2>2 DEF Withdraw
  <2>3. ASSUME NEW d \in Conn, Disconnect(d)
        PROVE  slotOf'[c] = slotOf[c] /\ conns'[c] # "unused"
    BY <1>1, <2>3 DEF Disconnect, TypeOK
  <2>4. ASSUME NEW j \in Key, Connect(j)
        PROVE  slotOf'[c] = slotOf[c] /\ conns'[c] # "unused"
    BY <1>1, <2>4 DEF Connect, TypeOK
  <2>5. ASSUME NEW s \in Calls,
               \/ Begin(s) \/ Commit(s) \/ Reject(s) \/ Unsubscribe(s)
               \/ LookForRpc(s) \/ LookForSlot(s)
        PROVE  UNCHANGED <<slotOf, conns>>
    BY <2>5 DEF Begin, Commit, Reject, Unsubscribe, LookForRpc, LookForSlot, links
  <2>6. ASSUME NEW v \in Services, Offer(v) \/ Expire(v) PROVE UNCHANGED <<slotOf, conns>>
    BY <2>6 DEF Offer, Expire, links
  <2>7. ASSUME NEW d \in Conn, HandleCleanup(d) PROVE UNCHANGED <<slotOf, conns>>
    BY <2>7 DEF HandleCleanup
  <2>8. ASSUME NEW j \in Key, Publish(j) \/ FailToConnect(j) PROVE UNCHANGED <<slotOf, conns>>
    BY <2>8 DEF Publish, FailToConnect, links
  <2>9. SendConnects \/ UNCHANGED vars => UNCHANGED <<slotOf, conns>>
    BY DEF SendConnects, vars, links
  <2> QED BY <2>1, <2>2, <2>3, <2>4, <2>5, <2>6, <2>7, <2>8, <2>9
             DEF Next, LoopNext, TaskNext
<1> QED BY <1>1, <1>2 DEF MadeFor

\* A step that connects no task and adds no subscription.
LEMMA LinksUntouched ==
  ASSUME TypeOK, LinkInv, [Next]_vars, subs' \subseteq subs,
         \A s \in Calls : phase'[s] = "connected" =>
           phase[s] = "connected" /\ link'[s] = link[s] /\ slot'[s] = slot[s]
  PROVE  LinkInv'
<1>1. \A s \in Calls : phase'[s] = "connected" => MadeFor(link[s], slot[s])'
  <2> SUFFICES ASSUME NEW s \in Calls, phase'[s] = "connected"
               PROVE  MadeFor(link[s], slot[s])'
    OBVIOUS
  <2>1. MadeFor(link[s], slot[s]) /\ link[s] \in Conn \cup {NoConn}
    BY DEF LinkInv, TypeOK
  <2>2. link'[s] = link[s] /\ slot'[s] = slot[s]
    OBVIOUS
  <2>3. link[s] # NoConn /\ conns'[link[s]] # "unused" /\ slotOf'[link[s]] \in {slot[s], RpcSlot}
    BY <2>1, MadeForKept DEF MadeFor
  <2> QED BY <2>2, <2>3 DEF MadeFor
<1>2. ASSUME NEW r \in subs' PROVE MadeFor(r.conn, r.slot)'
  <2>1. r \in subs /\ r.conn \in Conn \cup {NoConn}
    BY <1>2 DEF TypeOK, Subscription
  <2> QED BY <2>1, MadeForKept DEF LinkInv
<1> QED BY <1>1, <1>2 DEF LinkInv

LEMMA LinksFound ==
  ASSUME TypeOK, PoolInv, LinkInv, [Next]_vars, UNCHANGED <<subs, slot, slotOf, conns>>,
         \A s \in Calls : phase'[s] = "connected" =>
           \/ phase[s] = "connected" /\ link'[s] = link[s]
           \/ \E k \in {slot[s], RpcSlot} : \/ link'[s] = pool[k] /\ pool[k] # NoConn
                                            \/ link'[s] = fresh[k] /\ fresh[k] # NoConn
  PROVE  LinkInv'
<1>1. ASSUME NEW s \in Calls, phase'[s] = "connected" PROVE MadeFor(link[s], slot[s])'
  <2>1. CASE phase[s] = "connected" /\ link'[s] = link[s]
    BY <2>1 DEF LinkInv, MadeFor
  <2>2. ASSUME NEW k \in {slot[s], RpcSlot},
               \/ link'[s] = pool[k] /\ pool[k] # NoConn
               \/ link'[s] = fresh[k] /\ fresh[k] # NoConn
        PROVE  MadeFor(link[s], slot[s])'
    <3>1. k \in Key
      BY SlotsAreKeys DEF TypeOK
    <3>2. slotOf[link'[s]] = k /\ conns[link'[s]] # "unused" /\ link'[s] # NoConn
      BY <2>2, <3>1 DEF PoolInv
    <3> QED BY <3>2 DEF MadeFor
  <2> QED BY <1>1, <2>1, <2>2
<1>2. \A r \in subs' : MadeFor(r.conn, r.slot)'
  BY DEF LinkInv, MadeFor
<1> QED BY <1>1, <1>2 DEF LinkInv

LEMMA LinkNext == TypeOK /\ PoolInv /\ LinkInv /\ [Next]_vars => LinkInv'
<1> SUFFICES ASSUME TypeOK, PoolInv, LinkInv, [Next]_vars PROVE LinkInv'
  OBVIOUS
<1> DEFINE Calm == /\ subs' \subseteq subs
                   /\ \A s \in Calls : phase'[s] = "connected" =>
                        phase[s] = "connected" /\ link'[s] = link[s] /\ slot'[s] = slot[s]
<1>1. Calm => LinkInv'
  BY LinksUntouched
<1>2. ASSUME NEW s \in Calls, Begin(s) \/ Reject(s) \/ Unsubscribe(s) PROVE Calm
  BY <1>2 DEF Begin, Reject, Unsubscribe, TypeOK
<1>3. ASSUME NEW s \in Calls, Commit(s) PROVE LinkInv'
  <2> DEFINE new == [call |-> s, svc |-> svc[s], slot |-> slot[s], conn |-> link[s]]
  <2>1. /\ subs' = subs \cup {new} /\ phase[s] = "connected"
        /\ UNCHANGED <<slot, link, slotOf, conns>>
        /\ \A t \in Calls : phase'[t] = "connected" => phase[t] = "connected"
    BY <1>3 DEF Commit, links, TypeOK
  <2>2. new.slot = slot[s] /\ new.conn = link[s]
    OBVIOUS
  <2> HIDE DEF new
  <2> QED BY <2>1, <2>2 DEF LinkInv, MadeFor
<1>4. ASSUME NEW v \in Services, Offer(v) \/ Expire(v) PROVE Calm
  BY <1>4 DEF Offer, Expire, tasks
<1>5. ASSUME NEW gone \in SUBSET Services, Withdraw(gone) PROVE Calm
  BY <1>5 DEF Withdraw, tasks
<1>6. ASSUME NEW c \in Conn, HandleCleanup(c) \/ Disconnect(c) PROVE Calm
  BY <1>6 DEF HandleCleanup, Disconnect, loop, tasks
<1>7. SendConnects \/ UNCHANGED vars => Calm
  BY DEF SendConnects, vars, loop, tasks
<1>8. ASSUME NEW k \in Key, Connect(k) PROVE Calm
  BY <1>8 DEF Connect, loop, tasks
<1>9. ASSUME NEW k \in Key, FailToConnect(k) PROVE Calm
  <2>1. \A s \in Calls : phase'[s] = phase[s] \/ phase'[s] \in {"failed", "dialing"}
    BY <1>9, NextDialsChanges DEF FailToConnect
  <2> QED BY <1>9, <2>1 DEF FailToConnect
<1>10. ASSUME NEW s \in Calls, LookForRpc(s) \/ LookForSlot(s) PROVE LinkInv'
  <2>1. /\ UNCHANGED <<subs, slot, slotOf, conns>>
        /\ \A t \in Calls : phase'[t] = "connected" =>
             \/ phase[t] = "connected" /\ link'[t] = link[t]
             \/ \E k \in {slot[t], RpcSlot} : link'[t] = pool[k] /\ pool[k] # NoConn
    BY <1>10 DEF LookForRpc, LookForSlot, loop, links, TypeOK
  <2> QED BY <2>1, LinksFound
<1>11. ASSUME NEW k \in Key, Publish(k) PROVE LinkInv'
  <2>1. /\ UNCHANGED <<subs, slot, slotOf, conns>>
        /\ \A t \in Calls : phase'[t] = "connected" =>
             \/ phase[t] = "connected" /\ link'[t] = link[t]
             \/ slot[t] = k /\ link'[t] = fresh[k] /\ fresh[k] # NoConn
    BY <1>11 DEF Publish, DialersOf, WaitersOf, TypeOK
  <2> QED BY <2>1, LinksFound
<1> HIDE DEF Calm
<1> QED BY <1>1, <1>2, <1>3, <1>4, <1>5, <1>6, <1>7, <1>8, <1>9, <1>10, <1>11
           DEF Next, LoopNext, TaskNext

\* No subscription is registered with the connection of another slot.
THEOREM ConnectionsAreOwn == Spec => []RegisteredWithOwn
<1>1. Init => LinkInv
  BY DEF Init, LinkInv
<1>2. LinkInv => RegisteredWithOwn
  BY DEF LinkInv, MadeFor, RegisteredWithOwn
<1> QED BY <1>1, <1>2, LinkNext, PoolInit, PoolNext, TypeCorrect, PTL DEF Spec
=============================================================================
