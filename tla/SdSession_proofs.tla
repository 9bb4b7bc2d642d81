-------------------------- MODULE SdSession_proofs --------------------------
(***************************************************************************)
(* TLAPS proofs about SdSession: type correctness, the inductive invariant *)
(* SessionInv for a network that keeps the order of a channel, and with it *)
(* that a peer acts at most once on a restart and never without one.       *)
(***************************************************************************)
EXTENDS SdSession, SequenceTheorems, FiniteSetTheorems, TLAPS

(***************************************************************************)
(* Removing the i-th element of a sequence.                                *)
(***************************************************************************)
LEMMA RemoveAtProperties ==
  ASSUME NEW S, NEW s \in Seq(S), NEW i \in 1..Len(s)
  PROVE  /\ RemoveAt(s, i) \in Seq(S)
         /\ Len(RemoveAt(s, i)) = Len(s) - 1
         /\ \A k \in 1..(Len(s) - 1) :
              RemoveAt(s, i)[k] = IF k < i THEN s[k] ELSE s[k + 1]
<1> DEFINE a == SubSeq(s, 1, i - 1)
           b == SubSeq(s, i + 1, Len(s))
<1>0. \A k \in 1..Len(s) : s[k] \in S
  OBVIOUS
<1>1. a \in Seq(S) /\ Len(a) = i - 1 /\ \A k \in 1..(i - 1) : a[k] = s[k]
  BY <1>0, SubSeqProperties, SMTT(20)
<1>2. /\ b \in Seq(S) /\ Len(b) = Len(s) - i
      /\ \A k \in 1..(Len(s) - i) : b[k] = s[i + k]
  BY <1>0, SubSeqProperties, SMTT(20)
<1> HIDE DEF a, b
<1>3. /\ a \o b \in Seq(S)
      /\ Len(a \o b) = Len(a) + Len(b)
      /\ \A k \in 1..(Len(a) + Len(b)) :
           (a \o b)[k] = IF k <= Len(a) THEN a[k] ELSE b[k - Len(a)]
  BY <1>1, <1>2, ConcatProperties
<1>4. RemoveAt(s, i) = a \o b
  BY DEF RemoveAt, a, b
<1>5. \A k \in 1..(Len(s) - 1) :
        (a \o b)[k] = IF k < i THEN s[k] ELSE s[k + 1]
  <2> TAKE k \in 1..(Len(s) - 1)
  <2>1. CASE k < i
    BY <2>1, <1>1, <1>2, <1>3
  <2>2. CASE ~(k < i)
    <3>1. k - Len(a) \in 1..(Len(s) - i) /\ i + (k - Len(a)) = k + 1
      BY <2>2, <1>1
    <3>2. k \in 1..(Len(a) + Len(b)) /\ ~(k <= Len(a))
      BY <2>2, <1>1, <1>2
    <3> QED BY <2>2, <3>1, <3>2, <1>2, <1>3
  <2> QED BY <2>1, <2>2
<1>6. Len(a \o b) = Len(s) - 1
  BY <1>1, <1>2, <1>3
<1>7. /\ a \o b \in Seq(S)
      /\ Len(a \o b) = Len(s) - 1
      /\ \A k \in 1..(Len(s) - 1) :
           (a \o b)[k] = IF k < i THEN s[k] ELSE s[k + 1]
  BY <1>3, <1>5, <1>6
<1> QED BY <1>4, <1>7, Zenon

(***************************************************************************)
(* The counter stays within 1..MaxSid.                                     *)
(***************************************************************************)
LEMMA NthSidType ==
  ASSUME NEW ch \in Channel, next[ch] \in Sid, NEW k \in 1..(MaxSid + 1)
  PROVE  NthSid(ch, k) \in Sid
BY SidAssumption DEF NthSid, Sid

(***************************************************************************)
(* Drawing n ids keeps the counters' types.                                *)
(***************************************************************************)
LEMMA DrawType ==
  ASSUME next \in [Channel -> Sid], wrapped \in [Channel -> BOOLEAN],
         NEW ch \in Channel, NEW n \in 1..MaxSid, Draw(ch, n)
  PROVE  next' \in [Channel -> Sid] /\ wrapped' \in [Channel -> BOOLEAN]
<1>1. NthSid(ch, n + 1) \in Sid
  BY NthSidType, SidAssumption DEF Sid
<1>2. (wrapped[ch] \/ next[ch] + n > MaxSid) \in BOOLEAN
  OBVIOUS
<1> QED BY <1>1, <1>2 DEF Draw

(***************************************************************************)
(* Every variable keeps its type, whatever the network does.               *)
(***************************************************************************)
LEMMA TypeInit == Init => TypeOK
<1> SUFFICES ASSUME Init PROVE TypeOK
  OBVIOUS
<1>1. 1 \in Sid /\ 1 \in Boot
  BY SidAssumption, BoundAssumption DEF Sid, Boot
<1>2. <<>> \in Seq(Message)
  OBVIOUS
<1>3. NoSession \in ChannelSession
  BY SidAssumption DEF NoSession, ChannelSession
<1>4. 0 \in 0..MaxBoot /\ 0 \in 0..2
  BY BoundAssumption
<1>5. /\ next \in [Channel -> Sid] /\ wrapped \in [Channel -> BOOLEAN]
      /\ captured \in Waiting /\ queued \in [Peers -> Waiting]
  BY <1>1 DEF Init, Waiting
<1>6. /\ net \in [Peers -> [Channel -> Seq(Message)]]
      /\ session \in [Peers -> [Channel -> ChannelSession]]
  BY <1>2, <1>3 DEF Init
<1>7. /\ boot \in Boot /\ stale \in BOOLEAN
      /\ heard \in [Peers -> [Channel -> 0..MaxBoot]]
      /\ alarms \in [Peers -> [Boot -> 0..2]]
  BY <1>1, <1>4 DEF Init
<1> QED BY <1>5, <1>6, <1>7 DEF TypeOK

LEMMA TypeNext == TypeOK /\ [Next]_vars => TypeOK'
<1> SUFFICES ASSUME TypeOK, [Next]_vars PROVE TypeOK'
  OBVIOUS
<1> USE DEF TypeOK
<1>f. ASSUME NEW ch \in Channel PROVE SdFlags(ch) \in {"rebooted", "running"}
  BY DEF SdFlags
<1>1. CASE SendMulticast
  <2> DEFINE m == [sid    |-> next["multicast"],
                   reboot |-> SdFlags("multicast") = "rebooted",
                   boot   |-> boot]
  <2>1. m \in Message
    BY DEF Message, Channel
  <2>2. 1 \in 1..MaxSid /\ "multicast" \in Channel
    BY SidAssumption DEF Channel
  <2>3. next' \in [Channel -> Sid] /\ wrapped' \in [Channel -> BOOLEAN]
    BY <1>1, <2>2, DrawType DEF SendMulticast
  <2>4. net' \in [Peers -> [Channel -> Seq(Message)]]
    <3> HIDE DEF m
    <3>1. net' = [p \in Peers |->
                    [net[p] EXCEPT !["multicast"] = Append(@, m)]]
      BY <1>1 DEF SendMulticast, m
    <3>2. ASSUME NEW p \in Peers
          PROVE  [net[p] EXCEPT !["multicast"] = Append(@, m)]
                   \in [Channel -> Seq(Message)]
      BY <2>1, <2>2
    <3> QED BY <3>1, <3>2
  <2> QED BY <1>1, <2>3, <2>4 DEF SendMulticast
<1>2. CASE StartTcpSubscribe
  BY <1>2, <1>f DEF StartTcpSubscribe, Waiting, Channel
<1>3. CASE FailTcpSubscribe
  BY <1>3 DEF FailTcpSubscribe, Waiting
<1>4. CASE Flush
  <2> DEFINE targets == {p \in Peers : queued[p] # "none"}
             n       == Cardinality(targets)
  <2>1. n \in 1..MaxSid
    <3>1. IsFiniteSet(targets)
      BY PeersAssumption, FS_Subset
    <3>2. n \in Nat /\ n # 0
      BY <1>4, <3>1, FS_CardinalityType, FS_EmptySet DEF Flush
    <3> QED BY <1>4, <3>2, SidAssumption DEF Flush
  <2>2. "unicast" \in Channel
    BY DEF Channel
  <2>3. next' \in [Channel -> Sid] /\ wrapped' \in [Channel -> BOOLEAN]
    BY <1>4, <2>1, <2>2, DrawType DEF Flush
  <2>4. PICK order \in [targets -> 1..n] :
          net' = [p \in Peers |->
                IF p \in targets
                THEN [net[p] EXCEPT !["unicast"] =
                        Append(@, [sid    |-> NthSid("unicast", order[p]),
                                   reboot |-> queued[p] = "rebooted",
                                   boot   |-> boot])]
                ELSE net[p]]
    BY <1>4 DEF Flush
  <2>5. ASSUME NEW p \in targets
        PROVE  [sid    |-> NthSid("unicast", order[p]),
                reboot |-> queued[p] = "rebooted",
                boot   |-> boot] \in Message
    <3> HIDE DEF n
    <3>1. order[p] \in 1..(MaxSid + 1)
      BY <2>1, <2>4, SidAssumption
    <3> QED BY <2>2, <3>1, NthSidType DEF Message
  <2>6. net' \in [Peers -> [Channel -> Seq(Message)]]
    <3> SUFFICES ASSUME NEW p \in Peers
                 PROVE  net'[p] \in [Channel -> Seq(Message)]
      BY <2>4
    <3>1. CASE p \notin targets
      BY <3>1, <2>4
    <3>2. CASE p \in targets
      <4> DEFINE m == [sid    |-> NthSid("unicast", order[p]),
                       reboot |-> queued[p] = "rebooted",
                       boot   |-> boot]
      <4>1. net'[p] = [net[p] EXCEPT !["unicast"] = Append(@, m)]
        BY <3>2, <2>4
      <4>2. m \in Message
        BY <3>2, <2>5
      <4> HIDE DEF m
      <4> QED BY <2>2, <4>1, <4>2
    <3> QED BY <3>1, <3>2
  <2>7. stale' \in BOOLEAN
    BY <1>4 DEF Flush
  <2> QED BY <1>4, <2>3, <2>6, <2>7 DEF Flush, Waiting
<1>5. CASE Restart
  <2>1. boot' \in Boot
    BY <1>5, BoundAssumption DEF Restart, Boot
  <2>2. 1 \in Sid
    BY SidAssumption DEF Sid
  <2> QED BY <1>5, <2>1, <2>2 DEF Restart, Waiting
<1>6. ASSUME NEW p \in Peers, QueueUnicast(p) PROVE TypeOK'
  BY <1>6, <1>f DEF QueueUnicast, Enqueue, Waiting, Channel
<1>7. ASSUME NEW p \in Peers, FinishTcpSubscribe(p) PROVE TypeOK'
  BY <1>7 DEF FinishTcpSubscribe, Enqueue, Waiting
<1>8. ASSUME NEW p \in Peers, NEW ch \in Channel, NEW i \in 1..Len(net[p][ch]),
             Deliver(p, ch, i)
      PROVE  TypeOK'
  <2> DEFINE m == net[p][ch][i]
  <2>1. m \in Message
    OBVIOUS
  <2>2. net' \in [Peers -> [Channel -> Seq(Message)]]
    BY <1>8, RemoveAtProperties DEF Deliver
  <2>3. [id |-> m.sid, flag |-> m.reboot] \in ChannelSession
    BY <2>1, SidAssumption DEF Message, ChannelSession, Sid
  <2>4. NoSession \in ChannelSession
    BY SidAssumption DEF NoSession, ChannelSession
  <2>5. session' \in [Peers -> [Channel -> ChannelSession]]
    <3> DEFINE fresh == IF RebootDetected(session[p][ch], m)
                        THEN [c \in Channel |-> NoSession]
                        ELSE [session[p] EXCEPT ![ch] =
                                [id |-> m.sid, flag |-> m.reboot]]
    <3>1. fresh \in [Channel -> ChannelSession]
      BY <2>3, <2>4
    <3>2. session' = [session EXCEPT ![p] = fresh]
      BY <1>8 DEF Deliver
    <3> HIDE DEF fresh
    <3> QED BY <3>1, <3>2
  <2>6. heard' \in [Peers -> [Channel -> 0..MaxBoot]]
    <3>1. m.boot \in 0..MaxBoot
      BY <2>1, BoundAssumption DEF Message, Boot
    <3> QED BY <1>8, <3>1 DEF Deliver
  <2>7. alarms' \in [Peers -> [Boot -> 0..2]]
    <3> DEFINE b == m.boot
    <3>1. b \in Boot
      BY <2>1 DEF Message
    <3>2. \/ alarms' = alarms
          \/ /\ alarms[p][b] < 2
             /\ alarms' = [alarms EXCEPT ![p][b] = @ + 1]
      BY <1>8 DEF Deliver
    <3> HIDE DEF b
    <3>3. alarms[p] \in [Boot -> 0..2] /\ alarms[p][b] \in 0..2
      BY <3>1
    <3>4. alarms[p][b] < 2 => alarms[p][b] + 1 \in 0..2
      BY <3>3
    <3>5. CASE alarms' = alarms
      BY <3>5
    <3>6. CASE /\ alarms[p][b] < 2
               /\ alarms' = [alarms EXCEPT ![p][b] = @ + 1]
      <4>1. [alarms[p] EXCEPT ![b] = @ + 1] \in [Boot -> 0..2]
        BY <3>1, <3>3, <3>4, <3>6
      <4>2. alarms' = [alarms EXCEPT ![p] = [alarms[p] EXCEPT ![b] = @ + 1]]
        BY <3>6
      <4> QED BY <4>1, <4>2
    <3> QED BY <3>2, <3>5, <3>6
  <2> QED BY <1>8, <2>2, <2>5, <2>6, <2>7 DEF Deliver
<1>9. ASSUME NEW p \in Peers, NEW ch \in Channel, NEW i \in 1..Len(net[p][ch]),
             Lose(p, ch, i)
      PROVE  TypeOK'
  BY <1>9, RemoveAtProperties DEF Lose
<1>10. CASE UNCHANGED vars
  BY <1>10 DEF vars
<1> QED BY <1>1, <1>2, <1>3, <1>4, <1>5, <1>6, <1>7, <1>8, <1>9, <1>10 DEF Next

\* The state of sender, network and receivers keeps its shape: TypeOK.
THEOREM TypeCorrect == Spec => []TypeOK
BY TypeInit, TypeNext, PTL DEF Spec

(***************************************************************************)
(* A message that is numbered stays issued while its incarnation draws     *)
(* further ids.                                                            *)
(***************************************************************************)
LEMMA DrawKeepsIssued ==
  ASSUME TypeOK, NEW c \in Channel, NEW n \in 1..MaxSid, Draw(c, n),
         NEW ch \in Channel, NEW sid \in Nat, NEW flag \in BOOLEAN,
         Issued(ch, sid, flag)
  PROVE  Issued(ch, sid, flag)'
<1>1. next[ch] \in 1..MaxSid /\ wrapped[ch] \in BOOLEAN
  BY DEF TypeOK, Sid
<1>2. CASE ch # c
  <2>1. next'[ch] = next[ch] /\ wrapped'[ch] = wrapped[ch]
    BY <1>2 DEF Draw, TypeOK
  <2> QED BY <2>1 DEF Issued
<1>3. CASE ch = c
  <2>1. /\ next'[ch] = IF next[ch] + n > MaxSid THEN next[ch] + n - MaxSid
                                                ELSE next[ch] + n
        /\ wrapped'[ch] = (wrapped[ch] \/ next[ch] + n > MaxSid)
    BY <1>1, <1>3, SidAssumption DEF Draw, TypeOK, NthSid
  <2> QED BY <1>1, <2>1, SidAssumption DEF Issued
<1> QED BY <1>2, <1>3

(***************************************************************************)
(* The k-th of n messages, with a flag that holds when it is numbered: it  *)
(* is behind the counter afterwards, and not below the counter before.     *)
(***************************************************************************)
LEMMA DrawnIsIssued ==
  ASSUME TypeOK, NEW ch \in Channel, NEW n \in 1..MaxSid, Draw(ch, n),
         NEW k \in 1..n, NEW sid \in Nat, sid = NthSid(ch, k),
         NEW flag \in BOOLEAN, flag <=> ~WrappedAt(ch, k)
  PROVE  /\ Issued(ch, sid, flag)'
         /\ flag => ~wrapped[ch] /\ next[ch] <= sid
<1>1. next[ch] \in 1..MaxSid /\ wrapped[ch] \in BOOLEAN
  BY DEF TypeOK, Sid
<1>2. next'[ch] = IF next[ch] + n > MaxSid THEN next[ch] + n - MaxSid
                                           ELSE next[ch] + n
  BY <1>1, SidAssumption DEF Draw, TypeOK, NthSid
<1>3. /\ wrapped[ch] => wrapped'[ch]
      /\ next[ch] + n > MaxSid => wrapped'[ch]
  BY DEF Draw, TypeOK
<1>4. CASE flag
  <2>1. ~wrapped[ch] /\ ~(next[ch] + k - 1 > MaxSid)
    BY <1>4 DEF WrappedAt
  <2>2. sid = next[ch] + k - 1
    BY <2>1 DEF NthSid
  <2>3. next[ch] <= sid
    BY <1>1, <2>2
  <2>4. wrapped'[ch] \/ sid < next'[ch]
    BY <1>1, <1>2, <1>3, <2>2, SidAssumption
  <2> QED BY <1>4, <2>1, <2>3, <2>4 DEF Issued
<1>5. CASE ~flag
  <2>1. wrapped[ch] \/ next[ch] + k - 1 > MaxSid
    BY <1>5 DEF WrappedAt
  <2>2. next[ch] + k - 1 > MaxSid => next[ch] + n > MaxSid
    BY <1>1, SidAssumption
  <2>3. wrapped'[ch]
    BY <1>3, <2>1, <2>2
  <2> QED BY <1>5, <2>3 DEF Issued
<1> QED BY <1>4, <1>5

LEMMA MessageFields ==
  ASSUME NEW m \in Message
  PROVE  m.sid \in Nat /\ m.reboot \in BOOLEAN /\ m.boot \in Nat
BY SidAssumption, BoundAssumption DEF Message, Sid, Boot

LEMMA NetMessages ==
  ASSUME TypeOK, NEW p \in Peers, NEW ch \in Channel, NEW i \in 1..Len(net[p][ch])
  PROVE  /\ net[p][ch] \in Seq(Message)
         /\ net[p][ch][i] \in Message
BY DEF TypeOK

(***************************************************************************)
(* A channel on which nothing is sent or received keeps its invariant.     *)
(***************************************************************************)
LEMMA QuietChannel ==
  ASSUME TypeOK, NEW p \in Peers, NEW ch \in Channel,
         LinkInv(p, ch), BaselineInv(p, ch),
         boot' = boot, ~stale' => ~stale,
         net'[p][ch] = net[p][ch], heard'[p][ch] = heard[p][ch],
         session'[p][ch] \in {session[p][ch], NoSession},
         \A sid \in Nat, flag \in BOOLEAN :
           Issued(ch, sid, flag) => Issued(ch, sid, flag)'
  PROVE  LinkInv(p, ch)' /\ BaselineInv(p, ch)'
<1>1. \A i \in 1..Len(net[p][ch]) :
        net[p][ch][i].sid \in Nat /\ net[p][ch][i].reboot \in BOOLEAN
  BY NetMessages, MessageFields
<1>2. session[p][ch].id \in Nat /\ session[p][ch].flag \in BOOLEAN
  BY SidAssumption DEF TypeOK, ChannelSession
<1>3. LinkInv(p, ch)'
  BY <1>1 DEF LinkInv
<1>4. BaselineInv(p, ch)'
  BY <1>2 DEF BaselineInv, NoSession
<1> QED BY <1>3, <1>4

(***************************************************************************)
(* A message that is appended with the next id, and a flag that holds,     *)
(* follows everything sent before it.                                      *)
(***************************************************************************)
LEMMA SendingChannel ==
  ASSUME TypeOK, NEW p \in Peers, NEW ch \in Channel, NEW m \in Message,
         LinkInv(p, ch), BaselineInv(p, ch),
         boot' = boot, m.boot = boot, ~stale' => ~stale,
         net'[p][ch] = Append(net[p][ch], m), heard'[p][ch] = heard[p][ch],
         session'[p][ch] = session[p][ch],
         ~stale' /\ m.reboot => ~wrapped[ch] /\ next[ch] <= m.sid,
         ~stale' => Issued(ch, m.sid, m.reboot)',
         \A sid \in Nat, flag \in BOOLEAN :
           Issued(ch, sid, flag) => Issued(ch, sid, flag)'
  PROVE  LinkInv(p, ch)' /\ BaselineInv(p, ch)'
<1> DEFINE q == net[p][ch]
           r == net'[p][ch]
           IssuedNext(sid, flag) == IF flag THEN wrapped'[ch] \/ sid < next'[ch]
                                            ELSE wrapped'[ch]
<1>1. /\ q \in Seq(Message) /\ next[ch] \in Nat
      /\ m.sid \in Nat /\ m.reboot \in BOOLEAN
  BY MessageFields, SidAssumption DEF TypeOK, Sid
<1>2. Len(r) = Len(q) + 1 /\ r[Len(q) + 1] = m
      /\ \A i \in 1..Len(q) : r[i] = q[i]
  BY <1>1
<1>3. \A i \in 1..Len(q) : q[i].sid \in Nat /\ q[i].reboot \in BOOLEAN
  BY NetMessages, MessageFields
<1>4. session[p][ch].id \in Nat /\ session[p][ch].flag \in BOOLEAN
  BY SidAssumption DEF TypeOK, ChannelSession
<1>i. /\ ~stale' => IssuedNext(m.sid, m.reboot)
      /\ \A sid \in Nat, flag \in BOOLEAN :
           Issued(ch, sid, flag) => IssuedNext(sid, flag)
  BY DEF Issued
<1> HIDE DEF q, r, IssuedNext
<1>5. ASSUME ~stale', NEW id \in Nat, NEW flag \in BOOLEAN, Issued(ch, id, flag)
      PROVE  Follows(id, flag, m.sid, m.reboot)
  BY <1>1, <1>5 DEF Issued, Follows
<1>6. LinkInv(p, ch)'
  <2>1. \A i \in 1..Len(r) : r[i].boot = boot'
    BY <1>1, <1>2 DEF LinkInv, q
  <2>2. ASSUME ~stale', NEW i \in 1..Len(r)
        PROVE  IssuedNext(r[i].sid, r[i].reboot)
    <3>1. CASE i = Len(q) + 1
      BY <1>2, <1>i, <2>2, <3>1
    <3>2. CASE i \in 1..Len(q)
      <4>1. Issued(ch, q[i].sid, q[i].reboot)
        BY <2>2, <3>2 DEF LinkInv, q
      <4> QED BY <1>2, <1>3, <1>i, <3>2, <4>1
    <3> QED BY <1>1, <1>2, <3>1, <3>2
  <2>3. ASSUME ~stale', NEW i \in 1..Len(r), NEW j \in 1..Len(r), i < j
        PROVE  Follows(r[i].sid, r[i].reboot, r[j].sid, r[j].reboot)
    <3>0. i \in 1..Len(q) /\ (j = Len(q) + 1 \/ j \in 1..Len(q))
      BY <1>1, <1>2, <2>3
    <3>1. CASE j = Len(q) + 1
      <4>1. Issued(ch, q[i].sid, q[i].reboot)
        BY <2>3, <3>0 DEF LinkInv, q
      <4> QED BY <1>2, <1>3, <1>5, <2>3, <3>0, <3>1, <4>1
    <3>2. CASE j \in 1..Len(q)
      BY <1>2, <2>3, <3>0, <3>2 DEF LinkInv, q
    <3> QED BY <3>0, <3>1, <3>2
  <2> QED BY <2>1, <2>2, <2>3 DEF LinkInv, r, Follows, Issued, IssuedNext
<1>7. BaselineInv(p, ch)'
  <2> DEFINE s == session[p][ch]
  <2>1. SUFFICES ASSUME s.id # 0
                 PROVE  /\ heard[p][ch] \in 1..boot
                        /\ ~stale' /\ heard[p][ch] = boot =>
                              /\ IssuedNext(s.id, s.flag)
                              /\ \A i \in 1..Len(r) :
                                   Follows(s.id, s.flag, r[i].sid, r[i].reboot)
    BY DEF BaselineInv, r, Follows, Issued, IssuedNext
  <2>2. heard[p][ch] \in 1..boot
    BY <2>1 DEF BaselineInv
  <2>3. ASSUME ~stale', heard[p][ch] = boot
        PROVE  /\ Issued(ch, s.id, s.flag)
               /\ \A i \in 1..Len(q) : Follows(s.id, s.flag, q[i].sid, q[i].reboot)
    BY <2>1, <2>3 DEF BaselineInv, q
  <2>4. ASSUME ~stale', heard[p][ch] = boot
        PROVE  Follows(s.id, s.flag, m.sid, m.reboot)
    BY <1>4, <1>5, <2>3, <2>4
  <2>5. ASSUME ~stale', heard[p][ch] = boot, NEW i \in 1..Len(r)
        PROVE  Follows(s.id, s.flag, r[i].sid, r[i].reboot)
    <3>1. i = Len(q) + 1 \/ i \in 1..Len(q)
      BY <1>1, <1>2
    <3> QED BY <1>2, <2>3, <2>4, <2>5, <3>1
  <2>6. ASSUME ~stale', heard[p][ch] = boot
        PROVE  IssuedNext(s.id, s.flag)
    BY <1>4, <1>i, <2>3, <2>6
  <2> QED BY <2>2, <2>5, <2>6
<1> QED BY <1>6, <1>7

(***************************************************************************)
(* SessionInv holds initially: nothing is under way or remembered.         *)
(***************************************************************************)
LEMMA SessionInit == Init => SessionInv
<1> SUFFICES ASSUME Init PROVE SessionInv
  OBVIOUS
<1>1. TypeOK
  BY TypeInit
<1>2. ASSUME NEW p \in Peers, NEW ch \in Channel
      PROVE  LinkInv(p, ch) /\ BaselineInv(p, ch)
  <2>1. net[p][ch] = <<>> /\ session[p][ch].id = 0
    BY DEF Init, NoSession
  <2> QED BY <2>1 DEF LinkInv, BaselineInv
<1>3. ASSUME NEW p \in Peers PROVE AlarmInv(p)
  <2>1. \A b \in Boot : alarms[p][b] = 0
    BY DEF Init
  <2>2. 1 \in Boot /\ boot = 1
    BY BoundAssumption DEF Init, Boot
  <2> QED BY <2>1, <2>2 DEF AlarmInv
<1> QED BY <1>1, <1>2, <1>3 DEF SessionInv

(***************************************************************************)
(* A step that leaves the receivers' side and the incarnation alone keeps  *)
(* AlarmInv.                                                               *)
(***************************************************************************)
LEMMA QuietAlarm ==
  ASSUME NEW p \in Peers, AlarmInv(p), boot' = boot, alarms'[p] = alarms[p],
         session'[p] = session[p], heard'[p] = heard[p]
  PROVE  AlarmInv(p)'
BY DEF AlarmInv

(***************************************************************************)
(* A multicast message carries the counter's id and a flag that holds.     *)
(***************************************************************************)
LEMMA MulticastKeepsSessionInv ==
  ASSUME SessionInv, SendMulticast, TypeOK'
  PROVE  SessionInv'
<1>0. TypeOK /\ 1 \in 1..MaxSid /\ "multicast" \in Channel
  BY SidAssumption DEF SessionInv, Channel
<1>1. PICK m \in Message :
        /\ m.boot = boot
        /\ m.sid = next["multicast"]
        /\ m.reboot = ~wrapped["multicast"]
        /\ net' = [p \in Peers |->
                     [net[p] EXCEPT !["multicast"] = Append(@, m)]]
  <2> DEFINE r == [sid    |-> next["multicast"],
                   reboot |-> SdFlags("multicast") = "rebooted",
                   boot   |-> boot]
  <2>1. r \in Message /\ r.boot = boot /\ r.sid = next["multicast"]
        /\ r.reboot = ~wrapped["multicast"]
    BY <1>0 DEF Message, SdFlags, TypeOK
  <2>2. net' = [p \in Peers |->
                  [net[p] EXCEPT !["multicast"] = Append(@, r)]]
    BY DEF SendMulticast
  <2> HIDE DEF r
  <2> QED BY <2>1, <2>2
<1>2. /\ Draw("multicast", 1)
      /\ UNCHANGED <<session, boot, heard, alarms, stale>>
  BY DEF SendMulticast
<1>3. ASSUME NEW ch \in Channel, NEW sid \in Nat, NEW flag \in BOOLEAN,
             Issued(ch, sid, flag)
      PROVE  Issued(ch, sid, flag)'
  BY <1>0, <1>2, <1>3, DrawKeepsIssued
<1>4. ASSUME NEW p \in Peers, NEW ch \in Channel
      PROVE  LinkInv(p, ch)' /\ BaselineInv(p, ch)'
  <2>1. LinkInv(p, ch) /\ BaselineInv(p, ch)
    BY DEF SessionInv
  <2>2. CASE ch = "multicast"
    <3>1. net'[p][ch] = Append(net[p][ch], m)
      BY <1>0, <1>1, <2>2 DEF TypeOK
    <3>2. m.sid = NthSid(ch, 1) /\ (m.reboot <=> ~WrappedAt(ch, 1))
      <4>1. next[ch] \in 1..MaxSid
        BY <1>0 DEF TypeOK, Sid
      <4>2. m.sid = NthSid(ch, 1)
        BY <1>1, <2>2, <4>1, SidAssumption DEF NthSid
      <4>3. ~(next[ch] + 1 - 1 > MaxSid)
        BY <4>1, SidAssumption
      <4>4. m.reboot <=> ~wrapped[ch]
        BY <1>1, <2>2, Zenon
      <4> QED BY <4>2, <4>3, <4>4 DEF WrappedAt
    <3>3. /\ Issued(ch, m.sid, m.reboot)'
          /\ m.reboot => ~wrapped[ch] /\ next[ch] <= m.sid
      <4>1. m.sid \in Nat /\ m.reboot \in BOOLEAN /\ 1 \in 1..1 /\ Draw(ch, 1)
        BY <1>2, <2>2, MessageFields
      <4> QED BY <1>0, <3>2, <4>1, DrawnIsIssued
    <3>4. /\ boot' = boot /\ stale' = stale /\ heard'[p][ch] = heard[p][ch]
          /\ session'[p][ch] = session[p][ch]
      BY <1>2
    <3>5. ~stale' /\ m.reboot => ~wrapped[ch] /\ next[ch] <= m.sid
      BY <3>3
    <3> QED
      BY <1>0, <1>1, <1>3, <2>1, <3>1, <3>5, <3>3, <3>4, SendingChannel
  <2>3. CASE ch # "multicast"
    <3>1. net'[p][ch] = net[p][ch]
      BY <1>0, <1>1, <2>3 DEF TypeOK
    <3> QED BY <1>0, <1>2, <1>3, <2>1, <3>1, QuietChannel
  <2> QED BY <2>2, <2>3
<1>5. ASSUME ~stale', NEW p \in Peers PROVE AlarmInv(p)'
  BY <1>2, <1>5, QuietAlarm DEF SessionInv
<1> QED BY <1>4, <1>5 DEF SessionInv

(***************************************************************************)
(* The batch: each target gets an id of its own, and as long as no flag    *)
(* has gone stale, a flag that holds when the message is numbered.         *)
(***************************************************************************)
LEMMA FlushKeepsSessionInv ==
  ASSUME SessionInv, Flush, TypeOK'
  PROVE  SessionInv'
<1> DEFINE targets == {p \in Peers : queued[p] # "none"}
           n       == Cardinality(targets)
<1>0. TypeOK /\ "unicast" \in Channel
  BY DEF SessionInv, Channel
<1>1. n \in 1..MaxSid
  <2>1. IsFiniteSet(targets)
    BY PeersAssumption, FS_Subset
  <2>2. n \in Nat /\ n # 0
    BY <2>1, FS_CardinalityType, FS_EmptySet DEF Flush
  <2> QED BY <2>2, SidAssumption DEF Flush
<1>2. /\ Draw("unicast", n)
      /\ UNCHANGED <<session, boot, heard, alarms>>
  BY DEF Flush
<1>3. PICK order \in [targets -> 1..n] :
        /\ net' = [p \in Peers |->
              IF p \in targets
              THEN [net[p] EXCEPT !["unicast"] =
                      Append(@, [sid    |-> NthSid("unicast", order[p]),
                                 reboot |-> queued[p] = "rebooted",
                                 boot   |-> boot])]
              ELSE net[p]]
        /\ stale' = (stale \/ \E p \in targets :
                        (queued[p] = "rebooted") = WrappedAt("unicast", order[p]))
  BY DEF Flush
<1> HIDE DEF n
<1>4. ASSUME NEW ch \in Channel, NEW sid \in Nat, NEW flag \in BOOLEAN,
             Issued(ch, sid, flag)
      PROVE  Issued(ch, sid, flag)'
  BY <1>0, <1>1, <1>2, <1>4, DrawKeepsIssued
<1>5. ~stale' => ~stale
  BY <1>0, <1>3 DEF TypeOK
<1>6. ASSUME NEW p \in Peers, NEW ch \in Channel
      PROVE  LinkInv(p, ch)' /\ BaselineInv(p, ch)'
  <2>1. LinkInv(p, ch) /\ BaselineInv(p, ch)
    BY DEF SessionInv
  <2>2. /\ boot' = boot /\ heard'[p][ch] = heard[p][ch]
        /\ session'[p][ch] = session[p][ch]
    BY <1>2
  <2>3. CASE p \in targets /\ ch = "unicast"
    <3>1. order[p] \in 1..n /\ order[p] \in 1..(MaxSid + 1)
      BY <1>1, <1>3, <2>3, SidAssumption
    <3>2. PICK m \in Message :
            /\ m.sid = NthSid("unicast", order[p])
            /\ m.reboot = (queued[p] = "rebooted")
            /\ m.boot = boot
            /\ net'[p] = [net[p] EXCEPT !["unicast"] = Append(@, m)]
      <4> DEFINE r == [sid    |-> NthSid("unicast", order[p]),
                       reboot |-> queued[p] = "rebooted",
                       boot   |-> boot]
      <4>1. r \in Message
        BY <1>0, <3>1, NthSidType DEF Message, TypeOK
      <4>2. net'[p] = [net[p] EXCEPT !["unicast"] = Append(@, r)]
        BY <1>3, <2>3
      <4>3. /\ r.sid = NthSid("unicast", order[p])
            /\ r.reboot = (queued[p] = "rebooted")
            /\ r.boot = boot
        OBVIOUS
      <4> HIDE DEF r
      <4> QED BY <4>1, <4>2, <4>3
    <3>3. net'[p][ch] = Append(net[p][ch], m)
      BY <1>0, <2>3, <3>2 DEF TypeOK
    <3>4. m.sid \in Nat /\ m.reboot \in BOOLEAN /\ m.sid = NthSid(ch, order[p])
      BY <2>3, <3>2, MessageFields
    <3>5. ~stale' => (m.reboot <=> ~WrappedAt(ch, order[p]))
      <4> SUFFICES ASSUME ~stale' PROVE m.reboot <=> ~WrappedAt(ch, order[p])
        OBVIOUS
      <4>1. (queued[p] = "rebooted") # WrappedAt(ch, order[p])
        BY <1>3, <2>3, Zenon
      <4>2. WrappedAt(ch, order[p]) \in BOOLEAN
        BY <1>0 DEF WrappedAt, TypeOK
      <4> QED BY <3>2, <4>1, <4>2, Zenon
    <3>6. ~stale' => /\ Issued(ch, m.sid, m.reboot)'
                     /\ m.reboot => ~wrapped[ch] /\ next[ch] <= m.sid
      BY <1>0, <1>1, <1>2, <2>3, <3>1, <3>4, <3>5, DrawnIsIssued
    <3>7. m.boot = boot
      BY <3>2
    <3> QED BY <1>0, <1>4, <1>5, <2>1, <2>2, <3>3, <3>6, <3>7, SendingChannel
  <2>4. CASE ~(p \in targets /\ ch = "unicast")
    <3>1. net'[p][ch] = net[p][ch]
      BY <1>0, <1>3, <2>4 DEF TypeOK
    <3> QED BY <1>0, <1>4, <1>5, <2>1, <2>2, <3>1, QuietChannel
  <2> QED BY <2>3, <2>4
<1>7. ASSUME ~stale', NEW p \in Peers PROVE AlarmInv(p)'
  BY <1>2, <1>5, <1>7, QuietAlarm DEF SessionInv
<1> QED BY <1>6, <1>7 DEF SessionInv

(***************************************************************************)
(* A restart finds nothing under way and makes every baseline an old one.  *)
(***************************************************************************)
LEMMA RestartKeepsSessionInv ==
  ASSUME SessionInv, Restart, TypeOK'
  PROVE  SessionInv'
<1>0. TypeOK
  BY DEF SessionInv
<1>1. boot \in Nat /\ boot' = boot + 1
  BY <1>0, BoundAssumption DEF Restart, TypeOK, Boot
<1>2. UNCHANGED <<net, session, heard, alarms, stale>>
  BY DEF Restart
<1>3. ASSUME NEW p \in Peers, NEW ch \in Channel
      PROVE  LinkInv(p, ch)' /\ BaselineInv(p, ch)'
  <2>1. net'[p][ch] = <<>>
    BY <1>2 DEF Restart
  <2>2. session[p][ch].id # 0 => heard[p][ch] \in 1..boot
    BY DEF SessionInv, BaselineInv
  <2>3. session'[p][ch].id # 0 => heard'[p][ch] \in 1..boot' /\ heard'[p][ch] # boot'
    BY <1>1, <1>2, <2>2
  <2>4. LinkInv(p, ch)'
    BY <2>1 DEF LinkInv
  <2>5. BaselineInv(p, ch)'
    BY <2>3 DEF BaselineInv
  <2> QED BY <2>4, <2>5
<1>4. ASSUME ~stale', NEW p \in Peers PROVE AlarmInv(p)'
  <2>1. AlarmInv(p)
    BY <1>2, <1>4 DEF SessionInv
  <2>2. alarms[p][boot'] = 0
    BY <1>0, <1>1, <2>1, BoundAssumption DEF AlarmInv, Restart, Boot, TypeOK
  <2>3. \A b \in Boot : b > boot' => alarms[p][b] = 0
    BY <1>0, <1>1, <2>1, BoundAssumption DEF AlarmInv, Boot, TypeOK
  <2> QED BY <1>2, <2>1, <2>2, <2>3 DEF AlarmInv
<1> QED BY <1>3, <1>4 DEF SessionInv

(***************************************************************************)
(* A channel that loses or delivers its i-th message keeps its order, and  *)
(* what is left of it was under way before, behind the first if that went. *)
(***************************************************************************)
LEMMA ShorterChannel ==
  ASSUME TypeOK, NEW p \in Peers, NEW ch \in Channel, LinkInv(p, ch),
         NEW i \in 1..Len(net[p][ch]),
         net'[p][ch] = RemoveAt(net[p][ch], i),
         UNCHANGED <<next, wrapped, boot, stale>>
  PROVE  /\ LinkInv(p, ch)'
         /\ \A k \in 1..Len(net'[p][ch]) :
              \E j \in 1..Len(net[p][ch]) :
                net'[p][ch][k] = net[p][ch][j] /\ (i = 1 => 1 < j)
<1> DEFINE q == net[p][ch]
           r == net'[p][ch]
           j(k) == IF k < i THEN k ELSE k + 1
<1>0. q \in Seq(Message) /\ Len(q) \in Nat /\ i \in 1..Len(q) /\ r = RemoveAt(q, i)
  BY DEF TypeOK
<1> HIDE DEF q, r
<1>1. /\ Len(r) = Len(q) - 1
      /\ \A k \in 1..(Len(q) - 1) : r[k] = IF k < i THEN q[k] ELSE q[k + 1]
  BY <1>0, RemoveAtProperties
<1>2. ASSUME NEW k \in 1..Len(r)
      PROVE  j(k) \in 1..Len(q) /\ r[k] = q[j(k)] /\ (i = 1 => 1 < j(k))
  BY <1>0, <1>1 DEF q
<1>3. ASSUME NEW k \in 1..Len(r), NEW l \in 1..Len(r), k < l
      PROVE  j(k) < j(l)
  BY <1>0, <1>1, <1>3 DEF q
<1> HIDE DEF j
<1>4. LinkInv(p, ch)'
  <2>1. \A k \in 1..Len(r) : r[k].boot = boot'
    BY <1>2 DEF LinkInv, q
  <2>2. ASSUME ~stale', NEW k \in 1..Len(r)
        PROVE  IF r[k].reboot THEN wrapped'[ch] \/ r[k].sid < next'[ch]
                              ELSE wrapped'[ch]
    <3>1. Issued(ch, q[j(k)].sid, q[j(k)].reboot)
      BY <1>2, <2>2 DEF LinkInv, q
    <3> QED BY <1>2, <3>1 DEF Issued
  <2>3. ASSUME ~stale', NEW k \in 1..Len(r), NEW l \in 1..Len(r), k < l
        PROVE  Follows(r[k].sid, r[k].reboot, r[l].sid, r[l].reboot)
    BY <1>2, <1>3, <2>3 DEF LinkInv, q
  <2> QED BY <2>1, <2>2, <2>3 DEF LinkInv, r, Issued, Follows
<1> QED BY <1>2, <1>4 DEF q, r

(***************************************************************************)
(* Loss changes neither a baseline nor an alarm.                           *)
(***************************************************************************)
LEMMA LoseKeepsSessionInv ==
  ASSUME SessionInv, NEW p \in Peers, NEW ch \in Channel,
         NEW i \in 1..Len(net[p][ch]), Lose(p, ch, i), TypeOK'
  PROVE  SessionInv'
<1>0. TypeOK
  BY DEF SessionInv
<1>1. /\ net' = [net EXCEPT ![p][ch] = RemoveAt(@, i)]
      /\ UNCHANGED <<next, wrapped, session, boot, heard, alarms, stale>>
  BY DEF Lose
<1>2. ASSUME NEW r \in Peers, NEW c \in Channel
      PROVE  LinkInv(r, c)' /\ BaselineInv(r, c)'
  <2>1. LinkInv(r, c) /\ BaselineInv(r, c)
    BY DEF SessionInv
  <2>2. CASE r = p /\ c = ch
    <3>1. net'[p][ch] = RemoveAt(net[p][ch], i)
      BY <1>0, <1>1 DEF TypeOK
    <3>2. /\ LinkInv(p, ch)'
          /\ \A k \in 1..Len(net'[p][ch]) : \E j \in 1..Len(net[p][ch]) :
                net'[p][ch][k] = net[p][ch][j]
      BY <1>0, <1>1, <2>1, <2>2, <3>1, ShorterChannel
    <3>3. BaselineInv(p, ch)'
      BY <1>1, <2>1, <2>2, <3>2 DEF BaselineInv, Issued, Follows
    <3> QED BY <2>2, <3>2, <3>3
  <2>3. CASE ~(r = p /\ c = ch)
    <3>1. net'[r][c] = net[r][c]
      BY <1>0, <1>1, <2>3 DEF TypeOK
    <3>2. \A sid \in Nat, flag \in BOOLEAN :
            Issued(c, sid, flag) => Issued(c, sid, flag)'
      BY <1>1 DEF Issued
    <3> QED BY <1>0, <1>1, <2>1, <3>1, <3>2, QuietChannel
  <2> QED BY <2>2, <2>3
<1>3. ASSUME ~stale', NEW r \in Peers PROVE AlarmInv(r)'
  BY <1>1, <1>3, QuietAlarm DEF SessionInv
<1> QED BY <1>2, <1>3 DEF SessionInv

(***************************************************************************)
(* While no flag has gone stale, a peer that takes the next message of a   *)
(* channel for a sign of a reboot remembers an earlier incarnation.        *)
(***************************************************************************)
LEMMA AlarmMeansRestart ==
  ASSUME SessionInv, ~stale, NEW p \in Peers, NEW ch \in Channel,
         1 \in 1..Len(net[p][ch]),
         RebootDetected(session[p][ch], net[p][ch][1])
  PROVE  /\ session[p][ch].id # 0
         /\ heard[p][ch] \in 1..boot
         /\ heard[p][ch] # boot
<1> DEFINE m == net[p][ch][1]
           s == session[p][ch]
<1>1. m.sid \in Nat /\ s.id \in Nat
  BY NetMessages, MessageFields, SidAssumption
  DEF SessionInv, TypeOK, ChannelSession
<1>2. BaselineInv(p, ch)
  BY DEF SessionInv
<1>3. s.id # 0 /\ m.reboot /\ (s.flag => m.sid <= s.id)
  BY DEF RebootDetected
<1>4. heard[p][ch] = boot => (m.reboot => s.flag /\ s.id < m.sid)
  BY <1>2, <1>3 DEF BaselineInv, Follows
<1>5. heard[p][ch] # boot
  BY <1>1, <1>3, <1>4
<1> QED BY <1>2, <1>3, <1>5 DEF BaselineInv

LEMMA DeliverKeepsSessionInv ==
  ASSUME SessionInv, ~Reorder, NEW p \in Peers, NEW ch \in Channel,
         NEW i \in 1..Len(net[p][ch]), Deliver(p, ch, i), TypeOK'
  PROVE  SessionInv'
<1> DEFINE m == net[p][ch][1]
           d == RebootDetected(session[p][ch], m)
<1>0. TypeOK
  BY DEF SessionInv
<1>1. i = 1
  BY DEF Deliver
<1>2. /\ net' = [net EXCEPT ![p][ch] = RemoveAt(@, 1)]
      /\ session' = [session EXCEPT ![p] =
           IF d THEN [c \in Channel |-> NoSession]
                ELSE [@ EXCEPT ![ch] = [id |-> m.sid, flag |-> m.reboot]]]
      /\ alarms' = IF d /\ alarms[p][m.boot] < 2
                   THEN [alarms EXCEPT ![p][m.boot] = @ + 1] ELSE alarms
      /\ heard' = [heard EXCEPT ![p][ch] = m.boot]
      /\ UNCHANGED <<next, wrapped, boot, stale>>
  BY <1>1 DEF Deliver
<1>3. /\ m \in Message /\ m.boot = boot /\ boot \in Boot
      /\ ~stale => Issued(ch, m.sid, m.reboot)
  BY <1>0, <1>1 DEF SessionInv, LinkInv, TypeOK
<1>4. /\ session'[p] = IF d THEN [c \in Channel |-> NoSession]
             ELSE [session[p] EXCEPT ![ch] = [id |-> m.sid, flag |-> m.reboot]]
      /\ heard'[p][ch] = boot
      /\ \A c \in Channel : c # ch => heard'[p][c] = heard[p][c]
  BY <1>0, <1>2, <1>3 DEF TypeOK
<1>5. \A c \in Channel, sid \in Nat, flag \in BOOLEAN :
        Issued(c, sid, flag) => Issued(c, sid, flag)'
  BY <1>2 DEF Issued
<1>6. ASSUME NEW r \in Peers, NEW c \in Channel
      PROVE  LinkInv(r, c)' /\ BaselineInv(r, c)'
  <2>1. LinkInv(r, c) /\ BaselineInv(r, c)
    BY DEF SessionInv
  <2>2. CASE r = p /\ c = ch
    <3>1. net'[p][ch] = RemoveAt(net[p][ch], 1)
      BY <1>0, <1>2 DEF TypeOK
    <3>2. /\ LinkInv(p, ch)'
          /\ \A k \in 1..Len(net'[p][ch]) : \E j \in 1..Len(net[p][ch]) :
                net'[p][ch][k] = net[p][ch][j] /\ 1 < j
      <4>1. LinkInv(p, ch) /\ 1 \in 1..Len(net[p][ch])
        BY <1>1, <2>1, <2>2
      <4>2. UNCHANGED <<next, wrapped, boot, stale>>
        BY <1>2
      <4>3. TypeOK
        BY <1>0
      <4> QED BY <3>1, <4>1, <4>2, <4>3, ShorterChannel, SMTT(30)
    <3>3. CASE d
      <4>1. session'[p][ch].id = 0
        BY <1>4, <3>3 DEF NoSession
      <4> QED BY <2>2, <3>2, <4>1 DEF BaselineInv
    <3>4. CASE ~d
      <4>1. session'[p][ch] = [id |-> m.sid, flag |-> m.reboot]
        BY <1>0, <1>4, <3>4 DEF TypeOK
      <4>2. boot \in 1..boot
        BY <1>3, BoundAssumption DEF Boot
      <4>3. ASSUME ~stale, NEW k \in 1..Len(net'[p][ch])
            PROVE  Follows(m.sid, m.reboot,
                           net'[p][ch][k].sid, net'[p][ch][k].reboot)
        <5>1. PICK j \in 1..Len(net[p][ch]) :
                net'[p][ch][k] = net[p][ch][j] /\ 1 < j
          BY <3>2
        <5> QED BY <1>1, <2>1, <2>2, <4>3, <5>1 DEF LinkInv
      <4>4. BaselineInv(p, ch)'
        BY <1>2, <1>3, <1>4, <4>1, <4>2, <4>3 DEF BaselineInv, Issued, Follows
      <4> QED BY <2>2, <3>2, <4>4
    <3> QED BY <3>3, <3>4
  <2>3. CASE ~(r = p /\ c = ch)
    <3>1. net'[r][c] = net[r][c] /\ heard'[r][c] = heard[r][c]
      BY <1>0, <1>2, <2>3 DEF TypeOK
    <3>2. session'[r][c] \in {session[r][c], NoSession}
      BY <1>0, <1>2, <1>4, <2>3 DEF TypeOK
    <3> QED BY <1>0, <1>2, <1>5, <2>1, <3>1, <3>2, QuietChannel
  <2> QED BY <2>2, <2>3
<1>7. ASSUME ~stale', NEW r \in Peers PROVE AlarmInv(r)'
  <2>1. AlarmInv(r) /\ ~stale
    BY <1>2, <1>7 DEF SessionInv
  <2>2. CASE r # p
    <3>1. /\ alarms'[r] = alarms[r] /\ session'[r] = session[r]
          /\ heard'[r] = heard[r]
      BY <1>0, <1>2, <2>2 DEF TypeOK
    <3> QED BY <1>2, <2>1, <3>1, QuietAlarm
  <2>3. CASE r = p /\ d
    <3>1. /\ session[p][ch].id # 0 /\ heard[p][ch] \in 1..boot
          /\ heard[p][ch] # boot
      BY <1>1, <2>1, <2>3, AlarmMeansRestart
    <3>2. alarms[p][boot] = 0
      <4>1. alarms[p][boot] \in 0..2 /\ alarms[p][boot] <= 1
        BY <1>0, <1>3, <2>1, <2>3 DEF AlarmInv, TypeOK
      <4>2. alarms[p][boot] # 1
        BY <2>1, <2>3, <3>1 DEF AlarmInv
      <4> QED BY <4>1, <4>2
    <3>3. /\ alarms'[p][boot] = 1
          /\ \A b \in Boot : b # boot => alarms'[p][b] = alarms[p][b]
      BY <1>0, <1>2, <1>3, <2>3, <3>2 DEF TypeOK
    <3>4. boot # 1
      BY <1>3, <3>1, BoundAssumption DEF Boot
    <3>5. \A c \in Channel : session'[p][c].id = 0
      BY <1>4, <2>3 DEF NoSession
    <3>6. 1 \in Boot /\ boot \in Nat
      BY <1>3, BoundAssumption DEF Boot
    <3>7. ASSUME NEW b \in Boot PROVE alarms'[p][b] <= 1
      BY <2>1, <2>3, <3>3 DEF AlarmInv
    <3>8. ASSUME NEW b \in Boot, b > boot PROVE alarms'[p][b] = 0
      BY <2>1, <2>3, <3>3, <3>6, <3>8 DEF AlarmInv, Boot
    <3>9. alarms'[p][1] = 0
      BY <2>1, <2>3, <3>3, <3>4, <3>6 DEF AlarmInv
    <3> QED BY <1>2, <2>3, <3>5, <3>7, <3>8, <3>9 DEF AlarmInv
  <2>4. CASE r = p /\ ~d
    <3>1. alarms' = alarms
      BY <1>2, <2>4
    <3>2. \A c \in Channel : c # ch => session'[p][c] = session[p][c]
      BY <1>0, <1>4, <2>4 DEF TypeOK
    <3> QED BY <1>2, <1>4, <2>1, <2>4, <3>1, <3>2 DEF AlarmInv
  <2> QED BY <2>2, <2>3, <2>4
<1> QED BY <1>6, <1>7 DEF SessionInv

(***************************************************************************)
(* Every step keeps SessionInv when the network keeps the order.           *)
(***************************************************************************)
LEMMA SessionNext ==
  ASSUME ~Reorder, SessionInv, [Next]_vars
  PROVE  SessionInv'
<1>0. TypeOK /\ TypeOK'
  BY TypeNext DEF SessionInv
<1>1. ASSUME UNCHANGED <<next, wrapped, net, session, boot, heard, alarms, stale>>
      PROVE  SessionInv'
  <2>1. ASSUME NEW p \in Peers, NEW ch \in Channel
        PROVE  LinkInv(p, ch)' /\ BaselineInv(p, ch)'
    BY <1>1 DEF SessionInv, LinkInv, BaselineInv, Issued, Follows
  <2>2. ASSUME ~stale', NEW p \in Peers PROVE AlarmInv(p)'
    BY <1>1, <2>2, QuietAlarm DEF SessionInv
  <2> QED BY <1>0, <2>1, <2>2 DEF SessionInv
<1>2. CASE SendMulticast
  BY <1>0, <1>2, MulticastKeepsSessionInv
<1>3. CASE StartTcpSubscribe \/ FailTcpSubscribe
  BY <1>1, <1>3 DEF StartTcpSubscribe, FailTcpSubscribe
<1>4. CASE Flush
  BY <1>0, <1>4, FlushKeepsSessionInv
<1>5. CASE Restart
  BY <1>0, <1>5, RestartKeepsSessionInv
<1>6. ASSUME NEW p \in Peers, QueueUnicast(p) \/ FinishTcpSubscribe(p)
      PROVE  SessionInv'
  BY <1>1, <1>6 DEF QueueUnicast, FinishTcpSubscribe
<1>7. ASSUME NEW p \in Peers, NEW ch \in Channel, NEW i \in 1..Len(net[p][ch]),
             Deliver(p, ch, i) \/ Lose(p, ch, i)
      PROVE  SessionInv'
  BY <1>0, <1>7, DeliverKeepsSessionInv, LoseKeepsSessionInv
<1>8. CASE UNCHANGED vars
  BY <1>1, <1>8 DEF vars
<1> QED BY <1>2, <1>3, <1>4, <1>5, <1>6, <1>7, <1>8 DEF Next

\* While the network keeps the order of a channel, SessionInv is an invariant:
\* messages under way follow one another and what their receiver remembers.
THEOREM SessionCorrect == ~Reorder => (Spec => []SessionInv)
<1> SUFFICES ASSUME ~Reorder PROVE Spec => []SessionInv
  OBVIOUS
<1>1. Init => SessionInv
  BY SessionInit
<1>2. SessionInv /\ [Next]_vars => SessionInv'
  BY SessionNext
<1> QED BY <1>1, <1>2, PTL DEF Spec

\* For every set of peers, every width of the session id and every number of
\* restarts: as long as no stale flag has been sent on an order-preserving
\* network, check_reboot_and_reset fires at most once per restart and peer,
\* and never without one.
THEOREM RestartNoticedOnce == ~Reorder => (Spec => []OneAlarmPerRestart)
<1> SUFFICES ASSUME ~Reorder PROVE Spec => []OneAlarmPerRestart
  OBVIOUS
<1>1. SessionInv => OneAlarmPerRestart
  BY DEF SessionInv, AlarmInv, OneAlarmPerRestart
<1> QED BY <1>1, SessionCorrect, PTL

-----------------------------------------------------------------------------
(***************************************************************************)
(* The first message after a restart, on a network that may reorder.       *)
(***************************************************************************)

\* What a peer remembers is a session id that was sent, never 0.
NotedInv ==
  \A p \in Peers, ch \in Channel :
    session[p][ch] = NoSession \/ session[p][ch].id \in Sid

LEMMA NotedDeliver ==
  ASSUME TypeOK, NotedInv, NEW p \in Peers, NEW ch \in Channel,
         NEW i \in 1..Len(net[p][ch]), Deliver(p, ch, i)
  PROVE  NotedInv'
<1> DEFINE m == net[p][ch][i]
<1>1. m.sid \in Sid
  <2>1. net[p][ch] \in Seq(Message)
    BY DEF TypeOK
  <2>2. m \in Message
    BY <2>1
  <2> QED BY <2>2 DEF Message
<1>2. \A q \in Peers \ {p} : session'[q] = session[q]
  BY DEF Deliver, TypeOK
<1>3. \A c \in Channel : \/ session'[p][c] = NoSession
                         \/ session'[p][c] = [id |-> m.sid, flag |-> m.reboot]
                         \/ session'[p][c] = session[p][c]
  BY DEF Deliver, TypeOK
<1> HIDE DEF m
<1> QED BY <1>1, <1>2, <1>3 DEF NotedInv

LEMMA NotedNext == TypeOK /\ NotedInv /\ [Next]_vars => NotedInv'
<1> SUFFICES ASSUME TypeOK, NotedInv, [Next]_vars PROVE NotedInv'
  OBVIOUS
<1>1. CASE UNCHANGED session
  BY <1>1 DEF NotedInv
<1>2. UNCHANGED vars => UNCHANGED session
  BY DEF vars
<1>3. SendMulticast \/ StartTcpSubscribe \/ FailTcpSubscribe \/ Flush \/ Restart
        => UNCHANGED session
  BY DEF SendMulticast, StartTcpSubscribe, FailTcpSubscribe, Flush, Restart
<1>4. ASSUME NEW p \in Peers, QueueUnicast(p) \/ FinishTcpSubscribe(p)
      PROVE  UNCHANGED session
  BY <1>4 DEF QueueUnicast, FinishTcpSubscribe
<1>5. ASSUME NEW p \in Peers, NEW ch \in Channel, NEW i \in 1..Len(net[p][ch]),
             Lose(p, ch, i)
      PROVE  UNCHANGED session
  BY <1>5 DEF Lose
<1> QED BY <1>1, <1>2, <1>3, <1>4, <1>5, NotedDeliver DEF Next

LEMMA FirstNoticed ==
  ASSUME TypeOK, NotedInv PROVE FirstIsNoticed
<1> SUFFICES ASSUME NEW p \in Peers, NEW ch \in Channel,
                    NEW i \in 1..Len(net[p][ch]), Deliver(p, ch, i),
                    net[p][ch][i].sid = 1, net[p][ch][i].reboot,
                    session[p][ch] # NoSession
             PROVE  alarms'[p][net[p][ch][i].boot]
                      = IF alarms[p][net[p][ch][i].boot] < 2
                        THEN alarms[p][net[p][ch][i].boot] + 1 ELSE 2
  BY DEF FirstIsNoticed
<1>1. session[p][ch].id \in Sid
  BY DEF NotedInv
<1>2. RebootDetected(session[p][ch], net[p][ch][i])
  BY <1>1, SidAssumption DEF RebootDetected, Sid
<1>3. net[p][ch][i].boot \in Boot
  <2>1. net[p][ch] \in Seq(Message)
    BY DEF TypeOK
  <2>2. net[p][ch][i] \in Message
    BY <2>1
  <2> QED BY <2>2 DEF Message
<1>4. alarms[p][net[p][ch][i].boot] \in 0..2
  BY <1>3 DEF TypeOK
<1>5. alarms' = IF alarms[p][net[p][ch][i].boot] < 2
                THEN [alarms EXCEPT ![p][net[p][ch][i].boot] = @ + 1] ELSE alarms
  BY <1>2 DEF Deliver
<1> QED BY <1>3, <1>4, <1>5 DEF TypeOK

\* For every set of peers and every width of the id, with or without
\* reordering: the first message of a new incarnation on a channel of which
\* the peer remembers anything is noticed at once.
THEOREM FirstMessageNoticed == Spec => FirstMessageIsNoticed
<1>1. Init => NotedInv
  BY DEF Init, NotedInv
<1>2. TypeOK /\ NotedInv /\ [Next]_vars => [FirstIsNoticed]_vars
  BY FirstNoticed
<1> QED BY <1>1, <1>2, TypeCorrect, NotedNext, PTL DEF Spec, FirstMessageIsNoticed
=============================================================================
