------------------------------ MODULE SdSession ------------------------------
(***************************************************************************)
(* Session identifiers, the REBOOT flag and reboot detection of the        *)
(* service-discovery (SD) protocol.                                        *)
(*                                                                         *)
(* One runtime sends SD messages to a set of peers.  It numbers the        *)
(* multicast and the unicast messages with two counters that every peer    *)
(* shares, and sets the REBOOT flag until the counter has wrapped once.    *)
(* The number is drawn when a message is sent; the flag is computed when   *)
(* it is built, which for unicast messages is up to a batching interval,   *)
(* or a TCP connection attempt, earlier.  A peer compares each message     *)
(* with the last one of the same channel to find out that the sender has   *)
(* restarted.                                                              *)
(*                                                                         *)
(* Entries are abstracted away: a message is its number, its flag and, for *)
(* the properties only, the incarnation of the sender that sent it.        *)
(***************************************************************************)
EXTENDS Naturals, Sequences, FiniteSets, SequencesExt

CONSTANTS
  Peers,      \* the runtimes that receive the messages
  MaxSid,     \* the largest session id: 16#FFFF in the code
  MaxBoot,    \* bound: how many incarnations of the sender are explored
  MaxFlight,  \* bound: datagrams under way to one peer on one channel
  Reorder     \* may the network reorder the datagrams of one channel?

ASSUME PeersAssumption == IsFiniteSet(Peers)
ASSUME SidAssumption == MaxSid \in Nat \ {0}
ASSUME BoundAssumption == MaxBoot \in Nat \ {0} /\ MaxFlight \in Nat
ASSUME ReorderAssumption == Reorder \in BOOLEAN

Channel == {"multicast", "unicast"}
Sid     == 1..MaxSid
Boot    == 1..MaxBoot
Message == [sid: Sid, reboot: BOOLEAN, boot: Boot]

\* PeerChannelSession: id 0 stands for last_session_id = None.
NoSession      == [id |-> 0, flag |-> FALSE]
ChannelSession == [id: 0..MaxSid, flag: BOOLEAN]

\* A built unicast message that waits to be sent: its REBOOT flag is set
\* ("rebooted") or cleared ("running"); "none" if there is no such message.
Waiting == {"none", "rebooted", "running"}

VARIABLES
  next,     \* next[ch]: multicast_session_id, unicast_session_id
  wrapped,  \* wrapped[ch]: multicast_has_wrapped_once, unicast_has_wrapped_once
  captured, \* flag captured by a Subscribe task that still connects over TCP
  queued,   \* queued[p]: pending_unicast_sd clustered by target
  net,      \* net[p][ch]: datagrams under way
  session,  \* session[p][ch]: what p keeps in peer_sessions for the sender
  boot,     \* incarnation of the sender (history)
  heard,    \* heard[p][ch]: incarnation of p's last message, or 0 (history)
  alarms,   \* alarms[p][b]: times p acted on a reboot during b (history)
  stale     \* has a flag been sent that no longer held? (history)

vars == <<next, wrapped, captured, queued, net, session,
          boot, heard, alarms, stale>>

-----------------------------------------------------------------------------
(* The sender.                                                             *)

\* sd_flags: the REBOOT bit holds until the channel's counter has wrapped.
SdFlags(ch) == IF wrapped[ch] THEN "running" ELSE "rebooted"

\* The id that the k-th of a run of messages draws, and the state of the
\* counter after n of them (k, n <= MaxSid).
NthSidFromZero(ch, k) == (next[ch] + k - 1) % (MaxSid + 1)
NthSid(ch, k) == IF next[ch] + k - 1 > MaxSid THEN next[ch] + k - 1 - MaxSid
                                              ELSE next[ch] + k - 1
DrawKeepsFlag(ch, n) ==
  /\ next' = [next EXCEPT ![ch] = NthSid(ch, n + 1)]
  /\ UNCHANGED wrapped
Draw(ch, n) ==
  /\ next'    = [next EXCEPT ![ch] = NthSid(ch, n + 1)]
  /\ wrapped' = [wrapped EXCEPT ![ch] = @ \/ next[ch] + n > MaxSid]

\* Has the counter wrapped before the k-th message of the run is numbered?
WrappedAt(ch, k) == wrapped[ch] \/ next[ch] + k - 1 > MaxSid

Init ==
  /\ next     = [ch \in Channel |-> 1]
  /\ wrapped  = [ch \in Channel |-> FALSE]
  /\ captured = "none"
  /\ queued   = [p \in Peers |-> "none"]
  /\ net      = [p \in Peers |-> [ch \in Channel |-> <<>>]]
  /\ session  = [p \in Peers |-> [ch \in Channel |-> NoSession]]
  /\ boot     = 1
  /\ heard    = [p \in Peers |-> [ch \in Channel |-> 0]]
  /\ alarms   = [p \in Peers |-> [b \in Boot |-> 0]]
  /\ stale    = FALSE

\* A multicast message (offers, StopOffer, Find) is built and sent in the
\* same turn of the event loop, and reaches every peer.
SendMulticast ==
  /\ \A p \in Peers : Len(net[p]["multicast"]) < MaxFlight
  /\ net' = [p \in Peers |->
               [net[p] EXCEPT !["multicast"] =
                  Append(@, [sid    |-> next["multicast"],
                             reboot |-> SdFlags("multicast") = "rebooted",
                             boot   |-> boot])]]
  /\ Draw("multicast", 1)
  /\ UNCHANGED <<captured, queued, session, boot, heard, alarms, stale>>

\* A message for p joins the batch; cluster_sd_actions keeps the flags of
\* the first message of each target.
Enqueue(p, flag) ==
  queued' = [queued EXCEPT ![p] = IF @ = "none" THEN flag ELSE @]

\* An answer, a renewal or a UDP subscribe is built and queued.
QueueUnicast(p) ==
  /\ queued[p] = "none"
  /\ Enqueue(p, SdFlags("unicast"))
  /\ UNCHANGED <<next, wrapped, captured, net, session, boot, heard, alarms, stale>>

\* A TCP subscribe captures the flags, then connects in a task of its own.
StartTcpSubscribe ==
  /\ captured = "none"
  /\ captured' = SdFlags("unicast")
  /\ UNCHANGED <<next, wrapped, queued, net, session, boot, heard, alarms, stale>>

\* The connection is up: the task's apply_state queues the Subscribe.
FinishTcpSubscribe(p) ==
  /\ captured # "none"
  /\ Enqueue(p, captured)
  /\ captured' = "none"
  /\ UNCHANGED <<next, wrapped, net, session, boot, heard, alarms, stale>>

\* The connection failed: nothing is sent.
FailTcpSubscribe ==
  /\ captured # "none"
  /\ captured' = "none"
  /\ UNCHANGED <<next, wrapped, queued, net, session, boot, heard, alarms, stale>>

\* The batching deadline: one message per target, in the order in which a
\* hash map yields the targets, each numbered as it is sent.  order[p] is
\* the place of p among the targets.
Flush ==
  LET targets == {p \in Peers : queued[p] # "none"}
      n       == Cardinality(targets)
  IN  /\ targets # {}
      /\ n <= MaxSid
      /\ \A p \in targets : Len(net[p]["unicast"]) < MaxFlight
      /\ \E order \in [targets -> 1..n] :
           /\ \A p, q \in targets : p # q => order[p] # order[q]
           /\ net' = [p \in Peers |->
                IF p \in targets
                THEN [net[p] EXCEPT !["unicast"] =
                        Append(@, [sid    |-> NthSid("unicast", order[p]),
                                   reboot |-> queued[p] = "rebooted",
                                   boot   |-> boot])]
                ELSE net[p]]
           /\ stale' = (stale \/ \E p \in targets :
                          (queued[p] = "rebooted") = WrappedAt("unicast", order[p]))
      /\ Draw("unicast", n)
      /\ queued' = [p \in Peers |-> "none"]
      /\ UNCHANGED <<captured, session, boot, heard, alarms>>

\* The sender's process restarts: RuntimeState::new.  It takes longer than a
\* datagram lives, so none of the old incarnation is still under way.
Restart ==
  /\ boot < MaxBoot
  /\ \A p \in Peers, ch \in Channel : net[p][ch] = <<>>
  /\ boot'     = boot + 1
  /\ next'     = [ch \in Channel |-> 1]
  /\ wrapped'  = [ch \in Channel |-> FALSE]
  /\ captured' = "none"
  /\ queued'   = [p \in Peers |-> "none"]
  /\ UNCHANGED <<net, session, heard, alarms, stale>>

-----------------------------------------------------------------------------
(* The network and the receivers.                                          *)

\* check_and_update: does message m, after session s, betray a reboot?
RegressionDetected(s, m) == s.id # 0 /\ m.sid <= s.id
LowerSidDetected(s, m) == s.id # 0 /\ m.reboot /\ (s.flag => m.sid < s.id)
RebootDetected(s, m) ==
  /\ s.id # 0
  /\ m.reboot
  /\ s.flag => m.sid <= s.id

\* p handles the i-th datagram of a channel: check_reboot_and_reset, and
\* handle_peer_reboot when a reboot is detected.
Deliver(p, ch, i) ==
  LET m == net[p][ch][i]
      d == RebootDetected(session[p][ch], m)
  IN  /\ i = 1 \/ Reorder
      /\ net' = [net EXCEPT ![p][ch] = RemoveAt(@, i)]
      /\ session' = [session EXCEPT ![p] =
           IF d THEN [c \in Channel |-> NoSession]
                ELSE [@ EXCEPT ![ch] = [id |-> m.sid, flag |-> m.reboot]]]
      /\ alarms' = IF d /\ alarms[p][m.boot] < 2
                   THEN [alarms EXCEPT ![p][m.boot] = @ + 1] ELSE alarms
      /\ heard' = [heard EXCEPT ![p][ch] = m.boot]
      /\ UNCHANGED <<next, wrapped, captured, queued, boot, stale>>

\* The network loses a datagram.
Lose(p, ch, i) ==
  /\ net' = [net EXCEPT ![p][ch] = RemoveAt(@, i)]
  /\ UNCHANGED <<next, wrapped, captured, queued, session, boot, heard, alarms, stale>>

Next ==
  \/ SendMulticast
  \/ StartTcpSubscribe \/ FailTcpSubscribe
  \/ Flush
  \/ Restart
  \/ \E p \in Peers :
       \/ QueueUnicast(p)
       \/ FinishTcpSubscribe(p)
       \/ \E ch \in Channel : \E i \in 1..Len(net[p][ch]) :
            Deliver(p, ch, i) \/ Lose(p, ch, i)

Spec == Init /\ [][Next]_vars

-----------------------------------------------------------------------------
(* Properties.                                                             *)

TypeOK ==
  /\ next     \in [Channel -> Sid]
  /\ wrapped  \in [Channel -> BOOLEAN]
  /\ captured \in Waiting
  /\ queued   \in [Peers -> Waiting]
  /\ net      \in [Peers -> [Channel -> Seq(Message)]]
  /\ session  \in [Peers -> [Channel -> ChannelSession]]
  /\ boot     \in Boot
  /\ heard    \in [Peers -> [Channel -> 0..MaxBoot]]
  /\ alarms   \in [Peers -> [Boot -> 0..2]]
  /\ stale    \in BOOLEAN

\* As long as every flag still holds when it is sent, a peer acts on a reboot
\* at most once per restart of the sender, and never during the sender's
\* first incarnation: wraparound, loss, batching and the two independent
\* channels never look like a restart.  (check_reboot_and_reset clears both
\* channels so that the second one does not report the same restart again.)
OneAlarmPerRestart ==
  ~stale => \A p \in Peers :
              /\ alarms[p][1] = 0
              /\ \A b \in Boot : alarms[p][b] <= 1

\* When the first message of a new incarnation arrives on a channel where the
\* peer remembers an earlier one, the restart is noticed at once: ids start
\* at 1, never at 0, and an equal id counts as a regression.
FirstIsNoticed ==
  \A p \in Peers, ch \in Channel :
    \A i \in 1..Len(net[p][ch]) :
      LET m == net[p][ch][i] IN
        /\ Deliver(p, ch, i)
        /\ m.sid = 1 /\ m.reboot
        /\ session[p][ch] # NoSession
        => alarms'[p][m.boot] = IF alarms[p][m.boot] < 2
                                THEN alarms[p][m.boot] + 1 ELSE 2
FirstMessageIsNoticed == [][FirstIsNoticed]_vars

(***************************************************************************)
(* The inductive invariant behind OneAlarmPerRestart.                      *)
(***************************************************************************)

\* What holds of a message that the current incarnation has numbered: its id
\* is behind the counter, and its flag is cleared only after the wrap.
Issued(ch, sid, flag) == IF flag THEN wrapped[ch] \/ sid < next[ch]
                                 ELSE wrapped[ch]

\* May a message (id2, flag2) follow (id1, flag1) within one incarnation?
Follows(id1, flag1, id2, flag2) == flag2 => flag1 /\ id1 < id2

\* Everything under way is of the current incarnation and in order.
LinkInv(p, ch) ==
  LET q == net[p][ch] IN
    /\ \A i \in 1..Len(q) : q[i].boot = boot
    /\ ~stale =>
         /\ \A i \in 1..Len(q) : Issued(ch, q[i].sid, q[i].reboot)
         /\ \A i, j \in 1..Len(q) :
              i < j => Follows(q[i].sid, q[i].reboot, q[j].sid, q[j].reboot)

\* What a peer remembers is the last message it handled; when that is of the
\* current incarnation, everything under way follows it.
BaselineInv(p, ch) ==
  LET s == session[p][ch]
      q == net[p][ch]
  IN  s.id # 0 =>
        /\ heard[p][ch] \in 1..boot
        /\ ~stale /\ heard[p][ch] = boot =>
             /\ Issued(ch, s.id, s.flag)
             /\ \A i \in 1..Len(q) : Follows(s.id, s.flag, q[i].sid, q[i].reboot)

\* Once a restart has been acted on, nothing older is remembered.
AlarmInv(p) ==
  /\ alarms[p][1] = 0
  /\ \A b \in Boot : alarms[p][b] <= 1
  /\ \A b \in Boot : b > boot => alarms[p][b] = 0
  /\ alarms[p][boot] = 1 =>
       \A ch \in Channel : session[p][ch].id # 0 => heard[p][ch] = boot

SessionInv ==
  /\ TypeOK
  /\ \A p \in Peers, ch \in Channel : LinkInv(p, ch) /\ BaselineInv(p, ch)
  /\ ~stale => \A p \in Peers : AlarmInv(p)
=============================================================================
