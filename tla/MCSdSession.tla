----------------------------- MODULE MCSdSession -----------------------------
(***************************************************************************)
(* Instances of SdSession for TLC, and what the repository says of reboot  *)
(* detection where the code does otherwise.                                *)
(***************************************************************************)
EXTENDS SdSession

\* tests/compliance/server_behavior/sd_session.rs:2956: a peer whose session
\* id wraps with the REBOOT flag cleared has not rebooted; so in the sender's
\* first incarnation nobody acts on a reboot.
WrapIsNoReboot == \A p \in Peers : alarms[p][1] = 0

\* sd_session.rs:1458: a peer that reboots again before its ids have wrapped
\* is noticed; so the first message of an incarnation, after a message of an
\* earlier one on the same channel, makes its receiver act on a reboot.
RebootAgainIsNoticed ==
  [][\A p \in Peers, ch \in Channel :
       \A i \in 1..Len(net[p][ch]) :
         LET m == net[p][ch][i] IN
           /\ Deliver(p, ch, i)
           /\ m.sid = 1 /\ m.reboot
           /\ heard[p][ch] \in 1..(m.boot - 1)
           => alarms'[p][m.boot] = alarms[p][m.boot] + 1]_vars
=============================================================================
