---------------------------- MODULE MCDiscovery ----------------------------
(***************************************************************************)
(* Instances of Discovery for TLC.                                         *)
(***************************************************************************)
EXTENDS Discovery

CONSTANTS a, b

\* Find a is for one service; b is for the same one, or for any.
SomeSearches ==
  LET one == [instance |-> CHOOSE i \in Instances : TRUE, major |-> CHOOSE m \in Majors : TRUE]
      any == [instance |-> AnyInstance, major |-> AnyMajor]
  IN  {[f \in Finds |-> IF f = a THEN one ELSE c] : c \in {one, any}}

\* handles/client/find.rs:122: NotAvailable means that no matching service was
\* found and all repetitions of the find are exhausted.
UnavailableIsExhausted ==
  [][\A f \in Finds : outcome[f] = "waiting" /\ outcome'[f] = "unavailable" =>
       \E r \in requests : r.find = f /\ r.left = 0]_vars

\* handles/runtime.rs:438: a monitor is notified of all activity: services
\* that are announced, unavailable and expired.
GoneIsReported == monitored => view \subseteq Known
=============================================================================
