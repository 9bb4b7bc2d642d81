---------------------------- MODULE SubscribeCall ----------------------------
(***************************************************************************)
(* What SubscriptionBuilder::subscribe promises its callers: a call asks   *)
(* for a set of eventgroups, all or nothing.  It returns a subscription    *)
(* when the server has accepted every one of them since the call, and an   *)
(* error as soon as the server refuses one that is still open; each call   *)
(* is answered at most once, and a caller that gives up is left alone.     *)
(***************************************************************************)
CONSTANTS Calls, Groups

VARIABLES
  outcome,   \* outcome[s]: where call s stands
  wanted,    \* wanted[s]: the eventgroups it asks for
  confirmed  \* confirmed[s]: those the server has accepted while it waits

vars == <<outcome, wanted, confirmed>>

Outcome == {"idle", "waiting", "ok", "err", "cancelled", "dropped"}

Init ==
  /\ outcome   = [s \in Calls |-> "idle"]
  /\ wanted    = [s \in Calls |-> {}]
  /\ confirmed = [s \in Calls |-> {}]

Call(s, G) ==
  /\ outcome[s] = "idle"
  /\ outcome' = [outcome EXCEPT ![s] = "waiting"]
  /\ wanted'  = [wanted EXCEPT ![s] = G]
  /\ UNCHANGED confirmed

\* No socket can be bound for the call.
Fail(s) ==
  /\ outcome[s] = "idle"
  /\ outcome' = [outcome EXCEPT ![s] = "err"]
  /\ UNCHANGED <<wanted, confirmed>>

\* The server accepts the eventgroups E: every waiting call takes note, and
\* those that now have all they want succeed.
Accept(E) ==
  LET now(s)  == confirmed[s] \cup (E \cap wanted[s])
      done(s) == outcome[s] = "waiting" /\ now(s) = wanted[s]
  IN  /\ outcome' = [s \in Calls |-> IF done(s) THEN "ok" ELSE outcome[s]]
      /\ confirmed' = [s \in Calls |->
           IF outcome[s] = "waiting" /\ ~done(s) THEN now(s) ELSE {}]
      /\ UNCHANGED wanted

\* The server refuses the eventgroups E: every call that still waits for one
\* of them fails as a whole.
Refuse(E) ==
  LET hit(s) == outcome[s] = "waiting" /\ E \cap (wanted[s] \ confirmed[s]) # {}
  IN  /\ outcome'   = [s \in Calls |-> IF hit(s) THEN "err" ELSE outcome[s]]
      /\ confirmed' = [s \in Calls |-> IF hit(s) THEN {} ELSE confirmed[s]]
      /\ UNCHANGED wanted

\* The caller drops the future while it waits.
Cancel(s) ==
  /\ outcome[s] = "waiting"
  /\ outcome'   = [outcome EXCEPT ![s] = "cancelled"]
  /\ confirmed' = [confirmed EXCEPT ![s] = {}]
  /\ UNCHANGED wanted

\* The caller drops the subscription it was given.
Drop(s) ==
  /\ outcome[s] = "ok"
  /\ outcome' = [outcome EXCEPT ![s] = "dropped"]
  /\ UNCHANGED <<wanted, confirmed>>

Next ==
  \/ \E s \in Calls : \/ Fail(s) \/ Cancel(s) \/ Drop(s)
                      \/ \E G \in (SUBSET Groups) \ {{}} : Call(s, G)
  \/ \E E \in SUBSET Groups : Accept(E) \/ Refuse(E)

Spec == Init /\ [][Next]_vars
=============================================================================
