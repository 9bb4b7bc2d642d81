----------------------------- MODULE MethodCall -----------------------------
(***************************************************************************)
(* What a call of a method promises its caller: it returns a response to   *)
(* its own request, with what the application of the server gave it, or    *)
(* with what is wrong with the request or the service; or an error, when   *)
(* the runtime ends or a newer call takes the place of this one.  It       *)
(* returns at most once, and a caller that gives up is left alone.         *)
(***************************************************************************)
CONSTANTS Calls,
          kind    \* what the server finds in the request of each call

VARIABLES
  outcome,  \* outcome[c]: where call c stands
  result,   \* result[c]: the response that it returned
  given,    \* what the application did with the requests of each call
  offered,  \* is the service offered?
  running   \* does the runtime of the callers run?

vars == <<outcome, result, given, offered, running>>

Given == {"ok", "error", "dropped"}

Init ==
  /\ outcome = [c \in Calls |-> "idle"]
  /\ result = [c \in Calls |-> {}]
  /\ given = {}
  /\ offered = TRUE
  /\ running = TRUE

Waiting == {c \in Calls : outcome[c] = "waiting"}

\* The call may take the place of an older one, which then fails.
Make(c, replaced) ==
  /\ running
  /\ outcome[c] = "idle" /\ kind[c] # "fire"
  /\ outcome' = [d \in Calls |-> IF d = c THEN "waiting"
                                 ELSE IF d \in replaced THEN "failed" ELSE outcome[d]]
  /\ UNCHANGED <<result, given, offered, running>>

FireAndForget(c) ==
  /\ running
  /\ outcome[c] = "idle" /\ kind[c] = "fire"
  /\ outcome' = [outcome EXCEPT ![c] = "sent"]
  /\ UNCHANGED <<result, given, offered, running>>

\* The caller drops the future while it waits.
Cancel(c) ==
  /\ outcome[c] = "waiting"
  /\ outcome' = [outcome EXCEPT ![c] = "cancelled"]
  /\ UNCHANGED <<result, given, offered, running>>

\* The application replies to requests of calls that were made, or drops them.
Serve(S) ==
  /\ \A s \in S : outcome[s[1]] # "idle" /\ kind[s[1]] = "good"
  /\ given' = given \cup S
  /\ UNCHANGED <<outcome, result, offered, running>>

\* What a response may say to a call.
MaySay(c, code) ==
  \/ code = "ok" /\ <<c, "ok">> \in given
  \/ code = "app_error" /\ <<c, "error">> \in given
  \/ code = "not_ok" /\ (<<c, "error">> \in given \/ <<c, "dropped">> \in given)
  \/ code = "unknown_service" /\ ~offered
  \/ code \in {"malformed", "wrong_version"} /\ kind[c] = "bad"

Return(c, code) ==
  /\ outcome[c] = "waiting"
  /\ MaySay(c, code)
  /\ outcome' = [outcome EXCEPT ![c] = "answered"]
  /\ result' = [result EXCEPT ![c] = {[call |-> c, code |-> code]}]
  /\ UNCHANGED <<given, offered, running>>

\* The offer of the service ends for good.
Withdraw ==
  /\ offered' = FALSE
  /\ UNCHANGED <<outcome, result, given, running>>

\* The runtime of the callers ends: all calls that wait fail.
End ==
  /\ running
  /\ running' = FALSE
  /\ outcome' = [c \in Calls |-> IF c \in Waiting THEN "failed" ELSE outcome[c]]
  /\ UNCHANGED <<result, given, offered>>

Codes == {"ok", "app_error", "not_ok", "unknown_service", "malformed", "wrong_version"}

Next ==
  \/ \E c \in Calls : \/ \E replaced \in {{}} \cup {{d} : d \in Waiting} : Make(c, replaced)
                      \/ FireAndForget(c) \/ Cancel(c)
                      \/ \E code \in Codes : Return(c, code)
  \/ \E S \in SUBSET (Calls \X Given) : Serve(S)
  \/ Withdraw \/ End

Spec == Init /\ [][Next]_vars
=============================================================================
