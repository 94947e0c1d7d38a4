------------------------------ MODULE Requests ------------------------------
(***************************************************************************)
(* What a HID++ Session promises those who call Exchange and Send, without *)
(* the goroutines, locks and tables that keep the promise: a call puts at  *)
(* most one request on the transport, while it runs and while the          *)
(* transport is up, and it ends once, with one answer made for a request   *)
(* of its key, which no other call is given too, or with an error.         *)
(***************************************************************************)
CONSTANTS
  Call,     \* invocations of Exchange and Send
  OneWay,   \* the Sends
  Key,      \* response keys
  None      \* no call

VARIABLES
  status,   \* of each call: "idle", "open", "returned"
  key,      \* the response key of each call
  outcome,  \* what each call returns
  sent,     \* calls whose request was transmitted
  up        \* the transport is up

vars == <<status, key, outcome, sent, up>>

Local(k) == [kind |-> k, from |-> None]

\* Errors a call may return whether or not its request was transmitted.
Giving == {"timeout", "closed"}

Init ==
  /\ status = [t \in Call |-> "idle"]
  /\ key \in [Call -> Key]
  /\ outcome = [t \in Call |-> Local("none")]
  /\ sent = {}
  /\ up = TRUE

Begin(t) ==
  /\ status[t] = "idle"
  /\ status' = [status EXCEPT ![t] = "open"]
  /\ UNCHANGED <<key, outcome, sent, up>>

Transmit(t) ==
  /\ status[t] = "open"
  /\ t \notin sent
  /\ up
  /\ outcome[t] = Local("none")
  /\ sent' = sent \cup {t}
  /\ UNCHANGED <<key, up>>

\* A request that expects an answer is transmitted and its call goes on.
Ask(t) == t \notin OneWay /\ Transmit(t) /\ UNCHANGED <<status, outcome>>

\* A Send has succeeded once its report is transmitted.
Tell(t) ==
  /\ t \in OneWay
  /\ Transmit(t)
  /\ status' = [status EXCEPT ![t] = "returned"]
  /\ outcome' = [outcome EXCEPT ![t] = Local("sent")]

\* The outcome of a call is settled once, and the call ends with it: at once
\* or, when it has something to put in order first, a little later.
Settle(t, r) ==
  /\ status[t] = "open"
  /\ outcome[t] = Local("none")
  /\ outcome' = [outcome EXCEPT ![t] = r]
  /\ status' \in {status, [status EXCEPT ![t] = "returned"]}
  /\ UNCHANGED <<key, sent, up>>

Unused(u) == \A t \in Call : outcome[t].from # u

\* The answer is one the device gave to a request of the same key, not
\* necessarily to this one's, and nobody else has it.
Answer(t) ==
  /\ t \in sent
  /\ \E u \in sent, k \in {"report", "error"} :
       key[u] = key[t] /\ Unused(u) /\ Settle(t, [kind |-> k, from |-> u])

Fail(t) ==
  \/ \E k \in Giving : Settle(t, Local(k))
  \/ t \notin sent /\ Settle(t, Local("write"))
  \/ t \in sent /\ Settle(t, Local("malformed"))

End(t) ==
  /\ status[t] = "open"
  /\ outcome[t] # Local("none")
  /\ status' = [status EXCEPT ![t] = "returned"]
  /\ UNCHANGED <<key, outcome, sent, up>>

Disconnect ==
  /\ up
  /\ up' = FALSE
  /\ UNCHANGED <<status, key, outcome, sent>>

Next ==
  \/ \E t \in Call : Begin(t) \/ Ask(t) \/ Tell(t) \/ Answer(t) \/ Fail(t) \/ End(t)
  \/ Disconnect

Spec == Init /\ [][Next]_vars
=============================================================================
