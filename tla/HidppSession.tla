---------------------------- MODULE HidppSession ----------------------------
(***************************************************************************)
(* The transaction core of internal/hidpp/session.go: concurrent Exchange  *)
(* and Send calls share one transport through a write gate, one reader     *)
(* goroutine matches what it reads with the calls in a pending table, and  *)
(* Close stops everything.                                                 *)
(*                                                                         *)
(* A call is one invocation of Exchange or Send.  The pending table of the *)
(* code, a map from response key to a slice in order of registration, is   *)
(* the set `pending' with the `order' stamp the code gives each entry.     *)
(* The wire is the set of written requests the device may still answer,    *)
(* with the position of each write; the device answers the requests of one *)
(* key in the order they were written, or never.                           *)
(***************************************************************************)
EXTENDS Naturals

CONSTANTS
  Call,       \* invocations of Exchange and Send
  OneWay,     \* the calls that are Sends: they register no waiter
  Key,        \* response keys: device index, sub-ID, command byte
  Closer,     \* invocations of Close
  Callback,   \* report callbacks: the handler and the subscriptions
  Handler,    \* the callback installed by SetReportHandler
  None        \* no call

ASSUME CallAssumption == OneWay \subseteq Call /\ None \notin Call

VARIABLES
  pc,         \* where each call is
  key,        \* the response key of each call
  outcome,    \* what the call returns
  gate,       \* holder of the write gate, None when its token is free
  pending,    \* calls registered in the pending table
  order,      \* registration stamp of each call
  nextOrder,
  result,     \* one-slot result channel of each call; it is received at most
              \* once, so the value stays to record that it was sent
  closed,     \* Session.closed
  terminal,   \* Session.terminal
  done,       \* Session.done is closed
  reader,     \* where the reader goroutine is
  hand,       \* calls the reader has taken from the table and not yet served
  handResult, \* what it will send them
  subs,       \* installed callbacks
  calling,    \* callbacks the reader has copied and not yet run
  closePc,    \* where each Close call is
  once,       \* closeOnce: "free", "running", "finished"
  link,       \* the transport: "up", "lost", "closed"
  wire,       \* written requests the device may still answer
  written,    \* position of each write
  nextWrite

callVars    == <<pc, key, outcome>>
tableVars   == <<pending, order, nextOrder>>
stateVars   == <<closed, terminal>>
readerVars  == <<reader, hand, handResult, done>>
reportVars  == <<subs, calling>>
closeVars   == <<closePc, once>>
wireVars    == <<wire, written, nextWrite>>

vars == <<callVars, gate, tableVars, result, stateVars, readerVars,
          reportVars, closeVars, link, wireVars>>

Cause  == {"none", "closed", "lost"}

ResultKind == {"none", "report", "error", "malformed", "closed",
               "timeout", "write", "sent"}

Result == [kind : ResultKind, from : Call \cup {None}]

\* A result without an answering request: errors raised in the session itself.
Local(k) == [kind |-> k, from |-> None]

NoResult == Local("none")

\* What an Exchange returns when a device answered it.
Answered(r) == r.kind \in {"report", "error"}

Init ==
  /\ pc = [t \in Call |-> "idle"]
  /\ key \in [Call -> Key]
  /\ outcome = [t \in Call |-> NoResult]
  /\ gate = None
  /\ pending = {}
  /\ order = [t \in Call |-> 0]
  /\ nextOrder = 0
  /\ result = [t \in Call |-> NoResult]
  /\ closed = FALSE
  /\ terminal = "none"
  /\ done = FALSE
  /\ reader = "read"
  /\ hand = {}
  /\ handResult = NoResult
  /\ subs = {}
  /\ calling = {}
  /\ closePc = [c \in Closer |-> "idle"]
  /\ once = "free"
  /\ link = "up"
  /\ wire = {}
  /\ written = [t \in Call |-> 0]
  /\ nextWrite = 0

-----------------------------------------------------------------------------
(* Operations on the session's shared state *)

\* markClosed: the first cause is the one that is kept.
MarkClosed(cause) ==
  /\ closed' = TRUE
  /\ terminal' = IF closed THEN terminal ELSE cause

AddPending(t) ==
  /\ nextOrder' = nextOrder + 1
  /\ order' = [order EXCEPT ![t] = nextOrder + 1]
  /\ pending' = pending \cup {t}

RemovePending(t) == pending' = pending \ {t}

WaitingOfAnyKey(k) == pending \* mutant: the key is not compared

\* The entries a report of key k can be matched with.
Waiting(k) == {t \in pending : key[t] = k}

\* takePending, takePendingError and takePendingFeatureError: the oldest entry.
IsOldest(t, S) == t \in S /\ \A u \in S : order[t] <= order[u]

-----------------------------------------------------------------------------
(* Exchange and Send *)

Exchange(t) ==
  /\ t \notin OneWay
  /\ pc[t] = "idle"
  /\ pc' = [pc EXCEPT ![t] = "gate"]
  /\ AddPending(t)
  /\ UNCHANGED <<key, outcome, gate, result, stateVars, readerVars, reportVars,
                 closeVars, link, wireVars>>

Send(t) ==
  /\ t \in OneWay
  /\ pc[t] = "idle"
  /\ pc' = [pc EXCEPT ![t] = "gate"]
  /\ UNCHANGED <<key, outcome, gate, tableVars, result, stateVars, readerVars,
                 reportVars, closeVars, link, wireVars>>

LeaveRegistered(t, r) ==      \* mutant: the error path skips removePending
  /\ pc' = [pc EXCEPT ![t] = "returned"]
  /\ outcome' = [outcome EXCEPT ![t] = Local(r)]
  /\ UNCHANGED key

\* The call gives up with error r: an Exchange still has to leave the table.
Leave(t, r) ==
  /\ pc' = [pc EXCEPT ![t] = IF t \in OneWay THEN "returned" ELSE "remove"]
  /\ outcome' = [outcome EXCEPT ![t] = Local(r)]
  /\ UNCHANGED key

AcquireGate(t) ==
  /\ pc[t] = "gate"
  /\ gate = None
  /\ gate' = t
  /\ pc' = [pc EXCEPT ![t] = "check"]
  /\ UNCHANGED <<key, outcome, tableVars, result, stateVars, readerVars,
                 reportVars, closeVars, link, wireVars>>

LeaveGateWhenDone(t) ==       \* mutant: the select does not watch the context
  /\ pc[t] = "gate"
  /\ done /\ Leave(t, "closed")
  /\ UNCHANGED <<gate, tableVars, result, stateVars, readerVars, reportVars,
                 closeVars, link, wireVars>>

\* The select on the gate also watches the call's context and the done channel.
LeaveGate(t) ==
  /\ pc[t] = "gate"
  /\ \/ Leave(t, "timeout")
     \/ done /\ Leave(t, "closed")
  /\ UNCHANGED <<gate, tableVars, result, stateVars, readerVars, reportVars,
                 closeVars, link, wireVars>>

CheckOpenReleasing(t) ==      \* mutant: the gate is released before the write
  /\ pc[t] = "check"
  /\ ~closed
  /\ pc' = [pc EXCEPT ![t] = "write"]
  /\ gate' = None
  /\ UNCHANGED <<key, outcome, tableVars, result, stateVars, readerVars,
                 reportVars, closeVars, link, wireVars>>

\* isClosed, read once the gate is held.
CheckOpen(t) ==
  /\ pc[t] = "check"
  /\ \/ /\ closed
        /\ Leave(t, "closed")
        /\ gate' = None
     \/ /\ ~closed
        /\ pc' = [pc EXCEPT ![t] = "write"]
        /\ UNCHANGED <<key, outcome, gate>>
  /\ UNCHANGED <<tableVars, result, stateVars, readerVars, reportVars,
                 closeVars, link, wireVars>>

WriteOk(t) ==
  /\ pc[t] = "write"
  /\ link = "up"
  /\ wire' = wire \cup {t}
  /\ nextWrite' = nextWrite + 1
  /\ written' = [written EXCEPT ![t] = nextWrite + 1]
  /\ gate' = None
  /\ \/ /\ t \notin OneWay
        /\ pc' = [pc EXCEPT ![t] = "wait"]
        /\ UNCHANGED outcome
     \/ /\ t \in OneWay
        /\ pc' = [pc EXCEPT ![t] = "returned"]
        /\ outcome' = [outcome EXCEPT ![t] = Local("sent")]
  /\ UNCHANGED <<key, tableVars, result, stateVars, readerVars,
                 reportVars, closeVars, link>>

\* WriteReport fails with an error isTransportClosed recognises: os.ErrClosed
\* once the transport is closed, EIO, ENODEV or ENXIO from the kernel, which
\* may return EIO for a single failed transfer of a device that stays.
WriteTerminal(t) ==
  /\ pc[t] = "write"
  /\ MarkClosed(IF link = "closed" THEN "closed" ELSE "lost")
  /\ Leave(t, "closed")
  /\ gate' = None
  /\ UNCHANGED <<tableVars, result, readerVars, reportVars, closeVars, link,
                 wireVars>>

\* WriteReport fails with any other error, which only this call sees.
WriteError(t) ==
  /\ pc[t] = "write"
  /\ Leave(t, "write")
  /\ gate' = None
  /\ UNCHANGED <<tableVars, result, stateVars, readerVars, reportVars,
                 closeVars, link, wireVars>>

Receive(t) ==
  /\ pc[t] = "wait"
  /\ result[t] # NoResult
  /\ pc' = [pc EXCEPT ![t] = "returned"]
  /\ outcome' = [outcome EXCEPT ![t] = result[t]]
  /\ UNCHANGED <<key, gate, tableVars, result, stateVars, readerVars,
                 reportVars, closeVars, link, wireVars>>

StopWaitingWhenDone(t) ==     \* mutant: the select does not watch the context
  /\ pc[t] = "wait"
  /\ done /\ Leave(t, "closed")
  /\ UNCHANGED <<gate, tableVars, result, stateVars, readerVars, reportVars,
                 closeVars, link, wireVars>>

\* The other cases of the final select, taken at random when several are ready.
StopWaiting(t) ==
  /\ pc[t] = "wait"
  /\ \/ Leave(t, "timeout")
     \/ done /\ Leave(t, "closed")
  /\ UNCHANGED <<gate, tableVars, result, stateVars, readerVars, reportVars,
                 closeVars, link, wireVars>>

Remove(t) ==
  /\ pc[t] = "remove"
  /\ RemovePending(t)
  /\ pc' = [pc EXCEPT ![t] = "returned"]
  /\ UNCHANGED <<key, outcome, gate, order, nextOrder, result, stateVars,
                 readerVars, reportVars, closeVars, link, wireVars>>

-----------------------------------------------------------------------------
(* The reader goroutine: readLoop and dispatch *)

\* The device's next answer of one key: a report, or an error report.
NextAnswer(t) ==
  /\ t \in wire
  /\ \A u \in wire : key[u] = key[t] => written[t] <= written[u]

ReadMatchedByAll(t) ==        \* mutant: every entry of the key is served
  /\ reader = "read"
  /\ link \in {"up", "lost"}
  /\ NextAnswer(t)
  /\ wire' = wire \ {t}
  /\ Waiting(key[t]) # {}
  /\ \E k \in {"report", "error"} : handResult' = [kind |-> k, from |-> t]
  /\ hand' = Waiting(key[t])
  /\ pending' = pending \ Waiting(key[t])
  /\ reader' = "deliver"
  /\ UNCHANGED <<callVars, gate, order, nextOrder, result, stateVars, done,
                 reportVars, closeVars, link, written, nextWrite>>

\* A report that matches an entry: the oldest entry is taken under pendingMu.
ReadMatched(t) ==
  /\ reader = "read"
  /\ link \in {"up", "lost"}
  /\ NextAnswer(t)
  /\ wire' = wire \ {t}
  /\ \E head \in pending, k \in {"report", "error"} :
       /\ IsOldest(head, Waiting(key[t]))
       /\ RemovePending(head)
       /\ hand' = {head}
       /\ handResult' = [kind |-> k, from |-> t]
  /\ reader' = "deliver"
  /\ UNCHANGED <<callVars, gate, order, nextOrder, result, stateVars, done,
                 reportVars, closeVars, link, written, nextWrite>>

\* A report nobody waits for goes to copies of the callbacks; an error report
\* nobody waits for is dropped.
ReadUnmatched(t) ==
  /\ reader = "read"
  /\ link \in {"up", "lost"}
  /\ NextAnswer(t)
  /\ Waiting(key[t]) = {}
  /\ wire' = wire \ {t}
  /\ \/ reader' = "call" /\ calling' = subs
     \/ UNCHANGED <<reader, calling>>
  /\ UNCHANGED <<callVars, gate, tableVars, result, stateVars, hand, handResult,
                 done, subs, closeVars, link, written, nextWrite>>

\* A device notification: its key is no request's.
ReadNotification ==
  /\ reader = "read"
  /\ link = "up"
  /\ reader' = "call"
  /\ calling' = subs
  /\ UNCHANGED <<callVars, gate, tableVars, result, stateVars, hand, handResult,
                 done, subs, closeVars, link, wireVars>>

FailKeepingEntries(r) ==      \* mutant: the entries are not deleted
  /\ hand' = pending
  /\ handResult' = Local(r)
  /\ UNCHANGED tableVars

\* failPending empties the whole table, whatever the report belonged to.
FailPending(r) ==
  /\ hand' = pending
  /\ pending' = {}
  /\ handResult' = Local(r)
  /\ UNCHANGED <<order, nextOrder>>

ReadMalformed ==
  /\ reader = "read"
  /\ link = "up"
  /\ FailPending("malformed")
  /\ reader' = "deliver"
  /\ UNCHANGED <<callVars, gate, result, stateVars, done, reportVars, closeVars,
                 link, wireVars>>

\* transaction.result <- ...: the send blocks while the slot is full.
Deliver(t) ==
  /\ t \in hand
  /\ result[t] = NoResult
  /\ result' = [result EXCEPT ![t] = handResult]
  /\ hand' = hand \ {t}
  /\ UNCHANGED <<callVars, gate, tableVars, stateVars, reader, handResult, done,
                 reportVars, closeVars, link, wireVars>>

Delivered ==
  /\ reader = "deliver"
  /\ hand = {}
  /\ reader' = "read"
  /\ UNCHANGED <<callVars, gate, tableVars, result, stateVars, hand, handResult,
                 done, reportVars, closeVars, link, wireVars>>

\* The handler runs first, then the subscriptions in map order.
RunCallback(c) ==
  /\ reader = "call"
  /\ c \in calling
  /\ Handler \in calling => c = Handler
  /\ calling' = calling \ {c}
  /\ UNCHANGED <<callVars, gate, tableVars, result, stateVars, readerVars, subs,
                 closeVars, link, wireVars>>

CallbacksDone ==
  /\ reader = "call"
  /\ calling = {}
  /\ reader' = "read"
  /\ UNCHANGED <<callVars, gate, tableVars, result, stateVars, hand, handResult,
                 done, reportVars, closeVars, link, wireVars>>

ReadFailedUnmarked ==         \* mutant: the table is emptied while the session is open
  /\ reader = "read"
  /\ link \in {"lost", "closed"}
  /\ reader' = "fail"
  /\ UNCHANGED <<callVars, gate, tableVars, result, stateVars, hand, handResult,
                 done, reportVars, closeVars, link, wireVars>>

\* ReadReport fails: the session is marked closed before the table is emptied.
ReadFailed ==
  /\ reader = "read"
  /\ link \in {"lost", "closed"}
  /\ MarkClosed(link)
  /\ reader' = "fail"
  /\ UNCHANGED <<callVars, gate, tableVars, result, hand, handResult, done,
                 reportVars, closeVars, link, wireVars>>

FailAll ==
  /\ reader = "fail"
  /\ FailPending("closed")
  /\ reader' = "drain"
  /\ UNCHANGED <<callVars, gate, result, stateVars, done, reportVars, closeVars,
                 link, wireVars>>

StopSilently ==               \* mutant: done is not closed
  /\ reader = "drain"
  /\ hand = {}
  /\ reader' = "stopped"
  /\ UNCHANGED <<callVars, gate, tableVars, result, stateVars, hand, handResult,
                 done, reportVars, closeVars, link, wireVars>>

\* readLoop returns and its deferred close(s.done) runs.
Stop ==
  /\ reader = "drain"
  /\ hand = {}
  /\ reader' = "stopped"
  /\ done' = TRUE
  /\ UNCHANGED <<callVars, gate, tableVars, result, stateVars, hand, handResult,
                 reportVars, closeVars, link, wireVars>>

-----------------------------------------------------------------------------
(* SetReportHandler and SubscribeReport *)

Install(c) ==
  /\ c \notin subs
  /\ subs' = subs \cup {c}
  /\ UNCHANGED <<callVars, gate, tableVars, result, stateVars, readerVars,
                 calling, closeVars, link, wireVars>>

Uninstall(c) ==
  /\ c \in subs
  /\ subs' = subs \ {c}
  /\ UNCHANGED <<callVars, gate, tableVars, result, stateVars, readerVars,
                 calling, closeVars, link, wireVars>>

-----------------------------------------------------------------------------
(* Close *)

CloseCall(c) ==
  /\ closePc[c] = "idle"
  /\ closePc' = [closePc EXCEPT ![c] = "once"]
  /\ UNCHANGED <<callVars, gate, tableVars, result, stateVars, readerVars,
                 reportVars, once, link, wireVars>>

\* closeOnce.Do runs the body for one caller and holds the others until it ends.
CloseMark(c) ==
  /\ closePc[c] = "once"
  /\ once = "free"
  /\ once' = "running"
  /\ MarkClosed("closed")
  /\ closePc' = [closePc EXCEPT ![c] = "transport"]
  /\ UNCHANGED <<callVars, gate, tableVars, result, readerVars, reportVars, link,
                 wireVars>>

CloseKeepingTransport(c) ==   \* mutant: the transport stays open
  /\ closePc[c] = "transport"
  /\ once' = "finished"
  /\ closePc' = [closePc EXCEPT ![c] = "wait"]
  /\ UNCHANGED <<callVars, gate, tableVars, result, stateVars, readerVars,
                 reportVars, link, wireVars>>

CloseTransport(c) ==
  /\ closePc[c] = "transport"
  /\ link' = "closed"
  /\ once' = "finished"
  /\ closePc' = [closePc EXCEPT ![c] = "wait"]
  /\ UNCHANGED <<callVars, gate, tableVars, result, stateVars, readerVars,
                 reportVars, wireVars>>

CloseSkip(c) ==
  /\ closePc[c] = "once"
  /\ once = "finished"
  /\ closePc' = [closePc EXCEPT ![c] = "wait"]
  /\ UNCHANGED <<callVars, gate, tableVars, result, stateVars, readerVars,
                 reportVars, once, link, wireVars>>

CloseReturn(c) ==
  /\ closePc[c] = "wait"
  /\ done
  /\ closePc' = [closePc EXCEPT ![c] = "returned"]
  /\ UNCHANGED <<callVars, gate, tableVars, result, stateVars, readerVars,
                 reportVars, once, link, wireVars>>

-----------------------------------------------------------------------------
(* The physical device disappears *)

Lose ==
  /\ link = "up"
  /\ link' = "lost"
  /\ UNCHANGED <<callVars, gate, tableVars, result, stateVars, readerVars,
                 reportVars, closeVars, wireVars>>

-----------------------------------------------------------------------------

WriteReturns(t) == WriteOk(t) \/ WriteTerminal(t) \/ WriteError(t)

Advance(t) == AcquireGate(t) \/ CheckOpen(t) \/ Receive(t) \/ Remove(t)

\* The steps of a call once it has begun, without the choice of a timeout.
Proceed(t) == Advance(t) \/ WriteReturns(t)

GiveUp(t) == LeaveGate(t) \/ StopWaiting(t)

\* The reader's steps that do not depend on what the device sends.
ReaderStep ==
  \/ \E t \in Call : Deliver(t)
  \/ Delivered
  \/ \E c \in Callback : RunCallback(c)
  \/ CallbacksDone
  \/ ReadFailed
  \/ FailAll
  \/ Stop

ReadReport ==
  \/ \E t \in Call : ReadMatched(t) \/ ReadUnmatched(t)
  \/ ReadNotification
  \/ ReadMalformed

CloseStep(c) ==
  CloseMark(c) \/ CloseTransport(c) \/ CloseSkip(c) \/ CloseReturn(c)

Next ==
  \/ \E t \in Call : Exchange(t) \/ Send(t) \/ Proceed(t) \/ GiveUp(t)
  \/ ReaderStep
  \/ ReadReport
  \/ \E c \in Callback : Install(c) \/ Uninstall(c)
  \/ \E c \in Closer : CloseCall(c) \/ CloseStep(c)
  \/ Lose

Spec == Init /\ [][Next]_vars

-----------------------------------------------------------------------------
(* Fairness.  Goroutines are scheduled, callbacks return, a closed or lost   *)
(* transport fails its read, and a closed Done is seen by the selects that   *)
(* wait on it.  Nothing obliges the device to answer, the link to fail, or   *)
(* anyone to call Exchange or Close.                                         *)

Fairness ==
  /\ \A t \in Call : WF_vars(Advance(t)) /\ WF_vars(done /\ GiveUp(t))
  /\ WF_vars(ReaderStep)
  /\ \A c \in Closer : WF_vars(CloseStep(c))

FairSpec == Spec /\ Fairness

\* WriteReport takes no context, and a device that takes no report may hold it for
\* ever.  The fairness above leaves it out, to say what becomes of the others.
WritesReturn == \A t \in Call : WF_vars(WriteReturns(t))

\* transactionContext gives a context without a deadline one of its own.  The
\* fairness above leaves it out, to say what Close alone achieves.
DeadlinesExpire == \A t \in Call : WF_vars(GiveUp(t))

-----------------------------------------------------------------------------
(* Properties *)

TypeOK ==
  /\ pc \in [Call -> {"idle", "gate", "check", "write", "wait", "remove", "returned"}]
  /\ key \in [Call -> Key]
  /\ outcome \in [Call -> Result]
  /\ gate \in Call \cup {None}
  /\ pending \in SUBSET Call
  /\ order \in [Call -> Nat]
  /\ nextOrder \in Nat
  /\ \A t \in Call : order[t] <= nextOrder
  /\ result \in [Call -> Result]
  /\ closed \in BOOLEAN
  /\ terminal \in Cause
  /\ done \in BOOLEAN
  /\ reader \in {"read", "deliver", "call", "fail", "drain", "stopped"}
  /\ hand \in SUBSET Call
  /\ handResult \in Result
  /\ subs \in SUBSET Callback
  /\ calling \in SUBSET Callback
  /\ closePc \in [Closer -> {"idle", "once", "transport", "wait", "returned"}]
  /\ once \in {"free", "running", "finished"}
  /\ link \in {"up", "lost", "closed"}
  /\ wire \in SUBSET Call
  /\ written \in [Call -> Nat]
  /\ nextWrite \in Nat

\* No call is ever sent a second result, so the reader, which serves every
\* device, never blocks on a result channel: failPending, the three takePending
\* functions and removePending hand each entry out at most once.
OneResult ==
  \A t \in pending \cup hand : result[t] = NoResult /\ ~(t \in pending /\ t \in hand)

\* A call that has returned has left nothing in the pending table, whichever of
\* the timeout, write error, close and answer paths it took.
NoAbandonedEntry ==
  \A t \in pending : pc[t] \notin {"idle", "returned"}

\* A call is only answered by a report that carries its own device index,
\* sub-ID and command byte.
KeyMatched ==
  \A t \in Call : Answered(result[t]) => key[result[t].from] = key[t]

\* Report writes are serialized by the write gate on every path through write.
WriteExclusive ==
  \A t, u \in Call :
    pc[t] \in {"check", "write"} /\ pc[u] \in {"check", "write"} => t = u

\* Once Done is closed no registered call can still write or wait for an
\* answer: readLoop marks the session closed before it empties the table, so a
\* later registration is turned away by isClosed.
NoWaiterAfterDone ==
  done => /\ closed
          /\ \A t \in pending : pc[t] \in {"gate", "check", "remove"}

\* Every Exchange and Send returns, even when the device is mute.
CallsReturn ==
  WritesReturn /\ DeadlinesExpire => \A t \in Call : pc[t] # "idle" ~> pc[t] = "returned"

\* Every Close returns, whatever the reader was doing.
CloseReturns == \A c \in Closer : closePc[c] # "idle" ~> closePc[c] = "returned"

\* Closing releases the calls in flight without waiting for their deadlines.
CloseReleasesCalls ==
  WritesReturn =>
    \A t \in Call : \A c \in Closer :
      pc[t] # "idle" /\ closePc[c] # "idle" ~> pc[t] = "returned"

\* A WriteReport that does not return holds up its own call and no other: those
\* that wait for the gate behind it leave with their deadline or with Close, and
\* so does the call that waits for an answer.
SlowWriteHoldsOne ==
  LET Held(t) == pc[t] # "idle" /\ pc[t] # "write"
      Free(t) == pc[t] \in {"write", "returned"} IN
  /\ DeadlinesExpire => \A t \in Call : Held(t) ~> Free(t)
  /\ \A t \in Call : \A c \in Closer : Held(t) /\ closePc[c] # "idle" ~> Free(t)

-----------------------------------------------------------------------------
(* The abstract request service, and what it sees of the session.            *)

Status(t) == IF pc[t] \in {"idle", "returned"} THEN pc[t] ELSE "open"

Service ==
  INSTANCE Requests WITH
    status <- [t \in Call |-> Status(t)],
    sent   <- {t \in Call : written[t] # 0},
    up     <- link = "up"

\* The session implements the request service: no request is written for a call
\* that has returned or twice for one call, no call ends twice, no answer is
\* given to two calls, and none comes from a request that was never written.
ImplementsRequests == Service!Spec

-----------------------------------------------------------------------------
(* What is said of the code and does not hold: TLC finds a counterexample.   *)

\* Every request is matched with its own answer: the pending table protects
\* response ownership (the comment on Session).
ResponseOwnership ==
  \A t \in Call : Answered(outcome[t]) => outcome[t].from = t

\* A session that has become unusable closes Done, on which the owner of the
\* session waits to begin discovery again (the comments on Done).
LossReported == closed ~> done
=============================================================================
