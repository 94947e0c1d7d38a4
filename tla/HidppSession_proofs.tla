------------------------ MODULE HidppSession_proofs ------------------------
(***************************************************************************)
(* Safety of the transaction core for any number of calls, keys, callbacks *)
(* and callers of Close.                                                   *)
(***************************************************************************)
EXTENDS HidppSession, TLAPS

\* The call that holds the write gate is the one inside the guarded section.
GateInv ==
  \A t \in Call : pc[t] \in {"check", "write"} <=> gate = t

\* Only Exchanges are registered, from their registration to their removal.
TableInv ==
  \A t \in pending :
    t \notin OneWay /\ pc[t] \in {"gate", "check", "write", "wait", "remove"}

\* A call that has not begun has left no trace, so it registers afresh.
FreshInv ==
  \A t \in Call : pc[t] = "idle" => result[t] = NoResult /\ t \notin hand

\* What the reader is about to send matches the calls it is about to serve.
HandInv ==
  Answered(handResult) =>
    \A t \in hand : handResult.from \in Call /\ key[handResult.from] = key[t]

\* What has been sent matches, and names a call.
ResultInv ==
  \A t \in Call : Answered(result[t]) =>
     result[t].from \in Call /\ key[result[t].from] = key[t]

\* The reader marks the session closed before it empties the table, after
\* which no registered call gets past isClosed.
EndInv ==
  /\ reader \in {"fail", "drain", "stopped"} => closed
  /\ done => reader = "stopped"
  /\ reader \in {"drain", "stopped"} =>
       \A t \in pending : pc[t] \in {"gate", "check", "remove"}

IInv ==
  /\ TypeOK
  /\ OneResult
  /\ GateInv
  /\ TableInv
  /\ FreshInv
  /\ HandInv
  /\ ResultInv
  /\ EndInv

-----------------------------------------------------------------------------

\* An error the session makes itself is a result of that kind.
LEMMA LocalResult ==
  ASSUME NEW k \in ResultKind
  PROVE  /\ Local(k) \in Result
         /\ Local(k).kind = k
  BY DEF Local, Result

\* The empty result channel is no answer.
LEMMA NoResultFacts == NoResult \in Result /\ ~Answered(NoResult)
  BY DEF NoResult, Local, Result, ResultKind, Answered

\* Giving up keeps the types of the call's variables.
LEMMA LeaveType ==
  ASSUME TypeOK, NEW t \in Call, NEW r \in ResultKind, Leave(t, r)
  PROVE  /\ pc' \in [Call -> {"idle", "gate", "check", "write", "wait", "remove", "returned"}]
         /\ outcome' \in [Call -> Result]
         /\ key' = key
         /\ pc'[t] \in {"remove", "returned"}
         /\ t \notin OneWay => pc'[t] = "remove"
         /\ \A u \in Call : u # t => pc'[u] = pc[u]
  BY LocalResult DEF TypeOK, Leave

\* A new session (NewSession) satisfies the invariant.
LEMMA InitInv == Init => IInv
<1> SUFFICES ASSUME Init PROVE IInv
  OBVIOUS
<1>1. TypeOK
  <2>1. pc \in [Call -> {"idle", "gate", "check", "write", "wait", "remove", "returned"}]
    BY DEF Init
  <2>2. key \in [Call -> Key] /\ gate \in Call \cup {None}
    BY DEF Init
  <2>3. outcome \in [Call -> Result] /\ result \in [Call -> Result] /\ handResult \in Result
    BY NoResultFacts DEF Init
  <2>4. order \in [Call -> Nat] /\ nextOrder \in Nat /\ \A t \in Call : order[t] <= nextOrder
    BY DEF Init
  <2>5. written \in [Call -> Nat] /\ nextWrite \in Nat
    BY DEF Init
  <2>6. pending = {} /\ hand = {} /\ subs = {} /\ calling = {} /\ wire = {}
    BY DEF Init
  <2>7. closed \in BOOLEAN /\ done \in BOOLEAN /\ terminal \in Cause
    BY DEF Init, Cause
  <2>8. reader = "read" /\ once = "free" /\ link = "up"
    BY DEF Init
  <2>9. closePc \in [Closer -> {"idle", "once", "transport", "wait", "returned"}]
    BY DEF Init
  <2>. QED
    BY <2>1, <2>2, <2>3, <2>4, <2>5, <2>6, <2>7, <2>8, <2>9 DEF TypeOK
<1>2. OneResult /\ TableInv /\ FreshInv
  BY DEF Init, OneResult, TableInv, FreshInv
<1>3. GateInv
  BY CallAssumption DEF Init, GateInv
<1>4. HandInv /\ ResultInv
  BY NoResultFacts DEF Init, HandInv, ResultInv
<1>5. EndInv
  BY DEF Init, EndInv
<1>. QED
  BY <1>1, <1>2, <1>3, <1>4, <1>5 DEF IInv

-----------------------------------------------------------------------------

\* Every step of a caller, of the reader, of Close and of the device keeps the types.
LEMMA TypeStep == TypeOK /\ [Next]_vars => TypeOK'
<1> SUFFICES ASSUME TypeOK, [Next]_vars PROVE TypeOK'
  OBVIOUS
<1> USE DEF callVars, tableVars, stateVars, readerVars, reportVars, closeVars, wireVars
<1>1. ASSUME NEW t \in Call, Exchange(t) PROVE TypeOK'
  BY <1>1 DEF Exchange, AddPending, TypeOK
<1>2. ASSUME NEW t \in Call, Send(t) PROVE TypeOK'
  BY <1>2 DEF Send, TypeOK
<1>3. ASSUME NEW t \in Call, AcquireGate(t) PROVE TypeOK'
  BY <1>3 DEF AcquireGate, TypeOK
<1>4. ASSUME NEW t \in Call, LeaveGate(t) PROVE TypeOK'
  BY <1>4, LeaveType, LocalResult DEF LeaveGate, TypeOK, ResultKind
<1>5. ASSUME NEW t \in Call, CheckOpen(t) PROVE TypeOK'
  BY <1>5, LeaveType, LocalResult DEF CheckOpen, TypeOK, ResultKind
<1>6. ASSUME NEW t \in Call, WriteOk(t) PROVE TypeOK'
  BY <1>6, LocalResult DEF WriteOk, TypeOK, ResultKind
<1>7. ASSUME NEW t \in Call, WriteTerminal(t) PROVE TypeOK'
  BY <1>7, LeaveType, LocalResult DEF WriteTerminal, MarkClosed, TypeOK, ResultKind, Cause
<1>8. ASSUME NEW t \in Call, WriteError(t) PROVE TypeOK'
  BY <1>8, LeaveType, LocalResult DEF WriteError, TypeOK, ResultKind
<1>9. ASSUME NEW t \in Call, Receive(t) PROVE TypeOK'
  BY <1>9 DEF Receive, TypeOK
<1>10. ASSUME NEW t \in Call, StopWaiting(t) PROVE TypeOK'
  BY <1>10, LeaveType, LocalResult DEF StopWaiting, TypeOK, ResultKind
<1>11. ASSUME NEW t \in Call, Remove(t) PROVE TypeOK'
  BY <1>11 DEF Remove, RemovePending, TypeOK
<1>12. ASSUME NEW t \in Call, ReadMatched(t) PROVE TypeOK'
  BY <1>12 DEF ReadMatched, RemovePending, IsOldest, Waiting, TypeOK, Result, ResultKind
<1>13. ASSUME NEW t \in Call, ReadUnmatched(t) PROVE TypeOK'
  BY <1>13 DEF ReadUnmatched, TypeOK
<1>14. ASSUME ReadNotification PROVE TypeOK'
  BY <1>14 DEF ReadNotification, TypeOK
<1>15. ASSUME ReadMalformed PROVE TypeOK'
  BY <1>15, LocalResult DEF ReadMalformed, FailPending, TypeOK, ResultKind
<1>16. ASSUME NEW t \in Call, Deliver(t) PROVE TypeOK'
  BY <1>16 DEF Deliver, TypeOK
<1>17. ASSUME Delivered PROVE TypeOK'
  BY <1>17 DEF Delivered, TypeOK
<1>18. ASSUME NEW c \in Callback, RunCallback(c) PROVE TypeOK'
  BY <1>18 DEF RunCallback, TypeOK
<1>19. ASSUME CallbacksDone PROVE TypeOK'
  BY <1>19 DEF CallbacksDone, TypeOK
<1>20. ASSUME ReadFailed PROVE TypeOK'
  BY <1>20 DEF ReadFailed, MarkClosed, TypeOK, Cause
<1>21. ASSUME FailAll PROVE TypeOK'
  BY <1>21, LocalResult DEF FailAll, FailPending, TypeOK, ResultKind
<1>22. ASSUME Stop PROVE TypeOK'
  BY <1>22 DEF Stop, TypeOK
<1>23. ASSUME NEW c \in Callback, Install(c) PROVE TypeOK'
  BY <1>23 DEF Install, TypeOK
<1>24. ASSUME NEW c \in Callback, Uninstall(c) PROVE TypeOK'
  BY <1>24 DEF Uninstall, TypeOK
<1>25. ASSUME NEW c \in Closer, CloseCall(c) PROVE TypeOK'
  BY <1>25 DEF CloseCall, TypeOK
<1>26. ASSUME NEW c \in Closer, CloseMark(c) PROVE TypeOK'
  BY <1>26 DEF CloseMark, MarkClosed, TypeOK, Cause
<1>27. ASSUME NEW c \in Closer, CloseTransport(c) PROVE TypeOK'
  BY <1>27 DEF CloseTransport, TypeOK
<1>28. ASSUME NEW c \in Closer, CloseSkip(c) PROVE TypeOK'
  BY <1>28 DEF CloseSkip, TypeOK
<1>29. ASSUME NEW c \in Closer, CloseReturn(c) PROVE TypeOK'
  BY <1>29 DEF CloseReturn, TypeOK
<1>30. ASSUME Lose PROVE TypeOK'
  BY <1>30 DEF Lose, TypeOK
<1>31. CASE UNCHANGED vars
  BY <1>31 DEF vars, TypeOK
<1>. QED
  BY <1>1, <1>2, <1>3, <1>4, <1>5, <1>6, <1>7, <1>8, <1>9, <1>10, <1>11, <1>12, <1>13, <1>14, <1>15, <1>16, <1>17, <1>18, <1>19, <1>20, <1>21, <1>22, <1>23, <1>24, <1>25, <1>26, <1>27, <1>28, <1>29, <1>30, <1>31
  DEF Next, Proceed, Advance, WriteReturns, GiveUp, ReaderStep, ReadReport, CloseStep

-----------------------------------------------------------------------------

\* Every step keeps the whole invariant: one case for each operation of session.go.
LEMMA InvStep == IInv /\ [Next]_vars => IInv'
<1> SUFFICES ASSUME IInv, [Next]_vars PROVE IInv'
  OBVIOUS
<1>0. TypeOK /\ TypeOK'
  BY TypeStep DEF IInv
<1> USE <1>0 DEF callVars, tableVars, stateVars, readerVars, reportVars, closeVars, wireVars
<1>1. ASSUME NEW t \in Call, Exchange(t) PROVE IInv'
  BY <1>1
  DEF Exchange, AddPending, TypeOK, IInv, OneResult, GateInv, TableInv, FreshInv, HandInv, ResultInv, EndInv
<1>2. ASSUME NEW t \in Call, Send(t) PROVE IInv'
  BY <1>2
  DEF Send, TypeOK, IInv, OneResult, GateInv, TableInv, FreshInv, HandInv, ResultInv, EndInv
<1>3. ASSUME NEW t \in Call, AcquireGate(t) PROVE IInv'
  BY <1>3, CallAssumption
  DEF AcquireGate, TypeOK, IInv, OneResult, GateInv, TableInv, FreshInv, HandInv, ResultInv, EndInv
<1>4. ASSUME NEW t \in Call, LeaveGate(t) PROVE IInv'
  BY <1>4, LeaveType, CallAssumption, LocalResult
  DEF LeaveGate, TypeOK, IInv, OneResult, GateInv, TableInv, FreshInv, HandInv, ResultInv, EndInv, ResultKind
<1>5. ASSUME NEW t \in Call, CheckOpen(t) PROVE IInv'
  BY <1>5, LeaveType, CallAssumption, LocalResult
  DEF CheckOpen, TypeOK, IInv, OneResult, GateInv, TableInv, FreshInv, HandInv, ResultInv, EndInv, ResultKind
<1>6. ASSUME NEW t \in Call, WriteOk(t) PROVE IInv'
  BY <1>6, CallAssumption, LocalResult
  DEF WriteOk, TypeOK, IInv, OneResult, GateInv, TableInv, FreshInv, HandInv, ResultInv, EndInv, ResultKind
<1>7. ASSUME NEW t \in Call, WriteTerminal(t) PROVE IInv'
  BY <1>7, LeaveType, CallAssumption, LocalResult
  DEF WriteTerminal, MarkClosed, TypeOK, IInv, OneResult, GateInv, TableInv, FreshInv, HandInv, ResultInv, EndInv, ResultKind
<1>8. ASSUME NEW t \in Call, WriteError(t) PROVE IInv'
  BY <1>8, LeaveType, CallAssumption, LocalResult
  DEF WriteError, TypeOK, IInv, OneResult, GateInv, TableInv, FreshInv, HandInv, ResultInv, EndInv, ResultKind
<1>9. ASSUME NEW t \in Call, Receive(t) PROVE IInv'
  BY <1>9
  DEF Receive, TypeOK, IInv, OneResult, GateInv, TableInv, FreshInv, HandInv, ResultInv, EndInv
<1>10. ASSUME NEW t \in Call, StopWaiting(t) PROVE IInv'
  BY <1>10, LeaveType, CallAssumption, LocalResult
  DEF StopWaiting, TypeOK, IInv, OneResult, GateInv, TableInv, FreshInv, HandInv, ResultInv, EndInv, ResultKind
<1>11. ASSUME NEW t \in Call, Remove(t) PROVE IInv'
  BY <1>11
  DEF Remove, RemovePending, TypeOK, IInv, OneResult, GateInv, TableInv, FreshInv, HandInv, ResultInv, EndInv
<1>12. ASSUME NEW t \in Call, ReadMatched(t) PROVE IInv'
  BY <1>12
  DEF ReadMatched, RemovePending, IsOldest, Waiting, TypeOK, IInv, OneResult, GateInv, TableInv, FreshInv, HandInv, ResultInv, EndInv, Answered, Result
<1>13. ASSUME NEW t \in Call, ReadUnmatched(t) PROVE IInv'
  BY <1>13
  DEF ReadUnmatched, TypeOK, IInv, OneResult, GateInv, TableInv, FreshInv, HandInv, ResultInv, EndInv
<1>14. ASSUME ReadNotification PROVE IInv'
  BY <1>14
  DEF ReadNotification, TypeOK, IInv, OneResult, GateInv, TableInv, FreshInv, HandInv, ResultInv, EndInv
<1>15. ASSUME ReadMalformed PROVE IInv'
  BY <1>15, LocalResult, NoResultFacts
  DEF ReadMalformed, FailPending, TypeOK, IInv, OneResult, GateInv, TableInv, FreshInv, HandInv, ResultInv, EndInv, ResultKind, Answered
<1>16. ASSUME NEW t \in Call, Deliver(t) PROVE IInv'
  BY <1>16, NoResultFacts
  DEF Deliver, TypeOK, IInv, OneResult, GateInv, TableInv, FreshInv, HandInv, ResultInv, EndInv
<1>17. ASSUME Delivered PROVE IInv'
  BY <1>17
  DEF Delivered, TypeOK, IInv, OneResult, GateInv, TableInv, FreshInv, HandInv, ResultInv, EndInv
<1>18. ASSUME NEW c \in Callback, RunCallback(c) PROVE IInv'
  BY <1>18
  DEF RunCallback, TypeOK, IInv, OneResult, GateInv, TableInv, FreshInv, HandInv, ResultInv, EndInv
<1>19. ASSUME CallbacksDone PROVE IInv'
  BY <1>19
  DEF CallbacksDone, TypeOK, IInv, OneResult, GateInv, TableInv, FreshInv, HandInv, ResultInv, EndInv
<1>20. ASSUME ReadFailed PROVE IInv'
  BY <1>20
  DEF ReadFailed, MarkClosed, TypeOK, IInv, OneResult, GateInv, TableInv, FreshInv, HandInv, ResultInv, EndInv
<1>21. ASSUME FailAll PROVE IInv'
  BY <1>21, LocalResult, NoResultFacts
  DEF FailAll, FailPending, TypeOK, IInv, OneResult, GateInv, TableInv, FreshInv, HandInv, ResultInv, EndInv, ResultKind, Answered
<1>22. ASSUME Stop PROVE IInv'
  BY <1>22
  DEF Stop, TypeOK, IInv, OneResult, GateInv, TableInv, FreshInv, HandInv, ResultInv, EndInv
<1>23. ASSUME NEW c \in Callback, Install(c) PROVE IInv'
  BY <1>23
  DEF Install, TypeOK, IInv, OneResult, GateInv, TableInv, FreshInv, HandInv, ResultInv, EndInv
<1>24. ASSUME NEW c \in Callback, Uninstall(c) PROVE IInv'
  BY <1>24
  DEF Uninstall, TypeOK, IInv, OneResult, GateInv, TableInv, FreshInv, HandInv, ResultInv, EndInv
<1>25. ASSUME NEW c \in Closer, CloseCall(c) PROVE IInv'
  BY <1>25
  DEF CloseCall, TypeOK, IInv, OneResult, GateInv, TableInv, FreshInv, HandInv, ResultInv, EndInv
<1>26. ASSUME NEW c \in Closer, CloseMark(c) PROVE IInv'
  BY <1>26
  DEF CloseMark, MarkClosed, TypeOK, IInv, OneResult, GateInv, TableInv, FreshInv, HandInv, ResultInv, EndInv
<1>27. ASSUME NEW c \in Closer, CloseTransport(c) PROVE IInv'
  BY <1>27
  DEF CloseTransport, TypeOK, IInv, OneResult, GateInv, TableInv, FreshInv, HandInv, ResultInv, EndInv
<1>28. ASSUME NEW c \in Closer, CloseSkip(c) PROVE IInv'
  BY <1>28
  DEF CloseSkip, TypeOK, IInv, OneResult, GateInv, TableInv, FreshInv, HandInv, ResultInv, EndInv
<1>29. ASSUME NEW c \in Closer, CloseReturn(c) PROVE IInv'
  BY <1>29
  DEF CloseReturn, TypeOK, IInv, OneResult, GateInv, TableInv, FreshInv, HandInv, ResultInv, EndInv
<1>30. ASSUME Lose PROVE IInv'
  BY <1>30
  DEF Lose, TypeOK, IInv, OneResult, GateInv, TableInv, FreshInv, HandInv, ResultInv, EndInv
<1>31. CASE UNCHANGED vars
  BY <1>31 DEF vars, TypeOK, IInv, OneResult, GateInv, TableInv, FreshInv, HandInv, ResultInv, EndInv
<1>. QED
  BY <1>1, <1>2, <1>3, <1>4, <1>5, <1>6, <1>7, <1>8, <1>9, <1>10, <1>11, <1>12, <1>13, <1>14, <1>15, <1>16, <1>17, <1>18, <1>19, <1>20, <1>21, <1>22, <1>23, <1>24, <1>25, <1>26, <1>27, <1>28, <1>29, <1>30, <1>31
  DEF Next, Proceed, Advance, WriteReturns, GiveUp, ReaderStep, ReadReport, CloseStep

-----------------------------------------------------------------------------

\* The inductive invariant holds throughout.
LEMMA Invariance == Spec => []IInv
<1>1. IInv /\ [Next]_vars => IInv'
  BY InvStep
<1>. QED
  BY InitInv, <1>1, PTL DEF Spec

\* Type correctness of session.go's shared state, for every number of calls.
THEOREM TypeCorrect == Spec => []TypeOK
<1>1. IInv => TypeOK
  BY DEF IInv
<1>. QED
  BY Invariance, <1>1, PTL

\* The reader never blocks on the result channel of a transaction: takePending,
\* removePending and failPending hand each entry out at most once.
THEOREM OneResultPerCall == Spec => []OneResult
<1>1. IInv => OneResult
  BY DEF IInv
<1>. QED
  BY Invariance, <1>1, PTL

\* No error path of Exchange leaves its transaction in the pending table.
THEOREM NothingAbandoned == Spec => []NoAbandonedEntry
<1>1. IInv => NoAbandonedEntry
  BY DEF IInv, TableInv, NoAbandonedEntry
<1>. QED
  BY Invariance, <1>1, PTL

\* An answer carries the device index, sub-ID and command byte of the request it
\* completes.
THEOREM AnswersMatchKeys == Spec => []KeyMatched
<1>1. IInv => KeyMatched
  BY DEF IInv, ResultInv, KeyMatched
<1>. QED
  BY Invariance, <1>1, PTL

\* The write gate serializes isClosed and WriteReport.
THEOREM WritesAreSerialized == Spec => []WriteExclusive
<1>1. IInv => WriteExclusive
  BY DEF IInv, GateInv, WriteExclusive
<1>. QED
  BY Invariance, <1>1, PTL

\* After readLoop has closed Done no registered transaction can write or wait.
THEOREM NobodyWaitsAfterDone == Spec => []NoWaiterAfterDone
<1>1. IInv => NoWaiterAfterDone
  BY DEF IInv, EndInv, NoWaiterAfterDone
<1>. QED
  BY Invariance, <1>1, PTL

-----------------------------------------------------------------------------
(* The session implements the request service.                               *)

\* A call has no outcome before it waits, has written its request when it
\* waits, and gives up with an outcome.  An answer it returns was sent to it.
OutcomeInv ==
  \A t \in Call :
    /\ pc[t] \in {"idle", "gate", "check", "write"} =>
         outcome[t] = NoResult /\ written[t] = 0
    /\ pc[t] = "wait" =>
         outcome[t] = NoResult /\ written[t] # 0 /\ t \notin OneWay
    /\ pc[t] = "remove" => outcome[t] # NoResult
    /\ outcome[t].from # None => outcome[t] = result[t]

\* What the reader sends without an answer of the device.
Undelivered == {NoResult, Local("malformed"), Local("closed")}

\* What the reader sends is an answer that is no longer on the wire, to a
\* request that was written, or an error of its own.
Sendable(r) ==
  IF r.from = None
    THEN r \in Undelivered
    ELSE Answered(r) /\ r.from \in Call \ wire /\ written[r.from] # 0

\* Nobody has the answer the reader is about to send, to one call only.
ServedInv ==
  /\ \A t \in wire : written[t] # 0
  /\ Sendable(handResult)
  /\ \A t \in Call : Sendable(result[t])
  /\ hand # {} /\ handResult.from # None =>
       /\ \A t \in Call : result[t].from # handResult.from
       /\ \A t, u \in hand : t = u
  /\ \A t, u \in Call :
       result[t].from # None /\ result[t].from = result[u].from => t = u

RefinementInv == OutcomeInv /\ ServedInv

\* A new session has answered nothing.
LEMMA RefinementInit == Init => RefinementInv
BY CallAssumption
DEF Init, RefinementInv, OutcomeInv, ServedInv, Sendable, Undelivered, NoResult, Local

\* The errors of the session itself come from no request, and are not the
\* empty result.
LEMMA LocalIsError ==
  ASSUME NEW k
  PROVE  /\ Local(k).from = None
         /\ Local(k).kind = k
         /\ k # "none" => Local(k) # NoResult
BY DEF Local, NoResult

\* Giving up with an error: what it does to the call, and to nobody else.
LEMMA LeaveOutcome ==
  ASSUME TypeOK, NEW t \in Call, NEW r \in ResultKind, r # "none", Leave(t, r)
  PROVE  /\ outcome' = [outcome EXCEPT ![t] = Local(r)]
         /\ outcome'[t] = Local(r)
         /\ outcome'[t] # NoResult
         /\ outcome'[t].from = None
         /\ pc'[t] \in {"remove", "returned"}
         /\ \A u \in Call : u # t => pc'[u] = pc[u] /\ outcome'[u] = outcome[u]
BY LocalIsError DEF Leave, TypeOK

\* Every step keeps what the refinement needs: the reader hands out an answer
\* once, and a call settles once.
LEMMA RefinementStep == IInv /\ RefinementInv /\ [Next]_vars => RefinementInv'
<1> SUFFICES ASSUME IInv, RefinementInv, [Next]_vars PROVE RefinementInv'
  OBVIOUS
<1>0. TypeOK /\ TypeOK'
  BY TypeStep DEF IInv
<1> USE <1>0, CallAssumption, LocalIsError
    DEF RefinementInv, callVars, tableVars, stateVars, readerVars, reportVars, closeVars, wireVars
<1>1. ASSUME NEW t \in Call, Exchange(t) PROVE RefinementInv'
  BY <1>1 DEF Exchange, AddPending, TypeOK, OutcomeInv, ServedInv, Sendable
<1>2. ASSUME NEW t \in Call, Send(t) PROVE RefinementInv'
  BY <1>2 DEF Send, TypeOK, OutcomeInv, ServedInv, Sendable
<1>3. ASSUME NEW t \in Call, AcquireGate(t) PROVE RefinementInv'
  BY <1>3 DEF AcquireGate, TypeOK, OutcomeInv, ServedInv, Sendable
<1>4. ASSUME NEW t \in Call, NEW r \in ResultKind, r # "none", Leave(t, r),
             UNCHANGED <<result, hand, handResult, wire, written>>
      PROVE  RefinementInv'
  BY <1>4, LeaveOutcome DEF TypeOK, OutcomeInv, ServedInv, Sendable
<1>5. ASSUME NEW t \in Call, CheckOpen(t), ~closed PROVE RefinementInv'
  BY <1>5 DEF CheckOpen, TypeOK, OutcomeInv, ServedInv, Sendable
<1>6. ASSUME NEW t \in Call, WriteOk(t) PROVE RefinementInv'
  BY <1>6 DEF WriteOk, TypeOK, OutcomeInv, ServedInv, Sendable
<1>7. ASSUME NEW t \in Call, Receive(t) PROVE RefinementInv'
  BY <1>7 DEF Receive, TypeOK, OutcomeInv, ServedInv, Sendable
<1>8. ASSUME NEW t \in Call, Remove(t) PROVE RefinementInv'
  BY <1>8 DEF Remove, TypeOK, OutcomeInv, ServedInv, Sendable
<1>9. ASSUME NEW t \in Call, ReadMatched(t) PROVE RefinementInv'
  BY <1>9 DEF ReadMatched, NextAnswer, TypeOK, OutcomeInv, ServedInv, Sendable, Answered, Result
<1>10. ASSUME NEW t \in Call, ReadUnmatched(t) PROVE RefinementInv'
  BY <1>10 DEF ReadUnmatched, TypeOK, OutcomeInv, ServedInv, Sendable
<1>11. ASSUME NEW r \in {"malformed", "closed"}, FailPending(r),
              UNCHANGED <<pc, outcome, result, wire, written>>
       PROVE  RefinementInv'
  BY <1>11 DEF FailPending, TypeOK, OutcomeInv, ServedInv, Sendable, Undelivered
<1>12. ASSUME NEW t \in Call, Deliver(t) PROVE RefinementInv'
  BY <1>12 DEF Deliver, TypeOK, IInv, FreshInv, OutcomeInv, ServedInv, Sendable, NoResult
<1>13. CASE UNCHANGED <<pc, outcome, result, hand, handResult, wire, written>>
  BY <1>13 DEF OutcomeInv, ServedInv, Sendable
<1>. QED
  BY <1>1, <1>2, <1>3, <1>4, <1>5, <1>6, <1>7, <1>8, <1>9, <1>10, <1>11, <1>12, <1>13
  DEF Next, vars, Proceed, Advance, WriteReturns, GiveUp, ReaderStep, ReadReport, CloseStep,
      ResultKind, LeaveGate, CheckOpen, WriteTerminal, WriteError, StopWaiting, ReadNotification,
      ReadMalformed, Delivered, RunCallback, CallbacksDone, ReadFailed, FailAll, Stop,
      Install, Uninstall, CloseCall, CloseMark, CloseTransport, CloseSkip, CloseReturn, Lose

\* What the service sees: where its calls are, and which of them it has sent.
Statuses == [t \in Call |-> Status(t)]
Transmitted == {t \in Call : written[t] # 0}

\* What the service sees of one call changes only with that call's own pc.
LEMMA StatusFacts ==
  ASSUME TypeOK, TypeOK', NEW t \in Call, \A u \in Call : u # t => pc'[u] = pc[u]
  PROVE  Statuses' = [Statuses EXCEPT ![t] = Status(t)']
BY DEF Statuses, Status, TypeOK

\* A new session is a new service.
LEMMA ServiceInit == Init => Service!Init
BY DEF Init, Service!Init, Service!Local, NoResult, Local, Status

\* A call that gives up settles with its error, at once or after removePending.
LEMMA LeaveFails ==
  ASSUME IInv, RefinementInv, TypeOK', NEW t \in Call,
         NEW r \in {"timeout", "closed", "write"},
         pc[t] \in {"gate", "check", "write", "wait"},
         r = "write" => pc[t] = "write",
         Leave(t, r), UNCHANGED <<written, link>>
  PROVE  Service!Fail(t)
<1>1. TypeOK /\ r \in ResultKind
  BY DEF IInv, ResultKind
<1>2. outcome' = [outcome EXCEPT ![t] = Service!Local(r)]
  BY <1>1, LeaveOutcome DEF Service!Local, Local
<1>3. outcome[t] = Service!Local("none")
  BY DEF RefinementInv, OutcomeInv, NoResult, Local, Service!Local
<1>4. Status(t) = "open" /\ Status(t)' \in {"open", "returned"}
  BY <1>1, LeaveOutcome DEF Status
<1>5. Statuses' = [Statuses EXCEPT ![t] = Status(t)']
  BY <1>1, StatusFacts, LeaveOutcome
<1>6. Statuses' \in {Statuses, [Statuses EXCEPT ![t] = "returned"]}
  BY <1>4, <1>5 DEF Statuses
<1>7. key' = key
  BY DEF Leave
<1>8. Service!Settle(t, Service!Local(r))
  BY <1>2, <1>3, <1>4, <1>6, <1>7 DEF Service!Settle, Statuses, Transmitted
<1>9. r = "write" => t \notin Transmitted
  BY DEF RefinementInv, OutcomeInv, Transmitted
<1>. QED
  BY <1>8, <1>9 DEF Service!Fail, Service!Giving, Transmitted

\* Received results end an exchange: with an answer nobody else has had, or
\* with an error the reader gave to every call that waited.
LEMMA ReceiveSettles ==
  ASSUME IInv, RefinementInv, TypeOK', NEW t \in Call, Receive(t)
  PROVE  Service!Answer(t) \/ Service!Fail(t)
<1>1. TypeOK
  BY DEF IInv
<1>2. /\ key' = key /\ written' = written /\ link' = link
      /\ outcome' = [outcome EXCEPT ![t] = result[t]]
  BY DEF Receive, wireVars
<1>3. outcome[t] = NoResult /\ t \in Transmitted
  BY DEF RefinementInv, OutcomeInv, Receive, Transmitted
<1>4. Status(t) = "open" /\ Status(t)' = "returned"
  BY <1>1 DEF Status, Receive, TypeOK
<1>5. Statuses' = [Statuses EXCEPT ![t] = "returned"]
  BY <1>1, <1>4, StatusFacts DEF Receive, TypeOK
<1>6. Service!Settle(t, result[t])
  BY <1>2, <1>3, <1>4, <1>5 DEF Service!Settle, Service!Local, NoResult, Local, Statuses, Transmitted
<1>7. CASE result[t].from = None
  <2>1. result[t] \in {Local("malformed"), Local("closed")}
    BY <1>7 DEF RefinementInv, ServedInv, Sendable, Undelivered, Receive
  <2>. QED
    BY <2>1, <1>3, <1>6 DEF Service!Fail, Service!Giving, Service!Local, Local, Transmitted
<1>8. CASE result[t].from # None
  <2>1. Answered(result[t]) /\ result[t].from \in Transmitted
    BY <1>8 DEF RefinementInv, ServedInv, Sendable, Transmitted
  <2>2. key[result[t].from] = key[t]
    BY <2>1 DEF IInv, ResultInv
  <2>3. \A u \in Call : outcome[u].from # result[t].from
    BY <1>3, <1>8, LocalIsError DEF RefinementInv, OutcomeInv, ServedInv, NoResult
  <2>4. result[t] = [kind |-> result[t].kind, from |-> result[t].from]
    BY <1>1 DEF TypeOK, Result
  <2>. QED
    BY <1>3, <1>6, <2>1, <2>2, <2>3, <2>4
    DEF Service!Answer, Service!Unused, Answered, Transmitted
<1>. QED
  BY <1>7, <1>8

\* Every step of the session is a step of the service or changes nothing there.
LEMMA ServiceStep == IInv /\ RefinementInv /\ [Next]_vars => [Service!Next]_(Service!vars)
<1> SUFFICES ASSUME IInv, RefinementInv, [Next]_vars
             PROVE  Service!Next \/ UNCHANGED Service!vars
  OBVIOUS
<1>0. TypeOK /\ TypeOK'
  BY TypeStep DEF IInv
<1> USE <1>0 DEF callVars, tableVars, stateVars, readerVars, reportVars, closeVars, wireVars
<1>1. ASSUME NEW t \in Call, Exchange(t) \/ Send(t) PROVE Service!Begin(t)
  <2>1. Statuses' = [Statuses EXCEPT ![t] = "open"] /\ Statuses[t] = "idle"
    BY <1>1, StatusFacts DEF Exchange, Send, Status, Statuses, TypeOK
  <2>. QED
    BY <1>1, <2>1 DEF Exchange, Send, Service!Begin, Statuses
<1>2. ASSUME NEW t \in Call, NEW r \in {"timeout", "closed", "write"},
             pc[t] \in {"gate", "check", "write", "wait"}, r = "write" => pc[t] = "write",
             Leave(t, r), UNCHANGED <<written, link>>
      PROVE  Service!Fail(t)
  BY <1>2, LeaveFails
<1>3. ASSUME NEW t \in Call, WriteOk(t) PROVE Service!Ask(t) \/ Service!Tell(t)
  <2>1. outcome[t] = NoResult /\ t \notin Transmitted
    BY <1>3 DEF WriteOk, RefinementInv, OutcomeInv, Transmitted
  <2>2. Transmitted' = Transmitted \cup {t}
    BY <1>3 DEF WriteOk, Transmitted, TypeOK
  <2>3. Status(t) = "open" /\ Statuses[t] = "open"
    BY <1>3 DEF WriteOk, Status, Statuses
  <2>4. Statuses' = [Statuses EXCEPT ![t] = Status(t)']
    BY <1>3, StatusFacts DEF WriteOk, TypeOK
  <2>5. CASE t \notin OneWay
    <3>1. Status(t)' = "open"
      BY <1>3, <2>5 DEF WriteOk, Status, TypeOK
    <3>2. Statuses' = Statuses
      BY <2>3, <2>4, <3>1 DEF Statuses
    <3>. QED
      BY <1>3, <2>1, <2>2, <2>3, <2>5, <3>2
      DEF WriteOk, Service!Ask, Service!Transmit, Service!Local, NoResult, Local, Statuses, Transmitted
  <2>6. CASE t \in OneWay
    <3>1. Status(t)' = "returned"
      BY <1>3, <2>6 DEF WriteOk, Status, TypeOK
    <3>. QED
      BY <1>3, <2>1, <2>2, <2>3, <2>4, <2>6, <3>1
      DEF WriteOk, Service!Tell, Service!Transmit, Service!Local, NoResult, Local, Statuses, Transmitted
  <2>. QED
    BY <2>5, <2>6
<1>4. ASSUME NEW t \in Call, Receive(t) PROVE Service!Answer(t) \/ Service!Fail(t)
  BY <1>4, ReceiveSettles
<1>5. ASSUME NEW t \in Call, Remove(t) PROVE Service!End(t)
  <2>1. outcome[t] # NoResult
    BY <1>5 DEF Remove, RefinementInv, OutcomeInv
  <2>2. Statuses' = [Statuses EXCEPT ![t] = "returned"] /\ Statuses[t] = "open"
    BY <1>5, StatusFacts DEF Remove, Status, Statuses, TypeOK
  <2>. QED
    BY <1>5, <2>1, <2>2 DEF Remove, Service!End, Service!Local, NoResult, Local, Statuses
<1>6. ASSUME NEW t \in Call, AcquireGate(t) \/ (CheckOpen(t) /\ ~closed)
      PROVE  UNCHANGED Service!vars
  <2>1. Statuses' = Statuses
    BY <1>6, StatusFacts DEF AcquireGate, CheckOpen, Status, Statuses, TypeOK
  <2>. QED
    BY <1>6, <2>1 DEF AcquireGate, CheckOpen, Service!vars, Statuses
<1>7. CASE link' # "up" /\ UNCHANGED <<pc, key, outcome, written>>
  BY <1>7 DEF Service!Next, Service!Disconnect, Service!vars, Status, TypeOK
<1>8. CASE UNCHANGED <<pc, key, outcome, written, link>>
  BY <1>8 DEF Service!vars, Status
<1>. QED
  BY <1>1, <1>2, <1>3, <1>4, <1>5, <1>6, <1>7, <1>8
  DEF Next, vars, Proceed, Advance, WriteReturns, GiveUp, ReaderStep, ReadReport, CloseStep,
      Service!Next, LeaveGate, CheckOpen, WriteTerminal, WriteError, StopWaiting, ReadMatched,
      ReadUnmatched, ReadNotification, ReadMalformed, Deliver, Delivered, RunCallback,
      CallbacksDone, ReadFailed, FailAll, Stop, Install, Uninstall, CloseCall, CloseMark,
      CloseTransport, CloseSkip, CloseReturn, Lose

\* What the callers of Exchange and Send see is what the request service allows:
\* one transmission and one outcome for each call, no answer given twice and
\* none without a request of its key.
THEOREM ServiceImplemented == Spec => ImplementsRequests
<1>1. Init => IInv /\ RefinementInv /\ Service!Init
  BY InitInv, RefinementInit, ServiceInit
<1>2. IInv /\ RefinementInv /\ [Next]_vars => IInv' /\ RefinementInv'
  BY InvStep, RefinementStep
<1>3. IInv /\ RefinementInv /\ [Next]_vars => [Service!Next]_(Service!vars)
  BY ServiceStep
<1>. QED
  BY <1>1, <1>2, <1>3, PTL DEF Spec, ImplementsRequests, Service!Spec
=============================================================================
