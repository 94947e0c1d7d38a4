----------------------- MODULE ReceiverSession_proofs -----------------------
(***************************************************************************)
(* The children of a receiver session, for any number of slots, handles    *)
(* and reports and any capacity of the queues.                             *)
(***************************************************************************)
EXTENDS ReceiverSession, SequenceTheorems, TLAPS

Live == {"added", "ready", "sleeping"}

\* A slot's entry is a handle of that slot.
EntryInv == \A s \in Slot : table[s] # None => slot[table[s]] = s

\* What waits to be initialized, what the worker is busy with and what the
\* opener is adding exist: they are live, or were removed in the meantime.
QueueInv ==
  /\ \A i \in 1..Len(init) : state[init[i]] # "unused"
  /\ worker \in {"remove", "queue", "ping"} => child \in Handle /\ state[child] # "unused"
  /\ opener \in {"announce", "queue"} => opening \in Handle /\ state[opening] # "unused"

\* Close begins when the opener has ended, and empties the table when the worker
\* has: after that nobody is left to add a child, or to remove one but Close.
CloseInv ==
  /\ closer # "idle" => opener \in {"open", "failed"}
  /\ closer \in {"children", "returned"} =>
       worker = "stopped" /\ \A s \in Slot : table[s] = None
  /\ closer # "children" => leaving = {}

IInv ==
  /\ TypeOK
  /\ TableIsLive
  /\ EntryInv
  /\ QueueInv
  /\ CloseInv

-----------------------------------------------------------------------------
(* Queues *)

\* Receiving from a bounded channel.
LEMMA Taken ==
  ASSUME NEW S, NEW q \in Seq(S), q # << >>, NEW cap \in Nat, Len(q) <= cap
  PROVE  /\ Head(q) \in S /\ Head(q) = q[1] /\ 1 \in 1..Len(q)
         /\ Tail(q) \in Seq(S) /\ Len(Tail(q)) <= cap
         /\ \A i \in 1..Len(Tail(q)) : i + 1 \in 1..Len(q) /\ Tail(q)[i] = q[i + 1]
<1>1. Len(q) \in Nat \ {0}
  BY EmptySeq
<1>2. /\ Head(q) \in S /\ Tail(q) \in Seq(S) /\ Len(Tail(q)) = Len(q) - 1
      /\ \A i \in 1..Len(Tail(q)) : Tail(q)[i] = q[i + 1]
  BY HeadTailProperties
<1>3. Head(q) = q[1]
  OBVIOUS
<1> QED BY <1>1, <1>2, <1>3

\* Sending to a bounded channel.
LEMMA Sent ==
  ASSUME NEW S, NEW q \in Seq(S), NEW cap \in Nat, Len(q) < cap, NEW x \in S
  PROVE  /\ Append(q, x) \in Seq(S) /\ Len(Append(q, x)) <= cap
         /\ \A i \in 1..Len(Append(q, x)) :
              (i \in 1..Len(q) /\ Append(q, x)[i] = q[i]) \/ Append(q, x)[i] = x
<1>1. Len(q) \in Nat /\ Append(q, x) \in Seq(S) /\ Len(Append(q, x)) = Len(q) + 1
  BY AppendProperties, LenProperties
<1>2. \A i \in 1..(Len(q) + 1) : Append(q, x)[i] = IF i <= Len(q) THEN q[i] ELSE x
  BY AppendProperties
<1>3. \A i \in 1..(Len(q) + 1) : i <= Len(q) => i \in 1..Len(q)
  BY <1>1
<1> QED BY <1>1, <1>2, <1>3

\* The queue keeps its type, whether there is room or not.
LEMMA SentType ==
  ASSUME NEW S, NEW q \in Seq(S), NEW cap \in Nat, Len(q) <= cap, NEW x \in S, NEW r,
         r = q \/ (Len(q) < cap /\ r = Append(q, x))
  PROVE  r \in Seq(S) /\ Len(r) <= cap
<1>1. CASE r = q
  BY <1>1
<1>2. CASE Len(q) < cap /\ r = Append(q, x)
  BY <1>2, Sent
<1> QED BY <1>1, <1>2

-----------------------------------------------------------------------------

LEMMA InitInv == Init => IInv
<1> SUFFICES ASSUME Init PROVE IInv
  OBVIOUS
<1>1. reports \in Seq(Report) /\ init \in Seq(Handle) /\ Len(reports) = 0 /\ Len(init) = 0
  BY DEF Init
<1>2. 0 <= ReportsCap /\ 0 <= InitCap /\ 0 \in 0..MaxReports
  BY ReceiverAssumption
<1>3. TypeOK
  BY <1>1, <1>2 DEF Init, TypeOK, NoReport
<1>4. TableIsLive /\ EntryInv /\ QueueInv /\ CloseInv
  BY <1>1, ReceiverAssumption DEF Init, TableIsLive, Removing, EntryInv, QueueInv,
                                    CloseInv
<1> QED BY <1>3, <1>4 DEF IInv

-----------------------------------------------------------------------------
(* Types *)

LEMMA TakeReportType ==
  ASSUME TypeOK, NEW types, TakeReport(types)
  PROVE  /\ Head(reports) \in Report
         /\ reports' \in Seq(Report) /\ Len(reports') <= ReportsCap
         /\ UNCHANGED <<held, sent, openVars, closeVars>>
  BY Taken, ReceiverAssumption DEF TypeOK, TakeReport

\* upsert changes the table only.
LEMMA UpsertType ==
  ASSUME TypeOK, NEW s \in Slot, NEW h \in Handle, Upsert(s, h)
  PROVE  table' \in [Slot -> Handle \cup {None}] /\ slot' = slot
  BY DEF TypeOK, Upsert, Known, Fresh

LEMMA QueueInitType ==
  ASSUME TypeOK, NEW h \in Handle, QueueInit(h)
  PROVE  /\ init' \in Seq(Handle) /\ Len(init') <= InitCap
         /\ worker' \in {"select", "remove", "queue", "ping", "stopped"}
         /\ child' \in Handle \cup {None}
<1>1. init' = init \/ (Len(init) < InitCap /\ init' = Append(init, h))
  BY DEF QueueInit
<1>2. init' \in Seq(Handle) /\ Len(init') <= InitCap
  BY <1>1, SentType, ReceiverAssumption DEF TypeOK
<1> QED BY <1>2 DEF TypeOK, QueueInit, workerVars

LEMMA WorkerType ==
  ASSUME IInv, WorkerStep \/ WorkerStop
  PROVE  TypeOK'
<1> USE DEF IInv, queueVars, childVars, workerVars, openVars, closeVars
<1>1. CASE WorkerRemove
  <2>0. /\ Head(reports) \in Report
        /\ reports' \in Seq(Report) /\ Len(reports') <= ReportsCap
        /\ UNCHANGED <<held, sent, openVars, closeVars>>
    BY <1>1, TakeReportType DEF WorkerRemove
  <2>1. Head(reports).slot \in Slot
    BY <2>0 DEF Report
  <2>2. /\ table' \in [Slot -> Handle \cup {None}]
        /\ worker' \in {"select", "remove"} /\ child' \in Handle \cup {None}
    <3>1. worker = "select"
      BY <1>1 DEF WorkerRemove, TakeReport
    <3> QED BY <1>1, <2>1, <3>1 DEF WorkerRemove, TypeOK
  <2> QED BY <1>1, <2>0, <2>2 DEF WorkerRemove, TypeOK
<1>2. CASE WorkerSleep
  <2>0. /\ Head(reports) \in Report
        /\ reports' \in Seq(Report) /\ Len(reports') <= ReportsCap
        /\ UNCHANGED <<held, sent, openVars, closeVars>>
    BY <1>2, TakeReportType DEF WorkerSleep
  <2>1. Head(reports).slot \in Slot
    BY <2>0 DEF Report
  <2>2. /\ table' \in [Slot -> Handle \cup {None}] /\ slot' = slot
        /\ state' \in [Handle -> {"unused", "added", "ready", "sleeping", "removed"}]
        /\ told' \in [Handle -> {"none", "added", "ready", "sleeping", "woken", "removed"}]
    BY <1>2, <2>1, UpsertType DEF WorkerSleep, TypeOK
  <2> QED BY <1>2, <2>0, <2>2 DEF WorkerSleep, TypeOK
<1>3. CASE WorkerConnect
  <2>0. /\ Head(reports) \in Report
        /\ reports' \in Seq(Report) /\ Len(reports') <= ReportsCap
        /\ UNCHANGED <<held, sent, openVars, closeVars>>
    BY <1>3, TakeReportType DEF WorkerConnect
  <2>1. Head(reports).slot \in Slot
    BY <2>0 DEF Report
  <2>2. PICK h \in Handle :
          /\ Upsert(Head(reports).slot, h)
          /\ state' = [state EXCEPT ![h] = StateAfterUpsert(h)]
          /\ told' = [told EXCEPT ![h] = IF state[h] = "unused" THEN "added"
                                        ELSE IF state[h] = "sleeping" THEN "woken" ELSE @]
          /\ QueueInit(h)
    BY <1>3 DEF WorkerConnect
  <2>3. /\ table' \in [Slot -> Handle \cup {None}] /\ slot' = slot
        /\ state' \in [Handle -> {"unused", "added", "ready", "sleeping", "removed"}]
        /\ told' \in [Handle -> {"none", "added", "ready", "sleeping", "woken", "removed"}]
    BY <2>1, <2>2, UpsertType DEF TypeOK, StateAfterUpsert
  <2>4. /\ init' \in Seq(Handle) /\ Len(init') <= InitCap
        /\ worker' \in {"select", "remove", "queue", "ping", "stopped"}
        /\ child' \in Handle \cup {None}
    BY <2>2, QueueInitType
  <2> QED BY <2>0, <2>3, <2>4 DEF TypeOK
<1>4. CASE WorkerInput
  <2>1. /\ reports' \in Seq(Report) /\ Len(reports') <= ReportsCap
        /\ UNCHANGED <<held, sent, openVars, closeVars>>
    BY <1>4, TakeReportType DEF WorkerInput
  <2> QED BY <1>4, <2>1 DEF WorkerInput, TypeOK
<1>5. CASE WorkerQueued
  <2>1. child \in Handle
    BY <1>5 DEF WorkerQueued, QueueInv
  <2>2. init' \in Seq(Handle) /\ Len(init') <= InitCap
    <3>1. init' = init \/ (Len(init) < InitCap /\ init' = Append(init, child))
      BY <1>5 DEF WorkerQueued
    <3> QED BY <2>1, <3>1, SentType, ReceiverAssumption DEF TypeOK
  <2> QED BY <1>5, <2>2 DEF WorkerQueued, TypeOK
<1>6. CASE Initialize
  <2>1. Head(init) \in Handle /\ init' \in Seq(Handle) /\ Len(init') <= InitCap
    BY <1>6, Taken, ReceiverAssumption DEF Initialize, TypeOK
  <2> QED BY <1>6, <2>1 DEF Initialize, TypeOK
<1>7. CASE PingAnswered \/ PingFails \/ PingRefused
  <2>1. /\ state' \in [Handle -> {"unused", "added", "ready", "sleeping", "removed"}]
        /\ told' \in [Handle -> {"none", "added", "ready", "sleeping", "woken", "removed"}]
    BY <1>7 DEF PingAnswered, PingFails, PingRefused, TypeOK
  <2>2. PingEnds
    BY <1>7 DEF PingAnswered, PingFails, PingRefused
  <2> QED BY <2>1, <2>2 DEF PingEnds, TypeOK
<1>8. CASE WorkerStop
  BY <1>8 DEF WorkerStop, TypeOK
<1>9. CASE WorkerRemoved
  <2>1. /\ state' \in [Handle -> {"unused", "added", "ready", "sleeping", "removed"}]
        /\ told' \in [Handle -> {"none", "added", "ready", "sleeping", "woken", "removed"}]
    BY <1>9 DEF WorkerRemoved, TypeOK
  <2>2. /\ worker' = "select" /\ child' = None
        /\ UNCHANGED <<queueVars, init, table, slot, openVars, closeVars>>
    BY <1>9 DEF WorkerRemoved
  <2> HIDE DEF IInv
  <2> QED BY <2>1, <2>2 DEF IInv, TypeOK
<1> QED BY <1>1, <1>2, <1>3, <1>4, <1>5, <1>6, <1>7, <1>8, <1>9 DEF WorkerStep

LEMMA OpenerType ==
  ASSUME IInv, OpenerStep
  PROVE  TypeOK'
<1> USE DEF IInv, queueVars, childVars, workerVars, openVars, closeVars
<1>1. CASE Configure
  BY <1>1 DEF Configure, TypeOK
<1>2. CASE Enumerate
  BY <1>2 DEF Enumerate, TypeOK
<1>3. CASE OpenFails
  BY <1>3 DEF OpenFails, TypeOK
<1>4. ASSUME NEW s \in Slot, AddKnown(s)
      PROVE  TypeOK'
  BY <1>4 DEF AddKnown, TypeOK
<1>5. ASSUME NEW s \in Slot, AddPaired(s)
      PROVE  TypeOK'
  <2>1. PICK h \in Handle : Fresh(s, h) /\ state' = [state EXCEPT ![h] = "added"] /\ opening' = h
    BY <1>5 DEF AddPaired
  <2>2. table' \in [Slot -> Handle \cup {None}] /\ slot' = slot
    BY <2>1, UpsertType DEF Upsert
  <2> QED BY <1>5, <2>1, <2>2 DEF AddPaired, TypeOK
<1>6. CASE AnnouncePaired
  <2>1. told' \in [Handle -> {"none", "added", "ready", "sleeping", "woken", "removed"}]
    BY <1>6 DEF AnnouncePaired, TypeOK
  <2>2. /\ opener' = "queue"
        /\ UNCHANGED <<queueVars, init, table, slot, state, workerVars, paired, opening,
                       closeVars>>
    BY <1>6 DEF AnnouncePaired
  <2> HIDE DEF IInv
  <2> QED BY <2>1, <2>2 DEF IInv, TypeOK
<1>7. CASE OpenerQueued
  <2>1. opening \in Handle
    BY <1>7 DEF OpenerQueued, QueueInv
  <2>2. init' \in Seq(Handle) /\ Len(init') <= InitCap
    BY <1>7, <2>1, Sent, ReceiverAssumption DEF OpenerQueued, TypeOK
  <2> QED BY <1>7, <2>2 DEF OpenerQueued, TypeOK
<1>8. CASE Opened
  BY <1>8 DEF Opened, TypeOK
<1> QED BY <1>1, <1>2, <1>3, <1>4, <1>5, <1>6, <1>7, <1>8 DEF OpenerStep

LEMMA OtherType ==
  ASSUME TypeOK, (\E r \in Report : AcceptReport(r)) \/ FinishAccept \/ LoseTransport
                 \/ CloseBegin \/ CloserStep
  PROVE  TypeOK'
<1> USE DEF queueVars, childVars, workerVars, openVars, closeVars
<1>1. ASSUME NEW r \in Report, AcceptReport(r)
      PROVE  TypeOK'
  <2>1. sent' \in 0..MaxReports
    BY <1>1, ReceiverAssumption DEF AcceptReport, TypeOK
  <2> QED BY <1>1, <2>1 DEF AcceptReport, TypeOK
<1>2. CASE FinishAccept
  <2>1. held \in Report
    BY <1>2 DEF FinishAccept, ReaderFree, TypeOK
  <2>2. reports' \in Seq(Report) /\ Len(reports') <= ReportsCap
    <3>1. reports' = reports \/ (Len(reports) < ReportsCap /\ reports' = Append(reports, held))
      BY <1>2 DEF FinishAccept
    <3> QED BY <2>1, <3>1, SentType, ReceiverAssumption DEF TypeOK
  <2> QED BY <1>2, <2>2 DEF FinishAccept, TypeOK
<1>3. CASE LoseTransport
  BY <1>3 DEF LoseTransport, TypeOK
<1>4. CASE CloseBegin
  BY <1>4 DEF CloseBegin, TypeOK
<1>5. CASE CloseSignal
  BY <1>5 DEF CloseSignal, TypeOK
<1>6. CASE CloseTransport
  BY <1>6 DEF CloseTransport, TypeOK
<1>7. CASE CloseJoinReader
  BY <1>7 DEF CloseJoinReader, TypeOK
<1>8. CASE CloseJoinWorker
  BY <1>8 DEF CloseJoinWorker, EmptyTable, TypeOK
<1>9. ASSUME NEW h \in Handle, CloseChild(h)
      PROVE  TypeOK'
  BY <1>9 DEF CloseChild, TypeOK
<1>10. CASE CloseReturn
  BY <1>10 DEF CloseReturn, TypeOK
<1> QED BY <1>1, <1>2, <1>3, <1>4, <1>5, <1>6, <1>7, <1>8, <1>9, <1>10 DEF CloserStep

-----------------------------------------------------------------------------
(* The table and the states of the handles *)

\* A handle in the table is in its own slot and live, and nobody is removing it.
LEMMA EntryIsLive ==
  ASSUME IInv, NEW s \in Slot, NEW h \in Handle, table[s] = h
  PROVE  slot[h] = s /\ state[h] \in Live /\ h \notin Removing
<1>1. slot[h] = s
  BY ReceiverAssumption DEF IInv, EntryInv
<1> QED BY <1>1 DEF IInv, TableIsLive, Live

\* A child that upsert has found or added is live, whatever live state it gets.
LEMMA UpsertTable ==
  ASSUME IInv, NEW s \in Slot, NEW h \in Handle, Upsert(s, h),
         NEW x \in Live, state' = [state EXCEPT ![h] = x], Removing' = Removing
  PROVE  TableIsLive' /\ EntryInv'
<1> USE DEF IInv, TypeOK, TableIsLive, EntryInv, Live
<1>1. CASE Known(s, h)
  <2>1. UNCHANGED <<table, slot>> /\ state[h] \in Live
    BY <1>1, EntryIsLive DEF Known
  <2> QED BY <2>1
<1>2. CASE Fresh(s, h)
  <2>1. /\ table[s] = None /\ state[h] = "unused" /\ slot[h] = s
        /\ table' = [table EXCEPT ![s] = h] /\ slot' = slot
    BY <1>2 DEF Fresh
  <2>2. TableIsLive'
    <3>1. SUFFICES ASSUME NEW g \in Handle
                   PROVE  /\ state'[g] \in Live <=> (table'[slot'[g]] = g \/ g \in Removing')
                          /\ ~(table'[slot'[g]] = g /\ g \in Removing')
      OBVIOUS
    <3>2. CASE g = h
      BY <2>1, <3>2
    <3>3. CASE g # h
      <4>1. state'[g] = state[g]
        BY <3>3
      <4>2. table'[slot[g]] = g <=> table[slot[g]] = g
        BY <2>1, <3>3, ReceiverAssumption
      <4> QED BY <2>1, <4>1, <4>2
    <3> QED BY <3>2, <3>3
  <2>3. EntryInv'
    BY <2>1
  <2> QED BY <2>2, <2>3
<1> QED BY <1>1, <1>2 DEF Upsert

\* What upsert leaves of a handle that it found is its state.
LEMMA UpsertState ==
  ASSUME IInv, NEW s \in Slot, NEW h \in Handle, Upsert(s, h)
  PROVE  /\ StateAfterUpsert(h) \in Live
         /\ state[h] # "removed"
         /\ state[h] # "unused" => StateAfterUpsert(h) = state[h]
<1>1. CASE Known(s, h)
  BY <1>1, EntryIsLive DEF Known, StateAfterUpsert, Live
<1>2. CASE Fresh(s, h)
  BY <1>2 DEF Fresh, StateAfterUpsert, Live
<1> QED BY <1>1, <1>2 DEF Upsert

\* A live child changes to another live state.
LEMMA ChangeTable ==
  ASSUME IInv, NEW h \in Handle, state[h] \in Live, UNCHANGED <<table, slot>>,
         NEW x \in Live, state' = [state EXCEPT ![h] = x], Removing' = Removing
  PROVE  TableIsLive' /\ EntryInv'
<1>1. SUFFICES ASSUME NEW g \in Handle
               PROVE  state'[g] \in Live <=> state[g] \in Live
  BY DEF IInv, TableIsLive, EntryInv, Live
<1>2. state \in [Handle -> {"unused", "added", "ready", "sleeping", "removed"}]
  BY DEF IInv, TypeOK
<1> QED BY <1>2

\* Handles are taken out of the table, and stay live for the time being.
LEMMA RemoveTable ==
  ASSUME IInv, NEW H \in SUBSET Handle, UNCHANGED <<slot, state>>,
         \A h \in H : table[slot[h]] = h,
         table' = [s \in Slot |-> IF table[s] \in H THEN None ELSE table[s]],
         Removing' = Removing \cup H
  PROVE  TableIsLive' /\ EntryInv'
<1> USE DEF IInv, TypeOK, TableIsLive, EntryInv
<1>1. ASSUME NEW g \in Handle
      PROVE  table'[slot[g]] = g <=> (table[slot[g]] = g /\ g \notin H)
  BY ReceiverAssumption
<1>2. TableIsLive'
  BY <1>1
<1>3. EntryInv'
  BY ReceiverAssumption
<1> QED BY <1>2, <1>3

\* One of them is marked removed.
LEMMA MarkTable ==
  ASSUME IInv, NEW h \in Removing, h \in Handle, UNCHANGED <<table, slot>>,
         state' = [state EXCEPT ![h] = "removed"], Removing' = Removing \ {h}
  PROVE  TableIsLive' /\ EntryInv'
<1> USE DEF IInv, TypeOK, TableIsLive, EntryInv
<1>1. ASSUME NEW g \in Handle
      PROVE  /\ state'[g] \in Live <=> (table'[slot'[g]] = g \/ g \in Removing')
             /\ ~(table'[slot'[g]] = g /\ g \in Removing')
  <2>1. CASE g = h
    BY <2>1 DEF Live
  <2>2. CASE g # h
    BY <2>2 DEF Live
  <2> QED BY <2>1, <2>2
<1> QED BY <1>1 DEF Live

\* A step changes the state of at most the children it finds live or adds.
LEMMA WorkerTable ==
  ASSUME IInv, WorkerStep \/ WorkerStop
  PROVE  /\ TableIsLive' /\ EntryInv'
         /\ \A h \in Handle : state[h] # "unused" => state'[h] # "unused"
         /\ \A h \in Handle : state[h] = "removed" => state'[h] = "removed"
<1>a. state \in [Handle -> {"unused", "added", "ready", "sleeping", "removed"}]
  BY DEF IInv, TypeOK
<1>1. CASE UNCHANGED <<table, slot, state>> /\ Removing' = Removing
  BY <1>1 DEF IInv, TableIsLive, EntryInv
<1>2. CASE WorkerRemove
  <2>1. Head(reports).slot \in Slot
    BY <1>2, TakeReportType DEF WorkerRemove, Report, IInv
  <2>2. worker = "select" /\ leaving' = leaving /\ UNCHANGED <<slot, state>>
    BY <1>2 DEF WorkerRemove, TakeReport, closeVars
  <2>3. CASE table[Head(reports).slot] = None
    BY <1>1, <1>2, <2>2, <2>3 DEF WorkerRemove, workerVars, Removing
  <2>4. CASE table[Head(reports).slot] # None
    <3> DEFINE s == Head(reports).slot
               h == table[s]
    <3>1. h \in Handle
      BY <2>1, <2>4 DEF IInv, TypeOK
    <3>2. table' = [table EXCEPT ![s] = None] /\ worker' = "remove" /\ child' = h
      BY <1>2, <2>4 DEF WorkerRemove
    <3>3. Removing' = Removing \cup {h}
      BY <2>2, <3>2 DEF Removing
    <3>4. slot[h] = s
      BY <2>1, <3>1, EntryIsLive
    <3>5. table' = [r \in Slot |-> IF table[r] \in {h} THEN None ELSE table[r]]
      <4>1. \A r \in Slot : table[r] = h => r = s
        BY <2>4, <3>4 DEF IInv, EntryInv
      <4> QED BY <2>1, <3>2, <4>1 DEF IInv, TypeOK
    <3>6. table[slot[h]] = h
      BY <3>4
    <3> HIDE DEF s, h
    <3>7. {h} \in SUBSET Handle /\ \A g \in {h} : table[slot[g]] = g
      BY <3>1, <3>6
    <3>8. TableIsLive' /\ EntryInv'
      BY <2>2, <3>3, <3>5, <3>7, RemoveTable
    <3> QED BY <2>2, <3>8
  <2> QED BY <2>3, <2>4
<1>7. CASE WorkerRemoved
  <2>1. /\ worker = "remove" /\ worker' = "select"
        /\ state' = [state EXCEPT ![child] = "removed"]
        /\ UNCHANGED <<table, slot, leaving>>
    BY <1>7 DEF WorkerRemoved, closeVars
  <2>2. child \in Handle /\ leaving = {}
    BY <2>1 DEF IInv, QueueInv, CloseInv
  <2>3. child \in Removing /\ Removing' = Removing \ {child}
    BY <2>1, <2>2 DEF Removing
  <2>4. TableIsLive' /\ EntryInv'
    BY <2>1, <2>2, <2>3, MarkTable
  <2> QED BY <1>a, <2>1, <2>2, <2>4
<1>3. CASE WorkerSleep
  <2>1. Head(reports).slot \in Slot
    BY <1>3, TakeReportType DEF WorkerSleep, Report, IInv
  <2>2. PICK h \in Handle :
          /\ Upsert(Head(reports).slot, h)
          /\ IF StateAfterUpsert(h) \in {"removed", "sleeping"}
               THEN UNCHANGED <<state, told>>
               ELSE /\ state' = [state EXCEPT ![h] = "sleeping"]
                    /\ told' = [told EXCEPT ![h] = "sleeping"]
    BY <1>3 DEF WorkerSleep
  <2>3. /\ StateAfterUpsert(h) \in Live /\ state[h] # "removed"
        /\ state[h] # "unused" => StateAfterUpsert(h) = state[h]
    BY <2>1, <2>2, UpsertState
  <2>4. state' = [state EXCEPT ![h] = "sleeping"]
    <3>1. CASE StateAfterUpsert(h) \in {"removed", "sleeping"}
      <4>1. state' = state /\ state[h] = "sleeping"
        BY <2>2, <2>3, <3>1 DEF StateAfterUpsert, Live
      <4> QED BY <1>a, <4>1
    <3>2. CASE StateAfterUpsert(h) \notin {"removed", "sleeping"}
      BY <2>2, <3>2
    <3> QED BY <3>1, <3>2
  <2>5. Removing' = Removing
    BY <1>3 DEF WorkerSleep, TakeReport, workerVars, closeVars, Removing
  <2>6. TableIsLive' /\ EntryInv'
    BY <2>1, <2>2, <2>4, <2>5, UpsertTable DEF Live
  <2> QED BY <1>a, <2>3, <2>4, <2>6
<1>4. CASE WorkerConnect
  <2>1. Head(reports).slot \in Slot
    BY <1>4, TakeReportType DEF WorkerConnect, Report, IInv
  <2>2. PICK h \in Handle :
          /\ Upsert(Head(reports).slot, h)
          /\ state' = [state EXCEPT ![h] = StateAfterUpsert(h)]
          /\ QueueInit(h)
    BY <1>4 DEF WorkerConnect
  <2>3. StateAfterUpsert(h) \in Live /\ state[h] # "removed"
    BY <2>1, <2>2, UpsertState
  <2>4. Removing' = Removing
    BY <1>4, <2>2 DEF WorkerConnect, TakeReport, QueueInit, workerVars, closeVars, Removing
  <2>5. TableIsLive' /\ EntryInv'
    BY <2>1, <2>2, <2>3, <2>4, UpsertTable
  <2> QED BY <1>a, <2>2, <2>3, <2>5 DEF Live
<1>5. CASE PingAnswered \/ PingFails
  <2>1. /\ child \in Handle /\ state[child] # "unused" /\ UNCHANGED <<table, slot>>
        /\ Removing' = Removing
    BY <1>5 DEF PingAnswered, PingFails, PingEnds, IInv, QueueInv, closeVars, Removing
  <2>2. CASE state[child] = "removed"
    BY <1>1, <1>5, <1>a, <2>1, <2>2 DEF PingAnswered, PingFails
  <2>3. CASE state[child] # "removed"
    <3>1. state[child] \in Live
      BY <1>a, <2>1, <2>3 DEF Live
    <3>2. PICK x \in {"ready", "sleeping"} : state' = [state EXCEPT ![child] = x]
      BY <1>5, <1>a, <2>1, <2>3 DEF PingAnswered, PingFails
    <3>3. TableIsLive' /\ EntryInv'
      BY <2>1, <3>1, <3>2, ChangeTable DEF Live
    <3> QED BY <1>a, <2>1, <2>3, <3>2, <3>3
  <2> QED BY <2>2, <2>3
<1>6. CASE WorkerInput \/ WorkerQueued \/ Initialize \/ PingRefused \/ WorkerStop
  <2>1. UNCHANGED <<table, slot, state>> /\ Removing' = Removing
    BY <1>6 DEF WorkerInput, TakeReport, WorkerQueued, Initialize, PingRefused, PingEnds,
                WorkerStop, childVars, workerVars, closeVars, Removing
  <2> QED BY <1>1, <2>1
<1> QED BY <1>2, <1>3, <1>4, <1>5, <1>6, <1>7 DEF WorkerStep

LEMMA TableStep ==
  ASSUME IInv, Next
  PROVE  /\ TableIsLive' /\ EntryInv'
         /\ \A h \in Handle : state[h] # "unused" => state'[h] # "unused"
         /\ \A h \in Handle : state[h] = "removed" => state'[h] = "removed"
<1>a. state \in [Handle -> {"unused", "added", "ready", "sleeping", "removed"}]
  BY DEF IInv, TypeOK
<1>1. CASE UNCHANGED <<table, slot, state>> /\ Removing' = Removing
  BY <1>1 DEF IInv, TableIsLive, EntryInv
<1>2. CASE WorkerStep \/ WorkerStop
  BY <1>2, WorkerTable
<1>3. ASSUME NEW s \in Slot, AddPaired(s)
      PROVE  /\ TableIsLive' /\ EntryInv'
             /\ \A h \in Handle : state[h] # "unused" => state'[h] # "unused"
             /\ \A h \in Handle : state[h] = "removed" => state'[h] = "removed"
  <2>1. PICK h \in Handle : Fresh(s, h) /\ state' = [state EXCEPT ![h] = "added"]
    BY <1>3 DEF AddPaired
  <2>2. state[h] = "unused"
    BY <2>1 DEF Fresh
  <2>3. Removing' = Removing
    BY <1>3 DEF AddPaired, workerVars, closeVars, Removing
  <2>4. TableIsLive' /\ EntryInv'
    BY <2>1, <2>3, UpsertTable DEF Upsert, Live
  <2> QED BY <1>a, <2>1, <2>2, <2>4
<1>4. CASE CloseJoinWorker
  <2> DEFINE H == {h \in Handle : \E s \in Slot : table[s] = h}
  <2>1. /\ table' = [s \in Slot |-> None] /\ leaving' = H
        /\ worker = "stopped" /\ closer = "worker"
        /\ UNCHANGED <<slot, state, worker, child>>
    BY <1>4 DEF CloseJoinWorker, EmptyTable, workerVars
  <2>2. Removing' = Removing \cup H
    BY <2>1 DEF Removing, IInv, CloseInv
  <2>3. \A h \in H : table[slot[h]] = h
    BY EntryIsLive
  <2>4. table' = [s \in Slot |-> IF table[s] \in H THEN None ELSE table[s]]
    BY <2>1 DEF IInv, TypeOK
  <2>5. TableIsLive' /\ EntryInv'
    <3> HIDE DEF H
    <3>1. H \in SUBSET Handle
      BY DEF H
    <3> QED BY <2>1, <2>2, <2>3, <2>4, <3>1, RemoveTable
  <2> QED BY <2>1, <2>5
<1>5. CASE (\E r \in Report : AcceptReport(r)) \/ FinishAccept \/ LoseTransport
  <2>1. UNCHANGED <<table, slot, state>> /\ Removing' = Removing
    BY <1>5 DEF AcceptReport, FinishAccept, LoseTransport, childVars, workerVars, closeVars,
                Removing
  <2> QED BY <1>1, <2>1
<1>6. CASE CloseBegin \/ CloseSignal \/ CloseTransport \/ CloseJoinReader \/ CloseReturn
  <2>1. UNCHANGED <<table, slot, state>> /\ Removing' = Removing
    BY <1>6 DEF CloseBegin, CloseSignal, CloseTransport, CloseJoinReader, CloseReturn, childVars,
                workerVars, Removing
  <2> QED BY <1>1, <2>1
<1>7. CASE \/ Configure \/ Enumerate \/ OpenFails \/ (\E s \in Slot : AddKnown(s))
           \/ AnnouncePaired \/ OpenerQueued \/ Opened
  <2>1. UNCHANGED <<table, slot, state>> /\ Removing' = Removing
    BY <1>7 DEF Configure, Enumerate, OpenFails, AddKnown, AnnouncePaired, OpenerQueued, Opened,
                childVars, workerVars, closeVars, Removing
  <2> QED BY <1>1, <2>1
<1>8. ASSUME NEW h \in Handle, CloseChild(h)
      PROVE  /\ TableIsLive' /\ EntryInv'
             /\ \A g \in Handle : state[g] # "unused" => state'[g] # "unused"
             /\ \A g \in Handle : state[g] = "removed" => state'[g] = "removed"
  <2>1. /\ closer = "children" /\ h \in leaving /\ leaving' = leaving \ {h}
        /\ state' = [state EXCEPT ![h] = "removed"]
        /\ UNCHANGED <<table, slot, worker, child>>
    BY <1>8 DEF CloseChild, workerVars
  <2>2. h \in Removing /\ Removing' = Removing \ {h}
    BY <2>1 DEF Removing, IInv, CloseInv
  <2>3. TableIsLive' /\ EntryInv'
    BY <2>1, <2>2, MarkTable
  <2> QED BY <1>a, <2>1, <2>3
<1> QED BY <1>2, <1>3, <1>4, <1>5, <1>6, <1>7, <1>8 DEF Next, OpenerStep, CloserStep

-----------------------------------------------------------------------------
(* The initialization queue *)

\* The queue gets only handles that exist, and none stops existing.
LEMMA InitQueue ==
  ASSUME IInv, \A g \in Handle : state[g] # "unused" => state'[g] # "unused",
         \/ UNCHANGED init
         \/ init # << >> /\ init' = Tail(init)
         \/ \E h \in Handle : /\ state'[h] # "unused"
                              /\ Len(init) < InitCap /\ init' = Append(init, h)
  PROVE  \A i \in 1..Len(init') : state'[init'[i]] # "unused"
<1>1. /\ init \in Seq(Handle) /\ Len(init) <= InitCap /\ InitCap \in Nat
      /\ \A i \in 1..Len(init) : init[i] \in Handle /\ state'[init[i]] # "unused"
  <2>1. init \in Seq(Handle) /\ Len(init) <= InitCap /\ InitCap \in Nat
    BY ReceiverAssumption DEF IInv, TypeOK
  <2>2. \A i \in 1..Len(init) : init[i] \in Handle /\ state[init[i]] # "unused"
    BY <2>1, ElementOfSeq DEF IInv, QueueInv
  <2> QED BY <2>1, <2>2
<1>2. CASE UNCHANGED init
  BY <1>1, <1>2
<1>3. CASE init # << >> /\ init' = Tail(init)
  <2>1. \A i \in 1..Len(init') : i + 1 \in 1..Len(init) /\ init'[i] = init[i + 1]
    BY <1>1, <1>3, Taken
  <2> QED BY <1>1, <2>1
<1>4. ASSUME NEW h \in Handle, state'[h] # "unused", Len(init) < InitCap,
             init' = Append(init, h)
      PROVE  \A i \in 1..Len(init') : state'[init'[i]] # "unused"
  <2>1. \A i \in 1..Len(init') : (i \in 1..Len(init) /\ init'[i] = init[i]) \/ init'[i] = h
    BY <1>1, <1>4, Sent
  <2> QED BY <1>1, <1>4, <2>1
<1> QED BY <1>2, <1>3, <1>4

LEMMA QueueStep ==
  ASSUME IInv, Next
  PROVE  QueueInv'
<1> USE DEF queueVars, childVars, workerVars, openVars, closeVars
<1>1. \A g \in Handle : state[g] # "unused" => state'[g] # "unused"
  BY TableStep
<1>2. QueueInv /\ TypeOK
  BY DEF IInv
<1>3. ASSUME UNCHANGED <<init, worker, child>>,
             \/ UNCHANGED <<opener, opening>>
             \/ opener' \notin {"announce", "queue"}
             \/ opening' \in Handle /\ state'[opening'] # "unused"
      PROVE  QueueInv'
  <2>1. \A i \in 1..Len(init') : state'[init'[i]] # "unused"
    BY <1>1, <1>3, InitQueue
  <2> QED BY <1>1, <1>2, <1>3, <2>1 DEF QueueInv
<1>4. CASE WorkerSleep \/ WorkerInput
  BY <1>3, <1>4 DEF WorkerSleep, WorkerInput, TakeReport
<1>5. CASE WorkerConnect
  <2>1. Head(reports).slot \in Slot
    BY <1>2, <1>5, TakeReportType DEF WorkerConnect, Report
  <2>2. PICK h \in Handle :
          /\ Upsert(Head(reports).slot, h)
          /\ state' = [state EXCEPT ![h] = StateAfterUpsert(h)]
          /\ QueueInit(h)
    BY <1>5 DEF WorkerConnect
  <2>3. state'[h] # "unused"
    BY <1>2, <2>1, <2>2, UpsertState DEF TypeOK, Live
  <2>4. \A i \in 1..Len(init') : state'[init'[i]] # "unused"
    BY <1>1, <2>2, <2>3, InitQueue DEF QueueInit
  <2>5. worker = "select" /\ UNCHANGED <<opener, opening>>
    BY <1>5 DEF WorkerConnect, TakeReport
  <2>6. worker' = "select" \/ child' = h
    BY <2>2, <2>5 DEF QueueInit
  <2> QED BY <1>1, <1>2, <2>3, <2>4, <2>5, <2>6 DEF QueueInv
<1>6. CASE WorkerQueued
  <2>1. child \in Handle /\ state'[child] # "unused"
    BY <1>1, <1>2, <1>6 DEF WorkerQueued, QueueInv
  <2>2. \A i \in 1..Len(init') : state'[init'[i]] # "unused"
    BY <1>1, <1>6, <2>1, InitQueue DEF WorkerQueued
  <2> QED BY <1>1, <1>2, <1>6, <2>2 DEF WorkerQueued, QueueInv
<1>7. CASE Initialize
  <2>1. \A i \in 1..Len(init') : state'[init'[i]] # "unused"
    BY <1>1, <1>7, InitQueue DEF Initialize
  <2>2. Head(init) \in Handle /\ state[Head(init)] # "unused"
    BY <1>2, <1>7, Taken, ReceiverAssumption DEF Initialize, TypeOK, QueueInv
  <2>3. worker = "select" /\ UNCHANGED <<opener, opening>>
    BY <1>7 DEF Initialize
  <2>4. (worker' = worker /\ child' = child) \/ child' = Head(init)
    BY <1>7 DEF Initialize
  <2> QED BY <1>1, <1>2, <2>1, <2>2, <2>3, <2>4 DEF QueueInv
<1>8. CASE PingAnswered \/ PingFails \/ PingRefused
  <2>1. worker' = "select" /\ UNCHANGED <<init, opener, opening>>
    BY <1>8 DEF PingAnswered, PingFails, PingRefused, PingEnds
  <2>2. \A i \in 1..Len(init') : state'[init'[i]] # "unused"
    BY <1>1, <2>1, InitQueue
  <2> QED BY <1>1, <1>2, <2>1, <2>2 DEF QueueInv
<1>9. CASE WorkerStop
  <2>1. \A i \in 1..Len(init') : state'[init'[i]] # "unused"
    BY <1>1, <1>9, InitQueue DEF WorkerStop
  <2> QED BY <1>1, <1>2, <1>9, <2>1 DEF WorkerStop, QueueInv
<1>10. ASSUME NEW s \in Slot, AddPaired(s)
       PROVE  QueueInv'
  <2>1. PICK h \in Handle : /\ state' = [state EXCEPT ![h] = "added"] /\ opening' = h
    BY <1>10 DEF AddPaired
  <2>2. opening' \in Handle /\ state'[opening'] # "unused"
    BY <1>2, <2>1 DEF TypeOK
  <2> QED BY <1>3, <1>10, <2>2 DEF AddPaired
<1>11. CASE AnnouncePaired
  BY <1>2, <1>3, <1>11 DEF AnnouncePaired, QueueInv
<1>12. CASE OpenerQueued
  <2>1. opening \in Handle /\ state'[opening] # "unused"
    BY <1>1, <1>2, <1>12 DEF OpenerQueued, QueueInv
  <2>2. \A i \in 1..Len(init') : state'[init'[i]] # "unused"
    BY <1>1, <1>12, <2>1, InitQueue DEF OpenerQueued
  <2> QED BY <1>1, <1>2, <1>12, <2>2 DEF OpenerQueued, QueueInv
<1>13. CASE \/ Configure \/ Enumerate \/ OpenFails \/ (\E s \in Slot : AddKnown(s)) \/ Opened
  BY <1>3, <1>13 DEF Configure, Enumerate, OpenFails, AddKnown, Opened
<1>14. CASE (\E r \in Report : AcceptReport(r)) \/ FinishAccept \/ LoseTransport
  BY <1>3, <1>14 DEF AcceptReport, FinishAccept, LoseTransport
<1>15. CASE CloseBegin \/ CloserStep
  BY <1>3, <1>15 DEF CloseBegin, CloserStep, CloseSignal, CloseTransport, CloseJoinReader,
                     CloseJoinWorker, CloseChild, CloseReturn
<1>16. CASE WorkerRemove
  <2>1. Head(reports).slot \in Slot
    BY <1>2, <1>16, TakeReportType DEF WorkerRemove, Report
  <2>2. worker = "select" /\ UNCHANGED <<init, opener, opening, state>>
    BY <1>16 DEF WorkerRemove, TakeReport
  <2>3. \/ UNCHANGED <<worker, child>>
        \/ child' \in Handle /\ state[child'] # "unused"
    <3>1. CASE table[Head(reports).slot] = None
      BY <1>16, <3>1 DEF WorkerRemove
    <3>2. CASE table[Head(reports).slot] # None
      <4>1. child' = table[Head(reports).slot] /\ child' \in Handle
        BY <1>2, <1>16, <2>1, <3>2 DEF WorkerRemove, TypeOK
      <4>2. state[table[Head(reports).slot]] \in Live
        BY <2>1, <4>1, EntryIsLive
      <4> QED BY <4>1, <4>2 DEF Live
    <3> QED BY <3>1, <3>2
  <2>4. \A i \in 1..Len(init') : state'[init'[i]] # "unused"
    BY <1>1, <2>2, InitQueue
  <2> QED BY <1>2, <2>2, <2>3, <2>4 DEF QueueInv
<1>17. CASE WorkerRemoved
  <2>1. worker' = "select" /\ UNCHANGED <<init, opener, opening>>
    BY <1>17 DEF WorkerRemoved
  <2>2. \A i \in 1..Len(init') : state'[init'[i]] # "unused"
    BY <1>1, <2>1, InitQueue
  <2> QED BY <1>1, <1>2, <2>1, <2>2 DEF QueueInv
<1> QED BY <1>4, <1>5, <1>6, <1>7, <1>8, <1>9, <1>10, <1>11, <1>12, <1>13, <1>14, <1>15,
           <1>16, <1>17
        DEF Next, WorkerStep, OpenerStep

-----------------------------------------------------------------------------
(* Close *)

LEMMA CloseStep ==
  ASSUME IInv, Next
  PROVE  CloseInv'
<1> USE DEF queueVars, childVars, workerVars, openVars, closeVars
<1>1. CloseInv
  BY DEF IInv
<1>2. ASSUME closer' \notin {"children", "returned"}, leaving' = {},
             closer' = "idle" \/ opener' \in {"open", "failed"}
      PROVE  CloseInv'
  BY <1>2 DEF CloseInv
<1>3. CASE (\E r \in Report : AcceptReport(r)) \/ FinishAccept \/ LoseTransport
  <2>1. UNCHANGED <<closer, leaving, opener, worker, table>>
    BY <1>3 DEF AcceptReport, FinishAccept, LoseTransport
  <2> QED BY <1>1, <2>1 DEF CloseInv
<1>4. CASE WorkerStep \/ WorkerStop
  <2>1. UNCHANGED <<closer, leaving, opener>>
    BY <1>4 DEF WorkerStep, WorkerStop, WorkerRemove, WorkerRemoved, WorkerSleep, WorkerConnect, WorkerInput,
                TakeReport, WorkerQueued, Initialize, PingAnswered, PingFails, PingRefused,
                PingEnds
  <2>2. worker # "stopped"
    BY <1>4 DEF WorkerStep, WorkerStop, WorkerRemove, WorkerRemoved, WorkerSleep, WorkerConnect, WorkerInput,
                TakeReport, WorkerQueued, Initialize, PingAnswered, PingFails, PingRefused,
                PingEnds
  <2> QED BY <1>1, <2>1, <2>2 DEF CloseInv
<1>5. CASE OpenerStep
  <2>1. closer' = closer /\ leaving' = leaving /\ opener \notin {"open", "failed"}
    BY <1>5 DEF OpenerStep, Configure, Enumerate, OpenFails, AddKnown, AddPaired, AnnouncePaired,
                OpenerQueued, Opened
  <2> QED BY <1>1, <1>2, <2>1 DEF CloseInv
<1>6. CASE CloseBegin
  BY <1>1, <1>2, <1>6 DEF CloseBegin, CloseInv
<1>7. CASE CloseSignal \/ CloseTransport \/ CloseJoinReader
  BY <1>1, <1>2, <1>7 DEF CloseSignal, CloseTransport, CloseJoinReader, CloseInv
<1>8. CASE CloseJoinWorker
  BY <1>1, <1>8 DEF CloseJoinWorker, EmptyTable, CloseInv
<1>9. CASE (\E h \in Handle : CloseChild(h)) \/ CloseReturn
  BY <1>1, <1>9 DEF CloseChild, CloseReturn, CloseInv
<1> QED BY <1>3, <1>4, <1>5, <1>6, <1>7, <1>8, <1>9 DEF Next, CloserStep

-----------------------------------------------------------------------------

LEMMA StepInv == IInv /\ [Next]_vars => IInv'
<1> SUFFICES ASSUME IInv, [Next]_vars PROVE IInv'
  OBVIOUS
<1>1. CASE Next
  <2>1. TypeOK'
    BY <1>1, WorkerType, OpenerType, OtherType DEF IInv, Next
  <2> QED BY <1>1, <2>1, TableStep, QueueStep, CloseStep DEF IInv
<1>2. CASE UNCHANGED vars
  BY <1>2 DEF IInv, TypeOK, Report, NoReport, ReportType, TableIsLive, Removing, EntryInv,
              QueueInv, CloseInv, vars, queueVars, childVars, workerVars, openVars, closeVars
<1> QED BY <1>1, <1>2

THEOREM Invariance == Spec => []IInv
<1>1. Init => IInv
  BY InitInv
<1>2. IInv /\ [Next]_vars => IInv'
  BY StepInv
<1> QED BY <1>1, <1>2, PTL DEF Spec

\* Nothing but an announcement by the opener is said of a removed child.
LEMMA RemovedStep ==
  ASSUME IInv, [Next]_vars, NEW h \in Handle, state[h] = "removed"
  PROVE  state'[h] = "removed" /\ told'[h] \in {told[h], "added"}
<1> USE DEF childVars
<1>1. CASE UNCHANGED vars
  BY <1>1 DEF vars
<1>2. CASE Next
  <2>1. state'[h] = "removed"
    BY <1>2, TableStep
  <2>2. TypeOK /\ told \in [Handle -> {"none", "added", "ready", "sleeping", "woken", "removed"}]
    BY DEF IInv, TypeOK
  <2>3. CASE WorkerRemoved
    <3>1. child \in Removing /\ child \in Handle
      BY <2>3 DEF WorkerRemoved, Removing, IInv, QueueInv
    <3>2. child # h
      BY <3>1 DEF IInv, TableIsLive
    <3> QED BY <2>1, <2>2, <2>3, <3>1, <3>2 DEF WorkerRemoved
  <2>4. CASE WorkerSleep \/ WorkerConnect
    <3>1. Head(reports).slot \in Slot
      BY <2>2, <2>4, TakeReportType DEF WorkerSleep, WorkerConnect, Report
    <3>2. PICK g \in Handle : /\ Upsert(Head(reports).slot, g)
                             /\ \A k \in Handle : k # g => told'[k] = told[k]
      BY <2>2, <2>4 DEF WorkerSleep, WorkerConnect
    <3>3. g # h
      BY <3>1, <3>2, UpsertState
    <3> QED BY <2>1, <2>2, <3>2, <3>3
  <2>5. CASE PingAnswered
    <3>1. CASE child = h
      BY <2>1, <2>5, <3>1 DEF PingAnswered
    <3>2. CASE child # h
      BY <2>1, <2>2, <2>5, <3>2 DEF PingAnswered
    <3> QED BY <3>1, <3>2
  <2>6. CASE AnnouncePaired
    BY <2>1, <2>2, <2>6 DEF AnnouncePaired
  <2>7. CASE UNCHANGED told
    BY <2>1, <2>7
  <2>8. CASE \/ WorkerRemove \/ WorkerInput \/ WorkerQueued \/ Initialize \/ PingFails
             \/ PingRefused \/ WorkerStop
    BY <2>7, <2>8 DEF WorkerRemove, WorkerInput, WorkerQueued, Initialize, PingFails,
                      PingRefused, WorkerStop
  <2>9. CASE \/ Configure \/ Enumerate \/ OpenFails \/ OpenerQueued \/ Opened
             \/ \E s \in Slot : AddKnown(s) \/ AddPaired(s)
    BY <2>7, <2>9 DEF Configure, Enumerate, OpenFails, OpenerQueued, Opened, AddKnown, AddPaired
  <2>10. CASE \/ \E r \in Report : AcceptReport(r)
              \/ FinishAccept \/ LoseTransport \/ CloseBegin \/ CloserStep
    BY <2>7, <2>10 DEF AcceptReport, FinishAccept, LoseTransport, CloseBegin, CloserStep,
                       CloseSignal, CloseTransport, CloseJoinReader, CloseJoinWorker,
                       CloseChild, CloseReturn
  <2> QED BY <1>2, <2>3, <2>4, <2>5, <2>6, <2>8, <2>9, <2>10 DEF Next, WorkerStep, OpenerStep
<1> QED BY <1>1, <1>2

-----------------------------------------------------------------------------

\* Every variable of the receiver session keeps its type; the queues never
\* exceed the capacities of their channels.
THEOREM TypeCorrect == Spec => []TypeOK
<1>1. IInv => TypeOK
  BY DEF IInv
<1> QED BY <1>1, Invariance, PTL

\* A live child is in the table, in its own slot, or has been taken out of it by
\* the worker or by Close, whose next step marks it removed; no removed child is
\* in either place.
THEOREM TableCorrect == Spec => []TableIsLive
<1>1. IInv => TableIsLive
  BY DEF IInv
<1> QED BY <1>1, Invariance, PTL

\* A closed receiver session has no live child.
THEOREM ChildrenAreRemoved == Spec => []ClosedIsRemoved
<1>1. IInv => ClosedIsRemoved
  <2>1. SUFFICES ASSUME IInv, closer = "returned", NEW h \in Handle
                 PROVE  state[h] \in {"unused", "removed"}
    BY DEF ClosedIsRemoved
  <2>2. slot[h] \in Slot /\ table[slot[h]] = None /\ h \notin Removing
    BY <2>1 DEF IInv, TypeOK, CloseInv, Removing
  <2> QED BY <2>1, <2>2, ReceiverAssumption DEF IInv, TypeOK, TableIsLive
<1> QED BY <1>1, Invariance, PTL

\* A removed child stays removed, and is not said to be ready, asleep or awake.
THEOREM RemovalIsFinal == Spec => RemovedIsFinal
<1>1. IInv /\ [Next]_vars =>
        [\A h \in Handle : state[h] = "removed" =>
           state'[h] = "removed" /\ told'[h] \in {told[h], "added"}]_vars
  BY RemovedStep
<1> QED BY <1>1, Invariance, PTL DEF Spec, RemovedIsFinal

=============================================================================
