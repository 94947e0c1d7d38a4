-------------------------- MODULE ReceiverSession --------------------------
(***************************************************************************)
(* internal/receiver/lifecycle.go: the owner of one receiver and of the    *)
(* sessions of its children.                                               *)
(*                                                                         *)
(* Four goroutines share it: the HID++ session's reader, which hands every *)
(* unsolicited report to acceptReport; the lifecycle worker, which handles *)
(* reports and initializes children one at a time; the opener inside       *)
(* OpenSession; and the caller of Close.  Both queues are bounded, and     *)
(* both sends block: the reader on `reports', the worker itself on `init'. *)
(*                                                                         *)
(* A ping is the exchange Validate waits for.  Its answer, like every      *)
(* other, is delivered by the reader.                                      *)
(***************************************************************************)
EXTENDS Naturals, Sequences

CONSTANTS
  Slot,        \* wireless indices
  Handle,      \* ChildDevice values
  ReportsCap,  \* capacity of the report queue (128 in the code)
  InitCap,     \* capacity of the initialization queue (32 in the code)
  MaxReports,  \* bound: unsolicited reports the receiver sends
  None

ASSUME ReceiverAssumption ==
  /\ {ReportsCap, InitCap, MaxReports} \subseteq Nat
  /\ None \notin Handle

VARIABLES
  reports,     \* the report queue
  held,        \* the report the reader is inside acceptReport with, or NoReport
  sent,        \* reports the receiver has sent
  init,        \* the initialization queue
  table,       \* children: the current handle of each slot, or None
  slot,        \* the slot of each handle
  state,       \* ChildDevice.state; "unused" before the handle exists
  told,        \* history: the last event emitted for it, "none" before
  worker,      \* "select", "remove", "queue", "ping", "stopped"
  child,       \* the handle the worker is removing, queueing or initializing
  opener,      \* "configure", "enumerate", "add", "announce", "queue", "open",
               \* "failed"
  paired,      \* slots the opener has still to add
  opening,     \* the handle the opener has just added
  closer,      \* "idle", "signal", "transport", "reader", "worker", "children",
               \* "returned"
  leaving,     \* the handles Close has taken from the table and not yet removed
  handlerOn,   \* the session's report handler is installed
  done,        \* s.done is closed
  transport    \* "up", "lost", "closed"

queueVars  == <<reports, held, sent>>
childVars  == <<table, slot, state, told>>
workerVars == <<worker, child>>
openVars   == <<opener, paired, opening>>
closeVars  == <<closer, leaving, handlerOn, done, transport>>

vars == <<queueVars, init, childVars, workerVars, openVars, closeVars>>

ReportType == {"connected", "asleep", "unpaired", "input"}
Report == [type : ReportType, slot : Slot]
NoReport == [type |-> "none", slot |-> None]

Init ==
  /\ reports = << >>
  /\ held = NoReport
  /\ sent = 0
  /\ init = << >>
  /\ table = [s \in Slot |-> None]
  /\ slot \in [Handle -> Slot]
  /\ state = [h \in Handle |-> "unused"]
  /\ told = [h \in Handle |-> "none"]
  /\ worker = "select"
  /\ child = None
  /\ opener = "configure"
  /\ paired \in SUBSET Slot
  /\ opening = None
  /\ closer = "idle"
  /\ leaving = {}
  /\ handlerOn = TRUE
  /\ done = FALSE
  /\ transport = "up"

-----------------------------------------------------------------------------
(* The shared reader, inside acceptReport *)

ReaderFree == held = NoReport
ReaderAnswers == transport = "up" /\ ReaderFree

\* The reader has loaded the handler and calls it with an unsolicited report.
AcceptReport(r) ==
  /\ ReaderAnswers
  /\ handlerOn
  /\ sent < MaxReports
  /\ sent' = sent + 1
  /\ held' = r
  /\ UNCHANGED <<reports, init, childVars, workerVars, openVars, closeVars>>

\* The send blocks while the queue is full and the session open; the handler
\* may have been removed meanwhile.
FinishAccept ==
  /\ ~ReaderFree
  /\ \/ Len(reports) < ReportsCap /\ reports' = Append(reports, held)
     \/ done /\ UNCHANGED reports
  /\ held' = NoReport
  /\ UNCHANGED <<sent, init, childVars, workerVars, openVars, closeVars>>

LoseTransport ==
  /\ transport = "up"
  /\ transport' = "lost"
  /\ UNCHANGED <<queueVars, init, childVars, workerVars, openVars, closer, leaving, handlerOn,
                 done>>

-----------------------------------------------------------------------------
(* Children *)

\* upsert finds the child of a slot ...
Known(s, h) == table[s] = h /\ UNCHANGED <<table, slot>>

\* ... or adds a new one.
Fresh(s, h) ==
  /\ table[s] = None
  /\ state[h] = "unused"
  /\ slot[h] = s
  /\ table' = [table EXCEPT ![s] = h]
  /\ UNCHANGED slot

StateAfterUpsert(h) == IF state[h] = "unused" THEN "added" ELSE state[h]

Upsert(s, h) == Known(s, h) \/ Fresh(s, h)

-----------------------------------------------------------------------------
(* The worker *)

TakeReport(types) ==
  /\ worker = "select"
  /\ reports # << >>
  /\ Head(reports).type \in types
  /\ reports' = Tail(reports)
  /\ UNCHANGED <<held, sent, openVars, closeVars>>

RemoveKeepingEntry ==         \* mutant: the handle stays in the table
  /\ TakeReport({"unpaired"})
  /\ LET h == table[Head(reports).slot] IN
       IF h = None
         THEN UNCHANGED workerVars
         ELSE worker' = "remove" /\ child' = h
  /\ UNCHANGED <<init, childVars>>

\* removeChild takes the child out of the table under the session's lock ...
WorkerRemove ==
  /\ TakeReport({"unpaired"})
  /\ LET s == Head(reports).slot  h == table[s] IN
       IF h = None
         THEN UNCHANGED <<table, workerVars>>
         ELSE /\ table' = [table EXCEPT ![s] = None]
              /\ worker' = "remove"
              /\ child' = h
  /\ UNCHANGED <<init, slot, state, told>>

\* ... and marks it removed under the child's own; the opener may fill the slot
\* in between.
WorkerRemoved ==
  /\ worker = "remove"
  /\ state' = [state EXCEPT ![child] = "removed"]
  /\ told' = [told EXCEPT ![child] = "removed"]
  /\ worker' = "select"
  /\ child' = None
  /\ UNCHANGED <<queueVars, init, table, slot, openVars, closeVars>>

\* setSleeping, after the event of a new child; it says nothing of a child that
\* is sleeping already.
WorkerSleep ==
  /\ TakeReport({"asleep"})
  /\ \E h \in Handle :
       /\ Upsert(Head(reports).slot, h)
       /\ IF StateAfterUpsert(h) \in {"removed", "sleeping"}
            THEN UNCHANGED <<state, told>>
            ELSE /\ state' = [state EXCEPT ![h] = "sleeping"]
                 /\ told' = [told EXCEPT ![h] = "sleeping"]
  /\ UNCHANGED <<init, workerVars>>

QueueWithoutRoom(h) ==        \* mutant: the queue has no bound
  /\ init' = Append(init, h)
  /\ UNCHANGED workerVars

\* queueInitialization, called by the worker: only the worker makes room.
QueueInit(h) ==
  IF Len(init) < InitCap
    THEN init' = Append(init, h) /\ UNCHANGED workerVars
    ELSE /\ worker' = "queue"
         /\ child' = h
         /\ UNCHANGED init

\* A new child is announced, and so is one that wakes up.
WorkerConnect ==
  /\ TakeReport({"connected"})
  /\ \E h \in Handle :
       /\ Upsert(Head(reports).slot, h)
       /\ state' = [state EXCEPT ![h] = StateAfterUpsert(h)]
       /\ told' = [told EXCEPT ![h] = IF state[h] = "unused" THEN "added"
                                      ELSE IF state[h] = "sleeping" THEN "woken" ELSE @]
       /\ QueueInit(h)

\* A device report: DispatchReport calls the child's subscribers, if there is
\* a child.
WorkerInput ==
  /\ TakeReport({"input"})
  /\ UNCHANGED <<init, childVars, workerVars>>

WorkerQueued ==
  /\ worker = "queue"
  /\ \/ Len(init) < InitCap /\ init' = Append(init, child)
     \/ done /\ UNCHANGED init
  /\ worker' = "select"
  /\ child' = None
  /\ UNCHANGED <<queueVars, childVars, openVars, closeVars>>

InitializeAfresh ==           \* mutant: the state is set before it is checked
  /\ worker = "select"
  /\ init # << >>
  /\ init' = Tail(init)
  /\ state' = [state EXCEPT ![Head(init)] = "added"]
  /\ worker' = "ping"
  /\ child' = Head(init)
  /\ UNCHANGED <<queueVars, table, slot, told, openVars, closeVars>>

\* initialize: a child removed since it was queued is skipped.
Initialize ==
  /\ worker = "select"
  /\ init # << >>
  /\ init' = Tail(init)
  /\ IF state[Head(init)] = "removed"
       THEN UNCHANGED workerVars
       ELSE worker' = "ping" /\ child' = Head(init)
  /\ UNCHANGED <<queueVars, childVars, openVars, closeVars>>

PingEnds ==
  /\ worker = "ping"
  /\ worker' = "select"
  /\ child' = None
  /\ UNCHANGED <<queueVars, init, table, slot, openVars, closeVars>>

PingAnswered ==
  /\ PingEnds
  /\ ReaderAnswers
  /\ IF state[child] = "removed"
       THEN UNCHANGED <<state, told>>
       ELSE /\ state' = [state EXCEPT ![child] = "ready"]
            /\ told' = [told EXCEPT ![child] = "ready"]

\* A transient error (timeout, closed transport, canceled context) puts the
\* child to sleep without an event.
PingFails ==
  /\ PingEnds
  /\ state' = [state EXCEPT ![child] = IF @ = "removed" THEN @ ELSE "sleeping"]
  /\ UNCHANGED told

\* Any other error: the child stays as it is.
PingRefused ==
  /\ PingEnds
  /\ UNCHANGED <<state, told>>

WorkerStop ==
  /\ worker = "select"
  /\ done
  /\ worker' = "stopped"
  /\ UNCHANGED <<queueVars, init, childVars, child, openVars, closeVars>>

-----------------------------------------------------------------------------
(* OpenSession, with the worker already running *)

OpenFails ==
  /\ opener \in {"configure", "enumerate"}
  /\ opener' = "failed"
  /\ UNCHANGED <<queueVars, init, childVars, workerVars, paired, opening, closeVars>>

Configure ==
  /\ opener = "configure"
  /\ ReaderAnswers
  /\ opener' = "enumerate"
  /\ UNCHANGED <<queueVars, init, childVars, workerVars, paired, opening, closeVars>>

\* EnumeratePaired has read every slot.
Enumerate ==
  /\ opener = "enumerate"
  /\ ReaderAnswers
  /\ opener' = "add"
  /\ UNCHANGED <<queueVars, init, childVars, workerVars, paired, opening, closeVars>>

\* addPaired: a child a notification has already added is left alone ...
AddKnown(s) ==
  /\ opener = "add"
  /\ s \in paired
  /\ table[s] # None
  /\ paired' = paired \ {s}
  /\ UNCHANGED <<queueVars, init, childVars, workerVars, opener, opening, closeVars>>

\* ... a new one goes into the table,
AddPaired(s) ==
  /\ opener = "add"
  /\ s \in paired
  /\ \E h \in Handle :
       /\ Fresh(s, h)
       /\ state' = [state EXCEPT ![h] = "added"]
       /\ opening' = h
  /\ paired' = paired \ {s}
  /\ opener' = "announce"
  /\ UNCHANGED <<queueVars, init, told, workerVars, closeVars>>

\* and is announced by the opener, after the table's lock is released,
AnnouncePaired ==
  /\ opener = "announce"
  /\ told' = [told EXCEPT ![opening] = "added"]
  /\ opener' = "queue"
  /\ UNCHANGED <<queueVars, init, table, slot, state, workerVars, paired, opening,
                 closeVars>>

\* and queued.
OpenerQueued ==
  /\ opener = "queue"
  /\ Len(init) < InitCap
  /\ init' = Append(init, opening)
  /\ opening' = None
  /\ opener' = "add"
  /\ UNCHANGED <<queueVars, childVars, workerVars, paired, closeVars>>

Opened ==
  /\ opener = "add"
  /\ paired = {}
  /\ opener' = "open"
  /\ UNCHANGED <<queueVars, init, childVars, workerVars, paired, opening, closeVars>>

-----------------------------------------------------------------------------
(* Close, by the owner of an open session or by an OpenSession that fails *)

\* Cancel the base context, mark the session closed, remove the handler.
CloseBegin ==
  /\ closer = "idle"
  /\ opener \in {"open", "failed"}
  /\ closer' = "signal"
  /\ handlerOn' = FALSE
  /\ UNCHANGED <<queueVars, init, childVars, workerVars, openVars, leaving, done,
                 transport>>

CloseWithoutSignal ==         \* mutant: done is not closed before the receiver is
  /\ closer = "signal"
  /\ closer' = "transport"
  /\ UNCHANGED <<queueVars, init, childVars, workerVars, openVars, leaving, handlerOn,
                 done, transport>>

CloseSignal ==
  /\ closer = "signal"
  /\ closer' = "transport"
  /\ done' = TRUE
  /\ UNCHANGED <<queueVars, init, childVars, workerVars, openVars, leaving, handlerOn,
                 transport>>

\* Receiver.Close closes the HID++ session: the transport first ...
CloseTransport ==
  /\ closer = "transport"
  /\ closer' = "reader"
  /\ transport' = "closed"
  /\ UNCHANGED <<queueVars, init, childVars, workerVars, openVars, leaving, handlerOn,
                 done>>

\* ... then it waits for the reader, which may be inside acceptReport.
CloseJoinReader ==
  /\ closer = "reader"
  /\ ReaderFree
  /\ closer' = "worker"
  /\ UNCHANGED <<queueVars, init, childVars, workerVars, openVars, leaving, handlerOn,
                 done, transport>>

\* The table is emptied under the session's lock; its children are gone through
\* afterwards.
EmptyTable ==
  /\ table' = [s \in Slot |-> None]
  /\ leaving' = {h \in Handle : \E s \in Slot : table[s] = h}
  /\ closer' = "children"

CloseUnjoined ==              \* mutant: the worker is not waited for
  /\ closer = "worker"
  /\ EmptyTable
  /\ UNCHANGED <<queueVars, init, slot, state, told, workerVars, openVars, handlerOn, done,
                 transport>>

CloseJoinWorker ==
  /\ closer = "worker"
  /\ worker = "stopped"
  /\ EmptyTable
  /\ UNCHANGED <<queueVars, init, slot, state, told, workerVars, openVars, handlerOn, done,
                 transport>>

CloseChild(h) ==
  /\ closer = "children"
  /\ h \in leaving
  /\ state' = [state EXCEPT ![h] = "removed"]
  /\ leaving' = leaving \ {h}
  /\ UNCHANGED <<queueVars, init, table, slot, told, workerVars, openVars, closer, handlerOn,
                 done, transport>>

CloseReturn ==
  /\ closer = "children"
  /\ leaving = {}
  /\ closer' = "returned"
  /\ UNCHANGED <<queueVars, init, childVars, workerVars, openVars, leaving, handlerOn, done,
                 transport>>

-----------------------------------------------------------------------------

WorkerStep ==
  \/ WorkerRemove \/ WorkerRemoved \/ WorkerSleep \/ WorkerConnect \/ WorkerInput
  \/ WorkerQueued \/ Initialize
  \/ PingAnswered \/ PingFails \/ PingRefused

OpenerStep ==
  \/ Configure \/ Enumerate \/ OpenFails
  \/ \E s \in Slot : AddKnown(s) \/ AddPaired(s)
  \/ AnnouncePaired \/ OpenerQueued \/ Opened

CloserStep ==
  \/ CloseSignal \/ CloseTransport \/ CloseJoinReader \/ CloseJoinWorker
  \/ \E h \in Handle : CloseChild(h)
  \/ CloseReturn

Next ==
  \/ \E r \in Report : AcceptReport(r)
  \/ FinishAccept
  \/ LoseTransport
  \/ WorkerStep \/ WorkerStop
  \/ OpenerStep
  \/ CloseBegin \/ CloserStep

Spec == Init /\ [][Next]_vars

\* Goroutines are scheduled, and every exchange ends by its deadline.  The
\* worker's select is random, so a done channel that stays closed is chosen in
\* the end.  OpenSession closes what it could not open; nobody is obliged to
\* close an open session.
Fairness ==
  /\ WF_vars(FinishAccept)
  /\ WF_vars(WorkerStep)
  /\ SF_vars(WorkerStop)
  /\ WF_vars(OpenerStep)
  /\ WF_vars(opener = "failed" /\ CloseBegin)
  /\ WF_vars(CloserStep)

FairSpec == Spec /\ Fairness

-----------------------------------------------------------------------------
(* Properties *)

TypeOK ==
  /\ reports \in Seq(Report) /\ Len(reports) <= ReportsCap
  /\ held \in Report \cup {NoReport}
  /\ sent \in 0..MaxReports
  /\ init \in Seq(Handle) /\ Len(init) <= InitCap
  /\ table \in [Slot -> Handle \cup {None}]
  /\ slot \in [Handle -> Slot]
  /\ state \in [Handle -> {"unused", "added", "ready", "sleeping", "removed"}]
  /\ told \in [Handle -> {"none", "added", "ready", "sleeping", "woken", "removed"}]
  /\ worker \in {"select", "remove", "queue", "ping", "stopped"}
  /\ child \in Handle \cup {None}
  /\ opener \in {"configure", "enumerate", "add", "announce", "queue", "open", "failed"}
  /\ paired \in SUBSET Slot
  /\ opening \in Handle \cup {None}
  /\ closer \in {"idle", "signal", "transport", "reader", "worker", "children", "returned"}
  /\ leaving \in SUBSET Handle
  /\ handlerOn \in BOOLEAN
  /\ done \in BOOLEAN
  /\ transport \in {"up", "lost", "closed"}

\* Taken out of the table, by the worker or by Close, and not yet marked removed.
Removing == leaving \cup (IF worker = "remove" THEN {child} ELSE {})

\* No child is lost: one that is live is in the table, in its own slot, or in the
\* hands of the one who removes it, and never in both; what has been removed is in
\* neither.  Meanwhile its slot may have been filled again by the opener.
TableIsLive ==
  \A h \in Handle :
    /\ state[h] \in {"added", "ready", "sleeping"} <=> (table[slot[h]] = h \/ h \in Removing)
    /\ ~(table[slot[h]] = h /\ h \in Removing)

\* A removed child does not come back, and after its removal it is not said to
\* be ready, asleep or awake, although it may still be waiting in the
\* initialization queue.  (The opener may yet say that it was added.)
RemovedIsFinal ==
  [][\A h \in Handle : state[h] = "removed" =>
        state'[h] = "removed" /\ told'[h] \in {told[h], "added"}]_vars

\* Once Close has returned every child handle that was given out is removed,
\* and stays so: the worker was joined first.
ClosedIsRemoved ==
  closer = "returned" =>
    \A h \in Handle : state[h] \in {"unused", "removed"}

\* Close returns, with the reader blocked on a full report queue, the worker
\* waiting for a ping, or the worker blocked on its own queue.
CloseReturns == closer # "idle" ~> closer = "returned"

-----------------------------------------------------------------------------
(* What is said of the code and does not hold: TLC finds a counterexample.   *)

\* Callers of the lifecycle callbacks learn of every change of a ready child:
\* one that has gone to sleep has been announced as sleeping.
SleepIsAnnounced ==
  \A h \in Handle : state[h] = "sleeping" => told[h] # "ready"

\* Callbacks are invoked by the lifecycle worker, so a child is announced as
\* added before anything else is said of it.
AddedIsFirst == opener = "announce" => told[opening] = "none"

\* The report callback returns promptly: while nothing has been closed, the
\* shared reader is never held by a full queue while the worker waits for an
\* answer that only the reader can deliver.
ReaderNotHeldByPing ==
  ~(worker = "ping" /\ ~ReaderFree /\ Len(reports) = ReportsCap /\ ~done)

\* The worker goes on consuming notifications.
WorkerGoesOn == worker = "queue" ~> worker # "queue"
=============================================================================
