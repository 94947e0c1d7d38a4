--------------------------- MODULE ActionHandler ---------------------------
(***************************************************************************)
(* internal/mxmaster/actions.go: decoded button, raw-XY and wheel events   *)
(* become key and axis events of the virtual input device.                 *)
(*                                                                         *)
(* Every call holds one mutex from end to end, so a call is one step; but  *)
(* a call may fail in the middle of a report, after some of its events     *)
(* have reached the device, and the worker, the callers of Handle, Reset   *)
(* and Reconfigure, and those of Stop interleave between calls.            *)
(***************************************************************************)
EXTENDS Integers, Sequences, FiniteSets, SequencesExt

CONSTANTS
  Button,     \* control identifiers of the diverted buttons, in ascending order
  Key,        \* key codes
  Settings,   \* compiled configurations Reconfigure may be given
  Motion,     \* raw-XY displacements, pairs of integers
  Axis,       \* wheels with a remainder, "wheel" and "thumb" in the code
  Delta,      \* wheel deltas
  Unit,       \* high-resolution units of one click (120 in the code)
  MaxStarts,  \* bound: calls of Start
  Stopper     \* goroutines that call Stop

CID == ToSet(Button)

Direction == {"left", "right", "up", "down"}

\* A compiled binding: the keys of its chord, and whether it is an action with
\* an axis event or one that cannot be performed here.
Binding == [keys : Seq(Key), relative : BOOLEAN, command : BOOLEAN]

ASSUME ActionHandlerAssumption ==
  /\ Button \in Seq(Nat)
  /\ \A i, j \in DOMAIN Button : i < j => Button[i] < Button[j]
  /\ \A s \in Settings :
       /\ s.button \in [CID -> Binding]
       /\ DOMAIN s.gesture \subseteq Direction
       /\ \A d \in DOMAIN s.gesture : s.gesture[d] \in Binding
       /\ s.threshold \in Nat \ {0}
  /\ Motion \subseteq Int \X Int
  /\ "wheel" \in Axis
  /\ Delta \subseteq Int
  /\ Unit \in Nat \ {0}
  /\ MaxStarts \in Nat

Worker == 1..MaxStarts

VARIABLES
  settings,   \* buttonBindings, gestureBindings, threshold
  pressed,    \* buttons of the last button report
  gesture,    \* the gesture in progress, or "none"
  moved,      \* gestureDX and gestureDY, while no gesture is in progress
  rest,       \* wheelRest, thumbRest
  held,       \* heldOrder; the map held has the same keys
  down,       \* the device's keys that are down
  seen,       \* those of them the last synchronization reported
  clean,      \* history: the last report was written completely
  closed,     \* closed; the output is closed in the same step
  started,    \* how many times Start has installed a worker
  worker,     \* of each Start: "off", "select", "report", "release", "exit", "done"
  running,    \* h.started
  stopping,   \* workers whose stop channel is closed
  live,       \* workers whose context is alive and whose stream is open
  stopper,    \* per Stopper: "idle", "join", "finish", "returned"
  joins       \* the worker a Stopper waits for, 0 if none was started

inputVars == <<settings, pressed, gesture, moved, rest>>
outputVars == <<held, down, seen, clean>>
workerVars == <<started, worker, running, stopping, live>>
stopVars == <<stopper, joins>>

vars == <<inputVars, outputVars, closed, workerVars, stopVars>>

Init ==
  /\ settings \in Settings
  /\ pressed = {}
  /\ gesture = "none"
  /\ moved = <<0, 0>>
  /\ rest = [a \in Axis |-> 0]
  /\ held = << >>
  /\ down = {}
  /\ seen = {}
  /\ clean = TRUE
  /\ closed = FALSE
  /\ started = 0
  /\ worker = [w \in Worker |-> "off"]
  /\ running = FALSE
  /\ stopping = {}
  /\ live = {}
  /\ stopper = [s \in Stopper |-> "idle"]
  /\ joins = [s \in Stopper |-> 0]

-----------------------------------------------------------------------------
(* Reports *)

\* The members of a list that are in S, in their order.
Only(list, S) ==
  FlattenSeq([i \in DOMAIN list |-> IF list[i] \in S THEN <<list[i]>> ELSE << >>])

Distinct(keys) ==
  FlattenSeq([i \in DOMAIN keys |->
                IF keys[i] \in {keys[j] : j \in 1..(i - 1)} THEN << >> ELSE <<keys[i]>>])

Chords(ids) == FlattenSeq([i \in DOMAIN ids |-> settings.button[ids[i]].keys])

\* desiredOrderLocked: the keys of the pressed buttons in the order of their
\* identifiers, then those of the gesture, each once.
Wanted(buttons, direction) ==
  Distinct(Chords(Only(Button, buttons))
             \o IF direction \in DOMAIN settings.gesture
                  THEN settings.gesture[direction].keys ELSE << >>)

Up(k) == [type |-> "up", key |-> k]
Down(k) == [type |-> "down", key |-> k]
Relative == [type |-> "relative"]

Each(keys, Event(_)) == [i \in DOMAIN keys |-> Event(keys[i])]

\* Keys that are not wanted go up, the last pressed first; then the axis
\* events; then the missing keys go down.
Report(wanted, extra) ==
  Each(Reverse(Only(held, Key \ ToSet(wanted))), Up)
    \o extra
    \o Each(Only(wanted, Key \ ToSet(held)), Down)

KeysOf(events, type) == {e.key : e \in {x \in ToSet(events) : x.type = type}}

DownAfter(events) == (down \ KeysOf(events, "up")) \cup KeysOf(events, "down")

\* actualOrder after some of a report's events.
HeldAfter(events) ==
  Only(held, Key \ KeysOf(events, "up"))
    \o LET presses == Only(events, {Down(k) : k \in Key})
       IN [i \in DOMAIN presses |-> presses[i].key]

\* A report without events is not written, and leaves the order alone.
Written(wanted, report) ==
  /\ report = << >> \/ ~closed
  /\ held' = IF report = << >> THEN held ELSE wanted
  /\ down' = DownAfter(report)
  /\ seen' = IF report = << >> THEN seen ELSE down'
  /\ clean' = TRUE

ForgetPartialReport(report) ==   \* mutant: held is left as it was
  /\ report # << >>
  /\ \E n \in 0..Len(report) :
       /\ closed => n = 0
       /\ down' = DownAfter(SubSeq(report, 1, n))
  /\ clean' = FALSE
  /\ UNCHANGED <<held, seen>>

\* The n-th Emit was the last that succeeded, or, after all of them, Sync failed.
Broken(report) ==
  /\ report # << >>
  /\ \E n \in 0..Len(report) :
       /\ closed => n = 0
       /\ down' = DownAfter(SubSeq(report, 1, n))
       /\ held' = HeldAfter(SubSeq(report, 1, n))
  /\ clean' = FALSE
  /\ UNCHANGED seen

\* reconcileLocked, which returns no error iff ok.
Reconcile(buttons, direction, extra, ok) ==
  \E wanted \in {Wanted(buttons, direction)} :
    \E report \in {Report(wanted, extra)} :
      IF ok THEN Written(wanted, report) ELSE Broken(report)

\* An early return, with an error iff not ok.
Return(ok, expected) ==
  /\ ok = expected
  /\ UNCHANGED outputVars

-----------------------------------------------------------------------------
(* handleLocked: one event, without an error iff ok *)

Axes(sources, binding) ==
  [i \in 1..Cardinality({s \in sources : binding[s].relative}) |-> Relative]

ReleasePressed(ids, ok) ==       \* mutant: the report is compared with the last one
  LET new == ids \ pressed IN
    IF \E c \in new : settings.button[c].command
      THEN Return(ok, FALSE) /\ UNCHANGED pressed
      ELSE /\ pressed' = ids
           /\ Reconcile(pressed \cap ids, gesture, Axes(new, settings.button), ok)

PressButtons(ids, ok) ==
  LET new == ids \ pressed IN
    IF \E c \in new : settings.button[c].command
      THEN Return(ok, FALSE) /\ UNCHANGED pressed
      ELSE /\ pressed' = ids
           /\ Reconcile(ids, gesture, Axes(new, settings.button), ok)

HandleButtons(ids, ok) ==
  /\ PressButtons(ids, ok)
  /\ UNCHANGED <<settings, gesture, moved, rest>>

Abs(n) == IF n < 0 THEN -n ELSE n

DirectionFor(d) ==
  IF Abs(d[1]) >= Abs(d[2])
    THEN IF d[1] < 0 THEN "left" ELSE "right"
    ELSE IF d[2] < 0 THEN "up" ELSE "down"

EndGesture(ok) ==
  /\ gesture' = "none"
  /\ moved' = <<0, 0>>
  /\ Reconcile(pressed, "none", << >>, ok)

BeginGesture(direction, ok) ==
  IF direction \in DOMAIN settings.gesture /\ settings.gesture[direction].command
    THEN /\ Return(ok, FALSE)
         /\ UNCHANGED gesture
    ELSE /\ gesture' = direction
         /\ Reconcile(pressed, direction,
                      Axes({direction} \cap DOMAIN settings.gesture, settings.gesture), ok)

\* The displacements add up until they reach the threshold; from then on the
\* direction of each single one counts.
HandleRawXY(d, ok) ==
  /\ LET sum == <<moved[1] + d[1], moved[2] + d[2]>> IN
       IF d = <<0, 0>> THEN EndGesture(ok)
       ELSE IF settings.gesture = << >>
         THEN Return(ok, TRUE) /\ UNCHANGED <<gesture, moved>>
       ELSE IF gesture = "none" /\ Abs(sum[1]) + Abs(sum[2]) < settings.threshold
         THEN Return(ok, TRUE) /\ moved' = sum /\ UNCHANGED gesture
       ELSE /\ moved' = <<0, 0>>
            /\ IF DirectionFor(d) = gesture
                 THEN Return(ok, TRUE) /\ UNCHANGED gesture
                 ELSE BeginGesture(DirectionFor(d), ok)
  /\ UNCHANGED <<settings, pressed, rest>>

\* consumeHiRes: division truncates toward zero.
Clicks(value) == IF value < 0 THEN -((-value) \div Unit) ELSE value \div Unit

\* A high-resolution delta, and the clicks it completes.
HandleHiRes(a, delta, ok) ==
  LET clicks == Clicks(rest[a] + delta) IN
    /\ delta # 0
    /\ rest' = [rest EXCEPT ![a] = @ + delta - clicks * Unit]
    /\ Reconcile(pressed, gesture,
                 IF clicks = 0 THEN <<Relative>> ELSE <<Relative, Relative>>, ok)
    /\ UNCHANGED <<settings, pressed, gesture, moved>>

HandleLowRes(ok) ==
  /\ rest' = [rest EXCEPT !["wheel"] = 0]
  /\ Reconcile(pressed, gesture, <<Relative>>, ok)
  /\ UNCHANGED <<settings, pressed, gesture, moved>>

Event(ok) ==
  \/ \E ids \in SUBSET CID : HandleButtons(ids, ok)
  \/ \E d \in Motion : HandleRawXY(d, ok)
  \/ \E a \in Axis, delta \in Delta : HandleHiRes(a, delta, ok)
  \/ HandleLowRes(ok)

\* releaseAllLocked.
ReleaseAll(ok) ==
  /\ pressed' = {}
  /\ gesture' = "none"
  /\ moved' = <<0, 0>>
  /\ rest' = [a \in Axis |-> 0]
  /\ Reconcile({}, "none", << >>, ok)

-----------------------------------------------------------------------------
(* Calls of other goroutines *)

Handle ==
  /\ ~closed
  /\ \E ok \in BOOLEAN : Event(ok)
  /\ UNCHANGED <<closed, workerVars, stopVars>>

Reset ==
  /\ ~closed
  /\ \E ok \in BOOLEAN : ReleaseAll(ok)
  /\ UNCHANGED <<settings, closed, workerVars, stopVars>>

\* The settings change only once everything has been released.
Reconfigure ==
  /\ ~closed
  /\ \E ok \in BOOLEAN :
       /\ ReleaseAll(ok)
       /\ IF ok THEN settings' \in Settings ELSE UNCHANGED settings
  /\ UNCHANGED <<closed, workerVars, stopVars>>

ReleaseGesture ==
  /\ ~closed
  /\ \E ok \in BOOLEAN : EndGesture(ok)
  /\ UNCHANGED <<settings, pressed, rest, closed, workerVars, stopVars>>

Start ==
  /\ ~closed
  /\ ~running
  /\ started < MaxStarts
  /\ started' = started + 1
  /\ running' = TRUE
  /\ worker' = [worker EXCEPT ![started + 1] = "select"]
  /\ live' = live \cup {started + 1}
  /\ UNCHANGED <<inputVars, outputVars, closed, stopping, stopVars>>

\* The worker's context is canceled or its event stream ends.
EndStream(w) ==
  /\ w \in live
  /\ live' = live \ {w}
  /\ UNCHANGED <<inputVars, outputVars, closed, started, worker, running, stopping, stopVars>>

-----------------------------------------------------------------------------
(* The worker *)

Goto(w, pc) ==
  /\ worker' = [worker EXCEPT ![w] = pc]
  /\ UNCHANGED <<started, stopping, live>>

\* An event is ready, while the select may as well find the stop channel closed.
WorkerHandle(w) ==
  /\ worker[w] = "select"
  /\ IF closed
       THEN UNCHANGED <<inputVars, outputVars>> /\ Goto(w, "report")
       ELSE \E ok \in BOOLEAN : Event(ok) /\ Goto(w, IF ok THEN "select" ELSE "report")
  /\ UNCHANGED <<closed, running, stopVars>>

\* reportError keeps the first error for the owner; nothing else depends on it.
WorkerReport(w) ==
  /\ worker[w] = "report"
  /\ Goto(w, "release")
  /\ UNCHANGED <<inputVars, outputVars, closed, running, stopVars>>

WorkerStop(w) ==
  /\ worker[w] = "select"
  /\ w \in stopping \/ w \notin live
  /\ Goto(w, "release")
  /\ UNCHANGED <<inputVars, outputVars, closed, running, stopVars>>

\* releaseAll, which does not ask whether the handler is closed.
WorkerRelease(w) ==
  /\ worker[w] = "release"
  /\ Goto(w, "exit")
  /\ \E ok \in BOOLEAN : ReleaseAll(ok)
  /\ UNCHANGED <<settings, closed, running, stopVars>>

\* The deferred function: started = false, and, unlocked, close(done).
ExitBeforeReturning(w) ==        \* mutant: done is never closed
  /\ worker[w] = "exit"
  /\ running' = FALSE
  /\ Goto(w, "exit")
  /\ UNCHANGED <<inputVars, outputVars, closed, stopVars>>

WorkerExit(w) ==
  /\ worker[w] = "exit"
  /\ running' = FALSE
  /\ Goto(w, "done")
  /\ UNCHANGED <<inputVars, outputVars, closed, stopVars>>

-----------------------------------------------------------------------------
(* Stop *)

\* Stop closes the stop channel of a running worker, once, and waits for the
\* worker that was started last, if any.
StopBegin(s) ==
  /\ stopper[s] = "idle"
  /\ IF closed
       THEN /\ stopper' = [stopper EXCEPT ![s] = "returned"]
            /\ UNCHANGED <<stopping, joins>>
       ELSE /\ stopper' = [stopper EXCEPT ![s] = IF started = 0 THEN "finish" ELSE "join"]
            /\ joins' = [joins EXCEPT ![s] = started]
            /\ stopping' = IF running THEN stopping \cup {started} ELSE stopping
  /\ UNCHANGED <<inputVars, outputVars, closed, started, worker, running, live>>

StopJoin(s) ==
  /\ stopper[s] = "join"
  /\ worker[joins[s]] = "done"
  /\ stopper' = [stopper EXCEPT ![s] = "finish"]
  /\ UNCHANGED <<inputVars, outputVars, closed, workerVars, joins>>

CloseHolding(s) ==               \* mutant: the output is closed with keys down
  /\ stopper[s] = "finish"
  /\ stopper' = [stopper EXCEPT ![s] = "returned"]
  /\ closed' = TRUE
  /\ UNCHANGED <<inputVars, outputVars, workerVars, joins>>

\* Release once more, whatever the worker managed, and close the output.
StopFinish(s) ==
  /\ stopper[s] = "finish"
  /\ stopper' = [stopper EXCEPT ![s] = "returned"]
  /\ IF closed
       THEN UNCHANGED <<inputVars, outputVars, closed>>
       ELSE /\ \E ok \in BOOLEAN : ReleaseAll(ok)
            /\ closed' = TRUE
            /\ UNCHANGED settings
  /\ UNCHANGED <<workerVars, joins>>

-----------------------------------------------------------------------------

WorkerStep(w) ==
  WorkerHandle(w) \/ WorkerReport(w) \/ WorkerStop(w) \/ WorkerRelease(w) \/ WorkerExit(w)

StopStep(s) == StopJoin(s) \/ StopFinish(s)

Next ==
  \/ Handle \/ Reset \/ Reconfigure \/ ReleaseGesture \/ Start
  \/ \E w \in Worker : WorkerStep(w) \/ EndStream(w)
  \/ \E s \in Stopper : StopBegin(s) \/ StopStep(s)

Spec == Init /\ [][Next]_vars

\* What a worker and the callers of Stop do when nothing holds them up.
Unblocked ==
  \/ \E w \in Worker : WorkerReport(w) \/ WorkerExit(w)
  \/ \E s \in Stopper : StopJoin(s)
  \/ \E w \in Worker : WorkerRelease(w)
  \/ \E s \in Stopper : StopFinish(s)

\* Goroutines are scheduled, the mutex is granted in turn, and a select that
\* finds the stop channel closed again and again takes it in the end.
FairSpec ==
  /\ Spec
  /\ WF_vars(Unblocked)
  /\ SF_vars(\E w \in Worker : WorkerStop(w))

-----------------------------------------------------------------------------
(* Properties *)

TypeOK ==
  /\ settings \in Settings
  /\ pressed \subseteq CID
  /\ gesture \in Direction \cup {"none"}
  /\ moved \in Int \X Int /\ Abs(moved[1]) + Abs(moved[2]) < settings.threshold
  /\ rest \in [Axis -> (1 - Unit)..(Unit - 1)]
  /\ held \in Seq(Key) /\ IsInjective(held)
  /\ down \subseteq Key /\ seen \subseteq Key
  /\ clean \in BOOLEAN /\ closed \in BOOLEAN /\ running \in BOOLEAN
  /\ started \in 0..MaxStarts
  /\ worker \in [Worker -> {"off", "select", "report", "release", "exit", "done"}]
  /\ stopping \subseteq Worker /\ live \subseteq Worker
  /\ stopper \in [Stopper -> {"idle", "join", "finish", "returned"}]
  /\ joins \in [Stopper -> 0..MaxStarts]

\* The handler knows which keys of the device are down, also after a report
\* that failed half way: without that a later release would miss one.
HeldIsDown == ToSet(held) = down

\* After a call without an error the keys down are those of the buttons and the
\* gesture now active: none is stuck, and a modifier two buttons share is up only
\* when both are.  (Their order may be another one, after an earlier error.)
HeldIsWanted == clean => ToSet(held) = ToSet(Wanted(pressed, gesture))

\* The output is closed with no key down, unless the device refused the release.
ClosedIsReleased == closed /\ clean => down = {}

\* Every call of Stop returns, also when another goroutine calls Stop or Start at
\* any moment of it, and while events keep coming.
StopReturns == \A s \in Stopper : stopper[s] # "idle" ~> stopper[s] = "returned"

-----------------------------------------------------------------------------
(* What is said of the code and does not hold: TLC finds a counterexample.   *)

\* Stop joins the worker: when it has closed the output none is left.
StopJoins == closed => \A w \in Worker : worker[w] \in {"off", "done", "exit"}

\* Sync ends every report: when a call has returned without an error, what the
\* device has been sent is what it has been told to report.
ReportIsSynced == clean => seen = down
=============================================================================
