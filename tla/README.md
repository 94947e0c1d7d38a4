# A verification of logitechd

`logitechd` configures a Logitech mouse behind a Unifying or Bolt receiver and
turns its diverted buttons and wheels into events of a virtual input device.
This directory holds TLA+ models of it, the TLC configurations that check them on
small instances, and proofs of their safety.

Paths below are relative to `src/internal/`.

## 1. Inventory

| Component | Source | State | Operations | Correct when |
|---|---|---|---|---|
| Transaction core | `hidpp/session.go` | pending table, write gate, closed/terminal, Done, callbacks | Exchange, Send, reader goroutine, SetReportHandler, SubscribeReport, Close | each call gets at most one result, of its key; nothing is left registered; nobody waits after Done; Close returns |
| Child session | `hidpp/feature.go` | protocol version, feature cache, handlers, closed | Validate, LookupFeature, Call, SubscribeEvents, DispatchReport, Reset, Close | no stale feature index; no report to a closed subscriber |
| Codecs | `hidpp/report.go`, `register.go`, `errors.go` | none | Build, Parse, error classification | Parse inverts Build |
| Receiver lifecycle | `receiver/lifecycle.go` | child table, child states, report and init queues, done | OpenSession, acceptReport, worker, callbacks, Close | the table holds the live children; a removed child stays removed; events tell what happened; no goroutine blocks for ever |
| Receiver discovery | `receiver/receiver.go` | open candidates, the one selected, its list of devices | Discover, Configure, EnumeratePaired, OpenAndEnumerate, ParseDeviceEvent | what is opened is returned or closed; the list is complete or there is none |
| Daemon | `daemon/daemon.go` | session, active target, retry timer, event queue | Run, runSession, handleChildEvent, activateTarget, closeTarget | everything opened is closed; a ready target is configured; cancel and resume are obeyed |
| Configurator | `mxmaster/configurator.go` | cleanups, event stream, subscription | NewConfigurator, Apply, route, Close | what was changed is restored; events stop at Close |
| Feature clients | `mxmaster/features.go` | feature index, version | getters and setters of one or more exchanges, the list of resolutions | fields that are not set are preserved; the resolution set is the nearest supported one |
| Action handler | `mxmaster/actions.go` | pressed buttons, gesture, held keys, worker, closed | Handle, Reset, Reconfigure, Start, Stop | no key stuck; held keys known; Stop joins |
| Resume monitor | `power/resume.go` | D-Bus connection and subscription, one-place channel | monitor, forwardResumes, notify | no resume is missed while the bus is down |
| hidraw transport | `hidraw/hidraw_linux.go` | descriptors, closed | ReadReport, WriteReport, Close | Close ends a reader, which returns no data of another file |
| Virtual device | `uinput/` | descriptor, capabilities | Open, Emit, Sync, Close | partial writes completed, device destroyed |
| Configuration, command | `config/config.go`, `cmd/logitechd/main.go` | none | parse, construct, signal handling | - |

How they interact: `main` builds a Daemon. The Daemon's goroutine opens a
receiver session; the session owns one HID++ Session, whose reader goroutine
calls the lifecycle's `acceptReport`; the lifecycle worker takes reports from a
queue, changes children, calls the Daemon's event callback (a non-blocking send
to another queue), and dispatches input reports to the Configurator's `route`,
which sends them without blocking to the event stream of the ActionHandler's
worker. Configuration goes the other way, as exchanges on the shared Session
from the Daemon's goroutine. Cancellation, the retry timer and the resume
channel meet the child events in the Daemon's select.

What is hard here: two locks between registering a request and writing it;
deadlines against answers already taken; three ways to close the session; a
reader that blocks on a queue and a worker that waits for the reader; a worker
that feeds its own queue; an opener that shares the table with the worker;
child events that are queued, dropped, stale or about other children; a timer
against an event; failures half-way through an activation, through discovery,
through Apply, or through a report; a wheel the user changes between the read and
the write of a setting; a descriptor number that is used after its file is
closed; a bus that is down when the host resumes; and Stop against Start. `PROJECT.json` lists each at its line
with the property that is about it.

## 2. Modules

### HidppSession (`hidpp/session.go`)

One element of `Call` is one invocation of Exchange or Send. `pc` follows it
through the code: `gate` (waiting for the write gate), `check` (isClosed),
`write`, `wait` (the final select), `remove` (removePending on an error path),
`returned`. The pending table is the set `pending` with the registration stamp
the code keeps; `hand` and `handResult` are what the reader has taken out and not
yet sent, since it serves calls after releasing the table's lock. The reader's
error path is three steps, as in the code: markClosed, failPending, close(Done).
The device is `wire`: it answers the requests of one key in the order they were
written, with a report or an error, or never; it sends notifications and
malformed reports at will; the link may be lost. The mutexes protect sections
that are one step each.

`Requests` is what a Session promises its callers, without table, gate or reader:
a call is open from its beginning to its end, its request is transmitted at most
once and never after the call has failed, and its outcome is settled once, by an
error or by an answer the device gave to a transmitted request of the same key,
which no other call has. `HidppSession` implements it under the mapping `Service`
(a call is open while its `pc` is inside Exchange or Send; its request is
transmitted when it has a write stamp), and `ImplementsRequests` is the property.
It says "of the same key" because the code does not keep more than that
(`ResponseOwnership` below).

### DeviceSession (`hidpp/feature.go`)

A goroutine that looks a feature up waits for `lock`, finds the index in `cache`
or asks the device and keeps the lock until it has the answer or gives up. The
worker's Reset is two steps, because it waits for the same lock. An index is
known by the feature and the life of the device it was given in; what the device
has answered and nobody has read is `answers`, and it is taken by the lookup that
waits, whichever feature that asked for. `since` and `abandoned` are history
variables.

### ReceiverSession (`receiver/lifecycle.go`)

The reader's `acceptReport` is two actions, because its send blocks: the report
is `held`, then queued. The worker is in `select`, in a `ping` (Validate), or
blocked in `queue` (its own send to the initialization queue). The opener
enumerates, enters a child, announces it and queues it, in separate steps. Close
signals, closes the transport, joins the reader, joins the worker, empties
the table and then goes through the children it held (`leaving`). A child leaves
the table under the session's lock and is marked removed under its own, so both
removals are two steps: `WorkerRemove` and `WorkerRemoved`, `EmptyTable` and
`CloseChild`; in between the child is live and in the hands of the one who removes
it (`Removing`), and the opener may have filled its slot. `told` remembers the last
event emitted for a child.

### Daemon (`daemon/daemon.go`)

One goroutine; `pc` is where it is in Run, runSession or activateTarget. Child
handles change state at any moment, also during an activation, and their events
go through a bounded queue that drops. `Stale` events, of an earlier session, may
be discarded or handled: the token is a pointer to a struct of size zero, and Go
does not promise that two of those differ. A session the factory has returned is
open before Run looks at the context (`opened`), which may have ended meanwhile.
Events the receiver emits inside the factory are modelled as emitted once it has
returned; those of a factory that fails are left out. An activation has five steps:
`configure`, where SelectChild takes the matching child with the lowest index of
the receiver's table (`job.chosen`, not always the child of the event),
`discover`, the rest of the configurator's factory, `apply`, `output`, the output
factory, and `start`, StartActions. The factory, Apply, the output and the actions
each may fail, with the close calls of that path; `configurators`, `outputs` and
`handlers` are what is open or running. `forgotten` is a history variable: the child
whose retry the event of another one cancelled.

### ActionHandler (`mxmaster/actions.go`)

Each call holds one mutex throughout, so it is one action; a report that fails
writes a prefix of its events (`Report`). The buttons are a sequence in ascending
order, `Button`, so that `Only(Button, pressed)` is the sorted list of identifiers
desiredOrderLocked makes of its map; `Chords` appends the keys bound to them, and
`Distinct` keeps the first of each. `down` and `seen` are the kernel's
side: keys down, and keys down at the last Sync. Workers are numbered by the call
of Start that made them; Stop is its two critical sections and the join between.

### Configurator (`mxmaster/configurator.go`, `hidpp/feature.go`)

A setting is read, its cleanup is registered, and it is written; each exchange
may fail, and a write may take effect although it fails. Cleanups run last to
first, share one deadline, and may fall back to an undiverted mode. A setting
has three values: the user's, the configured one, and the undiverted one. The
order of the buttons (a Go map) is fixed, which no property depends on. Dispatch
and Route are two steps because DispatchReport calls the handlers after it has
released its lock. A report that is not for the configurator, or that cannot be
decoded, ends in route before the send (`RouteUndecoded`).

### FeatureClients and DPIList (`mxmaster/features.go`)

Configurator treats every setting as one value; here are the two clients that
are more than that, exchange by exchange, between NewConfigurator and the end of
Close. Smart Shift has two features of the device: the older sets mode and
threshold, the newer sets all three fields in one command, so that the client
reads the torque first and writes it back. Zero in a field leaves it alone. The
user's button changes the mode between any two exchanges; `own` is the wheel as
the user would have it without the program, `original` what the cleanup restores.

`DPIList` is decodeDPIList, Supported and NearestDPI as operators: recursive
functions over the words of the list, each a value, a range step, a range end or
the terminator depending on the one before it. They are compared with what the
words stand for. A sensor advertises ranges (`Entry`), which it sends as words
(`Encoding`, `Words`, `SensorAssumption`); they stand for a set of resolutions
(`Advertised`), which is to be accepted when no range runs backwards and the list
is neither empty nor too long (`Sound`).

### Discovery (`receiver/receiver.go`)

One caller (OpenAndEnumerate or OpenSession) and the nodes in `/dev`. `Candidates`
is the configured path alone, or what the scan lists; `todo` is what is left of it
to be opened, `open` those the process has open, `at` the one
being probed or selected. Each exchange and system call may fail, and each early
return of Discover is an action with the close it makes. The probe tries Unifying
or Bolt first by the USB product (`hint`), which may say nothing. EnumeratePaired
reads slot by slot while the user pairs and unpairs; `always` and `ever` are the
history it is compared with.

A node that may not be opened is passed over like any other that fails: `Discover`
has a return for os.IsPermission (receiver.go:770), but hidraw.Open wraps the
error with `%w`, which os.IsPermission does not look through. What the project's
README.md:151 calls a service that reports `permission denied` is seen when a path
is configured, not when the nodes are scanned.

### Hidraw, ResumeMonitor and Platform (`hidraw/hidraw_linux.go`, `power/resume.go`)

`Hidraw` is one device's reader, in the loop the Session calls it in, against
Close: the closed check, poll by number, the second check, read by number, the
third check. `ResumeMonitor` is monitor with its connection to the bus: the
connection's socket with signals under way (`wire`), those queued for the monitor,
a subscription in two steps (the match is added, its reply comes), the loop that
reconnects, and the notification it owes after that (`recoveryNeeded`).
`unseen` says that the host has resumed since the daemon was last notified.

`Platform` composes them, because both open files in one process: a connection
takes the lowest free number, which after Close may be the number the reader
still has in hand. `ResumeOnItsWay` says where the notification of a host resume
can be until the daemon has it: in the channel, in a signal that will be read
(`Carries`), or with a monitor that owes one or has yet to see that its
connection is broken.

### How the modules meet

The exchanges of Configurator, FeatureClients, Discovery and DeviceSession and the
ping of ReceiverSession are calls of HidppSession, of which they use what Requests
promises. The session Daemon opens is the receiver Discovery returns; the child
events of Daemon are those ReceiverSession emits; the activations of Daemon are a
Configurator and an ActionHandler; the channel ResumeMonitor fills is `resume` of
Daemon. Only Hidraw and ResumeMonitor are composed in one specification
(section 7).

## 3. Runs

Passing runs:

| Run | Shows |
|---|---|
| `session_safety` | two exchanges with equal or different keys and two callers of Close, on a link that may fail: one result per call, nothing abandoned, keys match, writes serialized, nobody waits after Done, and all the callers see is what `Requests` allows |
| `session_liveness` | every call with a deadline and every Close returns, whatever the device does; Close releases the calls in flight even without deadlines; a WriteReport that does not return holds up its own call only |
| `device_cache` | no index from before a Reset survives it and none belongs to another feature, as long as no lookup was given up before its answer came; lookups and Reset get the feature lock |
| `receiver_lifecycle` | a live handle is in the table or in the hands of the one who removes it, removal is final, Close leaves none and returns from every blocked state |
| `daemon_safety` | sessions are closed, also one opened while the context ended; an activation that fails at any step leaves nothing open; resumes are not lost; events of an earlier session cannot reach a child in use; with several children in the table of which some match |
| `daemon_liveness` | cancel returns and a resume reconnects, from wherever the daemon is; a ready target is configured when the device answers in the end, with another child whose events fill the queue, unless one of those cancels the retry |
| `actions` | the held keys are known, wanted, and released at the end, with reports failing at any event; every Stop returns, with two callers of Stop and two calls of Start in any order, while events keep coming |
| `configurator_restore` | every change is covered by a cleanup, and a clean Close restores what was found |
| `feature_clients` | fields of the wheel the configuration does not name stay as the user has them, whenever the button is pressed and whatever is lost; a clean cleanup restores the wheel; every short list of resolutions is decoded and searched right |
| `discovery` | only the receiver of the session returned stays open; the list of devices is complete or there is none; the first usable node is selected |
| `platform` | the reader returns nothing of the file that took over its number, Close ends it, the notification of a host resume is always there or on its way, and it arrives although the bus breaks at any moment |

One run shows the code at odds with what the repository says of it; it is
explained, with the lines, under `findings` in `PROJECT.json`:
`configurator_panic`, a report dispatched across Close is sent on a closed
channel.

The last section of most modules states more properties that do not hold. They
are not among the runs; to see the counterexample, put the property in place of
those of the configuration named (and, where a bound is given, change that).

| Property | Source | Statement it contradicts | Configuration | What happens |
|---|---|---|---|---|
| `ResponseOwnership` | `hidpp/session.go:214` | `:53-57`, the pending table protects response ownership | `MCHidppSession_safety`, INVARIANT | two requests with one key, registered in one order and written in the other, get each other's answers |
| `LossReported` | `hidpp/session.go:319` | `:268-270`, Done is closed when the device disappeared | `MCHidppSession_liveness`, PROPERTY, one Exchange and no Closer | a write error marks the session closed, and Done stays open |
| `IndexIsOwn` | `hidpp/feature.go:200` | `:188`, LookupFeature resolves a feature ID | `MCDeviceSession_cache`, INVARIANT | a lookup times out and its answer, which does not name the feature, is taken by the lookup of another one |
| `DeferralIsRetried` | `daemon/daemon.go:299` | `daemon/daemon_test.go:278`, "transient target configuration was not retried" | `MCDaemon_liveness`, PROPERTY | a sleeping or removed event of another child cancels the target's retry, and the ready target is not configured |
| `OnlyActiveRuns` | `daemon/daemon.go:315` | `mxmaster/configurator.go:185-186`, the caller must stop the handler | `MCDaemon_safety`, INVARIANT | a retry after an event has activated the target replaces that activation, whose handler goes on running |
| `ReadyIsConfigured` | `mxmaster/configurator.go:137` | `daemon/daemon.go:370`, "target device ready" names the child of the event | the same | with two matching children the other one is configured |
| `SleepIsAnnounced` | `receiver/lifecycle.go:496` | `:88`, the callbacks expose lifecycle changes | `MCReceiverSession_lifecycle`, INVARIANT, one slot, `MaxReports = 4` | a failed validation puts a ready child to sleep without an event |
| `AddedIsFirst` | `receiver/lifecycle.go:430` | `:88-89`, callbacks are invoked by the worker | the same | the opener enters a child and announces it afterwards; the worker can speak of it first |
| `ReaderNotHeldByPing` | `receiver/lifecycle.go:357` | `hidpp/session.go:142-143`, callbacks return promptly | the same | the reader blocks on the report queue while the worker waits for an answer |
| `WorkerGoesOn` | `receiver/lifecycle.go:467` | `:150-151`, one worker consumes notifications | the same, PROPERTY | the worker blocks on the queue that only it empties |
| `StopJoins` | `mxmaster/actions.go:265` | `:133-134`, Stop joins the worker | `MCActionHandler`, INVARIANT | a Start between Stop's two halves leaves a worker behind |
| `ReportIsSynced` | `mxmaster/actions.go:450` | `uinput/output.go:46-47`, no report is dropped silently | `MCActionHandler`, INVARIANT | after a failed Sync the same buttons are never synchronized |
| `OriginalIsRestored` | `mxmaster/configurator.go:367` | `features_test.go:353`, cleanup restores the exact original | `MCConfigurator_restore`, INVARIANT | after a failed cleanup the configured value is taken for the original |
| `OthersAreApplied` | `mxmaster/configurator.go:408` | `daemon/daemon.go:384`, an unavailable feature is skipped | the same | a missing feature keeps the settings after it from being sent |
| `BusIsOwn` | `hidraw/hidraw_linux.go:155` | `:28-29`, Close may run concurrently with ReadReport | `MCPlatform`, INVARIANT | the reader takes bytes from the socket that has been given its number, and discards them |

Some of them need a rare situation: `WorkerGoesOn` more unhandled connections
than the queue of 32 holds, `ReportIsSynced` a caller of Handle that goes on
after an error (the worker itself releases all keys and stops), `BusIsOwn` a
reconnection to the bus between two adjacent lines of the reader,
`ReadyIsConfigured` two paired devices that match the target. In the program
as it is, the daemon calls Start once and never races it with Stop; `StopJoins`
is about what the exported type promises.

### Bounds

* HidppSession: two exchanges are enough for one to be registered, the other to
  write and either to be served at once; two keys, for a wrong match; two callers
  of Close, for closeOnce. Each call happens once, and nothing else bounds the
  number of steps. The liveness run has one Exchange, one Send, one Close and a
  callback: it is about what blocks a call, which is the gate, the device and the
  reader. `ImplementsRequests` holds there too (Send included); it is among the
  properties of the safety run only, where two calls compete for an answer.
* DeviceSession: two goroutines that look up two features over and over, two lives
  of the device, and two requests or answers under way, so that a late answer meets
  the next lookup.
* ReceiverSession: queues of one place instead of 128 and 32, so that they fill;
  two notifications besides what the enumeration finds; two slots and two
  handles, so that a removed child's slot is paired again.
* Daemon: two sessions, for events, resumes and handles that belong to the
  earlier one; four events through a queue of two, so that some are dropped; three
  indices of which two match; two activations, and an activation may be used again
  once it is closed, so deferrals are not bounded. `daemon_liveness` has two
  handles, each of the target's index or of another one, and two events through a
  queue of one, so that the other child's event cancels a retry or causes the
  target's to be dropped; its one activation is deferred and begun again any number
  of times, and never overlaps another, as two do in `daemon_safety`.
* ActionHandler: one configuration with two chords that share a modifier, another
  with that key on a gesture, a scroll action and commands. Two calls of Start and
  two callers of Stop: a Start between the halves of a Stop, two Stops that join the
  same worker, and a worker started again after one that was stopped or gave up.
  Motion is one step left or down, or none; the threshold and the units of a click
  are 1, so that a gesture begins at once and a wheel has no remainder: nothing but
  the types depends on the two, and the proofs hold for any.
* Configurator: a setting without fallback, one with it, the DPI (not restored),
  a button; three configurators, two failing exchanges or power cycles, a stream
  of two places. `present` ranges over all sets of features.
* FeatureClients: every configuration of the wheel without a resolution, on devices
  with either Smart Shift feature, both or none, torque adjustable or not; two
  faults and two presses, one for each side of a read and its write. Every list of
  up to three of six values and ranges, sound or not, with three requests. The
  longest list has 5 values (4096 in the code) and 8 words (256 frames), so that
  both limits are met.
* Discovery: two nodes of any nature, every combination of path, kind and caller;
  two slots, two faults, one change of the pairing.
* Platform: the device's two descriptors and one more number, so that the bus gets
  the reader's number or another one; one report, one host resume, one broken
  connection.

`CHECK_DEADLOCK FALSE` in every configuration: each of these systems may stop
(all calls returned, session closed, daemon returned, bound reached). Stuck
states are the business of the liveness properties. Symmetry is used in safety
runs only.

### Fairness

Weak fairness of a goroutine's own steps says that goroutines are scheduled, that
system calls return, and that callbacks return. Exchanges end because
`transactionContext` gives each a deadline: in HidppSession that is the antecedent
`DeadlinesExpire` of `CallsReturn`, so that `CloseReleasesCalls` is checked without
it, and the failing ping of ReceiverSession is weakly fair. Nothing obliges the
device to answer, the link to fail, or anyone to call. In Platform the bus
delivers what it has been sent, and a connection that is tried again and again is
made in the end (strong fairness of Connect: `monitor` retries for ever, and while
the bus is down nobody can be told of a resume); `ResumeSeen` excludes a socket another
reader has taken bytes from, which is `BusIsOwn` above. Go's select chooses at
random among the ready cases, so a case that is ready again and again is taken:
the cases of Daemon's select (of those that end the session, one of them) and the
stop cases of the workers are strongly fair.
A sync.Mutex hands itself to a goroutine that has waited too long, so taking
DeviceSession's lock is strongly fair. `DeviceAnswers`, the antecedent of Daemon's `TargetConfigured`, says that an
activation that is begun again and again succeeds: an assumption about the
device, which the other properties do without. A WriteReport
takes no context: `WritesReturn`, the antecedent of `CallsReturn` and
`CloseReleasesCalls`, says that the kernel returns from it, and `CloseReturns` and
`SlowWriteHoldsOne` do without.

## 4. Proofs

Eight modules `<M>_proofs` prove properties of the module `<M>` for every value of
its constants: any number of calls, handles, slots, nodes, settings, buttons and
failures, and any bound. They use no assumption beyond the named ones of `<M>`,
which are quoted below where they say more than which sort a constant is of. Each
defines an inductive invariant `IInv`, which TLC has checked at the bounds of
section 3 before it was proved; `Invariance` is the theorem that the specification
implies it, and the others follow from it. `Discovery_proofs` also proves the safety
of Platform (`ProcessInv` is the invariant there): what becomes of the descriptors
of a node that discovery has opened.

Together the theorems state every safety invariant and every action property that
the passing runs check. The listed theorems:

| Module | Theorems (property) |
|---|---|
| `HidppSession_proofs` | TypeCorrect, OneResultPerCall (OneResult), NothingAbandoned (NoAbandonedEntry), AnswersMatchKeys (KeyMatched), WritesAreSerialized (WriteExclusive), NobodyWaitsAfterDone (NoWaiterAfterDone), ServiceImplemented (ImplementsRequests) |
| `DeviceSession_proofs` | TypeCorrect, CacheCorrect (CacheIsRight) |
| `ReceiverSession_proofs` | TypeCorrect, TableCorrect (TableIsLive), ChildrenAreRemoved (ClosedIsRemoved), RemovalIsFinal (RemovedIsFinal) |
| `Discovery_proofs` | TypeCorrect, OpenedAreClosed (OpenedIsOwned), ListIsExact (EnumerationIsExact), FirstUsableIsSelected (FirstIsSelected); of Platform: ReaderGetsItsOwn (NoForeignReport), ResumeIsNotForgotten (ResumeOnItsWay) |
| `Daemon_proofs` | TypeCorrect, SessionsAreClosed (SessionsClosed), NoTargetIsHalfOpen (NoHalfTarget), ResumesAreKept (ResumeNotLost), StaleEventsAreGone (StaleIsHarmless) |
| `Configurator_proofs` | TypeCorrect, ChangesCovered (ChangesAreCovered), WhatWasFoundIsRestored (FoundIsRestored) |
| `FeatureClients_proofs` | TypeCorrect, UnsetIsNotWritten (UnsetIsKept), CleanupIsExact (RestoredExactly), ResolutionIsNearest (NearestIsSet) |
| `ActionHandler_proofs` | TypeCorrect, HandlerKnowsTheDevice (HeldIsDown), NoKeyIsStuck (HeldIsWanted), OutputClosesReleased (ClosedIsReleased) |

**HidppSession.** Sends are calls, and `None` is not one. `IInv` strengthens the
checked properties with: the holder of the gate is exactly the call in the guarded
section (`GateInv`, for WriteExclusive); only exchanges between registration and
removal are in the table (`TableInv`, for NoAbandonedEntry); a call that has not
begun has no result and is not in the reader's hand, so its registration is fresh
(`FreshInv`, for OneResult); what the reader holds matches what it is about to
serve, and so does what it has sent (`HandInv`, `ResultInv`, for KeyMatched); the
reader marks the session closed before it drains the table, after which a
registered call can only be before its check or on its way out (`EndInv`, for
NoWaiterAfterDone). OneResult itself is needed by TableInv's neighbours: without it
the reader could hold a call that is still registered.

*The refinement of Requests.* `RefinementInv` adds what the mapping needs: a call
has no outcome before it waits, and gives up with one (`OutcomeInv`); whatever the
reader holds or has sent is an error of its own or the answer to a request that was
written and is no longer on the wire, and no two calls have the same one
(`ServedInv`). With it each step is a stutter or one step of Requests: Exchange and
Send begin a call, WriteOk transmits, Receive and the error paths settle, the
return ends it.

**DeviceSession.** Until a lookup is given up, whatever is on the wire is the
exchange of the lookup that holds the feature lock (`WireInv`), and so is the answer
it has read (`ReplyInv`). That is all CacheIsRight rests on, and it is lost with
the first lookup that gives up before its answer came.

**ReceiverSession.** TableIsLive is inductive only with: a slot's entry is a handle
of that slot (`EntryInv`), so that replacing one entry touches no other; what waits
in the initialization queue, in the worker's hand or in the opener's exists
(`QueueInv`), so that a child is not brought to life before it is made, and the one
the worker is removing is a handle; and Close begins after the opener has ended and
empties the table after the worker has (`CloseInv`), after which nobody is left to
add a child, so what is live then is in `leaving`.

**Discovery.** The scan lists a node once. OpenedIsOwned needs what is open at each
stage (`OpenInv`) and that no node is met twice (`DistinctInv`), or closing one
candidate would close another that was kept; the early return for a configured
path needs that there is one candidate then (`PathInv`). EnumerationIsExact needs
that the list follows the pairing slot by slot, between the slots paired all the
while and those paired at some time (`ListInv`), and that the node is a receiver of
a kind asked for (`FoundInv`). FirstIsSelected needs to know which candidates have
been met: `todo` is the rest of `Candidates` in their order (`TodoInv`), and as long
as nothing has failed the list of receivers begins with the first usable one met so
far (`FirstInv`); for that, a receiver being identified has its own kind among
those that have not been tried in vain.

**Platform.** Descriptors are natural numbers, the device's two are different, and
no number stands for a missing one. NoForeignReport is inductive with `FileInv`:
until Close has set the flag, the reader's number is the device's and not the
socket's. Whatever becomes of the number afterwards, a closed check that is still to
come finds the flag, and what was polled or read of another file is not returned.
That the connection takes a free number, and so leaves a number that is still the
device's alone, needs that the lowest free number is one (`LowestIsFree`).
ResumeOnItsWay is inductive with
`MonitorInv`: a monitor that has subscribed has a subscription or a broken
connection, and until it forwards signals again it owes a notification. So a resume
that comes while nothing is subscribed is covered by the debt, and one that is on a
connection when it breaks by the break, which the monitor has yet to see.

**Daemon.** SessionsClosed is inductive once a session in use has a number
(`SessionInv`). NoHalfTarget needs the job: exactly the running handlers and the
activation in progress have a configurator, and an output only from the step that
opens it; the activation in progress is none that runs (`JobInv`).
ResumeNotLost needs where the channel is drained: a resume since then is in it,
unless the session is being torn down (`ResumeInv`). StaleIsHarmless needs that the
queue holds the events of earlier sessions before those of the current one
(`QueueInv`), and that no child is in use while no session is (`EventInv`): the
first event of the current session that the daemon takes has none of an earlier one
behind it. `ReasonInv` says that runSession always returns with a reason Run knows.

**Configurator.** The list of settings has no duplicates, restored settings are among
them. `FoundIsRestored` needs three parts: each cleanup writes what was found
(`OriginalInv`); each touched setting has its cleanup or is already back
(`RestoredInv`); and the settings Apply has not come to have left no trace
(`AheadInv`, `FreshInv`), without which a second reading could overwrite what was
found. `ChangesAreCovered` needs that the step to be written has registered its
cleanup (`StepInv`). The argument does not depend on how many exchanges fail.

**FeatureClients.** Settings and wheels are in the ranges Validate and the commands
accept. UnsetIsKept needs that the setters left to be called write nothing a
configuration leaves out, except a threshold the wheel has anyway (`PhaseInv` with
`Called`); that a setter writes either the state or the torque (`Separate`); and
that what a setter has read still holds when it writes, but for the mode, which the
user's button changes (`SeenInv`). RestoredExactly needs that the
cleanup has the values from before Apply (`OwnInv`), and what is restored already at
each point of it (`RestoreInv`).

*The nearest resolution.* A word has 16 bits, and a sensor sends its ranges as
`SensorAssumption` says, sound or not. The decoder is followed through one range at a
time: what is decoded after a range is what was decoded before it and the values of
that range, if the range runs forwards and there is room for them, and otherwise the
list is malformed for good (`DecodeEntry`, and `DecodedTo` for all ranges). So the
decoded list has exactly the values of `Advertised`, or it is empty and the ranges
are not `Sound`. `NearestIs` says that the search ends with a value of the list to
which no other is preferred, and `DpiInv` that this is what is set. That the
recursive functions exist and are determined by their equations is shown as well
(`Recursion`, `SameRecursion`), by an induction over sets of numbers like that of
ActionHandler.

**ActionHandler.** The buttons are in ascending order, the gesture's threshold is
positive, and the bindings have the shape compileBinding gives them. `IInv` is
`KeysInv` (HeldIsDown and HeldIsWanted with the types they need), `CallsOK` and
`RunningWasStarted` (a running worker's number is that of a call of Start that was
made, so that Start's next worker is a new one), and ClosedIsReleased. The work is
in the lemmas: what a report does to the keys that are down, whole (`Reconciled`)
or broken off anywhere (`Reported`), and what a release of all keys does
(`Released`). The reports are concatenations of sequences, which the community
modules define by recursion; their elements are found by induction over the number
of parts. The library's induction theorems take an operator and cannot be
instantiated here, so `Induction` states the principle for sets of numbers, from
the well-foundedness of the natural numbers.

Only model-checked: liveness, in every module. Its proofs need ENABLED, which the
prover does not support.

## 5. What is abstracted

Bytes of reports, names, log lines, the wording of errors. A report is its key
and its type. Timers are steps that may happen at any time. A mutex section in
which nothing blocks is one action. The contents of input events are not related
between Configurator and ActionHandler, so a release that is dropped when the
stream is full, and the key it leaves down until the next report, is in neither.

## 6. What is not modelled

* The codecs (`hidpp/report.go`, `register.go`, `errors.go`, the pairing decoders)
  and the clients of one exchange: the high-resolution wheel, the thumb wheel and
  the controls of `mxmaster/features.go`. They translate bytes and keep nothing;
  what they say is the value or the notification of the module that uses them.
* WriteReport, and the ioctls of `hidraw/` and `uinput/`: one call of the kernel
  each. WriteReport goes through os.File, which refuses a write once closed.
* Parsing and validating the configuration, flags, signals and construction: done
  once, before or around everything else.
* The sums of the wheel's remainder: the remainder is kept and reset as in the
  code, but no property adds it up.

## 7. Plan

Done: the transaction core and the service it implements, the child session, the
lifecycle, discovery, the daemon, the configurator, the clients with more than one
exchange, the actions, the resume monitor and the transport's reader.

Proved: every safety property of the passing runs, and that HidppSession
implements Requests (section 4).

Left for the model: a composition of ReceiverSession, Daemon and ResumeMonitor,
for what the daemon believes of its target against what the receiver says. Each
pair of them has millions of states at the bounds above, so it needs an abstract
receiver first (the table and the events it emits), which ReceiverSession is to
implement.
