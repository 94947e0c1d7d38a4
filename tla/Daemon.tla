------------------------------- MODULE Daemon -------------------------------
(***************************************************************************)
(* internal/daemon/daemon.go: one goroutine opens a receiver session,      *)
(* configures the target mouse when it is ready, tears it down when it     *)
(* sleeps, retries what failed for a transient reason, and starts over     *)
(* when the receiver is lost or the host resumes.                          *)
(*                                                                         *)
(* The receiver session is seen through the child events it emits and the  *)
(* state of its child handles, which change at any moment, also while the  *)
(* daemon is configuring a target.  A handle is one *ChildDevice; a child  *)
(* that is removed and comes back has a new one.  ChildAdded and           *)
(* ChildWoken, which the daemon ignores, are left out.                     *)
(***************************************************************************)
EXTENDS Naturals, Sequences

CONSTANTS
  Handle,       \* child handles
  Index,        \* wireless indices, 1 to 6 in the code
  Matching,     \* the indices whose child is the configured device
  Target,       \* activations: a configurator, its output, its action handler
  QueueCap,     \* capacity of the child event queue (256 in the code)
  MaxSessions,  \* bound: receiver sessions opened
  MaxEvents,    \* bound: child events emitted
  None

ASSUME DaemonAssumption ==
  /\ Matching \subseteq Index
  /\ Index \subseteq Nat
  /\ {QueueCap, MaxSessions, MaxEvents} \subseteq Nat
  /\ None \notin Handle \cup Target

VARIABLES
  pc,           \* where the Run goroutine is
  reason,       \* why the current session ends
  canceled,     \* the process context is done
  resume,       \* the one-slot channel of resume notifications is full
  session,      \* number of the current session
  open,         \* sessions opened and not closed
  lost,         \* the current session's Done is closed
  events,       \* the child event queue
  emitted,      \* number of events emitted
  state,        \* state of each handle
  index,        \* wireless index of each handle
  owner,        \* session of each handle
  active,       \* runSession's active target
  activeChild,  \* its child
  retryChild,   \* runSession's retryChild; None when the timer is off
  job,          \* the activation in progress
  configurators,\* activations whose configurator is open
  outputs,      \* activations whose output is open
  handlers,     \* activations whose action handler runs
  resumedIn,    \* history: the session that was current at the last resume
  forgotten     \* history: the child whose retry an event of another cancelled,
                \* until it is ready again or an activation begins

envVars     == <<events, emitted, state, index, owner>>
sessionVars == <<session, open, lost>>
targetVars  == <<active, activeChild, configurators, outputs, handlers>>
hostVars    == <<canceled, resume, resumedIn>>
retryVars   == <<retryChild, forgotten>>

vars == <<pc, reason, job, envVars, sessionVars, targetVars, hostVars, retryVars>>

NoJob == [child |-> None, chosen |-> None, target |-> None, via |-> "none"]

Event == [type : {"ready", "sleeping", "removed"}, child : Handle]

Init ==
  /\ pc = "top"
  /\ reason = "none"
  /\ canceled = FALSE
  /\ resume \in BOOLEAN
  /\ session = 0
  /\ open = {}
  /\ lost = FALSE
  /\ events = << >>
  /\ emitted = 0
  /\ state = [h \in Handle |-> "unused"]
  /\ index \in [Handle -> Index]
  /\ owner = [h \in Handle |-> 0]
  /\ active = None
  /\ activeChild = None
  /\ retryChild = None
  /\ job = NoJob
  /\ configurators = {}
  /\ outputs = {}
  /\ handlers = {}
  /\ resumedIn = 0
  /\ forgotten = None

-----------------------------------------------------------------------------
(* The receiver session's worker, through the callback that enqueue builds *)

EmitAlways(type, h) ==        \* mutant: the queue has no limit
  /\ emitted < MaxEvents
  /\ emitted' = emitted + 1
  /\ events' = Append(events, [type |-> type, child |-> h])

\* enqueue: the event is dropped when the queue is full.
Emit(type, h) ==
  /\ emitted < MaxEvents
  /\ emitted' = emitted + 1
  /\ events' = IF Len(events) < QueueCap
                 THEN Append(events, [type |-> type, child |-> h])
                 ELSE events

Alive(h) == owner[h] \in open /\ state[h] \in {"added", "ready", "sleeping"}

EnvOnly == UNCHANGED <<pc, reason, job, sessionVars, targetVars, hostVars, retryVars>>

Appear(h) ==
  /\ session \in open
  /\ state[h] = "unused"
  /\ \A g \in Handle : Alive(g) => index[g] # index[h]
  /\ state' = [state EXCEPT ![h] = "added"]
  /\ owner' = [owner EXCEPT ![h] = session]
  /\ UNCHANGED <<events, emitted, index>>
  /\ EnvOnly

BecomeReady(h) ==
  /\ Alive(h)
  /\ state' = [state EXCEPT ![h] = "ready"]
  /\ Emit("ready", h)
  /\ forgotten' = IF forgotten = h THEN None ELSE forgotten
  /\ UNCHANGED <<pc, reason, job, index, owner, sessionVars, targetVars, hostVars, retryChild>>

FallAsleep(h) ==
  /\ Alive(h)
  /\ state[h] # "sleeping"
  /\ state' = [state EXCEPT ![h] = "sleeping"]
  /\ Emit("sleeping", h)
  /\ UNCHANGED <<index, owner>>
  /\ EnvOnly

\* A failed initialization puts the child to sleep without an event.
FailValidation(h) ==
  /\ Alive(h)
  /\ state[h] # "sleeping"
  /\ state' = [state EXCEPT ![h] = "sleeping"]
  /\ UNCHANGED <<events, emitted, index, owner>>
  /\ EnvOnly

Unpair(h) ==
  /\ Alive(h)
  /\ state' = [state EXCEPT ![h] = "removed"]
  /\ Emit("removed", h)
  /\ UNCHANGED <<index, owner>>
  /\ EnvOnly

\* The shared transport's reader stops.
LoseReceiver ==
  /\ session \in open
  /\ ~lost
  /\ lost' = TRUE
  /\ UNCHANGED <<pc, reason, job, envVars, session, open, targetVars, hostVars, retryVars>>

-----------------------------------------------------------------------------
(* The host *)

Resume ==
  /\ ~resume
  /\ resume' = TRUE
  /\ resumedIn' = session
  /\ UNCHANGED <<pc, reason, job, envVars, sessionVars, targetVars, canceled, retryVars>>

Cancel ==
  /\ ~canceled
  /\ canceled' = TRUE
  /\ UNCHANGED <<pc, reason, job, envVars, sessionVars, targetVars, resume, resumedIn,
                 retryVars>>

-----------------------------------------------------------------------------
(* Run *)

Return ==
  /\ pc' = "returned"
  /\ UNCHANGED <<reason, job, envVars, sessionVars, targetVars, hostVars, retryVars>>

\* The head of the loop, and the check of the context before a reconnection.
TopCanceled == pc = "top" /\ canceled /\ Return

\* Resumes that came before the session is opened are drained.
Drain ==
  /\ pc = "top"
  /\ ~canceled
  /\ session < MaxSessions
  /\ resume' = FALSE
  /\ session' = session + 1
  /\ lost' = FALSE
  /\ pc' = "open"
  /\ UNCHANGED <<reason, job, envVars, open, targetVars, canceled, resumedIn, retryVars>>

DrainedOpen ==                \* mutant: resumes are drained once the session is open
  /\ pc = "open"
  /\ open' = open \cup {session}
  /\ pc' = "opened"
  /\ resume' = FALSE
  /\ UNCHANGED <<reason, job, envVars, session, lost, targetVars, canceled, resumedIn,
                 retryVars>>

\* SessionFactory returns a session, also when the context has ended meanwhile.
OpenSession ==
  /\ pc = "open"
  /\ open' = open \cup {session}
  /\ pc' = "opened"
  /\ UNCHANGED <<reason, job, envVars, session, lost, targetVars, hostVars, retryVars>>

\* Session.Close removes every child; nothing comes from the session afterwards.
CloseSession ==
  /\ open' = open \ {session}
  /\ state' = [h \in Handle |-> IF owner[h] = session THEN "removed" ELSE state[h]]
  /\ UNCHANGED <<events, emitted, index, owner, session, lost>>

ReturnOpened ==               \* mutant: the session is forgotten, not closed
  /\ pc = "opened"
  /\ canceled
  /\ Return

OpenedCanceled ==
  /\ pc = "opened"
  /\ canceled
  /\ CloseSession
  /\ pc' = "returned"
  /\ UNCHANGED <<reason, job, targetVars, hostVars, retryVars>>

BeginSession ==
  /\ pc = "opened"
  /\ ~canceled
  /\ pc' = "loop"
  /\ UNCHANGED <<reason, job, envVars, sessionVars, targetVars, hostVars, retryVars>>

\* The factory fails: because of the context, for good, or for now.
OpenCanceled == pc = "open" /\ canceled /\ Return

OpenRefused == pc = "open" /\ ~canceled /\ Return

OpenUnavailable ==
  /\ pc = "open"
  /\ ~canceled
  /\ pc' = "pause"
  /\ UNCHANGED <<reason, job, envVars, sessionVars, targetVars, hostVars, retryVars>>

PauseCanceled == pc = "pause" /\ canceled /\ Return

PauseEnds ==
  /\ pc = "pause"
  /\ pc' = "top"
  /\ UNCHANGED <<reason, job, envVars, sessionVars, targetVars, hostVars, retryVars>>

-----------------------------------------------------------------------------
(* runSession: the select *)

EndFor(r) ==
  /\ pc' = "cleanup"
  /\ reason' = r
  /\ UNCHANGED <<job, envVars, sessionVars, targetVars, canceled, resumedIn, retryVars>>

SelectCanceledLate ==         \* mutant: the select does not watch the context
  pc = "loop" /\ canceled /\ lost /\ EndFor("canceled") /\ UNCHANGED resume

SelectCanceled ==
  pc = "loop" /\ canceled /\ EndFor("canceled") /\ UNCHANGED resume

SelectLost ==
  pc = "loop" /\ lost /\ EndFor("lost") /\ UNCHANGED resume

SelectResumeAndContinue ==    \* mutant: the notification is consumed, the session kept
  /\ pc = "loop"
  /\ resume
  /\ resume' = FALSE
  /\ UNCHANGED <<pc, reason, job, envVars, sessionVars, targetVars, canceled, resumedIn,
                 retryVars>>

SelectResume ==
  pc = "loop" /\ resume /\ resume' = FALSE /\ EndFor("resume")

\* The action handler of the active target reports an output error.
SelectActionError ==
  pc = "loop" /\ active # None /\ EndFor("failed") /\ UNCHANGED resume

\* closeTarget: reset and stop the actions, which closes the output, then
\* restore the device's settings.
CloseTarget ==
  /\ outputs' = outputs \ {active}
  /\ handlers' = handlers \ {active}
  /\ configurators' = configurators \ {active}
  /\ active' = None
  /\ activeChild' = None

\* sameChild, for an active target.
SameChild(h) == active # None /\ index[activeChild] = index[h]

Stale(e) == owner[e.child] # session

\* The token is a pointer to a zero-size struct: two of them may compare equal,
\* so an event of an earlier session may be discarded or not.
DiscardStale ==
  /\ pc = "loop"
  /\ events # << >>
  /\ Stale(Head(events))
  /\ events' = Tail(events)
  /\ UNCHANGED <<pc, reason, job, emitted, state, index, owner, sessionVars, targetVars,
                 hostVars, retryVars>>

ClearRetry == retryChild' = None

TakeEvent(types) ==
  /\ pc = "loop"
  /\ events # << >>
  /\ Head(events).type \in types
  /\ events' = Tail(events)
  /\ UNCHANGED <<emitted, state, index, owner, sessionVars, hostVars>>

\* The retry is cancelled, whichever child it was for.
HandleGone ==
  /\ TakeEvent({"sleeping", "removed"})
  /\ LET h == Head(events).child IN
     /\ IF SameChild(h) \/ index[h] \in Matching THEN CloseTarget ELSE UNCHANGED targetVars
     /\ forgotten' = IF retryChild # None /\ index[retryChild] # index[h]
                       THEN retryChild ELSE forgotten
  /\ ClearRetry
  /\ UNCHANGED <<pc, reason, job>>

\* A child that is not the target, or that is the active target already.
IgnoreReady ==
  /\ TakeEvent({"ready"})
  /\ LET h == Head(events).child IN index[h] \notin Matching \/ SameChild(h)
  /\ UNCHANGED <<pc, reason, job, targetVars, retryVars>>

Begin(h, via) ==
  /\ pc' = "configure"
  /\ forgotten' = None
  /\ job' = [child |-> h, chosen |-> None, target |-> None, via |-> via]

HandleReady ==
  /\ TakeEvent({"ready"})
  /\ LET h == Head(events).child IN
     /\ index[h] \in Matching
     /\ ~SameChild(h)
     /\ CloseTarget
     /\ Begin(h, "event")
  /\ UNCHANGED <<reason, retryChild>>

\* Another child matches the target, and closing the one that is replaced fails:
\* the restore may have run into its deadline.
ReplaceFails ==
  /\ TakeEvent({"ready"})
  /\ LET h == Head(events).child IN
     /\ index[h] \in Matching
     /\ active # None
     /\ ~SameChild(h)
     /\ CloseTarget
  /\ pc' = "cleanup"
  /\ reason' \in {"failed", "timeout"}
  /\ UNCHANGED <<job, retryVars>>

\* The retry timer fires: the retry is forgotten unless its child is ready.
RetryDropped ==
  /\ pc = "loop"
  /\ retryChild # None
  /\ state[retryChild] # "ready"
  /\ ClearRetry
  /\ UNCHANGED <<pc, reason, job, envVars, sessionVars, targetVars, hostVars, forgotten>>

RetryFires ==
  /\ pc = "loop"
  /\ retryChild # None
  /\ state[retryChild] = "ready"
  /\ ClearRetry
  /\ Begin(retryChild, "retry")
  /\ UNCHANGED <<reason, envVars, sessionVars, targetVars, hostVars>>

-----------------------------------------------------------------------------
(* activateTarget *)

\* SelectChild: of the children in the receiver's table that match the target,
\* the one with the lowest index, which need not be the child of the event.
Candidates == {h \in Handle : Alive(h) /\ index[h] \in Matching}

SelectChild ==
  /\ pc = "configure"
  /\ \E h \in Candidates :
       /\ \A g \in Candidates : index[h] <= index[g]
       /\ job' = [job EXCEPT !.chosen = h]
  /\ pc' = "discover"
  /\ UNCHANGED <<reason, envVars, sessionVars, targetVars, hostVars, retryVars>>

\* The rest of the configurator factory: the features of the child are looked up.
Configure(t) ==
  /\ pc = "discover"
  /\ t \notin configurators
  /\ configurators' = configurators \cup {t}
  /\ job' = [job EXCEPT !.target = t]
  /\ pc' = "apply"
  /\ UNCHANGED <<reason, envVars, sessionVars, active, activeChild, outputs, handlers,
                 hostVars, retryVars>>

ForgetDeferral(h) ==          \* mutant: a retry that is deferred again is dropped
  retryChild' = IF job.via = "event" THEN h ELSE retryChild

ScheduleRetry(h) == retryChild' = h

Defer ==
  /\ ScheduleRetry(job.child)
  /\ job' = NoJob
  /\ pc' = "loop"
  /\ UNCHANGED <<reason, envVars, sessionVars, active, activeChild, outputs, handlers,
                 hostVars, forgotten>>

\* No child matches any more, which is taken for a recoverable error.
SelectDeferred ==
  /\ pc = "configure"
  /\ Candidates = {}
  /\ Defer
  /\ UNCHANGED configurators

\* A recoverable error of the factory, or of Apply, which closes the configurator.
ConfigureDeferred ==
  /\ pc = "discover"
  /\ Defer
  /\ UNCHANGED configurators

\* Apply succeeds, or only misses an optional feature.
Apply ==
  /\ pc = "apply"
  /\ pc' = "output"
  /\ UNCHANGED <<reason, job, envVars, sessionVars, targetVars, hostVars, retryVars>>

ApplyDeferred ==
  /\ pc = "apply"
  /\ Defer
  /\ configurators' = configurators \ {job.target}

Fail ==
  /\ pc' = "cleanup"
  /\ reason' = "failed"
  /\ job' = NoJob
  /\ UNCHANGED <<envVars, sessionVars, active, activeChild, handlers, hostVars, retryVars>>

ConfigureFails ==
  /\ pc = "discover"
  /\ Fail
  /\ UNCHANGED <<configurators, outputs>>

\* Any other error of Apply, or of the output factory, which leaves no output.
ApplyFails ==
  /\ pc \in {"apply", "output"}
  /\ Fail
  /\ configurators' = configurators \ {job.target}
  /\ UNCHANGED outputs

OpenOutput ==
  /\ pc = "output"
  /\ outputs' = outputs \cup {job.target}
  /\ pc' = "start"
  /\ UNCHANGED <<reason, job, envVars, sessionVars, active, activeChild, configurators,
                 handlers, hostVars, retryVars>>

StartFailsHolding ==          \* mutant: the output is left open
  /\ pc = "start"
  /\ Fail
  /\ configurators' = configurators \ {job.target}
  /\ UNCHANGED outputs

\* StartActions fails or returns no handler.
StartFails ==
  /\ pc = "start"
  /\ Fail
  /\ outputs' = outputs \ {job.target}
  /\ configurators' = configurators \ {job.target}

\* The result replaces the active target: an event leaves none before it gets
\* here, a retry does not look.
StartActions ==
  /\ pc = "start"
  /\ handlers' = handlers \cup {job.target}
  /\ active' = job.target
  /\ activeChild' = job.child
  /\ job' = NoJob
  /\ pc' = "loop"
  /\ UNCHANGED <<reason, envVars, sessionVars, configurators, outputs, hostVars, retryVars>>

-----------------------------------------------------------------------------
(* The deferred cleanup of runSession, and what Run does next *)

After(r) ==
  IF canceled \/ r \in {"failed", "canceled"} THEN "returned"
  ELSE IF r = "resume" THEN "top" ELSE "pause"

LeaveSessionOpen ==           \* mutant: the receiver session is not closed
  /\ pc = "cleanup"
  /\ ClearRetry
  /\ forgotten' = None
  /\ CloseTarget
  /\ pc' = After(reason)
  /\ reason' = "none"
  /\ UNCHANGED <<job, envVars, sessionVars, hostVars>>

EndSession ==
  /\ pc = "cleanup"
  /\ ClearRetry
  /\ forgotten' = None
  /\ CloseTarget
  /\ CloseSession
  /\ pc' = After(reason)
  /\ reason' = "none"
  /\ UNCHANGED <<job, hostVars>>

-----------------------------------------------------------------------------

Environment ==
  \/ \E h \in Handle :
       Appear(h) \/ BecomeReady(h) \/ FallAsleep(h) \/ FailValidation(h) \/ Unpair(h)
  \/ LoseReceiver \/ Resume \/ Cancel

Open ==
  \/ Drain \/ OpenSession \/ OpenedCanceled \/ BeginSession \/ PauseEnds
  \/ TopCanceled \/ OpenCanceled \/ PauseCanceled

OpenFails == OpenRefused \/ OpenUnavailable

Interrupt == SelectCanceled \/ SelectLost \/ SelectResume

HandleEvent == DiscardStale \/ HandleGone \/ IgnoreReady \/ HandleReady
               \/ ReplaceFails

Retry == RetryDropped \/ RetryFires

Activate ==
  \/ SelectChild \/ SelectDeferred
  \/ \E t \in Target : Configure(t)
  \/ ConfigureDeferred \/ ConfigureFails
  \/ Apply \/ ApplyDeferred \/ ApplyFails
  \/ OpenOutput \/ StartFails \/ StartActions

Next ==
  \/ Environment
  \/ Open \/ OpenFails
  \/ Interrupt \/ SelectActionError \/ HandleEvent \/ Retry
  \/ Activate
  \/ EndSession

Spec == Init /\ [][Next]_vars

Work == Open \/ Activate \/ EndSession

\* The goroutine keeps running: its own steps, and the activation, which the
\* deadlines of its requests bound, are weakly fair.  Go's select chooses at
\* random among the ready cases, so no case that is ready again and again is
\* passed over for ever; of those that end the session one is enough.
Fairness ==
  /\ WF_vars(Work)
  /\ SF_vars(Interrupt)
  /\ SF_vars(HandleEvent)
  /\ SF_vars(Retry)

FairSpec == Spec /\ Fairness

\* A device that answers in the end: what is asked of it again and again succeeds.
DeviceAnswers ==
  /\ SF_vars(\E t \in Target : Configure(t))
  /\ SF_vars(Apply)

-----------------------------------------------------------------------------
(* Properties *)

\* The stages of activateTarget.
Activating == {"configure", "discover", "apply", "output", "start"}

\* The children the daemon has acted for.
InUse == {activeChild, retryChild, job.child} \ {None}

TypeOK ==
  /\ pc \in {"top", "open", "opened", "pause", "loop", "cleanup", "returned"} \cup Activating
  /\ reason \in {"none", "canceled", "lost", "resume", "failed", "timeout"}
  /\ {canceled, resume, lost} \subseteq BOOLEAN
  /\ session \in 0..MaxSessions
  /\ open \in SUBSET (1..MaxSessions)
  /\ events \in Seq(Event)
  /\ Len(events) <= QueueCap
  /\ emitted \in 0..MaxEvents
  /\ state \in [Handle -> {"unused", "added", "ready", "sleeping", "removed"}]
  /\ index \in [Handle -> Index]
  /\ owner \in [Handle -> 0..MaxSessions]
  /\ active \in Target \cup {None}
  /\ activeChild \in Handle \cup {None}
  /\ (active = None) = (activeChild = None)
  /\ retryChild \in Handle \cup {None}
  /\ job \in [child : Handle \cup {None}, chosen : Handle \cup {None},
              target : Target \cup {None}, via : {"none", "event", "retry"}]
  /\ configurators \in SUBSET Target
  /\ outputs \in SUBSET Target
  /\ handlers \in SUBSET Target
  /\ resumedIn \in 0..MaxSessions
  /\ forgotten \in Handle \cup {None}

\* At most one receiver session is open, the one the daemon works with, and Run
\* never returns, waits or reconnects while one is open.
SessionsClosed ==
  /\ open \subseteq {session}
  /\ pc \in {"top", "open", "pause", "returned"} => open = {}

\* Wherever an activation is deferred or fails, it leaves nothing open: a
\* configurator or an output is that of a running action handler, or belongs to
\* the activation in progress; and no handler outlives either of its two.
NoHalfTarget ==
  /\ handlers \subseteq outputs \cap configurators
  /\ outputs \cup configurators \subseteq
       handlers \cup (IF pc \in {"apply", "output", "start"} THEN {job.target} ELSE {})

\* A resume is never lost to a session that was opened before it: that session
\* is still to be recycled, or is being torn down.
ResumeNotLost ==
  resumedIn = session /\ pc \in {"opened", "loop"} \cup Activating => resume

\* Events of an earlier session may pass the token's comparison, but none is left
\* to undo what the daemon has done for a child of the current one: once such a
\* child is active, being configured or to be retried, every queued event is new.
StaleIsHarmless ==
  \A h \in InUse : owner[h] = session =>
    \A i \in 1..Len(events) : ~Stale(events[i])

\* A canceled daemon returns from whatever it is doing.
CancelReturns == canceled ~> pc = "returned"

\* A host resume leads to a reconnection after it, or the daemon stops.
ResumeReconnects ==
  \A s \in 1..(MaxSessions - 1) :
    resumedIn = s ~> (session > s \/ pc = "returned")

\* The ready event of h is queued and no later event of its index is.
Announced(h) ==
  \E i \in 1..Len(events) :
    /\ events[i] = [type |-> "ready", child |-> h]
    /\ \A j \in (i + 1)..Len(events) : index[events[j].child] # index[h]

\* The daemon has h in hand, and nothing queued speaks of its index.
InHand(h) ==
  /\ h \in {retryChild, job.child}
  /\ \A i \in 1..Len(events) : index[events[i].child] # index[h]

\* A ready target of which the daemon has heard.
Waits(h) ==
  /\ Alive(h) /\ state[h] = "ready" /\ index[h] \in Matching
  /\ Announced(h) \/ InHand(h)

\* A target is active, the child is no longer ready, or the session ends.
Served(h) ==
  active # None \/ ~Alive(h) \/ state[h] # "ready" \/ pc = "cleanup"

\* A ready target whose requests succeed in the end is configured, however often
\* it is deferred and whatever the other children do, unless the event of another
\* one cancels its retry.  A target whose ready event was dropped is not promised
\* anything.
TargetConfigured ==
  DeviceAnswers => \A h \in Handle : Waits(h) ~> (Served(h) \/ forgotten = h)

-----------------------------------------------------------------------------
(* What is said of the code and does not hold: TLC finds a counterexample.   *)

\* A target that could not be configured for a transient reason is retried
\* (daemon_test.go:278): TargetConfigured without its exception.
DeferralIsRetried ==
  DeviceAnswers => \A h \in Handle : Waits(h) ~> Served(h)

\* The daemon stops what it has started: between two selects the only running
\* action handler is that of the active target (the comment on StartActions in
\* mxmaster/configurator.go gives that duty to the caller).
OnlyActiveRuns ==
  pc = "loop" => handlers \subseteq {active}

\* The child that is configured is the one that announced itself ready.
ReadyIsConfigured ==
  pc \in {"discover", "apply", "output", "start"} => index[job.chosen] = index[job.child]
=============================================================================
