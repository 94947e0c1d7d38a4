---------------------------- MODULE Configurator ----------------------------
(***************************************************************************)
(* internal/mxmaster/configurator.go: the owner of the configured child.   *)
(* A configurator reads each setting of the device, remembers what it      *)
(* found, writes the configured value, and writes back what it found when  *)
(* it is closed.  Meanwhile the lifecycle worker dispatches the child's    *)
(* reports (internal/hidpp/feature.go) to the configurator's route, which  *)
(* feeds the event stream Close closes.                                    *)
(*                                                                         *)
(* The daemon makes one configurator after another for the same child; a   *)
(* setting is one read and one write, each an exchange with the device.    *)
(***************************************************************************)
EXTENDS Naturals, Sequences, SequencesExt

CONSTANTS
  Steps,       \* the configured settings, in the order Apply goes through them
  Restored,    \* those Close writes back (all but the DPI)
  Fallback,    \* those it undiverts when that fails (wheel, thumb wheel, buttons)
  EventsCap,   \* capacity of the event stream (64 in the code)
  MaxConfigurators,  \* bound: configurators made
  MaxFaults    \* bound: exchanges that fail

ASSUME ConfiguratorAssumption ==
  /\ Steps \in Seq(ToSet(Steps))
  /\ \A i, j \in DOMAIN Steps : Steps[i] = Steps[j] => i = j
  /\ Restored \subseteq ToSet(Steps)
  /\ Fallback \subseteq Restored
  /\ {EventsCap, MaxConfigurators, MaxFaults} \subseteq Nat

Setting == ToSet(Steps)

\* What the device's user chose, what the configuration says, undiverted.
Value == {"own", "set", "plain"}

VARIABLES
  present,   \* settings whose feature the device has
  device,    \* the device's value of each setting
  faults,    \* exchanges that have failed
  made,      \* configurators made so far; the last one is the current one
  phase,     \* "none", "read", "write", "active", "restore"; "crashed" once a
             \* goroutine has panicked
  at,        \* the step Apply is at
  cleanup,   \* the functions Close is to call: settings and original values
  expired,   \* the one deadline of Close's cleanups has passed
  clean,     \* history: every cleanup of the current or last Close succeeded
  found,     \* history: what the current configurator read of each setting
  touched,   \* history: settings the current configurator has written
  handler,   \* the configurator's route is subscribed
  dispatch,  \* the configurator whose route the dispatcher is to call, 0 if none
  events     \* events queued in the current stream

applyVars == <<made, phase, at, cleanup, expired, clean, found, touched>>
deviceVars == <<present, device, faults>>
eventVars == <<handler, dispatch, events>>

vars == <<deviceVars, applyVars, eventVars>>

Init ==
  /\ present \in SUBSET Setting
  /\ device = [s \in Setting |-> "own"]
  /\ faults = 0
  /\ made = 0
  /\ phase = "none"
  /\ at = 1
  /\ cleanup = << >>
  /\ expired = FALSE
  /\ clean = TRUE
  /\ found = [s \in Setting |-> "own"]
  /\ touched = {}
  /\ handler = FALSE
  /\ dispatch = 0
  /\ events = 0

-----------------------------------------------------------------------------
(* Exchanges *)

Fault ==
  /\ faults < MaxFaults
  /\ faults' = faults + 1

\* A write that was acknowledged, and one that was not: it, or only its answer,
\* was lost.
Acknowledged(s, v) ==
  /\ device' = [device EXCEPT ![s] = v]
  /\ UNCHANGED faults

Lost(s, v) ==
  /\ Fault
  /\ device' \in {device, [device EXCEPT ![s] = v]}

\* The device loses its settings when it is switched off.
PowerCycle ==
  /\ Fault
  /\ device' = [s \in Setting |-> "own"]
  /\ UNCHANGED <<present, applyVars, eventVars>>

-----------------------------------------------------------------------------
(* NewConfigurator and Apply *)

NewConfigurator ==
  /\ phase = "none"
  /\ made < MaxConfigurators
  /\ made' = made + 1
  /\ phase' = IF Steps = << >> THEN "active" ELSE "read"
  /\ at' = 1
  /\ cleanup' = << >>
  /\ expired' = FALSE
  /\ clean' = TRUE
  /\ touched' = {}
  /\ handler' = TRUE
  /\ events' = 0
  /\ UNCHANGED <<deviceVars, found, dispatch>>

Advance ==
  /\ at' = at + 1
  /\ phase' = IF at = Len(Steps) THEN "active" ELSE "read"

\* Close, as far as it holds eventMu: no more reports, and no more events.
Closing ==
  /\ phase' = "restore"
  /\ handler' = FALSE
  /\ UNCHANGED <<dispatch, events>>

\* The feature is there: the original goes to the cleanups before the write.
RememberAfterWriting ==       \* mutant: the cleanup is registered after the write
  /\ phase = "read"
  /\ Steps[at] \in present
  /\ found' = [found EXCEPT ![Steps[at]] = device[Steps[at]]]
  /\ phase' = "write"
  /\ UNCHANGED <<deviceVars, made, at, cleanup, expired, clean, touched, eventVars>>

Read ==
  /\ phase = "read"
  /\ Steps[at] \in present
  /\ found' = [found EXCEPT ![Steps[at]] = device[Steps[at]]]
  /\ cleanup' = IF Steps[at] \in Restored
                  THEN Append(cleanup, [setting |-> Steps[at], original |-> device[Steps[at]]])
                  ELSE cleanup
  /\ phase' = "write"
  /\ UNCHANGED <<deviceVars, made, at, expired, clean, touched, eventVars>>

ReadFails ==
  /\ phase = "read"
  /\ Steps[at] \in present
  /\ Fault
  /\ Closing
  /\ UNCHANGED <<present, device, made, at, cleanup, expired, clean, found, touched>>

\* The device lacks the feature: Apply returns ErrNoFeature, and the daemon
\* goes on with the configurator.
ReadMissing ==
  /\ phase = "read"
  /\ Steps[at] \notin present
  /\ phase' = "active"
  /\ UNCHANGED <<deviceVars, made, at, cleanup, expired, clean, found, touched, eventVars>>

Write ==
  /\ phase = "write"
  /\ Acknowledged(Steps[at], "set")
  /\ touched' = touched \cup {Steps[at]}
  /\ Advance
  /\ UNCHANGED <<present, made, cleanup, expired, clean, found, eventVars>>

WriteFails ==
  /\ phase = "write"
  /\ Lost(Steps[at], "set")
  /\ touched' = touched \cup {Steps[at]}
  /\ Closing
  /\ UNCHANGED <<present, made, at, cleanup, expired, clean, found>>

-----------------------------------------------------------------------------
(* Close *)

Close ==
  /\ phase = "active"
  /\ Closing
  /\ UNCHANGED <<deviceVars, made, at, cleanup, expired, clean, found, touched>>

RestoreInOrder ==             \* mutant: the first cleanup is dropped, not the last
  /\ phase = "restore"
  /\ cleanup # << >>
  /\ ~expired
  /\ Acknowledged(Last(cleanup).setting, Last(cleanup).original)
  /\ cleanup' = Tail(cleanup)
  /\ UNCHANGED <<present, made, phase, at, expired, clean, found, touched, eventVars>>

\* The cleanups run in reverse order.
Restore ==
  /\ phase = "restore"
  /\ cleanup # << >>
  /\ ~expired
  /\ Acknowledged(Last(cleanup).setting, Last(cleanup).original)
  /\ cleanup' = Front(cleanup)
  /\ UNCHANGED <<present, made, phase, at, expired, clean, found, touched, eventVars>>

\* One that is refused is followed by a second write, which at least undiverts.
RestoreFails ==
  /\ phase = "restore"
  /\ cleanup # << >>
  /\ ~expired
  /\ Fault
  /\ LET s == Last(cleanup).setting
         first == {device, [device EXCEPT ![s] = Last(cleanup).original]}
     IN device' \in IF s \in Fallback
                      THEN first \cup {[device EXCEPT ![s] = "plain"]}
                      ELSE first
  /\ clean' = FALSE
  /\ cleanup' = Front(cleanup)
  /\ UNCHANGED <<present, made, phase, at, expired, found, touched, eventVars>>

\* One the device does not answer is waited for until the deadline that all of
\* them share has passed ...
RestoreTimesOut ==
  /\ phase = "restore"
  /\ cleanup # << >>
  /\ ~expired
  /\ Lost(Last(cleanup).setting, Last(cleanup).original)
  /\ expired' = TRUE
  /\ clean' = FALSE
  /\ cleanup' = Front(cleanup)
  /\ UNCHANGED <<present, made, phase, at, found, touched, eventVars>>

\* ... after which the others fail before they write anything.
RestoreTooLate ==
  /\ phase = "restore"
  /\ cleanup # << >>
  /\ expired
  /\ clean' = FALSE
  /\ cleanup' = Front(cleanup)
  /\ UNCHANGED <<deviceVars, made, phase, at, expired, found, touched, eventVars>>

CloseReturns ==
  /\ phase = "restore"
  /\ cleanup = << >>
  /\ phase' = "none"
  /\ UNCHANGED <<deviceVars, made, at, cleanup, expired, clean, found, touched, eventVars>>

-----------------------------------------------------------------------------
(* The lifecycle worker and the action handler *)

\* DispatchReport copies the handlers and releases handlerMu ...
Dispatch ==
  /\ dispatch = 0
  /\ handler
  /\ dispatch' = made
  /\ UNCHANGED <<deviceVars, applyVars, handler, events>>

\* ... and then calls them.  route sends under eventMu; it drops the event when
\* the stream is full, and panics when Close has closed the stream.
Route ==
  /\ dispatch = made
  /\ handler
  /\ dispatch' = 0
  /\ events' = IF events < EventsCap THEN events + 1 ELSE events
  /\ UNCHANGED <<deviceVars, applyVars, handler>>

RouteClosed ==
  /\ dispatch # 0
  /\ ~(dispatch = made /\ handler)
  /\ dispatch' = 0
  /\ phase' = "crashed"
  /\ handler' = FALSE
  /\ UNCHANGED <<deviceVars, made, at, cleanup, expired, clean, found, touched, events>>

\* A report that is of none of the subscribed features, or that cannot be decoded,
\* returns before the send.
RouteUndecoded ==
  /\ dispatch # 0
  /\ dispatch' = 0
  /\ UNCHANGED <<deviceVars, applyVars, handler, events>>

\* The action handler takes an event.
Consume ==
  /\ phase = "active"
  /\ events > 0
  /\ events' = events - 1
  /\ UNCHANGED <<deviceVars, applyVars, handler, dispatch>>

-----------------------------------------------------------------------------

ApplyStep ==
  NewConfigurator \/ Read \/ ReadFails \/ ReadMissing \/ Write \/ WriteFails

CloseStep ==
  Close \/ Restore \/ RestoreFails \/ RestoreTimesOut \/ RestoreTooLate \/ CloseReturns

Next ==
  \/ ApplyStep \/ CloseStep \/ PowerCycle \/ Dispatch \/ Route \/ RouteClosed \/ RouteUndecoded
  \/ Consume

Spec == Init /\ [][Next]_vars

-----------------------------------------------------------------------------
(* Properties *)

Pending == {cleanup[i].setting : i \in DOMAIN cleanup}

TypeOK ==
  /\ present \subseteq Setting
  /\ device \in [Setting -> Value]
  /\ faults \in 0..MaxFaults
  /\ made \in 0..MaxConfigurators
  /\ phase \in {"none", "read", "write", "active", "restore", "crashed"}
  /\ at \in 1..(Len(Steps) + 1)
  /\ cleanup \in Seq([setting : Restored, original : Value])
  /\ expired \in BOOLEAN
  /\ clean \in BOOLEAN
  /\ found \in [Setting -> Value]
  /\ touched \subseteq Setting
  /\ handler \in BOOLEAN
  /\ dispatch \in 0..MaxConfigurators
  /\ events \in 0..EventsCap

\* As long as a configurator is open, every setting it may have changed, also
\* by a write whose answer was lost, is among its cleanups.
ChangesAreCovered ==
  phase \in {"read", "write", "active"} => touched \cap Restored \subseteq Pending

\* When Close has returned and every cleanup succeeded, the settings are what
\* this configurator had found, wherever Apply stopped; or the user's again, when
\* the device was switched off meanwhile.
FoundIsRestored ==
  phase = "none" /\ clean =>
    \A s \in touched \cap Restored : device[s] \in {found[s], "own"}

-----------------------------------------------------------------------------
(* What is said of the code and does not hold: TLC finds a counterexample.   *)

\* Cleanup restores the exact original state: when Close has succeeded, no
\* setting it wrote back is left as configured.
OriginalIsRestored ==
  phase = "none" /\ clean => \A s \in touched \cap Restored : device[s] # "set"

\* A missing optional feature is skipped: the settings whose features the
\* device has are applied.
OthersAreApplied ==
  phase = "active" => present \subseteq touched

\* Close stops event delivery: no report is routed into a closed stream.
NoSendOnClosed == phase # "crashed"
=============================================================================
