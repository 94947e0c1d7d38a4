--------------------------- MODULE FeatureClients ---------------------------
(***************************************************************************)
(* The Smart Shift and the DPI client, exchange by exchange, in the hands  *)
(* of one Configurator: NewSmartShift and its setters, and SetNearest, of  *)
(* internal/mxmaster/features.go, as applySmartShift, applyDPI and the     *)
(* cleanup of Close call them.  (Module Configurator has all the settings, *)
(* each of them one value read and written.)                               *)
(*                                                                         *)
(* Smart Shift has two features.  The older one sets mode and threshold;   *)
(* the newer one sets mode, threshold and torque at once.  In both a zero  *)
(* leaves a field of the wheel as it is.  The user's button changes the    *)
(* mode at any time, between two exchanges too.                            *)
(***************************************************************************)
EXTENDS DPIList

CONSTANTS
  Job,           \* a configuration, and the resolutions its sensor advertises
  Threshold,     \* thresholds a wheel may have
  Torque,        \* torques a wheel may have
  MaxTorque,     \* largest torque the client writes (100 in the code)
  MaxFaults,     \* bound on failed exchanges
  MaxPresses     \* bound on presses of the button

\* Config.Validate bounds the settings; 0 stands for one that is left out.
ASSUME FeatureClientsAssumption ==
  /\ \A j \in Job : j.setting \in [enabled : {"none", "on", "off"}, threshold : 0..255,
                                   torque : 0..255]
  /\ Threshold \subseteq 1..255
  /\ Torque \subseteq 0..255
  /\ {MaxTorque, MaxFaults, MaxPresses} \subseteq Nat

Preserve == 0
FreeSpin == 1
Ratchet == 2

VARIABLES
  job,        \* the configuration, the same all along
  offers,     \* Smart Shift features of the device: 1 the older, 2 the newer
  adjustable, \* the newer feature reports that the torque can be set
  wheel,      \* mode, threshold and torque of the wheel
  own,        \* history: what they would be had only the user touched the wheel
  dpi,        \* the resolution the client has set, 0 if none
  version,    \* the feature the client uses, 0 if there is none
  phase,      \* "discover", "status", "set", "dpi", "open", "restore", "closed"
  todo,       \* setters to call next
  seen,       \* status the setter at hand has read, NoStatus before
  original,   \* status the cleanup restores, NoStatus before it is registered
  clean,      \* no step of the cleanup failed
  pressed,    \* history: the button was pressed after the mode was last written
  faults,     \* exchanges that failed
  presses     \* presses of the button

deviceVars == <<job, offers, adjustable>>
wheelVars == <<wheel, own, pressed, presses>>

vars == <<deviceVars, wheelVars, dpi, version, phase, todo, seen, original, clean, faults>>

NoStatus == [mode |-> 0, threshold |-> 0, torque |-> 0]

Wheels == [mode : {FreeSpin, Ratchet}, threshold : Threshold, torque : Torque]

Init ==
  /\ job \in Job
  /\ offers \in SUBSET {1, 2}
  /\ adjustable \in BOOLEAN
  /\ wheel \in Wheels
  /\ own = wheel
  /\ dpi = 0
  /\ version = 0
  /\ phase = "discover"
  /\ todo = << >>
  /\ seen = NoStatus
  /\ original = NoStatus
  /\ clean = TRUE
  /\ pressed = FALSE
  /\ faults = 0
  /\ presses = 0

-----------------------------------------------------------------------------
(* The device *)

Kept(value, field) == IF value = Preserve THEN field ELSE value

\* What a set command does to the wheel.
Written(mode, threshold, torque) ==
  [mode |-> Kept(mode, wheel.mode),
   threshold |-> Kept(threshold, wheel.threshold),
   torque |-> Kept(torque, wheel.torque)]

Fault ==
  /\ faults < MaxFaults
  /\ faults' = faults + 1

Flip(w) == [w EXCEPT !.mode = IF @ = FreeSpin THEN Ratchet ELSE FreeSpin]

Press ==
  /\ phase # "closed"
  /\ presses < MaxPresses
  /\ presses' = presses + 1
  /\ wheel' = Flip(wheel)
  /\ own' = Flip(own)
  /\ pressed' = TRUE
  /\ UNCHANGED <<deviceVars, dpi, version, phase, todo, seen, original, clean, faults>>

-----------------------------------------------------------------------------
(* The setters: what they send to the device *)

Setter(kind, mode, threshold, torque) ==
  [kind |-> kind, mode |-> mode, threshold |-> threshold, torque |-> torque]

SetStatus(mode, threshold) == Setter("state", mode, threshold, Preserve)

SetThresholdWithMode(threshold) ==    \* mutant: the mode read before is written back
  Setter("state", wheel.mode, threshold, Preserve)

SetThreshold(threshold) == Setter("state", Preserve, threshold, Preserve)

SetTorque(torque) == Setter("torque", Preserve, Preserve, torque)

\* The newer feature has no command for two of the fields: its client reads the
\* torque first and writes it back.  SetTorque reads whether it may be set.
ReadsFirst(setter) == version = 2 \/ setter.kind = "torque"

Refused(setter) == setter.kind = "torque" /\ setter.torque \notin 1..MaxTorque

Unsupported(setter) == setter.kind = "torque" /\ (version # 2 \/ ~adjustable)

Effect(setter) ==
  IF setter.kind = "torque" \/ version = 1
    THEN Written(setter.mode, setter.threshold, setter.torque)
    ELSE Written(setter.mode, setter.threshold, seen.torque)

-----------------------------------------------------------------------------
(* applySmartShift: the setters a configuration calls for *)

Configured(setting) ==
  setting.enabled # "none" \/ setting.threshold # 0 \/ setting.torque # 0

StateSetters(setting, status) ==
  IF setting.enabled = "off" THEN <<SetStatus(FreeSpin, 255)>>
  ELSE IF setting.enabled = "on"
    THEN <<SetStatus(Ratchet, IF setting.threshold = 0 THEN status.threshold
                                                       ELSE setting.threshold)>>
  ELSE IF setting.threshold # 0 THEN <<SetThreshold(setting.threshold)>>
  ELSE << >>

TorqueSetters(torque) == IF torque = 0 THEN << >> ELSE <<SetTorque(torque)>>

Setters(setting, status) == StateSetters(setting, status) \o TorqueSetters(setting.torque)

StateRestorers(status) ==    \* mutant: the torque is taken to come back with the rest
  <<SetStatus(status.mode, status.threshold)>>

\* addSmartShiftCleanup
Restorers(status) ==
  <<SetStatus(status.mode, status.threshold)>>
    \o (IF version = 2 /\ adjustable THEN <<SetTorque(status.torque)>> ELSE << >>)

\* Close, or an Apply that failed: the cleanup runs, if it was registered.
Leave(status) ==
  /\ phase' = "restore"
  /\ todo' = IF status = NoStatus THEN << >> ELSE Restorers(status)
  /\ seen' = NoStatus

-----------------------------------------------------------------------------
(* DiscoverFeatures and applySmartShift's GetStatus *)

\* The newer feature first; the older one only when the device says that it
\* does not have the newer.
Discover ==
  /\ phase = "discover"
  /\ version' = IF offers = {} THEN 0 ELSE Max(offers)
  /\ phase' = IF Configured(job.setting) THEN "status" ELSE "dpi"
  /\ UNCHANGED <<deviceVars, wheelVars, dpi, todo, seen, original, clean, faults>>

\* Any other error ends NewConfigurator.
DiscoverFails ==
  /\ phase = "discover"
  /\ Fault
  /\ phase' = "closed"
  /\ UNCHANGED <<deviceVars, wheelVars, dpi, version, todo, seen, original, clean>>

\* Apply ends with ErrNoFeature, and the daemon keeps the configurator.
NoFeature ==
  /\ phase = "status"
  /\ version = 0
  /\ phase' = "open"
  /\ UNCHANGED <<deviceVars, wheelVars, dpi, version, todo, seen, original, clean, faults>>

\* The cleanup is registered before anything is written.
GetStatus ==
  /\ phase = "status"
  /\ version # 0
  /\ original' = wheel
  /\ todo' = Setters(job.setting, wheel)
  /\ phase' = IF todo' = << >> THEN "dpi" ELSE "set"
  /\ UNCHANGED <<deviceVars, wheelVars, dpi, version, seen, clean, faults>>

GetStatusFails ==
  /\ phase = "status"
  /\ version # 0
  /\ Fault
  /\ Leave(NoStatus)
  /\ UNCHANGED <<deviceVars, wheelVars, dpi, version, original, clean>>

-----------------------------------------------------------------------------
(* A setter at work *)

Setting(setter) ==
  /\ phase \in {"set", "restore"}
  /\ todo # << >>
  /\ setter = Head(todo)

\* The next setter of the same list; Apply goes on to the DPI after its last.
Advance ==
  /\ todo' = Tail(todo)
  /\ seen' = NoStatus
  /\ phase' = IF phase = "set" /\ Tail(todo) = << >> THEN "dpi" ELSE phase

\* Apply stops at the first error; the cleanup joins its errors and goes on.
Fails ==
  \/ phase = "set" /\ Leave(original) /\ UNCHANGED clean
  \/ phase = "restore" /\ Advance /\ clean' = FALSE

\* A torque outside 1..100 is not sent.
Refuse(setter) ==
  /\ Setting(setter)
  /\ Refused(setter)
  /\ Fails
  /\ UNCHANGED <<deviceVars, wheelVars, dpi, version, original, faults>>

Read(setter) ==
  /\ Setting(setter)
  /\ ~Refused(setter)
  /\ ReadsFirst(setter)
  /\ seen = NoStatus
  /\ \/ Unsupported(setter) /\ Advance    \* applySmartShift ignores this error
     \/ ~Unsupported(setter) /\ seen' = wheel /\ UNCHANGED <<todo, phase>>
  /\ UNCHANGED <<deviceVars, wheelVars, dpi, version, original, clean, faults>>

ReadFails(setter) ==
  /\ Setting(setter)
  /\ ~Refused(setter)
  /\ ReadsFirst(setter)
  /\ seen = NoStatus
  /\ Fault
  /\ Fails
  /\ UNCHANGED <<deviceVars, wheelVars, dpi, version, original>>

ReadyToWrite(setter) ==
  /\ Setting(setter)
  /\ ~Refused(setter)
  /\ ReadsFirst(setter) => seen # NoStatus

Write(setter) ==
  /\ ReadyToWrite(setter)
  /\ wheel' = Effect(setter)
  /\ pressed' = (pressed /\ setter.mode = Preserve)
  /\ Advance
  /\ UNCHANGED <<deviceVars, own, presses, dpi, version, original, clean, faults>>

\* The command, or only its answer, is lost.
WriteFails(setter) ==
  /\ ReadyToWrite(setter)
  /\ Fault
  /\ wheel' \in {wheel, Effect(setter)}
  /\ Fails
  /\ UNCHANGED <<deviceVars, own, pressed, presses, dpi, version, original>>

Set ==
  \E setter \in {todo[i] : i \in DOMAIN todo} :
    \/ Refuse(setter)
    \/ Read(setter)
    \/ ReadFails(setter)
    \/ Write(setter)
    \/ WriteFails(setter)

-----------------------------------------------------------------------------
(* applyDPI, and the end *)

NoDPI ==
  /\ phase = "dpi"
  /\ job.requested = 0
  /\ phase' = "open"
  /\ UNCHANGED <<deviceVars, wheelVars, dpi, version, todo, seen, original, clean, faults>>

\* The nearest of the supported values, or an error and no value.
SetNearest ==
  /\ phase = "dpi"
  /\ job.requested # 0
  /\ LET values == Supported(job.words)
     IN \/ /\ values = << >>
           /\ Leave(original)
           /\ UNCHANGED dpi
        \/ /\ values # << >>
           /\ dpi' = NearestDPI(values, job.requested)
           /\ phase' = "open"
           /\ UNCHANGED <<todo, seen>>
  /\ UNCHANGED <<deviceVars, wheelVars, version, original, clean, faults>>

\* An exchange of SetNearest fails: one for the list, or the last, which may
\* have set the value all the same.
SetNearestFails ==
  /\ phase = "dpi"
  /\ job.requested # 0
  /\ Fault
  /\ LET values == Supported(job.words)
     IN \/ UNCHANGED dpi
        \/ values # << >> /\ dpi' = NearestDPI(values, job.requested)
  /\ Leave(original)
  /\ UNCHANGED <<deviceVars, wheelVars, version, original, clean>>

Close ==
  /\ phase = "open"
  /\ Leave(original)
  /\ UNCHANGED <<deviceVars, wheelVars, dpi, version, original, clean, faults>>

End ==
  /\ phase = "restore"
  /\ todo = << >>
  /\ phase' = "closed"
  /\ UNCHANGED <<deviceVars, wheelVars, dpi, version, todo, seen, original, clean, faults>>

Next ==
  \/ Discover \/ DiscoverFails \/ NoFeature \/ GetStatus \/ GetStatusFails
  \/ Set
  \/ NoDPI \/ SetNearest \/ SetNearestFails \/ Close \/ End
  \/ Press

Spec == Init /\ [][Next]_vars

-----------------------------------------------------------------------------
(* Properties *)

\* A field that the configuration does not mention stays what the user has it,
\* from the start of Apply to the start of Close, whenever the button is
\* pressed and whichever exchange is lost: a setter that has to write the field
\* writes what leaves it alone ("Using SetThreshold avoids changing the
\* mechanical mode if the physical button is pressed between reading the
\* original state and applying this tuning value", configurator.go:305-307).
\* A configuration that switches Smart Shift off sets the threshold too, to 255.
UnsetIsKept ==
  phase \in {"discover", "status", "set", "dpi", "open"} =>
    /\ job.setting.enabled = "none" => wheel.mode = own.mode
    /\ (job.setting.enabled # "off" /\ job.setting.threshold = 0) =>
         wheel.threshold = own.threshold
    /\ job.setting.torque = 0 => wheel.torque = own.torque

\* When every step of the cleanup succeeded, the wheel has the threshold and
\* the torque it had before Apply, and its mode too unless the user has pressed
\* the button since the mode was restored, wherever Apply stopped
\* (TestSmartShiftCleanupRestoresExactOriginalState, features_test.go:353).
RestoredExactly ==
  (phase = "closed" /\ clean) =>
    /\ wheel.threshold = own.threshold
    /\ wheel.torque = own.torque
    /\ IF original = NoStatus THEN wheel.mode = own.mode
                              ELSE pressed \/ wheel.mode = original.mode

-----------------------------------------------------------------------------
(* The resolutions advertised, read off the ranges and not word by word *)

\* A word has 16 bits, 13 of them for a step.
MaxWord == 65535
MaxStep == MaxWord - RangeMark

\* A range of resolutions, or one resolution alone, where low = high.
Entry == [low : 1..(RangeMark - 1), step : 1..MaxStep, high : 1..MaxWord]

Values(entry) ==
  {entry.low + i * entry.step : i \in 0..((entry.high - entry.low) \div entry.step)}

\* The words the device sends for its ranges.
Encoding(entry) ==
  IF entry.low = entry.high THEN <<entry.low>>
                            ELSE <<entry.low, RangeMark + entry.step, entry.high>>

Words(ranges) ==
  LET sent[n \in 0..Len(ranges)] ==
        IF n = 0 THEN << >> ELSE sent[n - 1] \o Encoding(ranges[n])
  IN sent[Len(ranges)] \o <<0>>

\* What the device advertises is its ranges, in order or backwards.
ASSUME SensorAssumption ==
  \A j \in Job : j.requested # 0 =>
    j.requested \in Nat /\ j.ranges \in Seq(Entry) /\ j.words = Words(j.ranges)

Advertised == UNION {Values(job.ranges[i]) : i \in DOMAIN job.ranges}

Count(ranges) ==
  LET count[n \in 0..Len(ranges)] ==
        IF n = 0 THEN 0 ELSE count[n - 1] + Cardinality(Values(ranges[n]))
  IN count[Len(ranges)]

Sound ==
  /\ job.ranges # << >>
  /\ Len(job.words) <= MaxWords
  /\ Count(job.ranges) <= MaxValues
  /\ \A i \in DOMAIN job.ranges : job.ranges[i].high >= job.ranges[i].low

\* The resolution set is one the sensor advertises, and of those one nearest to
\* the request, the smaller of two equally near.  Nothing is set when the list
\* is empty, unterminated or too long or when one of its ranges runs backwards,
\* and when no exchange fails that is the only reason not to set one
\* (Supported, NearestDPI and SetNearest, features.go:452-588).
NearestIsSet ==
  /\ dpi # 0 =>
       /\ Sound
       /\ dpi \in Advertised
       /\ \A v \in Advertised \ {dpi} :
            LET near == Distance(job.requested, dpi)
                far == Distance(job.requested, v)
            IN near < far \/ (near = far /\ dpi < v)
  /\ (/\ phase \in {"open", "restore", "closed"}
      /\ job.requested # 0
      /\ ~Configured(job.setting)
      /\ faults = 0) => (dpi # 0 <=> Sound)
=============================================================================
