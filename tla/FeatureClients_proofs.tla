----------------------- MODULE FeatureClients_proofs -----------------------
(***************************************************************************)
(* What the Smart Shift client leaves alone and what the cleanup restores, *)
(* for every configuration of the wheel, any number of failed exchanges    *)
(* and any number of presses of the button; and the resolution that the    *)
(* DPI client sets, for every list of ranges a sensor may advertise.       *)
(***************************************************************************)
EXTENDS FeatureClients, SequenceTheorems, FiniteSetTheorems, FunctionTheorems,
        WellFoundedInduction, TLAPS

Wheel == [mode : {FreeSpin, Ratchet}, threshold : 1..255, torque : 0..255]

Status == Wheel \cup {NoStatus}

SetterSet == [kind : {"state", "torque"}, mode : {Preserve, FreeSpin, Ratchet},
              threshold : 0..255, torque : 0..255]

\* The variables the invariant needs, as far as it needs them.
TypeOK ==
  /\ job \in Job
  /\ adjustable \in BOOLEAN
  /\ wheel \in Wheel /\ own \in Wheel
  /\ phase \in {"discover", "status", "set", "dpi", "open", "restore", "closed"}
  /\ todo \in Seq(SetterSet)
  /\ seen \in Status /\ original \in Status
  /\ clean \in BOOLEAN /\ pressed \in BOOLEAN

\* A setter writes the state or the torque, never both.
Separate(setter) ==
  IF setter.kind = "state" THEN setter.torque = Preserve
                           ELSE setter.mode = Preserve /\ setter.threshold = Preserve

\* The setters a configuration may call for, on a wheel with this threshold.
Called(setting, threshold) ==
  {s \in SetterSet :
     /\ Separate(s)
     /\ setting.enabled = "none" => s.mode = Preserve
     /\ (setting.enabled # "off" /\ setting.threshold = 0) =>
          s.threshold \in {Preserve, threshold}
     /\ setting.torque = 0 => s.kind = "state"}

\* What is to be called, and whether the cleanup has been registered.
PhaseInv ==
  /\ phase \in {"discover", "status"} => original = NoStatus
  /\ phase = "set" => original # NoStatus /\ todo \in Seq(Called(job.setting, own.threshold))
  /\ phase \in {"discover", "status", "dpi", "open", "closed"} => seen = NoStatus

\* What a setter has read still holds when it writes, but for the mode; and a
\* setter that is unsupported reads nothing.
SeenInv ==
  seen # NoStatus => /\ seen.torque = wheel.torque
                     /\ todo # << >> /\ ~Unsupported(Head(todo))

\* Before the cleanup is registered nothing has been written; it has the values
\* from before; and without a command for it the torque is never written.
OwnInv ==
  /\ original = NoStatus => wheel = own
  /\ original # NoStatus => original.threshold = own.threshold /\ original.torque = own.torque
  /\ ~(version = 2 /\ adjustable) => wheel.torque = own.torque

StateRestored ==
  clean => wheel.threshold = own.threshold /\ (pressed \/ wheel.mode = original.mode)

\* What a cleanup that has not failed has restored when this is left to do.
RestoreInv ==
  phase = "restore" =>
    IF original = NoStatus
      THEN todo = << >>
      ELSE \/ todo = Restorers(original)
           \/ /\ todo = <<SetTorque(original.torque)>>
              /\ version = 2 /\ adjustable
              /\ StateRestored
           \/ /\ todo = << >>
              /\ StateRestored
              /\ clean => wheel.torque = own.torque

IInv ==
  /\ TypeOK
  /\ PhaseInv
  /\ SeenInv
  /\ OwnInv
  /\ RestoreInv
  /\ UnsetIsKept
  /\ RestoredExactly

-----------------------------------------------------------------------------
(* The lists of setters *)

LEMMA SettersAreCalled ==
  ASSUME NEW setting \in [enabled : {"none", "on", "off"}, threshold : 0..255, torque : 0..255],
         NEW status \in Wheel
  PROVE  Setters(setting, status) \in Seq(Called(setting, status.threshold))
<1> DEFINE S == Called(setting, status.threshold)
<1> USE DEF Preserve, FreeSpin, Ratchet, Setter, SetterSet, Separate, Called
<1>1. << >> \in Seq(S)
  BY EmptySeq
<1>2. \A s \in S : <<s>> \in Seq(S)
  OBVIOUS
<1>3. /\ setting.enabled \in {"none", "on", "off"}
      /\ setting.threshold \in 0..255 /\ setting.torque \in 0..255
      /\ status.threshold \in 0..255 /\ 255 \in 0..255 /\ 0 \in 0..255
  BY DEF Wheel
<1>4. StateSetters(setting, status) \in Seq(S)
  <2>1. CASE setting.enabled = "off"
    <3>1. SetStatus(FreeSpin, 255) \in S
      BY <1>3, <2>1 DEF SetStatus
    <3>2. StateSetters(setting, status) = <<SetStatus(FreeSpin, 255)>>
      BY <2>1 DEF StateSetters
    <3> HIDE DEF S
    <3> QED BY <1>2, <3>1, <3>2
  <2>2. CASE setting.enabled = "on"
    <3>1. SetStatus(Ratchet, IF setting.threshold = 0 THEN status.threshold
                                                     ELSE setting.threshold) \in S
      BY <1>3, <2>2 DEF SetStatus
    <3>2. StateSetters(setting, status) =
            <<SetStatus(Ratchet, IF setting.threshold = 0 THEN status.threshold
                                                          ELSE setting.threshold)>>
      BY <2>2 DEF StateSetters
    <3> HIDE DEF S
    <3> QED BY <1>2, <3>1, <3>2
  <2>3. CASE setting.enabled = "none" /\ setting.threshold # 0
    <3>1. SetThreshold(setting.threshold) \in S
      BY <1>3, <2>3 DEF SetThreshold
    <3>2. StateSetters(setting, status) = <<SetThreshold(setting.threshold)>>
      BY <2>3 DEF StateSetters
    <3> HIDE DEF S
    <3> QED BY <1>2, <3>1, <3>2
  <2>4. CASE setting.enabled = "none" /\ setting.threshold = 0
    BY <1>1, <2>4 DEF StateSetters
  <2> QED BY <1>3, <2>1, <2>2, <2>3, <2>4
<1>5. TorqueSetters(setting.torque) \in Seq(S)
  <2>1. CASE setting.torque = 0
    BY <1>1, <2>1 DEF TorqueSetters
  <2>2. CASE setting.torque # 0
    <3>1. SetTorque(setting.torque) \in S
      BY <1>3, <2>2 DEF SetTorque
    <3>2. TorqueSetters(setting.torque) = <<SetTorque(setting.torque)>>
      BY <2>2 DEF TorqueSetters
    <3> HIDE DEF S
    <3> QED BY <1>2, <3>1, <3>2
  <2> QED BY <2>1, <2>2
<1> HIDE DEF S
<1>6. StateSetters(setting, status) \o TorqueSetters(setting.torque) \in Seq(S)
  BY <1>4, <1>5, ConcatProperties
<1> QED BY <1>6 DEF Setters, S

\* The cleanup restores the state first, then the torque if there is a command.
LEMMA RestorersShape ==
  ASSUME NEW status \in Wheel
  PROVE  /\ Restorers(status) \in Seq(SetterSet) /\ Restorers(status) # << >>
         /\ Head(Restorers(status)) = SetStatus(status.mode, status.threshold)
         /\ Tail(Restorers(status)) = IF version = 2 /\ adjustable
                                       THEN <<SetTorque(status.torque)>> ELSE << >>
<1>1. /\ SetStatus(status.mode, status.threshold) \in SetterSet
      /\ SetTorque(status.torque) \in SetterSet
  <2>1. /\ status.mode \in {FreeSpin, Ratchet} /\ status.threshold \in 0..255
        /\ status.torque \in 0..255 /\ 0 \in 0..255
    BY DEF Wheel
  <2> QED BY <2>1 DEF SetStatus, SetTorque, Setter, SetterSet, Preserve
<1>2. \A a \in SetterSet : /\ <<a>> \o << >> \in Seq(SetterSet) /\ <<a>> \o << >> # << >>
                          /\ Head(<<a>> \o << >>) = a /\ Tail(<<a>> \o << >>) = << >>
  OBVIOUS
<1>3. ASSUME NEW a \in SetterSet, NEW b \in SetterSet
      PROVE  /\ <<a>> \o <<b>> \in Seq(SetterSet) /\ <<a>> \o <<b>> # << >>
             /\ Head(<<a>> \o <<b>>) = a /\ Tail(<<a>> \o <<b>>) = <<b>>
  <2>1. <<a>> \in Seq(SetterSet) /\ <<b>> \in Seq(SetterSet) /\ <<a, b>> \in Seq(SetterSet)
    OBVIOUS
  <2>2. Len(<<a>> \o <<b>>) = 2 /\ <<a>> \o <<b>> \in Seq(SetterSet)
    BY <2>1, ConcatProperties
  <2>3. (<<a>> \o <<b>>)[1] = a /\ (<<a>> \o <<b>>)[2] = b
    BY <2>1, ConcatProperties
  <2>4. <<a>> \o <<b>> = <<a, b>>
    <3>1. Len(<<a, b>>) = 2 /\ \A i \in 1..2 : (<<a>> \o <<b>>)[i] = <<a, b>>[i]
      BY <2>3
    <3> QED BY <2>1, <2>2, <3>1, SeqEqual
  <2>5. Head(<<a, b>>) = a /\ Tail(<<a, b>>) = <<b>> /\ <<a, b>> # << >>
    OBVIOUS
  <2> QED BY <2>2, <2>4, <2>5
<1>4. CASE version = 2 /\ adjustable
  <2>1. Restorers(status) =
          <<SetStatus(status.mode, status.threshold)>> \o <<SetTorque(status.torque)>>
    BY <1>4 DEF Restorers
  <2> QED BY <1>1, <1>3, <1>4, <2>1
<1>5. CASE ~(version = 2 /\ adjustable)
  <2>1. Restorers(status) = <<SetStatus(status.mode, status.threshold)>> \o << >>
    BY <1>5 DEF Restorers
  <2> QED BY <1>1, <1>2, <1>5, <2>1
<1> QED BY <1>4, <1>5

-----------------------------------------------------------------------------
(* The setter at hand *)

\* Where it comes from, and what is left after it.
LEMMA SetterFacts ==
  ASSUME IInv, NEW setter, Setting(setter)
  PROVE  /\ setter \in SetterSet /\ Separate(setter) /\ Tail(todo) \in Seq(SetterSet)
         /\ original \in Wheel
         /\ phase = "set" => /\ setter \in Called(job.setting, own.threshold)
                             /\ Tail(todo) \in Seq(Called(job.setting, own.threshold))
         /\ phase = "restore" =>
              \/ /\ todo = Restorers(original)
                 /\ setter = SetStatus(original.mode, original.threshold)
                 /\ Tail(todo) = IF version = 2 /\ adjustable
                                   THEN <<SetTorque(original.torque)>> ELSE << >>
              \/ /\ version = 2 /\ adjustable /\ StateRestored
                 /\ setter = SetTorque(original.torque) /\ Tail(todo) = << >>
<1>1. setter \in SetterSet /\ Tail(todo) \in Seq(SetterSet) /\ todo # << >> /\ setter = Head(todo)
      /\ phase \in {"set", "restore"}
  BY HeadTailProperties DEF Setting, IInv, TypeOK
<1>2. CASE phase = "set"
  <2>1. /\ setter \in Called(job.setting, own.threshold)
        /\ Tail(todo) \in Seq(Called(job.setting, own.threshold))
    BY <1>1, <1>2, HeadTailProperties DEF IInv, PhaseInv
  <2>2. original \in Wheel
    BY <1>2 DEF IInv, TypeOK, PhaseInv, Status
  <2> QED BY <1>1, <1>2, <2>1, <2>2 DEF Called
<1>3. CASE phase = "restore"
  <2>1. original \in Wheel
    BY <1>1, <1>3 DEF IInv, TypeOK, RestoreInv, Status
  <2>2. original # NoStatus
    BY <1>1, <1>3 DEF IInv, RestoreInv
  <2>3. CASE todo = Restorers(original)
    <3>1. /\ setter = SetStatus(original.mode, original.threshold)
          /\ Tail(todo) = IF version = 2 /\ adjustable
                            THEN <<SetTorque(original.torque)>> ELSE << >>
      BY <1>1, <2>1, <2>3, RestorersShape
    <3> QED BY <1>1, <1>3, <2>1, <2>3, <3>1 DEF Separate, SetStatus, Setter
  <2>4. CASE todo = <<SetTorque(original.torque)>> /\ version = 2 /\ adjustable /\ StateRestored
    <3>1. setter = SetTorque(original.torque) /\ Tail(todo) = << >>
      BY <1>1, <2>4
    <3> QED BY <1>1, <1>3, <2>1, <2>4, <3>1 DEF Separate, SetTorque, Setter
  <2> QED BY <1>1, <1>3, <2>2, <2>3, <2>4 DEF IInv, RestoreInv
<1> QED BY <1>1, <1>2, <1>3

\* What a setter that gets to write does to the wheel.
LEMMA EffectFacts ==
  ASSUME IInv, NEW setter, ReadyToWrite(setter)
  PROVE  /\ Effect(setter) \in Wheel
         /\ Effect(setter).mode = Kept(setter.mode, wheel.mode)
         /\ Effect(setter).threshold = Kept(setter.threshold, wheel.threshold)
         /\ setter.kind = "state" => Effect(setter).torque = wheel.torque
         /\ setter.kind = "torque" => /\ Effect(setter).torque = setter.torque
                                      /\ version = 2 /\ adjustable
<1>1. /\ setter \in SetterSet /\ Separate(setter) /\ Setting(setter) /\ ~Refused(setter)
      /\ wheel \in Wheel
  BY SetterFacts DEF ReadyToWrite, IInv, TypeOK
<1>2. \A t : Written(setter.mode, setter.threshold, t) =
              [mode |-> Kept(setter.mode, wheel.mode),
               threshold |-> Kept(setter.threshold, wheel.threshold),
               torque |-> Kept(t, wheel.torque)]
  BY DEF Written
<1>3. Kept(setter.mode, wheel.mode) \in {FreeSpin, Ratchet}
  BY <1>1 DEF Kept, SetterSet, Wheel
<1>4. Kept(setter.threshold, wheel.threshold) \in 1..255
  BY <1>1 DEF Kept, SetterSet, Wheel, Preserve
<1>5. CASE setter.kind = "state"
  <2>1. setter.torque = Preserve
    BY <1>1, <1>5 DEF Separate
  <2>2. Kept(seen.torque, wheel.torque) = wheel.torque
    BY DEF IInv, SeenInv, Kept, NoStatus, Preserve
  <2>3. Kept(setter.torque, wheel.torque) = wheel.torque
    BY <2>1 DEF Kept
  <2>4. Effect(setter) = [mode |-> Kept(setter.mode, wheel.mode),
                          threshold |-> Kept(setter.threshold, wheel.threshold),
                          torque |-> wheel.torque]
    BY <1>2, <1>5, <2>2, <2>3 DEF Effect
  <2>5. wheel.torque \in 0..255
    BY <1>1 DEF Wheel
  <2> QED BY <1>3, <1>4, <1>5, <2>4, <2>5 DEF Wheel
<1>6. CASE setter.kind = "torque"
  <2>1. setter.torque # Preserve /\ setter.torque \in 0..255
    BY <1>1, <1>6, FeatureClientsAssumption DEF Refused, Preserve, SetterSet
  <2>2. Effect(setter) = [mode |-> Kept(setter.mode, wheel.mode),
                          threshold |-> Kept(setter.threshold, wheel.threshold),
                          torque |-> setter.torque]
    BY <1>2, <1>6, <2>1 DEF Effect, Kept
  <2>3. version = 2 /\ adjustable
    BY <1>1, <1>6 DEF ReadyToWrite, ReadsFirst, IInv, SeenInv, Unsupported, Setting
  <2> QED BY <1>3, <1>4, <1>6, <2>1, <2>2, <2>3 DEF Wheel
<1> QED BY <1>1, <1>5, <1>6 DEF SetterSet

-----------------------------------------------------------------------------
(* How a call of a setter ends *)

\* The setter is not at work any more.
LEMMA LeaveInv ==
  ASSUME IInv, phase \in {"set", "dpi", "open"}, Leave(original),
         wheel' \in Wheel, own' \in Wheel, pressed' \in BOOLEAN, clean' \in BOOLEAN,
         UNCHANGED <<job, adjustable, version, original>>,
         original = NoStatus => wheel' = own',
         own'.threshold = own.threshold, own'.torque = own.torque,
         ~(version = 2 /\ adjustable) => wheel'.torque = own'.torque
  PROVE  IInv'
<1>1. phase' = "restore" /\ seen' = NoStatus
      /\ todo' = IF original = NoStatus THEN << >> ELSE Restorers(original)
  BY DEF Leave
<1>2. todo' \in Seq(SetterSet)
  BY <1>1, EmptySeq, RestorersShape DEF IInv, TypeOK, Status
<1>3. TypeOK'
  BY <1>1, <1>2 DEF IInv, TypeOK, Status
<1>4. PhaseInv' /\ SeenInv'
  BY <1>1 DEF PhaseInv, SeenInv
<1>5. OwnInv'
  BY DEF IInv, OwnInv
<1>6. RestoreInv'
  <2>1. Restorers(original)' = Restorers(original)
    BY DEF Restorers
  <2> QED BY <1>1, <2>1 DEF RestoreInv
<1>7. UnsetIsKept' /\ RestoredExactly'
  BY <1>1 DEF UnsetIsKept, RestoredExactly
<1> QED BY <1>3, <1>4, <1>5, <1>6, <1>7 DEF IInv

\* It fails, its command may have reached the wheel.
LEMMA FailsInv ==
  ASSUME IInv, NEW setter, Setting(setter), Fails,
         wheel' = wheel \/ (ReadyToWrite(setter) /\ wheel' = Effect(setter)),
         UNCHANGED <<deviceVars, own, pressed, version, original>>
  PROVE  IInv'
<1> USE DEF deviceVars
<1>1. /\ wheel' \in Wheel
      /\ ~(version = 2 /\ adjustable) => wheel'.torque = own.torque
  <2>1. wheel \in Wheel /\ (~(version = 2 /\ adjustable) => wheel.torque = own.torque)
    BY DEF IInv, TypeOK, OwnInv
  <2>2. CASE wheel' = wheel
    BY <2>1, <2>2
  <2>3. CASE ReadyToWrite(setter) /\ wheel' = Effect(setter)
    BY <2>1, <2>3, EffectFacts, SetterFacts DEF SetterSet
  <2> QED BY <2>2, <2>3
<1>2. original \in Wheel /\ original # NoStatus
  BY SetterFacts DEF Wheel, NoStatus, FreeSpin, Ratchet
<1>3. /\ own \in Wheel /\ pressed \in BOOLEAN /\ clean \in BOOLEAN
  BY DEF IInv, TypeOK
<1>4. CASE phase = "set" /\ Leave(original) /\ UNCHANGED clean
  BY <1>1, <1>2, <1>3, <1>4, LeaveInv
<1>5. CASE phase = "restore" /\ Advance /\ clean' = FALSE
  <2>1. todo' = Tail(todo) /\ seen' = NoStatus /\ phase' = "restore"
    BY <1>5 DEF Advance
  <2>2. todo' \in Seq(SetterSet)
    BY <2>1, SetterFacts
  <2>3. TypeOK'
    BY <1>1, <1>3, <1>5, <2>1, <2>2 DEF IInv, TypeOK, Status
  <2>4. PhaseInv' /\ SeenInv'
    BY <2>1 DEF PhaseInv, SeenInv
  <2>5. OwnInv'
    BY <1>1, <1>2 DEF IInv, OwnInv
  <2>6. SetTorque(original.torque)' = SetTorque(original.torque)
    BY DEF SetTorque
  <2>7. RestoreInv'
    <3>1. \/ todo' = <<SetTorque(original.torque)>> /\ version = 2 /\ adjustable
          \/ todo' = << >>
      BY <1>5, <2>1, SetterFacts
    <3> QED BY <1>2, <1>5, <2>6, <3>1 DEF RestoreInv, StateRestored
  <2>8. UnsetIsKept' /\ RestoredExactly'
    BY <2>1 DEF UnsetIsKept, RestoredExactly
  <2> QED BY <2>3, <2>4, <2>5, <2>7, <2>8 DEF IInv
<1> QED BY <1>4, <1>5 DEF Fails

\* It has written.
LEMMA WriteInv ==
  ASSUME IInv, NEW setter, Write(setter)
  PROVE  IInv'
<1> USE DEF deviceVars
<1>1. /\ Setting(setter) /\ ReadyToWrite(setter) /\ wheel' = Effect(setter)
      /\ pressed' = (pressed /\ setter.mode = Preserve) /\ Advance
      /\ UNCHANGED <<job, adjustable, own, version, original, clean>>
  BY DEF Write, ReadyToWrite
<1>2. /\ setter \in SetterSet /\ Separate(setter)
      /\ todo' = Tail(todo) /\ todo' \in Seq(SetterSet) /\ seen' = NoStatus
      /\ original \in Wheel /\ original # NoStatus
  BY <1>1, SetterFacts DEF Advance, Wheel, NoStatus, FreeSpin, Ratchet
<1>3. /\ wheel' \in Wheel
      /\ wheel'.mode = Kept(setter.mode, wheel.mode)
      /\ wheel'.threshold = Kept(setter.threshold, wheel.threshold)
      /\ setter.kind = "state" => wheel'.torque = wheel.torque
      /\ setter.kind = "torque" => wheel'.torque = setter.torque /\ version = 2 /\ adjustable
  BY <1>1, EffectFacts
<1>4. phase' \in {"set", "dpi", "restore"} /\ (phase = "set" => phase' # "restore")
      /\ (phase = "restore" => phase' = "restore") /\ phase \in {"set", "restore"}
  BY <1>1 DEF Advance, Setting
<1>5. pressed' \in BOOLEAN
  BY <1>1 DEF IInv, TypeOK
<1>6. TypeOK'
  BY <1>1, <1>2, <1>3, <1>4, <1>5 DEF IInv, TypeOK, Status
<1>7. OwnInv'
  BY <1>1, <1>2, <1>3 DEF IInv, OwnInv, SetterSet
<1>8. SeenInv'
  BY <1>2 DEF SeenInv
<1>9. CASE phase = "set"
  <2>1. /\ setter \in Called(job.setting, own.threshold)
        /\ todo' \in Seq(Called(job.setting, own.threshold))
    BY <1>1, <1>2, <1>9, SetterFacts
  <2>2. PhaseInv'
    BY <1>1, <1>2, <1>4, <1>9, <2>1 DEF PhaseInv
  <2>3. RestoreInv' /\ RestoredExactly'
    BY <1>4, <1>9 DEF RestoreInv, RestoredExactly
  <2>4. UnsetIsKept
    BY DEF IInv
  <2>5. UnsetIsKept'
    BY <1>1, <1>3, <1>9, <2>1, <2>4 DEF UnsetIsKept, Called, Kept, SetterSet
  <2> QED BY <1>6, <1>7, <1>8, <2>2, <2>3, <2>5 DEF IInv
<1>10. CASE phase = "restore"
  <2>1. PhaseInv' /\ UnsetIsKept' /\ RestoredExactly'
    BY <1>4, <1>10 DEF PhaseInv, UnsetIsKept, RestoredExactly
  <2>2. original.threshold = own.threshold /\ original.torque = own.torque
    BY <1>2 DEF IInv, OwnInv
  <2>3. SetTorque(original.torque)' = SetTorque(original.torque)
    BY <1>1 DEF SetTorque
  <2>4. RestoreInv'
    <3>1. CASE /\ setter = SetStatus(original.mode, original.threshold)
               /\ todo' = IF version = 2 /\ adjustable
                            THEN <<SetTorque(original.torque)>> ELSE << >>
      <4>1. /\ setter.mode = original.mode /\ setter.threshold = original.threshold
            /\ setter.kind = "state"
        BY <3>1 DEF SetStatus, Setter
      <4>2. setter.mode # Preserve /\ setter.threshold # Preserve
        <5>1. original.mode \in {1, 2} /\ original.threshold \in 1..255
          BY <1>2 DEF Wheel, FreeSpin, Ratchet
        <5> QED BY <4>1, <5>1 DEF Preserve
      <4>3. wheel'.threshold = own.threshold /\ wheel'.mode = original.mode
        BY <1>3, <2>2, <4>1, <4>2 DEF Kept
      <4>4. StateRestored'
        BY <1>1, <4>3 DEF StateRestored
      <4>5. ~(version = 2 /\ adjustable) => wheel'.torque = own'.torque
        BY <1>1, <1>7 DEF OwnInv
      <4>6. CASE version = 2 /\ adjustable
        <5>1. todo' = <<SetTorque(original.torque)>>
          BY <3>1, <4>6
        <5> QED BY <1>1, <1>2, <2>3, <4>4, <4>6, <5>1 DEF RestoreInv
      <4>7. CASE ~(version = 2 /\ adjustable)
        <5>1. todo' = << >>
          BY <3>1, <4>7
        <5> QED BY <1>1, <1>2, <4>4, <4>5, <4>7, <5>1 DEF RestoreInv
      <4> QED BY <4>6, <4>7
    <3>2. CASE setter = SetTorque(original.torque) /\ todo' = << >> /\ StateRestored
      <4>1. /\ setter.mode = Preserve /\ setter.threshold = Preserve
            /\ setter.kind = "torque" /\ setter.torque = original.torque
        BY <3>2 DEF SetTorque, Setter
      <4>2. /\ wheel'.mode = wheel.mode /\ wheel'.threshold = wheel.threshold
            /\ wheel'.torque = own.torque
        BY <1>3, <2>2, <4>1 DEF Kept
      <4>3. pressed => pressed'
        BY <1>1, <4>1
      <4>4. StateRestored'
        BY <1>1, <3>2, <4>2, <4>3 DEF StateRestored
      <4> QED BY <1>1, <1>2, <3>2, <4>2, <4>4 DEF RestoreInv
    <3> QED BY <1>1, <1>2, <1>10, <3>1, <3>2, SetterFacts
  <2> QED BY <1>6, <1>7, <1>8, <2>1, <2>4 DEF IInv
<1> QED BY <1>4, <1>9, <1>10

\* It has read what it is to write back, or that there is nothing to write.
LEMMA ReadInv ==
  ASSUME IInv, NEW setter, Read(setter)
  PROVE  IInv'
<1> USE DEF deviceVars, wheelVars
<1>1. /\ Setting(setter) /\ setter = Head(todo) /\ todo # << >>
      /\ UNCHANGED <<job, adjustable, wheel, own, pressed, version, original, clean>>
      /\ phase \in {"set", "restore"}
  BY DEF Read, Setting
<1>2. CASE ~Unsupported(setter) /\ seen' = wheel /\ UNCHANGED <<todo, phase>>
  <2>1. TypeOK'
    BY <1>1, <1>2 DEF IInv, TypeOK, Status
  <2>2. PhaseInv'
    BY <1>1, <1>2 DEF IInv, PhaseInv
  <2>3. SeenInv'
    BY <1>1, <1>2 DEF SeenInv, Unsupported
  <2>4. OwnInv'
    BY <1>1 DEF IInv, OwnInv
  <2>5. RestoreInv'
    BY <1>1, <1>2 DEF IInv, RestoreInv, StateRestored, Restorers, SetStatus, SetTorque, Setter
  <2>6. UnsetIsKept' /\ RestoredExactly'
    BY <1>1, <1>2 DEF IInv, UnsetIsKept, RestoredExactly
  <2> QED BY <2>1, <2>2, <2>3, <2>4, <2>5, <2>6 DEF IInv
<1>3. CASE Unsupported(setter) /\ Advance
  <2>1. setter.kind = "torque" /\ ~(version = 2 /\ adjustable)
    BY <1>3 DEF Unsupported
  <2>2. phase = "set"
    <3>1. setter # SetStatus(original.mode, original.threshold)
      BY <2>1 DEF SetStatus, Setter
    <3> QED BY <1>1, <2>1, <3>1, SetterFacts
  <2>3. /\ todo' = Tail(todo) /\ seen' = NoStatus /\ phase' \in {"set", "dpi"}
    BY <1>3, <2>2 DEF Advance
  <2>4. todo' \in Seq(SetterSet) /\ todo' \in Seq(Called(job.setting, own.threshold))
    BY <1>1, <2>2, <2>3, SetterFacts
  <2>5. TypeOK'
    BY <1>1, <2>3, <2>4 DEF IInv, TypeOK, Status
  <2>6. PhaseInv'
    BY <1>1, <2>2, <2>3, <2>4 DEF IInv, PhaseInv
  <2>7. SeenInv' /\ RestoreInv' /\ RestoredExactly'
    BY <2>3 DEF SeenInv, RestoreInv, RestoredExactly
  <2>8. OwnInv' /\ UnsetIsKept'
    BY <1>1, <2>2 DEF IInv, OwnInv, UnsetIsKept
  <2> QED BY <2>5, <2>6, <2>7, <2>8 DEF IInv
<1> QED BY <1>2, <1>3 DEF Read

-----------------------------------------------------------------------------
(* The steps *)

\* Nothing but a Smart Shift setter, and the button, touches the wheel.
LEMMA StepInv ==
  ASSUME IInv, [Next]_vars
  PROVE  IInv'
<1> USE DEF deviceVars, wheelVars
<1>1. CASE Set
  <2>1. PICK setter : Refuse(setter) \/ Read(setter) \/ ReadFails(setter) \/ Write(setter)
                        \/ WriteFails(setter)
    BY <1>1 DEF Set
  <2>2. CASE Refuse(setter) \/ ReadFails(setter) \/ WriteFails(setter)
    <3>1. /\ Setting(setter) /\ Fails
          /\ wheel' = wheel \/ (ReadyToWrite(setter) /\ wheel' = Effect(setter))
          /\ UNCHANGED <<deviceVars, own, pressed, version, original>>
      BY <2>2 DEF Refuse, ReadFails, WriteFails, ReadyToWrite
    <3> QED BY <3>1, FailsInv
  <2> QED BY <2>1, <2>2, ReadInv, WriteInv
<1>2. ASSUME UNCHANGED <<job, adjustable, wheel, own, version, original, pressed, clean>>,
             Leave(original), phase \in {"dpi", "open"}
      PROVE  IInv'
  <2>1. /\ wheel \in Wheel /\ own \in Wheel /\ pressed \in BOOLEAN /\ clean \in BOOLEAN
        /\ original = NoStatus => wheel = own
        /\ ~(version = 2 /\ adjustable) => wheel.torque = own.torque
    BY DEF IInv, TypeOK, OwnInv
  <2> QED BY <1>2, <2>1, LeaveInv
<1>3. CASE Close \/ SetNearestFails
  <2>1. /\ Leave(original) /\ phase \in {"dpi", "open"}
        /\ UNCHANGED <<job, adjustable, wheel, own, version, original, pressed, clean>>
    BY <1>3 DEF Close, SetNearestFails
  <2> QED BY <1>2, <2>1
<1>4. CASE SetNearest
  <2>1. /\ phase = "dpi"
        /\ UNCHANGED <<job, adjustable, wheel, own, version, original, pressed, clean>>
        /\ Leave(original) \/ (phase' = "open" /\ UNCHANGED <<todo, seen>>)
    BY <1>4 DEF SetNearest
  <2>2. CASE phase' = "open" /\ UNCHANGED <<todo, seen>>
    BY <2>1, <2>2 DEF IInv, TypeOK, PhaseInv, SeenInv, OwnInv, RestoreInv, UnsetIsKept,
                      RestoredExactly
  <2> QED BY <1>2, <2>1, <2>2
<1>5. CASE NoDPI \/ NoFeature
  BY <1>5 DEF NoDPI, NoFeature, IInv, TypeOK, PhaseInv, SeenInv, OwnInv, RestoreInv, UnsetIsKept,
              RestoredExactly
<1>6. CASE Discover
  <2>1. /\ phase = "discover" /\ phase' \in {"status", "dpi"} /\ wheel = own
        /\ UNCHANGED <<job, adjustable, wheel, own, original, pressed, clean, todo, seen>>
        /\ original = NoStatus /\ seen = NoStatus
    BY <1>6 DEF Discover, IInv, PhaseInv, OwnInv
  <2> QED BY <2>1 DEF IInv, TypeOK, PhaseInv, SeenInv, OwnInv, RestoreInv, UnsetIsKept,
                      RestoredExactly
<1>7. CASE DiscoverFails
  <2>1. /\ phase = "discover" /\ phase' = "closed" /\ wheel = own
        /\ UNCHANGED <<job, adjustable, wheel, own, version, original, pressed, clean, todo, seen>>
        /\ original = NoStatus /\ seen = NoStatus
    BY <1>7 DEF DiscoverFails, IInv, PhaseInv, OwnInv
  <2> QED BY <2>1 DEF IInv, TypeOK, PhaseInv, SeenInv, OwnInv, RestoreInv, UnsetIsKept,
                      RestoredExactly
<1>8. CASE GetStatusFails
  <2>1. /\ phase = "status" /\ phase' = "restore" /\ wheel = own
        /\ UNCHANGED <<job, adjustable, wheel, own, version, original, pressed, clean>>
        /\ original = NoStatus /\ seen' = NoStatus /\ todo' = << >>
    BY <1>8 DEF GetStatusFails, Leave, IInv, PhaseInv, OwnInv
  <2>2. todo' \in Seq(SetterSet)
    BY <2>1, EmptySeq
  <2> QED BY <2>1, <2>2 DEF IInv, TypeOK, Status, PhaseInv, SeenInv, OwnInv, RestoreInv,
                            UnsetIsKept, RestoredExactly
<1>9. CASE GetStatus
  <2>1. /\ phase = "status" /\ wheel = own /\ wheel \in Wheel
        /\ UNCHANGED <<job, adjustable, wheel, own, version, pressed, clean, seen>>
        /\ original' = wheel /\ seen = NoStatus
        /\ todo' = Setters(job.setting, wheel)
        /\ phase' = IF todo' = << >> THEN "dpi" ELSE "set"
    BY <1>9 DEF GetStatus, IInv, TypeOK, PhaseInv, OwnInv
  <2>2. todo' \in Seq(Called(job.setting, own.threshold))
    BY <2>1, SettersAreCalled, FeatureClientsAssumption DEF IInv, TypeOK
  <2>3. todo' \in Seq(SetterSet)
    BY <2>2 DEF Called
  <2>4. wheel # NoStatus
    BY <2>1 DEF Wheel, NoStatus, FreeSpin, Ratchet
  <2>5. TypeOK'
    BY <2>1, <2>3 DEF IInv, TypeOK, Status
  <2> QED BY <2>1, <2>2, <2>4, <2>5 DEF IInv, PhaseInv, SeenInv, OwnInv, RestoreInv,
                                        UnsetIsKept, RestoredExactly
<1>10. CASE End
  <2>1. /\ phase = "restore" /\ todo = << >> /\ phase' = "closed"
        /\ UNCHANGED <<job, adjustable, wheel, own, version, original, pressed, clean, todo, seen>>
    BY <1>10 DEF End
  <2>2. original # NoStatus => /\ StateRestored
                               /\ clean => wheel.torque = own.torque
    <3>1. original # NoStatus => original \in Wheel
      BY DEF IInv, TypeOK, Status
    <3> QED BY <2>1, <3>1, RestorersShape DEF IInv, RestoreInv
  <2>3. seen = NoStatus
    BY <2>1 DEF IInv, SeenInv
  <2>4. RestoredExactly'
    BY <2>1, <2>2 DEF IInv, OwnInv, StateRestored, RestoredExactly
  <2> QED BY <2>1, <2>3, <2>4 DEF IInv, TypeOK, PhaseInv, SeenInv, OwnInv, RestoreInv,
                                  UnsetIsKept
<1>11. CASE Press
  <2>1. /\ wheel' = Flip(wheel) /\ own' = Flip(own) /\ pressed' = TRUE
        /\ UNCHANGED <<job, adjustable, version, phase, todo, seen, original, clean>>
        /\ phase # "closed"
    BY <1>11 DEF Press
  <2>2. wheel \in Wheel /\ own \in Wheel
    BY DEF IInv, TypeOK
  <2>3. \A w \in Wheel : /\ Flip(w) \in Wheel /\ Flip(w).threshold = w.threshold
                         /\ Flip(w).torque = w.torque
                         /\ Flip(w).mode = IF w.mode = FreeSpin THEN Ratchet ELSE FreeSpin
    BY DEF Flip, Wheel
  <2>4. TypeOK'
    BY <2>1, <2>2, <2>3 DEF IInv, TypeOK
  <2>5. PhaseInv' /\ SeenInv' /\ OwnInv'
    BY <2>1, <2>2, <2>3 DEF IInv, PhaseInv, SeenInv, OwnInv, Unsupported
  <2>6. StateRestored => StateRestored'
    BY <2>1, <2>2, <2>3 DEF StateRestored
  <2>7. Restorers(original)' = Restorers(original)
        /\ SetTorque(original.torque)' = SetTorque(original.torque)
    BY <2>1 DEF Restorers, SetStatus, SetTorque, Setter
  <2>8. RestoreInv'
    BY <2>1, <2>2, <2>3, <2>6, <2>7 DEF IInv, RestoreInv
  <2>9. UnsetIsKept' /\ RestoredExactly'
    BY <2>1, <2>2, <2>3 DEF IInv, UnsetIsKept, RestoredExactly
  <2> QED BY <2>4, <2>5, <2>8, <2>9 DEF IInv
<1>12. CASE UNCHANGED vars
  BY <1>12 DEF vars, IInv, TypeOK, PhaseInv, SeenInv, Unsupported, OwnInv, RestoreInv, Restorers,
               SetStatus, SetTorque, Setter, StateRestored, UnsetIsKept, RestoredExactly
<1> QED BY <1>1, <1>3, <1>4, <1>5, <1>6, <1>7, <1>8, <1>9, <1>10, <1>11, <1>12 DEF Next

LEMMA InitInv == Init => IInv
<1> SUFFICES ASSUME Init PROVE IInv
  OBVIOUS
<1>1. wheel \in Wheel /\ own = wheel
  <2>1. Wheels \subseteq Wheel
    <3>1. Threshold \subseteq 1..255 /\ Torque \subseteq 0..255
      BY FeatureClientsAssumption
    <3> SUFFICES ASSUME NEW w \in Wheels
                 PROVE  w \in Wheel
      OBVIOUS
    <3>2. /\ w = [mode |-> w.mode, threshold |-> w.threshold, torque |-> w.torque]
          /\ w.mode \in {FreeSpin, Ratchet} /\ w.threshold \in Threshold /\ w.torque \in Torque
      BY DEF Wheels
    <3>3. w.threshold \in 1..255 /\ w.torque \in 0..255
      BY <3>1, <3>2
    <3> QED BY <3>2, <3>3 DEF Wheel
  <2> QED BY <2>1 DEF Init
<1>2. << >> \in Seq(SetterSet)
  BY EmptySeq
<1> QED BY <1>1, <1>2 DEF Init, IInv, TypeOK, Status, PhaseInv, SeenInv, OwnInv, RestoreInv,
                          UnsetIsKept, RestoredExactly

\* The invariant holds in every state the client reaches.
THEOREM Invariance == Spec => []IInv
  BY InitInv, StepInv, PTL DEF Spec

\* Every variable keeps its type, whatever is configured and whatever is lost.
THEOREM TypeCorrect == Spec => []TypeOK
<1>1. IInv => TypeOK
  BY DEF IInv
<1> QED BY <1>1, Invariance, PTL

\* For every configuration: a field that it does not mention stays what the user
\* has it until the cleanup, however often the button is pressed and whichever
\* exchanges are lost.
THEOREM UnsetIsNotWritten == Spec => []UnsetIsKept
<1>1. IInv => UnsetIsKept
  BY DEF IInv
<1> QED BY <1>1, Invariance, PTL

\* A cleanup of which no step failed restores what it found, wherever Apply
\* stopped and whatever the user did meanwhile.
THEOREM CleanupIsExact == Spec => []RestoredExactly
<1>1. IInv => RestoredExactly
  BY DEF IInv
<1> QED BY <1>1, Invariance, PTL

-----------------------------------------------------------------------------
(* Induction: the library's theorems about it take an operator, so it is     *)
(* stated here of a set of numbers.                                          *)

LEMMA LeastOf ==
  ASSUME NEW S \in SUBSET Nat, S # {}
  PROVE  \E n \in S : \A m \in S : n <= m
<1> DEFINE less == {p \in Nat \X Nat : p[1] < p[2]}
<1>1. less = OpToRel(<, Nat)
  BY DEF OpToRel
<1>2. IsWellFoundedOn(less, Nat)
  BY <1>1, NatLessThanWellFounded
<1> HIDE DEF less
<1>3. \E n \in S : \A m \in S : <<m, n>> \notin less
  BY <1>2, WFMin
<1>4. \A m, n \in S : <<m, n>> \notin less => n <= m
  BY DEF less
<1> QED BY <1>3, <1>4

LEMMA Induction ==
  ASSUME NEW S, 0 \in S, \A n \in Nat : n \in S => n + 1 \in S
  PROVE  Nat \subseteq S
<1> SUFFICES ASSUME Nat \ S # {}
             PROVE  FALSE
  OBVIOUS
<1>1. PICK n \in Nat \ S : \A m \in Nat \ S : n <= m
  BY LeastOf
<1>2. n # 0 /\ n - 1 \in Nat /\ ~(n <= n - 1)
  BY <1>1
<1>3. n - 1 \in S
  BY <1>1, <1>2
<1>4. n - 1 + 1 \in S
  BY <1>2, <1>3
<1> QED BY <1>1, <1>4

-----------------------------------------------------------------------------
(* Recursive functions over a sequence *)

\* What g[n] is follows from g[n - 1] by the step G[n].
Follows(g, G, b, T) ==
  /\ g \in [0..Len(G) -> T]
  /\ g[0] = b
  /\ \A n \in 1..Len(G) : g[n] = G[n][g[n - 1]]

\* There is such a function, whatever the steps are.
LEMMA Recursion ==
  ASSUME NEW T, NEW b \in T, NEW G \in Seq([T -> T])
  PROVE  \E g : Follows(g, G, b, T)
<1> DEFINE N == Len(G)
<1>0. N \in Nat /\ G \in [1..N -> [T -> T]]
  BY LenProperties
<1> HIDE DEF N
<1> DEFINE Up(k, g) == /\ g \in [0..k -> T]
                       /\ g[0] = b /\ \A n \in 1..k : g[n] = G[n][g[n - 1]]
           S == {k \in Nat : k <= N => \E g : Up(k, g)}
<1>1. 0 \in S
  <2>1. Up(0, [n \in 0..0 |-> b])
    OBVIOUS
  <2> QED BY <2>1
<1>2. ASSUME NEW k \in Nat, k \in S
      PROVE  k + 1 \in S
  <2> SUFFICES ASSUME k + 1 <= N
               PROVE  \E g : Up(k + 1, g)
    OBVIOUS
  <2>1. PICK g : Up(k, g)
    <3>1. k <= N
      BY <1>0
    <3> HIDE DEF Up
    <3> QED BY <1>2, <3>1
  <2>2. g[k] \in T /\ G[k + 1] \in [T -> T]
    BY <1>0, <2>1
  <2>3. G[k + 1][g[k]] \in T
    BY <2>2
  <2> DEFINE h == [n \in 0..k + 1 |-> IF n = k + 1 THEN G[k + 1][g[k]] ELSE g[n]]
  <2>4. h \in [0..k + 1 -> T]
    BY <2>1, <2>3
  <2>5. /\ h[0] = g[0] /\ h[k + 1] = G[k + 1][g[k]]
        /\ \A n \in 1..k : h[n] = g[n] /\ h[n - 1] = g[n - 1]
        /\ h[k] = g[k]
    OBVIOUS
  <2> HIDE DEF h
  <2>6. Up(k + 1, h)
    <3>1. \A n \in 1..k + 1 : n = k + 1 \/ n \in 1..k
      OBVIOUS
    <3>2. k + 1 - 1 = k
      OBVIOUS
    <3> QED BY <2>1, <2>4, <2>5, <3>1, <3>2
  <2> HIDE DEF Up
  <2> QED BY <2>6
<1> HIDE DEF S
<1>3. N \in S
  BY <1>0, <1>1, <1>2, Induction
<1>4. PICK g : Up(N, g)
  <2> HIDE DEF Up
  <2> QED BY <1>0, <1>3 DEF S
<1> QED BY <1>4 DEF Follows, N

\* And only one, as far as both of them go.
LEMMA SameRecursion ==
  ASSUME NEW X, NEW s \in Seq(X), NEW f, NEW g, f[0] = g[0],
         \A n \in 1..Len(s) : f[n - 1] = g[n - 1] => f[n] = g[n]
  PROVE  \A n \in 0..Len(s) : f[n] = g[n]
<1> DEFINE N == Len(s)
           S == {n \in Nat : n <= N => f[n] = g[n]}
<1>0. N \in Nat
  BY LenProperties
<1>1. 0 \in S
  OBVIOUS
<1> HIDE DEF N
<1>2. ASSUME NEW n \in Nat, n \in S
      PROVE  n + 1 \in S
  <2>1. n + 1 - 1 = n
    OBVIOUS
  <2>2. n + 1 <= N => n + 1 \in 1..N /\ n <= N
    BY <1>0
  <2> QED BY <1>2, <2>1, <2>2 DEF N
<1> HIDE DEF S
<1>3. Nat \subseteq S
  BY <1>1, <1>2, Induction
<1> QED BY <1>0, <1>3 DEF S, N

-----------------------------------------------------------------------------
(* Sequences and their members *)

LEMMA MembersOf ==
  ASSUME NEW X, NEW s \in Seq(X)
  PROVE  /\ DOMAIN s = 1..Len(s) /\ Len(s) \in Nat
         /\ ToSet(s) = {s[i] : i \in 1..Len(s)} /\ ToSet(s) \subseteq X
<1>1. DOMAIN s = 1..Len(s) /\ Len(s) \in Nat /\ \A i \in 1..Len(s) : s[i] \in X
  BY LenProperties
<1> QED BY <1>1 DEF ToSet

LEMMA MembersOfConcat ==
  ASSUME NEW X, NEW s \in Seq(X), NEW t \in Seq(X)
  PROVE  ToSet(s \o t) = ToSet(s) \cup ToSet(t)
<1>1. /\ s \o t \in Seq(X) /\ Len(s \o t) = Len(s) + Len(t)
      /\ \A i \in 1..(Len(s) + Len(t)) :
           (s \o t)[i] = IF i <= Len(s) THEN s[i] ELSE t[i - Len(s)]
  BY ConcatProperties
<1>2. /\ Len(s) \in Nat /\ ToSet(s) = {s[i] : i \in 1..Len(s)}
      /\ Len(t) \in Nat /\ ToSet(t) = {t[i] : i \in 1..Len(t)}
      /\ ToSet(s \o t) = {(s \o t)[i] : i \in 1..(Len(s) + Len(t))}
  BY <1>1, MembersOf
<1>3. \A i \in 1..Len(s) : i \in 1..(Len(s) + Len(t)) /\ (s \o t)[i] = s[i]
  BY <1>1, <1>2
<1>4. \A i \in 1..Len(t) : i + Len(s) \in 1..(Len(s) + Len(t)) /\ (s \o t)[i + Len(s)] = t[i]
  <2>1. \A i \in 1..Len(t) : /\ i + Len(s) \in 1..(Len(s) + Len(t)) /\ ~(i + Len(s) <= Len(s))
                             /\ i + Len(s) - Len(s) = i
    BY <1>2
  <2> QED BY <1>1, <2>1
<1>5. \A i \in 1..(Len(s) + Len(t)) :
        \/ i \in 1..Len(s) /\ (s \o t)[i] = s[i]
        \/ i - Len(s) \in 1..Len(t) /\ (s \o t)[i] = t[i - Len(s)]
  BY <1>1, <1>2
<1>6. \A i \in 1..(Len(s) + Len(t)) : (s \o t)[i] \in ToSet(s) \cup ToSet(t)
  BY <1>2, <1>5
<1>7. \A i \in 1..Len(s) : s[i] \in ToSet(s \o t)
  BY <1>2, <1>3
<1>8. \A i \in 1..Len(t) : t[i] \in ToSet(s \o t)
  BY <1>2, <1>4
<1> QED BY <1>2, <1>6, <1>7, <1>8

-----------------------------------------------------------------------------
(* The values of a range *)

LEMMA RangeIsSeq ==
  ASSUME NEW low \in Nat, NEW step \in Nat \ {0}, NEW high \in Nat, low < high
  PROVE  /\ (high - low) \div step \in Nat
         /\ RangeFrom(low, step, high) \in Seq(Nat)
         /\ Len(RangeFrom(low, step, high)) = (high - low) \div step
<1> DEFINE q == (high - low) \div step
           e(i) == low + i * step
<1>1. q \in Nat
  OBVIOUS
<1>2. \A i \in 1..q : e(i) \in Nat
  BY <1>1
<1>3. RangeFrom(low, step, high) = [i \in 1..q |-> e(i)]
  BY DEF RangeFrom
<1> HIDE DEF q
<1>4. [i \in 1..q |-> e(i)] \in [1..q -> Nat]
  BY <1>2
<1>5. [i \in 1..q |-> e(i)] \in Seq(Nat) /\ Len([i \in 1..q |-> e(i)]) = q
  BY <1>1, <1>4
<1> QED BY <1>1, <1>3, <1>5 DEF q

LEMMA Widths == RangeMark \in Nat \ {0} /\ MaxStep \in Nat \ {0} /\ MaxWord \in Nat \ {0}
  BY DEF RangeMark, MaxStep, MaxWord

LEMMA EntryFields ==
  ASSUME NEW entry \in Entry
  PROVE  /\ entry.low \in Nat \ {0} /\ entry.low < RangeMark
         /\ entry.step \in Nat \ {0} /\ entry.high \in Nat \ {0}
         /\ (entry.high - entry.low) \div entry.step \in Int
         /\ entry.high < entry.low => (entry.high - entry.low) \div entry.step < 0
         /\ entry.low <= entry.high => (entry.high - entry.low) \div entry.step \in Nat
         /\ entry.low = entry.high => (entry.high - entry.low) \div entry.step = 0
<1>1. /\ entry.low \in Nat \ {0} /\ entry.low < RangeMark
      /\ entry.step \in Nat \ {0} /\ entry.high \in Nat \ {0}
  BY Widths DEF Entry
<1>2. \A d \in Int, s \in Nat \ {0} : /\ d \div s \in Int
                                      /\ d < 0 => d \div s < 0
                                      /\ d >= 0 => d \div s \in Nat
                                      /\ d = 0 => d \div s = 0
  OBVIOUS
<1> DEFINE d == entry.high - entry.low
<1>3. /\ d \in Int
      /\ entry.high < entry.low => d < 0
      /\ entry.low <= entry.high => d >= 0
      /\ entry.low = entry.high => d = 0
  BY <1>1
<1> HIDE DEF d
<1>4. /\ d \div entry.step \in Int
      /\ entry.high < entry.low => d \div entry.step < 0
      /\ entry.low <= entry.high => d \div entry.step \in Nat
      /\ entry.low = entry.high => d \div entry.step = 0
  BY <1>1, <1>2, <1>3
<1> QED BY <1>1, <1>4 DEF d

\* A range has as many values as it has steps, and one.
LEMMA ValuesCount ==
  ASSUME NEW entry \in Entry
  PROVE  /\ Cardinality(Values(entry)) \in Nat
         /\ entry.low <= entry.high =>
              /\ Cardinality(Values(entry)) = (entry.high - entry.low) \div entry.step + 1
              /\ Values(entry) # {} /\ Values(entry) \subseteq Nat \ {0}
<1> DEFINE q == (entry.high - entry.low) \div entry.step
           f == [i \in 0..q |-> entry.low + i * entry.step]
<1>1. /\ entry.low \in Nat \ {0} /\ entry.step \in Nat \ {0} /\ q \in Int
      /\ entry.high < entry.low => q < 0
      /\ entry.low <= entry.high => q \in Nat
  BY EntryFields
<1>2. entry.high \in Int
  BY EntryFields
<1>5. Values(entry) = {entry.low + i * entry.step : i \in 0..q}
  BY DEF Values
<1> HIDE DEF q
<1>3. CASE entry.high < entry.low
  <2>1. Values(entry) = {}
    BY <1>1, <1>3, <1>5
  <2> QED BY <1>1, <1>2, <1>3, <2>1, FS_EmptySet
<1>4. CASE entry.low <= entry.high
  <2>1. \A i \in 0..q : i * entry.step \in Nat /\ entry.low + i * entry.step \in Nat \ {0}
    BY <1>1, <1>4
  <2>2. ASSUME NEW i \in 0..q, NEW j \in 0..q, i < j
        PROVE  i * entry.step < j * entry.step
    <3>1. i \in Int /\ j \in Int /\ j - i \in Nat \ {0}
      BY <1>1, <1>4, <2>2
    <3>2. \A a, b \in Int : \A c \in Nat \ {0} : (b - a) * c = b * c - a * c
      OBVIOUS
    <3>3. \A a, c \in Nat \ {0} : a * c > 0
      OBVIOUS
    <3> QED BY <1>1, <3>1, <3>2, <3>3
  <2>3. f \in Bijection(0..q, Values(entry))
    <3>1. f \in [0..q -> Values(entry)]
      BY <1>5
    <3>2. \A i, j \in 0..q : f[i] = f[j] => i = j
      <4>1. ASSUME NEW i \in 0..q, NEW j \in 0..q, f[i] = f[j], i # j
            PROVE  FALSE
        <5>1. i * entry.step = j * entry.step
          <6>1. entry.low + i * entry.step = entry.low + j * entry.step
            BY <4>1
          <6>2. \A a, b, c \in Nat : c + a = c + b => a = b
            OBVIOUS
          <6> QED BY <1>1, <2>1, <4>1, <6>1, <6>2
        <5>2. i < j \/ j < i
          BY <1>1, <1>4, <4>1
        <5> QED BY <1>1, <2>1, <2>2, <5>1, <5>2
      <4> QED BY <4>1
    <3>3. \A v \in Values(entry) : \E i \in 0..q : f[i] = v
      BY <1>5
    <3> HIDE DEF f
    <3> QED BY <3>1, <3>2, <3>3, Fun_IsBij
  <2>4. ExistsBijection(0..q, Values(entry))
    BY <2>3 DEF ExistsBijection
  <2>5. IsFiniteSet(0..q) /\ Cardinality(0..q) = q + 1
    <3>1. 0 \in Int /\ q \in Int /\ ~(0 > q) /\ q - 0 + 1 = q + 1
      BY <1>1, <1>4
    <3> QED BY <3>1, FS_Interval
  <2>6. Cardinality(Values(entry)) = q + 1
    BY <2>4, <2>5, FS_Bijection
  <2>7. entry.low + 0 * entry.step \in Values(entry)
    BY <1>1, <1>4, <1>5
  <2>8. Values(entry) \subseteq Nat \ {0}
    BY <1>5, <2>1
  <2> QED BY <1>1, <1>4, <2>6, <2>7, <2>8 DEF q
<1> QED BY <1>1, <1>2, <1>3, <1>4

-----------------------------------------------------------------------------
(* Decoding a list word by word *)

Decoded ==
  {list \in [values : Seq(Nat), step : Nat, end : {"open", "complete", "malformed"}] :
     list.step # 0 => list.values # << >>}

\* The step that follows what has been decoded.
LEMMA WordStep ==
  ASSUME NEW list \in Decoded, NEW word \in Nat
  PROVE  DecodeWord(list, word) \in Decoded
<1>1. /\ list \in [values : Seq(Nat), step : Nat, end : {"open", "complete", "malformed"}]
      /\ list = [values |-> list.values, step |-> list.step, end |-> list.end]
      /\ list.values \in Seq(Nat) /\ list.step \in Nat
      /\ list.end \in {"open", "complete", "malformed"}
      /\ list.step # 0 => list.values # << >>
  BY DEF Decoded
<1>2. Malformed \in Decoded
  BY EmptySeq DEF Malformed, Decoded
<1>3. ASSUME NEW values \in Seq(Nat)
      PROVE  Extend(list, values) \in Decoded
  <2>1. list.values \o values \in Seq(Nat)
    BY <1>1, ConcatProperties
  <2>2. [values |-> list.values \o values, step |-> 0, end |-> list.end] \in Decoded
    BY <1>1, <2>1 DEF Decoded
  <2> QED BY <1>2, <2>2 DEF Extend
<1>4. CASE list.end # "open"
  BY <1>4 DEF DecodeWord
<1>5. CASE list.end = "open" /\ list.step # 0
  <2>1. /\ DecodeWord(list, word) = CloseRange(list, word)
        /\ list.step \in Nat \ {0}
    BY <1>1, <1>5 DEF DecodeWord
  <2>2. Len(list.values) \in Nat /\ Len(list.values) # 0
    BY <1>1, <1>5, EmptySeq
  <2>3. Last(list.values) \in Nat
    BY <1>1, <2>2 DEF Last
  <2>4. ASSUME Last(list.values) < word
        PROVE  RangeFrom(Last(list.values), list.step, word) \in Seq(Nat)
    BY <2>1, <2>3, <2>4, RangeIsSeq
  <2> QED BY <1>2, <1>3, <2>1, <2>3, <2>4 DEF CloseRange
<1>6. CASE list.end = "open" /\ list.step = 0 /\ word = 0
  <2>1. DecodeWord(list, word) = [list EXCEPT !.end = "complete"]
    BY <1>1, <1>6 DEF DecodeWord, IsStep, RangeMark
  <2> QED BY <1>1, <1>6, <2>1 DEF Decoded
<1>7. CASE list.end = "open" /\ list.step = 0 /\ word # 0 /\ IsStep(word)
  <2>1. DecodeWord(list, word) = OpenRange(list, word)
    BY <1>7 DEF DecodeWord
  <2>2. StepOf(word) \in Nat
    BY <1>7 DEF IsStep, StepOf, RangeMark
  <2> QED BY <1>1, <1>2, <2>1, <2>2 DEF OpenRange, Decoded
<1>8. CASE list.end = "open" /\ list.step = 0 /\ word # 0 /\ ~IsStep(word)
  <2>1. DecodeWord(list, word) = Extend(list, <<word>>)
    BY <1>8 DEF DecodeWord
  <2>2. <<word>> \in Seq(Nat)
    OBVIOUS
  <2> QED BY <1>3, <2>1, <2>2
<1> QED BY <1>4, <1>5, <1>6, <1>7, <1>8

\* What has been decoded after each word.
LEMMA DecodeTrace ==
  ASSUME NEW words \in Seq(Nat)
  PROVE  \E list :
           /\ list \in [0..Len(words) -> Decoded] /\ list[0] = Nothing
           /\ \A n \in 1..Len(words) : list[n] = DecodeWord(list[n - 1], words[n])
           /\ decodeDPIList(words) = list[Len(words)]
<1> DEFINE N == Len(words)
           G == [n \in 1..N |-> [list \in Decoded |-> DecodeWord(list, words[n])]]
           Rec(g) == g = [n \in 0..N |-> IF n = 0 THEN Nothing ELSE DecodeWord(g[n - 1], words[n])]
<1>1. N \in Nat /\ \A n \in 1..N : words[n] \in Nat
  BY LenProperties
<1>2. Nothing \in Decoded
  BY EmptySeq DEF Nothing, Decoded
<1>3. G \in Seq([Decoded -> Decoded]) /\ Len(G) = N
  <2>1. G \in [1..N -> [Decoded -> Decoded]]
    BY <1>1, WordStep
  <2> HIDE DEF G
  <2> QED BY <1>1, <2>1
<1>4. \A n \in 1..N : \A list \in Decoded : G[n][list] = DecodeWord(list, words[n])
  OBVIOUS
<1> HIDE DEF G
<1>5. PICK g : /\ g \in [0..N -> Decoded]
               /\ g[0] = Nothing /\ \A n \in 1..N : g[n] = G[n][g[n - 1]]
  <2>1. \E g : Follows(g, G, Nothing, Decoded)
    BY <1>2, <1>3, Recursion
  <2> QED BY <1>3, <2>1 DEF Follows
<1>6. g[0] = Nothing /\ \A n \in 1..N : g[n] = DecodeWord(g[n - 1], words[n])
  <2>1. \A n \in 1..N : g[n] = G[n][g[n - 1]] /\ g[n - 1] \in Decoded
    BY <1>1, <1>5
  <2> QED BY <1>4, <1>5, <2>1
<1>7. Rec(g)
  <2>1. g = [n \in 0..N |-> g[n]]
    BY <1>5
  <2>2. \A n \in 0..N : n = 0 \/ n \in 1..N
    BY <1>1
  <2>3. \A n \in 0..N : g[n] = IF n = 0 THEN Nothing ELSE DecodeWord(g[n - 1], words[n])
    BY <1>6, <2>2
  <2> QED BY <2>1, <2>3
<1>8. ASSUME NEW f, Rec(f)
      PROVE  f[N] = g[N]
  <2>1. f[0] = g[0]
    BY <1>1, <1>6, <1>8
  <2>2. ASSUME NEW n \in 1..N, f[n - 1] = g[n - 1]
        PROVE  f[n] = g[n]
    <3>1. n \in 0..N /\ n # 0
      BY <1>1
    <3>2. f[n] = DecodeWord(f[n - 1], words[n])
      BY <1>8, <3>1
    <3> QED BY <1>6, <2>2, <3>2
  <2> HIDE DEF Rec, G
  <2>3. \A n \in 1..Len(words) : f[n - 1] = g[n - 1] => f[n] = g[n]
    BY <2>2
  <2> HIDE DEF N
  <2>4. \A n \in 0..Len(words) : f[n] = g[n]
    BY <2>1, <2>3, SameRecursion
  <2> QED BY <1>1, <2>4 DEF N
<1>9. decodeDPIList(words) = (CHOOSE f : Rec(f))[N]
  BY DEF decodeDPIList
<1> HIDE DEF Rec
<1>10. decodeDPIList(words) = g[N]
  BY <1>7, <1>8, <1>9
<1> QED BY <1>5, <1>6, <1>10

LEMMA DecodeNone == decodeDPIList(<< >>) = Nothing
<1>1. << >> \in Seq(Nat) /\ Len(<< >>) = 0
  BY EmptySeq
<1> QED BY <1>1, DecodeTrace

\* A word more is a step more.
LEMMA DecodeAppend ==
  ASSUME NEW words \in Seq(Nat), NEW word \in Nat
  PROVE  /\ decodeDPIList(words) \in Decoded
         /\ decodeDPIList(Append(words, word)) = DecodeWord(decodeDPIList(words), word)
<1>1. /\ Append(words, word) \in Seq(Nat) /\ Len(Append(words, word)) = Len(words) + 1
      /\ Len(words) \in Nat
      /\ \A n \in 1..Len(words) : Append(words, word)[n] = words[n]
      /\ Append(words, word)[Len(words) + 1] = word
  BY AppendProperties, LenProperties
<1>2. PICK f :
        /\ f \in [0..Len(words) -> Decoded] /\ f[0] = Nothing
        /\ \A n \in 1..Len(words) : f[n] = DecodeWord(f[n - 1], words[n])
        /\ decodeDPIList(words) = f[Len(words)]
  BY DecodeTrace
<1>3. PICK g :
        /\ g \in [0..Len(words) + 1 -> Decoded] /\ g[0] = Nothing
        /\ \A n \in 1..Len(words) + 1 : g[n] = DecodeWord(g[n - 1], Append(words, word)[n])
        /\ decodeDPIList(Append(words, word)) = g[Len(words) + 1]
  <2>1. \E g :
          /\ g \in [0..Len(Append(words, word)) -> Decoded] /\ g[0] = Nothing
          /\ \A n \in 1..Len(Append(words, word)) :
               g[n] = DecodeWord(g[n - 1], Append(words, word)[n])
          /\ decodeDPIList(Append(words, word)) = g[Len(Append(words, word))]
    BY <1>1, DecodeTrace
  <2> QED BY <1>1, <2>1
<1>4. ASSUME NEW n \in 1..Len(words), g[n - 1] = f[n - 1]
      PROVE  g[n] = f[n]
  <2>1. n \in 1..Len(words) + 1
    BY <1>1
  <2> QED BY <1>1, <1>2, <1>3, <1>4, <2>1
<1>5. f[Len(words)] = g[Len(words)]
  <2>1. g[0] = f[0]
    BY <1>2, <1>3
  <2>2. \A n \in 0..Len(words) : g[n] = f[n]
    BY <1>4, <2>1, SameRecursion
  <2> QED BY <1>1, <2>2
<1>6. g[Len(words) + 1] = DecodeWord(g[Len(words) + 1 - 1], word)
  BY <1>1, <1>3
<1>7. Len(words) + 1 - 1 = Len(words)
  BY <1>1
<1> QED BY <1>1, <1>2, <1>3, <1>5, <1>6, <1>7

-----------------------------------------------------------------------------
(* Decoding the words of one range *)

\* A list of which a whole number of ranges has been decoded.
Open(values) == [values |-> values, step |-> 0, end |-> "open"]

LEMMA LowStep ==
  ASSUME NEW values \in Seq(Nat), NEW low \in Nat \ {0}, low < RangeMark
  PROVE  DecodeWord(Open(values), low) =
           IF Len(values) + 1 > MaxValues THEN Malformed ELSE Open(values \o <<low>>)
<1>1. DecodeWord(Open(values), low) = Extend(Open(values), <<low>>)
  BY Widths DEF DecodeWord, Open, IsStep
<1>2. Len(<<low>>) = 1
  OBVIOUS
<1> QED BY <1>1, <1>2 DEF Extend, Open

LEMMA MarkStep ==
  ASSUME NEW values \in Seq(Nat), values # << >>, NEW step \in Nat \ {0}
  PROVE  DecodeWord(Open(values), RangeMark + step) =
           [values |-> values, step |-> step, end |-> "open"]
<1>1. /\ IsStep(RangeMark + step) /\ StepOf(RangeMark + step) = step
      /\ RangeMark + step # 0
  BY Widths DEF IsStep, StepOf
<1>2. DecodeWord(Open(values), RangeMark + step) = OpenRange(Open(values), RangeMark + step)
  BY <1>1 DEF DecodeWord, Open
<1>3. OpenRange(Open(values), RangeMark + step) = [Open(values) EXCEPT !.step = step]
  BY <1>1 DEF OpenRange, Open
<1> QED BY <1>2, <1>3 DEF Open

LEMMA HighStep ==
  ASSUME NEW values \in Seq(Nat), values # << >>, NEW step \in Nat \ {0}, NEW high \in Nat,
         Last(values) \in Nat
  PROVE  DecodeWord([values |-> values, step |-> step, end |-> "open"], high) =
           IF high <= Last(values)
             \/ Len(values) + Len(RangeFrom(Last(values), step, high)) > MaxValues
             THEN Malformed
             ELSE Open(values \o RangeFrom(Last(values), step, high))
<1> DEFINE list == [values |-> values, step |-> step, end |-> "open"]
<1>1. list.values = values /\ list.step = step /\ list.end = "open"
  OBVIOUS
<1> HIDE DEF list
<1>2. DecodeWord(list, high) = CloseRange(list, high)
  BY <1>1 DEF DecodeWord
<1>3. CASE high <= Last(values)
  BY <1>1, <1>2, <1>3 DEF CloseRange, list
<1>4. CASE ~(high <= Last(values))
  <2>1. DecodeWord(list, high) = Extend(list, RangeFrom(Last(values), step, high))
    BY <1>1, <1>2, <1>4 DEF CloseRange
  <2> QED BY <1>1, <1>4, <2>1 DEF Extend, Open, list
<1> QED BY <1>3, <1>4

LEMMA MalformedStays == \A word : DecodeWord(Malformed, word) = Malformed
  BY DEF DecodeWord, Malformed

\* The words of a range are one or three.
LEMMA EncodingWords ==
  ASSUME NEW words \in Seq(Nat), NEW entry \in Entry
  PROVE  /\ \A i \in 1..Len(Encoding(entry)) : Encoding(entry)[i] \in Nat \ {0}
         /\ Encoding(entry) \in Seq(Nat) /\ words \o Encoding(entry) \in Seq(Nat)
         /\ Append(words, entry.low) \in Seq(Nat)
         /\ entry.low = entry.high =>
              words \o Encoding(entry) = Append(words, entry.low)
         /\ entry.low # entry.high =>
              /\ Append(Append(words, entry.low), RangeMark + entry.step) \in Seq(Nat)
              /\ words \o Encoding(entry) =
                   Append(Append(Append(words, entry.low), RangeMark + entry.step), entry.high)
<1> DEFINE a == entry.low
           b == RangeMark + entry.step
           c == entry.high
<1>1. a \in Nat \ {0} /\ b \in Nat \ {0} /\ c \in Nat \ {0}
  BY EntryFields, Widths
<1>2. Encoding(entry) = IF a = c THEN <<a>> ELSE <<a, b, c>>
  BY DEF Encoding
<1> HIDE DEF a, b, c
<1>3. /\ <<a>> \in Seq(Nat) /\ <<a, b, c>> \in Seq(Nat)
      /\ <<b>> \in Seq(Nat) /\ <<c>> \in Seq(Nat)
      /\ <<a, b, c>> = <<a>> \o <<b>> \o <<c>>
      /\ \A i \in 1..Len(<<a>>) : <<a>>[i] \in Nat \ {0}
      /\ \A i \in 1..Len(<<a, b, c>>) : <<a, b, c>>[i] \in Nat \ {0}
  <2>1. /\ <<a>> \in Seq(Nat) /\ <<a, b, c>> \in Seq(Nat)
        /\ <<b>> \in Seq(Nat) /\ <<c>> \in Seq(Nat)
    BY <1>1
  <2>2. <<a, b, c>> = <<a>> \o <<b>> \o <<c>>
    <3> DEFINE A == <<a>>
               B == <<b>>
               C == <<c>>
    <3>1. /\ A \in Seq(Nat) /\ B \in Seq(Nat) /\ C \in Seq(Nat)
          /\ Len(A) = 1 /\ Len(B) = 1 /\ Len(C) = 1 /\ A[1] = a /\ B[1] = b /\ C[1] = c
      BY <1>1
    <3>2. <<a, b, c>> \in Seq(Nat) /\ Len(<<a, b, c>>) = 3
          /\ <<a, b, c>>[1] = a /\ <<a, b, c>>[2] = b /\ <<a, b, c>>[3] = c
      BY <1>1
    <3> HIDE DEF A, B, C
    <3>3. A \o B \in Seq(Nat) /\ Len(A \o B) = 2 /\ (A \o B)[1] = a /\ (A \o B)[2] = b
      <4>1. /\ A \o B \in Seq(Nat) /\ Len(A \o B) = Len(A) + Len(B)
            /\ \A i \in 1..(Len(A) + Len(B)) :
                 (A \o B)[i] = IF i <= Len(A) THEN A[i] ELSE B[i - Len(A)]
        BY <3>1, ConcatProperties
      <4>2. 1 \in 1..(Len(A) + Len(B)) /\ 2 \in 1..(Len(A) + Len(B)) /\ 2 - Len(A) = 1
        BY <3>1
      <4> QED BY <3>1, <4>1, <4>2
    <3>4. A \o B \o C \in Seq(Nat) /\ Len(A \o B \o C) = 3
          /\ (A \o B \o C)[1] = a /\ (A \o B \o C)[2] = b /\ (A \o B \o C)[3] = c
      <4> DEFINE AB == A \o B
      <4>1. AB \in Seq(Nat) /\ Len(AB) = 2 /\ AB[1] = a /\ AB[2] = b
        BY <3>3
      <4> HIDE DEF AB
      <4>2. /\ AB \o C \in Seq(Nat) /\ Len(AB \o C) = Len(AB) + Len(C)
            /\ \A i \in 1..(Len(AB) + Len(C)) :
                 (AB \o C)[i] = IF i <= Len(AB) THEN AB[i] ELSE C[i - Len(AB)]
        BY <3>1, <4>1, ConcatProperties
      <4>3. /\ 1 \in 1..(Len(AB) + Len(C)) /\ 2 \in 1..(Len(AB) + Len(C))
            /\ 3 \in 1..(Len(AB) + Len(C)) /\ 3 - Len(AB) = 1
        BY <3>1, <4>1
      <4>4. Len(AB \o C) = 3 /\ (AB \o C)[1] = a /\ (AB \o C)[2] = b /\ (AB \o C)[3] = c
        BY <3>1, <4>1, <4>2, <4>3
      <4> QED BY <4>2, <4>4 DEF AB
    <3>5. \A i \in 1..3 : <<a, b, c>>[i] = (A \o B \o C)[i]
      <4>1. \A i \in 1..3 : i = 1 \/ i = 2 \/ i = 3
        OBVIOUS
      <4> QED BY <3>2, <3>4, <4>1
    <3>6. <<a, b, c>> = A \o B \o C
      BY <3>2, <3>4, <3>5, SeqEqual
    <3> QED BY <3>6 DEF A, B, C
  <2>3. /\ Len(<<a>>) = 1 /\ <<a>>[1] = a
        /\ Len(<<a, b, c>>) = 3
        /\ <<a, b, c>>[1] = a /\ <<a, b, c>>[2] = b /\ <<a, b, c>>[3] = c
    OBVIOUS
  <2>4. /\ \A i \in 1..1 : i = 1
        /\ \A i \in 1..3 : i = 1 \/ i = 2 \/ i = 3
    OBVIOUS
  <2>5. \A i \in 1..Len(<<a>>) : <<a>>[i] \in Nat \ {0}
    BY <1>1, <2>3, <2>4
  <2>6. \A i \in 1..Len(<<a, b, c>>) : <<a, b, c>>[i] \in Nat \ {0}
    BY <1>1, <2>3, <2>4
  <2> QED BY <2>1, <2>2, <2>5, <2>6
<1>4. \A s \in Seq(Nat), x \in Nat : Append(s, x) = s \o <<x>> /\ s \o <<x>> \in Seq(Nat)
  BY AppendIsConcat, AppendProperties
<1>5. /\ words \o <<a>> \in Seq(Nat) /\ words \o <<a>> \o <<b>> \in Seq(Nat)
      /\ words \o <<a>> \o <<b>> \o <<c>> \in Seq(Nat)
  BY <1>1, <1>4
<1>6. words \o <<a, b, c>> = words \o <<a>> \o <<b>> \o <<c>>
  <2>1. <<a>> \o <<b>> \in Seq(Nat)
    BY <1>1, <1>3
  <2>2. words \o (<<a>> \o <<b>> \o <<c>>) = words \o (<<a>> \o <<b>>) \o <<c>>
    BY <1>3, <2>1, ConcatAssociative
  <2>3. words \o (<<a>> \o <<b>>) = words \o <<a>> \o <<b>>
    BY <1>3, ConcatAssociative
  <2> QED BY <1>3, <2>2, <2>3
<1>7. /\ Append(words, a) = words \o <<a>>
      /\ Append(Append(words, a), b) = words \o <<a>> \o <<b>>
      /\ Append(Append(Append(words, a), b), c) = words \o <<a>> \o <<b>> \o <<c>>
  BY <1>1, <1>4, <1>5
<1> QED BY <1>2, <1>3, <1>5, <1>6, <1>7 DEF a, b, c

\* The values of a range, in order, are the ones it advertises.
LEMMA RangeValues ==
  ASSUME NEW entry \in Entry, entry.low < entry.high
  PROVE  /\ Values(entry) = {entry.low} \cup ToSet(RangeFrom(entry.low, entry.step, entry.high))
         /\ RangeFrom(entry.low, entry.step, entry.high) \in Seq(Nat)
         /\ Cardinality(Values(entry)) =
              Len(RangeFrom(entry.low, entry.step, entry.high)) + 1
<1> DEFINE q == (entry.high - entry.low) \div entry.step
           range == RangeFrom(entry.low, entry.step, entry.high)
<1>1. entry.low \in Nat /\ entry.step \in Nat \ {0} /\ entry.high \in Nat
  BY EntryFields
<1>2. q \in Nat /\ range \in Seq(Nat) /\ Len(range) = q
  BY <1>1, RangeIsSeq
<1>3. Cardinality(Values(entry)) = q + 1
  BY <1>1, ValuesCount
<1>4. Values(entry) = {entry.low + i * entry.step : i \in 0..q}
  BY DEF Values
<1>5. range = [i \in 1..q |-> entry.low + i * entry.step]
  BY DEF RangeFrom
<1>6. ToSet(range) = {range[i] : i \in 1..q}
  <2> HIDE DEF range, q
  <2> QED BY <1>2, MembersOf
<1> HIDE DEF range, q
<1>7. ToSet(range) = {entry.low + i * entry.step : i \in 1..q}
  BY <1>5, <1>6
<1>8. entry.low + 0 * entry.step = entry.low
  BY <1>1
<1>9. \A i \in 0..q : i = 0 \/ i \in 1..q
  BY <1>2
<1>10. 0 \in 0..q /\ 1..q \subseteq 0..q
  BY <1>2
<1>11. Values(entry) = {entry.low} \cup ToSet(range)
  BY <1>4, <1>7, <1>8, <1>9, <1>10
<1> QED BY <1>2, <1>3, <1>11 DEF range

\* An open list takes the values of a range that runs forwards if they fit.
LEMMA DecodeEntry ==
  ASSUME NEW words \in Seq(Nat), NEW values \in Seq(Nat), NEW entry \in Entry,
         decodeDPIList(words) = Open(values), Len(values) <= MaxValues
  PROVE  IF entry.low <= entry.high /\ Len(values) + Cardinality(Values(entry)) <= MaxValues
           THEN \E more \in Seq(Nat) :
                  /\ decodeDPIList(words \o Encoding(entry)) = Open(more)
                  /\ Len(more) = Len(values) + Cardinality(Values(entry))
                  /\ ToSet(more) = ToSet(values) \cup Values(entry)
           ELSE decodeDPIList(words \o Encoding(entry)) = Malformed
<1> DEFINE low == entry.low
           step == entry.step
           high == entry.high
           range == RangeFrom(low, step, high)
           one == values \o <<low>>
           w1 == Append(words, low)
           w2 == Append(w1, RangeMark + step)
<1>1. /\ low \in Nat \ {0} /\ step \in Nat \ {0} /\ high \in Nat \ {0} /\ low < RangeMark
      /\ RangeMark + step \in Nat
  BY EntryFields, Widths
<1>2. /\ w1 \in Seq(Nat)
      /\ low = high => words \o Encoding(entry) = w1
      /\ low # high => w2 \in Seq(Nat) /\ words \o Encoding(entry) = Append(w2, high)
  BY EncodingWords
<1>3. Len(values) \in Nat /\ MaxValues \in Nat
  BY DPIListAssumption, LenProperties
<1>4. /\ one \in Seq(Nat) /\ Len(one) = Len(values) + 1 /\ one # << >> /\ Last(one) = low
      /\ ToSet(one) = ToSet(values) \cup {low}
  <2> DEFINE unit == <<low>>
  <2>1. /\ unit \in Seq(Nat) /\ Len(unit) = 1 /\ unit[1] = low
        /\ ToSet(unit) = {low} /\ one = values \o unit
    BY <1>1 DEF ToSet
  <2> HIDE DEF unit, one, low
  <2>2. /\ one \in Seq(Nat) /\ Len(one) = Len(values) + 1
        /\ \A i \in 1..(Len(values) + 1) :
             one[i] = IF i <= Len(values) THEN values[i] ELSE unit[i - Len(values)]
    <3>1. /\ values \o unit \in Seq(Nat)
          /\ Len(values \o unit) = Len(values) + Len(unit)
          /\ \A i \in 1..(Len(values) + Len(unit)) :
               (values \o unit)[i] =
                 IF i <= Len(values) THEN values[i] ELSE unit[i - Len(values)]
      BY <2>1, ConcatProperties
    <3> QED BY <2>1, <3>1
  <2>3. /\ Len(values) + 1 \in 1..(Len(values) + 1) /\ ~(Len(values) + 1 <= Len(values))
        /\ Len(values) + 1 - Len(values) = 1 /\ Len(values) + 1 # 0
    BY <1>3
  <2>4. one[Len(one)] = low
    BY <2>1, <2>2, <2>3
  <2>5. one # << >>
    BY <2>2, <2>3, EmptySeq
  <2>6. ToSet(one) = ToSet(values) \cup {low}
    BY <2>1, MembersOfConcat
  <2> QED BY <2>2, <2>4, <2>5, <2>6 DEF Last
<1> HIDE DEF low, step, high, range, one, w1, w2
<1>5. decodeDPIList(w1) = IF Len(values) + 1 > MaxValues THEN Malformed ELSE Open(one)
  BY <1>1, DecodeAppend, LowStep DEF one, w1
<1>6. CASE low = high
  <2>1. Cardinality(Values(entry)) = 1 /\ Values(entry) = {low}
    <3>1. /\ (entry.high - entry.low) \div entry.step = 0
          /\ entry.low + 0 * entry.step = entry.low
      BY <1>6, EntryFields DEF low, high
    <3>2. Values(entry) = {low}
      <4>1. \A i \in 0..0 : i = 0
        OBVIOUS
      <4> QED BY <3>1, <4>1 DEF Values, low
    <3>3. Cardinality(Values(entry)) = 0 + 1
      BY <1>1, <1>6, <3>1, ValuesCount DEF low, high
    <3> QED BY <3>2, <3>3
  <2>2. low <= high
    BY <1>1, <1>6
  <2>3. words \o Encoding(entry) = w1
    BY <1>2, <1>6
  <2> QED BY <1>3, <1>4, <1>5, <2>1, <2>2, <2>3 DEF low, high
<1>7. CASE low # high
  <2>1. words \o Encoding(entry) = Append(w2, high) /\ w2 \in Seq(Nat)
    BY <1>2, <1>7
  <2>2. /\ decodeDPIList(w2) = DecodeWord(decodeDPIList(w1), RangeMark + step)
        /\ decodeDPIList(Append(w2, high)) = DecodeWord(decodeDPIList(w2), high)
    BY <1>1, <1>2, <2>1, DecodeAppend DEF w2
  <2>3. CASE Len(values) + 1 > MaxValues
    <3>1. decodeDPIList(words \o Encoding(entry)) = Malformed
      BY <1>5, <2>1, <2>2, <2>3, MalformedStays
    <3>2. low <= high => Len(values) + Cardinality(Values(entry)) > MaxValues
      <4>1. low <= high => low < high
        BY <1>1, <1>7
      <4>2. low < high => /\ Cardinality(Values(entry)) = Len(range) + 1
                          /\ range \in Seq(Nat)
        BY RangeValues DEF low, high, step, range
      <4> QED BY <1>3, <2>3, <4>1, <4>2, LenProperties
    <3> QED BY <1>3, <3>1, <3>2, ValuesCount DEF low, high
  <2>4. CASE ~(Len(values) + 1 > MaxValues)
    <3>1. decodeDPIList(w2) = [values |-> one, step |-> step, end |-> "open"]
      BY <1>1, <1>4, <1>5, <2>2, <2>4, MarkStep
    <3>2. decodeDPIList(words \o Encoding(entry)) =
            IF high <= low \/ Len(one) + Len(range) > MaxValues
              THEN Malformed ELSE Open(one \o range)
      <4>1. DecodeWord([values |-> one, step |-> step, end |-> "open"], high) =
              IF high <= Last(one)
                \/ Len(one) + Len(RangeFrom(Last(one), step, high)) > MaxValues
                THEN Malformed
                ELSE Open(one \o RangeFrom(Last(one), step, high))
        BY <1>1, <1>4, HighStep
      <4> QED BY <1>4, <2>1, <2>2, <3>1, <4>1 DEF range
    <3>3. CASE high < low
      <4>1. high <= low /\ ~(low <= high)
        BY <1>1, <3>3
      <4> QED BY <3>2, <4>1 DEF low, high
    <3>4. CASE low < high
      <4>1. /\ Values(entry) = {low} \cup ToSet(range) /\ range \in Seq(Nat)
            /\ Cardinality(Values(entry)) = Len(range) + 1
        BY <3>4, RangeValues DEF low, high, step, range
      <4>2. Len(range) \in Nat
        BY <4>1, LenProperties
      <4>3. /\ one \o range \in Seq(Nat) /\ Len(one \o range) = Len(one) + Len(range)
            /\ ToSet(one \o range) = ToSet(one) \cup ToSet(range)
        <5>1. one \o range \in Seq(Nat) /\ Len(one \o range) = Len(one) + Len(range)
          BY <1>4, <4>1, ConcatProperties
        <5>2. ToSet(one \o range) = ToSet(one) \cup ToSet(range)
          BY <1>4, <4>1, MembersOfConcat
        <5> QED BY <5>1, <5>2
      <4>4. /\ Len(one \o range) = Len(values) + Cardinality(Values(entry))
            /\ ToSet(one \o range) = ToSet(values) \cup Values(entry)
        BY <1>3, <1>4, <4>1, <4>2, <4>3
      <4>5. ~(high <= low) /\ low <= high
        BY <1>1, <3>4
      <4>6. Len(one) + Len(range) > MaxValues <=>
              ~(Len(values) + Cardinality(Values(entry)) <= MaxValues)
        BY <1>3, <1>4, <4>1, <4>2
      <4> QED BY <3>2, <4>3, <4>4, <4>5, <4>6 DEF low, high
    <3> QED BY <1>1, <1>7, <3>3, <3>4
  <2> QED BY <2>3, <2>4
<1> QED BY <1>6, <1>7

LEMMA DecodeMalformed ==
  ASSUME NEW words \in Seq(Nat), NEW entry \in Entry, decodeDPIList(words) = Malformed
  PROVE  decodeDPIList(words \o Encoding(entry)) = Malformed
<1>1. /\ entry.low \in Nat /\ entry.high \in Nat /\ RangeMark + entry.step \in Nat
  BY EntryFields, Widths
<1>2. \A s \in Seq(Nat), x \in Nat :
        decodeDPIList(s) = Malformed => decodeDPIList(Append(s, x)) = Malformed
  BY DecodeAppend, MalformedStays
<1>3. CASE entry.low = entry.high
  <2>1. words \o Encoding(entry) = Append(words, entry.low)
    BY <1>3, EncodingWords
  <2> QED BY <1>1, <1>2, <2>1
<1>4. CASE entry.low # entry.high
  <2>1. decodeDPIList(Append(words, entry.low)) = Malformed
    BY <1>1, <1>2
  <2>2. Append(words, entry.low) \in Seq(Nat)
        /\ Append(Append(words, entry.low), RangeMark + entry.step) \in Seq(Nat)
    BY <1>4, EncodingWords
  <2>3. decodeDPIList(Append(Append(words, entry.low), RangeMark + entry.step)) = Malformed
    BY <1>1, <1>2, <2>1, <2>2
  <2>4. decodeDPIList(Append(Append(Append(words, entry.low), RangeMark + entry.step),
                             entry.high)) = Malformed
    BY <1>1, <1>2, <2>2, <2>3
  <2> QED BY <1>4, <2>4, EncodingWords
<1> QED BY <1>3, <1>4

-----------------------------------------------------------------------------
(* What the sensor sends, and how many values it advertises *)

\* The words sent with each range.
LEMMA WordsTrace ==
  ASSUME NEW ranges \in Seq(Entry)
  PROVE  \E sent :
           /\ sent \in [0..Len(ranges) -> Seq(Nat)] /\ sent[0] = << >>
           /\ \A n \in 1..Len(ranges) : sent[n] = sent[n - 1] \o Encoding(ranges[n])
           /\ Words(ranges) = sent[Len(ranges)] \o <<0>>
<1> DEFINE N == Len(ranges)
           G == [n \in 1..N |-> [x \in Seq(Nat) |-> x \o Encoding(ranges[n])]]
           Rec(g) == g = [n \in 0..N |-> IF n = 0 THEN << >> ELSE g[n - 1] \o Encoding(ranges[n])]
<1>1. N \in Nat /\ \A n \in 1..N : ranges[n] \in Entry
  BY LenProperties
<1>2. << >> \in Seq(Nat)
  BY EmptySeq
<1>3. G \in Seq([Seq(Nat) -> Seq(Nat)]) /\ Len(G) = N
  <2>1. \A n \in 1..N, x \in Seq(Nat) : x \o Encoding(ranges[n]) \in Seq(Nat)
    BY <1>1, EncodingWords
  <2>2. G \in [1..N -> [Seq(Nat) -> Seq(Nat)]]
    BY <2>1
  <2> HIDE DEF G
  <2> QED BY <1>1, <2>2
<1>4. \A n \in 1..N : \A x \in Seq(Nat) : G[n][x] = x \o Encoding(ranges[n])
  OBVIOUS
<1> HIDE DEF G
<1>5. PICK g : /\ g \in [0..N -> Seq(Nat)]
               /\ g[0] = << >> /\ \A n \in 1..N : g[n] = G[n][g[n - 1]]
  <2>1. \E g : Follows(g, G, << >>, Seq(Nat))
    BY <1>2, <1>3, Recursion
  <2> QED BY <1>3, <2>1 DEF Follows
<1>6. g[0] = << >> /\ \A n \in 1..N : g[n] = g[n - 1] \o Encoding(ranges[n])
  <2>1. \A n \in 1..N : n - 1 \in 0..N
    BY <1>1
  <2>2. \A n \in 1..N : g[n] = G[n][g[n - 1]] /\ g[n - 1] \in Seq(Nat)
    BY <1>5, <2>1
  <2> QED BY <1>4, <1>5, <2>2
<1>7. Rec(g)
  <2>1. g = [n \in 0..N |-> g[n]]
    BY <1>5
  <2>2. \A n \in 0..N : n = 0 \/ n \in 1..N
    BY <1>1
  <2>3. \A n \in 0..N : g[n] = IF n = 0 THEN << >> ELSE g[n - 1] \o Encoding(ranges[n])
    BY <1>6, <2>2
  <2> QED BY <2>1, <2>3
<1>8. ASSUME NEW f, Rec(f)
      PROVE  f[N] = g[N]
  <2>1. f[0] = g[0]
    BY <1>1, <1>6, <1>8
  <2>2. ASSUME NEW n \in 1..N, f[n - 1] = g[n - 1]
        PROVE  f[n] = g[n]
    <3>1. n \in 0..N /\ n # 0
      BY <1>1
    <3>2. f[n] = f[n - 1] \o Encoding(ranges[n])
      BY <1>8, <3>1
    <3> QED BY <1>6, <2>2, <3>2
  <2> HIDE DEF Rec, G
  <2>3. \A n \in 1..Len(ranges) : f[n - 1] = g[n - 1] => f[n] = g[n]
    BY <2>2
  <2> HIDE DEF N
  <2>4. \A n \in 0..Len(ranges) : f[n] = g[n]
    BY <2>1, <2>3, SameRecursion
  <2> QED BY <1>1, <2>4 DEF N
<1>9. Words(ranges) = (CHOOSE f : Rec(f))[N] \o <<0>>
  BY DEF Words
<1> HIDE DEF Rec
<1>10. Words(ranges) = g[N] \o <<0>>
  <2>1. (CHOOSE f : Rec(f))[N] = g[N]
    BY <1>7, <1>8
  <2> QED BY <1>9, <2>1
<1> QED BY <1>5, <1>6, <1>10

\* The values counted with each range.
LEMMA CountTrace ==
  ASSUME NEW ranges \in Seq(Entry)
  PROVE  \E count :
           /\ count \in [0..Len(ranges) -> Nat] /\ count[0] = 0
           /\ \A n \in 1..Len(ranges) : count[n] = count[n - 1] + Cardinality(Values(ranges[n]))
           /\ Count(ranges) = count[Len(ranges)]
<1> DEFINE N == Len(ranges)
           G == [n \in 1..N |-> [x \in Nat |-> x + Cardinality(Values(ranges[n]))]]
           Rec(g) == g = [n \in 0..N |->
                            IF n = 0 THEN 0 ELSE g[n - 1] + Cardinality(Values(ranges[n]))]
<1>1. N \in Nat /\ \A n \in 1..N : ranges[n] \in Entry
  BY LenProperties
<1>2. 0 \in Nat
  OBVIOUS
<1>3. G \in Seq([Nat -> Nat]) /\ Len(G) = N
  <2>1. \A n \in 1..N, x \in Nat : x + Cardinality(Values(ranges[n])) \in Nat
    BY <1>1, ValuesCount
  <2>2. G \in [1..N -> [Nat -> Nat]]
    BY <2>1
  <2> HIDE DEF G
  <2> QED BY <1>1, <2>2
<1>4. \A n \in 1..N : \A x \in Nat : G[n][x] = x + Cardinality(Values(ranges[n]))
  OBVIOUS
<1> HIDE DEF G
<1>5. PICK g : /\ g \in [0..N -> Nat]
               /\ g[0] = 0 /\ \A n \in 1..N : g[n] = G[n][g[n - 1]]
  <2>1. \E g : Follows(g, G, 0, Nat)
    BY <1>2, <1>3, Recursion
  <2> QED BY <1>3, <2>1 DEF Follows
<1>6. g[0] = 0 /\ \A n \in 1..N : g[n] = g[n - 1] + Cardinality(Values(ranges[n]))
  <2>1. \A n \in 1..N : n - 1 \in 0..N
    BY <1>1
  <2>2. \A n \in 1..N : g[n] = G[n][g[n - 1]] /\ g[n - 1] \in Nat
    BY <1>5, <2>1
  <2> QED BY <1>4, <1>5, <2>2
<1>7. Rec(g)
  <2>1. g = [n \in 0..N |-> g[n]]
    BY <1>5
  <2>2. \A n \in 0..N : n = 0 \/ n \in 1..N
    BY <1>1
  <2>3. \A n \in 0..N : g[n] = IF n = 0 THEN 0 ELSE g[n - 1] + Cardinality(Values(ranges[n]))
    BY <1>6, <2>2
  <2> QED BY <2>1, <2>3
<1>8. ASSUME NEW f, Rec(f)
      PROVE  f[N] = g[N]
  <2>1. f[0] = g[0]
    BY <1>1, <1>6, <1>8
  <2>2. ASSUME NEW n \in 1..N, f[n - 1] = g[n - 1]
        PROVE  f[n] = g[n]
    <3>1. n \in 0..N /\ n # 0
      BY <1>1
    <3>2. f[n] = f[n - 1] + Cardinality(Values(ranges[n]))
      BY <1>8, <3>1
    <3> QED BY <1>6, <2>2, <3>2
  <2> HIDE DEF Rec, G
  <2>3. \A n \in 1..Len(ranges) : f[n - 1] = g[n - 1] => f[n] = g[n]
    BY <2>2
  <2> HIDE DEF N
  <2>4. \A n \in 0..Len(ranges) : f[n] = g[n]
    BY <2>1, <2>3, SameRecursion
  <2> QED BY <1>1, <2>4 DEF N
<1>9. Count(ranges) = (CHOOSE f : Rec(f))[N]
  BY DEF Count
<1> HIDE DEF Rec
<1>10. Count(ranges) = g[N]
  <2>1. (CHOOSE f : Rec(f))[N] = g[N]
    BY <1>7, <1>8
  <2> QED BY <1>9, <2>1
<1> QED BY <1>5, <1>6, <1>10

-----------------------------------------------------------------------------
(* The nearest of the values *)

\* The best of the values up to each.
LEMMA NearestTrace ==
  ASSUME NEW values \in Seq(Nat), values # << >>, NEW requested \in Nat
  PROVE  \E best :
           /\ best \in [0..Len(values) -> Nat] /\ best[0] = values[1]
           /\ \A n \in 1..Len(values) : best[n] = Better(requested, values[n], best[n - 1])
           /\ NearestDPI(values, requested) = best[Len(values)]
<1> DEFINE N == Len(values)
           G == [n \in 1..N |-> [x \in Nat |-> Better(requested, values[n], x)]]
           Rec(g) == g = [n \in 0..N |->
                            IF n = 0 THEN values[1] ELSE Better(requested, values[n], g[n - 1])]
<1>1. N \in Nat /\ \A n \in 1..N : values[n] \in Nat
  BY LenProperties
<1>2. values[1] \in Nat
  BY <1>1, EmptySeq
<1>3. G \in Seq([Nat -> Nat]) /\ Len(G) = N
  <2>1. \A n \in 1..N, x \in Nat : Better(requested, values[n], x) \in Nat
    BY <1>1, SMT DEF Better
  <2>2. G \in [1..N -> [Nat -> Nat]]
    BY <2>1
  <2> HIDE DEF G
  <2> QED BY <1>1, <2>2
<1>4. \A n \in 1..N : \A x \in Nat : G[n][x] = Better(requested, values[n], x)
  OBVIOUS
<1> HIDE DEF G
<1>5. PICK g : /\ g \in [0..N -> Nat]
               /\ g[0] = values[1] /\ \A n \in 1..N : g[n] = G[n][g[n - 1]]
  <2>1. \E g : Follows(g, G, values[1], Nat)
    BY <1>2, <1>3, Recursion
  <2> QED BY <1>3, <2>1 DEF Follows
<1>6. g[0] = values[1] /\ \A n \in 1..N : g[n] = Better(requested, values[n], g[n - 1])
  <2>1. \A n \in 1..N : n - 1 \in 0..N
    BY <1>1
  <2>2. \A n \in 1..N : g[n] = G[n][g[n - 1]] /\ g[n - 1] \in Nat
    BY <1>5, <2>1
  <2> QED BY <1>4, <1>5, <2>2
<1>7. Rec(g)
  <2>1. g = [n \in 0..N |-> g[n]]
    BY <1>5
  <2>2. \A n \in 0..N : n = 0 \/ n \in 1..N
    BY <1>1
  <2>3. \A n \in 0..N : g[n] = IF n = 0 THEN values[1] ELSE Better(requested, values[n], g[n - 1])
    BY <1>6, <2>2
  <2> QED BY <2>1, <2>3
<1>8. ASSUME NEW f, Rec(f)
      PROVE  f[N] = g[N]
  <2>1. f[0] = g[0]
    BY <1>1, <1>6, <1>8
  <2>2. ASSUME NEW n \in 1..N, f[n - 1] = g[n - 1]
        PROVE  f[n] = g[n]
    <3>1. n \in 0..N /\ n # 0
      BY <1>1
    <3>2. f[n] = Better(requested, values[n], f[n - 1])
      BY <1>8, <3>1
    <3> QED BY <1>6, <2>2, <3>2
  <2> HIDE DEF Rec, G
  <2>3. \A n \in 1..Len(values) : f[n - 1] = g[n - 1] => f[n] = g[n]
    BY <2>2
  <2> HIDE DEF N
  <2>4. \A n \in 0..Len(values) : f[n] = g[n]
    BY <2>1, <2>3, SameRecursion
  <2> QED BY <1>1, <2>4 DEF N
<1>9. NearestDPI(values, requested) = (CHOOSE f : Rec(f))[N]
  BY DEF NearestDPI
<1> HIDE DEF Rec
<1>10. NearestDPI(values, requested) = g[N]
  <2>1. (CHOOSE f : Rec(f))[N] = g[N]
    BY <1>7, <1>8
  <2> QED BY <1>9, <2>1
<1> QED BY <1>5, <1>6, <1>10

\* No value is closer to the request, and none as close is smaller.
LEMMA NearestIs ==
  ASSUME NEW values \in Seq(Nat), values # << >>, NEW requested \in Nat
  PROVE  /\ NearestDPI(values, requested) \in ToSet(values)
         /\ \A v \in ToSet(values) : ~Closer(requested, v, NearestDPI(values, requested))
<1> DEFINE N == Len(values)
<1>1. /\ N \in Nat \ {0} /\ \A n \in 1..N : values[n] \in Nat
      /\ ToSet(values) = {values[i] : i \in 1..N}
  BY EmptySeq, MembersOf, LenProperties
<1>2. PICK best :
        /\ best \in [0..N -> Nat] /\ best[0] = values[1]
        /\ \A n \in 1..N : best[n] = Better(requested, values[n], best[n - 1])
        /\ NearestDPI(values, requested) = best[N]
  BY NearestTrace
<1> DEFINE Best(n) == /\ best[n] \in ToSet(values)
                      /\ \A i \in 1..n : ~Closer(requested, values[i], best[n])
           S == {n \in Nat : n <= N => Best(n)}
<1> HIDE DEF N
<1>3. 0 \in S
  <2>1. 1 \in 1..N /\ 1..0 = {}
    BY <1>1
  <2> QED BY <1>1, <1>2, <2>1
<1>4. ASSUME NEW n \in Nat, n \in S
      PROVE  n + 1 \in S
  <2> SUFFICES ASSUME n + 1 <= N
               PROVE  Best(n + 1)
    OBVIOUS
  <2> DEFINE k == n + 1
  <2>1. k \in 1..N /\ k - 1 = n /\ n \in 0..N /\ n <= N /\ \A i \in 1..k : i \in 1..n \/ i = k
    BY <1>1
  <2>2. \A i \in 1..n : i \in 1..N
    BY <1>1, <2>1
  <2>3. Best(n)
    <3> HIDE DEF Best
    <3> QED BY <1>4, <2>1
  <2> HIDE DEF k
  <2>4. best[k] = Better(requested, values[k], best[n]) /\ best[n] \in Nat /\ values[k] \in Nat
    BY <1>1, <1>2, <2>1
  <2>5. \A a, b, c \in Nat :
          /\ ~Closer(requested, a, a)
          /\ ~Closer(requested, a, b) /\ ~Closer(requested, b, c) => ~Closer(requested, a, c)
          /\ Closer(requested, a, b) => ~Closer(requested, b, a)
    BY DEF Closer, Distance
  <2>6. CASE Closer(requested, values[k], best[n])
    <3>1. best[k] = values[k] /\ values[k] \in ToSet(values)
      BY <1>1, <2>1, <2>4, <2>6 DEF Better
    <3>2. \A i \in 1..n : ~Closer(requested, values[i], values[k])
      BY <1>1, <2>2, <2>3, <2>4, <2>5, <2>6
    <3>3. \A i \in 1..k : ~Closer(requested, values[i], best[k])
      BY <2>1, <2>4, <2>5, <3>1, <3>2
    <3> QED BY <3>1, <3>3 DEF k
  <2>7. CASE ~Closer(requested, values[k], best[n])
    <3>1. best[k] = best[n]
      BY <2>4, <2>7 DEF Better
    <3>2. \A i \in 1..k : ~Closer(requested, values[i], best[k])
      BY <2>1, <2>3, <2>7, <3>1
    <3> QED BY <2>3, <3>1, <3>2 DEF k
  <2> QED BY <2>6, <2>7
<1> HIDE DEF S, Best
<1>5. N \in S
  BY <1>1, <1>3, <1>4, Induction
<1>6. Best(N)
  BY <1>1, <1>5 DEF S
<1> QED BY <1>1, <1>2, <1>6 DEF Best

-----------------------------------------------------------------------------
(* What the client makes of the ranges *)

Forward(ranges, n) == \A i \in 1..n : ranges[i].low <= ranges[i].high

\* What the words of the first n ranges, m values in all, are decoded to.
DecodedTo(ranges, n, m, words) ==
  IF Forward(ranges, n) /\ m <= MaxValues
    THEN \E values \in Seq(Nat) :
           /\ decodeDPIList(words) = Open(values)
           /\ Len(values) = m
           /\ ToSet(values) = UNION {Values(ranges[i]) : i \in 1..n}
    ELSE decodeDPIList(words) = Malformed

LEMMA DecodeNext ==
  ASSUME NEW ranges \in Seq(Entry), NEW n \in 0..Len(ranges), n < Len(ranges), NEW m \in Nat,
         NEW words \in Seq(Nat), DecodedTo(ranges, n, m, words)
  PROVE  DecodedTo(ranges, n + 1, m + Cardinality(Values(ranges[n + 1])),
                   words \o Encoding(ranges[n + 1]))
<1> DEFINE entry == ranges[n + 1]
           U(k) == UNION {Values(ranges[i]) : i \in 1..k}
           c == Cardinality(Values(entry))
           next == words \o Encoding(entry)
<1>1. entry \in Entry /\ n \in Nat /\ n + 1 \in 1..Len(ranges)
  BY LenProperties
<1>2. c \in Nat /\ MaxValues \in Nat
  BY <1>1, ValuesCount, DPIListAssumption
<1>3. Forward(ranges, n + 1) <=> Forward(ranges, n) /\ entry.low <= entry.high
  <2>1. \A i \in 1..(n + 1) : i \in 1..n \/ i = n + 1
    BY <1>1
  <2>2. 1..n \subseteq 1..(n + 1) /\ n + 1 \in 1..(n + 1)
    BY <1>1
  <2> QED BY <2>1, <2>2 DEF Forward
<1>4. U(n + 1) = U(n) \cup Values(entry)
  <2>1. \A i : i \in 1..(n + 1) <=> i \in 1..n \/ i = n + 1
    BY <1>1
  <2>2. \A k, v : v \in U(k) <=> \E i \in 1..k : v \in Values(ranges[i])
    OBVIOUS
  <2>3. \A v : v \in U(n + 1) <=> v \in U(n) \/ v \in Values(ranges[n + 1])
    <3> HIDE DEF U
    <3> QED BY <2>1, <2>2
  <2> HIDE DEF U
  <2> QED BY <2>3
<1> HIDE DEF entry
<1>5. CASE Forward(ranges, n) /\ m <= MaxValues
  <2>1. PICK values \in Seq(Nat) :
          /\ decodeDPIList(words) = Open(values)
          /\ Len(values) = m
          /\ ToSet(values) = U(n)
    BY <1>5 DEF DecodedTo
  <2>2. IF entry.low <= entry.high /\ m + c <= MaxValues
          THEN \E more \in Seq(Nat) :
                 /\ decodeDPIList(next) = Open(more)
                 /\ Len(more) = m + c
                 /\ ToSet(more) = ToSet(values) \cup Values(entry)
          ELSE decodeDPIList(next) = Malformed
    BY <1>1, <1>5, <2>1, DecodeEntry
  <2>3. CASE entry.low <= entry.high /\ m + c <= MaxValues
    <3>1. PICK more \in Seq(Nat) :
            /\ decodeDPIList(next) = Open(more)
            /\ Len(more) = m + c
            /\ ToSet(more) = ToSet(values) \cup Values(entry)
      BY <2>2, <2>3
    <3>2. ToSet(more) = U(n + 1)
      <4> HIDE DEF U
      <4> QED BY <1>4, <2>1, <3>1
    <3>3. Forward(ranges, n + 1)
      BY <1>3, <1>5, <2>3
    <3> QED BY <2>3, <3>1, <3>2, <3>3 DEF DecodedTo, entry
  <2>4. CASE ~(entry.low <= entry.high /\ m + c <= MaxValues)
    <3>1. ~(Forward(ranges, n + 1) /\ m + c <= MaxValues)
      BY <1>3, <2>4
    <3> QED BY <2>2, <2>4, <3>1 DEF DecodedTo, entry
  <2> QED BY <2>3, <2>4
<1>6. CASE ~(Forward(ranges, n) /\ m <= MaxValues)
  <2>1. ~(Forward(ranges, n + 1) /\ m + c <= MaxValues)
    BY <1>2, <1>3, <1>6
  <2>2. decodeDPIList(next) = Malformed
    BY <1>1, <1>6, DecodeMalformed DEF DecodedTo
  <2> QED BY <2>1, <2>2 DEF DecodedTo, entry
<1> QED BY <1>5, <1>6

\* The words of all the ranges: none is zero, and this is what they mean.
LEMMA DecodeRanges ==
  ASSUME NEW ranges \in Seq(Entry)
  PROVE  \E words \in Seq(Nat) :
           /\ \A i \in 1..Len(words) : words[i] # 0
           /\ Words(ranges) = words \o <<0>>
           /\ Count(ranges) \in Nat
           /\ DecodedTo(ranges, Len(ranges), Count(ranges), words)
           /\ ranges # << >> /\ Forward(ranges, Len(ranges)) => Count(ranges) # 0
<1>1. PICK sent :
        /\ sent \in [0..Len(ranges) -> Seq(Nat)] /\ sent[0] = << >>
        /\ \A n \in 1..Len(ranges) : sent[n] = sent[n - 1] \o Encoding(ranges[n])
        /\ Words(ranges) = sent[Len(ranges)] \o <<0>>
  BY WordsTrace
<1>2. PICK count :
        /\ count \in [0..Len(ranges) -> Nat] /\ count[0] = 0
        /\ \A n \in 1..Len(ranges) : count[n] = count[n - 1] + Cardinality(Values(ranges[n]))
        /\ Count(ranges) = count[Len(ranges)]
  BY CountTrace
<1> DEFINE N == Len(ranges)
           Right(n) == /\ \A i \in 1..Len(sent[n]) : sent[n][i] # 0
                       /\ DecodedTo(ranges, n, count[n], sent[n])
                       /\ n > 0 /\ Forward(ranges, n) => count[n] # 0
           S == {n \in Nat : n <= N => Right(n)}
<1>3. N \in Nat /\ \A n \in 1..N : ranges[n] \in Entry
  BY LenProperties
<1>4. 0 \in S
  <2>1. \A i \in 1..Len(sent[0]) : sent[0][i] # 0
    BY <1>1, EmptySeq
  <2>2. DecodedTo(ranges, 0, 0, << >>)
    <3>1. /\ decodeDPIList(<< >>) = Open(<< >>) /\ << >> \in Seq(Nat) /\ Len(<< >>) = 0
          /\ ToSet(<< >>) = {}
      BY DecodeNone, EmptySeq DEF Nothing, Open, ToSet
    <3>2. UNION {Values(ranges[i]) : i \in 1..0} = {} /\ Forward(ranges, 0) /\ 0 <= MaxValues
      <4>1. 1..0 = {}
        OBVIOUS
      <4> QED BY <4>1, DPIListAssumption DEF Forward
    <3> QED BY <3>1, <3>2 DEF DecodedTo
  <2> QED BY <1>1, <1>2, <2>1, <2>2
<1>5. ASSUME NEW n \in Nat, n \in S
      PROVE  n + 1 \in S
  <2> SUFFICES ASSUME n + 1 <= N
               PROVE  Right(n + 1)
    OBVIOUS
  <2>1. n \in 0..N /\ n < N /\ n + 1 \in 1..N /\ n + 1 - 1 = n /\ n + 1 \in 0..N
    BY <1>3
  <2>2. /\ \A i \in 1..Len(sent[n]) : sent[n][i] # 0
        /\ DecodedTo(ranges, n, count[n], sent[n])
        /\ sent[n] \in Seq(Nat) /\ count[n] \in Nat
        /\ ranges[n + 1] \in Entry
    <3>1. Right(n)
      <4> HIDE DEF Right
      <4> QED BY <1>3, <1>5, <2>1
    <3>2. sent[n] \in Seq(Nat) /\ count[n] \in Nat
      BY <1>1, <1>2, <2>1
    <3> QED BY <1>3, <2>1, <3>1, <3>2
  <2>3. /\ sent[n + 1] = sent[n] \o Encoding(ranges[n + 1])
        /\ count[n + 1] = count[n] + Cardinality(Values(ranges[n + 1]))
    <3> DEFINE k == n + 1
    <3>1. k \in 1..N /\ k - 1 = n
      BY <2>1
    <3> HIDE DEF k
    <3>2. /\ sent[k] = sent[k - 1] \o Encoding(ranges[k])
          /\ count[k] = count[k - 1] + Cardinality(Values(ranges[k]))
      BY <1>1, <1>2, <3>1
    <3> QED BY <3>1, <3>2 DEF k
  <2>4. DecodedTo(ranges, n + 1, count[n + 1], sent[n + 1])
    BY <2>1, <2>2, <2>3, DecodeNext
  <2>5. \A i \in 1..Len(sent[n + 1]) : sent[n + 1][i] # 0
    <3> DEFINE a == sent[n]
               b == Encoding(ranges[n + 1])
    <3>1. /\ a \in Seq(Nat) /\ b \in Seq(Nat)
          /\ \A i \in 1..Len(a) : a[i] # 0
          /\ \A i \in 1..Len(b) : b[i] # 0
      BY <2>2, EncodingWords
    <3> HIDE DEF a, b
    <3>2. /\ Len(a \o b) = Len(a) + Len(b) /\ Len(a) \in Nat /\ Len(b) \in Nat
          /\ \A i \in 1..(Len(a) + Len(b)) :
               (a \o b)[i] = IF i <= Len(a) THEN a[i] ELSE b[i - Len(a)]
      BY <3>1, ConcatProperties, LenProperties
    <3>3. \A i \in 1..(Len(a) + Len(b)) :
            IF i <= Len(a) THEN i \in 1..Len(a) ELSE i - Len(a) \in 1..Len(b)
      BY <3>2
    <3>4. \A i \in 1..Len(a \o b) : (a \o b)[i] # 0
      BY <3>1, <3>2, <3>3
    <3> QED BY <2>3, <3>4 DEF a, b
  <2>6. Forward(ranges, n + 1) => count[n + 1] # 0
    <3>1. Forward(ranges, n + 1) => ranges[n + 1].low <= ranges[n + 1].high
      <4>1. n + 1 \in 1..(n + 1)
        BY <1>5
      <4> QED BY <4>1 DEF Forward
    <3>2. ranges[n + 1].low <= ranges[n + 1].high =>
            /\ Cardinality(Values(ranges[n + 1])) =
                 (ranges[n + 1].high - ranges[n + 1].low) \div ranges[n + 1].step + 1
            /\ (ranges[n + 1].high - ranges[n + 1].low) \div ranges[n + 1].step \in Nat
      BY <2>2, ValuesCount, EntryFields
    <3> QED BY <2>2, <2>3, <3>1, <3>2
  <2> QED BY <2>4, <2>5, <2>6
<1> HIDE DEF S
<1>6. N \in S
  BY <1>3, <1>4, <1>5, Induction
<1>7. Right(N) /\ sent[N] \in Seq(Nat) /\ count[N] \in Nat
  BY <1>1, <1>2, <1>3, <1>6 DEF S
<1>8. ranges # << >> => N > 0
  BY <1>3, EmptySeq
<1>9. /\ Words(ranges) = sent[N] \o <<0>> /\ Count(ranges) = count[N]
  BY <1>1, <1>2
<1> QED BY <1>7, <1>8, <1>9

\* A list that has its zero within the words the client asks for is received
\* whole, any other not at all.
LEMMA ReceivedIs ==
  ASSUME NEW words \in Seq(Nat), \A i \in 1..Len(words) : words[i] # 0
  PROVE  /\ words \o <<0>> \in Seq(Nat) /\ Len(words \o <<0>>) = Len(words) + 1
         /\ words \o <<0>> = Append(words, 0)
         /\ Received(words \o <<0>>) =
              IF Len(words) + 1 <= MaxWords THEN words \o <<0>> ELSE << >>
<1> DEFINE all == Append(words, 0)
           n == Len(words) + 1
<1>1. /\ all = words \o <<0>> /\ all \in Seq(Nat) /\ Len(all) = n /\ all[n] = 0
      /\ \A i \in 1..Len(words) : all[i] = words[i]
      /\ Len(words) \in Nat
  BY AppendProperties, AppendIsConcat, LenProperties
<1>2. DOMAIN all = 1..n /\ n \in 1..n /\ n \in Nat /\ \A i \in 1..(n - 1) : all[i] # 0
  <2>1. n - 1 = Len(words)
    BY <1>1
  <2> QED BY <1>1, <2>1, LenProperties
<1> HIDE DEF all, n
<1>3. \A k : EndsAt(all, k) => k = n /\ n <= MaxWords
  <2>1. \A k \in 1..n : k = n \/ k \in 1..(n - 1)
    BY <1>2
  <2> QED BY <1>2, <2>1 DEF EndsAt
<1>4. CASE n <= MaxWords
  <2>1. EndsAt(all, n)
    BY <1>1, <1>2, <1>4 DEF EndsAt
  <2>2. (CHOOSE k \in DOMAIN all : EndsAt(all, k)) = n
    BY <1>2, <1>3, <2>1
  <2>3. Received(all) = SubSeq(all, 1, n)
    BY <1>2, <2>1, <2>2 DEF Received
  <2>4. Received(all) = all
    BY <1>1, <2>3, SubSeqFull
  <2> QED BY <1>1, <1>4, <2>4 DEF n
<1>5. CASE ~(n <= MaxWords)
  <2>1. Received(all) = << >>
    BY <1>3, <1>5 DEF Received, NoTerminator
  <2> QED BY <1>1, <1>5, <2>1 DEF n
<1> QED BY <1>4, <1>5

\* The client learns what is advertised, or nothing when that is empty, cut
\* short, too long or malformed.
LEMMA SupportedIs ==
  ASSUME NEW ranges \in Seq(Entry)
  PROVE  /\ Supported(Words(ranges)) \in Seq(Nat)
         /\ Supported(Words(ranges)) # << >> <=>
              /\ ranges # << >>
              /\ Len(Words(ranges)) <= MaxWords
              /\ Count(ranges) <= MaxValues
              /\ Forward(ranges, Len(ranges))
         /\ Supported(Words(ranges)) # << >> =>
              ToSet(Supported(Words(ranges))) =
                UNION {Values(ranges[i]) : i \in 1..Len(ranges)}
<1> DEFINE N == Len(ranges)
           U == UNION {Values(ranges[i]) : i \in 1..N}
<1>1. PICK words \in Seq(Nat) :
        /\ \A i \in 1..Len(words) : words[i] # 0
        /\ Words(ranges) = words \o <<0>>
        /\ Count(ranges) \in Nat
        /\ DecodedTo(ranges, N, Count(ranges), words)
        /\ ranges # << >> /\ Forward(ranges, N) => Count(ranges) # 0
  BY DecodeRanges
<1>2. /\ Words(ranges) = Append(words, 0) /\ Len(Words(ranges)) = Len(words) + 1
      /\ Received(Words(ranges)) =
           IF Len(words) + 1 <= MaxWords THEN Words(ranges) ELSE << >>
  BY <1>1, ReceivedIs
<1>3. /\ decodeDPIList(Words(ranges)) = DecodeWord(decodeDPIList(words), 0)
  BY <1>2, DecodeAppend
<1>4. CASE ~(Len(words) + 1 <= MaxWords)
  <2>1. Supported(Words(ranges)) = << >>
    BY <1>2, <1>4, DecodeNone DEF Supported, Nothing
  <2> QED BY <1>2, <1>4, <2>1, EmptySeq
<1>5. CASE Len(words) + 1 <= MaxWords
  <2>1. Received(Words(ranges)) = Words(ranges)
    BY <1>2, <1>5
  <2>2. CASE Forward(ranges, N) /\ Count(ranges) <= MaxValues
    <3>1. PICK values \in Seq(Nat) : /\ decodeDPIList(words) = Open(values)
                                     /\ Len(values) = Count(ranges)
                                     /\ ToSet(values) = U
      BY <1>1, <2>2 DEF DecodedTo
    <3>2. DecodeWord(Open(values), 0) = [Open(values) EXCEPT !.end = "complete"]
      BY Widths DEF DecodeWord, Open, IsStep
    <3>3. /\ decodeDPIList(Words(ranges)).end = "complete"
          /\ decodeDPIList(Words(ranges)).values = values
      BY <1>3, <3>1, <3>2 DEF Open
    <3>4. Supported(Words(ranges)) = values
      BY <2>1, <3>3 DEF Supported
    <3>5. values # << >> <=> ranges # << >>
      <4>1. ranges = << >> => U = {}
        <5>1. ranges = << >> => 1..N = {}
          BY EmptySeq
        <5> QED BY <5>1
      <4>2. values # << >> => ToSet(values) # {}
        <5>1. values # << >> => 1 \in 1..Len(values)
          BY EmptySeq, LenProperties
        <5>2. ToSet(values) = {values[i] : i \in 1..Len(values)}
          BY MembersOf
        <5> QED BY <5>1, <5>2
      <4>3. values = << >> => Len(values) = 0
        BY EmptySeq
      <4> HIDE DEF U
      <4> QED BY <1>1, <2>2, <3>1, <4>1, <4>2, <4>3
    <3> QED BY <1>2, <1>5, <2>2, <3>1, <3>4, <3>5
  <2>3. CASE ~(Forward(ranges, N) /\ Count(ranges) <= MaxValues)
    <3>1. decodeDPIList(words) = Malformed
      BY <1>1, <2>3 DEF DecodedTo
    <3>2. decodeDPIList(Words(ranges)) = Malformed
      BY <1>3, <3>1, MalformedStays
    <3>3. Supported(Words(ranges)) = << >>
      BY <2>1, <3>2 DEF Supported, Malformed
    <3> QED BY <2>3, <3>3, EmptySeq
  <2> QED BY <2>2, <2>3
<1> QED BY <1>4, <1>5

-----------------------------------------------------------------------------
(* The resolution *)

\* Nothing is set before applyDPI; what is set is what NearestDPI chose; and
\* when nothing failed before the wheel was left it was set if it could be.
DpiInv ==
  /\ faults \in Nat
  /\ phase \in {"discover", "status", "set", "dpi"} => dpi = 0
  /\ phase \in {"status", "set"} => Configured(job.setting)
  /\ dpi # 0 => /\ job.requested # 0 /\ Supported(job.words) # << >>
                /\ dpi = NearestDPI(Supported(job.words), job.requested)
  /\ (/\ phase \in {"open", "restore", "closed"}
      /\ job.requested # 0
      /\ ~Configured(job.setting)
      /\ faults = 0) => (Supported(job.words) # << >> => dpi # 0)

\* What there is to choose from, and what is chosen.
LEMMA ChoiceFacts ==
  ASSUME job \in Job, job.requested # 0
  PROVE  /\ Supported(job.words) # << >> <=> Sound
         /\ Supported(job.words) # << >> =>
              LET chosen == NearestDPI(Supported(job.words), job.requested)
              IN /\ chosen \in Advertised /\ chosen # 0
                 /\ \A v \in Advertised : ~Closer(job.requested, v, chosen)
                 /\ Advertised \subseteq Nat \ {0} /\ job.requested \in Nat
<1> DEFINE ranges == job.ranges
           values == Supported(job.words)
<1>1. ranges \in Seq(Entry) /\ job.words = Words(ranges) /\ job.requested \in Nat
  BY SensorAssumption
<1>2. /\ DOMAIN ranges = 1..Len(ranges) /\ \A i \in 1..Len(ranges) : ranges[i] \in Entry
  BY <1>1, LenProperties
<1>3. /\ values \in Seq(Nat)
      /\ values # << >> <=> /\ ranges # << >> /\ Len(job.words) <= MaxWords
                            /\ Count(ranges) <= MaxValues /\ Forward(ranges, Len(ranges))
      /\ values # << >> => ToSet(values) = UNION {Values(ranges[i]) : i \in 1..Len(ranges)}
  BY <1>1, SupportedIs
<1>4. Forward(ranges, Len(ranges)) <=> \A i \in DOMAIN ranges : ranges[i].high >= ranges[i].low
  <2>1. \A i \in 1..Len(ranges) :
          ranges[i].high >= ranges[i].low <=> ranges[i].low <= ranges[i].high
    BY <1>2, EntryFields
  <2> QED BY <1>2, <2>1 DEF Forward
<1>5. values # << >> <=> Sound
  BY <1>3, <1>4 DEF Sound
<1>6. ASSUME values # << >>
      PROVE  LET chosen == NearestDPI(values, job.requested)
             IN /\ chosen \in Advertised /\ chosen # 0
                /\ \A v \in Advertised : ~Closer(job.requested, v, chosen)
                /\ Advertised \subseteq Nat \ {0}
  <2>1. ToSet(values) = Advertised
    BY <1>2, <1>3, <1>6 DEF Advertised
  <2>2. Advertised \subseteq Nat \ {0}
    <3>1. \A i \in 1..Len(ranges) : ranges[i].low <= ranges[i].high
      BY <1>3, <1>6 DEF Forward
    <3>2. \A i \in 1..Len(ranges) : Values(ranges[i]) \subseteq Nat \ {0}
      BY <1>2, <3>1, ValuesCount
    <3> QED BY <1>2, <3>2 DEF Advertised
  <2> HIDE DEF values
  <2>3. /\ NearestDPI(values, job.requested) \in ToSet(values)
        /\ \A v \in ToSet(values) : ~Closer(job.requested, v, NearestDPI(values, job.requested))
    BY <1>1, <1>3, <1>6, NearestIs
  <2> QED BY <2>1, <2>2, <2>3
<1> QED BY <1>1, <1>5, <1>6

LEMMA StepDpi ==
  ASSUME job \in Job, DpiInv, [Next]_vars
  PROVE  DpiInv'
<1> USE DEF deviceVars, wheelVars
<1>1. CASE Discover
  BY <1>1 DEF Discover, DpiInv
<1>2. CASE DiscoverFails
  BY <1>2 DEF DiscoverFails, Fault, DpiInv
<1>3. CASE NoFeature \/ GetStatusFails
  BY <1>3 DEF NoFeature, GetStatusFails, Leave, Fault, DpiInv
<1>4. CASE GetStatus
  BY <1>4 DEF GetStatus, DpiInv
<1>5. CASE Set
  <2>1. PICK setter : Refuse(setter) \/ Read(setter) \/ ReadFails(setter) \/ Write(setter)
                        \/ WriteFails(setter)
    BY <1>5 DEF Set
  <2>2. /\ phase \in {"set", "restore"}
        /\ phase = "set" => phase' \in {"set", "dpi", "restore"}
        /\ phase = "restore" => phase' = "restore"
        /\ UNCHANGED <<job, dpi>>
        /\ UNCHANGED faults \/ faults' = faults + 1
    BY <2>1 DEF Refuse, Read, ReadFails, Write, WriteFails, ReadyToWrite, Setting, Fails, Leave,
                Advance, Fault
  <2> QED BY <2>2 DEF DpiInv
<1>6. CASE NoDPI
  BY <1>6 DEF NoDPI, DpiInv
<1>7. CASE SetNearest
  <2>1. /\ phase = "dpi" /\ job.requested # 0 /\ dpi = 0 /\ UNCHANGED <<job, faults>>
        /\ phase' \in {"open", "restore"}
        /\ \/ Supported(job.words) = << >> /\ dpi' = dpi
           \/ /\ Supported(job.words) # << >>
              /\ dpi' = NearestDPI(Supported(job.words), job.requested)
    BY <1>7 DEF SetNearest, Leave, DpiInv
  <2>2. Supported(job.words) # << >> => dpi' # 0
    BY <2>1, ChoiceFacts
  <2> QED BY <2>1, <2>2 DEF DpiInv
<1>8. CASE SetNearestFails
  <2>1. /\ phase = "dpi" /\ job.requested # 0 /\ dpi = 0 /\ UNCHANGED job
        /\ faults \in Nat /\ faults' = faults + 1
        /\ phase' = "restore"
        /\ \/ dpi' = dpi
           \/ /\ Supported(job.words) # << >>
              /\ dpi' = NearestDPI(Supported(job.words), job.requested)
    BY <1>8 DEF SetNearestFails, Leave, Fault, DpiInv
  <2> QED BY <2>1 DEF DpiInv
<1>9. CASE Close \/ End
  BY <1>9 DEF Close, End, Leave, DpiInv
<1>10. CASE Press \/ UNCHANGED vars
  BY <1>10 DEF Press, vars, DpiInv
<1> QED BY <1>1, <1>2, <1>3, <1>4, <1>5, <1>6, <1>7, <1>8, <1>9, <1>10 DEF Next

LEMMA DpiInvariance == Spec => [](job \in Job /\ DpiInv)
<1>1. Init => job \in Job /\ DpiInv
  BY DEF Init, DpiInv
<1>2. job \in Job /\ DpiInv /\ [Next]_vars => (job \in Job /\ DpiInv)'
  <2> SUFFICES ASSUME job \in Job, DpiInv, [Next]_vars
               PROVE  (job \in Job)' /\ DpiInv'
    OBVIOUS
  <2>1. UNCHANGED job
    BY DEF Next, vars, deviceVars, Discover, DiscoverFails, NoFeature, GetStatus, GetStatusFails,
           Set, Refuse, Read, ReadFails, Write, WriteFails, NoDPI, SetNearest, SetNearestFails,
           Close, End, Press
  <2>2. DpiInv'
    BY StepDpi
  <2> QED BY <2>1, <2>2
<1> QED BY <1>1, <1>2, PTL DEF Spec

\* For every sensor, whatever it advertises, and every request: the resolution
\* that is set is the nearest of those advertised, and one is set unless the list
\* is unusable or an exchange fails.
THEOREM ResolutionIsNearest == Spec => []NearestIsSet
<1>1. ASSUME job \in Job, DpiInv
      PROVE  NearestIsSet
  <2>1. ASSUME dpi # 0
        PROVE  /\ Sound
               /\ dpi \in Advertised
               /\ \A v \in Advertised \ {dpi} :
                    LET near == Distance(job.requested, dpi)
                        far == Distance(job.requested, v)
                    IN near < far \/ (near = far /\ dpi < v)
    <3>1. /\ job.requested # 0 /\ Supported(job.words) # << >>
          /\ dpi = NearestDPI(Supported(job.words), job.requested)
      BY <1>1, <2>1 DEF DpiInv
    <3>2. /\ Sound /\ dpi \in Advertised
          /\ \A v \in Advertised : ~Closer(job.requested, v, dpi)
          /\ Advertised \subseteq Nat \ {0} /\ job.requested \in Nat
      BY <1>1, <3>1, ChoiceFacts
    <3>3. \A r, a, b \in Nat : ~Closer(r, b, a) /\ a # b =>
            \/ Distance(r, a) < Distance(r, b)
            \/ Distance(r, a) = Distance(r, b) /\ a < b
      BY DEF Closer, Distance
    <3> QED BY <3>2, <3>3
  <2>2. ASSUME phase \in {"open", "restore", "closed"}, job.requested # 0,
               ~Configured(job.setting), faults = 0
        PROVE  dpi # 0 <=> Sound
    BY <1>1, <2>2, ChoiceFacts DEF DpiInv
  <2> QED BY <2>1, <2>2 DEF NearestIsSet
<1> QED BY <1>1, DpiInvariance, PTL
=============================================================================
