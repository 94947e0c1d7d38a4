------------------------ MODULE Configurator_proofs ------------------------
(***************************************************************************)
(* What Close restores, for any list of settings and any number of         *)
(* configurators, faults and power cycles.                                 *)
(***************************************************************************)
EXTENDS Configurator, SequenceTheorems, TLAPS

Cleanup == [setting : Restored, original : Value]

\* While Apply is at work there is a step it is at, and when that step is to be
\* written its cleanup is registered already.
StepInv ==
  /\ phase \in {"read", "write"} => at \in 1..Len(Steps)
  /\ phase = "write" /\ Steps[at] \in Restored => Steps[at] \in Pending

\* Apply has neither touched nor registered a setting it has not come to, so no
\* second reading overwrites what was found.
FreshInv ==
  phase = "read" => Steps[at] \notin touched /\ Steps[at] \notin Pending

\* Steps that are still to come have left no trace.
AheadInv ==
  phase \in {"read", "write"} =>
    \A i \in (at + 1)..Len(Steps) : Steps[i] \notin touched \cup Pending

\* Every cleanup writes what was found.
OriginalInv ==
  \A i \in 1..Len(cleanup) : cleanup[i].original = found[cleanup[i].setting]

\* A touched setting either still has its cleanup or has been written back.
RestoredInv ==
  clean => \A s \in touched \cap Restored : s \in Pending \/ device[s] \in {found[s], "own"}

\* Before Close every touched setting still has its cleanup, and after Close no
\* cleanup is left.
CoverInv ==
  /\ phase \in {"read", "write", "active"} => touched \cap Restored \subseteq Pending
  /\ phase = "none" => cleanup = << >>

Progress == StepInv /\ FreshInv /\ AheadInv

Restoring == OriginalInv /\ RestoredInv /\ CoverInv

IInv == TypeOK /\ Progress /\ Restoring

-----------------------------------------------------------------------------

\* A step of Apply is a setting, and no other step is the same setting.
LEMMA StepIsSetting ==
  ASSUME NEW i \in 1..Len(Steps)
  PROVE  /\ Steps[i] \in Setting
         /\ \A j \in 1..Len(Steps) : Steps[i] = Steps[j] => i = j
  BY ConfiguratorAssumption, LenProperties, ElementOfSeq DEF Setting

\* addCleanup registers its setting and leaves the other cleanups as they are.
LEMMA AppendCleanup ==
  ASSUME NEW e \in Cleanup, cleanup \in Seq(Cleanup), cleanup' = Append(cleanup, e)
  PROVE  /\ cleanup' \in Seq(Cleanup)
         /\ Pending' = Pending \cup {e.setting}
         /\ Len(cleanup') = Len(cleanup) + 1
         /\ \A i \in 1..Len(cleanup) : cleanup'[i] = cleanup[i]
         /\ cleanup'[Len(cleanup) + 1] = e
<1>1. /\ cleanup' \in Seq(Cleanup)
      /\ Len(cleanup') = Len(cleanup) + 1
      /\ \A i \in 1..Len(cleanup) : cleanup'[i] = cleanup[i]
      /\ cleanup'[Len(cleanup) + 1] = e
  BY AppendProperties
<1>2. Len(cleanup) \in Nat
  BY LenProperties
<1>3. DOMAIN cleanup = 1..Len(cleanup) /\ DOMAIN cleanup' = 1..(Len(cleanup) + 1)
  BY <1>1, LenProperties
<1>4. Pending' = Pending \cup {e.setting}
  BY <1>1, <1>2, <1>3 DEF Pending
<1>. QED
  BY <1>1, <1>4

\* Taking the last cleanup makes at most its own setting disappear.
LEMMA FrontCleanup ==
  ASSUME cleanup \in Seq(Cleanup), cleanup # << >>, cleanup' = Front(cleanup)
  PROVE  /\ cleanup' \in Seq(Cleanup)
         /\ Last(cleanup) \in Cleanup
         /\ Last(cleanup) = cleanup[Len(cleanup)]
         /\ Len(cleanup) \in Nat \ {0}
         /\ Pending \ {Last(cleanup).setting} \subseteq Pending'
         /\ Len(cleanup') = Len(cleanup) - 1
         /\ \A i \in 1..Len(cleanup') : cleanup'[i] = cleanup[i]
<1>1. Len(cleanup) \in Nat \ {0} /\ DOMAIN cleanup = 1..Len(cleanup)
  BY EmptySeq, LenProperties
<1>2. \A i \in 1..Len(cleanup) : cleanup[i] \in Cleanup
  BY ElementOfSeq
<1>3. /\ cleanup' \in Seq(Cleanup)
      /\ Len(cleanup') = Len(cleanup) - 1
      /\ \A i \in 1..Len(cleanup') : cleanup'[i] = cleanup[i]
  <2>1. CASE Len(cleanup) = 1
    BY <2>1, SubSeqEmpty, EmptySeq DEF Front
  <2>2. CASE Len(cleanup) # 1
    <3>1. Len(cleanup) - 1 \in 1..Len(cleanup) /\ 1 \in 1..(Len(cleanup) + 1)
      BY <1>1, <2>2
    <3>. QED
      BY <1>1, <1>2, <2>2, <3>1, SubSeqProperties DEF Front
  <2>. QED
    BY <2>1, <2>2
<1>4. DOMAIN cleanup' = 1..(Len(cleanup) - 1)
  BY <1>3, LenProperties
<1>5. Last(cleanup) = cleanup[Len(cleanup)]
  BY DEF Last
<1>6. Pending \ {Last(cleanup).setting} \subseteq Pending'
  BY <1>1, <1>3, <1>4, <1>5 DEF Pending
<1>. QED
  BY <1>1, <1>2, <1>3, <1>5, <1>6

-----------------------------------------------------------------------------

\* Before the first configurator nothing is touched and nothing registered.
LEMMA InitInv == Init => IInv
<1> SUFFICES ASSUME Init PROVE IInv
  OBVIOUS
<1>1. Len(Steps) \in Nat
  BY ConfiguratorAssumption, LenProperties
<1>2. TypeOK
  <2>1. EventsCap \in Nat /\ MaxConfigurators \in Nat /\ MaxFaults \in Nat
    BY ConfiguratorAssumption
  <2>2. cleanup \in Seq([setting : Restored, original : Value])
    BY EmptySeq DEF Init
  <2>3. expired \in BOOLEAN /\ clean \in BOOLEAN /\ handler \in BOOLEAN
    BY DEF Init
  <2>4. device \in [Setting -> Value] /\ found \in [Setting -> Value]
    BY DEF Init, Value
  <2>. QED
    BY <1>1, <2>1, <2>2, <2>3, <2>4 DEF Init, TypeOK
<1>3. StepInv /\ FreshInv /\ AheadInv /\ CoverInv /\ RestoredInv
  BY DEF Init, StepInv, FreshInv, AheadInv, CoverInv, RestoredInv, Pending
<1>4. OriginalInv
  BY EmptySeq DEF Init, OriginalInv
<1>. QED
  BY <1>2, <1>3, <1>4 DEF IInv, Progress, Restoring

\* Every step of Apply, of Close, of the dispatcher and of the device keeps the types.
LEMMA TypeStep == TypeOK /\ StepInv /\ [Next]_vars => TypeOK'
<1> SUFFICES ASSUME TypeOK, StepInv, [Next]_vars PROVE TypeOK'
  OBVIOUS
<1>l. Len(Steps) \in Nat /\ (Steps # << >> => Len(Steps) >= 1)
  BY ConfiguratorAssumption, LenProperties, EmptySeq
<1>s. \A i \in 1..Len(Steps) : Steps[i] \in Setting
  BY StepIsSetting
<1>n. EventsCap \in Nat /\ MaxConfigurators \in Nat /\ MaxFaults \in Nat
  BY ConfiguratorAssumption
<1>c. cleanup \in Seq(Cleanup) /\ \A q : q \in Seq(Cleanup) => q \in Seq([setting : Restored, original : Value])
  BY DEF TypeOK, Cleanup
<1> USE DEF applyVars, deviceVars, eventVars
<1>1. ASSUME NewConfigurator PROVE TypeOK'
  <2>1. handler' \in BOOLEAN /\ expired' \in BOOLEAN /\ clean' \in BOOLEAN
    BY <1>1 DEF NewConfigurator
  <2>2. made' \in 0..MaxConfigurators /\ at' \in 1..(Len(Steps) + 1) /\ events' \in 0..EventsCap
    BY <1>1, <1>l, <1>n DEF NewConfigurator, TypeOK
  <2>. QED
    BY <1>1, <2>1, <2>2, <1>l, EmptySeq DEF NewConfigurator, TypeOK
<1>2. ASSUME Read PROVE TypeOK'
  <2>1. Steps[at] \in Setting /\ device[Steps[at]] \in Value
    BY <1>2, <1>s DEF Read, StepInv, TypeOK
  <2>2. cleanup' \in Seq(Cleanup)
    <3>1. CASE Steps[at] \in Restored
      <4>1. [setting |-> Steps[at], original |-> device[Steps[at]]] \in Cleanup
        BY <2>1, <3>1 DEF Cleanup
      <4>. QED
        BY <1>2, <3>1, <4>1, <1>c, AppendCleanup DEF Read
    <3>2. CASE Steps[at] \notin Restored
      BY <1>2, <3>2, <1>c DEF Read
    <3>. QED
      BY <3>1, <3>2
  <2>. QED
    BY <1>2, <2>1, <2>2, <1>c DEF Read, TypeOK
<1>3. ASSUME ReadFails PROVE TypeOK'
  <2>1. handler' \in BOOLEAN
    BY <1>3 DEF ReadFails, Fault, Closing
  <2>2. faults' \in 0..MaxFaults
    BY <1>3, <1>n DEF ReadFails, Fault, Closing, TypeOK
  <2>. QED
    BY <1>3, <2>1, <2>2 DEF ReadFails, Fault, Closing, TypeOK
<1>4. ASSUME ReadMissing PROVE TypeOK'
  BY <1>4 DEF ReadMissing, TypeOK
<1>5. ASSUME Write PROVE TypeOK'
  BY <1>5, <1>l, <1>s DEF Write, Acknowledged, Advance, StepInv, TypeOK, Value
<1>6. ASSUME WriteFails PROVE TypeOK'
  <2>1. handler' \in BOOLEAN
    BY <1>6 DEF WriteFails, Fault, Closing, Lost, StepInv, Value
  <2>2. faults' \in 0..MaxFaults /\ device' \in [Setting -> Value] /\ touched' \subseteq Setting
    BY <1>6, <1>n, <1>s DEF WriteFails, Fault, Closing, Lost, StepInv, Value, TypeOK
  <2>. QED
    BY <1>6, <2>1, <2>2 DEF WriteFails, Fault, Closing, Lost, StepInv, Value, TypeOK
<1>7. ASSUME Close PROVE TypeOK'
  BY <1>7 DEF Close, Closing, TypeOK
<1>8. ASSUME cleanup # << >>, cleanup' = Front(cleanup)
      PROVE  /\ cleanup' \in Seq([setting : Restored, original : Value])
             /\ Last(cleanup).original \in Value
  BY <1>8, <1>c, FrontCleanup DEF Cleanup
<1>9. ASSUME Restore PROVE TypeOK'
  BY <1>8, <1>9 DEF Restore, Acknowledged, TypeOK
<1>10. ASSUME RestoreFails PROVE TypeOK'
  <2>1. clean' \in BOOLEAN
    BY <1>10 DEF RestoreFails, Fault, Value
  <2>2. faults' \in 0..MaxFaults /\ device' \in [Setting -> Value]
    BY <1>10, <1>8, <1>n DEF RestoreFails, Fault, Value, TypeOK
  <2>. QED
    BY <1>10, <2>1, <2>2, <1>8 DEF RestoreFails, Fault, Value, TypeOK
<1>11. ASSUME RestoreTimesOut PROVE TypeOK'
  <2>1. clean' \in BOOLEAN /\ expired' \in BOOLEAN
    BY <1>11 DEF RestoreTimesOut, Fault, Lost
  <2>2. faults' \in 0..MaxFaults /\ device' \in [Setting -> Value]
    BY <1>11, <1>8, <1>n DEF RestoreTimesOut, Fault, Lost, TypeOK
  <2>. QED
    BY <1>11, <2>1, <2>2, <1>8 DEF RestoreTimesOut, Fault, Lost, TypeOK
<1>12. ASSUME RestoreTooLate PROVE TypeOK'
  BY <1>8, <1>12 DEF RestoreTooLate, TypeOK
<1>13. ASSUME CloseReturns PROVE TypeOK'
  BY <1>13 DEF CloseReturns, TypeOK
<1>14. ASSUME PowerCycle PROVE TypeOK'
  BY <1>14, <1>n DEF PowerCycle, Fault, TypeOK, Value
<1>15. ASSUME Dispatch PROVE TypeOK'
  BY <1>15, <1>n DEF Dispatch, TypeOK
<1>16. ASSUME Route \/ RouteUndecoded PROVE TypeOK'
  BY <1>16, <1>n DEF Route, RouteUndecoded, TypeOK
<1>17. ASSUME RouteClosed PROVE TypeOK'
  <2>1. handler' \in BOOLEAN
    BY <1>17 DEF RouteClosed
  <2>2. dispatch' \in 0..MaxConfigurators
    BY <1>17, <1>n DEF RouteClosed
  <2>. QED
    BY <1>17, <2>1, <2>2 DEF RouteClosed, TypeOK
<1>18. ASSUME Consume PROVE TypeOK'
  BY <1>18, <1>n DEF Consume, TypeOK
<1>19. CASE UNCHANGED vars
  BY <1>19 DEF vars, TypeOK
<1>. QED
  BY <1>1, <1>2, <1>3, <1>4, <1>5, <1>6, <1>7, <1>9, <1>10, <1>11, <1>12, <1>13, <1>14,
     <1>15, <1>16, <1>17, <1>18, <1>19 DEF Next, ApplyStep, CloseStep

-----------------------------------------------------------------------------

\* Reading a setting registers its cleanup, and touches nothing.
LEMMA ReadStep == IInv /\ Read => Progress' /\ Restoring'
<1> SUFFICES ASSUME IInv, Read PROVE Progress' /\ Restoring'
  OBVIOUS
<1> DEFINE s == Steps[at]
           e == [setting |-> s, original |-> device[s]]
<1>1. /\ at \in 1..Len(Steps) /\ at' = at /\ Len(Steps) \in Nat
      /\ s \in Setting /\ device[s] \in Value /\ s \notin touched /\ s \notin Pending
  BY StepIsSetting, ConfiguratorAssumption, LenProperties
     DEF IInv, Progress, StepInv, FreshInv, TypeOK, Read
<1>2. /\ phase = "read" /\ phase' = "write"
      /\ UNCHANGED <<device, clean, touched>>
  BY DEF Read, deviceVars
<1>3. found' = [found EXCEPT ![s] = device[s]] /\ found \in [Setting -> Value]
  BY DEF Read, IInv, TypeOK
<1>4. cleanup \in Seq(Cleanup)
  BY DEF IInv, TypeOK, Cleanup
<1>5. Len(cleanup) \in Nat /\ DOMAIN cleanup = 1..Len(cleanup)
      /\ \A i \in 1..Len(cleanup) : cleanup[i] \in Cleanup
  BY <1>4, LenProperties, ElementOfSeq
<1>6. /\ Pending' = IF s \in Restored THEN Pending \cup {s} ELSE Pending
      /\ OriginalInv'
  <2>1. \A i \in 1..Len(cleanup) : cleanup[i].original = found'[cleanup[i].setting]
    <3>1. \A i \in 1..Len(cleanup) :
            cleanup[i].setting \in Setting /\ cleanup[i].setting # s
      BY <1>1, <1>5, ConfiguratorAssumption DEF Pending, Cleanup, Setting
    <3>. QED
      BY <1>3, <3>1 DEF IInv, Restoring, OriginalInv
  <2>2. CASE s \in Restored
    <3>1. e \in Cleanup /\ cleanup' = Append(cleanup, e)
      BY <1>1, <2>2 DEF Cleanup, Read
    <3>2. /\ Pending' = Pending \cup {s}
          /\ Len(cleanup') = Len(cleanup) + 1
          /\ \A i \in 1..Len(cleanup) : cleanup'[i] = cleanup[i]
          /\ cleanup'[Len(cleanup) + 1] = e
      BY <1>4, <3>1, AppendCleanup
    <3>3. e.original = found'[e.setting]
      BY <1>1, <1>3
    <3>. QED
      BY <1>5, <2>1, <2>2, <3>2, <3>3 DEF OriginalInv
  <2>3. CASE s \notin Restored
    <3>1. cleanup' = cleanup
      BY <2>3 DEF Read
    <3>. QED
      BY <2>1, <2>3, <3>1 DEF OriginalInv, Pending
  <2>. QED
    BY <2>2, <2>3
<1>7. StepInv' /\ FreshInv'
  BY <1>1, <1>2, <1>6 DEF StepInv, FreshInv
<1>8. AheadInv'
  <2>1. \A i \in (at + 1)..Len(Steps) : Steps[i] # s /\ Steps[i] \notin touched \cup Pending
    BY <1>1, <1>2, StepIsSetting DEF IInv, Progress, AheadInv
  <2>. QED
    BY <1>1, <1>2, <1>6, <2>1 DEF AheadInv
<1>9. CoverInv'
  BY <1>1, <1>2, <1>6 DEF IInv, Restoring, CoverInv
<1>10. RestoredInv'
  BY <1>2, <1>6, <1>9 DEF CoverInv, RestoredInv
<1>. QED
  BY <1>6, <1>7, <1>8, <1>9, <1>10 DEF Progress, Restoring

\* A write, acknowledged or not, reaches a setting whose cleanup is registered.
LEMMA WriteStep == IInv /\ (Write \/ WriteFails) => Progress' /\ Restoring'
<1> SUFFICES ASSUME IInv, Write \/ WriteFails PROVE Progress' /\ Restoring'
  OBVIOUS
<1> DEFINE s == Steps[at]
<1>1. /\ at \in 1..Len(Steps) /\ Len(Steps) \in Nat /\ phase = "write"
      /\ s \in Restored => s \in Pending
  BY ConfiguratorAssumption, LenProperties
     DEF IInv, Progress, StepInv, Write, WriteFails
<1>2. /\ UNCHANGED <<cleanup, clean, found>>
      /\ touched' = touched \cup {s}
  BY DEF Write, WriteFails
<1>3. Pending' = Pending
  BY <1>2 DEF Pending
<1>4. touched' \cap Restored \subseteq Pending'
  BY <1>1, <1>2, <1>3 DEF IInv, Restoring, CoverInv
<1>5. phase' \in {"read", "active", "restore"}
  BY DEF Write, WriteFails, Advance, Closing
<1>6. Restoring'
  BY <1>2, <1>4, <1>5 DEF IInv, Restoring, OriginalInv, RestoredInv, CoverInv
<1>7. CASE phase' = "read"
  <2>1. at' = at + 1 /\ at' \in 1..Len(Steps)
    BY <1>1, <1>7 DEF Write, WriteFails, Advance, Closing
  <2>2. \A i \in (at + 1)..Len(Steps) : Steps[i] \notin touched' \cup Pending'
    BY <1>1, <1>2, <1>3, StepIsSetting DEF IInv, Progress, AheadInv
  <2>. QED
    BY <1>1, <1>6, <1>7, <2>1, <2>2 DEF Progress, StepInv, FreshInv, AheadInv
<1>8. CASE phase' \in {"active", "restore"}
  BY <1>6, <1>8 DEF Progress, StepInv, FreshInv, AheadInv
<1>. QED
  BY <1>5, <1>6, <1>7, <1>8

\* A cleanup that is taken off has restored its setting, or makes Close unclean.
LEMMA RestoreStep ==
  ASSUME IInv, Restore \/ RestoreFails \/ RestoreTimesOut \/ RestoreTooLate
  PROVE  Progress' /\ Restoring'
<1>1. /\ phase = "restore" /\ cleanup # << >> /\ cleanup' = Front(cleanup)
      /\ UNCHANGED <<phase, at, found, touched>>
  BY DEF Restore, RestoreFails, RestoreTimesOut, RestoreTooLate
<1>2. cleanup \in Seq(Cleanup)
  BY DEF IInv, TypeOK, Cleanup
<1>3. /\ Last(cleanup) = cleanup[Len(cleanup)] /\ Len(cleanup) \in Nat \ {0}
      /\ Last(cleanup) \in Cleanup
      /\ Pending \ {Last(cleanup).setting} \subseteq Pending'
      /\ Len(cleanup') = Len(cleanup) - 1
      /\ \A i \in 1..Len(cleanup') : cleanup'[i] = cleanup[i]
  BY <1>1, <1>2, FrontCleanup
<1>4. Progress' /\ CoverInv'
  BY <1>1 DEF Progress, StepInv, FreshInv, AheadInv, CoverInv
<1>5. OriginalInv'
  BY <1>1, <1>3 DEF IInv, Restoring, OriginalInv
<1>6. RestoredInv'
  <2>1. CASE Restore
    <3>1. Last(cleanup).original = found[Last(cleanup).setting]
      BY <1>3 DEF IInv, Restoring, OriginalInv
    <3>2. /\ device' = [device EXCEPT ![Last(cleanup).setting] = Last(cleanup).original]
          /\ clean' = clean
      BY <2>1 DEF Restore, Acknowledged
    <3>3. device \in [Setting -> Value] /\ Restored \subseteq Setting
      BY ConfiguratorAssumption DEF IInv, TypeOK, Setting
    <3>. QED
      BY <1>1, <1>3, <3>1, <3>2, <3>3 DEF IInv, Restoring, RestoredInv
  <2>2. CASE RestoreFails \/ RestoreTimesOut \/ RestoreTooLate
    <3>1. ~clean'
      BY <2>2 DEF RestoreFails, RestoreTimesOut, RestoreTooLate
    <3>. QED
      BY <3>1 DEF RestoredInv
  <2>. QED
    BY <2>1, <2>2
<1>. QED
  BY <1>4, <1>5, <1>6 DEF Restoring

\* The other steps leave the cleanups alone.
LEMMA OtherStep ==
  ASSUME IInv,
         \/ NewConfigurator \/ ReadFails \/ ReadMissing \/ Close \/ CloseReturns
         \/ PowerCycle \/ Dispatch \/ Route \/ RouteClosed \/ RouteUndecoded
         \/ Consume \/ UNCHANGED vars
  PROVE  Progress' /\ Restoring'
<1> USE DEF applyVars, deviceVars, eventVars
<1>1. CASE NewConfigurator
  <2>1. /\ cleanup' = << >> /\ touched' = {} /\ at' = 1
        /\ phase' = IF Steps = << >> THEN "active" ELSE "read"
    BY <1>1 DEF NewConfigurator
  <2>2. Pending' = {} /\ Len(cleanup') = 0
    BY <2>1, EmptySeq DEF Pending
  <2>3. Steps # << >> => 1 \in 1..Len(Steps)
    BY ConfiguratorAssumption, EmptySeq
  <2>. QED
    BY <2>1, <2>2, <2>3 DEF Progress, Restoring, StepInv, FreshInv, AheadInv,
                            OriginalInv, RestoredInv, CoverInv
<1>2. CASE UNCHANGED <<cleanup, clean, found, touched, device>>
           /\ phase' \in {"active", "restore", "crashed", "none"}
           /\ (phase' = "active" => phase = "read")
           /\ (phase' = "none" => cleanup = << >>)
  <2>1. Pending' = Pending
    BY <1>2 DEF Pending
  <2>. QED
    BY <1>2, <2>1 DEF IInv, Progress, Restoring, StepInv, FreshInv, AheadInv,
                      OriginalInv, RestoredInv, CoverInv
<1>3. CASE UNCHANGED <<phase, at, cleanup, clean, found, touched>>
           /\ (device' = device \/ device' = [t \in Setting |-> "own"])
  <2>1. Pending' = Pending
    BY <1>3 DEF Pending
  <2>2. Progress' /\ OriginalInv' /\ CoverInv'
    BY <1>3, <2>1 DEF IInv, Progress, Restoring, StepInv, FreshInv, AheadInv,
                      OriginalInv, CoverInv
  <2>3. RestoredInv'
    BY <1>3, <2>1, ConfiguratorAssumption
       DEF IInv, Restoring, RestoredInv, TypeOK, Setting
  <2>. QED
    BY <2>2, <2>3 DEF Restoring
<1>4. ASSUME ReadFails \/ ReadMissing \/ Close \/ CloseReturns
      PROVE  Progress' /\ Restoring'
  BY <1>2, <1>4 DEF ReadFails, ReadMissing, Close, CloseReturns, Closing
<1>5. ASSUME RouteClosed PROVE Progress' /\ Restoring'
  BY <1>2, <1>5 DEF RouteClosed
<1>6. ASSUME PowerCycle \/ Dispatch \/ Route \/ RouteUndecoded \/ Consume
             \/ UNCHANGED vars
      PROVE  Progress' /\ Restoring'
  BY <1>3, <1>6 DEF PowerCycle, Dispatch, Route, RouteUndecoded, Consume, vars
<1>. QED
  BY <1>1, <1>4, <1>5, <1>6

\* The inductive invariant holds throughout.
LEMMA Invariance == Spec => []IInv
<1>1. IInv /\ [Next]_vars => IInv'
  <2> SUFFICES ASSUME IInv, [Next]_vars PROVE IInv'
    OBVIOUS
  <2>1. TypeOK'
    BY TypeStep DEF IInv, Progress
  <2>2. Progress' /\ Restoring'
    BY ReadStep, WriteStep, RestoreStep, OtherStep DEF Next, ApplyStep, CloseStep
  <2>. QED
    BY <2>1, <2>2 DEF IInv
<1>. QED
  BY InitInv, <1>1, PTL DEF Spec

\* Types of the configurator's state.
THEOREM TypeCorrect == Spec => []TypeOK
<1>1. IInv => TypeOK
  BY DEF IInv
<1>. QED
  BY Invariance, <1>1, PTL

\* Every apply function registers its cleanup before it writes, so that Close
\* knows of every setting a write may have reached.
THEOREM ChangesCovered == Spec => []ChangesAreCovered
<1>1. IInv => ChangesAreCovered
  BY DEF IInv, Restoring, CoverInv, ChangesAreCovered
<1>. QED
  BY Invariance, <1>1, PTL

\* A Close without an error leaves the device as this configurator found it,
\* at whichever step Apply stopped.
THEOREM WhatWasFoundIsRestored == Spec => []FoundIsRestored
<1>1. IInv => FoundIsRestored
  <2> SUFFICES ASSUME IInv, phase = "none", clean
               PROVE  \A s \in touched \cap Restored : device[s] \in {found[s], "own"}
    BY DEF FoundIsRestored
  <2>1. Pending = {}
    BY DEF IInv, Restoring, CoverInv, Pending
  <2>. QED
    BY <2>1 DEF IInv, Restoring, RestoredInv
<1>. QED
  BY Invariance, <1>1, PTL
=============================================================================
