--------------------------- MODULE Daemon_proofs ---------------------------
(***************************************************************************)
(* Safety of the daemon for any number of handles, sessions, events and    *)
(* activations.                                                            *)
(***************************************************************************)
EXTENDS Daemon, SequenceTheorems, TLAPS

\* Between two sessions no receiver session is open; otherwise at most the current
\* one, which was counted when the resumes were drained.
SessionInv ==
  /\ SessionsClosed
  /\ pc = "open" => session # 0

\* runSession returns with a reason that After knows.
ReasonInv == pc = "cleanup" => reason # "none"

\* The stages at which the job has a configurator.
Building == {"apply", "output", "start"}

\* There is a job only while it lasts, and it names its child.  What is open has a
\* running action handler, but for the job's configurator and, until the handler
\* has started, its output.
JobInv ==
  /\ IF pc \in Activating THEN job.child \in Handle ELSE job = NoJob
  /\ pc \in Building => job.target \in Target \ handlers
  /\ configurators = handlers \cup (IF pc \in Building THEN {job.target} ELSE {})
  /\ outputs = handlers \cup (IF pc = "start" THEN {job.target} ELSE {})

\* A resume since the last drain is still in the channel, unless the session is
\* being torn down for it.
ResumeInv ==
  /\ resumedIn <= session
  /\ pc \in {"open", "opened", "loop"} \cup Activating /\ resumedIn = session => resume

\* The children the daemon knows have appeared, so that none of them appears again
\* in a later session; and the events of earlier sessions come first in the queue.
QueueInv ==
  /\ \A h \in Handle : owner[h] <= session
  /\ \A h \in InUse : state[h] # "unused"
  /\ \A i \in 1..Len(events) : state[events[i].child] # "unused"
  /\ \A i, j \in 1..Len(events) : i < j /\ ~Stale(events[i]) => ~Stale(events[j])
  /\ StaleIsHarmless

\* Between two sessions the daemon has no child in use.
EventInv ==
  /\ pc \in {"top", "open", "opened", "pause", "returned"} => InUse = {}
  /\ QueueInv

IInv ==
  /\ TypeOK
  /\ SessionInv
  /\ ReasonInv
  /\ JobInv
  /\ ResumeInv
  /\ EventInv

-----------------------------------------------------------------------------

LEMMA InitInv == Init => IInv
<1> SUFFICES ASSUME Init PROVE IInv
  OBVIOUS
<1>1. TypeOK
  <2>1. events \in Seq(Event) /\ Len(events) = 0
    BY DEF Init
  <2>2. {canceled, resume, lost} \subseteq BOOLEAN
    BY DEF Init
  <2>3. 0 \in 0..MaxSessions /\ 0 \in 0..MaxEvents /\ 0 <= QueueCap
    BY DaemonAssumption
  <2> QED BY <2>1, <2>2, <2>3 DEF Init, TypeOK, NoJob, Activating
<1>2. SessionInv /\ ReasonInv /\ JobInv /\ ResumeInv
  BY <1>1 DEF Init, SessionInv, SessionsClosed, ReasonInv, JobInv, ResumeInv, Activating, Building
<1>3. EventInv
  BY <1>1, DaemonAssumption DEF Init, EventInv, QueueInv, StaleIsHarmless, InUse, NoJob
<1> QED BY <1>1, <1>2, <1>3 DEF IInv

-----------------------------------------------------------------------------
(* Types *)

\* enqueue keeps a bounded queue of child events.
LEMMA EmitType ==
  ASSUME TypeOK, NEW h \in Handle,
         NEW type \in {"ready", "sleeping", "removed"}, Emit(type, h)
  PROVE  events' \in Seq(Event) /\ Len(events') <= QueueCap /\ emitted' \in 0..MaxEvents
<1> DEFINE e == [type |-> type, child |-> h]
<1>1. e \in Event
  BY DEF Event
<1>2. events \in Seq(Event) /\ emitted \in 0..MaxEvents
  BY DEF TypeOK
<1>3. emitted' \in 0..MaxEvents
  BY <1>2, DaemonAssumption DEF Emit
<1>4. CASE Len(events) < QueueCap
  <2>1. events' = Append(events, e)
    BY <1>4 DEF Emit
  <2>2. events' \in Seq(Event) /\ Len(events') = Len(events) + 1
    BY <1>1, <1>2, <2>1, AppendProperties
  <2> QED BY <1>2, <1>3, <1>4, <2>2, LenProperties, DaemonAssumption
<1>5. CASE ~(Len(events) < QueueCap)
  BY <1>2, <1>3, <1>5 DEF Emit, TypeOK
<1> QED BY <1>4, <1>5

\* What the select takes is an event, and leaves a shorter queue.
LEMMA QueueHead ==
  ASSUME TypeOK, events # << >>
  PROVE  /\ Head(events) \in Event
         /\ Tail(events) \in Seq(Event)
         /\ Len(Tail(events)) <= QueueCap
<1>1. events \in Seq(Event) /\ Len(events) <= QueueCap
  BY DEF TypeOK
<1>2. /\ Head(events) \in Event
      /\ Tail(events) \in Seq(Event)
      /\ Len(Tail(events)) = Len(events) - 1
  BY <1>1, HeadTailProperties
<1> QED BY <1>1, <1>2, LenProperties, DaemonAssumption

LEMMA TakenType ==
  ASSUME TypeOK, events # << >>, events' = Tail(events)
  PROVE  events' \in Seq(Event) /\ Len(events') <= QueueCap
  BY QueueHead

\* Closing a target keeps the types, also when there is none.
LEMMA CloseTargetType ==
  ASSUME TypeOK, CloseTarget
  PROVE  /\ active' = None /\ activeChild' = None
         /\ configurators' \in SUBSET Target /\ outputs' \in SUBSET Target
         /\ handlers' \in SUBSET Target
  BY DEF TypeOK, CloseTarget

\* runSession ends for a reason that After knows.
LEMMA AfterRange ==
  ASSUME TypeOK, ReasonInv, pc = "cleanup"
  PROVE  After(reason) \in {"top", "pause", "returned"}
  BY DEF TypeOK, ReasonInv, After

LEMMA EnvironmentType ==
  ASSUME TypeOK, Environment
  PROVE  TypeOK'
<1> USE DEF EnvOnly, sessionVars, targetVars, hostVars, retryVars
<1>1. ASSUME NEW h \in Handle, Appear(h)
      PROVE  TypeOK'
  BY <1>1 DEF TypeOK, Appear
<1>2. ASSUME NEW h \in Handle, BecomeReady(h)
      PROVE  TypeOK'
  BY <1>2, EmitType DEF TypeOK, BecomeReady
<1>3. ASSUME NEW h \in Handle, FallAsleep(h)
      PROVE  TypeOK'
  BY <1>3, EmitType DEF TypeOK, FallAsleep
<1>4. ASSUME NEW h \in Handle, FailValidation(h)
      PROVE  TypeOK'
  BY <1>4 DEF TypeOK, FailValidation
<1>5. ASSUME NEW h \in Handle, Unpair(h)
      PROVE  TypeOK'
  BY <1>5, EmitType DEF TypeOK, Unpair
<1>6. CASE LoseReceiver
  BY <1>6 DEF TypeOK, LoseReceiver, envVars
<1>7. CASE Resume
  BY <1>7 DEF TypeOK, Resume, envVars
<1>8. CASE Cancel
  BY <1>8 DEF TypeOK, Cancel, envVars
<1> QED BY <1>1, <1>2, <1>3, <1>4, <1>5, <1>6, <1>7, <1>8 DEF Environment

LEMMA RunType ==
  ASSUME TypeOK, SessionInv, ReasonInv, Open \/ OpenFails \/ EndSession
  PROVE  TypeOK'
<1> USE DEF envVars, sessionVars, targetVars, hostVars, retryVars
<1>1. CASE Drain
  <2>1. session' \in 0..MaxSessions
    BY <1>1, DaemonAssumption DEF TypeOK, Drain
  <2>2. {canceled, resume, lost}' \subseteq BOOLEAN
    BY <1>1 DEF TypeOK, Drain
  <2> QED BY <1>1, <2>1, <2>2 DEF TypeOK, Drain
<1>2. CASE OpenSession
  <2>1. session \in 1..MaxSessions
    BY <1>2 DEF TypeOK, SessionInv, OpenSession
  <2> QED BY <1>2, <2>1 DEF TypeOK, OpenSession
<1>8. CASE OpenedCanceled
  BY <1>8 DEF TypeOK, OpenedCanceled, CloseSession
<1>9. CASE BeginSession
  BY <1>9 DEF TypeOK, BeginSession
<1>3. CASE PauseEnds
  BY <1>3 DEF TypeOK, PauseEnds
<1>4. CASE OpenUnavailable
  BY <1>4 DEF TypeOK, OpenUnavailable
<1>5. ASSUME Return
      PROVE  TypeOK'
  BY <1>5 DEF TypeOK, Return
<1>6. CASE TopCanceled \/ OpenCanceled \/ PauseCanceled \/ OpenRefused
  BY <1>5, <1>6 DEF TopCanceled, OpenCanceled, PauseCanceled, OpenRefused
<1>7. CASE EndSession
  BY <1>7, CloseTargetType, AfterRange DEF TypeOK, EndSession, CloseSession, ClearRetry
<1> QED BY <1>1, <1>2, <1>3, <1>4, <1>6, <1>7, <1>8, <1>9 DEF Open, OpenFails

\* The select ends the session, with the notification consumed or not.
LEMMA EndForType ==
  ASSUME TypeOK, NEW r \in {"canceled", "lost", "resume", "failed"}, EndFor(r),
         UNCHANGED resume \/ resume' = FALSE
  PROVE  TypeOK'
<1> USE DEF envVars, sessionVars, targetVars, retryVars
<1>1. {canceled, resume, lost}' \subseteq BOOLEAN
  BY DEF TypeOK, EndFor
<1>2. reason' \in {"none", "canceled", "lost", "resume", "failed", "timeout"}
  BY DEF EndFor
<1> QED BY <1>1, <1>2 DEF TypeOK, EndFor

LEMMA SelectType ==
  ASSUME TypeOK, Interrupt \/ SelectActionError \/ HandleEvent \/ Retry
  PROVE  TypeOK'
<1> USE DEF envVars, sessionVars, targetVars, hostVars, retryVars
<1>1. CASE Interrupt \/ SelectActionError
  BY <1>1, EndForType DEF Interrupt, SelectCanceled, SelectLost, SelectResume,
                          SelectActionError
<1>2. CASE DiscardStale
  <2>1. /\ events # << >> /\ events' = Tail(events)
        /\ UNCHANGED <<pc, reason, job, emitted, state, index, owner, sessionVars, targetVars,
                       hostVars, retryVars>>
    BY <1>2 DEF DiscardStale
  <2>2. events' \in Seq(Event) /\ Len(events') <= QueueCap
    BY <2>1, TakenType
  <2> QED BY <2>1, <2>2 DEF TypeOK
<1>3. CASE HandleGone
  <2>1. /\ events # << >> /\ events' = Tail(events) /\ retryChild' = None
        /\ UNCHANGED <<emitted, state, index, owner, sessionVars, hostVars, pc, reason, job>>
        /\ forgotten' \in {None, forgotten, retryChild}
        /\ CloseTarget \/ UNCHANGED targetVars
    BY <1>3 DEF HandleGone, TakeEvent, ClearRetry
  <2>2. events' \in Seq(Event) /\ Len(events') <= QueueCap
    BY <2>1, TakenType
  <2>3. forgotten' \in Handle \cup {None}
    BY <2>1 DEF TypeOK
  <2>4. CASE CloseTarget
    BY <2>1, <2>2, <2>3, <2>4, CloseTargetType DEF TypeOK
  <2>5. CASE UNCHANGED targetVars
    BY <2>1, <2>2, <2>3, <2>5 DEF TypeOK
  <2> QED BY <2>1, <2>4, <2>5
<1>4. CASE IgnoreReady
  <2>1. /\ events # << >> /\ events' = Tail(events)
        /\ UNCHANGED <<emitted, state, index, owner, sessionVars, hostVars, pc, reason, job,
                       targetVars, retryVars>>
    BY <1>4 DEF IgnoreReady, TakeEvent
  <2>2. events' \in Seq(Event) /\ Len(events') <= QueueCap
    BY <2>1, TakenType
  <2> QED BY <2>1, <2>2 DEF TypeOK
<1>5. CASE HandleReady
  <2>1. /\ events # << >> /\ events' = Tail(events)
        /\ CloseTarget /\ Begin(Head(events).child, "event")
        /\ UNCHANGED <<emitted, state, index, owner, sessionVars, hostVars, reason, retryChild>>
    BY <1>5 DEF HandleReady, TakeEvent
  <2>2. events' \in Seq(Event) /\ Len(events') <= QueueCap
    BY <2>1, TakenType
  <2>3. Head(events).child \in Handle
    BY <2>1, QueueHead DEF Event
  <2> QED BY <2>1, <2>2, <2>3, CloseTargetType DEF TypeOK, Begin, Activating
<1>6. CASE ReplaceFails
  <2>1. /\ events # << >> /\ events' = Tail(events) /\ CloseTarget
        /\ pc' = "cleanup" /\ reason' \in {"failed", "timeout"}
        /\ UNCHANGED <<emitted, state, index, owner, sessionVars, hostVars, job, retryVars>>
    BY <1>6 DEF ReplaceFails, TakeEvent
  <2>2. events' \in Seq(Event) /\ Len(events') <= QueueCap
    BY <2>1, TakenType
  <2> QED BY <2>1, <2>2, CloseTargetType DEF TypeOK
<1>7. CASE RetryDropped
  BY <1>7 DEF TypeOK, RetryDropped, ClearRetry
<1>8. CASE RetryFires
  <2>1. retryChild \in Handle
    BY <1>8 DEF TypeOK, RetryFires
  <2> QED BY <1>8, <2>1 DEF TypeOK, RetryFires, ClearRetry, Begin, Activating
<1> QED BY <1>1, <1>2, <1>3, <1>4, <1>5, <1>6, <1>7, <1>8 DEF HandleEvent, Retry

LEMMA ActivateType ==
  ASSUME TypeOK, JobInv, Activate
  PROVE  TypeOK'
<1> USE DEF envVars, sessionVars, targetVars, hostVars, retryVars
<1>1. CASE SelectChild
  <2>1. PICK h \in Handle : job' = [job EXCEPT !.chosen = h]
    BY <1>1 DEF SelectChild, Candidates
  <2>2. job' \in [child : Handle \cup {None}, chosen : Handle \cup {None},
                  target : Target \cup {None}, via : {"none", "event", "retry"}]
    BY <2>1 DEF TypeOK
  <2> QED BY <1>1, <2>2 DEF TypeOK, SelectChild, Activating
<1>2. ASSUME NEW t \in Target, Configure(t)
      PROVE  TypeOK'
  <2>1. job' \in [child : Handle \cup {None}, chosen : Handle \cup {None},
                  target : Target \cup {None}, via : {"none", "event", "retry"}]
    BY <1>2 DEF TypeOK, Configure
  <2> QED BY <1>2, <2>1 DEF TypeOK, Configure, Activating
<1>3. ASSUME pc \in Activating, Defer, configurators' \subseteq configurators
      PROVE  TypeOK'
  <2>1. job.child \in Handle
    BY <1>3 DEF JobInv
  <2> QED BY <1>3, <2>1 DEF TypeOK, Defer, ScheduleRetry, NoJob
<1>4. CASE SelectDeferred \/ ConfigureDeferred \/ ApplyDeferred
  BY <1>3, <1>4 DEF Activating, SelectDeferred, ConfigureDeferred, ApplyDeferred
<1>5. ASSUME Fail, configurators' \subseteq configurators, outputs' \subseteq outputs
      PROVE  TypeOK'
  BY <1>5 DEF TypeOK, Fail, NoJob
<1>6. CASE ConfigureFails \/ ApplyFails \/ StartFails
  BY <1>5, <1>6 DEF ConfigureFails, ApplyFails, StartFails
<1>7. CASE StartActions
  BY <1>7, DaemonAssumption DEF TypeOK, JobInv, Activating, Building, StartActions, NoJob
<1>8. CASE Apply
  BY <1>8 DEF TypeOK, Apply, Activating
<1>9. CASE OpenOutput
  BY <1>9 DEF TypeOK, JobInv, Activating, Building, OpenOutput
<1> QED BY <1>1, <1>2, <1>4, <1>6, <1>7, <1>8, <1>9 DEF Activate

-----------------------------------------------------------------------------
(* Sessions, activations and resumes *)

\* The environment moves nothing that the session and job invariants speak of.
LEMMA EnvironmentFrame ==
  ASSUME Environment
  PROVE  UNCHANGED <<pc, reason, job, session, open, configurators, outputs, handlers, active,
                     activeChild, retryChild>>
  BY DEF Environment, Appear, BecomeReady, FallAsleep, FailValidation, Unpair,
         LoseReceiver, Resume, Cancel, EnvOnly, sessionVars, targetVars, retryVars

\* The select and the activation work within one session.
LEMMA WithinSession ==
  ASSUME Interrupt \/ SelectActionError \/ HandleEvent \/ Retry \/ Activate
  PROVE  /\ pc \in {"loop"} \cup Activating
         /\ pc' \in {"loop", "cleanup"} \cup Activating
         /\ UNCHANGED <<session, open, canceled, resumedIn>>
<1> USE DEF Activating, sessionVars, hostVars
<1>1. CASE Interrupt \/ SelectActionError
  BY <1>1 DEF Interrupt, SelectCanceled, SelectLost, SelectResume, SelectActionError, EndFor
<1>2. CASE HandleEvent
  BY <1>2 DEF HandleEvent, DiscardStale, HandleGone, IgnoreReady, HandleReady, ReplaceFails,
              TakeEvent, Begin
<1>3. CASE Retry
  BY <1>3 DEF Retry, RetryDropped, RetryFires, Begin
<1>4. CASE Activate
  BY <1>4 DEF Activate, SelectChild, SelectDeferred, Configure, ConfigureDeferred,
              ConfigureFails, Apply, ApplyDeferred, ApplyFails, OpenOutput, StartFails,
              StartActions, Defer, Fail
<1> QED BY <1>1, <1>2, <1>3, <1>4

LEMMA SessionStep ==
  ASSUME IInv, Next
  PROVE  SessionInv'
<1> USE DEF IInv, SessionInv, SessionsClosed, sessionVars
<1>1. CASE Environment
  BY <1>1, EnvironmentFrame
<1>2. CASE Drain
  BY <1>2 DEF Drain, TypeOK
<1>3. CASE OpenSession \/ OpenedCanceled \/ BeginSession
  BY <1>3 DEF OpenSession, OpenedCanceled, CloseSession, BeginSession, Activating
<1>4. CASE PauseEnds \/ OpenUnavailable
  BY <1>4 DEF PauseEnds, OpenUnavailable
<1>5. CASE TopCanceled \/ OpenCanceled \/ PauseCanceled \/ OpenRefused
  BY <1>5 DEF TopCanceled, OpenCanceled, PauseCanceled, OpenRefused, Return
<1>6. CASE Interrupt \/ SelectActionError \/ HandleEvent \/ Retry \/ Activate
  BY <1>6, WithinSession DEF Activating
<1>7. CASE EndSession
  BY <1>7, AfterRange DEF EndSession, CloseSession
<1> QED BY <1>1, <1>2, <1>3, <1>4, <1>5, <1>6, <1>7 DEF Next, Open, OpenFails

LEMMA ReasonStep ==
  ASSUME IInv, Next
  PROVE  ReasonInv'
<1> USE DEF IInv, ReasonInv
<1>1. CASE Environment
  BY <1>1, EnvironmentFrame
<1>2. CASE Open \/ OpenFails
  BY <1>2 DEF Open, OpenFails, Drain, OpenSession, OpenedCanceled, BeginSession, PauseEnds,
              OpenUnavailable, TopCanceled, OpenCanceled, PauseCanceled, OpenRefused, Return
<1>3. CASE Interrupt \/ SelectActionError
  BY <1>3 DEF Interrupt, SelectCanceled, SelectLost, SelectResume, SelectActionError, EndFor
<1>4. CASE HandleEvent \/ Retry
  BY <1>4 DEF HandleEvent, DiscardStale, HandleGone, IgnoreReady, HandleReady, ReplaceFails,
              TakeEvent, Begin, Retry, RetryDropped, RetryFires
<1>5. CASE Activate
  BY <1>5 DEF Activate, SelectChild, SelectDeferred, Configure, ConfigureDeferred,
              ConfigureFails, Apply, ApplyDeferred, ApplyFails, OpenOutput, StartFails,
              StartActions, Defer, Fail
<1>6. CASE EndSession
  BY <1>6, AfterRange DEF EndSession
<1> QED BY <1>1, <1>2, <1>3, <1>4, <1>5, <1>6 DEF Next

\* Closing the active target takes its configurator, output and action handler.
LEMMA CloseTargetTogether ==
  ASSUME configurators = handlers, outputs = handlers, CloseTarget
  PROVE  configurators' = handlers' /\ outputs' = handlers'
  BY DEF CloseTarget

\* An activation that ends without a target closes what it had opened.
LEMMA JobEnds ==
  ASSUME JobInv, pc' \notin Activating, job' = NoJob, UNCHANGED handlers,
         configurators' = configurators \ {job.target}, outputs' = outputs \ {job.target},
         pc \in Building
  PROVE  JobInv'
  BY DEF JobInv, Activating, Building

LEMMA JobStep ==
  ASSUME IInv, Next
  PROVE  JobInv'
<1> USE DEF IInv, targetVars
<1> DEFINE Rest == /\ pc \notin Activating /\ job = NoJob
                   /\ configurators = handlers /\ outputs = handlers
<1>0. pc \notin Activating => Rest
  BY DEF JobInv, Activating, Building
<1>r. ASSUME pc \notin Activating, pc' \notin Activating, UNCHANGED job,
             CloseTarget \/ UNCHANGED targetVars
      PROVE  JobInv'
  <2>1. Rest'
    BY <1>0, <1>r, CloseTargetTogether
  <2> QED BY <2>1 DEF JobInv, Activating, Building
<1>1. CASE Environment
  BY <1>1, EnvironmentFrame DEF JobInv
<1>2. CASE Open \/ OpenFails
  BY <1>2, <1>r DEF Open, OpenFails, Drain, OpenSession, OpenedCanceled, BeginSession, PauseEnds,
              OpenUnavailable, TopCanceled, OpenCanceled, PauseCanceled, OpenRefused, Return,
              Activating
<1>3. CASE Interrupt \/ SelectActionError
  BY <1>3, <1>r DEF Interrupt, SelectCanceled, SelectLost, SelectResume, SelectActionError,
                    EndFor, Activating
<1>4. CASE DiscardStale \/ IgnoreReady \/ RetryDropped
  BY <1>4, <1>r DEF DiscardStale, IgnoreReady, RetryDropped, TakeEvent, Activating
<1>5. CASE HandleGone
  BY <1>5, <1>r DEF HandleGone, TakeEvent, Activating
<1>6. CASE HandleReady
  <2>1. Head(events) \in Event
    BY <1>6, QueueHead DEF HandleReady, TakeEvent
  <2>2. job'.child \in Handle /\ pc' = "configure"
    BY <1>6, <2>1 DEF HandleReady, Begin, Event
  <2>3. configurators' = handlers' /\ outputs' = handlers'
    BY <1>0, <1>6, CloseTargetTogether DEF HandleReady, TakeEvent, Activating
  <2> QED BY <2>2, <2>3 DEF JobInv, Activating, Building
<1>7. CASE ReplaceFails
  BY <1>7, <1>r DEF ReplaceFails, TakeEvent, Activating
<1>8. CASE RetryFires
  <2>1. retryChild \in Handle
    BY <1>8 DEF TypeOK, RetryFires
  <2>2. job'.child \in Handle /\ pc' = "configure"
    BY <1>8, <2>1 DEF RetryFires, Begin
  <2> QED BY <1>0, <1>8, <2>2 DEF RetryFires, JobInv, Activating, Building
<1>9. CASE SelectChild
  <2>1. job'.child = job.child
    BY <1>9 DEF SelectChild, TypeOK
  <2> QED BY <1>9, <2>1 DEF SelectChild, JobInv, Activating, Building
<1>10. ASSUME NEW t \in Target, Configure(t)
       PROVE  JobInv'
  <2>1. job'.child = job.child /\ job'.target = t
    BY <1>10 DEF Configure, TypeOK
  <2> QED BY <1>10, <2>1 DEF Configure, JobInv, Activating, Building
<1>11. CASE SelectDeferred \/ ConfigureDeferred
  BY <1>11 DEF SelectDeferred, ConfigureDeferred, Defer, JobInv, Activating, Building
<1>12. CASE ConfigureFails
  BY <1>12 DEF ConfigureFails, Fail, JobInv, Activating, Building
<1>13. CASE Apply
  BY <1>13 DEF Apply, JobInv, Activating, Building
<1>14. CASE ApplyDeferred
  <2>1. outputs' = outputs \ {job.target}
    BY <1>14 DEF ApplyDeferred, Defer, JobInv, Building
  <2> QED BY <1>14, <2>1, JobEnds DEF ApplyDeferred, Defer, Activating, Building
<1>15. CASE ApplyFails
  <2>1. outputs' = outputs \ {job.target}
    BY <1>15 DEF ApplyFails, JobInv, Building
  <2> QED BY <1>15, <2>1, JobEnds DEF ApplyFails, Fail, Activating, Building
<1>16. CASE OpenOutput
  BY <1>16 DEF OpenOutput, JobInv, Activating, Building
<1>17. CASE StartFails
  BY <1>17, JobEnds DEF StartFails, Fail, Activating, Building
<1>18. CASE StartActions
  BY <1>18 DEF StartActions, JobInv, Activating, Building
<1>19. CASE EndSession
  <2>1. pc' \notin Activating
    BY <1>19, AfterRange DEF EndSession, Activating
  <2> QED BY <1>19, <2>1, <1>r DEF EndSession, Activating
<1> QED BY <1>1, <1>2, <1>3, <1>4, <1>5, <1>6, <1>7, <1>8, <1>9, <1>10, <1>11, <1>12, <1>13,
           <1>14, <1>15, <1>16, <1>17, <1>18, <1>19 DEF Next, HandleEvent, Retry, Activate

LEMMA ResumeStep ==
  ASSUME IInv, Next
  PROVE  ResumeInv'
<1> USE DEF IInv, ResumeInv, Activating, hostVars, sessionVars
<1>1. CASE Resume
  BY <1>1 DEF Resume, TypeOK
<1>2. CASE Environment /\ ~Resume
  BY <1>2 DEF Environment, Appear, BecomeReady, FallAsleep, FailValidation, Unpair,
              LoseReceiver, Cancel, EnvOnly
<1>3. CASE Drain
  BY <1>3 DEF Drain, TypeOK
<1>4. CASE OpenSession \/ OpenedCanceled \/ BeginSession
  BY <1>4 DEF OpenSession, OpenedCanceled, CloseSession, BeginSession
<1>5. CASE PauseEnds \/ OpenUnavailable
  BY <1>5 DEF PauseEnds, OpenUnavailable
<1>6. CASE TopCanceled \/ OpenCanceled \/ PauseCanceled \/ OpenRefused
  BY <1>6 DEF TopCanceled, OpenCanceled, PauseCanceled, OpenRefused, Return
<1>7. CASE Interrupt \/ SelectActionError
  BY <1>7 DEF Interrupt, SelectCanceled, SelectLost, SelectResume, SelectActionError, EndFor
<1>8. CASE HandleEvent
  BY <1>8 DEF HandleEvent, DiscardStale, HandleGone, IgnoreReady, HandleReady, ReplaceFails,
              TakeEvent, Begin
<1>9. CASE Retry
  BY <1>9 DEF Retry, RetryDropped, RetryFires, Begin
<1>10. CASE Activate
  BY <1>10 DEF Activate, SelectChild, SelectDeferred, Configure, ConfigureDeferred,
               ConfigureFails, Apply, ApplyDeferred, ApplyFails, OpenOutput, StartFails,
              StartActions, Defer, Fail
<1>11. CASE EndSession
  BY <1>11, AfterRange DEF EndSession, CloseSession
<1> QED BY <1>1, <1>2, <1>3, <1>4, <1>5, <1>6, <1>7, <1>8, <1>9, <1>10, <1>11
        DEF Next, Open, OpenFails

-----------------------------------------------------------------------------
(* Events of earlier sessions *)

\* Every event is that of a handle.
LEMMA EventChild ==
  ASSUME TypeOK
  PROVE  \A i \in 1..Len(events) : events[i].child \in Handle
<1> SUFFICES ASSUME NEW i \in 1..Len(events) PROVE events[i].child \in Handle
  OBVIOUS
<1>1. events[i] \in Event
  BY ElementOfSeq DEF TypeOK
<1> QED BY <1>1 DEF Event

\* The daemon turns to no other child, and takes no event.
LEMMA InUseKept ==
  ASSUME QueueInv, InUse' \subseteq InUse, UNCHANGED <<events, state, owner, session>>
  PROVE  QueueInv'
  BY DEF QueueInv, StaleIsHarmless, Stale

\* It takes an event, and may act for its child: if that one is of the current
\* session, so are all that follow.
LEMMA EventTaken ==
  ASSUME TypeOK, QueueInv, events # << >>, events' = Tail(events),
         InUse' \subseteq InUse \cup {Head(events).child}, UNCHANGED <<state, owner, session>>
  PROVE  QueueInv'
<1>1. events \in Seq(Event) /\ Len(events) \in Nat \ {0}
  BY EmptySeq DEF TypeOK
<1>2. Head(events) = events[1] /\ 1 \in 1..Len(events)
  BY <1>1
<1>3. Len(events') = Len(events) - 1
  BY <1>1, HeadTailProperties
<1>4. \A i \in 1..Len(events') : i + 1 \in 1..Len(events) /\ events'[i] = events[i + 1]
  BY <1>1, <1>3
<1>5. \A i \in 1..Len(events') : state'[events'[i].child] # "unused"
  BY <1>4 DEF QueueInv
<1>6. ASSUME NEW i \in 1..Len(events'), NEW j \in 1..Len(events'), i < j,
             owner'[events'[i].child] = session'
      PROVE  owner'[events'[j].child] = session'
  BY <1>1, <1>3, <1>4, <1>6 DEF QueueInv, Stale
<1>7. ASSUME NEW h \in InUse', owner'[h] = session', NEW i \in 1..Len(events')
      PROVE  owner'[events'[i].child] = session'
  <2>1. CASE h \in InUse
    BY <1>4, <1>7, <2>1 DEF QueueInv, StaleIsHarmless, Stale
  <2>2. CASE h = Head(events).child
    BY <1>1, <1>2, <1>3, <1>4, <1>7, <2>2 DEF QueueInv, Stale
  <2> QED BY <1>7, <2>1, <2>2
<1>8. \A h \in InUse' : state'[h] # "unused"
  BY <1>2 DEF QueueInv
<1> QED BY <1>5, <1>6, <1>7, <1>8 DEF QueueInv, StaleIsHarmless, Stale

\* A child of an open session emits an event, which is one of the current session.
LEMMA EventEmitted ==
  ASSUME TypeOK, SessionInv, QueueInv, NEW h \in Handle, Alive(h), NEW type,
         Emit(type, h), \A g \in Handle : state'[g] = "unused" => state[g] = "unused",
         UNCHANGED <<owner, session, active, activeChild, retryChild, job>>
  PROVE  QueueInv'
<1>0. owner[h] = session /\ state[h] # "unused"
  BY DEF Alive, SessionInv, SessionsClosed
<1>i. InUse' = InUse /\ InUse \subseteq Handle
  BY DEF InUse, TypeOK
<1>t. \A i \in 1..Len(events) : events[i].child \in Handle
  BY EventChild
<1>u. \A g \in Handle : state[g] # "unused" => state'[g] # "unused"
  OBVIOUS
<1>1. CASE events' = events
  BY <1>1, <1>i, <1>t, <1>u DEF QueueInv, StaleIsHarmless, Stale
<1>2. CASE events' = Append(events, [type |-> type, child |-> h])
  <2>1. events \in Seq(Event) /\ Len(events) \in Nat
    BY LenProperties DEF TypeOK
  <2>2. Len(events') = Len(events) + 1
    BY <1>2, <2>1
  <2>3. \A i \in 1..Len(events') :
          IF i \in 1..Len(events) THEN events'[i] = events[i]
                                  ELSE i = Len(events) + 1 /\ events'[i].child = h
    BY <1>2, <2>1, <2>2
  <2>4. \A i \in 1..Len(events') : state'[events'[i].child] # "unused"
    BY <1>0, <1>t, <1>u, <2>3 DEF QueueInv
  <2>5. ASSUME NEW i \in 1..Len(events'), NEW j \in 1..Len(events'), i < j,
               owner'[events'[i].child] = session'
        PROVE  owner'[events'[j].child] = session'
    BY <1>0, <2>1, <2>2, <2>3, <2>5 DEF QueueInv, Stale
  <2>6. ASSUME NEW g \in InUse', owner'[g] = session', NEW i \in 1..Len(events')
        PROVE  owner'[events'[i].child] = session'
    BY <1>0, <1>i, <2>3, <2>6 DEF QueueInv, StaleIsHarmless, Stale
  <2> QED BY <1>i, <1>u, <2>4, <2>5, <2>6 DEF QueueInv, StaleIsHarmless, Stale
<1> QED BY <1>1, <1>2 DEF Emit

\* A child appears: nobody has heard of it.
LEMMA ChildAppears ==
  ASSUME TypeOK, QueueInv, NEW h \in Handle, Appear(h)
  PROVE  QueueInv'
<1>1. /\ state[h] = "unused" /\ session' = session /\ events' = events
      /\ state' = [state EXCEPT ![h] = "added"] /\ owner' = [owner EXCEPT ![h] = session]
  BY DEF Appear, EnvOnly, sessionVars
<1>2. InUse' = InUse /\ InUse \subseteq Handle \ {h}
  BY <1>1 DEF Appear, EnvOnly, targetVars, retryVars, InUse, TypeOK, QueueInv
<1>3. \A i \in 1..Len(events) : events[i].child \in Handle \ {h}
  BY <1>1, EventChild DEF QueueInv
<1>4. \A g \in Handle : owner'[g] <= session'
  BY <1>1, DaemonAssumption DEF QueueInv, TypeOK
<1>5. \A g \in Handle \ {h} : owner'[g] = owner[g] /\ state'[g] = state[g]
  BY <1>1 DEF TypeOK
<1> QED BY <1>1, <1>2, <1>3, <1>4, <1>5 DEF QueueInv, StaleIsHarmless, Stale

\* With no child in use, the children may be removed, and their session be over.
LEMMA NothingInUse ==
  ASSUME TypeOK, QueueInv, InUse' = {}, UNCHANGED <<events, owner, session>>,
         \A h \in Handle : state'[h] = "unused" => state[h] = "unused"
  PROVE  QueueInv'
<1>1. \A i \in 1..Len(events) : events[i].child \in Handle
  BY EventChild
<1> QED BY <1>1 DEF QueueInv, StaleIsHarmless, Stale

\* A new session begins: every event and every child so far is of an earlier one.
LEMMA SessionCounted ==
  ASSUME TypeOK, QueueInv, InUse' = {}, UNCHANGED <<events, owner, state>>,
         session' = session + 1
  PROVE  QueueInv'
<1>1. \A i \in 1..Len(events) : events[i].child \in Handle
  BY EventChild
<1>2. \A h \in Handle : owner[h] < session' /\ owner[h] \in Nat
  BY DEF QueueInv, TypeOK
<1>3. session' \in Nat
  BY DEF TypeOK
<1>4. \A i \in 1..Len(events) : owner'[events'[i].child] # session'
  BY <1>1, <1>2, <1>3
<1> QED BY <1>2, <1>3, <1>4 DEF QueueInv, StaleIsHarmless, Stale

LEMMA QueueStep ==
  ASSUME IInv, Next
  PROVE  QueueInv'
<1> USE DEF IInv, EventInv
<1>1. CASE Environment
  <2> USE DEF EnvOnly, sessionVars, targetVars, retryVars
  <2>1. ASSUME NEW h \in Handle, Appear(h)
        PROVE  QueueInv'
    BY <2>1, ChildAppears
  <2>2. ASSUME NEW h \in Handle, BecomeReady(h)
        PROVE  QueueInv'
    <3>1. \A g \in Handle : state'[g] = "unused" => state[g] = "unused"
      BY <2>2 DEF BecomeReady, TypeOK
    <3>2. /\ Alive(h) /\ Emit("ready", h)
          /\ UNCHANGED <<owner, session, active, activeChild, retryChild, job>>
      BY <2>2 DEF BecomeReady
    <3> QED BY <3>1, <3>2, EventEmitted
  <2>3. ASSUME NEW h \in Handle, FallAsleep(h)
        PROVE  QueueInv'
    <3>1. \A g \in Handle : state'[g] = "unused" => state[g] = "unused"
      BY <2>3 DEF FallAsleep, TypeOK
    <3>2. /\ Alive(h) /\ Emit("sleeping", h)
          /\ UNCHANGED <<owner, session, active, activeChild, retryChild, job>>
      BY <2>3 DEF FallAsleep
    <3> QED BY <3>1, <3>2, EventEmitted
  <2>4. ASSUME NEW h \in Handle, FailValidation(h)
        PROVE  QueueInv'
    <3>1. state' = [state EXCEPT ![h] = "sleeping"] /\ InUse' = InUse
      BY <2>4 DEF FailValidation, InUse
    <3>2. \A g \in Handle : state[g] # "unused" => state'[g] # "unused"
      BY <3>1 DEF TypeOK
    <3>3. InUse \subseteq Handle
      BY DEF InUse, TypeOK
    <3> QED BY <2>4, <3>1, <3>2, <3>3, EventChild
            DEF FailValidation, QueueInv, StaleIsHarmless, Stale
  <2>5. ASSUME NEW h \in Handle, Unpair(h)
        PROVE  QueueInv'
    <3>1. \A g \in Handle : state'[g] = "unused" => state[g] = "unused"
      BY <2>5 DEF Unpair, TypeOK
    <3>2. /\ Alive(h) /\ Emit("removed", h)
          /\ UNCHANGED <<owner, session, active, activeChild, retryChild, job>>
      BY <2>5 DEF Unpair
    <3> QED BY <3>1, <3>2, EventEmitted
  <2>6. CASE LoseReceiver \/ Resume \/ Cancel
    BY <2>6, InUseKept DEF LoseReceiver, Resume, Cancel, envVars, InUse
  <2> QED BY <1>1, <2>1, <2>2, <2>3, <2>4, <2>5, <2>6 DEF Environment
<1>2. CASE Open \/ OpenFails
  <2> USE DEF envVars, sessionVars, targetVars, retryVars
  <2>1. CASE Drain
    <3>1. InUse' = {}
      BY <2>1 DEF Drain, InUse
    <3> QED BY <2>1, <3>1, SessionCounted DEF Drain
  <2>2. CASE OpenedCanceled
    <3>1. InUse' = {}
      BY <2>2 DEF OpenedCanceled, InUse
    <3>2. \A h \in Handle : state'[h] = "unused" => state[h] = "unused"
      BY <2>2 DEF OpenedCanceled, CloseSession
    <3> QED BY <2>2, <3>1, <3>2, NothingInUse DEF OpenedCanceled, CloseSession
  <2>3. CASE OpenSession \/ BeginSession \/ PauseEnds \/ OpenUnavailable
    BY <2>3, InUseKept DEF OpenSession, BeginSession, PauseEnds, OpenUnavailable, InUse
  <2>4. CASE TopCanceled \/ OpenCanceled \/ PauseCanceled \/ OpenRefused
    BY <2>4, InUseKept DEF TopCanceled, OpenCanceled, PauseCanceled, OpenRefused, Return, InUse
  <2> QED BY <1>2, <2>1, <2>2, <2>3, <2>4 DEF Open, OpenFails
<1>3. CASE Interrupt \/ SelectActionError \/ Retry
  BY <1>3, InUseKept DEF Interrupt, SelectCanceled, SelectLost, SelectResume, SelectActionError,
                         EndFor, Retry, RetryDropped, RetryFires, ClearRetry, Begin, InUse,
                         envVars, sessionVars, targetVars, retryVars
<1>4. CASE HandleEvent
  <2>1. /\ events # << >> /\ events' = Tail(events) /\ UNCHANGED <<state, owner, session>>
    BY <1>4 DEF HandleEvent, DiscardStale, HandleGone, IgnoreReady, HandleReady, ReplaceFails,
                TakeEvent, sessionVars
  <2>2. InUse' \subseteq InUse \cup {Head(events).child}
    <3> USE DEF CloseTarget, ClearRetry, targetVars, retryVars, InUse
    <3>1. CASE DiscardStale \/ IgnoreReady
      BY <3>1 DEF DiscardStale, IgnoreReady
    <3>2. CASE HandleGone
      BY <3>2 DEF HandleGone
    <3>3. CASE HandleReady
      BY <3>3 DEF HandleReady, Begin
    <3>4. CASE ReplaceFails
      BY <3>4 DEF ReplaceFails
    <3> QED BY <1>4, <3>1, <3>2, <3>3, <3>4 DEF HandleEvent
  <2> QED BY <2>1, <2>2, EventTaken
<1>5. CASE Activate
  <2>1. UNCHANGED <<events, state, owner, session>>
    BY <1>5 DEF Activate, SelectChild, SelectDeferred, Configure, ConfigureDeferred,
                ConfigureFails, Apply, ApplyDeferred, ApplyFails, OpenOutput, StartFails,
                StartActions, Defer, Fail, envVars, sessionVars
  <2>2. InUse' \subseteq InUse
    <3> USE DEF InUse, targetVars, retryVars, NoJob
    <3>1. CASE SelectChild
      <4>1. job'.child = job.child
        BY <3>1 DEF SelectChild, TypeOK
      <4> QED BY <3>1, <4>1 DEF SelectChild
    <3>2. ASSUME NEW t \in Target, Configure(t)
          PROVE  InUse' \subseteq InUse
      <4>1. job'.child = job.child
        BY <3>2 DEF Configure, TypeOK
      <4> QED BY <3>2, <4>1 DEF Configure
    <3>3. CASE SelectDeferred \/ ConfigureDeferred \/ ApplyDeferred
      BY <3>3 DEF SelectDeferred, ConfigureDeferred, ApplyDeferred, Defer, ScheduleRetry
    <3>4. CASE ConfigureFails \/ ApplyFails \/ StartFails
      BY <3>4 DEF ConfigureFails, ApplyFails, StartFails, Fail
    <3>5. CASE Apply \/ OpenOutput
      BY <3>5 DEF Apply, OpenOutput
    <3>6. CASE StartActions
      BY <3>6 DEF StartActions
    <3> QED BY <1>5, <3>1, <3>2, <3>3, <3>4, <3>5, <3>6 DEF Activate
  <2> QED BY <2>1, <2>2, InUseKept
<1>6. CASE EndSession
  <2>1. InUse' = {}
    BY <1>6 DEF EndSession, ClearRetry, CloseTarget, InUse, JobInv, Activating, NoJob
  <2>2. \A h \in Handle : state'[h] = "unused" => state[h] = "unused"
    BY <1>6 DEF EndSession, CloseSession
  <2> QED BY <1>6, <2>1, <2>2, NothingInUse DEF EndSession, CloseSession
<1> QED BY <1>1, <1>2, <1>3, <1>4, <1>5, <1>6 DEF Next

LEMMA EventStep ==
  ASSUME IInv, Next
  PROVE  EventInv'
<1> DEFINE Outside == {"top", "open", "opened", "pause", "returned"}
<1>1. QueueInv'
  BY QueueStep
<1>2. pc' \in Outside => InUse' = {}
  <2> USE DEF IInv, EventInv, targetVars, retryVars
  <2>1. CASE Environment
    BY <2>1, EnvironmentFrame DEF InUse
  <2>2. CASE Open \/ OpenFails
    BY <2>2 DEF Open, OpenFails, Drain, OpenSession, OpenedCanceled, BeginSession, PauseEnds,
                OpenUnavailable, TopCanceled, OpenCanceled, PauseCanceled, OpenRefused, Return,
                InUse
  <2>3. CASE Interrupt \/ SelectActionError \/ HandleEvent \/ Retry \/ Activate
    BY <2>3, WithinSession DEF Activating
  <2>4. CASE EndSession
    BY <2>4 DEF EndSession, ClearRetry, CloseTarget, InUse, JobInv, Activating, NoJob
  <2> QED BY <2>1, <2>2, <2>3, <2>4 DEF Next
<1> QED BY <1>1, <1>2 DEF EventInv

LEMMA StepInv == IInv /\ [Next]_vars => IInv'
<1> SUFFICES ASSUME IInv, [Next]_vars PROVE IInv'
  OBVIOUS
<1>1. CASE Next
  <2>1. TypeOK'
    BY <1>1, EnvironmentType, RunType, SelectType, ActivateType DEF IInv, Next
  <2> QED BY <1>1, <2>1, SessionStep, ReasonStep, JobStep, ResumeStep, EventStep DEF IInv
<1>2. CASE UNCHANGED vars
  <2> USE DEF vars, envVars, sessionVars, targetVars, hostVars, retryVars, Activating
  <2>1. TypeOK'
    BY <1>2 DEF IInv, TypeOK, Event
  <2>2. SessionInv' /\ ReasonInv' /\ JobInv' /\ ResumeInv'
    BY <1>2 DEF IInv, SessionInv, SessionsClosed, ReasonInv, JobInv, Building, ResumeInv
  <2>3. InUse' = InUse
    BY <1>2 DEF InUse
  <2>4. EventInv'
    BY <1>2, <2>3, InUseKept DEF IInv, EventInv
  <2> QED BY <2>1, <2>2, <2>4 DEF IInv
<1> QED BY <1>1, <1>2

THEOREM Invariance == Spec => []IInv
<1>1. Init => IInv
  BY InitInv
<1>2. IInv /\ [Next]_vars => IInv'
  BY StepInv
<1> QED BY <1>1, <1>2, PTL DEF Spec

-----------------------------------------------------------------------------

\* Every variable of the daemon keeps its type; in particular the event queue
\* never grows past its capacity, however many events the receiver emits.
THEOREM TypeCorrect == Spec => []TypeOK
<1>1. IInv => TypeOK
  BY DEF IInv
<1> QED BY <1>1, Invariance, PTL

\* Run never returns, waits or reconnects while a receiver session is open, and
\* never has two.
THEOREM SessionsAreClosed == Spec => []SessionsClosed
<1>1. IInv => SessionsClosed
  BY DEF IInv, SessionInv
<1> QED BY <1>1, Invariance, PTL

\* Wherever an activation is deferred or fails, it closes the configurator and the
\* output it has opened.
THEOREM NoTargetIsHalfOpen == Spec => []NoHalfTarget
<1>1. IInv => NoHalfTarget
  BY DEF IInv, JobInv, Building, NoHalfTarget
<1> QED BY <1>1, Invariance, PTL

\* A resume that arrives while a session is opened or used recycles that session.
THEOREM ResumesAreKept == Spec => []ResumeNotLost
<1>1. IInv => ResumeNotLost
  BY DEF IInv, ResumeInv, Activating, ResumeNotLost
<1> QED BY <1>1, Invariance, PTL

\* Once the daemon has acted for a child of the current session, no event of an
\* earlier one is left in the queue.
THEOREM StaleEventsAreGone == Spec => []StaleIsHarmless
<1>1. IInv => StaleIsHarmless
  BY DEF IInv, EventInv, QueueInv
<1> QED BY <1>1, Invariance, PTL

=============================================================================
