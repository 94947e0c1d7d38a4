---------------------------- MODULE DeviceSession ----------------------------
(***************************************************************************)
(* The HID++ 2.0 child session of internal/hidpp/feature.go: lookups fill a *)
(* cache of feature indices under a lock they hold for the whole exchange, *)
(* and the receiver's worker resets and pings the child after it has woken. *)
(*                                                                         *)
(* A life of the device is what lies between two times it was switched on; *)
(* an index is known by the feature and the life it was given in.  All     *)
(* lookups have one response key, so an answer to a lookup is taken by the *)
(* one that waits (Session.takePending); if none does, it is dropped.  The *)
(* ping has another key, and its answer is ReceiverSession's.  Events and  *)
(* their subscription are part of Configurator.                            *)
(***************************************************************************)
EXTENDS Naturals, Sequences, SequencesExt

CONSTANTS
  Feature,    \* feature identifiers
  User,       \* goroutines that look features up
  MaxLives,   \* bound on how often the device is switched on
  MaxWire,    \* requests and answers that can be under way at once
  None        \* no entry, no holder, no answer

ASSUME DeviceAssumption ==
  /\ MaxLives \in Nat \ {0} /\ MaxWire \in Nat \ {0}
  /\ None \notin Feature /\ None \notin User
  /\ None \notin [of : Feature, life : 1..MaxLives]

VARIABLES
  closed,
  hasVersion, \* the child has answered a ping since the last Reset
  cache,      \* features: per feature its index, or None
  lock,       \* the holder of featureMu, None while it is free
  pc,         \* per User: "idle", "lock", "wait", "answered"
  wanted,     \* the feature a User looks up, None while idle
  worker,     \* in initialize: "idle", "reset", "validate"
  reply,      \* the answer delivered to a lookup
  life,       \* the device's present life
  requests,   \* requests the device has not handled
  answers,    \* answers the reader has not read
  resetAt,    \* history: the life when the last Reset was called
  since,      \* history: the same of the last Reset that has returned
  abandoned   \* history: a lookup gave up while its answer was under way

cacheVars == <<hasVersion, cache, lock>>
userVars == <<pc, wanted, reply>>
wireVars == <<life, requests, answers>>
historyVars == <<resetAt, since, abandoned>>

vars == <<closed, cacheVars, userVars, worker, wireVars, historyVars>>

Life == 1..MaxLives

\* The index a device gave to a feature; not found, the answer is index 0.
Index == [of : Feature, life : Life]
Answer == [of : Feature, life : Life, found : BOOLEAN]

Init ==
  /\ closed = FALSE
  /\ hasVersion = FALSE
  /\ cache = [f \in Feature |-> None]
  /\ lock = None
  /\ pc = [u \in User |-> "idle"]
  /\ wanted = [u \in User |-> None]
  /\ worker = "idle"
  /\ reply = None
  /\ life = 1
  /\ requests = << >>
  /\ answers = << >>
  /\ resetAt = 1
  /\ since = 1
  /\ abandoned = FALSE

-----------------------------------------------------------------------------
(* The device and the reader *)

\* A request the device has no room for is lost, like one it never hears.
Transmit(r) ==
  /\ requests' = IF Len(requests) + Len(answers) < MaxWire
                   THEN Append(requests, r) ELSE requests
  /\ UNCHANGED <<life, answers>>

Respond ==
  /\ requests # << >>
  /\ requests' = Tail(requests)
  /\ \/ \E found \in BOOLEAN :
          answers' = Append(answers, [of |-> Head(requests), life |-> life, found |-> found])
     \/ UNCHANGED answers
  /\ UNCHANGED <<closed, cacheVars, userVars, worker, life, historyVars>>

PowerCycle ==
  /\ life < MaxLives
  /\ life' = life + 1
  /\ requests' = << >>
  /\ UNCHANGED <<closed, cacheVars, userVars, worker, answers, historyVars>>

\* dispatch: the lookup that waits receives the answer, whatever it asked for.
ReadAnswer ==
  /\ answers # << >>
  /\ answers' = Tail(answers)
  /\ \/ /\ \E u \in User : pc[u] = "wait" /\ pc' = [pc EXCEPT ![u] = "answered"]
        /\ reply' = Head(answers)
     \/ /\ \A u \in User : pc[u] # "wait"
        /\ UNCHANGED <<pc, reply>>
  /\ UNCHANGED <<closed, cacheVars, wanted, worker, life, requests, historyVars>>

-----------------------------------------------------------------------------
(* LookupFeature *)

LookupFeature(u, f) ==
  /\ pc[u] = "idle"
  /\ ~closed
  /\ pc' = [pc EXCEPT ![u] = "lock"]
  /\ wanted' = [wanted EXCEPT ![u] = f]
  /\ UNCHANGED <<closed, cacheVars, reply, worker, wireVars, historyVars>>

\* The deferred Unlock.
Return(u) ==
  /\ lock' = None
  /\ pc' = [pc EXCEPT ![u] = "idle"]
  /\ wanted' = [wanted EXCEPT ![u] = None]
  /\ reply' = None

\* The lock is free and the feature is cached.
Hit(u) ==
  /\ pc[u] = "lock"
  /\ lock = None
  /\ cache[wanted[u]] # None
  /\ Return(u)
  /\ UNCHANGED <<closed, hasVersion, cache, worker, wireVars, historyVars>>

AskUnlocked(u) ==             \* mutant: the lock is not held during the exchange
  /\ pc[u] = "lock"
  /\ lock = None
  /\ cache[wanted[u]] = None
  /\ pc' = [pc EXCEPT ![u] = "wait"]
  /\ Transmit(wanted[u])
  /\ UNCHANGED <<closed, cacheVars, wanted, reply, worker, historyVars>>

\* It is not, and the lock is kept for the exchange.
Ask(u) ==
  /\ pc[u] = "lock"
  /\ lock = None
  /\ cache[wanted[u]] = None
  /\ lock' = u
  /\ pc' = [pc EXCEPT ![u] = "wait"]
  /\ Transmit(wanted[u])
  /\ UNCHANGED <<closed, hasVersion, cache, wanted, reply, worker, historyVars>>

ReceiveHolding(u) ==          \* mutant: an absent feature returns with the lock
  /\ pc[u] = "answered"
  /\ IF reply.found
       THEN /\ cache' = [cache EXCEPT ![wanted[u]] = [of |-> reply.of, life |-> reply.life]]
            /\ Return(u)
       ELSE /\ pc' = [pc EXCEPT ![u] = "idle"]
            /\ UNCHANGED <<cache, lock, wanted, reply>>
  /\ UNCHANGED <<closed, hasVersion, worker, wireVars, historyVars>>

\* The answer has the index, not the feature it belongs to.
Receive(u) ==
  /\ pc[u] = "answered"
  /\ cache' = IF reply.found
                THEN [cache EXCEPT ![wanted[u]] = [of |-> reply.of, life |-> reply.life]]
                ELSE cache
  /\ Return(u)
  /\ UNCHANGED <<closed, hasVersion, worker, wireVars, historyVars>>

UnderWay == requests # << >> \/ answers # << >>

GiveUpHolding(u) ==           \* mutant: a failed exchange returns with the lock
  /\ pc[u] \in {"wait", "answered"}
  /\ pc' = [pc EXCEPT ![u] = "idle"]
  /\ reply' = None
  /\ abandoned' = (abandoned \/ UnderWay)
  /\ UNCHANGED <<closed, cacheVars, wanted, worker, wireVars, resetAt, since>>

\* Exchange fails: the deadline, the session's end, or an error of the device.
GiveUp(u) ==
  /\ pc[u] \in {"wait", "answered"}
  /\ Return(u)
  /\ abandoned' = (abandoned \/ UnderWay)
  /\ UNCHANGED <<closed, hasVersion, cache, worker, wireVars, resetAt, since>>

-----------------------------------------------------------------------------
(* The worker's initialize: Reset, then Validate *)

\* Reset forgets the version first and then waits for the feature lock.
ResetVersion ==
  /\ worker = "idle"
  /\ worker' = "reset"
  /\ hasVersion' = FALSE
  /\ resetAt' = life
  /\ UNCHANGED <<closed, cache, lock, userVars, wireVars, since, abandoned>>

ResetFeatures ==
  /\ worker = "reset"
  /\ lock = None
  /\ cache' = [f \in Feature |-> None]
  /\ since' = resetAt
  /\ worker' = "validate"
  /\ UNCHANGED <<closed, hasVersion, lock, userVars, wireVars, resetAt, abandoned>>

\* Validate: a ping that is answered, that fails, or that is not sent.
Validate ==
  /\ worker = "validate"
  /\ worker' = "idle"
  /\ hasVersion' \in IF closed THEN {hasVersion} ELSE {hasVersion, TRUE}
  /\ UNCHANGED <<closed, cache, lock, userVars, wireVars, historyVars>>

Close ==
  /\ ~closed
  /\ closed' = TRUE
  /\ UNCHANGED <<cacheVars, userVars, worker, wireVars, historyVars>>

-----------------------------------------------------------------------------

Enter(u) == Hit(u) \/ Ask(u)

Next ==
  \/ \E u \in User :
       \/ \E f \in Feature : LookupFeature(u, f)
       \/ Enter(u) \/ Receive(u) \/ GiveUp(u)
  \/ ResetVersion \/ ResetFeatures \/ Validate
  \/ Respond \/ PowerCycle \/ ReadAnswer
  \/ Close

Spec == Init /\ [][Next]_vars

\* Goroutines are scheduled and every exchange has a deadline.  A sync.Mutex
\* hands itself to a goroutine that has waited too long, so nobody who asks for
\* the lock is passed over for ever.
FairSpec ==
  /\ Spec
  /\ \A u \in User : SF_vars(Enter(u)) /\ WF_vars(Receive(u)) /\ WF_vars(GiveUp(u))
  /\ SF_vars(ResetFeatures) /\ WF_vars(Validate)

-----------------------------------------------------------------------------
(* Properties *)

TypeOK ==
  /\ closed \in BOOLEAN /\ abandoned \in BOOLEAN /\ hasVersion \in BOOLEAN
  /\ cache \in [Feature -> Index \cup {None}]
  /\ lock \in User \cup {None}
  /\ pc \in [User -> {"idle", "lock", "wait", "answered"}]
  /\ \A u \in User : pc[u] \in {"wait", "answered"} <=> lock = u
  /\ wanted \in [User -> Feature \cup {None}]
  /\ \A u \in User : wanted[u] = None <=> pc[u] = "idle"
  /\ worker \in {"idle", "reset", "validate"}
  /\ reply \in Answer \cup {None}
  /\ life \in Life /\ resetAt \in 1..life /\ since \in 1..resetAt
  /\ requests \in Seq(Feature)
  /\ answers \in Seq(Answer)
  /\ Len(requests) + Len(answers) <= MaxWire

\* Reset invalidates what was looked up before it: once it has returned, no
\* cached index was given in a life that ended before Reset was called, although
\* a lookup may have been under way; and each index belongs to its feature.
\* This needs that no lookup was given up while its answer was still to come.
CacheIsRight ==
  ~abandoned => \A f \in Feature :
    cache[f] # None => cache[f].of = f /\ cache[f].life >= since

\* Every lookup returns, also while others and the worker want the lock, and
\* while the device is mute.
LookupsReturn == \A u \in User : pc[u] = "lock" ~> pc[u] = "idle"

\* Reset, for which the receiver's only worker waits, returns while goroutines
\* go on looking features up.
ResetReturns == worker = "reset" ~> worker # "reset"

-----------------------------------------------------------------------------
(* What is said of the code and does not hold: TLC finds a counterexample.   *)

\* LookupFeature resolves a feature identifier: the index it keeps for a
\* feature is the one the device gave for that feature.
IndexIsOwn == \A f \in Feature : cache[f] # None => cache[f].of = f
=============================================================================
