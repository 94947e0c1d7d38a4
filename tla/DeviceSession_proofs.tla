------------------------ MODULE DeviceSession_proofs ------------------------
(***************************************************************************)
(* The feature cache for any number of features, goroutines and lives of   *)
(* the device.                                                             *)
(***************************************************************************)
EXTENDS DeviceSession, SequenceTheorems, TLAPS

\* Until a lookup is given up while its answer is under way, whatever is on the
\* wire is the exchange of the lookup that waits, which holds the feature lock:
\* its request, or the answer to it, from no life before the last Reset.
WireInv ==
  ~abandoned =>
    /\ Len(requests) + Len(answers) <= 1
    /\ UnderWay => lock \in User /\ pc[lock] = "wait"
    /\ requests # << >> => Head(requests) = wanted[lock]
    /\ answers # << >> => Head(answers).of = wanted[lock] /\ Head(answers).life >= since

\* The same of an answer that has been delivered.
ReplyInv ==
  \A u \in User : pc[u] = "answered" =>
    /\ reply \in Answer
    /\ ~abandoned => reply.of = wanted[u] /\ reply.life >= since

IInv ==
  /\ TypeOK
  /\ WireInv
  /\ ReplyInv
  /\ CacheIsRight

-----------------------------------------------------------------------------
(* Sequences *)

\* What is taken from a queue.
LEMMA QueueTaken ==
  ASSUME NEW S, NEW s \in Seq(S), s # << >>
  PROVE  /\ Head(s) \in S
         /\ Tail(s) \in Seq(S)
         /\ Len(Tail(s)) = Len(s) - 1
         /\ Len(s) \in Nat \ {0}
         /\ Len(s) = 1 => Tail(s) = << >>
<1>1. Head(s) \in S /\ Tail(s) \in Seq(S) /\ Len(Tail(s)) = Len(s) - 1
  BY HeadTailProperties
<1>2. Len(s) \in Nat \ {0} /\ (Tail(s) # << >> => Len(Tail(s)) \in Nat \ {0})
  BY <1>1, EmptySeq
<1> QED BY <1>1, <1>2

\* What is put on a queue.
LEMMA QueueGiven ==
  ASSUME NEW S, NEW s \in Seq(S), NEW x \in S
  PROVE  /\ Append(s, x) \in Seq(S)
         /\ Len(Append(s, x)) = Len(s) + 1
         /\ Len(s) \in Nat
         /\ s = << >> => Head(Append(s, x)) = x
  BY AppendProperties, LenProperties

\* An empty queue has length 0 and belongs to every type.
LEMMA QueueEmpty ==
  ASSUME NEW S, NEW s \in Seq(S)
  PROVE  /\ Len(s) \in Nat
         /\ Len(s) = 0 <=> s = << >>
         /\ << >> \in Seq(S)
  BY EmptySeq, LenProperties

-----------------------------------------------------------------------------

LEMMA InitInv == Init => IInv
<1> SUFFICES ASSUME Init PROVE IInv
  OBVIOUS
<1>1. requests \in Seq(Feature) /\ answers \in Seq(Answer) /\ Len(requests) = 0 /\ Len(answers) = 0
  BY DEF Init
<1>2. 1 \in Life
  BY DeviceAssumption DEF Life
<1>3. TypeOK
  <2>1. closed \in BOOLEAN /\ abandoned \in BOOLEAN /\ hasVersion \in BOOLEAN
    BY DEF Init
  <2>2. /\ pc \in [User -> {"idle", "lock", "wait", "answered"}]
        /\ wanted \in [User -> Feature \cup {None}]
        /\ \A u \in User : pc[u] \in {"wait", "answered"} <=> lock = u
        /\ \A u \in User : wanted[u] = None <=> pc[u] = "idle"
    BY DeviceAssumption DEF Init
  <2>3. life \in Life /\ resetAt \in 1..life /\ since \in 1..resetAt
    BY <1>2 DEF Init
  <2>4. Len(requests) + Len(answers) <= MaxWire
    BY <1>1, DeviceAssumption
  <2> QED BY <1>1, <2>1, <2>2, <2>3, <2>4 DEF Init, TypeOK
<1>4. WireInv /\ ReplyInv /\ CacheIsRight
  BY <1>1 DEF Init, WireInv, ReplyInv, CacheIsRight, UnderWay
<1> QED BY <1>3, <1>4 DEF IInv

-----------------------------------------------------------------------------
(* Types *)

\* The deferred Unlock, at the end of a lookup that waits for the lock while it
\* is free or that holds it.
LEMMA ReturnType ==
  ASSUME TypeOK, NEW u \in User, Return(u), pc[u] # "idle", lock \in {None, u}
  PROVE  /\ lock' = None /\ reply' = None
         /\ pc' \in [User -> {"idle", "lock", "wait", "answered"}]
         /\ wanted' \in [User -> Feature \cup {None}]
         /\ \A v \in User : pc'[v] \notin {"wait", "answered"}
         /\ \A v \in User : wanted'[v] = None <=> pc'[v] = "idle"
  BY DeviceAssumption DEF TypeOK, Return

\* The request of a lookup takes a free place on the wire or is lost.
LEMMA TransmitType ==
  ASSUME TypeOK, NEW f \in Feature, Transmit(f)
  PROVE  /\ requests' \in Seq(Feature) /\ answers' = answers /\ life' = life
         /\ Len(requests') + Len(answers') <= MaxWire
  BY QueueGiven, QueueEmpty, DeviceAssumption DEF TypeOK, Transmit

LEMMA UserType ==
  ASSUME IInv, NEW u \in User,
         (\E f \in Feature : LookupFeature(u, f)) \/ Enter(u) \/ Receive(u) \/ GiveUp(u)
  PROVE  TypeOK'
<1> USE DEF IInv, cacheVars, wireVars, historyVars
<1>1. ASSUME NEW f \in Feature, LookupFeature(u, f)
      PROVE  TypeOK'
  BY <1>1, DeviceAssumption DEF TypeOK, LookupFeature
<1>2. CASE Hit(u)
  <2>1. Return(u) /\ pc[u] # "idle" /\ lock \in {None, u}
    BY <1>2 DEF Hit
  <2>2. \A v \in User : pc'[v] \in {"wait", "answered"} <=> lock' = v
    BY <2>1, ReturnType, DeviceAssumption
  <2> QED BY <1>2, <2>1, <2>2, ReturnType DEF TypeOK, Hit
<1>3. CASE Ask(u)
  <2>1. wanted[u] \in Feature
    BY <1>3 DEF Ask, TypeOK
  <2> QED BY <1>3, <2>1, TransmitType, DeviceAssumption DEF TypeOK, Ask
<1>4. CASE Receive(u)
  <2>1. wanted[u] \in Feature /\ reply \in Answer /\ lock = u
    BY <1>4 DEF Receive, TypeOK, ReplyInv
  <2>2. [of |-> reply.of, life |-> reply.life] \in Index
    BY <2>1 DEF Answer, Index
  <2>3. cache' \in [Feature -> Index \cup {None}]
    BY <1>4, <2>1, <2>2 DEF Receive, TypeOK
  <2>4. Return(u) /\ pc[u] # "idle" /\ lock \in {None, u}
    BY <1>4, <2>1 DEF Receive
  <2>5. \A v \in User : pc'[v] \in {"wait", "answered"} <=> lock' = v
    BY <2>4, ReturnType, DeviceAssumption
  <2> QED BY <1>4, <2>3, <2>4, <2>5, ReturnType DEF TypeOK, Receive
<1>5. CASE GiveUp(u)
  <2>1. lock = u
    BY <1>5 DEF TypeOK, GiveUp
  <2>2. abandoned' \in BOOLEAN
    BY <1>5 DEF GiveUp, UnderWay
  <2>3. Return(u) /\ pc[u] # "idle" /\ lock \in {None, u}
    BY <1>5, <2>1 DEF GiveUp
  <2>4. \A v \in User : pc'[v] \in {"wait", "answered"} <=> lock' = v
    BY <2>3, ReturnType, DeviceAssumption
  <2> QED BY <1>5, <2>2, <2>3, <2>4, ReturnType DEF TypeOK, GiveUp
<1> QED BY <1>1, <1>2, <1>3, <1>4, <1>5 DEF Enter

LEMMA WorkerType ==
  ASSUME TypeOK, ResetVersion \/ ResetFeatures \/ Validate \/ Close
  PROVE  TypeOK'
<1> USE DEF cacheVars, userVars, wireVars, historyVars
<1>1. CASE ResetVersion
  <2>1. resetAt' \in 1..life' /\ since' \in 1..resetAt'
    BY <1>1 DEF TypeOK, ResetVersion, Life
  <2> QED BY <1>1, <2>1 DEF TypeOK, ResetVersion
<1>2. CASE ResetFeatures
  BY <1>2 DEF TypeOK, ResetFeatures
<1>3. CASE Validate
  <2>1. hasVersion' \in BOOLEAN
    BY <1>3 DEF TypeOK, Validate
  <2> QED BY <1>3, <2>1 DEF TypeOK, Validate
<1>4. CASE Close
  BY <1>4 DEF TypeOK, Close
<1> QED BY <1>1, <1>2, <1>3, <1>4

LEMMA WireType ==
  ASSUME TypeOK, Respond \/ PowerCycle \/ ReadAnswer
  PROVE  TypeOK'
<1> USE DEF cacheVars, userVars, wireVars, historyVars
<1>1. CASE Respond
  <2>1. /\ Head(requests) \in Feature
        /\ Tail(requests) \in Seq(Feature)
        /\ Len(Tail(requests)) = Len(requests) - 1
        /\ Len(requests) \in Nat /\ Len(answers) \in Nat
    BY <1>1, QueueTaken, QueueEmpty DEF TypeOK, Respond
  <2>2. \A found \in BOOLEAN :
           [of |-> Head(requests), life |-> life, found |-> found] \in Answer
    BY <2>1 DEF TypeOK, Answer
  <2>3. answers' \in Seq(Answer) /\ Len(answers') <= Len(answers) + 1 /\ Len(answers') \in Nat
    <3>1. CASE UNCHANGED answers
      BY <2>1, <3>1 DEF TypeOK
    <3>2. ASSUME NEW a \in Answer, answers' = Append(answers, a)
          PROVE  answers' \in Seq(Answer) /\ Len(answers') = Len(answers) + 1
      BY <3>2, QueueGiven DEF TypeOK
    <3>3. CASE ~UNCHANGED answers
      <4>1. \E a \in Answer : answers' = Append(answers, a)
        BY <1>1, <2>2, <3>3 DEF Respond
      <4> QED BY <2>1, <3>2, <4>1
    <3> QED BY <2>1, <3>1, <3>3
  <2>4. Len(requests') + Len(answers') <= MaxWire
    BY <1>1, <2>1, <2>3, DeviceAssumption DEF TypeOK, Respond
  <2> QED BY <1>1, <2>1, <2>3, <2>4 DEF TypeOK, Respond
<1>2. CASE PowerCycle
  <2>1. requests' \in Seq(Feature) /\ Len(requests') + Len(answers') <= MaxWire
    BY <1>2, QueueEmpty, EmptySeq, DeviceAssumption DEF TypeOK, PowerCycle
  <2>2. life' \in Life /\ resetAt' \in 1..life'
    BY <1>2, DeviceAssumption DEF TypeOK, PowerCycle, Life
  <2> QED BY <1>2, <2>1, <2>2 DEF TypeOK, PowerCycle
<1>3. CASE ReadAnswer
  <2>1. /\ Head(answers) \in Answer
        /\ Tail(answers) \in Seq(Answer)
        /\ Len(Tail(answers)) = Len(answers) - 1
        /\ Len(answers) \in Nat /\ Len(requests) \in Nat
    BY <1>3, QueueTaken, QueueEmpty DEF TypeOK, ReadAnswer
  <2>2. Len(requests') + Len(answers') <= MaxWire
    BY <1>3, <2>1, DeviceAssumption DEF TypeOK, ReadAnswer
  <2>3. CASE UNCHANGED <<pc, reply>>
    BY <1>3, <2>1, <2>2, <2>3 DEF TypeOK, ReadAnswer
  <2>4. ASSUME NEW u \in User, pc[u] = "wait", pc' = [pc EXCEPT ![u] = "answered"],
               reply' = Head(answers)
        PROVE  TypeOK'
    BY <1>3, <2>1, <2>2, <2>4 DEF TypeOK, ReadAnswer
  <2> QED BY <1>3, <2>3, <2>4 DEF ReadAnswer
<1> QED BY <1>1, <1>2, <1>3

-----------------------------------------------------------------------------
(* The exchange *)

\* Nothing is on the wire unless its lookup waits.
LEMMA Silence ==
  ASSUME IInv, ~abandoned, \A u \in User : pc[u] # "wait"
  PROVE  requests = << >> /\ answers = << >>
  BY DEF IInv, WireInv, UnderWay

LEMMA LockFree ==
  ASSUME IInv, lock = None
  PROVE  \A u \in User : pc[u] \notin {"wait", "answered"}
  BY DeviceAssumption DEF IInv, TypeOK

LEMMA OneExchange ==
  ASSUME TypeOK, WireInv, ~abandoned
  PROVE  /\ requests # << >> => Len(requests) = 1 /\ answers = << >>
         /\ answers # << >> => Len(answers) = 1 /\ requests = << >>
<1>1. /\ Len(requests) \in Nat /\ Len(answers) \in Nat
      /\ Len(requests) = 0 <=> requests = << >>
      /\ Len(answers) = 0 <=> answers = << >>
  BY QueueEmpty DEF TypeOK
<1>2. Len(requests) + Len(answers) <= 1
  BY DEF WireInv
<1>3. \A m, n \in Nat : m + n <= 1 /\ m # 0 => m = 1 /\ n = 0
  OBVIOUS
<1>4. \A m, n \in Nat : m + n <= 1 /\ n # 0 => n = 1 /\ m = 0
  OBVIOUS
<1> QED BY <1>1, <1>2, <1>3, <1>4

\* What the history remembers of a lookup that gave up is never forgotten.
LEMMA AbandonedStays ==
  ASSUME Next, abandoned
  PROVE  abandoned'
<1> USE DEF historyVars
<1>1. CASE \E u \in User : GiveUp(u)
  BY <1>1, Zenon DEF GiveUp
<1>2. CASE \E u \in User : (\E f \in Feature : LookupFeature(u, f)) \/ Enter(u) \/ Receive(u)
  BY <1>2 DEF LookupFeature, Enter, Hit, Ask, Receive
<1>3. CASE \/ ResetVersion \/ ResetFeatures \/ Validate \/ Respond
           \/ PowerCycle \/ ReadAnswer \/ Close
  BY <1>3 DEF ResetVersion, ResetFeatures, Validate, Respond, PowerCycle, ReadAnswer, Close
<1> QED BY <1>1, <1>2, <1>3 DEF Next

LEMMA WireStep ==
  ASSUME IInv, Next
  PROVE  WireInv'
<1> USE DEF cacheVars, userVars, wireVars, historyVars
<1>1. SUFFICES ASSUME ~abandoned'
               PROVE  WireInv'
  BY DEF WireInv
<1>2. ~abandoned /\ TypeOK /\ WireInv
  BY <1>1, AbandonedStays DEF IInv
<1>3. ASSUME requests' = << >>, answers' = << >>
      PROVE  WireInv'
  BY <1>3, EmptySeq DEF WireInv, UnderWay
<1>4. ASSUME NEW u \in User, NEW f \in Feature, LookupFeature(u, f)
      PROVE  WireInv'
  BY <1>2, <1>4 DEF LookupFeature, TypeOK, WireInv, UnderWay
<1>5. ASSUME NEW u \in User, Hit(u)
      PROVE  WireInv'
  <2>1. requests = << >> /\ answers = << >>
    BY <1>2, <1>5, LockFree, Silence DEF Hit
  <2> QED BY <1>3, <1>5, <2>1 DEF Hit
<1>6. ASSUME NEW u \in User, Ask(u)
      PROVE  WireInv'
  <2>1. requests = << >> /\ answers = << >>
    BY <1>2, <1>6, LockFree, Silence DEF Ask
  <2>2. CASE UNCHANGED requests
    BY <1>3, <1>6, <2>1, <2>2 DEF Ask, Transmit
  <2>3. CASE requests' = Append(requests, wanted[u])
    <3>1. wanted[u] \in Feature
      BY <1>2, <1>6 DEF Ask, TypeOK
    <3>2. /\ requests' \in Seq(Feature) /\ Len(requests') = 1
          /\ Head(requests') = wanted[u]
      BY <1>2, <2>1, <2>3, <3>1, QueueGiven, EmptySeq DEF TypeOK
    <3>3. answers' = << >> /\ Len(answers') = 0
      BY <1>6, <2>1, EmptySeq DEF Ask, Transmit
    <3>4. lock' = u /\ pc'[u] = "wait" /\ wanted' = wanted
      BY <1>2, <1>6 DEF Ask, TypeOK
    <3> QED BY <3>2, <3>3, <3>4 DEF WireInv, UnderWay
  <2> QED BY <1>6, <2>2, <2>3 DEF Ask, Transmit
<1>7. ASSUME NEW u \in User, Receive(u)
      PROVE  WireInv'
  <2>1. \A v \in User : pc[v] # "wait"
    BY <1>2, <1>7 DEF Receive, TypeOK
  <2> QED BY <1>2, <1>3, <1>7, <2>1, Silence DEF Receive
<1>8. ASSUME NEW u \in User, GiveUp(u)
      PROVE  WireInv'
  BY <1>1, <1>3, <1>8 DEF GiveUp, UnderWay
<1>9. CASE Respond
  <2>1. Len(requests) = 1 /\ answers = << >> /\ Len(answers) = 0
    BY <1>2, <1>9, OneExchange, EmptySeq DEF Respond
  <2>2. Tail(requests) = << >>
    BY <1>2, <1>9, <2>1, QueueTaken DEF Respond, TypeOK
  <2>3. requests' = << >> /\ Len(requests') = 0 /\ answers = << >>
    BY <1>9, <2>1, <2>2, EmptySeq DEF Respond
  <2>4. CASE UNCHANGED answers
    BY <1>3, <2>3, <2>4
  <2>5. ASSUME NEW a \in Answer, answers' = Append(answers, a), a.of = Head(requests),
               a.life = life
        PROVE  WireInv'
    <3>1. Len(answers') = 1 /\ Head(answers') = a
      BY <1>2, <2>1, <2>5, QueueGiven DEF TypeOK
    <3>2. a.of = wanted[lock] /\ lock \in User /\ pc[lock] = "wait" /\ a.life >= since
      BY <1>2, <1>9, <2>5 DEF Respond, WireInv, UnderWay, TypeOK, Life
    <3>3. UNCHANGED <<wanted, lock, pc, since>>
      BY <1>9 DEF Respond
    <3> QED BY <2>3, <3>1, <3>2, <3>3 DEF WireInv, UnderWay
  <2>6. Head(requests) \in Feature
    BY <1>2, <1>9, QueueTaken DEF Respond, TypeOK
  <2>7. \A found \in BOOLEAN :
           [of |-> Head(requests), life |-> life, found |-> found] \in Answer
    BY <1>2, <2>6 DEF TypeOK, Answer
  <2>8. CASE ~UNCHANGED answers
    <3>1. \E a \in Answer : /\ answers' = Append(answers, a)
                            /\ a.of = Head(requests) /\ a.life = life
      BY <1>9, <2>7, <2>8 DEF Respond
    <3> QED BY <2>5, <3>1
  <2> QED BY <2>4, <2>8
<1>10. CASE PowerCycle
  BY <1>2, <1>10, QueueEmpty, EmptySeq DEF PowerCycle, WireInv, UnderWay, TypeOK
<1>11. CASE ReadAnswer
  <2>1. Len(answers) = 1 /\ requests = << >>
    BY <1>2, <1>11, OneExchange DEF ReadAnswer
  <2>2. Tail(answers) = << >>
    BY <1>2, <1>11, <2>1, QueueTaken DEF ReadAnswer, TypeOK
  <2> QED BY <1>3, <1>11, <2>1, <2>2 DEF ReadAnswer
<1>12. CASE ResetFeatures
  <2>1. requests = << >> /\ answers = << >>
    BY <1>2, <1>12, LockFree, Silence DEF ResetFeatures
  <2> QED BY <1>3, <1>12, <2>1 DEF ResetFeatures
<1>13. CASE ResetVersion \/ Validate \/ Close
  BY <1>2, <1>13 DEF ResetVersion, Validate, Close, WireInv, UnderWay
<1> QED BY <1>4, <1>5, <1>6, <1>7, <1>8, <1>9, <1>10, <1>11, <1>12, <1>13 DEF Next, Enter

LEMMA ReplyStep ==
  ASSUME IInv, Next
  PROVE  ReplyInv'
<1> USE DEF cacheVars, userVars, wireVars, historyVars
<1>1. TypeOK /\ WireInv /\ ReplyInv
  BY DEF IInv
<1>2. ASSUME \A v \in User : pc'[v] # "answered"
      PROVE  ReplyInv'
  BY <1>2 DEF ReplyInv
<1>3. ASSUME NEW u \in User, NEW f \in Feature, LookupFeature(u, f)
      PROVE  ReplyInv'
  BY <1>1, <1>3 DEF LookupFeature, TypeOK, ReplyInv
<1>4. ASSUME NEW u \in User, Hit(u)
      PROVE  ReplyInv'
  <2>1. Return(u) /\ pc[u] # "idle" /\ lock \in {None, u}
    BY <1>4 DEF Hit
  <2> QED BY <1>1, <1>2, <2>1, ReturnType
<1>5. ASSUME NEW u \in User, Ask(u)
      PROVE  ReplyInv'
  <2>1. \A v \in User : pc[v] \notin {"wait", "answered"}
    BY <1>5, LockFree DEF Ask
  <2> QED BY <1>1, <1>2, <1>5, <2>1 DEF Ask, TypeOK
<1>6. ASSUME NEW u \in User, Receive(u) \/ GiveUp(u)
      PROVE  ReplyInv'
  <2>1. Return(u) /\ pc[u] # "idle" /\ lock \in {None, u}
    BY <1>1, <1>6 DEF Receive, GiveUp, TypeOK
  <2> QED BY <1>1, <1>2, <2>1, ReturnType
<1>7. CASE Respond \/ PowerCycle \/ ResetVersion \/ Validate \/ Close
  <2>1. UNCHANGED <<pc, wanted, reply, since, abandoned>>
    BY <1>7 DEF Respond, PowerCycle, ResetVersion, Validate, Close
  <2> QED BY <1>1, <2>1 DEF ReplyInv
<1>8. CASE ReadAnswer
  <2>1. CASE UNCHANGED <<pc, reply>>
    BY <1>1, <1>8, <2>1 DEF ReadAnswer, ReplyInv
  <2>2. ASSUME NEW u \in User, pc[u] = "wait", pc' = [pc EXCEPT ![u] = "answered"],
               reply' = Head(answers)
        PROVE  ReplyInv'
    <3>1. lock = u /\ \A v \in User : pc'[v] = "answered" => v = u
      BY <1>1, <2>2 DEF TypeOK
    <3>2. Head(answers) \in Answer
      BY <1>1, <1>8, QueueTaken DEF ReadAnswer, TypeOK
    <3>3. ~abandoned => Head(answers).of = wanted[u] /\ Head(answers).life >= since
      BY <1>1, <1>8, <3>1 DEF ReadAnswer, WireInv
    <3> QED BY <1>8, <2>2, <3>1, <3>2, <3>3 DEF ReadAnswer, ReplyInv
  <2> QED BY <1>8, <2>1, <2>2 DEF ReadAnswer
<1>9. CASE ResetFeatures
  BY <1>2, <1>9, LockFree DEF ResetFeatures
<1> QED BY <1>3, <1>4, <1>5, <1>6, <1>7, <1>8, <1>9 DEF Next, Enter

LEMMA CacheStep ==
  ASSUME IInv, Next
  PROVE  CacheIsRight'
<1> USE DEF cacheVars, userVars, wireVars, historyVars
<1>1. TypeOK /\ ReplyInv /\ CacheIsRight
  BY DEF IInv
<1>2. ASSUME NEW u \in User, Receive(u)
      PROVE  CacheIsRight'
  <2>1. SUFFICES ASSUME ~abandoned, NEW f \in Feature, cache'[f] # None
                 PROVE  cache'[f].of = f /\ cache'[f].life >= since
    BY <1>2 DEF Receive, CacheIsRight
  <2>2. wanted[u] \in Feature /\ reply.of = wanted[u] /\ reply.life >= since
    BY <1>1, <1>2, <2>1 DEF Receive, TypeOK, ReplyInv
  <2>3. CASE f = wanted[u] /\ reply.found
    <3>1. cache'[f] = [of |-> reply.of, life |-> reply.life]
      BY <1>1, <1>2, <2>3 DEF Receive, TypeOK
    <3> QED BY <2>2, <2>3, <3>1
  <2>4. CASE ~(f = wanted[u] /\ reply.found)
    <3>1. cache'[f] = cache[f]
      BY <1>1, <1>2, <2>4 DEF Receive, TypeOK
    <3> QED BY <1>1, <2>1, <3>1 DEF CacheIsRight
  <2> QED BY <2>3, <2>4
<1>3. CASE ResetFeatures
  BY <1>3 DEF ResetFeatures, CacheIsRight
<1>4. ASSUME UNCHANGED <<cache, since>>, abandoned => abandoned'
      PROVE  CacheIsRight'
  BY <1>1, <1>4 DEF CacheIsRight
<1>5. ASSUME NEW u \in User, (\E f \in Feature : LookupFeature(u, f)) \/ Enter(u) \/ GiveUp(u)
      PROVE  CacheIsRight'
  BY <1>4, <1>5 DEF LookupFeature, Enter, Hit, Ask, GiveUp
<1>6. CASE ResetVersion \/ Validate \/ Respond \/ PowerCycle \/ ReadAnswer \/ Close
  BY <1>4, <1>6 DEF ResetVersion, Validate, Respond, PowerCycle, ReadAnswer, Close
<1> QED BY <1>2, <1>3, <1>5, <1>6 DEF Next

LEMMA StepInv == IInv /\ [Next]_vars => IInv'
<1> SUFFICES ASSUME IInv, [Next]_vars PROVE IInv'
  OBVIOUS
<1>1. CASE Next
  <2>1. TypeOK'
    BY <1>1, UserType, WorkerType, WireType DEF IInv, Next
  <2> QED BY <1>1, <2>1, WireStep, ReplyStep, CacheStep DEF IInv
<1>2. CASE UNCHANGED vars
  <2>1. TypeOK' /\ WireInv'
    BY <1>2 DEF IInv, TypeOK, WireInv, UnderWay, vars, cacheVars, userVars, wireVars, historyVars
  <2>2. ReplyInv' /\ CacheIsRight'
    BY <1>2 DEF IInv, ReplyInv, CacheIsRight, vars, cacheVars, userVars, wireVars, historyVars
  <2> QED BY <2>1, <2>2 DEF IInv
<1> QED BY <1>1, <1>2

THEOREM Invariance == Spec => []IInv
<1>1. Init => IInv
  BY InitInv
<1>2. IInv /\ [Next]_vars => IInv'
  BY StepInv
<1> QED BY <1>1, <1>2, PTL DEF Spec

-----------------------------------------------------------------------------

\* Every variable of the child session keeps its type, and the feature lock is
\* held by exactly the lookup whose exchange is in progress.
THEOREM TypeCorrect == Spec => []TypeOK
<1>1. IInv => TypeOK
  BY DEF IInv
<1> QED BY <1>1, Invariance, PTL

\* While no lookup was given up with its answer under way, a cached index is the
\* feature's own and from no life that ended before the last Reset began.
THEOREM CacheCorrect == Spec => []CacheIsRight
<1>1. IInv => CacheIsRight
  BY DEF IInv
<1> QED BY <1>1, Invariance, PTL

=============================================================================
