-------------------------- MODULE Discovery_proofs --------------------------
(***************************************************************************)
(* Discovery and enumeration for any number of nodes and slots, with any   *)
(* number of failures and of changes of the pairing; and, in the last      *)
(* part, what becomes of the descriptor of an opened node (Platform).      *)
(***************************************************************************)
EXTENDS Discovery, Platform, SequenceTheorems, WellFoundedInduction, TLAPS

Probing == {"inspect", "connection", "identity"}
Listing == {"pairing", "name", "return"}

\* The variables the invariant needs, as far as it needs them.
TypeOK ==
  /\ nature \in [Node -> Nature]
  /\ paired \in [Node -> SUBSET Slot]
  /\ options \in [path : Node \cup {NoNode}, kind : Kind \cup {"any"},
                  caller : {"snapshot", "session"}]
  /\ open \in SUBSET Node
  /\ todo \in Seq(Node)
  /\ pc \in {"scan", "configure", "failed", "snapshot", "session"} \cup Probing \cup Listing
  /\ at \in Node \cup {NoNode}
  /\ tries \in Seq(Kind)
  /\ kind \in [Node -> Kind \cup {"unknown"}]
  /\ found \in Seq(Node)
  /\ slot \in Slot
  /\ devices \in SUBSET Slot
  /\ always \in SUBSET Slot
  /\ ever \in SUBSET Slot

\* No node is met twice: not in what is still to be opened, not in what has been
\* found, and neither is the one being probed.
DistinctInv ==
  /\ IsInjective(todo) /\ IsInjective(found)
  /\ Range(todo) \cap Range(found) = {}
  /\ pc \in Probing => at \in Node /\ at \notin Range(todo) \cup Range(found)

\* With an explicit path there is one candidate, so giving it up leaves nothing.
PathInv ==
  options.path # NoNode =>
    /\ pc = "scan" => todo = << >> \/ (Tail(todo) = << >> /\ found = << >>)
    /\ pc \in Probing => todo = << >> /\ found = << >>

\* The open nodes are those found and the one being probed, then the one selected.
OpenInv ==
  /\ pc = "scan" => open = Range(found)
  /\ pc \in Probing => open = Range(found) \cup {at}
  /\ pc \in {"configure"} \cup Listing => at \in Node /\ open = {at}
  /\ OpenedIsOwned

\* Whatever is found is a receiver of a kind asked for, and known to be.
FoundInv ==
  /\ \A n \in Range(found) : nature[n] \in Kind /\ Wanted(nature[n]) /\ kind[n] = nature[n]
  /\ pc \in {"configure", "snapshot", "session"} \cup Listing =>
       at \in Node /\ nature[at] \in Kind /\ Wanted(nature[at]) /\ kind[at] = nature[at]

\* The history brackets the pairing, and the list follows it slot by slot.
ListInv ==
  /\ pc \in Listing => always \subseteq paired[at] /\ paired[at] \subseteq ever
  /\ pc \notin Listing \cup {"failed", "snapshot", "session"} => slot = 1 /\ devices = {}
  /\ pc \in {"pairing", "name"} => \A s \in always : s < slot => s \in devices
  /\ pc \in Listing => devices \subseteq ever
  /\ pc = "name" => slot \in ever
  /\ pc \in {"return", "snapshot", "session"} => always \subseteq devices /\ devices \subseteq ever

\* How many candidates have been met: those not in todo any more.
Met == Len(Candidates) - Len(todo)

\* What is to be opened is the rest of the candidates, in their order.
TodoInv ==
  /\ Len(todo) <= Len(Candidates)
  /\ \A i \in 1..Len(todo) : todo[i] = Candidates[Met + i]
  /\ pc \in Probing => Met >= 1 /\ at = Candidates[Met]

UsableUpTo(k) == {i \in 1..k : Usable(Candidates[i])}

\* The list begins with the first usable one of the first k candidates.
BeginsWithFirst(list, k) ==
  IF UsableUpTo(k) = {}
    THEN list = << >>
    ELSE /\ list # << >>
         /\ \E i \in UsableUpTo(k) :
              list[1] = Candidates[i] /\ \A j \in UsableUpTo(k) : i <= j

\* As long as nothing has failed no usable candidate has been passed over, and
\* the kind of the one being identified has not been tried in vain.
FirstInv ==
  /\ faults \in Nat
  /\ faults = 0 =>
       /\ pc = "scan" => BeginsWithFirst(found, Met)
       /\ pc \in Probing => BeginsWithFirst(found, Met - 1)
       /\ pc = "identity" /\ nature[at] \in Kind => nature[at] \in Range(tries)
       /\ pc \in {"configure", "snapshot", "session"} \cup Listing =>
            /\ BeginsWithFirst(found, Len(Candidates))
            /\ found # << >> /\ at = found[1]
       /\ pc = "failed" => UsableUpTo(Len(Candidates)) = {}

IInv ==
  /\ TypeOK
  /\ DistinctInv
  /\ PathInv
  /\ OpenInv
  /\ FoundInv
  /\ ListInv
  /\ TodoInv
  /\ FirstInv

-----------------------------------------------------------------------------
(* Sequences without repetition *)

LEMMA RangeTaken ==
  ASSUME NEW S, NEW s \in Seq(S), s # << >>
  PROVE  /\ Head(s) \in S /\ Tail(s) \in Seq(S)
         /\ Range(s) = {Head(s)} \cup Range(Tail(s))
         /\ IsInjective(s) => IsInjective(Tail(s)) /\ Head(s) \notin Range(Tail(s))
<1>1. /\ Head(s) \in S /\ Tail(s) \in Seq(S) /\ Len(Tail(s)) = Len(s) - 1
      /\ \A i \in 1..Len(Tail(s)) : Tail(s)[i] = s[i + 1]
      /\ Len(s) \in Nat \ {0} /\ Head(s) = s[1]
  BY HeadTailProperties, EmptySeq
<1>2. /\ Range(s) = {s[i] : i \in 1..Len(s)}
      /\ Range(Tail(s)) = {Tail(s)[i] : i \in 1..Len(Tail(s))}
      /\ DOMAIN s = 1..Len(s) /\ DOMAIN Tail(s) = 1..Len(Tail(s))
  <2>1. ASSUME NEW t \in Seq(S)
        PROVE  Range(t) = {t[i] : i \in 1..Len(t)} /\ DOMAIN t = 1..Len(t)
    BY RangeEquality, LenProperties
  <2> QED BY <1>1, <2>1
<1>3. \A i \in 1..Len(s) : i = 1 \/ (i - 1 \in 1..Len(Tail(s)) /\ Tail(s)[i - 1] = s[i])
  BY <1>1
<1>4. \A i \in 1..Len(Tail(s)) : i + 1 \in 1..Len(s) /\ i + 1 # 1
  BY <1>1
<1>5. Range(s) = {Head(s)} \cup Range(Tail(s))
  <2>1. ASSUME NEW x \in Range(s)
        PROVE  x = Head(s) \/ x \in Range(Tail(s))
    <3>1. PICK i \in 1..Len(s) : x = s[i]
      BY <1>2, <2>1
    <3> QED BY <1>1, <1>2, <1>3, <3>1
  <2>2. Head(s) \in Range(s)
    BY <1>1, <1>2
  <2>3. ASSUME NEW x \in Range(Tail(s))
        PROVE  x \in Range(s)
    <3>1. PICK i \in 1..Len(Tail(s)) : x = Tail(s)[i]
      BY <1>2, <2>3
    <3> QED BY <1>1, <1>2, <1>4, <3>1
  <2> QED BY <2>1, <2>2, <2>3
<1>6. ASSUME IsInjective(s)
      PROVE  IsInjective(Tail(s)) /\ Head(s) \notin Range(Tail(s))
  <2>1. \A i, j \in 1..Len(s) : s[i] = s[j] => i = j
    BY <1>2, <1>6 DEF IsInjective
  <2>2. ASSUME NEW i \in 1..Len(Tail(s)), NEW j \in 1..Len(Tail(s)), Tail(s)[i] = Tail(s)[j]
        PROVE  i = j
    <3>1. s[i + 1] = s[j + 1] /\ i + 1 \in 1..Len(s) /\ j + 1 \in 1..Len(s)
      BY <1>1, <1>4, <2>2
    <3>2. i + 1 = j + 1
      BY <2>1, <3>1
    <3> QED BY <3>2
  <2>3. IsInjective(Tail(s))
    BY <1>2, <2>2 DEF IsInjective
  <2>4. ASSUME NEW i \in 1..Len(Tail(s))
        PROVE  Tail(s)[i] # Head(s)
    <3>1. i + 1 \in 1..Len(s) /\ 1 \in 1..Len(s) /\ i + 1 # 1
      BY <1>1, <1>4
    <3> QED BY <1>1, <2>1, <3>1
  <2> QED BY <1>2, <2>3, <2>4
<1> QED BY <1>1, <1>5, <1>6

LEMMA RangeGiven ==
  ASSUME NEW S, NEW s \in Seq(S), NEW x \in S
  PROVE  /\ Append(s, x) \in Seq(S)
         /\ Range(Append(s, x)) = Range(s) \cup {x}
         /\ IsInjective(s) /\ x \notin Range(s) => IsInjective(Append(s, x))
<1>1. /\ Append(s, x) \in Seq(S) /\ Len(Append(s, x)) = Len(s) + 1 /\ Len(s) \in Nat
      /\ \A i \in 1..Len(s) : Append(s, x)[i] = s[i]
      /\ Append(s, x)[Len(s) + 1] = x
  BY AppendProperties, LenProperties
<1>2. /\ Range(s) = {s[i] : i \in 1..Len(s)}
      /\ Range(Append(s, x)) = {Append(s, x)[i] : i \in 1..(Len(s) + 1)}
      /\ DOMAIN s = 1..Len(s) /\ DOMAIN Append(s, x) = 1..(Len(s) + 1)
  BY <1>1, RangeEquality, LenProperties
<1>3. 1..(Len(s) + 1) = 1..Len(s) \cup {Len(s) + 1}
  BY <1>1
<1>4. Range(Append(s, x)) = Range(s) \cup {x}
  BY <1>1, <1>2, <1>3
<1>5. ASSUME IsInjective(s), x \notin Range(s)
      PROVE  IsInjective(Append(s, x))
  <2>1. \A i, j \in 1..Len(s) : s[i] = s[j] => i = j
    BY <1>2, <1>5 DEF IsInjective
  <2>2. \A i \in 1..Len(s) : s[i] # x
    BY <1>2, <1>5
  <2> QED BY <1>1, <1>2, <1>3, <2>1, <2>2 DEF IsInjective
<1> QED BY <1>1, <1>4, <1>5

\* The empty list and a list of one node.
LEMMA RangeSmall ==
  ASSUME NEW S, NEW x \in S
  PROVE  /\ << >> \in Seq(S) /\ Range(<< >>) = {} /\ IsInjective(<< >>)
         /\ <<x>> \in Seq(S) /\ Range(<<x>>) = {x} /\ IsInjective(<<x>>)
  BY DEF Range, IsInjective

-----------------------------------------------------------------------------

LEMMA SlotType == 1 \in Slot /\ MaxSlot \in Nat \ {0} /\ Slot \subseteq Nat
  BY DiscoveryAssumption DEF Slot

LEMMA InitInv == Init => IInv
<1> SUFFICES ASSUME Init PROVE IInv
  OBVIOUS
<1>1. options \in [path : Node \cup {NoNode}, kind : Kind \cup {"any"},
                   caller : {"snapshot", "session"}]
  BY DEF Init
<1>2. todo \in Seq(Node) /\ IsInjective(todo)
  <2>1. CASE options.path = NoNode
    BY <2>1, DiscoveryAssumption DEF Init, Candidates, Node
  <2>2. CASE options.path # NoNode
    BY <1>1, <2>2, RangeSmall DEF Init, Candidates
  <2> QED BY <2>1, <2>2
<1>3. /\ << >> \in Seq(Node) /\ << >> \in Seq(Kind)
      /\ Range(<< >>) = {} /\ IsInjective(<< >>)
  BY EmptySeq DEF Range, IsInjective
<1>4. TypeOK
  BY <1>1, <1>2, <1>3, SlotType DEF Init, TypeOK, Probing, Listing
<1>5. DistinctInv /\ PathInv
  <2>1. options.path # NoNode => Tail(todo) = << >>
    BY DEF Init, Candidates
  <2> QED BY <1>2, <1>3, <2>1 DEF Init, DistinctInv, PathInv, Probing
<1>6. OpenInv /\ FoundInv /\ ListInv
  BY <1>3 DEF Init, OpenInv, OpenedIsOwned, FoundInv, ListInv, Probing, Listing
<1>7. TodoInv /\ FirstInv
  <2>1. Len(todo) \in Nat /\ todo = Candidates
    BY <1>2, LenProperties DEF Init
  <2>2. Met = 0 /\ UsableUpTo(0) = {}
    BY <2>1 DEF Met, UsableUpTo
  <2>3. TodoInv
    <3>1. Len(todo) <= Len(Candidates)
      BY <2>1
    <3>2. \A i \in 1..Len(todo) : todo[i] = Candidates[0 + i]
      BY <2>1
    <3> QED BY <2>2, <3>1, <3>2 DEF Init, TodoInv, Probing
  <2>4. FirstInv
    BY <2>2 DEF Init, FirstInv, BeginsWithFirst, Probing, Listing
  <2> QED BY <2>3, <2>4
<1> QED BY <1>4, <1>5, <1>6, <1>7 DEF IInv

-----------------------------------------------------------------------------
(* Types *)

LEMMA DiscoverType ==
  ASSUME IInv, \/ Open \/ OpenFails \/ Inspect \/ InspectFails
               \/ ProbeConnection \/ ConnectionFails \/ Identify \/ TryNext \/ IdentityFails
  PROVE  TypeOK'
<1> USE DEF IInv, Probing, Listing, worldVars, probeVars, listVars, pairVars
<1>1. todo # << >> => Head(todo) \in Node /\ Tail(todo) \in Seq(Node)
  BY RangeTaken DEF TypeOK
<1>2. CASE Open
  BY <1>1, <1>2 DEF Open, TypeOK
<1>3. CASE OpenFails
  BY <1>1, <1>3 DEF OpenFails, TypeOK
<1>4. CASE Inspect
  BY <1>4 DEF Inspect, TypeOK
<1>5. ASSUME Discard, UNCHANGED <<worldVars, listVars, pairVars, changes>>
      PROVE  TypeOK'
  <2>1. << >> \in Seq(Kind)
    BY EmptySeq
  <2>2. pc' \in {"failed", "scan"} /\ open' \in SUBSET Node
    BY <1>5 DEF Discard, Discarded, GiveUp, TypeOK
  <2> QED BY <1>5, <2>1, <2>2 DEF Discard, GiveUp, TypeOK
<1>6. CASE InspectFails \/ ConnectionFails \/ IdentityFails
  BY <1>5, <1>6 DEF InspectFails, ConnectionFails, IdentityFails
<1>7. CASE ProbeConnection
  <2>1. tries' \in Seq(Kind)
    <3>1. \A a, b \in Kind : <<a, b>> \in Seq(Kind)
      OBVIOUS
    <3>2. <<"unifying", "bolt">> \in Seq(Kind) /\ <<"bolt", "unifying">> \in Seq(Kind)
      BY <3>1 DEF Kind
    <3> QED BY <1>7, <3>2 DEF ProbeConnection, ProbeOrder
  <2> QED BY <1>7, <2>1 DEF ProbeConnection, TypeOK
<1>8. CASE Identify
  <2>1. Head(tries) \in Kind /\ at \in Node /\ << >> \in Seq(Kind)
    BY <1>8, RangeTaken, EmptySeq DEF Identify, TypeOK, DistinctInv
  <2>2. kind' \in [Node -> Kind \cup {"unknown"}]
    BY <1>8, <2>1 DEF Identify, TypeOK
  <2>3. Append(found, at) \in Seq(Node)
    BY <2>1, RangeGiven DEF TypeOK
  <2>4. pc' \in {"failed", "scan"} /\ open' \in SUBSET Node /\ found' \in Seq(Node)
        /\ at' \in Node \cup {NoNode}
    <3>1. CASE Wanted(Head(tries))
      BY <1>8, <2>1, <2>3, <3>1 DEF Identify, TypeOK
    <3>2. CASE ~Wanted(Head(tries))
      <4>1. /\ open' = Discarded(at) /\ at' = NoNode /\ found' = found
            /\ pc' = IF options.path # NoNode THEN "failed" ELSE "scan"
        BY <1>8, <3>2 DEF Identify
      <4> QED BY <4>1 DEF Discarded, TypeOK
    <3> QED BY <3>1, <3>2
  <2>5. tries' = << >> /\ todo' = todo
        /\ UNCHANGED <<worldVars, listVars, pairVars, faults, changes>>
    BY <1>8 DEF Identify
  <2> QED BY <2>1, <2>2, <2>4, <2>5 DEF TypeOK
<1>9. CASE TryNext
  <2>1. tries' \in Seq(Kind)
    BY <1>9, RangeTaken DEF TryNext, TypeOK
  <2> QED BY <1>9, <2>1 DEF TryNext, TypeOK
<1> QED BY <1>2, <1>3, <1>4, <1>6, <1>7, <1>8, <1>9

\* The next slot, or the end of the enumeration.
LEMMA BeyondType ==
  ASSUME NEW s \in Slot, slot = s, Beyond(s)
  PROVE  /\ slot' \in Slot
         /\ \/ pc' = "return" /\ slot' = slot /\ s = MaxSlot
            \/ pc' = "pairing" /\ slot' = s + 1
<1>1. s \in 1..MaxSlot /\ MaxSlot \in Nat
  BY SlotType DEF Slot
<1>2. CASE s = MaxSlot
  BY <1>2 DEF Beyond
<1>3. CASE s # MaxSlot
  BY <1>1, <1>3 DEF Beyond, Slot
<1> QED BY <1>2, <1>3

LEMMA ListType ==
  ASSUME IInv, \/ NoReceiver \/ Select \/ Configure \/ ConfigureFails
               \/ EmptySlot \/ ReadPairing \/ PairingFails \/ ReadName \/ NameFails
               \/ Return \/ CloseFails \/ Change
  PROVE  TypeOK'
<1> USE DEF IInv, Probing, Listing, worldVars, probeVars, listVars, pairVars
<1>1. CASE NoReceiver
  BY <1>1 DEF NoReceiver, TypeOK
<1>2. CASE Select
  <2>1. Head(found) \in Node
    BY <1>2, RangeTaken DEF Select, TypeOK
  <2> QED BY <1>2, <2>1 DEF Select, TypeOK
<1>3. CASE Configure
  <2>1. paired[at] \in SUBSET Slot
    BY <1>3 DEF Configure, TypeOK, OpenInv
  <2> QED BY <1>3, <2>1 DEF Configure, TypeOK
<1>4. CASE Abandon
  BY <1>4 DEF Abandon, TypeOK
<1>5. CASE ConfigureFails \/ PairingFails \/ NameFails \/ CloseFails
  BY <1>4, <1>5 DEF ConfigureFails, PairingFails, NameFails, CloseFails
<1>6. CASE EmptySlot
  <2>1. slot' \in Slot /\ pc' \in {"return", "pairing"}
    BY <1>6, BeyondType DEF EmptySlot, TypeOK
  <2> QED BY <1>6, <2>1 DEF EmptySlot, TypeOK
<1>7. CASE ReadPairing
  BY <1>7 DEF ReadPairing, TypeOK
<1>8. CASE ReadName
  <2>1. slot' \in Slot /\ pc' \in {"return", "pairing"}
    BY <1>8, BeyondType DEF ReadName, TypeOK
  <2> QED BY <1>8, <2>1 DEF ReadName, TypeOK
<1>9. CASE Return
  <2>1. pc' \in {"snapshot", "session"} /\ open' \in SUBSET Node
    BY <1>9 DEF Return, TypeOK
  <2> QED BY <1>9, <2>1 DEF Return, TypeOK
<1>10. CASE Change
  <2>1. PICK s \in Slot :
          /\ paired' = [paired EXCEPT ![at] = IF s \in @ THEN @ \ {s} ELSE @ \cup {s}]
          /\ always' = always \ {s}
          /\ ever' = ever \cup {s}
    BY <1>10 DEF Change
  <2>2. at \in Node /\ paired[at] \in SUBSET Slot
    BY <1>10 DEF Change, TypeOK, OpenInv
  <2>3. paired' \in [Node -> SUBSET Slot] /\ always' \in SUBSET Slot /\ ever' \in SUBSET Slot
    BY <2>1, <2>2 DEF TypeOK
  <2> QED BY <1>10, <2>3 DEF Change, TypeOK
<1> QED BY <1>1, <1>2, <1>3, <1>5, <1>6, <1>7, <1>8, <1>9, <1>10

-----------------------------------------------------------------------------
(* Discover *)

\* A candidate is given up, because it fails or because it is of the wrong kind.
GivesUp ==
  /\ pc \in Probing
  /\ open' = open \ {at}
  /\ pc' = IF options.path # NoNode THEN "failed" ELSE "scan"
  /\ UNCHANGED <<nature, options, todo, found, paired, slot, devices, always, ever>>
  /\ \A n \in Range(found) : kind'[n] = kind[n]

LEMMA GivesUpCases ==
  ASSUME IInv, InspectFails \/ ConnectionFails \/ IdentityFails
               \/ (Identify /\ ~Wanted(Head(tries)))
  PROVE  GivesUp
<1> USE DEF worldVars, listVars, pairVars
<1>1. CASE InspectFails \/ ConnectionFails \/ IdentityFails
  BY <1>1 DEF InspectFails, ConnectionFails, IdentityFails, Discard, Discarded, GiveUp, GivesUp,
              Probing
<1>2. CASE Identify /\ ~Wanted(Head(tries))
  <2>1. /\ pc \in Probing
        /\ open' = open \ {at} /\ pc' = IF options.path # NoNode THEN "failed" ELSE "scan"
        /\ UNCHANGED <<nature, options, todo, found, paired, slot, devices, always, ever>>
    BY <1>2 DEF Identify, Discarded, Probing
  <2>2. kind' = [kind EXCEPT ![at] = Head(tries)] /\ at \notin Range(found)
    BY <1>2 DEF Identify, IInv, DistinctInv, Probing
  <2>3. Range(found) \subseteq Node
    BY RangeOfSeq DEF IInv, TypeOK
  <2> QED BY <2>1, <2>2, <2>3 DEF GivesUp, IInv, TypeOK
<1> QED BY <1>1, <1>2

LEMMA DistinctStep ==
  ASSUME IInv, Next
  PROVE  DistinctInv'
<1> USE DEF probeVars, Probing
<1>1. /\ IsInjective(todo) /\ IsInjective(found) /\ Range(todo) \cap Range(found) = {}
      /\ pc \in Probing => at \in Node /\ at \notin Range(todo) \cup Range(found)
  BY DEF IInv, DistinctInv
<1>2. todo # << >> => /\ Head(todo) \in Node /\ IsInjective(Tail(todo))
                     /\ Range(todo) = {Head(todo)} \cup Range(Tail(todo))
                     /\ Head(todo) \notin Range(Tail(todo))
  BY <1>1, RangeTaken DEF IInv, TypeOK
<1>3. ASSUME UNCHANGED <<todo, found>>, pc' \notin Probing \/ (pc \in Probing /\ at' = at)
      PROVE  DistinctInv'
  BY <1>1, <1>3 DEF DistinctInv
<1>4. CASE Open
  BY <1>1, <1>2, <1>4 DEF Open, DistinctInv
<1>5. CASE OpenFails
  BY <1>1, <1>2, <1>5 DEF OpenFails, DistinctInv
<1>6. CASE Inspect \/ ProbeConnection \/ TryNext
  BY <1>3, <1>6 DEF Inspect, ProbeConnection, TryNext
<1>7. CASE GivesUp
  BY <1>3, <1>7 DEF GivesUp
<1>8. CASE Identify /\ Wanted(Head(tries))
  <2>1. at \in Node /\ at \notin Range(todo) \cup Range(found)
    BY <1>1, <1>8 DEF Identify
  <2>2. Range(Append(found, at)) = Range(found) \cup {at} /\ IsInjective(Append(found, at))
    BY <1>1, <2>1, RangeGiven DEF IInv, TypeOK
  <2>3. found' = Append(found, at) /\ todo' = todo /\ pc' = "scan"
    BY <1>8 DEF Identify
  <2> QED BY <1>1, <2>1, <2>2, <2>3 DEF DistinctInv
<1>9. CASE \/ NoReceiver \/ Select \/ Configure \/ ConfigureFails \/ EmptySlot
           \/ ReadPairing \/ PairingFails \/ ReadName \/ NameFails \/ Return \/ CloseFails
           \/ Change
  <2>1. UNCHANGED <<todo, found>>
    BY <1>9 DEF NoReceiver, Select, Configure, ConfigureFails, EmptySlot, ReadPairing,
                PairingFails, ReadName, NameFails, Return, CloseFails, Change, Abandon
  <2>2. pc' \notin Probing
    BY <1>9 DEF NoReceiver, Select, Configure, ConfigureFails, EmptySlot, ReadPairing,
                PairingFails, ReadName, NameFails, Return, CloseFails, Change, Abandon, Beyond,
                IInv, TypeOK
  <2> QED BY <1>3, <2>1, <2>2
<1> QED BY <1>4, <1>5, <1>6, <1>7, <1>8, <1>9, GivesUpCases DEF Next

LEMMA PathStep ==
  ASSUME IInv, Next
  PROVE  PathInv'
<1> USE DEF worldVars, probeVars, Probing
<1>1. SUFFICES ASSUME options'.path # NoNode
               PROVE  /\ pc' = "scan" => \/ todo' = << >>
                                        \/ (Tail(todo') = << >> /\ found' = << >>)
                      /\ pc' \in Probing => todo' = << >> /\ found' = << >>
  BY DEF PathInv
<1>2. options' = options
  BY DEF Next, Open, OpenFails, Inspect, InspectFails, ProbeConnection, ConnectionFails, Identify,
         TryNext, IdentityFails, NoReceiver, Select, Configure, ConfigureFails, EmptySlot,
         ReadPairing, PairingFails, ReadName, NameFails, Return, CloseFails, Change, Abandon
<1>3. /\ pc = "scan" => todo = << >> \/ (Tail(todo) = << >> /\ found = << >>)
      /\ pc \in Probing => todo = << >> /\ found = << >>
  BY <1>1, <1>2 DEF IInv, PathInv
<1>4. CASE Open
  BY <1>3, <1>4 DEF Open
<1>5. CASE OpenFails
  BY <1>1, <1>2, <1>5 DEF OpenFails
<1>6. CASE Inspect \/ ProbeConnection \/ TryNext
  BY <1>3, <1>6 DEF Inspect, ProbeConnection, TryNext
<1>7. CASE GivesUp
  BY <1>1, <1>2, <1>7 DEF GivesUp
<1>8. CASE Identify /\ Wanted(Head(tries))
  BY <1>3, <1>8 DEF Identify
<1>9. CASE \/ NoReceiver \/ Select \/ Configure \/ ConfigureFails \/ EmptySlot
           \/ ReadPairing \/ PairingFails \/ ReadName \/ NameFails \/ Return \/ CloseFails
           \/ Change
  <2>1. pc' \notin {"scan"} \cup Probing
    BY <1>9 DEF NoReceiver, Select, Configure, ConfigureFails, EmptySlot, ReadPairing,
                PairingFails, ReadName, NameFails, Return, CloseFails, Change, Abandon, Beyond,
                IInv, TypeOK
  <2> QED BY <2>1
<1> QED BY <1>4, <1>5, <1>6, <1>7, <1>8, <1>9, GivesUpCases DEF Next

LEMMA OpenStep ==
  ASSUME IInv, Next
  PROVE  OpenInv'
<1> USE DEF worldVars, probeVars, Probing, Listing, OpenInv, OpenedIsOwned
<1>1. OpenInv /\ TypeOK
  BY DEF IInv
<1>2. CASE Open
  BY <1>1, <1>2 DEF Open, DistinctInv
<1>3. CASE OpenFails
  <2>1. CASE options.path = NoNode
    BY <1>1, <1>3, <2>1 DEF OpenFails
  <2>2. CASE options.path # NoNode
    <3>1. found = << >> /\ Range(<< >>) = {}
      BY <1>3, <2>2 DEF OpenFails, IInv, PathInv, Range
    <3> QED BY <1>1, <1>3, <2>2, <3>1 DEF OpenFails
  <2> QED BY <2>1, <2>2
<1>4. CASE Inspect \/ ProbeConnection \/ TryNext
  BY <1>1, <1>4 DEF Inspect, ProbeConnection, TryNext
<1>5. CASE GivesUp
  <2>1. open' = Range(found)
    BY <1>1, <1>5 DEF GivesUp, IInv, DistinctInv
  <2>2. CASE options.path = NoNode
    BY <1>5, <2>1, <2>2 DEF GivesUp
  <2>3. CASE options.path # NoNode
    <3>1. found = << >> /\ Range(<< >>) = {}
      BY <1>5, <2>3 DEF GivesUp, IInv, PathInv, Range
    <3> QED BY <1>5, <2>1, <2>3, <3>1 DEF GivesUp
  <2> QED BY <2>2, <2>3
<1>6. CASE Identify /\ Wanted(Head(tries))
  <2>1. Range(Append(found, at)) = Range(found) \cup {at}
    BY <1>6, RangeGiven DEF IInv, TypeOK, DistinctInv, Identify
  <2> QED BY <1>1, <1>6, <2>1 DEF Identify
<1>7. CASE NoReceiver
  <2>1. Range(<< >>) = {}
    BY DEF Range
  <2> QED BY <1>1, <1>7, <2>1 DEF NoReceiver
<1>8. CASE Select
  <2>1. /\ Head(found) \in Node /\ Range(found) = {Head(found)} \cup Range(Tail(found))
        /\ Head(found) \notin Range(Tail(found))
    BY <1>8, RangeTaken DEF Select, IInv, TypeOK, DistinctInv
  <2>2. open' = {Head(found)}
    BY <1>1, <1>8, <2>1 DEF Select, Others
  <2> QED BY <1>8, <2>1, <2>2 DEF Select
<1>9. CASE Configure \/ ReadPairing \/ Change
  BY <1>1, <1>9 DEF Configure, ReadPairing, Change
<1>10. CASE ConfigureFails \/ PairingFails \/ NameFails \/ CloseFails
  BY <1>1, <1>10 DEF ConfigureFails, PairingFails, NameFails, CloseFails, Abandon
<1>11. CASE EmptySlot \/ ReadName
  <2>1. pc' \in {"return", "pairing"} /\ UNCHANGED <<open, at>>
    BY <1>11 DEF EmptySlot, ReadName, Beyond
  <2> QED BY <1>1, <1>11, <2>1 DEF EmptySlot, ReadName
<1>12. CASE Return
  <2>1. pc' = options.caller /\ options.caller \in {"snapshot", "session"} /\ at' = at
    BY <1>1, <1>12 DEF Return, TypeOK
  <2> QED BY <1>1, <1>12, <2>1 DEF Return
<1> QED BY <1>2, <1>3, <1>4, <1>5, <1>6, <1>7, <1>8, <1>9, <1>10, <1>11, <1>12, GivesUpCases
        DEF Next

LEMMA FoundStep ==
  ASSUME IInv, Next
  PROVE  FoundInv'
<1> USE DEF worldVars, probeVars, Probing, Listing, FoundInv, Wanted
<1>1. FoundInv /\ TypeOK
  BY DEF IInv
<1>2. ASSUME UNCHANGED <<nature, options, found>>,
             \A n \in Range(found) : kind'[n] = kind[n],
             pc' \in {"scan", "failed"} \cup Probing
      PROVE  FoundInv'
  BY <1>1, <1>2
<1>3. CASE Open \/ OpenFails \/ Inspect \/ ProbeConnection \/ TryNext \/ GivesUp \/ NoReceiver
  <2>1. /\ UNCHANGED <<nature, options, found>>
        /\ \A n \in Range(found) : kind'[n] = kind[n]
    BY <1>3 DEF Open, OpenFails, Inspect, ProbeConnection, TryNext, GivesUp, NoReceiver
  <2>2. pc' \in {"scan", "failed"} \cup Probing
    BY <1>3 DEF Open, OpenFails, Inspect, ProbeConnection, TryNext, GivesUp, NoReceiver
  <2> QED BY <1>2, <2>1, <2>2
<1>4. CASE Identify /\ Wanted(Head(tries))
  <2>1. /\ at \in Node /\ Range(found) \subseteq Node
        /\ Range(Append(found, at)) = Range(found) \cup {at}
    BY <1>4, RangeGiven, RangeOfSeq DEF IInv, TypeOK, DistinctInv, Identify
  <2>2. nature[at] = Head(tries) /\ Head(tries) \in Kind
    BY <1>1, <1>4, RangeTaken DEF Identify, TypeOK
  <2>3. /\ kind' = [kind EXCEPT ![at] = Head(tries)] /\ found' = Append(found, at)
        /\ pc' = "scan" /\ UNCHANGED <<nature, options>>
    BY <1>4 DEF Identify
  <2>4. \A n \in Range(found) \cup {at} : nature[n] \in Kind /\ Wanted(nature[n])
                                            /\ kind'[n] = nature[n]
    BY <1>1, <1>4, <2>1, <2>2, <2>3 DEF TypeOK
  <2> QED BY <2>1, <2>3, <2>4
<1>5. CASE Select
  <2>1. Head(found) \in Node /\ Head(found) \in Range(found)
    BY <1>1, <1>5, RangeTaken DEF Select, TypeOK
  <2> QED BY <1>1, <1>5, <2>1 DEF Select
<1>6. CASE \/ Configure \/ ConfigureFails \/ EmptySlot \/ ReadPairing \/ PairingFails
           \/ ReadName \/ NameFails \/ Return \/ CloseFails \/ Change
  <2>1. UNCHANGED <<nature, options, found, kind, at>> /\ pc \in {"configure"} \cup Listing
    BY <1>6 DEF Configure, ConfigureFails, EmptySlot, ReadPairing, PairingFails, ReadName,
                NameFails, Return, CloseFails, Change, Abandon
  <2> QED BY <1>1, <2>1
<1> QED BY <1>3, <1>4, <1>5, <1>6, GivesUpCases DEF Next

-----------------------------------------------------------------------------
(* EnumeratePaired *)

\* The slots after the one that has been read, or none.
LEMMA BeyondCovers ==
  ASSUME IInv, Beyond(slot), UNCHANGED <<always, ever, at, paired>>,
         pc \in {"pairing", "name"},
         devices \subseteq devices', devices' \subseteq ever,
         slot \in always => slot \in devices'
  PROVE  ListInv'
<1> USE DEF Listing, Probing
<1>0. slot \in Slot /\ always \in SUBSET Slot
  BY DEF IInv, TypeOK
<1>1. /\ slot \in 1..MaxSlot /\ always \subseteq 1..MaxSlot /\ MaxSlot \in Nat
      /\ always \subseteq paired[at] /\ paired[at] \subseteq ever
      /\ \A s \in always : s < slot => s \in devices
  BY SlotType DEF IInv, TypeOK, ListInv, Slot
<1>2. \A s \in always : s \in 1..MaxSlot /\ (s < slot + 1 => s < slot \/ s = slot)
  <2>1. \A s \in always : s \in Slot /\ s \in Nat
    BY <1>0, SlotType
  <2>2. \A s, t \in Nat : s < t + 1 => s < t \/ s = t
    OBVIOUS
  <2>3. slot \in Nat
    BY <1>0, SlotType
  <2> QED BY <2>1, <2>2, <2>3 DEF Slot
<1>3. \A s \in always : s < slot + 1 => s \in devices'
  BY <1>1, <1>2
<1>4. \/ pc' = "return" /\ slot' = slot /\ slot = MaxSlot
      \/ pc' = "pairing" /\ slot' = slot + 1
  BY BeyondType DEF IInv, TypeOK
<1>5. CASE pc' = "return" /\ slot' = slot /\ slot = MaxSlot
  <2>1. \A s \in always : s < slot + 1
    BY <1>1, <1>2, <1>5
  <2>2. always' \subseteq devices'
    BY <1>3, <2>1
  <2> QED BY <1>1, <1>5, <2>2 DEF ListInv
<1>6. CASE pc' = "pairing" /\ slot' = slot + 1
  BY <1>1, <1>3, <1>6 DEF ListInv
<1> QED BY <1>4, <1>5, <1>6

LEMMA ListStep ==
  ASSUME IInv, Next
  PROVE  ListInv'
<1> USE DEF Probing, Listing, worldVars, probeVars, listVars, pairVars
<1>1. ListInv /\ TypeOK
  BY DEF IInv
<1>2. CASE \/ Open \/ OpenFails \/ Inspect \/ ProbeConnection \/ TryNext \/ GivesUp
           \/ (Identify /\ Wanted(Head(tries))) \/ NoReceiver \/ Select
  <2>1. /\ pc \in {"scan"} \cup Probing /\ UNCHANGED <<slot, devices>>
        /\ pc' \in {"scan", "configure", "failed"} \cup Probing
    BY <1>2 DEF Open, OpenFails, Inspect, ProbeConnection, TryNext, GivesUp, Identify, NoReceiver,
                Select
  <2> QED BY <1>1, <2>1 DEF ListInv
<1>3. CASE Configure
  <2>1. slot = 1 /\ devices = {}
    BY <1>1, <1>3 DEF Configure, ListInv
  <2>2. always' = paired[at] /\ ever' = paired[at] /\ paired[at] \in SUBSET Slot
    BY <1>1, <1>3 DEF Configure, TypeOK, IInv, OpenInv
  <2>3. \A s \in Slot : ~(s < 1)
    BY SlotType DEF Slot
  <2> QED BY <1>3, <2>1, <2>2, <2>3 DEF Configure, ListInv
<1>4. CASE ConfigureFails \/ PairingFails \/ NameFails \/ CloseFails
  BY <1>4 DEF ConfigureFails, PairingFails, NameFails, CloseFails, Abandon, ListInv
<1>5. CASE EmptySlot
  <2>1. slot \notin paired[at]
    BY <1>5 DEF EmptySlot, Holds, IInv, FoundInv
  <2>2. slot \notin always /\ devices \subseteq ever
    BY <1>1, <1>5, <2>1 DEF EmptySlot, ListInv
  <2> QED BY <1>5, <2>2, BeyondCovers DEF EmptySlot
<1>6. CASE ReadPairing
  <2>1. slot \in ever
    BY <1>1, <1>6 DEF ReadPairing, Holds, ListInv
  <2> QED BY <1>1, <1>6, <2>1 DEF ReadPairing, ListInv
<1>7. CASE ReadName
  <2>1. devices' = devices \cup {slot} /\ devices \subseteq ever /\ slot \in ever
    BY <1>1, <1>7 DEF ReadName, ListInv
  <2> QED BY <1>7, <2>1, BeyondCovers DEF ReadName
<1>8. CASE Return
  <2>1. pc' \in {"snapshot", "session"}
    BY <1>1, <1>8 DEF Return, TypeOK
  <2> QED BY <1>1, <1>8, <2>1 DEF Return, ListInv
<1>9. CASE Change
  <2>1. PICK s \in Slot :
          /\ paired' = [paired EXCEPT ![at] = IF s \in @ THEN @ \ {s} ELSE @ \cup {s}]
          /\ always' = always \ {s}
          /\ ever' = ever \cup {s}
    BY <1>9 DEF Change
  <2>2. pc \in {"pairing", "name"} /\ at \in Node /\ UNCHANGED <<pc, at, slot, devices>>
    BY <1>9 DEF Change, IInv, OpenInv
  <2>3. paired'[at] = IF s \in paired[at] THEN paired[at] \ {s} ELSE paired[at] \cup {s}
    BY <1>1, <2>1, <2>2 DEF TypeOK
  <2>4. always' \subseteq paired'[at] /\ paired'[at] \subseteq ever'
    BY <1>1, <2>1, <2>2, <2>3 DEF ListInv
  <2> QED BY <1>1, <2>1, <2>2, <2>4 DEF ListInv
<1> QED BY <1>2, <1>3, <1>4, <1>5, <1>6, <1>7, <1>8, <1>9, GivesUpCases DEF Next

-----------------------------------------------------------------------------
(* The first usable candidate *)

LEMMA CandidatesAre ==
  ASSUME TypeOK
  PROVE  /\ Candidates \in Seq(Node) /\ Len(Candidates) \in Nat
         /\ DOMAIN Candidates = 1..Len(Candidates)
         /\ options.path # NoNode => Len(Candidates) = 1
<1>1. CASE options.path = NoNode
  <2>1. Candidates = Scan /\ Scan \in Seq(Node)
    BY <1>1, DiscoveryAssumption DEF Candidates, Node
  <2> QED BY <1>1, <2>1, LenProperties
<1>2. CASE options.path # NoNode
  <2>1. Candidates = <<options.path>> /\ options.path \in Node
    BY <1>2 DEF Candidates, TypeOK
  <2> QED BY <2>1
<1> QED BY <1>1, <1>2

\* The caller and the nodes stay as they are, and failures are only added.
LEMMA WorldStays ==
  ASSUME IInv, Next
  PROVE  /\ UNCHANGED <<nature, options>>
         /\ Candidates' = Candidates
         /\ BeginsWithFirst(found, Met)' = BeginsWithFirst(found', Met')
         /\ BeginsWithFirst(found, Met - 1)' = BeginsWithFirst(found', Met' - 1)
         /\ BeginsWithFirst(found, Len(Candidates))' = BeginsWithFirst(found', Len(Candidates))
         /\ UsableUpTo(Len(Candidates))' = UsableUpTo(Len(Candidates))
         /\ faults' \in Nat /\ (faults' = 0 => faults = 0)
<1>1. UNCHANGED <<nature, options>> /\ faults' \in {faults, faults + 1}
  BY DEF Next, Open, OpenFails, Inspect, InspectFails, ProbeConnection, ConnectionFails, Identify,
         TryNext, IdentityFails, NoReceiver, Select, Configure, ConfigureFails, EmptySlot,
         ReadPairing, PairingFails, ReadName, NameFails, Return, CloseFails, Change, Abandon,
         Discard, GiveUp, Fault, worldVars, probeVars
<1>2. faults' \in Nat /\ (faults' = 0 => faults = 0)
  BY <1>1 DEF IInv, FirstInv
<1>3. Candidates' = Candidates
  BY <1>1 DEF Candidates
<1>4. /\ BeginsWithFirst(found, Met)' = BeginsWithFirst(found', Met')
      /\ BeginsWithFirst(found, Met - 1)' = BeginsWithFirst(found', Met' - 1)
      /\ BeginsWithFirst(found, Len(Candidates))' = BeginsWithFirst(found', Len(Candidates))
      /\ UsableUpTo(Len(Candidates))' = UsableUpTo(Len(Candidates))
  BY <1>1, <1>3 DEF BeginsWithFirst, UsableUpTo, Usable, Wanted
<1> QED BY <1>1, <1>2, <1>3, <1>4

\* One candidate more has been met: it is not usable and passed over, ...
LEMMA FirstPassed ==
  ASSUME NEW k \in Nat, NEW list, BeginsWithFirst(list, k), ~Usable(Candidates[k + 1])
  PROVE  BeginsWithFirst(list, k + 1)
<1>1. 1..(k + 1) = 1..k \cup {k + 1}
  OBVIOUS
<1>2. UsableUpTo(k + 1) = UsableUpTo(k)
  BY <1>1 DEF UsableUpTo
<1> QED BY <1>2 DEF BeginsWithFirst

\* ... or usable and added.
LEMMA FirstAdded ==
  ASSUME NEW k \in Nat, NEW list \in Seq(Node), BeginsWithFirst(list, k),
         Usable(Candidates[k + 1]), Candidates[k + 1] \in Node
  PROVE  BeginsWithFirst(Append(list, Candidates[k + 1]), k + 1)
<1> DEFINE longer == Append(list, Candidates[k + 1])
<1>1. /\ longer # << >> /\ Len(list) \in Nat
      /\ \A i \in 1..Len(list) : longer[i] = list[i]
      /\ longer[Len(list) + 1] = Candidates[k + 1]
  BY AppendProperties, LenProperties
<1>2. 1..(k + 1) = 1..k \cup {k + 1} /\ \A i \in 1..k : i <= k + 1
  OBVIOUS
<1>3. UsableUpTo(k + 1) = UsableUpTo(k) \cup {k + 1} /\ UsableUpTo(k) \subseteq 1..k
  BY <1>2 DEF UsableUpTo
<1> HIDE DEF longer, UsableUpTo
<1>4. CASE UsableUpTo(k) = {}
  <2>1. list = << >> /\ Len(list) = 0
    BY <1>4 DEF BeginsWithFirst
  <2>2. longer[1] = Candidates[k + 1]
    BY <1>1, <2>1
  <2> QED BY <1>1, <1>3, <1>4, <2>2 DEF BeginsWithFirst, longer
<1>5. CASE UsableUpTo(k) # {}
  <2>1. PICK i \in UsableUpTo(k) : list[1] = Candidates[i] /\ \A j \in UsableUpTo(k) : i <= j
    BY <1>5 DEF BeginsWithFirst
  <2>2. list # << >>
    BY <1>5 DEF BeginsWithFirst
  <2>3. 1 \in 1..Len(list)
    BY <1>1, <2>2, EmptySeq
  <2>4. longer[1] = Candidates[i]
    BY <1>1, <2>1, <2>3
  <2>5. i \in UsableUpTo(k + 1) /\ \A j \in UsableUpTo(k + 1) : i <= j
    BY <1>2, <1>3, <2>1
  <2> QED BY <1>1, <1>3, <2>4, <2>5 DEF BeginsWithFirst, longer
<1> QED BY <1>4, <1>5

LEMMA MetIs ==
  ASSUME TypeOK, TodoInv
  PROVE  /\ Met \in Nat /\ Met <= Len(Candidates) /\ Len(todo) \in Nat
         /\ todo = << >> => Met = Len(Candidates)
         /\ todo # << >> => /\ Tail(todo) \in Seq(Node) /\ Len(Tail(todo)) = Len(todo) - 1
                            /\ Len(Candidates) - Len(Tail(todo)) = Met + 1
                            /\ Head(todo) = Candidates[Met + 1] /\ Met + 1 \in 1..Len(Candidates)
                            /\ \A i \in 1..Len(Tail(todo)) :
                                 Tail(todo)[i] = Candidates[Met + 1 + i]
<1>1. Len(todo) \in Nat /\ Len(Candidates) \in Nat /\ Len(todo) <= Len(Candidates)
      /\ \A i \in 1..Len(todo) : todo[i] = Candidates[Met + i]
  BY CandidatesAre, LenProperties DEF TypeOK, TodoInv
<1>2. Met \in Nat /\ Met <= Len(Candidates) /\ Met = Len(Candidates) - Len(todo)
  BY <1>1 DEF Met
<1> HIDE DEF Met
<1>3. todo = << >> => Met = Len(Candidates)
  BY <1>1, <1>2
<1>4. ASSUME todo # << >>
      PROVE  /\ Tail(todo) \in Seq(Node) /\ Len(Tail(todo)) = Len(todo) - 1
             /\ Len(Candidates) - Len(Tail(todo)) = Met + 1
             /\ Head(todo) = Candidates[Met + 1] /\ Met + 1 \in 1..Len(Candidates)
             /\ \A i \in 1..Len(Tail(todo)) : Tail(todo)[i] = Candidates[Met + 1 + i]
  <2>1. /\ Tail(todo) \in Seq(Node) /\ Len(Tail(todo)) = Len(todo) - 1 /\ Len(todo) # 0
        /\ \A i \in 1..Len(Tail(todo)) : Tail(todo)[i] = todo[i + 1]
        /\ Head(todo) = todo[1]
    BY <1>4, HeadTailProperties, EmptySeq DEF TypeOK
  <2>2. 1 \in 1..Len(todo) /\ Met + 1 \in 1..Len(Candidates)
        /\ Len(Candidates) - Len(Tail(todo)) = Met + 1
    BY <1>1, <1>2, <2>1
  <2>3. \A i \in 1..Len(Tail(todo)) : i + 1 \in 1..Len(todo) /\ Met + (i + 1) = Met + 1 + i
    BY <1>1, <1>2, <2>1
  <2>4. \A i \in 1..Len(Tail(todo)) : Tail(todo)[i] = Candidates[Met + 1 + i]
    BY <1>1, <2>1, <2>3
  <2> QED BY <1>1, <2>1, <2>2, <2>4
<1> QED BY <1>1, <1>2, <1>3, <1>4

LEMMA TodoStep ==
  ASSUME IInv, Next
  PROVE  TodoInv'
<1> USE DEF probeVars, Probing
<1>1. TypeOK /\ TodoInv
  BY DEF IInv
<1>2. Candidates' = Candidates
  BY WorldStays
<1>3. ASSUME todo' = todo, pc' \in Probing => pc \in Probing /\ at' = at
      PROVE  TodoInv'
  <2>1. Met' = Met
    BY <1>2, <1>3 DEF Met
  <2> QED BY <1>1, <1>2, <1>3, <2>1 DEF TodoInv
<1>4. ASSUME todo # << >>, todo' = Tail(todo), pc' \in Probing => at' = Head(todo)
      PROVE  TodoInv' /\ Met' = Met + 1
  <2>1. Met' = Met + 1
    BY <1>1, <1>2, <1>4, MetIs DEF Met
  <2>2. Met \in Nat /\ Len(todo) \in Nat /\ Len(todo') <= Len(Candidates)
        /\ \A i \in 1..Len(todo') : todo'[i] = Candidates[Met + 1 + i]
    <3>1. Len(todo') = Len(todo) - 1 /\ Len(todo) <= Len(Candidates) /\ Len(todo) \in Nat
          /\ Len(Candidates) \in Nat
      BY <1>1, <1>4, MetIs, CandidatesAre DEF TodoInv
    <3> QED BY <1>1, <1>4, <3>1, MetIs
  <2>3. Head(todo) = Candidates[Met + 1] /\ Met + 1 >= 1
    BY <1>1, <1>4, <2>2, MetIs
  <2> QED BY <1>2, <1>4, <2>1, <2>2, <2>3 DEF TodoInv
<1>5. CASE Open \/ OpenFails
  BY <1>4, <1>5 DEF Open, OpenFails
<1>6. CASE Inspect \/ ProbeConnection \/ TryNext \/ GivesUp \/ (Identify /\ Wanted(Head(tries)))
  BY <1>3, <1>6 DEF Inspect, ProbeConnection, TryNext, GivesUp, Identify
<1>7. CASE \/ NoReceiver \/ Select \/ Configure \/ ConfigureFails \/ EmptySlot
           \/ ReadPairing \/ PairingFails \/ ReadName \/ NameFails \/ Return \/ CloseFails
           \/ Change
  <2>1. todo' = todo
    BY <1>7 DEF NoReceiver, Select, Configure, ConfigureFails, EmptySlot, ReadPairing,
                PairingFails, ReadName, NameFails, Return, CloseFails, Change, Abandon
  <2>2. pc' \notin Probing
    BY <1>7 DEF NoReceiver, Select, Configure, ConfigureFails, EmptySlot, ReadPairing,
                PairingFails, ReadName, NameFails, Return, CloseFails, Change, Abandon, Beyond,
                IInv, TypeOK
  <2> QED BY <1>3, <2>1, <2>2
<1> QED BY <1>5, <1>6, <1>7, GivesUpCases DEF Next

\* Nothing having failed, a candidate is given up only when it is of no use.
LEMMA GivenUpIsNoUse ==
  ASSUME IInv, faults = 0, faults' = 0,
         InspectFails \/ ConnectionFails \/ IdentityFails
           \/ (Identify /\ ~Wanted(Head(tries)))
  PROVE  ~Usable(at)
<1>1. ~Fault
  BY DEF Fault
<1>2. CASE InspectFails
  <2>1. nature[at] = "foreign"
    BY <1>1, <1>2 DEF InspectFails
  <2> QED BY <2>1 DEF Usable, Kind
<1>3. CASE ConnectionFails
  BY <1>1, <1>3 DEF ConnectionFails, Usable
<1>4. CASE IdentityFails
  <2>1. tries = << >> /\ pc = "identity" /\ Range(<< >>) = {}
    BY <1>1, <1>4 DEF IdentityFails, Range
  <2> QED BY <2>1 DEF Usable, IInv, FirstInv
<1>5. CASE Identify /\ ~Wanted(Head(tries))
  BY <1>5 DEF Identify, Usable
<1> QED BY <1>2, <1>3, <1>4, <1>5

LEMMA FirstStep ==
  ASSUME IInv, Next
  PROVE  FirstInv'
<1> USE DEF probeVars, Probing, Listing
<1>1. TypeOK /\ TodoInv /\ FirstInv /\ PathInv /\ DistinctInv
  BY DEF IInv
<1>2. /\ UNCHANGED <<nature, options>> /\ Candidates' = Candidates
      /\ BeginsWithFirst(found, Met)' = BeginsWithFirst(found', Met')
      /\ BeginsWithFirst(found, Met - 1)' = BeginsWithFirst(found', Met' - 1)
      /\ BeginsWithFirst(found, Len(Candidates))' = BeginsWithFirst(found', Len(Candidates))
      /\ UsableUpTo(Len(Candidates))' = UsableUpTo(Len(Candidates))
      /\ faults' \in Nat /\ (faults' = 0 => faults = 0)
  BY WorldStays
<1>3. SUFFICES
        ASSUME faults = 0, faults' = 0
        PROVE  /\ pc' = "scan" => BeginsWithFirst(found', Met')
               /\ pc' \in Probing => BeginsWithFirst(found', Met' - 1)
               /\ pc' = "identity" /\ nature[at'] \in Kind => nature[at'] \in Range(tries')
               /\ pc' \in {"configure", "snapshot", "session"} \cup Listing =>
                    /\ BeginsWithFirst(found', Len(Candidates))
                    /\ found' # << >> /\ at' = found'[1]
               /\ pc' = "failed" => UsableUpTo(Len(Candidates)) = {}
  BY <1>2 DEF FirstInv
<1>4. /\ pc = "scan" => BeginsWithFirst(found, Met)
      /\ pc \in Probing => BeginsWithFirst(found, Met - 1) /\ at = Candidates[Met] /\ Met >= 1
      /\ pc = "identity" /\ nature[at] \in Kind => nature[at] \in Range(tries)
      /\ pc \in {"configure", "snapshot", "session"} \cup Listing =>
           /\ BeginsWithFirst(found, Len(Candidates))
           /\ found # << >> /\ at = found[1]
      /\ pc = "failed" => UsableUpTo(Len(Candidates)) = {}
  BY <1>1, <1>3 DEF FirstInv, TodoInv
<1>5. Met \in Nat /\ (todo = << >> => Met = Len(Candidates))
      /\ (todo # << >> => Head(todo) = Candidates[Met + 1])
      /\ (todo' = todo => Met' = Met)
      /\ (todo # << >> /\ todo' = Tail(todo) => Met' = Met + 1)
  <2>1. todo' = todo => Met' = Met
    BY <1>2 DEF Met
  <2>2. todo # << >> /\ todo' = Tail(todo) => Met' = Met + 1
    BY <1>1, <1>2, MetIs DEF Met
  <2> QED BY <1>1, <2>1, <2>2, MetIs
<1>6. ~Fault
  BY <1>3 DEF Fault
<1>7. CASE Open
  <2>1. pc' = "inspect" /\ found' = found /\ Met' - 1 = Met /\ pc = "scan"
    BY <1>5, <1>7 DEF Open
  <2> QED BY <1>4, <2>1
<1>8. CASE OpenFails
  <2>1. /\ pc = "scan" /\ todo # << >> /\ found' = found /\ Met' = Met + 1
        /\ pc' = IF options.path # NoNode THEN "failed" ELSE "scan"
    BY <1>5, <1>8 DEF OpenFails
  <2>2. ~Usable(Candidates[Met + 1])
    <3>1. nature[Head(todo)] \in {"denied", "absent"}
      BY <1>6, <1>8 DEF OpenFails
    <3> QED BY <1>5, <2>1, <3>1 DEF Usable, Kind
  <2>3. BeginsWithFirst(found, Met + 1)
    BY <1>4, <1>5, <2>1, <2>2, FirstPassed
  <2>4. CASE options.path = NoNode
    BY <2>1, <2>3, <2>4
  <2>5. CASE options.path # NoNode
    <3>1. Len(Candidates) = 1 /\ Met + 1 \in 1..Len(Candidates) /\ found = << >>
      BY <1>1, <2>1, <2>5, CandidatesAre, MetIs DEF PathInv
    <3>2. Met + 1 = Len(Candidates)
      BY <1>5, <3>1
    <3>3. UsableUpTo(Len(Candidates)) = {}
      BY <2>3, <3>1, <3>2 DEF BeginsWithFirst
    <3> QED BY <2>1, <2>5, <3>3
  <2> QED BY <2>4, <2>5
<1>9. CASE Inspect
  BY <1>4, <1>5, <1>9 DEF Inspect
<1>10. CASE ProbeConnection
  <2>1. Range(tries') = Kind
    <3>1. \A a, b : Range(<<a, b>>) = {a, b}
      BY DEF Range
    <3> QED BY <1>10, <3>1 DEF ProbeConnection, ProbeOrder, Kind
  <2> QED BY <1>4, <1>5, <1>10, <2>1 DEF ProbeConnection
<1>11. CASE TryNext
  <2>1. /\ pc = "identity" /\ UNCHANGED <<pc, at, found, todo>> /\ nature[at] # Head(tries)
        /\ tries' = Tail(tries)
    BY <1>6, <1>11 DEF TryNext
  <2>2. nature[at] \in Kind => nature[at] \in Range(tries')
    <3>1. Range(tries) = {Head(tries)} \cup Range(Tail(tries))
      BY <1>1, <1>11, RangeTaken DEF TryNext, TypeOK
    <3> QED BY <1>4, <2>1, <3>1
  <2> QED BY <1>4, <1>5, <2>1, <2>2
<1>12. CASE \/ InspectFails \/ ConnectionFails \/ IdentityFails
            \/ (Identify /\ ~Wanted(Head(tries)))
  <2>1. ~Usable(at) /\ GivesUp
    BY <1>3, <1>12, GivenUpIsNoUse, GivesUpCases
  <2>2. /\ pc \in Probing /\ found' = found /\ Met' = Met
        /\ pc' = IF options.path # NoNode THEN "failed" ELSE "scan"
    BY <1>5, <2>1 DEF GivesUp
  <2>3. BeginsWithFirst(found, Met)
    <3>1. Met - 1 \in Nat /\ Met - 1 + 1 = Met
      BY <1>4, <1>5, <2>2
    <3>2. ~Usable(Candidates[Met - 1 + 1]) /\ BeginsWithFirst(found, Met - 1)
      BY <1>4, <2>1, <2>2, <3>1
    <3>3. BeginsWithFirst(found, Met - 1 + 1)
      BY <3>1, <3>2, FirstPassed
    <3> QED BY <3>1, <3>3
  <2>4. CASE options.path = NoNode
    BY <2>2, <2>3, <2>4
  <2>5. CASE options.path # NoNode
    <3>1. todo = << >> /\ found = << >>
      BY <1>1, <2>2, <2>5 DEF PathInv
    <3>2. UsableUpTo(Len(Candidates)) = {}
      BY <1>5, <2>3, <3>1 DEF BeginsWithFirst
    <3> QED BY <2>2, <2>5, <3>2
  <2> QED BY <2>4, <2>5
<1>13. CASE Identify /\ Wanted(Head(tries))
  <2>1. /\ pc \in Probing /\ nature[at] = Head(tries) /\ tries # << >>
        /\ found' = Append(found, at) /\ Met' = Met /\ pc' = "scan"
    BY <1>5, <1>13 DEF Identify
  <2>2. Usable(at) /\ at \in Node
    <3>1. Head(tries) \in Kind
      BY <1>1, <2>1, RangeTaken DEF TypeOK
    <3> QED BY <1>1, <1>13, <2>1, <3>1 DEF Usable, DistinctInv
  <2>3. Met - 1 \in Nat /\ Met - 1 + 1 = Met /\ at = Candidates[Met]
    BY <1>4, <1>5, <2>1
  <2>4. Usable(Candidates[Met - 1 + 1]) /\ Candidates[Met - 1 + 1] \in Node
        /\ BeginsWithFirst(found, Met - 1) /\ found \in Seq(Node)
    BY <1>1, <1>4, <2>1, <2>2, <2>3 DEF TypeOK
  <2>5. BeginsWithFirst(Append(found, Candidates[Met - 1 + 1]), Met - 1 + 1)
    BY <2>3, <2>4, FirstAdded
  <2>6. BeginsWithFirst(found', Met')
    BY <2>1, <2>3, <2>5
  <2> QED BY <2>1, <2>6
<1>14. CASE NoReceiver
  <2>1. pc = "scan" /\ todo = << >> /\ found = << >> /\ pc' = "failed"
    BY <1>14 DEF NoReceiver
  <2>2. UsableUpTo(Len(Candidates)) = {}
    BY <1>4, <1>5, <2>1 DEF BeginsWithFirst
  <2> QED BY <2>1, <2>2
<1>15. CASE Select
  <2>1. /\ pc = "scan" /\ todo = << >> /\ found # << >> /\ found' = found
        /\ at' = found[1] /\ pc' = "configure"
    BY <1>15 DEF Select
  <2> QED BY <1>4, <1>5, <2>1
<1>16. CASE ConfigureFails \/ PairingFails \/ NameFails \/ CloseFails
  BY <1>6, <1>16 DEF ConfigureFails, PairingFails, NameFails, CloseFails
<1>17. CASE Configure \/ EmptySlot \/ ReadPairing \/ ReadName \/ Return \/ Change
  <2>1. UNCHANGED <<found, at>> /\ pc \in {"configure"} \cup Listing
    BY <1>17 DEF Configure, EmptySlot, ReadPairing, ReadName, Return, Change
  <2>2. pc' \in {"snapshot", "session"} \cup Listing
    <3>1. options.caller \in {"snapshot", "session"}
      BY <1>1 DEF TypeOK
    <3> QED BY <1>17, <3>1 DEF Configure, EmptySlot, ReadPairing, ReadName, Return, Change, Beyond
  <2> QED BY <1>4, <2>1, <2>2
<1> QED BY <1>7, <1>8, <1>9, <1>10, <1>11, <1>12, <1>13, <1>14, <1>15, <1>16, <1>17 DEF Next

-----------------------------------------------------------------------------
(* The invariant *)

LEMMA StepInv ==
  ASSUME IInv, [Next]_vars
  PROVE  IInv'
<1>1. CASE Next
  <2>1. TypeOK'
    BY <1>1, DiscoverType, ListType DEF Next
  <2> QED BY <1>1, <2>1, DistinctStep, PathStep, OpenStep, FoundStep, ListStep, TodoStep,
              FirstStep DEF IInv
<1>2. CASE UNCHANGED vars
  <2> USE DEF vars, worldVars, probeVars, listVars, pairVars
  <2>1. (TypeOK /\ DistinctInv /\ PathInv /\ OpenInv /\ FoundInv /\ ListInv)'
    BY <1>2 DEF IInv, TypeOK, DistinctInv, PathInv, OpenInv, OpenedIsOwned, FoundInv, Wanted,
                ListInv
  <2>2. Candidates' = Candidates /\ Met' = Met
    BY <1>2 DEF Candidates, Met
  <2>3. TodoInv'
    BY <1>2, <2>2 DEF IInv, TodoInv
  <2>4. FirstInv'
    BY <1>2, <2>2 DEF IInv, FirstInv, BeginsWithFirst, UsableUpTo, Usable, Wanted
  <2> QED BY <2>1, <2>3, <2>4 DEF IInv
<1> QED BY <1>1, <1>2

\* The invariant holds in every state that discovery reaches.
THEOREM Invariance == Spec => []IInv
  BY InitInv, StepInv, PTL DEF Spec

\* Every variable keeps its type, whatever nodes there are and whatever fails.
THEOREM TypeCorrect == Spec => []TypeOK
<1>1. IInv => TypeOK
  BY DEF IInv
<1> QED BY <1>1, Invariance, PTL

\* For any number of nodes: however discovery ends, every node opened on the way
\* has been closed, except the receiver of the session returned.
THEOREM OpenedAreClosed == Spec => []OpenedIsOwned
<1>1. IInv => OpenedIsOwned
  BY DEF IInv, OpenInv
<1> QED BY <1>1, Invariance, PTL

\* For any number of slots, and of devices paired or unpaired while they are
\* read: the list of a discovery that succeeds has every slot that was paired
\* all the while, and none that never was.
THEOREM ListIsExact == Spec => []EnumerationIsExact
<1>1. IInv => EnumerationIsExact
  BY DEF IInv, FoundInv, ListInv, Listing, EnumerationIsExact
<1> QED BY <1>1, Invariance, PTL

\* For any number of nodes, whatever they are and whatever their product IDs
\* say: as long as no exchange fails the first usable one is selected, and
\* discovery fails only when none is usable.
THEOREM FirstUsableIsSelected == Spec => []FirstIsSelected
<1>1. IInv => FirstIsSelected
  <2> SUFFICES ASSUME IInv, faults = 0, pc \in {"failed", "snapshot", "session"}
               PROVE  LET usable == {i \in DOMAIN Candidates : Usable(Candidates[i])}
                      IN IF usable = {}
                           THEN pc = "failed"
                           ELSE /\ pc # "failed"
                                /\ \E i \in usable :
                                     at = Candidates[i] /\ \A j \in usable : i <= j
    BY DEF FirstIsSelected
  <2>1. {i \in DOMAIN Candidates : Usable(Candidates[i])} = UsableUpTo(Len(Candidates))
    BY CandidatesAre DEF IInv, UsableUpTo
  <2>2. /\ pc = "failed" => UsableUpTo(Len(Candidates)) = {}
        /\ pc # "failed" =>
             BeginsWithFirst(found, Len(Candidates)) /\ found # << >> /\ at = found[1]
    BY DEF IInv, FirstInv
  <2> QED BY <2>1, <2>2 DEF BeginsWithFirst
<1> QED BY <1>1, Invariance, PTL

-----------------------------------------------------------------------------
(* The process that has opened the devices (Platform): a device's reader, the *)
(* resume monitor, and the descriptors they share, for any number of         *)
(* reports, resumes, descriptors and broken connections.                     *)

Message == {"reply", "sleep", "resume"}

\* Until Close has set the flag the reader's number is the device's, so that what
\* poll and read say of it is the device's; and it is not the socket's, which a
\* connection gives back.
FileInv ==
  /\ owner \in [Fd -> {"device", "other", "free"}]
  /\ closed \in BOOLEAN
  /\ revents \in {"none", "in", "invalid"}
  /\ closed <=> closing # "none"
  /\ ~closed => /\ owner[ReadFd] = "device" /\ socket # ReadFd
                /\ revents # "invalid"
                /\ got \notin {"foreign", "bad descriptor"}
  /\ NoForeignReport

\* Once the monitor has subscribed, the connection is subscribed or broken; and
\* until it forwards signals it owes a notification.
MonitorInv ==
  /\ wire \in Seq(Message) /\ signals \in Seq(Message)
  /\ monitor \in {"forward", "wait", "connect", "match", "subscribed", "ended"}
  /\ monitor \in {"subscribed", "forward"} => conn = "broken" \/ subscribed
  /\ monitor = "ended" => canceled
  /\ ~recoveryNeeded => monitor \in {"forward", "ended"}
  /\ ResumeOnItsWay

ProcessInv == FileInv /\ MonitorInv

LEMMA ProcessInit ==
  ASSUME PlatformInit
  PROVE  ProcessInv
<1> USE DEF PlatformInit
<1>1. FileInv
  <2>1. /\ owner \in [Fd -> {"device", "other", "free"}]
        /\ owner[ReadFd] = "device" /\ socket # ReadFd
    BY HidrawAssumption DEF HidrawInit
  <2> QED BY <2>1 DEF HidrawInit, FileInv, NoForeignReport
<1>2. MonitorInv
  <2>1. << >> \in Seq(Message)
    BY EmptySeq
  <2> QED BY <2>1 DEF ResumeInit, MonitorInv, ResumeOnItsWay
<1> QED BY <1>1, <1>2 DEF ProcessInv

LEMMA LeastOf ==
  ASSUME NEW S \in SUBSET Nat, S # {}
  PROVE  \E n \in S : \A m \in S : n <= m
<1> DEFINE below == OpToRel(<, Nat)
<1>1. IsWellFoundedOn(below, Nat)
  BY NatLessThanWellFounded
<1>2. \A m, n \in S : <<m, n>> \notin below => n <= m
  BY DEF OpToRel
<1> HIDE DEF below
<1>3. \E n \in S : \A m \in S : <<m, n>> \notin below
  BY <1>1, WFMin
<1> QED BY <1>2, <1>3

\* The lowest of the free numbers is free.
LEMMA LowestIsFree ==
  ASSUME Free # {}
  PROVE  Lowest(Free) \in Free
<1>1. Free \in SUBSET Nat
  BY HidrawAssumption DEF Free
<1>2. \E n \in Free : \A m \in Free : n <= m
  BY <1>1, LeastOf
<1> QED BY <1>2 DEF Lowest

\* A connection that is opened or closed leaves the device's number alone.
LEMMA TableStep ==
  ASSUME FileInv, Allot \/ GiveBack \/ Keep,
         UNCHANGED <<closed, closing, revents, got, strayed>>
  PROVE  FileInv'
<1> USE HidrawAssumption DEF FileInv, NoForeignReport
<1>1. CASE Allot
  <2>1. /\ socket' \in Free
        /\ owner' = [owner EXCEPT ![socket'] = "other"]
    BY <1>1, LowestIsFree DEF Allot
  <2> QED BY <2>1 DEF Free
<1>2. CASE GiveBack
  BY <1>2, NoFdAssumption DEF GiveBack
<1>3. CASE Keep
  BY <1>3 DEF Keep
<1> QED BY <1>1, <1>2, <1>3

\* The reader, Close and the device.
LEMMA DeviceStep ==
  ASSUME FileInv, HidrawStep \/ ReadForeign, UNCHANGED socket
  PROVE  FileInv'
<1> USE HidrawAssumption
    DEF FileInv, NoForeignReport, deviceVars, fileVars, readVars
<1>1. CASE UNCHANGED <<owner, closed, closing, revents, got, strayed>>
  BY <1>1
<1>2. CASE Close
  BY <1>2 DEF Close
<1>3. CASE CloseRead
  BY <1>3 DEF CloseRead
<1>4. CASE CloseWrite
  BY <1>4 DEF CloseWrite
<1>5. CASE OpenFD
  BY <1>5 DEF OpenFD, ReadStep, ReadReturn, Goto
<1>6. CASE Check
  BY <1>6 DEF Check, ReadStep, ReadReturn, Goto
<1>7. CASE Poll
  BY <1>7 DEF Poll, ReadStep, Goto
<1>8. CASE Polled
  BY <1>8 DEF Polled, ReadStep, Goto
<1>9. CASE AfterPoll
  BY <1>9 DEF AfterPoll, ReadStep, ReadReturn, Goto
<1>10. CASE Read
  BY <1>10 DEF Read, ReadStep, Goto
<1>11. CASE ReadForeign
  BY <1>11 DEF ReadForeign, ReadStep, Goto
<1>12. CASE ReadNothing
  BY <1>12 DEF ReadNothing, ReadStep, Goto
<1>13. CASE AfterRead
  BY <1>13 DEF AfterRead, ReadStep, ReadReturn
<1>14. Report \/ Unplug => UNCHANGED <<owner, closed, closing, revents, got, strayed>>
  BY DEF Report, Unplug
<1> QED BY <1>1, <1>2, <1>3, <1>4, <1>5, <1>6, <1>7, <1>8, <1>9, <1>10, <1>11, <1>12, <1>13,
           <1>14
        DEF HidrawStep, ReaderStep

\* A queue that loses its head, or gains a member.
LEMMA CarriesTail ==
  ASSUME NEW queue \in Seq(Message), queue # << >>, Carries(queue)
  PROVE  isResumeSignal(Head(queue)) \/ Carries(Tail(queue))
<1>1. PICK i \in 1..Len(queue) : isResumeSignal(queue[i])
  BY LenProperties DEF Carries
<1>2. CASE i = 1
  BY <1>1, <1>2
<1>3. CASE i # 1
  <2>1. Len(queue) \in Nat /\ i - 1 \in 1..(Len(queue) - 1) /\ i - 1 + 1 = i
    BY <1>1, <1>3, LenProperties
  <2>2. DOMAIN Tail(queue) = 1..(Len(queue) - 1) /\ Tail(queue)[i - 1] = queue[i]
    BY <2>1, HeadTailProperties, LenProperties
  <2> QED BY <1>1, <2>1, <2>2 DEF Carries
<1> QED BY <1>2, <1>3

LEMMA CarriesAppend ==
  ASSUME NEW queue \in Seq(Message), NEW m \in Message
  PROVE  /\ Append(queue, m) \in Seq(Message)
         /\ Carries(queue) \/ isResumeSignal(m) =>
              Carries(Append(queue, m))
<1>1. /\ Append(queue, m) \in Seq(Message) /\ Len(queue) \in Nat
      /\ DOMAIN Append(queue, m) = 1..(Len(queue) + 1) /\ DOMAIN queue = 1..Len(queue)
      /\ Append(queue, m)[Len(queue) + 1] = m
      /\ \A i \in 1..Len(queue) : Append(queue, m)[i] = queue[i]
  BY AppendProperties, LenProperties
<1>2. Len(queue) + 1 \in 1..(Len(queue) + 1) /\ 1..Len(queue) \subseteq 1..(Len(queue) + 1)
  BY <1>1
<1> QED BY <1>1, <1>2 DEF Carries

\* The host, the bus and the daemon.
LEMMA OutsideStep ==
  ASSUME MonitorInv, Suspend \/ Wake \/ Break \/ Deliver
                     \/ Match \/ Steal \/ Cancel \/ Take
  PROVE  MonitorInv'
<1> USE DEF MonitorInv, ResumeOnItsWay, hostVars, connVars,
            monitorVars, channelVars
<1>1. CASE Suspend
  <2>1. wire' \in Seq(Message) /\ (Carries(wire) => Carries(wire'))
    BY <1>1, CarriesAppend DEF Suspend, Announce, Message
  <2> QED BY <1>1, <2>1 DEF Suspend
<1>2. CASE Wake
  <2>1. wire' \in Seq(Message) /\ (subscribed => Carries(wire'))
    BY <1>2, CarriesAppend DEF Wake, Announce, Message, isResumeSignal
  <2> QED BY <1>2, <2>1 DEF Wake
<1>3. CASE Break
  BY <1>3, EmptySeq DEF Break, Drop
<1>4. CASE Deliver
  <2>1. /\ Head(wire) \in Message /\ wire' = Tail(wire) /\ wire' \in Seq(Message)
        /\ signals' = Append(signals, Head(wire)) /\ wire # << >>
    BY <1>4, HeadTailProperties DEF Deliver
  <2>2. /\ signals' \in Seq(Message)
        /\ Carries(signals) => Carries(signals')
        /\ Carries(wire) => Carries(wire') \/ Carries(signals')
    BY <2>1, CarriesAppend, CarriesTail
  <2> QED BY <1>4, <2>1, <2>2 DEF Deliver
<1>5. CASE Match
  <2>1. wire' \in Seq(Message)
    BY <1>5 DEF Match, Message
  <2> QED BY <1>5, <2>1 DEF Match
<1>6. CASE Steal
  BY <1>6 DEF Steal
<1>7. CASE Cancel
  BY <1>7 DEF Cancel
<1>8. CASE Take
  BY <1>8 DEF Take
<1> QED BY <1>1, <1>2, <1>3, <1>4, <1>5, <1>6, <1>7, <1>8

\* The monitor.
LEMMA MonitorGoesOn ==
  ASSUME MonitorInv, MonitorStep
  PROVE  MonitorInv'
<1> USE DEF MonitorInv, ResumeOnItsWay, hostVars, connVars,
            monitorVars, channelVars, LeaveConn, Drop
<1>1. CASE Forward
  <2>1. signals' = Tail(signals) /\ signals # << >> /\ signals' \in Seq(Message)
    BY <1>1, HeadTailProperties DEF Forward
  <2>2. Carries(signals) => resumes' = 1 \/ Carries(signals')
    BY <1>1, <2>1, CarriesTail DEF Forward, notify
  <2> QED BY <1>1, <2>1, <2>2 DEF Forward, notify
<1>2. CASE Broken
  BY <1>2, EmptySeq DEF Broken
<1>3. CASE Stop
  BY <1>3, EmptySeq DEF Stop
<1>4. CASE Waited
  BY <1>4 DEF Waited
<1>5. CASE Connect \/ ConnectFails
  BY <1>5 DEF Connect, ConnectFails
<1>6. CASE Subscribed
  <2>1. wire' \in Seq(Message)
    BY <1>6, HeadTailProperties DEF Subscribed
  <2> QED BY <1>6, <2>1 DEF Subscribed
<1>7. CASE MatchFails
  BY <1>7, EmptySeq DEF MatchFails
<1>8. CASE Recover
  BY <1>8 DEF Recover, notify
<1> QED BY <1>1, <1>2, <1>3, <1>4, <1>5, <1>6, <1>7, <1>8
        DEF MonitorStep, Progress

LEMMA ProcessStep ==
  ASSUME ProcessInv, [PlatformNext]_platformVars
  PROVE  ProcessInv'
<1> USE DEF ProcessInv
<1>1. ASSUME UNCHANGED resumeVars PROVE MonitorInv'
  BY <1>1 DEF MonitorInv, ResumeOnItsWay, Carries, resumeVars,
              hostVars, connVars, monitorVars, channelVars
<1>2. CASE InMonitor(ResumeStep)
  <2>1. FileInv'
    BY <1>2, TableStep DEF InMonitor, fileVars, readVars
  <2>2. MonitorInv'
    BY <1>2, OutsideStep, MonitorGoesOn DEF InMonitor, ResumeStep, BusStep
  <2> QED BY <2>1, <2>2
<1>3. CASE InDevice(HidrawStep)
  BY <1>1, <1>3, DeviceStep DEF InDevice
<1>4. CASE ReadsSocket
  BY <1>4, DeviceStep, OutsideStep DEF ReadsSocket
<1>5. CASE UNCHANGED platformVars
  <2>1. FileInv'
    BY <1>5 DEF platformVars, hidrawVars, fileVars, readVars,
                FileInv, NoForeignReport
  <2>2. MonitorInv'
    BY <1>1, <1>5 DEF platformVars
  <2> QED BY <2>1, <2>2
<1> QED BY <1>2, <1>3, <1>4, <1>5 DEF PlatformNext

LEMMA ProcessInvariance == PlatformSpec => []ProcessInv
<1>1. PlatformInit => ProcessInv
  BY ProcessInit
<1>2. ProcessInv /\ [PlatformNext]_platformVars => ProcessInv'
  BY ProcessStep
<1> QED BY <1>1, <1>2, PTL DEF PlatformSpec

\* ReadReport returns nothing of the file that has taken over its number,
\* whichever descriptors there are and whenever they change hands.
THEOREM ReaderGetsItsOwn == PlatformSpec => []NoForeignReport
<1>1. ProcessInv => NoForeignReport
  BY DEF ProcessInv, FileInv
<1> QED BY <1>1, ProcessInvariance, PTL

\* A host resume the daemon has not been told of is on its way to it, however
\* often the bus breaks.
THEOREM ResumeIsNotForgotten == PlatformSpec => []ResumeOnItsWay
<1>1. ProcessInv => ResumeOnItsWay
  BY DEF ProcessInv, MonitorInv
<1> QED BY <1>1, ProcessInvariance, PTL

=============================================================================
