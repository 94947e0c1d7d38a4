----------------------- MODULE ActionHandler_proofs -----------------------
(***************************************************************************)
(* The keys of the virtual device, for any buttons, gestures and chords,   *)
(* any number of workers and of callers, and reports that fail anywhere.   *)
(***************************************************************************)
EXTENDS ActionHandler, SequenceTheorems, FiniteSetTheorems, WellFoundedInduction, TLAPS

-----------------------------------------------------------------------------
(* Induction: the library's theorems about it take an operator, so it is     *)
(* stated here of a set of numbers.                                          *)

LEMMA LeastOf ==
  ASSUME NEW S \in SUBSET Nat, S # {}
  PROVE  \E n \in S : \A m \in S : n <= m
<1> DEFINE less == {p \in Nat \X Nat : p[1] < p[2]}
<1>1. less = OpToRel(<, Nat)
  BY DEF OpToRel
<1>2. IsWellFoundedOn(less, Nat)
  BY <1>1, NatLessThanWellFounded
<1> HIDE DEF less
<1>3. \E n \in S : \A m \in S : <<m, n>> \notin less
  BY <1>2, WFMin
<1>4. \A m, n \in S : <<m, n>> \notin less => n <= m
  BY DEF less
<1> QED BY <1>3, <1>4

LEMMA Induction ==
  ASSUME NEW S, 0 \in S, \A n \in Nat : n \in S => n + 1 \in S
  PROVE  Nat \subseteq S
<1> SUFFICES ASSUME Nat \ S # {}
             PROVE  FALSE
  OBVIOUS
<1>1. PICK n \in Nat \ S : \A m \in Nat \ S : n <= m
  BY LeastOf
<1>2. n # 0 /\ n - 1 \in Nat /\ ~(n <= n - 1)
  BY <1>1
<1>3. n - 1 \in S
  BY <1>1, <1>2
<1>4. n - 1 + 1 \in S
  BY <1>2, <1>3
<1> QED BY <1>1, <1>4

-----------------------------------------------------------------------------
(* Sequences and their members *)

LEMMA MembersOf ==
  ASSUME NEW X, NEW s \in Seq(X)
  PROVE  /\ DOMAIN s = 1..Len(s) /\ Len(s) \in Nat
         /\ ToSet(s) = {s[i] : i \in 1..Len(s)} /\ ToSet(s) \subseteq X
         /\ ToSet(s) = {} => s = << >>
<1>1. DOMAIN s = 1..Len(s) /\ Len(s) \in Nat /\ \A i \in 1..Len(s) : s[i] \in X
  BY LenProperties
<1>2. s # << >> => 1 \in 1..Len(s)
  BY <1>1, EmptySeq
<1> QED BY <1>1, <1>2 DEF ToSet

LEMMA MembersOfEmpty == ToSet(<< >>) = {} /\ IsInjective(<< >>)
  BY DEF ToSet, IsInjective

LEMMA MembersOfOne ==
  ASSUME NEW x
  PROVE  ToSet(<<x>>) = {x} /\ IsInjective(<<x>>)
  BY DEF ToSet, IsInjective

LEMMA MembersOfConcat ==
  ASSUME NEW X, NEW s \in Seq(X), NEW t \in Seq(X)
  PROVE  /\ s \o t \in Seq(X)
         /\ ToSet(s \o t) = ToSet(s) \cup ToSet(t)
         /\ (IsInjective(s) /\ IsInjective(t) /\ ToSet(s) \cap ToSet(t) = {}) =>
              IsInjective(s \o t)
<1>1. /\ s \o t \in Seq(X) /\ Len(s \o t) = Len(s) + Len(t)
      /\ \A i \in 1..(Len(s) + Len(t)) :
           (s \o t)[i] = IF i <= Len(s) THEN s[i] ELSE t[i - Len(s)]
  BY ConcatProperties
<1>2. /\ DOMAIN s = 1..Len(s) /\ Len(s) \in Nat /\ ToSet(s) = {s[i] : i \in 1..Len(s)}
      /\ DOMAIN t = 1..Len(t) /\ Len(t) \in Nat /\ ToSet(t) = {t[i] : i \in 1..Len(t)}
      /\ DOMAIN (s \o t) = 1..(Len(s) + Len(t))
      /\ ToSet(s \o t) = {(s \o t)[i] : i \in 1..(Len(s) + Len(t))}
  BY <1>1, MembersOf
<1>3. \A i \in 1..Len(s) : i \in 1..(Len(s) + Len(t)) /\ (s \o t)[i] = s[i]
  BY <1>1, <1>2
<1>4. \A i \in 1..Len(t) : i + Len(s) \in 1..(Len(s) + Len(t)) /\ (s \o t)[i + Len(s)] = t[i]
  <2>1. \A i \in 1..Len(t) : /\ i + Len(s) \in 1..(Len(s) + Len(t)) /\ ~(i + Len(s) <= Len(s))
                             /\ i + Len(s) - Len(s) = i
    BY <1>2
  <2> QED BY <1>1, <2>1
<1>5. \A i \in 1..(Len(s) + Len(t)) :
        \/ i \in 1..Len(s) /\ (s \o t)[i] = s[i]
        \/ i - Len(s) \in 1..Len(t) /\ (s \o t)[i] = t[i - Len(s)] /\ ~(i <= Len(s))
  BY <1>1, <1>2
<1>6. ToSet(s \o t) = ToSet(s) \cup ToSet(t)
  <2>1. ASSUME NEW i \in 1..(Len(s) + Len(t))
        PROVE  (s \o t)[i] \in ToSet(s) \cup ToSet(t)
    BY <1>2, <1>5
  <2>2. ASSUME NEW i \in 1..Len(s)
        PROVE  s[i] \in ToSet(s \o t)
    BY <1>2, <1>3
  <2>3. ASSUME NEW i \in 1..Len(t)
        PROVE  t[i] \in ToSet(s \o t)
    BY <1>2, <1>4
  <2> QED BY <1>2, <2>1, <2>2, <2>3
<1>7. ASSUME IsInjective(s), IsInjective(t), ToSet(s) \cap ToSet(t) = {},
             NEW i \in 1..(Len(s) + Len(t)), NEW j \in 1..(Len(s) + Len(t)),
             (s \o t)[i] = (s \o t)[j]
      PROVE  i = j
  <2>1. /\ \A k, l \in 1..Len(s) : s[k] = s[l] => k = l
        /\ \A k, l \in 1..Len(t) : t[k] = t[l] => k = l
        /\ \A k \in 1..Len(s), l \in 1..Len(t) : s[k] # t[l]
    <3>1. \A k \in 1..Len(s), l \in 1..Len(t) : s[k] \in ToSet(s) /\ t[l] \in ToSet(t)
      BY <1>2
    <3>2. \A k \in 1..Len(s), l \in 1..Len(t) : s[k] # t[l]
      BY <1>7, <3>1
    <3>3. /\ \A k, l \in 1..Len(s) : s[k] = s[l] => k = l
          /\ \A k, l \in 1..Len(t) : t[k] = t[l] => k = l
      BY <1>2, <1>7 DEF IsInjective
    <3> QED BY <3>2, <3>3
  <2>2. CASE i \in 1..Len(s) /\ j \in 1..Len(s)
    BY <1>3, <1>7, <2>1, <2>2
  <2>3. CASE i - Len(s) \in 1..Len(t) /\ ~(i <= Len(s)) /\ j - Len(s) \in 1..Len(t) /\ ~(j <= Len(s))
    <3>1. i - Len(s) = j - Len(s)
      BY <1>2, <1>5, <1>7, <2>1, <2>3
    <3> QED BY <1>2, <3>1
  <2> QED BY <1>5, <1>7, <2>1, <2>2, <2>3
<1> QED BY <1>1, <1>2, <1>6, <1>7 DEF IsInjective

-----------------------------------------------------------------------------
(* FlattenSeq: its recursion has a value, and what the value is made of *)

\* f has the concatenations of the first parts, each from the one before.
Accumulates(f, seqs) ==
  /\ f[1] = seqs[1]
  /\ \A i, j \in 1..Len(seqs) : j = i + 1 => f[j] = f[i] \o seqs[j]

LEMMA FlattenIs ==
  ASSUME NEW X, NEW seqs \in Seq(Seq(X)), seqs # << >>
  PROVE  \E f : FlattenSeq(seqs) = f[Len(seqs)] /\ Accumulates(f, seqs)
<1> DEFINE Body(f, i) == IF i = 1 THEN seqs[i] ELSE f[i - 1] \o seqs[i]
           Defined == {n \in Nat : \E f : f = [i \in 1..n |-> Body(f, i)]}
           f == CHOOSE g : g = [i \in 1..Len(seqs) |-> Body(g, i)]
<1>1. Len(seqs) \in Nat \ {0}
  BY LenProperties, EmptySeq
<1>2. 0 \in Defined
  <2>1. [i \in 1..0 |-> seqs[i]] = [i \in 1..0 |-> Body([j \in 1..0 |-> seqs[j]], i)]
    <3>1. 1..0 = {}
      OBVIOUS
    <3> QED BY <3>1
  <2> QED BY <2>1
<1>3. ASSUME NEW n \in Nat, n \in Defined
      PROVE  n + 1 \in Defined
  <2>1. PICK g : g = [i \in 1..n |-> Body(g, i)]
    BY <1>3
  <2> DEFINE h == [i \in 1..(n + 1) |-> IF i <= n THEN g[i] ELSE Body(g, i)]
  <2>2. \A i \in 1..(n + 1) : /\ i = 1 \/ (i - 1 \in 1..n /\ i - 1 \in 1..(n + 1) /\ i - 1 <= n)
                              /\ i <= n => i \in 1..n
    OBVIOUS
  <2>3. ASSUME NEW i \in 1..(n + 1)
        PROVE  h[i] = Body(h, i)
    <3>1. h[i] = Body(g, i)
      BY <2>1, <2>2
    <3>2. i # 1 => h[i - 1] = g[i - 1]
      BY <2>2
    <3> HIDE DEF h
    <3> QED BY <3>1, <3>2
  <2>4. h = [i \in 1..(n + 1) |-> Body(h, i)]
    BY <2>3
  <2> HIDE DEF h, Body
  <2> QED BY <2>4
<1>4. Len(seqs) \in Defined
  <2> HIDE DEF Defined
  <2> QED BY <1>1, <1>2, <1>3, Induction
<1>5. f = [i \in 1..Len(seqs) |-> Body(f, i)]
  BY <1>4
<1>6. FlattenSeq(seqs) = f[Len(seqs)]
  BY <1>1 DEF FlattenSeq
<1> HIDE DEF f
<1>7. f[1] = seqs[1]
  BY <1>1, <1>5
<1>8. \A i, j \in 1..Len(seqs) : j = i + 1 => f[j] = f[i] \o seqs[j]
  <2>1. \A j \in 1..Len(seqs) : j # 1 => f[j] = f[j - 1] \o seqs[j]
    BY <1>5
  <2>2. \A i, j \in 1..Len(seqs) : j = i + 1 => j # 1 /\ j - 1 = i
    BY <1>1
  <2> QED BY <2>1, <2>2
<1>9. Accumulates(f, seqs)
  BY <1>7, <1>8 DEF Accumulates
<1> QED BY <1>6, <1>9

\* Every member comes from one of the parts; and if they have no member twice,
\* nor two of them one in common, neither has the whole.
LEMMA MembersOfFlatten ==
  ASSUME NEW X, NEW seqs \in Seq(Seq(X))
  PROVE  /\ FlattenSeq(seqs) \in Seq(X)
         /\ ToSet(FlattenSeq(seqs)) = UNION {ToSet(seqs[i]) : i \in 1..Len(seqs)}
         /\ (/\ \A i \in 1..Len(seqs) : IsInjective(seqs[i])
             /\ \A i, j \in 1..Len(seqs) : i # j => ToSet(seqs[i]) \cap ToSet(seqs[j]) = {}) =>
              IsInjective(FlattenSeq(seqs))
<1>1. Len(seqs) \in Nat /\ \A i \in 1..Len(seqs) : seqs[i] \in Seq(X)
  BY LenProperties
<1>2. CASE seqs = << >>
  <2>1. Len(seqs) = 0 /\ FlattenSeq(seqs) = << >>
    BY <1>2 DEF FlattenSeq
  <2>2. UNION {ToSet(seqs[i]) : i \in 1..Len(seqs)} = {}
    BY <2>1
  <2> QED BY <2>1, <2>2, MembersOfEmpty, EmptySeq
<1>3. CASE seqs # << >>
  <2>0. PICK f : FlattenSeq(seqs) = f[Len(seqs)] /\ Accumulates(f, seqs)
    BY <1>3, FlattenIs
  <2>1. /\ FlattenSeq(seqs) = f[Len(seqs)]
        /\ f[1] = seqs[1]
        /\ \A i, j \in 1..Len(seqs) : j = i + 1 => f[j] = f[i] \o seqs[j]
    BY <2>0 DEF Accumulates
  <2> DEFINE Apart == /\ \A i \in 1..Len(seqs) : IsInjective(seqs[i])
                      /\ \A i, j \in 1..Len(seqs) :
                           i # j => ToSet(seqs[i]) \cap ToSet(seqs[j]) = {}
             Members(n) == UNION {ToSet(seqs[i]) : i \in 1..n}
             P(n) == /\ f[n] \in Seq(X) /\ ToSet(f[n]) = Members(n)
                     /\ Apart => IsInjective(f[n])
             Right == {n \in Nat : n \in 1..Len(seqs) => P(n)}
  <2>2. 0 \in Right
    OBVIOUS
  <2>3. ASSUME NEW n \in Nat, n \in 1..Len(seqs) => P(n), n + 1 \in 1..Len(seqs)
        PROVE  P(n + 1)
    <3>1. CASE n = 0
      <4>1. f[n + 1] = seqs[1] /\ 1 \in 1..Len(seqs) /\ 1..(n + 1) = {1}
        BY <1>1, <2>1, <2>3, <3>1
      <4> QED BY <1>1, <4>1
    <3>2. CASE n # 0
      <4>1. n \in 1..Len(seqs) /\ n + 1 \in 2..Len(seqs) /\ n + 1 - 1 = n
            /\ 1..(n + 1) = 1..n \cup {n + 1}
            /\ \A i \in 1..n : i \in 1..Len(seqs) /\ i # n + 1
        <5>1. Len(seqs) \in Nat /\ n + 1 <= Len(seqs) /\ n >= 1
          BY <1>1, <2>3, <3>2
        <5> HIDE DEF Apart, Members, P, Right
        <5> QED BY <5>1
      <4>2. f[n] \in Seq(X) /\ ToSet(f[n]) = Members(n) /\ (Apart => IsInjective(f[n]))
        BY <2>3, <4>1
      <4>3. f[n + 1] = f[n] \o seqs[n + 1] /\ seqs[n + 1] \in Seq(X)
        <5>1. f[n + 1] = f[n] \o seqs[n + 1]
          BY <2>1, <2>3, <4>1
        <5> QED BY <1>1, <2>3, <5>1
      <4>4. Members(n + 1) = Members(n) \cup ToSet(seqs[n + 1])
        BY <4>1
      <4>5. ASSUME Apart
            PROVE  Members(n) \cap ToSet(seqs[n + 1]) = {} /\ IsInjective(seqs[n + 1])
        <5>1. \A i \in 1..n : ToSet(seqs[i]) \cap ToSet(seqs[n + 1]) = {}
          BY <2>3, <4>1, <4>5
        <5>2. IsInjective(seqs[n + 1])
          BY <2>3, <4>5
        <5> QED BY <5>1, <5>2
      <4> HIDE DEF Apart, Members
      <4>6. ToSet(f[n + 1]) = Members(n + 1) /\ f[n + 1] \in Seq(X)
        <5>1. /\ f[n] \o seqs[n + 1] \in Seq(X)
              /\ ToSet(f[n] \o seqs[n + 1]) = ToSet(f[n]) \cup ToSet(seqs[n + 1])
          BY <4>2, <4>3, MembersOfConcat
        <5> QED BY <4>2, <4>3, <4>4, <5>1
      <4>7. ASSUME Apart
            PROVE  IsInjective(f[n + 1])
        <5>1. ToSet(f[n]) \cap ToSet(seqs[n + 1]) = {} /\ IsInjective(f[n])
              /\ IsInjective(seqs[n + 1])
          BY <4>2, <4>5, <4>7
        <5>2. IsInjective(f[n] \o seqs[n + 1])
          BY <4>2, <4>3, <5>1, MembersOfConcat
        <5> QED BY <4>3, <5>2
      <4> QED BY <4>6, <4>7
    <3> QED BY <3>1, <3>2
  <2> HIDE DEF P
  <2>4. P(Len(seqs))
    <3>1. Len(seqs) # 0
      BY <1>3, EmptySeq, LenProperties
    <3>2. Len(seqs) \in Nat /\ Len(seqs) \in 1..Len(seqs)
      BY <1>1, <3>1
    <3>3. \A n \in Nat : n \in Right => n + 1 \in Right
      <4>1. ASSUME NEW n \in Nat, n \in Right
            PROVE  n + 1 \in Right
        <5>1. n + 1 \in Nat /\ (n \in 1..Len(seqs) => P(n))
          BY <4>1
        <5>2. n + 1 \in 1..Len(seqs) => P(n + 1)
          BY <2>3, <5>1
        <5> QED BY <5>1, <5>2
      <4> QED BY <4>1
    <3>4. Nat \subseteq Right
      <4> HIDE DEF Right
      <4> QED BY <2>2, <3>3, Induction
    <3> QED BY <3>2, <3>4
  <2> USE DEF P
  <2> QED BY <2>1, <2>4
<1> QED BY <1>2, <1>3

-----------------------------------------------------------------------------
(* Only, Distinct and Chords *)

LEMMA OnlyIs ==
  ASSUME NEW X, NEW s \in Seq(X), NEW A
  PROVE  /\ Only(s, A) \in Seq(X)
         /\ ToSet(Only(s, A)) = ToSet(s) \cap A
         /\ (\A i, j \in 1..Len(s) : s[i] \in A /\ s[i] = s[j] => i = j) =>
              IsInjective(Only(s, A))
<1> DEFINE Part(i) == IF s[i] \in A THEN <<s[i]>> ELSE << >>
           parts == [i \in DOMAIN s |-> Part(i)]
<1>1. /\ DOMAIN s = 1..Len(s) /\ Len(s) \in Nat /\ ToSet(s) = {s[i] : i \in 1..Len(s)}
      /\ \A i \in 1..Len(s) : s[i] \in X
  BY MembersOf, LenProperties
<1>2. \A i \in 1..Len(s) : Part(i) \in Seq(X)
  BY <1>1
<1>3. parts \in Seq(Seq(X)) /\ Len(parts) = Len(s) /\ \A i \in 1..Len(s) : parts[i] = Part(i)
  <2> HIDE DEF Part
  <2>1. parts = [i \in 1..Len(s) |-> Part(i)]
    BY <1>1
  <2>2. parts \in [1..Len(s) -> Seq(X)]
    BY <1>2, <2>1
  <2>3. parts \in Seq(Seq(X))
    BY <1>1, <2>2, SeqDef
  <2> QED BY <1>1, <2>1, <2>3, LenProperties
<1>4. \A i \in 1..Len(s) : ToSet(parts[i]) = {s[i]} \cap A /\ IsInjective(parts[i])
  <2>1. \A i \in 1..Len(s) : ToSet(Part(i)) = {s[i]} \cap A /\ IsInjective(Part(i))
    BY MembersOfEmpty, MembersOfOne
  <2> HIDE DEF Part, parts
  <2> QED BY <1>3, <2>1
<1>5. Only(s, A) = FlattenSeq(parts)
  BY DEF Only
<1> HIDE DEF parts, Part
<1>6. /\ Only(s, A) \in Seq(X)
      /\ ToSet(Only(s, A)) = UNION {ToSet(parts[i]) : i \in 1..Len(s)}
      /\ (/\ \A i \in 1..Len(s) : IsInjective(parts[i])
          /\ \A i, j \in 1..Len(s) : i # j => ToSet(parts[i]) \cap ToSet(parts[j]) = {}) =>
           IsInjective(Only(s, A))
  BY <1>3, <1>5, MembersOfFlatten
<1>7. UNION {ToSet(parts[i]) : i \in 1..Len(s)} = ToSet(s) \cap A
  BY <1>1, <1>4
<1>8. (\A i, j \in 1..Len(s) : s[i] \in A /\ s[i] = s[j] => i = j) =>
        \A i, j \in 1..Len(s) : i # j => ToSet(parts[i]) \cap ToSet(parts[j]) = {}
  BY <1>4
<1> QED BY <1>4, <1>6, <1>7, <1>8

LEMMA DistinctIs ==
  ASSUME NEW X, NEW s \in Seq(X)
  PROVE  /\ Distinct(s) \in Seq(X)
         /\ ToSet(Distinct(s)) = ToSet(s)
         /\ IsInjective(Distinct(s))
<1> DEFINE Part(i) == IF s[i] \in {s[j] : j \in 1..(i - 1)} THEN << >> ELSE <<s[i]>>
           parts == [i \in DOMAIN s |-> Part(i)]
           New(i) == \A j \in 1..(i - 1) : s[j] # s[i]
<1>1. /\ DOMAIN s = 1..Len(s) /\ Len(s) \in Nat /\ ToSet(s) = {s[i] : i \in 1..Len(s)}
      /\ \A i \in 1..Len(s) : s[i] \in X
  BY MembersOf, LenProperties
<1>2. \A i \in 1..Len(s) : Part(i) \in Seq(X)
  BY <1>1
<1>3. parts \in Seq(Seq(X)) /\ Len(parts) = Len(s) /\ \A i \in 1..Len(s) : parts[i] = Part(i)
  <2> HIDE DEF Part
  <2>1. parts = [i \in 1..Len(s) |-> Part(i)]
    BY <1>1
  <2>2. parts \in [1..Len(s) -> Seq(X)]
    BY <1>2, <2>1
  <2>3. parts \in Seq(Seq(X))
    BY <1>1, <2>2, SeqDef
  <2> QED BY <1>1, <2>1, <2>3, LenProperties
<1>4. \A i \in 1..Len(s) : /\ ToSet(parts[i]) = IF New(i) THEN {s[i]} ELSE {}
                           /\ IsInjective(parts[i])
  <2>1. \A i \in 1..Len(s) : Part(i) = IF New(i) THEN <<s[i]>> ELSE << >>
    OBVIOUS
  <2> HIDE DEF Part, parts, New
  <2> SUFFICES ASSUME NEW i \in 1..Len(s)
               PROVE  /\ ToSet(parts[i]) = IF New(i) THEN {s[i]} ELSE {}
                      /\ IsInjective(parts[i])
    OBVIOUS
  <2>2. parts[i] = IF New(i) THEN <<s[i]>> ELSE << >>
    BY <1>3, <2>1
  <2> QED BY <2>2, MembersOfEmpty, MembersOfOne
<1>5. Distinct(s) = FlattenSeq(parts)
  BY DEF Distinct
<1> HIDE DEF parts, Part
<1>6. /\ Distinct(s) \in Seq(X)
      /\ ToSet(Distinct(s)) = UNION {ToSet(parts[i]) : i \in 1..Len(s)}
      /\ (/\ \A i \in 1..Len(s) : IsInjective(parts[i])
          /\ \A i, j \in 1..Len(s) : i # j => ToSet(parts[i]) \cap ToSet(parts[j]) = {}) =>
           IsInjective(Distinct(s))
  BY <1>3, <1>5, MembersOfFlatten
<1>7. ASSUME NEW i \in 1..Len(s)
      PROVE  \E j \in 1..Len(s) : New(j) /\ s[j] = s[i]
  <2> DEFINE Same == {j \in 1..Len(s) : s[j] = s[i]}
  <2>1. Same \in SUBSET Nat /\ Same # {}
    BY <1>1
  <2>2. PICK j \in Same : \A k \in Same : j <= k
    <3> HIDE DEF Same
    <3> QED BY <2>1, LeastOf
  <2>3. \A k \in 1..(j - 1) : k \in 1..Len(s) /\ ~(j <= k)
    BY <1>1, <2>2
  <2> QED BY <2>2, <2>3
<1>8. \A i, j \in 1..Len(s) : i # j => ToSet(parts[i]) \cap ToSet(parts[j]) = {}
  <2>1. \A i, j \in 1..Len(s) : i # j => i \in 1..(j - 1) \/ j \in 1..(i - 1)
    BY <1>1
  <2>2. \A i, j \in 1..Len(s) : i # j => ~New(i) \/ ~New(j) \/ s[i] # s[j]
    BY <2>1
  <2> HIDE DEF New
  <2> QED BY <1>4, <2>2
<1>9. UNION {ToSet(parts[i]) : i \in 1..Len(s)} = ToSet(s)
  <2> HIDE DEF New
  <2>1. \A i \in 1..Len(s) : ToSet(parts[i]) \subseteq {s[i]}
    BY <1>4
  <2>2. \A i \in 1..Len(s) : \E j \in 1..Len(s) : s[i] \in ToSet(parts[j])
    BY <1>4, <1>7
  <2>3. ToSet(s) \subseteq UNION {ToSet(parts[i]) : i \in 1..Len(s)}
    BY <1>1, <2>2
  <2>4. UNION {ToSet(parts[i]) : i \in 1..Len(s)} \subseteq ToSet(s)
    <3>1. \A i \in 1..Len(s) : s[i] \in ToSet(s)
      BY <1>1
    <3>2. \A i \in 1..Len(s) : ToSet(parts[i]) \subseteq ToSet(s)
      BY <2>1, <3>1
    <3> QED BY <3>2
  <2> QED BY <2>3, <2>4
<1> QED BY <1>4, <1>6, <1>8, <1>9

LEMMA EachIs ==
  ASSUME NEW s \in Seq(Key)
  PROVE  /\ Each(s, Up) \in Seq({Up(k) : k \in Key})
         /\ ToSet(Each(s, Up)) = {Up(k) : k \in ToSet(s)}
         /\ Each(s, Down) \in Seq({Down(k) : k \in Key})
         /\ ToSet(Each(s, Down)) = {Down(k) : k \in ToSet(s)}
         /\ Len(Each(s, Up)) = Len(s) /\ Len(Each(s, Down)) = Len(s)
<1>1. /\ DOMAIN s = 1..Len(s) /\ Len(s) \in Nat /\ ToSet(s) = {s[i] : i \in 1..Len(s)}
      /\ \A i \in 1..Len(s) : s[i] \in Key
  BY MembersOf, LenProperties
<1>2. /\ Each(s, Up) = [i \in 1..Len(s) |-> Up(s[i])]
      /\ Each(s, Down) = [i \in 1..Len(s) |-> Down(s[i])]
  BY <1>1 DEF Each
<1> HIDE DEF Up, Down, Each
<1>3. /\ Each(s, Up) \in [1..Len(s) -> {Up(k) : k \in Key}]
      /\ Each(s, Down) \in [1..Len(s) -> {Down(k) : k \in Key}]
  BY <1>1, <1>2
<1>4. /\ Each(s, Up) \in Seq({Up(k) : k \in Key})
      /\ Each(s, Down) \in Seq({Down(k) : k \in Key})
  <2>1. \A S : [1..Len(s) -> S] \subseteq Seq(S)
    BY <1>1, SeqDef
  <2> QED BY <1>3, <2>1
<1>5. Len(Each(s, Up)) = Len(s) /\ Len(Each(s, Down)) = Len(s)
  BY <1>1, <1>2, <1>4, LenProperties
<1>6. /\ ToSet(Each(s, Up)) = {Up(k) : k \in ToSet(s)}
      /\ ToSet(Each(s, Down)) = {Down(k) : k \in ToSet(s)}
  BY <1>1, <1>2 DEF ToSet
<1> QED BY <1>4, <1>5, <1>6

LEMMA ReverseIs ==
  ASSUME NEW X, NEW s \in Seq(X)
  PROVE  Reverse(s) \in Seq(X) /\ ToSet(Reverse(s)) = ToSet(s)
<1>1. /\ Len(s) \in Nat /\ ToSet(s) = {s[i] : i \in 1..Len(s)}
      /\ \A i \in 1..Len(s) : s[i] \in X
  BY MembersOf, LenProperties
<1>2. Reverse(s) = [i \in 1..Len(s) |-> s[(Len(s) - i) + 1]]
  BY DEF Reverse
<1>3. \A i \in 1..Len(s) : (Len(s) - i) + 1 \in 1..Len(s) /\ Len(s) - ((Len(s) - i) + 1) + 1 = i
  BY <1>1
<1>4. Reverse(s) \in [1..Len(s) -> X]
  BY <1>1, <1>2, <1>3
<1>5. Reverse(s) \in Seq(X)
  BY <1>1, <1>4, SeqDef
<1>6. \A i \in 1..Len(s) : \E j \in 1..Len(s) : Reverse(s)[j] = s[i]
  BY <1>2, <1>3
<1>7. \A i \in 1..Len(s) : Reverse(s)[i] \in ToSet(s)
  BY <1>1, <1>2, <1>3
<1>8. ToSet(Reverse(s)) = {Reverse(s)[i] : i \in 1..Len(s)}
  BY <1>2 DEF ToSet
<1> QED BY <1>1, <1>5, <1>6, <1>7, <1>8

-----------------------------------------------------------------------------
(* The reports *)

Downs == {Down(k) : k \in Key}
Events == {Up(k) : k \in Key} \cup Downs \cup {Relative}

LEMMA EventsAre ==
  /\ \A k : Up(k).type = "up" /\ Up(k).key = k
  /\ \A k : Down(k).type = "down" /\ Down(k).key = k
  /\ Relative.type = "relative"
  BY DEF Up, Down, Relative

LEMMA KeysAre ==
  ASSUME NEW events, NEW S, NEW T, NEW R \in SUBSET {Relative},
         ToSet(events) = {Up(k) : k \in S} \cup R \cup {Down(k) : k \in T}
  PROVE  KeysOf(events, "up") = S /\ KeysOf(events, "down") = T
<1> HIDE DEF Up, Down, Relative
<1>1. /\ {x \in ToSet(events) : x.type = "up"} = {Up(k) : k \in S}
      /\ {x \in ToSet(events) : x.type = "down"} = {Down(k) : k \in T}
  BY EventsAre
<1>2. KeysOf(events, "up") = S
  BY <1>1, EventsAre DEF KeysOf
<1>3. KeysOf(events, "down") = T
  BY <1>1, EventsAre DEF KeysOf
<1> QED BY <1>2, <1>3

\* What a report makes go up and down, and that it presses no key twice.
LEMMA ReportIs ==
  ASSUME held \in Seq(Key), NEW wanted \in Seq(Key), IsInjective(wanted),
         NEW extra \in Seq({Relative})
  PROVE  /\ Report(wanted, extra) \in Seq(Events)
         /\ KeysOf(Report(wanted, extra), "up") = ToSet(held) \ ToSet(wanted)
         /\ KeysOf(Report(wanted, extra), "down") = ToSet(wanted) \ ToSet(held)
         /\ \A i, j \in 1..Len(Report(wanted, extra)) :
              Report(wanted, extra)[i] \in Downs
                /\ Report(wanted, extra)[i] = Report(wanted, extra)[j] => i = j
<1> DEFINE released == Reverse(Only(held, Key \ ToSet(wanted)))
           missing == Only(wanted, Key \ ToSet(held))
           first == Each(released, Up) \o extra
           last == Each(missing, Down)
           report == first \o last
<1>1. ToSet(held) \subseteq Key /\ ToSet(wanted) \subseteq Key
  BY MembersOf
<1>2. released \in Seq(Key) /\ ToSet(released) = ToSet(held) \ ToSet(wanted)
  BY <1>1, OnlyIs, ReverseIs
<1>3. /\ missing \in Seq(Key) /\ ToSet(missing) = ToSet(wanted) \ ToSet(held)
      /\ IsInjective(missing)
  <2>1. \A i, j \in 1..Len(wanted) : wanted[i] = wanted[j] => i = j
    BY MembersOf DEF IsInjective
  <2> QED BY <1>1, <2>1, OnlyIs
<1> HIDE DEF released, missing
<1>4. /\ Each(released, Up) \in Seq(Events) /\ last \in Seq(Events) /\ extra \in Seq(Events)
      /\ ToSet(Each(released, Up)) = {Up(k) : k \in ToSet(released)}
      /\ ToSet(last) = {Down(k) : k \in ToSet(missing)}
      /\ ToSet(extra) \subseteq {Relative}
  <2>1. \A S, T : S \subseteq T => Seq(S) \subseteq Seq(T)
    BY SeqDef
  <2>2. /\ {Up(k) : k \in Key} \subseteq Events /\ {Down(k) : k \in Key} \subseteq Events
        /\ {Relative} \subseteq Events
    BY DEF Events, Downs
  <2>3. /\ Each(released, Up) \in Seq({Up(k) : k \in Key})
        /\ last \in Seq({Down(k) : k \in Key})
        /\ ToSet(Each(released, Up)) = {Up(k) : k \in ToSet(released)}
        /\ ToSet(last) = {Down(k) : k \in ToSet(missing)}
    BY <1>2, <1>3, EachIs
  <2>4. ToSet(extra) \subseteq {Relative}
    BY MembersOf
  <2> QED BY <2>1, <2>2, <2>3, <2>4
<1>5. /\ first \in Seq(Events) /\ report \in Seq(Events)
      /\ ToSet(first) = {Up(k) : k \in ToSet(released)} \cup ToSet(extra)
      /\ ToSet(report) = ToSet(first) \cup {Down(k) : k \in ToSet(missing)}
  <2>1. first \in Seq(Events) /\ ToSet(first) = ToSet(Each(released, Up)) \cup ToSet(extra)
    <3> DEFINE ups == Each(released, Up)
    <3> HIDE DEF ups
    <3>1. ups \in Seq(Events)
      BY <1>4 DEF ups
    <3>2. ups \o extra \in Seq(Events) /\ ToSet(ups \o extra) = ToSet(ups) \cup ToSet(extra)
      BY <1>4, <3>1, MembersOfConcat
    <3> QED BY <3>2 DEF ups
  <2> HIDE DEF first, last
  <2>2. report \in Seq(Events) /\ ToSet(report) = ToSet(first) \cup ToSet(last)
    BY <1>4, <2>1, MembersOfConcat
  <2> QED BY <1>4, <2>1, <2>2
<1>6. Report(wanted, extra) = report
  BY DEF Report, released, missing
<1>7. /\ KeysOf(report, "up") = ToSet(released)
      /\ KeysOf(report, "down") = ToSet(missing)
  <2> HIDE DEF first, report
  <2>1. ToSet(report) = {Up(k) : k \in ToSet(released)} \cup ToSet(extra)
                          \cup {Down(k) : k \in ToSet(missing)}
    BY <1>5
  <2> QED BY <1>4, <2>1, KeysAre
<1>8. ASSUME NEW i \in 1..Len(report), NEW j \in 1..Len(report),
             report[i] \in Downs, report[i] = report[j]
      PROVE  i = j
  <2>1. \A k \in 1..Len(first) : first[k] \notin Downs
    <3>1. \A k \in 1..Len(first) : first[k] \in ToSet(first)
      <4> HIDE DEF first
      <4>1. ToSet(first) = {first[k] : k \in 1..Len(first)}
        <5>1. first \in Seq(Events)
          BY <1>5
        <5> QED BY <5>1, MembersOf
      <4> QED BY <4>1
    <3>2. \A e \in ToSet(first) : e.type # "down"
      <4> HIDE DEF first
      <4> QED BY <1>4, <1>5, EventsAre
    <3>3. \A e \in Downs : e.type = "down"
      BY EventsAre DEF Downs
    <3> QED BY <3>1, <3>2, <3>3
  <2>2. /\ Len(report) = Len(first) + Len(last) /\ Len(first) \in Nat /\ Len(last) \in Nat
        /\ \A k \in 1..(Len(first) + Len(last)) :
             report[k] = IF k <= Len(first) THEN first[k] ELSE last[k - Len(first)]
    <3> HIDE DEF first, last
    <3> QED BY <1>4, <1>5, ConcatProperties, LenProperties
  <2>3. \A k, l \in 1..Len(last) : last[k] = last[l] => k = l
    <3>1. /\ Len(last) = Len(missing) /\ DOMAIN missing = 1..Len(missing)
          /\ \A k \in 1..Len(missing) : last[k] = Down(missing[k])
      BY <1>3, EachIs, MembersOf DEF Each
    <3>2. \A k, l : Down(k) = Down(l) => k = l
      BY EventsAre
    <3> HIDE DEF last
    <3> QED BY <1>3, <3>1, <3>2 DEF IsInjective
  <2> HIDE DEF first, last, report
  <2>4. /\ ~(i <= Len(first)) /\ i - Len(first) \in 1..Len(last) /\ report[i] = last[i - Len(first)]
        /\ ~(j <= Len(first)) /\ j - Len(first) \in 1..Len(last) /\ report[j] = last[j - Len(first)]
    <3>1. ~(i <= Len(first)) /\ ~(j <= Len(first))
      <4>1. \A k \in 1..Len(report) : k <= Len(first) => report[k] \notin Downs
        <5>1. \A k \in 1..Len(report) : k <= Len(first) =>
                k \in 1..Len(first) /\ report[k] = first[k]
          BY <2>2
        <5> QED BY <2>1, <5>1
      <4>2. report[i] \in Downs /\ report[j] \in Downs
        BY <1>8
      <4> QED BY <4>1, <4>2
    <3> QED BY <2>2, <3>1
  <2>5. i - Len(first) = j - Len(first)
    BY <1>8, <2>3, <2>4
  <2> QED BY <2>2, <2>5
<1> HIDE DEF report
<1> QED BY <1>2, <1>3, <1>5, <1>6, <1>7, <1>8

LEMMA PrefixIs ==
  ASSUME NEW X, NEW events \in Seq(X), NEW n \in 0..Len(events)
  PROVE  /\ SubSeq(events, 1, n) \in Seq(X)
         /\ ToSet(SubSeq(events, 1, n)) \subseteq ToSet(events)
         /\ Len(SubSeq(events, 1, n)) = n
         /\ \A i \in 1..n : i \in 1..Len(events) /\ SubSeq(events, 1, n)[i] = events[i]
<1> DEFINE prefix == SubSeq(events, 1, n)
<1>1. /\ Len(events) \in Nat /\ n \in Nat /\ \A i \in 1..Len(events) : events[i] \in X
      /\ ToSet(events) = {events[i] : i \in 1..Len(events)}
  BY LenProperties, MembersOf
<1>2. \A i \in 1..n : i \in 1..Len(events) /\ events[i] \in X
  BY <1>1
<1>3. /\ prefix \in Seq(X) /\ Len(prefix) = IF 1 <= n THEN n - 1 + 1 ELSE 0
      /\ \A i \in 1..(n - 1 + 1) : prefix[i] = events[1 + i - 1]
  BY <1>1, <1>2, SubSeqProperties
<1> HIDE DEF prefix
<1>4. Len(prefix) = n
  BY <1>1, <1>3
<1>5. \A i \in 1..n : prefix[i] = events[i]
  <2>1. \A i \in 1..n : i \in 1..(n - 1 + 1) /\ 1 + i - 1 = i
    BY <1>1
  <2> QED BY <1>3, <2>1
<1>6. ToSet(prefix) = {prefix[i] : i \in 1..n}
  <2>1. prefix \in Seq(X)
    BY <1>3
  <2> QED BY <1>4, <2>1, MembersOf
<1>7. ToSet(prefix) \subseteq ToSet(events)
  BY <1>1, <1>2, <1>5, <1>6
<1> QED BY <1>2, <1>3, <1>4, <1>5, <1>7 DEF prefix

\* The order kept of a report that broke off has the keys that are then down.
LEMMA HeldAfterIs ==
  ASSUME held \in Seq(Key), IsInjective(held), HeldIsDown, NEW events \in Seq(Events),
         \A i, j \in 1..Len(events) : events[i] \in Downs /\ events[i] = events[j] => i = j,
         KeysOf(events, "down") \cap ToSet(held) = {}
  PROVE  /\ HeldAfter(events) \in Seq(Key) /\ IsInjective(HeldAfter(events))
         /\ ToSet(HeldAfter(events)) = DownAfter(events)
         /\ DownAfter(events) \subseteq Key
<1> DEFINE kept == Only(held, Key \ KeysOf(events, "up"))
           presses == Only(events, Downs)
           added == [i \in DOMAIN presses |-> presses[i].key]
<1>1. /\ kept \in Seq(Key) /\ ToSet(kept) = ToSet(held) \ KeysOf(events, "up")
      /\ IsInjective(kept)
  <2>1. \A i, j \in 1..Len(held) : held[i] = held[j] => i = j
    BY MembersOf DEF IsInjective
  <2>2. ToSet(held) \subseteq Key
    BY MembersOf
  <2> QED BY <2>1, <2>2, OnlyIs
<1>2. presses \in Seq(Events) /\ ToSet(presses) = ToSet(events) \cap Downs /\ IsInjective(presses)
  BY OnlyIs
<1> HIDE DEF kept, presses
<1>3. /\ DOMAIN presses = 1..Len(presses) /\ Len(presses) \in Nat
      /\ ToSet(presses) = {presses[i] : i \in 1..Len(presses)}
  BY <1>2, MembersOf
<1>4. \A i \in 1..Len(presses) : presses[i] \in Downs
  BY <1>2, <1>3
<1>5. \A e \in Downs : e.type = "down" /\ e.key \in Key /\ e = Down(e.key)
  BY EventsAre DEF Downs
<1>6. \A e \in Events : e.type = "down" => e \in Downs
  <2> HIDE DEF Up, Down, Relative, Downs
  <2> QED BY EventsAre DEF Events
<1>7. /\ added \in Seq(Key) /\ Len(added) = Len(presses) /\ DOMAIN added = 1..Len(presses)
      /\ ToSet(added) = {presses[i].key : i \in 1..Len(presses)}
  <2>1. added = [i \in 1..Len(presses) |-> presses[i].key]
    BY <1>3
  <2>2. added \in [1..Len(presses) -> Key]
    BY <1>4, <1>5, <2>1
  <2>3. added \in Seq(Key)
    BY <1>3, <2>2, SeqDef
  <2> HIDE DEF added
  <2>4. Len(added) = Len(presses)
    BY <1>3, <2>1, <2>3, LenProperties
  <2>5. ToSet(added) = {presses[i].key : i \in 1..Len(presses)}
    BY <2>1 DEF ToSet
  <2> QED BY <2>1, <2>3, <2>4, <2>5
<1>8. ToSet(added) = KeysOf(events, "down")
  <2>1. ToSet(events) \subseteq Events
    BY MembersOf
  <2>2. {x \in ToSet(events) : x.type = "down"} = ToSet(presses)
    BY <1>2, <1>5, <1>6, <2>1
  <2>3. KeysOf(events, "down") = {e.key : e \in ToSet(presses)}
    BY <2>2 DEF KeysOf
  <2> HIDE DEF added
  <2> QED BY <1>3, <1>7, <2>3
<1>9. IsInjective(added)
  <2>1. \A i, j \in 1..Len(presses) : added[i] = added[j] => presses[i] = presses[j]
    BY <1>3, <1>4, <1>5
  <2> HIDE DEF added
  <2> QED BY <1>2, <1>3, <1>7, <2>1 DEF IsInjective
<1>10. HeldAfter(events) = kept \o added
  BY DEF HeldAfter, kept, presses, Downs
<1> HIDE DEF added
<1>11. /\ kept \o added \in Seq(Key) /\ ToSet(kept \o added) = ToSet(kept) \cup ToSet(added)
       /\ IsInjective(kept \o added)
  <2>1. added \in Seq(Key) /\ ToSet(kept) \cap ToSet(added) = {}
    BY <1>1, <1>7, <1>8
  <2> QED BY <1>1, <1>9, <2>1, MembersOfConcat
<1>12. ToSet(kept \o added) = DownAfter(events)
  BY <1>1, <1>8, <1>11 DEF DownAfter, HeldIsDown
<1>13. ToSet(kept \o added) \subseteq Key
  BY <1>11, MembersOf
<1> QED BY <1>10, <1>11, <1>12, <1>13

LEMMA WantedIs ==
  ASSUME settings \in Settings, NEW buttons, NEW direction
  PROVE  Wanted(buttons, direction) \in Seq(Key) /\ IsInjective(Wanted(buttons, direction))
<1> DEFINE ids == Only(Button, buttons)
           chords == [i \in DOMAIN ids |-> settings.button[ids[i]].keys]
           extra == IF direction \in DOMAIN settings.gesture
                      THEN settings.gesture[direction].keys ELSE << >>
<1>1. Button \in Seq(Nat)
  BY ActionHandlerAssumption
<1>2. ids \in Seq(Nat) /\ ToSet(ids) \subseteq CID
  BY <1>1, OnlyIs DEF CID
<1> HIDE DEF ids
<1>3. /\ Len(ids) \in Nat /\ DOMAIN ids = 1..Len(ids) /\ \A i \in 1..Len(ids) : ids[i] \in CID
  BY <1>2, MembersOf
<1>4. \A c \in CID : settings.button[c].keys \in Seq(Key)
  BY ActionHandlerAssumption DEF Binding
<1>5. chords \in Seq(Seq(Key))
  <2>1. chords \in [1..Len(ids) -> Seq(Key)]
    BY <1>3, <1>4
  <2> QED BY <1>3, <2>1, SeqDef
<1>6. extra \in Seq(Key)
  <2>1. direction \in DOMAIN settings.gesture => settings.gesture[direction].keys \in Seq(Key)
    BY ActionHandlerAssumption DEF Binding
  <2> QED BY <2>1, EmptySeq
<1>7. Chords(ids) \in Seq(Key)
  <2>1. Chords(ids) = FlattenSeq(chords)
    BY DEF Chords
  <2> HIDE DEF chords
  <2> QED BY <1>5, <2>1, MembersOfFlatten
<1>8. Wanted(buttons, direction) = Distinct(Chords(ids) \o extra)
  BY DEF Wanted, ids
<1> HIDE DEF extra
<1>9. Chords(ids) \o extra \in Seq(Key)
  BY <1>6, <1>7, ConcatProperties
<1> QED BY <1>8, <1>9, DistinctIs

\* No button and no gesture ask for no key, whatever the settings.
LEMMA NothingWanted ==
  /\ settings \in Settings => ToSet(Wanted({}, "none")) = {}
  /\ (settings' \in Settings /\ pressed' = {} /\ gesture' = "none") =>
       ToSet(Wanted(pressed, gesture)') = {}
<1> DEFINE ids == Only(Button, {})
<1>1. ids \in Seq(Nat) /\ ToSet(ids) = {}
  BY ActionHandlerAssumption, OnlyIs
<1>2. ids = << >>
  <2> HIDE DEF ids
  <2> QED BY <1>1, MembersOf
<1>3. Chords(<< >>) = << >> /\ Chords(<< >>)' = << >>
  BY DEF Chords, FlattenSeq
<1>4. \A s \in Settings : "none" \notin DOMAIN s.gesture
  BY ActionHandlerAssumption DEF Direction
<1>5. << >> \in Seq(Key) /\ << >> \o << >> = << >>
  BY EmptySeq, ConcatEmptySeq
<1>6. ToSet(Distinct(<< >>)) = {}
  BY <1>5, DistinctIs, MembersOfEmpty
<1>7. ASSUME settings \in Settings
      PROVE  ToSet(Wanted({}, "none")) = {}
  <2>1. Wanted({}, "none") = Distinct(<< >> \o << >>)
    BY <1>2, <1>3, <1>4, <1>7 DEF Wanted
  <2> QED BY <1>5, <1>6, <2>1
<1>8. ASSUME settings' \in Settings, pressed' = {}, gesture' = "none"
      PROVE  ToSet(Wanted(pressed, gesture)') = {}
  <2>1. Wanted(pressed, gesture)' = Distinct(<< >> \o << >>)
    BY <1>2, <1>3, <1>4, <1>8 DEF Wanted
  <2> QED BY <1>5, <1>6, <2>1
<1> QED BY <1>7, <1>8

LEMMA WantedNext ==
  ASSUME settings' = settings
  PROVE  Wanted(pressed, gesture)' = Wanted(pressed', gesture')
  BY DEF Wanted, Chords

LEMMA AxesAre ==
  ASSUME NEW sources, IsFiniteSet(sources), NEW binding
  PROVE  Axes(sources, binding) \in Seq({Relative})
<1> DEFINE chosen == {s \in sources : binding[s].relative}
<1>1. Cardinality(chosen) \in Nat
  BY FS_Subset, FS_CardinalityType
<1> HIDE DEF chosen
<1>2. [i \in 1..Cardinality(chosen) |-> Relative] \in Seq({Relative})
  <2> HIDE DEF Relative
  <2> QED BY <1>1, SeqDef
<1> QED BY <1>2 DEF Axes, chosen

LEMMA ButtonsAreFinite ==
  ASSUME NEW S \in SUBSET CID
  PROVE  IsFiniteSet(S)
<1>1. /\ Len(Button) \in Nat /\ DOMAIN Button = 1..Len(Button)
      /\ CID = {Button[i] : i \in 1..Len(Button)}
  BY ActionHandlerAssumption, MembersOf DEF CID
<1>2. [i \in 1..Len(Button) |-> Button[i]] \in Surjection(1..Len(Button), CID)
  BY <1>1 DEF Surjection
<1>3. IsFiniteSet(1..Len(Button))
  BY <1>1, FS_Interval
<1>4. IsFiniteSet(CID)
  BY <1>2, <1>3, FS_Surjection DEF ExistsSurjection
<1> QED BY <1>4, FS_Subset

-----------------------------------------------------------------------------
(* A call, as far as the keys are concerned *)

OutputOK ==
  /\ held \in Seq(Key) /\ IsInjective(held)
  /\ down \subseteq Key /\ seen \subseteq Key
  /\ clean \in BOOLEAN

\* Reconciling keeps the order in step with the device, wherever it breaks off;
\* and when it does not break off, the keys down are those wanted.
LEMMA Reconciled ==
  ASSUME settings \in Settings, OutputOK, HeldIsDown,
         NEW buttons, NEW direction, NEW extra \in Seq({Relative}), NEW ok \in BOOLEAN,
         Reconcile(buttons, direction, extra, ok)
  PROVE  /\ OutputOK' /\ HeldIsDown'
         /\ clean' => ToSet(held') = ToSet(Wanted(buttons, direction))
<1> DEFINE wanted == Wanted(buttons, direction)
           report == Report(wanted, extra)
<1> USE DEF OutputOK
<1>1. wanted \in Seq(Key) /\ IsInjective(wanted)
  BY WantedIs
<1>2. IF ok THEN Written(wanted, report) ELSE Broken(report)
  BY DEF Reconcile
<1> HIDE DEF wanted
<1>3. /\ report \in Seq(Events)
      /\ KeysOf(report, "up") = ToSet(held) \ ToSet(wanted)
      /\ KeysOf(report, "down") = ToSet(wanted) \ ToSet(held)
      /\ \A i, j \in 1..Len(report) : report[i] \in Downs /\ report[i] = report[j] => i = j
  BY <1>1, ReportIs
<1>4. ToSet(wanted) \subseteq Key /\ ToSet(held) \subseteq Key /\ ToSet(held) = down
  BY <1>1, MembersOf DEF HeldIsDown
<1> HIDE DEF report
<1>5. CASE Written(wanted, report)
  <2>1. DownAfter(report) = ToSet(wanted)
    BY <1>3, <1>4 DEF DownAfter
  <2>2. report = << >> => ToSet(held) = ToSet(wanted)
    <3>1. KeysOf(<< >>, "up") = {} /\ KeysOf(<< >>, "down") = {}
      BY MembersOfEmpty DEF KeysOf
    <3> QED BY <1>3, <3>1
  <2>3. ToSet(held') = ToSet(wanted) /\ down' = ToSet(wanted) /\ seen' \in {seen, down'}
        /\ clean' = TRUE /\ held' \in {held, wanted}
    BY <1>5, <2>1, <2>2 DEF Written
  <2>4. held' \in Seq(Key) /\ IsInjective(held')
    BY <1>1, <2>3
  <2> QED BY <1>4, <2>3, <2>4 DEF HeldIsDown, wanted
<1>6. CASE Broken(report)
  <2>1. PICK n \in 0..Len(report) : /\ down' = DownAfter(SubSeq(report, 1, n))
                                    /\ held' = HeldAfter(SubSeq(report, 1, n))
    BY <1>6 DEF Broken
  <2> DEFINE prefix == SubSeq(report, 1, n)
  <2>2. /\ prefix \in Seq(Events) /\ ToSet(prefix) \subseteq ToSet(report) /\ Len(prefix) = n
        /\ \A i \in 1..n : i \in 1..Len(report) /\ prefix[i] = report[i]
    BY <1>3, PrefixIs
  <2> HIDE DEF prefix
  <2>3. \A i, j \in 1..Len(prefix) : prefix[i] \in Downs /\ prefix[i] = prefix[j] => i = j
    BY <1>3, <2>2
  <2>4. KeysOf(prefix, "down") \cap ToSet(held) = {}
    <3>1. KeysOf(prefix, "down") \subseteq KeysOf(report, "down")
      BY <2>2 DEF KeysOf
    <3> QED BY <1>3, <3>1
  <2>5. /\ HeldAfter(prefix) \in Seq(Key) /\ IsInjective(HeldAfter(prefix))
        /\ ToSet(HeldAfter(prefix)) = DownAfter(prefix) /\ DownAfter(prefix) \subseteq Key
    BY <2>2, <2>3, <2>4, HeldAfterIs
  <2>6. clean' = FALSE /\ seen' = seen
    BY <1>6 DEF Broken
  <2> QED BY <2>1, <2>5, <2>6 DEF HeldIsDown, prefix
<1> QED BY <1>2, <1>5, <1>6

-----------------------------------------------------------------------------
(* The inductive invariant.  What the output is told follows from the order   *)
(* it is computed from, and that from the report before: none of the three    *)
(* properties of the keys is inductive without the others.                    *)

InputOK ==
  /\ settings \in Settings
  /\ pressed \subseteq CID
  /\ gesture \in Direction \cup {"none"}
  /\ moved \in Int \X Int /\ Abs(moved[1]) + Abs(moved[2]) < settings.threshold
  /\ rest \in [Axis -> (1 - Unit)..(Unit - 1)]

CallsOK ==
  /\ closed \in BOOLEAN /\ running \in BOOLEAN
  /\ started \in 0..MaxStarts
  /\ worker \in [Worker -> {"off", "select", "report", "release", "exit", "done"}]
  /\ stopping \subseteq Worker /\ live \subseteq Worker
  /\ stopper \in [Stopper -> {"idle", "join", "finish", "returned"}]
  /\ joins \in [Stopper -> 0..MaxStarts]

\* A worker that runs is the one installed last.
RunningWasStarted == running => started # 0

KeysInv == InputOK /\ OutputOK /\ HeldIsDown /\ HeldIsWanted

IInv ==
  /\ KeysInv
  /\ CallsOK
  /\ RunningWasStarted
  /\ ClosedIsReleased

\* A call that leaves settings, buttons, gesture and output as they are.
LEMMA NothingReported ==
  ASSUME KeysInv, UNCHANGED <<settings, pressed, gesture, outputVars>>
  PROVE  OutputOK' /\ HeldIsDown' /\ HeldIsWanted'
<1>1. Wanted(pressed, gesture)' = Wanted(pressed, gesture)
  BY WantedNext
<1>2. UNCHANGED <<held, down, seen, clean>>
  BY DEF outputVars
<1>3. OutputOK' /\ HeldIsDown'
  BY <1>2 DEF KeysInv, OutputOK, HeldIsDown
<1>4. HeldIsWanted'
  <2> HIDE DEF Wanted
  <2> QED BY <1>1, <1>2 DEF KeysInv, HeldIsWanted
<1> QED BY <1>3, <1>4

\* A call that brings the output in line with the buttons and gesture it leaves.
LEMMA Reported ==
  ASSUME KeysInv, settings' = settings, NEW extra \in Seq({Relative}), NEW ok \in BOOLEAN,
         Reconcile(pressed', gesture', extra, ok)
  PROVE  OutputOK' /\ HeldIsDown' /\ HeldIsWanted'
<1>1. /\ OutputOK' /\ HeldIsDown'
      /\ clean' => ToSet(held') = ToSet(Wanted(pressed', gesture'))
  BY Reconciled DEF KeysInv, InputOK
<1>2. Wanted(pressed, gesture)' = Wanted(pressed', gesture')
  BY WantedNext
<1>3. HeldIsWanted'
  BY <1>1, <1>2 DEF HeldIsWanted
<1> QED BY <1>1, <1>3

\* Everything is released, or the report broke off.
LEMMA Released ==
  ASSUME KeysInv, settings' \in Settings, NEW ok \in BOOLEAN, ReleaseAll(ok)
  PROVE  KeysInv' /\ (clean' => down' = {})
<1>1. /\ OutputOK' /\ HeldIsDown'
      /\ clean' => ToSet(held') = ToSet(Wanted({}, "none"))
  BY Reconciled, EmptySeq DEF KeysInv, InputOK, ReleaseAll
<1>2. /\ ToSet(Wanted({}, "none")) = {}
      /\ ToSet(Wanted(pressed, gesture)') = {}
  BY NothingWanted DEF KeysInv, InputOK, ReleaseAll
<1>3. HeldIsWanted'
  BY <1>1, <1>2 DEF HeldIsWanted
<1>4. clean' => down' = {}
  BY <1>1, <1>2 DEF HeldIsDown
<1>5. InputOK'
  <2>1. moved' = <<0, 0>> /\ <<0, 0>> \in Int \X Int /\ Abs(moved'[1]) + Abs(moved'[2]) = 0
    BY DEF ReleaseAll, Abs
  <2>2. settings'.threshold \in Nat \ {0}
    BY ActionHandlerAssumption
  <2>3. Abs(moved'[1]) + Abs(moved'[2]) < settings'.threshold
    BY <2>1, <2>2
  <2>4. rest' \in [Axis -> (1 - Unit)..(Unit - 1)]
    BY ActionHandlerAssumption DEF ReleaseAll
  <2>5. pressed' = {} /\ gesture' = "none"
    BY DEF ReleaseAll
  <2> QED BY <2>1, <2>3, <2>4, <2>5 DEF InputOK
<1> QED BY <1>1, <1>3, <1>4, <1>5 DEF KeysInv

\* What consumeHiRes leaves is less than a click.
LEMMA LessThanAClick ==
  ASSUME NEW v \in Int
  PROVE  Clicks(v) \in Int /\ v - Clicks(v) * Unit \in (1 - Unit)..(Unit - 1)
<1>1. Unit \in Nat \ {0}
  BY ActionHandlerAssumption
<1>2. ASSUME NEW n \in Nat
      PROVE  n - (n \div Unit) * Unit \in 0..(Unit - 1) /\ n \div Unit \in Nat
  BY <1>1
<1>3. CASE v < 0
  <2>1. -v \in Nat /\ Clicks(v) = -((-v) \div Unit)
    BY <1>3 DEF Clicks
  <2>2. /\ (-v) - ((-v) \div Unit) * Unit \in 0..(Unit - 1)
        /\ (-v) \div Unit \in Nat
    BY <1>2, <2>1
  <2>3. \A q \in Nat : (-v) - q * Unit \in 0..(Unit - 1) =>
          v - (-q) * Unit \in (1 - Unit)..(Unit - 1)
    BY <1>1
  <2> QED BY <2>1, <2>2, <2>3
<1>4. CASE ~(v < 0)
  <2>1. v \in Nat /\ Clicks(v) = v \div Unit
    BY <1>4 DEF Clicks
  <2> QED BY <1>1, <1>2, <2>1
<1> QED BY <1>3, <1>4

LEMMA ButtonsKeep ==
  ASSUME KeysInv, NEW ids \in SUBSET CID, NEW ok \in BOOLEAN, HandleButtons(ids, ok)
  PROVE  KeysInv'
<1> DEFINE new == ids \ pressed
<1>1. settings' = settings /\ gesture' = gesture /\ moved' = moved /\ rest' = rest
  BY DEF HandleButtons
<1>2. CASE pressed' = ids /\ Reconcile(ids, gesture, Axes(new, settings.button), ok)
  <2>1. Axes(new, settings.button) \in Seq({Relative})
    BY AxesAre, ButtonsAreFinite
  <2>2. Reconcile(pressed', gesture', Axes(new, settings.button), ok)
    BY <1>1, <1>2
  <2>3. OutputOK' /\ HeldIsDown' /\ HeldIsWanted'
    BY <1>1, <2>1, <2>2, Reported
  <2> QED BY <1>1, <1>2, <2>3 DEF KeysInv, InputOK
<1>3. CASE UNCHANGED <<pressed, outputVars>>
  <2>1. OutputOK' /\ HeldIsDown' /\ HeldIsWanted'
    BY <1>1, <1>3, NothingReported
  <2> QED BY <1>1, <1>3, <2>1 DEF KeysInv, InputOK
<1> QED BY <1>2, <1>3 DEF HandleButtons, PressButtons, Return

LEMMA AtRest ==
  ASSUME settings \in Settings
  PROVE  <<0, 0>> \in Int \X Int /\ Abs(<<0, 0>>[1]) + Abs(<<0, 0>>[2]) < settings.threshold
<1>1. settings.threshold \in Nat \ {0}
  BY ActionHandlerAssumption
<1> QED BY <1>1 DEF Abs

LEMMA EndGestureKeeps ==
  ASSUME KeysInv, NEW ok \in BOOLEAN, EndGesture(ok), UNCHANGED <<settings, pressed, rest>>
  PROVE  KeysInv'
<1>1. gesture' = "none" /\ moved' = <<0, 0>> /\ Reconcile(pressed', gesture', << >>, ok)
  BY DEF EndGesture
<1>2. OutputOK' /\ HeldIsDown' /\ HeldIsWanted'
  BY <1>1, EmptySeq, Reported
<1> QED BY <1>1, <1>2, AtRest DEF KeysInv, InputOK

LEMMA RawXYKeeps ==
  ASSUME KeysInv, NEW d \in Motion, NEW ok \in BOOLEAN, HandleRawXY(d, ok)
  PROVE  KeysInv'
<1> DEFINE sum == <<moved[1] + d[1], moved[2] + d[2]>>
<1>1. settings' = settings /\ pressed' = pressed /\ rest' = rest
  BY DEF HandleRawXY
<1>2. CASE EndGesture(ok)
  BY <1>1, <1>2, EndGestureKeeps
<1>3. CASE UNCHANGED <<gesture, moved, outputVars>>
  <2>1. OutputOK' /\ HeldIsDown' /\ HeldIsWanted'
    BY <1>1, <1>3, NothingReported
  <2> QED BY <1>1, <1>3, <2>1 DEF KeysInv, InputOK
<1>4. CASE /\ Abs(sum[1]) + Abs(sum[2]) < settings.threshold
           /\ moved' = sum /\ UNCHANGED <<gesture, outputVars>>
  <2>1. OutputOK' /\ HeldIsDown' /\ HeldIsWanted'
    BY <1>1, <1>4, NothingReported
  <2>2. sum \in Int \X Int
    BY ActionHandlerAssumption DEF KeysInv, InputOK
  <2> HIDE DEF sum
  <2> QED BY <1>1, <1>4, <2>1, <2>2 DEF KeysInv, InputOK
<1>5. CASE moved' = <<0, 0>> /\ UNCHANGED <<gesture, outputVars>>
  <2>1. OutputOK' /\ HeldIsDown' /\ HeldIsWanted'
    BY <1>1, <1>5, NothingReported
  <2> QED BY <1>1, <1>5, <2>1, AtRest DEF KeysInv, InputOK
<1>6. CASE moved' = <<0, 0>> /\ BeginGesture(DirectionFor(d), ok)
  <2> DEFINE direction == DirectionFor(d)
  <2>1. direction \in Direction
    BY DEF DirectionFor, Direction
  <2> HIDE DEF direction
  <2>2. CASE UNCHANGED <<gesture, outputVars>>
    BY <1>5, <1>6, <2>2
  <2>3. CASE /\ gesture' = direction
             /\ Reconcile(pressed, direction,
                  Axes({direction} \cap DOMAIN settings.gesture, settings.gesture), ok)
    <3>1. IsFiniteSet({direction} \cap DOMAIN settings.gesture)
      BY FS_Singleton, FS_Subset
    <3>2. Axes({direction} \cap DOMAIN settings.gesture, settings.gesture) \in Seq({Relative})
      BY <3>1, AxesAre
    <3>3. OutputOK' /\ HeldIsDown' /\ HeldIsWanted'
      BY <1>1, <2>3, <3>2, Reported
    <3> QED BY <1>1, <1>6, <2>1, <2>3, <3>3, AtRest DEF KeysInv, InputOK
  <2> QED BY <1>6, <2>2, <2>3 DEF BeginGesture, Return, direction
<1> QED BY <1>2, <1>3, <1>4, <1>5, <1>6 DEF HandleRawXY, Return

LEMMA WheelKeeps ==
  ASSUME KeysInv, NEW ok \in BOOLEAN,
         HandleLowRes(ok) \/ \E a \in Axis, delta \in Delta : HandleHiRes(a, delta, ok)
  PROVE  KeysInv'
<1>1. settings' = settings /\ pressed' = pressed /\ gesture' = gesture /\ moved' = moved
  BY DEF HandleLowRes, HandleHiRes
<1>2. <<Relative>> \in Seq({Relative}) /\ <<Relative, Relative>> \in Seq({Relative})
  <2> HIDE DEF Relative
  <2> QED OBVIOUS
<1>3. \E extra \in Seq({Relative}) : Reconcile(pressed', gesture', extra, ok)
  BY <1>1, <1>2 DEF HandleLowRes, HandleHiRes
<1>4. OutputOK' /\ HeldIsDown' /\ HeldIsWanted'
  BY <1>1, <1>3, Reported
<1>5. rest' \in [Axis -> (1 - Unit)..(Unit - 1)]
  <2>1. rest \in [Axis -> (1 - Unit)..(Unit - 1)] /\ Unit \in Nat \ {0} /\ Delta \subseteq Int
    BY ActionHandlerAssumption DEF KeysInv, InputOK
  <2>2. CASE HandleLowRes(ok)
    <3>1. rest' = [rest EXCEPT !["wheel"] = 0] /\ 0 \in (1 - Unit)..(Unit - 1)
      BY <2>1, <2>2 DEF HandleLowRes
    <3> QED BY <2>1, <3>1
  <2>3. ASSUME NEW a \in Axis, NEW delta \in Delta, HandleHiRes(a, delta, ok)
        PROVE  rest' \in [Axis -> (1 - Unit)..(Unit - 1)]
    <3>1. PICK v \in Int : v = rest[a] + delta
      BY <2>1
    <3>2. PICK clicks : /\ clicks = Clicks(v)
                        /\ rest' = [rest EXCEPT ![a] = @ + delta - clicks * Unit]
      BY <2>3, <3>1 DEF HandleHiRes
    <3>3. clicks \in Int /\ v - clicks * Unit \in (1 - Unit)..(Unit - 1)
      BY <3>2, LessThanAClick
    <3>4. rest[a] + delta - clicks * Unit \in (1 - Unit)..(Unit - 1)
      BY <2>1, <3>1, <3>3
    <3> QED BY <2>1, <3>2, <3>4
  <2> QED BY <2>2, <2>3
<1> QED BY <1>1, <1>4, <1>5 DEF KeysInv, InputOK

LEMMA EventKeeps ==
  ASSUME KeysInv, NEW ok \in BOOLEAN, Event(ok)
  PROVE  KeysInv' /\ settings' = settings
<1>1. settings' = settings
  BY DEF Event, HandleButtons, HandleRawXY, HandleHiRes, HandleLowRes
<1>2. KeysInv'
  BY ButtonsKeep, RawXYKeeps, WheelKeeps DEF Event
<1> QED BY <1>1, <1>2

LEMMA NothingKeeps ==
  ASSUME KeysInv, UNCHANGED <<inputVars, outputVars>>
  PROVE  KeysInv'
<1>1. UNCHANGED <<settings, pressed, gesture, moved, rest>>
  BY DEF inputVars
<1>2. OutputOK' /\ HeldIsDown' /\ HeldIsWanted'
  BY <1>1, NothingReported
<1> QED BY <1>1, <1>2 DEF KeysInv, InputOK

-----------------------------------------------------------------------------
(* The invariant is inductive *)

LEMMA InitIInv == Init => IInv
<1> SUFFICES ASSUME Init PROVE IInv
  OBVIOUS
<1> USE DEF Init
<1>1. InputOK
  BY AtRest, ActionHandlerAssumption DEF InputOK
<1>2. OutputOK /\ HeldIsDown /\ ClosedIsReleased /\ RunningWasStarted
  BY EmptySeq, MembersOfEmpty DEF OutputOK, HeldIsDown, ClosedIsReleased, RunningWasStarted
<1>3. HeldIsWanted
  BY NothingWanted, MembersOfEmpty DEF HeldIsWanted
<1>4. CallsOK
  <2>1. 0 \in 0..MaxStarts
    BY ActionHandlerAssumption
  <2>2. closed \in BOOLEAN /\ running \in BOOLEAN
    OBVIOUS
  <2>3. stopping \subseteq Worker /\ live \subseteq Worker
    OBVIOUS
  <2> QED BY <2>1, <2>2, <2>3 DEF CallsOK
<1> QED BY <1>1, <1>2, <1>3, <1>4 DEF IInv, KeysInv

\* Calls of other goroutines: they find the output open and leave it so.
LEMMA CallKeeps ==
  ASSUME IInv, Handle \/ Reset \/ Reconfigure \/ ReleaseGesture
  PROVE  IInv'
<1>1. UNCHANGED <<closed, started, worker, running, stopping, live, stopper, joins>> /\ ~closed
  BY DEF Handle, Reset, Reconfigure, ReleaseGesture, workerVars, stopVars
<1>2. CallsOK' /\ RunningWasStarted' /\ ClosedIsReleased'
  BY <1>1 DEF IInv, CallsOK, RunningWasStarted, ClosedIsReleased
<1>3. KeysInv'
  <2>1. KeysInv /\ settings \in Settings
    BY DEF IInv, KeysInv, InputOK
  <2>2. CASE Handle
    BY <2>1, <2>2, EventKeeps DEF Handle
  <2>3. CASE Reset \/ Reconfigure
    <3>1. PICK ok \in BOOLEAN : ReleaseAll(ok) /\ settings' \in Settings
      BY <2>1, <2>3 DEF Reset, Reconfigure
    <3> QED BY <2>1, <3>1, Released
  <2>4. CASE ReleaseGesture
    BY <2>1, <2>4, EndGestureKeeps DEF ReleaseGesture
  <2> QED BY <2>2, <2>3, <2>4
<1> QED BY <1>2, <1>3 DEF IInv

LEMMA StartKeeps ==
  ASSUME IInv, Start
  PROVE  IInv'
<1>1. KeysInv'
  BY NothingKeeps DEF IInv, Start
<1>2. UNCHANGED <<closed, stopping, stopper, joins>> /\ ~closed
  BY DEF Start, stopVars
<1>3. started + 1 \in Worker /\ started' = started + 1 /\ running' = TRUE
      /\ worker' = [worker EXCEPT ![started + 1] = "select"] /\ live' = live \cup {started + 1}
  BY ActionHandlerAssumption DEF Start, Worker, IInv, CallsOK
<1>4. CallsOK'
  <2>1. worker' \in [Worker -> {"off", "select", "report", "release", "exit", "done"}]
    BY <1>3 DEF IInv, CallsOK
  <2>2. started' \in 0..MaxStarts /\ live' \subseteq Worker
    BY <1>3, ActionHandlerAssumption DEF IInv, CallsOK, Worker
  <2>3. running' \in BOOLEAN /\ closed' \in BOOLEAN
    <3>1. closed \in BOOLEAN
      BY DEF IInv, CallsOK
    <3> QED BY <1>2, <1>3, <3>1
  <2> QED BY <1>2, <2>1, <2>2, <2>3 DEF IInv, CallsOK
<1>5. RunningWasStarted' /\ ClosedIsReleased'
  BY <1>2, <1>3, ActionHandlerAssumption
     DEF RunningWasStarted, ClosedIsReleased, Worker
<1> QED BY <1>1, <1>4, <1>5 DEF IInv

\* The worker, and the end of its stream: what happens when the output is closed
\* is that a release may find nothing left to report.
LEMMA WorkerKeeps ==
  ASSUME IInv, NEW w \in Worker, WorkerStep(w) \/ EndStream(w)
  PROVE  IInv'
<1> USE DEF IInv
<1>1. /\ UNCHANGED <<closed, started, stopping, stopper, joins>>
      /\ running' \in {running, FALSE} /\ live' \subseteq live
      /\ \/ worker' = worker
         \/ \E pc \in {"select", "report", "release", "exit", "done"} :
              worker' = [worker EXCEPT ![w] = pc]
  BY DEF WorkerStep, EndStream, WorkerHandle, WorkerReport, WorkerStop, WorkerRelease,
         WorkerExit, Goto, stopVars
<1>2. CallsOK' /\ RunningWasStarted'
  <2>1. worker' \in [Worker -> {"off", "select", "report", "release", "exit", "done"}]
    BY <1>1 DEF CallsOK
  <2>2. running' \in BOOLEAN /\ closed' \in BOOLEAN
    BY <1>1 DEF CallsOK
  <2> QED BY <1>1, <2>1, <2>2 DEF CallsOK, RunningWasStarted
<1>3. CASE UNCHANGED <<inputVars, outputVars>>
  <2>1. KeysInv'
    BY <1>3, NothingKeeps
  <2>2. ClosedIsReleased'
    BY <1>1, <1>3 DEF ClosedIsReleased, outputVars
  <2> QED BY <1>2, <2>1, <2>2
<1>4. CASE ~closed /\ \E ok \in BOOLEAN : Event(ok)
  <2>1. KeysInv'
    BY <1>4, EventKeeps
  <2>2. ClosedIsReleased'
    BY <1>1, <1>4 DEF ClosedIsReleased
  <2> QED BY <1>2, <2>1, <2>2
<1>5. CASE WorkerRelease(w)
  <2>1. PICK ok \in BOOLEAN : ReleaseAll(ok) /\ settings' = settings
    BY <1>5 DEF WorkerRelease
  <2>2. KeysInv' /\ (clean' => down' = {})
    BY <2>1, Released DEF KeysInv, InputOK
  <2> QED BY <1>2, <2>2 DEF ClosedIsReleased
<1> QED BY <1>3, <1>4, <1>5
        DEF WorkerStep, EndStream, WorkerHandle, WorkerReport, WorkerStop, WorkerExit

LEMMA StopKeeps ==
  ASSUME IInv, NEW s \in Stopper, StopBegin(s) \/ StopStep(s)
  PROVE  IInv'
<1> USE DEF IInv
<1>1. CASE StopBegin(s)
  <2>1. /\ KeysInv' /\ ClosedIsReleased'
        /\ UNCHANGED <<closed, started, worker, running, live>>
    BY <1>1, NothingKeeps DEF StopBegin, ClosedIsReleased, outputVars
  <2>2. /\ stopper' \in [Stopper -> {"idle", "join", "finish", "returned"}]
        /\ joins' \in [Stopper -> 0..MaxStarts]
        /\ stopping' \subseteq Worker
    <3>1. running => started \in Worker
      BY ActionHandlerAssumption DEF CallsOK, RunningWasStarted, Worker
    <3>2. CASE closed
      BY <1>1, <3>2 DEF StopBegin, CallsOK
    <3>3. CASE ~closed
      <4>1. stopping' \subseteq Worker
        BY <1>1, <3>1, <3>3 DEF StopBegin, CallsOK
      <4>2. stopper' \in [Stopper -> {"idle", "join", "finish", "returned"}]
        BY <1>1, <3>3 DEF StopBegin, CallsOK
      <4>3. joins' \in [Stopper -> 0..MaxStarts]
        BY <1>1, <3>3 DEF StopBegin, CallsOK
      <4> QED BY <4>1, <4>2, <4>3
    <3> QED BY <3>2, <3>3
  <2>3. CallsOK' /\ RunningWasStarted'
    <3>1. closed' \in BOOLEAN /\ running' \in BOOLEAN
      BY <2>1 DEF CallsOK
    <3> QED BY <2>1, <2>2, <3>1 DEF CallsOK, RunningWasStarted
  <2> QED BY <2>1, <2>3
<1>2. CASE StopJoin(s) \/ StopFinish(s)
  <2>1. /\ UNCHANGED <<started, worker, running, stopping, live, joins>>
        /\ stopper' \in [Stopper -> {"idle", "join", "finish", "returned"}]
    BY <1>2 DEF StopJoin, StopFinish, workerVars, CallsOK
  <2>2. closed' \in BOOLEAN /\ running' \in BOOLEAN
    <3>1. running' = running
      BY <2>1
    <3>2. closed' = closed \/ closed' = TRUE
      BY <1>2 DEF StopJoin, StopFinish
    <3>3. closed \in BOOLEAN /\ running \in BOOLEAN
      BY DEF CallsOK
    <3> QED BY <3>1, <3>2, <3>3
  <2>3. CallsOK' /\ RunningWasStarted'
    BY <2>1, <2>2 DEF CallsOK, RunningWasStarted
  <2>4. CASE UNCHANGED <<inputVars, outputVars, closed>>
    BY <2>3, <2>4, NothingKeeps DEF ClosedIsReleased, outputVars
  <2>5. ASSUME NEW ok \in BOOLEAN, ReleaseAll(ok), settings' = settings
        PROVE  IInv'
    <3>1. KeysInv' /\ (clean' => down' = {})
      BY <2>5, Released DEF KeysInv, InputOK
    <3> QED BY <2>3, <3>1 DEF ClosedIsReleased
  <2> QED BY <1>2, <2>4, <2>5 DEF StopJoin, StopFinish
<1> QED BY <1>1, <1>2 DEF StopStep

LEMMA NextIInv == IInv /\ [Next]_vars => IInv'
<1> SUFFICES ASSUME IInv, [Next]_vars PROVE IInv'
  OBVIOUS
<1>1. CASE UNCHANGED vars
  <2>1. KeysInv'
    BY <1>1, NothingKeeps DEF vars, IInv
  <2>2. UNCHANGED <<down, clean, closed, started, worker, running, stopping, live, stopper, joins>>
    BY <1>1 DEF vars, outputVars, workerVars, stopVars
  <2> QED BY <2>1, <2>2 DEF IInv, CallsOK, RunningWasStarted, ClosedIsReleased
<1>2. CASE Next
  BY <1>2, CallKeeps, StartKeeps, WorkerKeeps, StopKeeps DEF Next
<1> QED BY <1>1, <1>2

-----------------------------------------------------------------------------
(* The theorems *)

\* The invariant from which the others follow.
THEOREM Invariance == Spec => []IInv
  BY InitIInv, NextIInv, PTL DEF Spec

\* Every variable keeps its type; in particular no key is twice in the order, a
\* displacement that is added up stays below the threshold, and a wheel's
\* remainder is less than a click.
THEOREM TypeCorrect == Spec => []TypeOK
<1>1. IInv => TypeOK
  BY DEF IInv, KeysInv, InputOK, OutputOK, CallsOK, TypeOK
<1> QED BY Invariance, <1>1, PTL

\* The handler's order holds exactly the keys that are down on the device, after
\* every report, the broken ones included.
THEOREM HandlerKnowsTheDevice == Spec => []HeldIsDown
<1>1. IInv => HeldIsDown
  BY DEF IInv, KeysInv
<1> QED BY Invariance, <1>1, PTL

\* After a call without an error the keys down are those that the buttons pressed
\* and the gesture ask for.
THEOREM NoKeyIsStuck == Spec => []HeldIsWanted
<1>1. IInv => HeldIsWanted
  BY DEF IInv, KeysInv
<1> QED BY Invariance, <1>1, PTL

\* When the output is closed no key is down, unless the last report failed; also
\* when a worker Stop did not wait for releases after it.
THEOREM OutputClosesReleased == Spec => []ClosedIsReleased
<1>1. IInv => ClosedIsReleased
  BY DEF IInv
<1> QED BY Invariance, <1>1, PTL

=============================================================================
