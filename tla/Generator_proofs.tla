---------------------------- MODULE Generator_proofs ----------------------------
(***************************************************************************)
(* What the plugin writes is right for every file protoc can give it, with *)
(* any number of services and of methods, in packages of any depth.        *)
(***************************************************************************)
EXTENDS Generator, SequenceTheorems, FiniteSetTheorems, WellFoundedInduction, TLAPS

-----------------------------------------------------------------------------
(***************************************************************************)
(* Induction over the naturals, said of sets.                              *)
(***************************************************************************)
LEMMA Least ==
  ASSUME NEW T \in SUBSET Nat, T # {}
  PROVE  \E n \in T : \A m \in T : n <= m
<1>1. IsWellFoundedOn(OpToRel(<, Nat), Nat)
  BY NatLessThanWellFounded
<1>2. PICK n \in T : \A y \in T : ~ (<<y, n>> \in OpToRel(<, Nat))
  BY <1>1, WFMin
<1>3. \A y \in T : ~ (y < n)
  BY <1>2 DEF OpToRel
<1> QED BY <1>3

LEMMA NatInd ==
  ASSUME NEW S, 0 \in S, \A n \in Nat : n \in S => n + 1 \in S
  PROVE  Nat \subseteq S
<1> SUFFICES ASSUME NEW x \in Nat, x \notin S PROVE FALSE
  OBVIOUS
<1> DEFINE T == Nat \ S
<1>1. PICK n \in T : \A m \in T : n <= m
  BY Least
<1>2. n # 0 /\ n - 1 \in Nat /\ n - 1 \in S
  BY <1>1
<1> QED BY <1>1, <1>2

\* g holds the first m values of a recursion.
Upto(V, base, step, m, g) ==
  g \in [0 .. m -> V] /\ g[0] = base /\ \A i \in 1 .. m : g[i] = step[i, g[i - 1]]

LEMMA Longer ==
  ASSUME NEW V, NEW base \in V, NEW n \in Nat, NEW step \in [(1 .. n) \X V -> V],
         NEW m \in Nat, m + 1 <= n, NEW g, Upto(V, base, step, m, g)
  PROVE  \E h : Upto(V, base, step, m + 1, h)
<1>1. g \in [0 .. m -> V] /\ g[0] = base /\ \A i \in 1 .. m : g[i] = step[i, g[i - 1]]
  BY DEF Upto
<1>2. m + 1 \in 1 .. n /\ m \in 0 .. m
  OBVIOUS
<1>2a. g[m] \in V
  BY <1>1, <1>2
<1> DEFINE last == step[m + 1, g[m]]
<1>3. last \in V
  <2>1. <<m + 1, g[m]>> \in (1 .. n) \X V
    BY <1>2, <1>2a
  <2> QED BY <2>1
<1> HIDE DEF last
<1> DEFINE next == [k \in 0 .. m + 1 |-> IF k = m + 1 THEN last ELSE g[k]]
<1>4. \A k \in 0 .. m + 1 : k # m + 1 => g[k] \in V
  <2>1. \A k \in 0 .. m + 1 : k # m + 1 => k \in 0 .. m
    OBVIOUS
  <2> QED BY <1>1, <2>1
<1>5. next \in [0 .. m + 1 -> V]
  BY <1>3, <1>4
<1>6. next[m + 1] = last /\ \A k \in 0 .. m : next[k] = g[k]
  OBVIOUS
<1> HIDE DEF next
<1>7. ASSUME NEW i \in 1 .. m + 1 PROVE next[i] = step[i, next[i - 1]]
  <2>1. CASE i = m + 1
    <3>1. i - 1 = m /\ next[m] = g[m] /\ next[i] = last
      BY <1>2, <1>6, <2>1
    <3> QED BY <2>1, <3>1 DEF last
  <2>2. CASE i # m + 1
    <3>1. i \in 1 .. m /\ i \in 0 .. m /\ i - 1 \in 0 .. m
      BY <2>2
    <3> QED BY <1>1, <1>6, <3>1
  <2> QED BY <2>1, <2>2
<1>8. next[0] = base
  <2>1. 0 \in 0 .. m
    OBVIOUS
  <2> QED BY <1>1, <1>6, <2>1
<1> QED BY <1>5, <1>7, <1>8 DEF Upto

\* A function defined by recursion over the places of a sequence exists.
LEMMA RecursionExists ==
  ASSUME NEW V, NEW base \in V, NEW n \in Nat, NEW step \in [(1 .. n) \X V -> V]
  PROVE  \E g : Upto(V, base, step, n, g)
<1> DEFINE S == { m \in Nat : m <= n => \E g : Upto(V, base, step, m, g) }
<1>1. 0 \in S
  <2>1. Upto(V, base, step, 0, [k \in 0 .. 0 |-> base])
    BY DEF Upto
  <2> QED BY <2>1
<1>2. ASSUME NEW m \in Nat, m \in S PROVE m + 1 \in S
  <2> SUFFICES ASSUME m + 1 <= n PROVE \E g : Upto(V, base, step, m + 1, g)
    OBVIOUS
  <2>1. PICK g : Upto(V, base, step, m, g)
    <3>1. m <= n
      OBVIOUS
    <3> QED BY <1>2, <3>1
  <2> QED BY <2>1, Longer
<1> HIDE DEF S
<1>3. n \in S
  BY <1>1, <1>2, NatInd
<1> QED BY <1>3 DEF S

-----------------------------------------------------------------------------
(***************************************************************************)
(* Sequences of anything.                                                  *)
(***************************************************************************)
IsSeq(s) == s \in Seq(Range(s))

LEMMA SeqIs ==
  ASSUME NEW S, NEW s \in Seq(S)
  PROVE  /\ IsSeq(s)
         /\ Len(s) \in Nat
         /\ DOMAIN s = 1 .. Len(s)
         /\ Range(s) \subseteq S
<1>1. Len(s) \in Nat /\ s \in [1 .. Len(s) -> S] /\ DOMAIN s = 1 .. Len(s)
  BY LenProperties
<1>2. s \in [1 .. Len(s) -> Range(s)]
  BY <1>1 DEF Range
<1>3. s \in UNION { [1 .. n -> Range(s)] : n \in Nat }
  BY <1>1, <1>2
<1> QED BY <1>1, <1>3, SeqDef DEF IsSeq, Range

LEMMA SeqFacts ==
  ASSUME NEW s, IsSeq(s)
  PROVE  /\ Len(s) \in Nat
         /\ DOMAIN s = 1 .. Len(s)
         /\ \A i \in 1 .. Len(s) : s[i] \in Range(s)
         /\ \A x \in Range(s) : \E i \in 1 .. Len(s) : x = s[i]
<1>1. Len(s) \in Nat /\ s \in [1 .. Len(s) -> Range(s)] /\ DOMAIN s = 1 .. Len(s)
  BY LenProperties DEF IsSeq
<1> QED BY <1>1 DEF Range

LEMMA SeqMade ==
  ASSUME NEW n \in Nat, NEW s, DOMAIN s = 1 .. n, s = [i \in 1 .. n |-> s[i]]
  PROVE  IsSeq(s) /\ Len(s) = n
<1>1. s \in [1 .. n -> Range(s)]
  BY DEF Range
<1>2. s \in Seq(Range(s))
  BY <1>1, SeqDef
<1>3. DOMAIN s = 1 .. Len(s) /\ Len(s) \in Nat
  BY <1>2, LenProperties
<1>4. Len(s) = n
  BY <1>3
<1> QED BY <1>2, <1>4 DEF IsSeq

LEMMA Both ==
  ASSUME NEW s, IsSeq(s), NEW t, IsSeq(t)
  PROVE  \E S : s \in Seq(S) /\ t \in Seq(S)
<1> DEFINE S == Range(s) \cup Range(t)
<1>1. s \in Seq(S) /\ t \in Seq(S)
  <2>1. Range(s) \subseteq S /\ Range(t) \subseteq S
    OBVIOUS
  <2> HIDE DEF S
  <2> QED BY <2>1, SeqMonotonic DEF IsSeq
<1> QED BY <1>1

LEMMA ConcatFacts ==
  ASSUME NEW s, IsSeq(s), NEW t, IsSeq(t)
  PROVE  /\ IsSeq(s \o t)
         /\ Len(s \o t) = Len(s) + Len(t)
         /\ \A i \in 1 .. Len(s) : (s \o t)[i] = s[i]
         /\ \A i \in 1 .. Len(t) : (s \o t)[Len(s) + i] = t[i]
<1>1. PICK S : s \in Seq(S) /\ t \in Seq(S)
  BY Both
<1>2. /\ s \o t \in Seq(S)
      /\ Len(s \o t) = Len(s) + Len(t)
      /\ \A i \in 1 .. Len(s) + Len(t) :
           (s \o t)[i] = IF i <= Len(s) THEN s[i] ELSE t[i - Len(s)]
  BY <1>1, ConcatProperties
<1>3. /\ Len(s) \in Nat /\ Len(t) \in Nat
      /\ DOMAIN s = 1 .. Len(s) /\ DOMAIN t = 1 .. Len(t)
      /\ DOMAIN (s \o t) = 1 .. Len(s) + Len(t)
  BY <1>1, <1>2, LenProperties
<1>4. \A i \in 1 .. Len(s) : (s \o t)[i] = s[i]
  BY <1>2, <1>3
<1>5. \A i \in 1 .. Len(t) : (s \o t)[Len(s) + i] = t[i]
  <2> SUFFICES ASSUME NEW i \in 1 .. Len(t) PROVE (s \o t)[Len(s) + i] = t[i]
    OBVIOUS
  <2>1. Len(s) + i \in 1 .. Len(s) + Len(t) /\ ~ (Len(s) + i <= Len(s)) /\ Len(s) + i - Len(s) = i
    BY <1>3
  <2> QED BY <1>2, <2>1
<1>6. IsSeq(s \o t)
  BY <1>2, SeqIs
<1> QED BY <1>2, <1>4, <1>5, <1>6

LEMMA ConcatIsSeq ==
  ASSUME NEW s, IsSeq(s), NEW t, IsSeq(t)
  PROVE  IsSeq(s \o t)
BY ConcatFacts

LEMMA ConcatBehind ==
  ASSUME NEW s, IsSeq(s), NEW t, IsSeq(t), NEW i \in 1 .. Len(t)
  PROVE  (s \o t)[Len(s) + i] = t[i]
BY ConcatFacts

LEMMA ConcatRange ==
  ASSUME NEW s, IsSeq(s), NEW t, IsSeq(t)
  PROVE  Range(s \o t) = Range(s) \cup Range(t)
<1>1. /\ Len(s) \in Nat /\ Len(t) \in Nat
      /\ DOMAIN s = 1 .. Len(s) /\ DOMAIN t = 1 .. Len(t)
      /\ DOMAIN (s \o t) = 1 .. Len(s) + Len(t)
  <2>1. IsSeq(s \o t) /\ Len(s \o t) = Len(s) + Len(t)
    BY ConcatFacts
  <2> QED BY <2>1, SeqFacts
<1>2. /\ \A i \in 1 .. Len(s) : (s \o t)[i] = s[i]
      /\ \A i \in 1 .. Len(t) : (s \o t)[Len(s) + i] = t[i]
  BY ConcatFacts, ConcatBehind
<1>3. Range(s \o t) = Range(s) \cup Range(t)
  <2>1. ASSUME NEW i \in 1 .. Len(s) + Len(t)
        PROVE  i \in 1 .. Len(s) \/ \E j \in 1 .. Len(t) : i = Len(s) + j
    <3>1. CASE i <= Len(s)
      BY <1>1, <3>1
    <3>2. CASE ~ (i <= Len(s))
      <4>1. i - Len(s) \in 1 .. Len(t) /\ i = Len(s) + (i - Len(s))
        BY <1>1, <3>2
      <4> QED BY <4>1
    <3> QED BY <3>1, <3>2
  <2>2. \A i \in 1 .. Len(s) : i \in 1 .. Len(s) + Len(t)
    BY <1>1
  <2>3. \A j \in 1 .. Len(t) : Len(s) + j \in 1 .. Len(s) + Len(t)
    BY <1>1
  <2>4. ASSUME NEW x \in Range(s \o t) PROVE x \in Range(s) \cup Range(t)
    <3>1. PICK i \in 1 .. Len(s) + Len(t) : x = (s \o t)[i]
      BY <1>1 DEF Range
    <3> QED BY <1>1, <1>2, <2>1, <3>1 DEF Range
  <2>5. ASSUME NEW x \in Range(s) PROVE x \in Range(s \o t)
    BY <1>1, <1>2, <2>2 DEF Range
  <2>6. ASSUME NEW x \in Range(t) PROVE x \in Range(s \o t)
    <3>1. PICK j \in 1 .. Len(t) : x = t[j]
      BY <1>1 DEF Range
    <3> QED BY <1>1, <1>2, <2>3, <3>1 DEF Range
  <2> QED BY <2>4, <2>5, <2>6
<1> QED BY <1>3

LEMMA EmptyFacts ==
  /\ IsSeq(<< >>)
  /\ Len(<< >>) = 0
  /\ Range(<< >>) = {}
  /\ \A s : IsSeq(s) => /\ s \o << >> = s
                        /\ << >> \o s = s
                        /\ Len(s) = 0 => s = << >>
<1>1. << >> \in Seq({}) /\ Len(<< >>) = 0
  BY EmptySeq
<1>2. IsSeq(<< >>) /\ Range(<< >>) \subseteq {}
  <2> DEFINE none == << >>
             nothing == {}
  <2>1. none \in Seq(nothing)
    BY <1>1
  <2> HIDE DEF none, nothing
  <2>2. IsSeq(none) /\ Range(none) \subseteq nothing
    BY <2>1, SeqIs
  <2> QED BY <2>2 DEF none, nothing
<1>3. ASSUME NEW s, IsSeq(s)
      PROVE  s \o << >> = s /\ << >> \o s = s /\ (Len(s) = 0 => s = << >>)
  <2>1. s \in Seq(Range(s))
    BY <1>3 DEF IsSeq
  <2> QED BY <2>1, ConcatEmptySeq, EmptySeq
<1> QED BY <1>1, <1>2, <1>3

LEMMA OneFacts ==
  ASSUME NEW x
  PROVE  IsSeq(<<x>>) /\ Len(<<x>>) = 1 /\ <<x>>[1] = x /\ Range(<<x>>) = {x}
<1>1. <<x>> \in Seq({x}) /\ Len(<<x>>) = 1 /\ <<x>>[1] = x
  OBVIOUS
<1>2. IsSeq(<<x>>) /\ DOMAIN <<x>> = 1 .. 1
  BY <1>1, SeqIs
<1> QED BY <1>1, <1>2 DEF Range

LEMMA SeqSame ==
  ASSUME NEW s, IsSeq(s), NEW t, IsSeq(t), Len(s) = Len(t), \A i \in 1 .. Len(s) : s[i] = t[i]
  PROVE  s = t
<1>1. PICK S : s \in Seq(S) /\ t \in Seq(S)
  BY Both
<1> QED BY <1>1, SeqEqual

LEMMA ConcatAssoc ==
  ASSUME NEW s, IsSeq(s), NEW t, IsSeq(t), NEW u, IsSeq(u)
  PROVE  (s \o t) \o u = s \o (t \o u)
<1>1. PICK S : s \in Seq(S) /\ t \in Seq(S)
  BY Both
<1> DEFINE T == S \cup Range(u)
<1>2. S \subseteq T /\ Range(u) \subseteq T
  OBVIOUS
<1> HIDE DEF T
<1>3. s \in Seq(T) /\ t \in Seq(T) /\ u \in Seq(T)
  BY <1>1, <1>2, SeqMonotonic DEF IsSeq
<1> QED BY <1>3, ConcatAssociative

LEMMA ConcatCancel ==
  ASSUME NEW s, IsSeq(s), NEW t, IsSeq(t), NEW u, IsSeq(u), s \o t = s \o u
  PROVE  t = u
<1>1. Len(t) = Len(u)
  <2>1. Len(s \o t) = Len(s) + Len(t) /\ Len(s \o u) = Len(s) + Len(u)
    BY ConcatFacts
  <2>2. Len(s) \in Nat /\ Len(t) \in Nat /\ Len(u) \in Nat
    BY SeqFacts
  <2> QED BY <2>1, <2>2
<1>2. \A i \in 1 .. Len(t) : t[i] = u[i]
  <2>1. \A i \in 1 .. Len(t) : (s \o t)[Len(s) + i] = t[i]
    BY ConcatFacts
  <2>2. \A i \in 1 .. Len(u) : (s \o u)[Len(s) + i] = u[i]
    BY ConcatFacts
  <2> QED BY <1>1, <2>1, <2>2
<1> QED BY <1>1, <1>2, SeqSame

LEMMA ConsFacts ==
  ASSUME NEW x, NEW t, IsSeq(t)
  PROVE  /\ IsSeq(<<x>> \o t)
         /\ Len(<<x>> \o t) = Len(t) + 1
         /\ (<<x>> \o t)[1] = x
         /\ \A i \in 1 .. Len(t) : (<<x>> \o t)[i + 1] = t[i]
<1> DEFINE one == <<x>>
           n == Len(t)
<1>1. IsSeq(one) /\ Len(one) = 1 /\ one[1] = x /\ n \in Nat
  BY OneFacts, SeqFacts
<1> HIDE DEF one
<1>2. IsSeq(one \o t) /\ Len(one \o t) = Len(one) + Len(t)
  BY <1>1, ConcatFacts
<1>3. \A i \in 1 .. Len(one) : (one \o t)[i] = one[i]
  BY <1>1, ConcatFacts
<1>4. \A i \in 1 .. Len(t) : (one \o t)[Len(one) + i] = t[i]
  BY <1>1, ConcatBehind, Zenon
<1>5. (one \o t)[1] = x
  BY <1>1, <1>3
<1>6. \A i \in 1 .. n : (one \o t)[i + 1] = t[i]
  <2> SUFFICES ASSUME NEW i \in 1 .. n PROVE (one \o t)[i + 1] = t[i]
    OBVIOUS
  <2>1. (one \o t)[Len(one) + i] = t[i]
    BY <1>4, Zenon
  <2>2. Len(one) + i = i + 1
    BY <1>1
  <2> QED BY <2>1, <2>2, Zenon
<1>7. Len(one \o t) = n + 1
  BY <1>1, <1>2
<1> QED BY <1>2, <1>5, <1>6, <1>7 DEF one

LEMMA TwoFacts ==
  ASSUME NEW x, NEW y
  PROVE  /\ IsSeq(<<x, y>>) /\ Len(<<x, y>>) = 2 /\ <<x, y>>[1] = x /\ <<x, y>>[2] = y
         /\ <<x>> \o <<y>> = <<x, y>>
<1> DEFINE s == <<x, y>>
           S == {x, y}
           t == <<y>>
           whole == <<x>> \o t
<1>1. s \in Seq(S) /\ Len(s) = 2 /\ s[1] = x /\ s[2] = y
  OBVIOUS
<1>2. IsSeq(s)
  <2> HIDE DEF s, S
  <2> QED BY <1>1, SeqIs
<1>3. IsSeq(t) /\ Len(t) = 1 /\ t[1] = y
  BY OneFacts
<1> HIDE DEF s, t
<1>4. /\ IsSeq(whole) /\ Len(whole) = Len(t) + 1 /\ whole[1] = x
      /\ \A i \in 1 .. Len(t) : whole[i + 1] = t[i]
  <2>1. IsSeq(t) /\ Len(t) \in Nat
    BY <1>3
  <2> QED BY <2>1, ConsFacts
<1> HIDE DEF whole
<1>5. whole[1 + 1] = t[1]
  BY <1>3, <1>4
<1>6. \A i \in 1 .. 2 : s[i] = whole[i]
  BY <1>1, <1>3, <1>4, <1>5
<1>7. s = whole
  BY <1>1, <1>2, <1>3, <1>4, <1>6, SeqSame
<1> QED BY <1>1, <1>2, <1>7 DEF s, t, whole

LEMMA ThreeIsSeq ==
  ASSUME NEW x, NEW a, NEW b
  PROVE  IsSeq(<<x, a, b>>)
<1> DEFINE s == <<x, a, b>>
           S == {x, a, b}
<1>1. s \in Seq(S)
  OBVIOUS
<1> HIDE DEF s, S
<1>2. IsSeq(s)
  BY <1>1, SeqIs
<1> QED BY <1>2 DEF s

LEMMA ThreeJoined ==
  ASSUME NEW x, NEW a, NEW b
  PROVE  <<x>> \o <<a, b>> = <<x, a, b>>
<1> DEFINE t == <<a, b>>
           s == <<x, a, b>>
           whole == <<x>> \o t
<1>1. t \in Seq({a, b}) /\ Len(t) = 2 /\ t[1] = a /\ t[2] = b
  OBVIOUS
<1>2. Len(s) = 3 /\ s[1] = x /\ s[2] = a /\ s[3] = b
  OBVIOUS
<1>2a. IsSeq(s)
  BY ThreeIsSeq
<1> HIDE DEF t, s
<1>3. IsSeq(t)
  BY <1>1, SeqIs
<1>4. /\ IsSeq(whole) /\ Len(whole) = 2 + 1 /\ whole[1] = x
      /\ \A i \in 1 .. 2 : whole[i + 1] = t[i]
  <2>1. /\ IsSeq(whole) /\ Len(whole) = Len(t) + 1 /\ whole[1] = x
        /\ \A i \in 1 .. Len(t) : whole[i + 1] = t[i]
    <3>1. IsSeq(t) /\ Len(t) \in Nat
      BY <1>3, SeqFacts
    <3> QED BY <3>1, ConsFacts
  <2> QED BY <1>1, <2>1
<1> HIDE DEF whole
<1>5. whole[1 + 1] = t[1] /\ whole[2 + 1] = t[2]
  BY <1>4
<1>6. \A i \in 1 .. 3 : s[i] = whole[i]
  BY <1>1, <1>2, <1>4, <1>5
<1>7. s = whole
  BY <1>2, <1>2a, <1>4, <1>6, SeqSame
<1> QED BY <1>7 DEF s, t, whole

LEMMA FourIsSeq ==
  ASSUME NEW x, NEW a, NEW b, NEW c
  PROVE  IsSeq(<<x, a, b, c>>)
<1> DEFINE s == <<x, a, b, c>>
           S == {x, a, b, c}
<1>1. s \in Seq(S)
  OBVIOUS
<1> HIDE DEF s, S
<1>2. IsSeq(s)
  BY <1>1, SeqIs
<1> QED BY <1>2 DEF s

-----------------------------------------------------------------------------
(***************************************************************************)
(* FlattenSeq puts sequences one behind the other.                         *)
(***************************************************************************)
Parts(seqs) == IsSeq(seqs) /\ \A i \in 1 .. Len(seqs) : IsSeq(seqs[i])

\* g[i] is what the first i parts make.
Joins(seqs, g) ==
  /\ g[0] = << >>
  /\ \A i \in 1 .. Len(seqs) : g[i] = g[i - 1] \o seqs[i]

LEMMA JoinsNext ==
  ASSUME NEW seqs, NEW g, Joins(seqs, g), NEW k \in Nat, k + 1 \in 1 .. Len(seqs)
  PROVE  g[k + 1] = g[k] \o seqs[k + 1]
<1> DEFINE i == k + 1
<1>1. k = i - 1 /\ i \in 1 .. Len(seqs)
  OBVIOUS
<1> HIDE DEF i
<1>2. g[i] = g[k] \o seqs[i]
  BY <1>1, Zenon DEF Joins
<1> QED BY <1>2 DEF i

LEMMA JoinsSeq ==
  ASSUME NEW seqs, Parts(seqs), NEW g, Joins(seqs, g), NEW i \in 0 .. Len(seqs)
  PROVE  IsSeq(g[i])
<1> DEFINE S == { k \in Nat : k <= Len(seqs) => IsSeq(g[k]) }
<1>1. Len(seqs) \in Nat
  BY SeqFacts DEF Parts
<1>2. 0 \in S
  BY EmptyFacts DEF Joins
<1>3. ASSUME NEW k \in Nat, k \in S PROVE k + 1 \in S
  <2> SUFFICES ASSUME k + 1 <= Len(seqs) PROVE IsSeq(g[k + 1])
    OBVIOUS
  <2>1. k + 1 \in 1 .. Len(seqs) /\ k + 1 - 1 = k /\ IsSeq(g[k])
    BY <1>1, <1>3
  <2>2. g[k + 1] = g[k] \o seqs[k + 1] /\ IsSeq(seqs[k + 1])
    BY <2>1, JoinsNext DEF Parts
  <2> QED BY <2>1, <2>2, ConcatFacts
<1> HIDE DEF S
<1>4. i \in S
  BY <1>1, <1>2, <1>3, NatInd
<1> QED BY <1>1, <1>4 DEF S

LEMMA FlattenIs ==
  ASSUME NEW seqs, Parts(seqs)
  PROVE  \E g : Joins(seqs, g) /\ FlattenSeq(seqs) = g[Len(seqs)]
<1> DEFINE n == Len(seqs)
           all == UNION { Range(seqs[i]) : i \in 1 .. n }
           V == Seq(all)
           step == [p \in (1 .. n) \X V |-> p[2] \o seqs[p[1]]]
<1>1. n \in Nat /\ << >> \in V
  BY EmptySeq, SeqFacts DEF Parts
<1>2. \A i \in 1 .. n : seqs[i] \in V
  <2> SUFFICES ASSUME NEW i \in 1 .. n PROVE seqs[i] \in V
    OBVIOUS
  <2>1. Range(seqs[i]) \subseteq all
    OBVIOUS
  <2>2. seqs[i] \in Seq(Range(seqs[i]))
    BY DEF Parts, IsSeq
  <2> HIDE DEF all
  <2> QED BY <2>1, <2>2, SeqMonotonic
<1>3. step \in [(1 .. n) \X V -> V]
  <2>1. \A i \in 1 .. n, t \in V : t \o seqs[i] \in V
    BY <1>2, ConcatProperties
  <2> HIDE DEF V
  <2> QED BY <2>1
<1>4. PICK g : Upto(V, << >>, step, n, g)
  <2> HIDE DEF n, V, step
  <2> QED BY <1>1, <1>3, RecursionExists
<1> HIDE DEF all
<1>5. Joins(seqs, g)
  <2>1. g \in [0 .. n -> V] /\ g[0] = << >> /\ \A i \in 1 .. n : g[i] = step[i, g[i - 1]]
    BY <1>4 DEF Upto
  <2> HIDE DEF V
  <2>2. ASSUME NEW i \in 1 .. n PROVE g[i] = g[i - 1] \o seqs[i]
    <3>1. i - 1 \in 0 .. n
      BY <1>1
    <3>2. g[i - 1] \in V
      BY <2>1, <3>1
    <3>3. <<i, g[i - 1]>> \in (1 .. n) \X V
      BY <3>2
    <3> QED BY <2>1, <3>3
  <2> QED BY <2>1, <2>2 DEF Joins
<1>6. CASE n = 0
  <2>1. seqs = << >>
    BY <1>6, EmptyFacts DEF Parts
  <2>2. FlattenSeq(seqs) = seqs
    BY <1>6 DEF FlattenSeq
  <2> QED BY <1>5, <1>6, <2>1, <2>2 DEF Joins
<1>7. CASE n # 0
  <2> DEFINE Flat(f) == [i \in 1 .. n |-> IF i = 1 THEN seqs[i] ELSE f[i - 1] \o seqs[i]]
             h == [i \in 1 .. n |-> g[i]]
  <2>1. h = Flat(h)
    <3>1. ASSUME NEW i \in 1 .. n PROVE h[i] = IF i = 1 THEN seqs[i] ELSE h[i - 1] \o seqs[i]
      <4>1. CASE i = 1
        <5>1. g[1] = << >> \o seqs[1]
          <6>1. 1 \in 1 .. n /\ 1 - 1 = 0
            BY <1>1, <1>7
          <6> QED BY <1>5, <6>1 DEF Joins
        <5> QED BY <4>1, <5>1, EmptyFacts DEF Parts
      <4>2. CASE i # 1
        <5>1. i - 1 \in 1 .. n
          BY <1>1, <4>2
        <5> QED BY <1>5, <4>2, <5>1 DEF Joins
      <4> QED BY <4>1, <4>2
    <3> HIDE DEF n
    <3>2. h = [i \in 1 .. n |-> h[i]]
      OBVIOUS
    <3> HIDE DEF h
    <3> QED BY <3>1, <3>2
  <2> DEFINE flatten == CHOOSE f : f = Flat(f)
  <2>2. flatten = Flat(flatten)
    BY <2>1
  <2>3. FlattenSeq(seqs) = flatten[n]
    BY <1>7 DEF FlattenSeq
  <2>4. \A i \in 1 .. n : flatten[i] = IF i = 1 THEN seqs[i] ELSE flatten[i - 1] \o seqs[i]
    <3> HIDE DEF flatten, n
    <3> QED BY <2>2
  <2> DEFINE S == { i \in Nat : i + 1 <= n => flatten[i + 1] = g[i + 1] }
  <2> HIDE DEF flatten, Flat, h
  <2>5. 0 \in S
    <3>1. 1 \in 1 .. n /\ 1 - 1 = 0
      BY <1>1, <1>7
    <3>2. flatten[1] = seqs[1]
      BY <2>4, <3>1
    <3>3. g[1] = << >> \o seqs[1] /\ IsSeq(seqs[1])
      BY <1>5, <3>1 DEF Joins, Parts
    <3>4. flatten[1] = g[1]
      BY <3>2, <3>3, EmptyFacts
    <3> QED BY <3>4
  <2>6. ASSUME NEW i \in Nat, i \in S PROVE i + 1 \in S
    <3> SUFFICES ASSUME i + 1 + 1 <= n PROVE flatten[i + 1 + 1] = g[i + 1 + 1]
      OBVIOUS
    <3>1. i + 1 \in 1 .. n /\ i + 1 + 1 \in 1 .. n /\ i + 1 + 1 - 1 = i + 1 /\ i + 1 + 1 # 1
      BY <1>1
    <3>2. flatten[i + 1] = g[i + 1]
      BY <2>6, <3>1
    <3>3. flatten[i + 1 + 1] = flatten[i + 1] \o seqs[i + 1 + 1]
      <4> DEFINE j == i + 1
                 l == i + 1 + 1
      <4>1. j = l - 1 /\ l \in 1 .. n /\ l # 1
        BY <3>1
      <4> HIDE DEF j, l
      <4>2. flatten[l] = flatten[j] \o seqs[l]
        BY <2>4, <4>1, Zenon
      <4> QED BY <4>2 DEF j, l
    <3>4. g[i + 1 + 1] = g[i + 1] \o seqs[i + 1 + 1]
      <4>1. i + 1 \in Nat
        OBVIOUS
      <4> QED BY <1>5, <3>1, <4>1, JoinsNext
    <3> QED BY <3>2, <3>3, <3>4
  <2> HIDE DEF S
  <2>7. n - 1 \in S
    <3>1. n - 1 \in Nat
      BY <1>1, <1>7
    <3> QED BY <2>5, <2>6, <3>1, NatInd
  <2>8. flatten[n] = g[n]
    <3>1. n - 1 + 1 = n /\ n <= n
      BY <1>1
    <3> QED BY <2>7, <3>1 DEF S
  <2> QED BY <1>5, <2>3, <2>8
<1> QED BY <1>6, <1>7

LEMMA FlattenIsSeq ==
  ASSUME NEW seqs, Parts(seqs)
  PROVE  IsSeq(FlattenSeq(seqs))
<1>1. PICK g : Joins(seqs, g) /\ FlattenSeq(seqs) = g[Len(seqs)]
  BY FlattenIs
<1>2. Len(seqs) \in Nat
  BY SeqFacts DEF Parts
<1>3. Len(seqs) \in 0 .. Len(seqs)
  BY <1>2
<1> QED BY <1>1, <1>3, JoinsSeq

LEMMA FlattenRange ==
  ASSUME NEW seqs, Parts(seqs)
  PROVE  Range(FlattenSeq(seqs)) = UNION { Range(seqs[i]) : i \in 1 .. Len(seqs) }
<1>1. PICK g : Joins(seqs, g) /\ FlattenSeq(seqs) = g[Len(seqs)]
  BY FlattenIs
<1>2. Len(seqs) \in Nat
  BY SeqFacts DEF Parts
<1> DEFINE Of(k) == UNION { Range(seqs[i]) : i \in 1 .. k }
           S == { k \in Nat : k <= Len(seqs) => Range(g[k]) = Of(k) }
<1>3. 0 \in S
  <2>1. Range(g[0]) = {}
    BY <1>1, EmptyFacts DEF Joins
  <2>2. Of(0) = {}
    <3>1. 1 .. 0 = {}
      OBVIOUS
    <3> QED BY <3>1
  <2> QED BY <2>1, <2>2
<1>4. ASSUME NEW k \in Nat, k \in S PROVE k + 1 \in S
  <2> SUFFICES ASSUME k + 1 <= Len(seqs) PROVE Range(g[k + 1]) = Of(k + 1)
    OBVIOUS
  <2>1. k + 1 \in 1 .. Len(seqs) /\ k \in 0 .. Len(seqs) /\ Range(g[k]) = Of(k)
    BY <1>2, <1>4
  <2>2. g[k + 1] = g[k] \o seqs[k + 1] /\ IsSeq(g[k]) /\ IsSeq(seqs[k + 1])
    BY <1>1, <2>1, JoinsNext, JoinsSeq DEF Parts
  <2>3. Range(g[k + 1]) = Of(k) \cup Range(seqs[k + 1])
    BY <2>1, <2>2, ConcatRange
  <2>4. Of(k + 1) = Of(k) \cup Range(seqs[k + 1])
    <3>1. 1 .. k + 1 = 1 .. k \cup {k + 1}
      OBVIOUS
    <3> QED BY <3>1, Zenon
  <2> QED BY <2>3, <2>4
<1> HIDE DEF S
<1>5. Len(seqs) \in S
  BY <1>2, <1>3, <1>4, NatInd
<1> QED BY <1>1, <1>2, <1>5 DEF S

\* A text for every element of a sequence.
LEMMA PartsMade ==
  ASSUME NEW seq, IsSeq(seq), NEW f, DOMAIN f = DOMAIN seq, f = [i \in DOMAIN seq |-> f[i]],
         \A i \in DOMAIN seq : IsSeq(f[i])
  PROVE  Parts(f) /\ Len(f) = Len(seq) /\ DOMAIN f = 1 .. Len(seq)
<1>1. Len(seq) \in Nat /\ DOMAIN seq = 1 .. Len(seq)
  BY SeqFacts
<1>2. IsSeq(f) /\ Len(f) = Len(seq)
  BY <1>1, SeqMade
<1> QED BY <1>1, <1>2 DEF Parts

\* The first part comes first.
LEMMA FlattenFirst ==
  ASSUME NEW x, IsSeq(x), NEW rest, Parts(rest)
  PROVE  FlattenSeq(<<x>> \o rest) = x \o FlattenSeq(rest)
<1> DEFINE seqs == <<x>> \o rest
           n == Len(rest)
<1>1. IsSeq(rest) /\ n \in Nat
  BY SeqFacts DEF Parts
<1>2. /\ IsSeq(seqs) /\ Len(seqs) = n + 1
      /\ seqs[1] = x
      /\ \A i \in 1 .. n : seqs[i + 1] = rest[i]
  BY <1>1, ConsFacts
<1> HIDE DEF seqs
<1>3. Parts(seqs)
  <2>1. ASSUME NEW i \in 1 .. Len(seqs) PROVE IsSeq(seqs[i])
    <3>1. CASE i = 1
      BY <1>2, <3>1
    <3>2. CASE i # 1
      <4>1. i - 1 \in 1 .. n /\ i = i - 1 + 1
        BY <1>1, <1>2, <3>2
      <4>2. seqs[i] = rest[i - 1]
        BY <1>2, <4>1
      <4> QED BY <4>1, <4>2 DEF Parts
    <3> QED BY <3>1, <3>2
  <2> QED BY <1>2, <2>1 DEF Parts
<1>4. PICK g : Joins(seqs, g) /\ FlattenSeq(seqs) = g[n + 1]
  BY <1>2, <1>3, FlattenIs
<1>5. PICK h : Joins(rest, h) /\ FlattenSeq(rest) = h[n]
  BY FlattenIs
<1> DEFINE S == { k \in Nat : k <= n => g[k + 1] = x \o h[k] }
<1>6. 0 \in S
  <2>1. 1 \in 1 .. Len(seqs) /\ 1 - 1 = 0
    BY <1>1, <1>2
  <2>2. g[1] = g[0] \o seqs[1] /\ g[0] = << >> /\ h[0] = << >>
    BY <1>4, <1>5, <2>1 DEF Joins
  <2>3. g[1] = x \o h[0]
    BY <1>2, <2>2, EmptyFacts
  <2> QED BY <2>3
<1>7. ASSUME NEW k \in Nat, k \in S PROVE k + 1 \in S
  <2> SUFFICES ASSUME k + 1 <= n PROVE g[k + 1 + 1] = x \o h[k + 1]
    OBVIOUS
  <2>1. /\ k + 1 \in 1 .. n /\ k + 1 - 1 = k /\ g[k + 1] = x \o h[k] /\ k \in 0 .. n
        /\ k + 1 + 1 \in 1 .. Len(seqs) /\ k + 1 + 1 - 1 = k + 1
    BY <1>1, <1>2, <1>7
  <2>2. h[k + 1] = h[k] \o rest[k + 1] /\ IsSeq(h[k]) /\ IsSeq(rest[k + 1])
    BY <1>5, <2>1, JoinsSeq, JoinsNext DEF Parts
  <2>3. g[k + 1 + 1] = g[k + 1] \o rest[k + 1]
    <3>1. k + 1 \in Nat
      OBVIOUS
    <3>2. g[k + 1 + 1] = g[k + 1] \o seqs[k + 1 + 1]
      BY <1>4, <2>1, <3>1, JoinsNext
    <3>3. seqs[k + 1 + 1] = rest[k + 1]
      BY <1>2, <2>1
    <3> QED BY <3>2, <3>3
  <2>4. (x \o h[k]) \o rest[k + 1] = x \o (h[k] \o rest[k + 1])
    <3> DEFINE a == h[k]
               b == rest[k + 1]
    <3>1. IsSeq(a) /\ IsSeq(b)
      BY <2>2
    <3> HIDE DEF a, b
    <3>2. (x \o a) \o b = x \o (a \o b)
      BY <3>1, ConcatAssoc, SMTT(60)
    <3> QED BY <3>2 DEF a, b
  <2> QED BY <2>1, <2>2, <2>3, <2>4
<1> HIDE DEF S
<1>8. n \in S
  BY <1>1, <1>6, <1>7, NatInd
<1>9. g[n + 1] = x \o h[n]
  BY <1>1, <1>8 DEF S
<1> QED BY <1>4, <1>5, <1>9 DEF seqs

-----------------------------------------------------------------------------
(***************************************************************************)
(* File names.  What stands for a character tells which it is, and where   *)
(* the next one begins.                                                    *)
(***************************************************************************)
LEMMA EscapeFacts ==
  ASSUME NEW c
  PROVE  /\ IsSeq(Escape(c)) /\ Len(Escape(c)) \in {1, 3}
         /\ c \notin DOMAIN Hex => Escape(c)[1] = c /\ c # "_"
         /\ c \in DOMAIN Hex => /\ Len(Escape(c)) = 3
                                /\ Escape(c)[1] = "_"
                                /\ Escape(c)[2] = Hex[c][1]
                                /\ Escape(c)[3] = Hex[c][2]
<1>1. CASE c \notin DOMAIN Hex
  <2>1. Escape(c) = <<c>>
    BY <1>1 DEF Escape
  <2>2. c # "_"
    BY <1>1 DEF Hex
  <2> QED BY <1>1, <2>1, <2>2, OneFacts
<1>2. CASE c \in DOMAIN Hex
  <2>1. Hex[c] = <<Hex[c][1], Hex[c][2]>>
    BY <1>2 DEF Hex
  <2>2. Escape(c) = <<"_">> \o Hex[c]
    BY <1>2 DEF Escape
  <2> DEFINE a == Hex[c][1]
             b == Hex[c][2]
             x == "_"
  <2>3. Escape(c) = <<x>> \o <<a, b>>
    BY <2>1, <2>2
  <2> HIDE DEF a, b, x
  <2>4. /\ IsSeq(Escape(c)) /\ Len(Escape(c)) = 3
        /\ Escape(c)[1] = x /\ Escape(c)[2] = a /\ Escape(c)[3] = b
    <3>1. Escape(c) = <<x, a, b>>
      BY <2>3, ThreeJoined
    <3>2. IsSeq(<<x, a, b>>)
      BY ThreeIsSeq
    <3> QED BY <3>1, <3>2
  <2> QED BY <1>2, <2>4 DEF a, b, x
<1> QED BY <1>1, <1>2

LEMMA HexDistinct ==
  ASSUME NEW c \in DOMAIN Hex, NEW d \in DOMAIN Hex,
         Hex[c][1] = Hex[d][1], Hex[c][2] = Hex[d][2]
  PROVE  c = d
BY DEF Hex

LEMMA EscapeDistinct ==
  ASSUME NEW c, NEW d, NEW s, IsSeq(s), NEW t, IsSeq(t), Escape(c) \o s = Escape(d) \o t
  PROVE  c = d
<1>1. IsSeq(Escape(c)) /\ IsSeq(Escape(d))
  BY EscapeFacts
<1>2. /\ \A i \in 1 .. Len(Escape(c)) : (Escape(c) \o s)[i] = Escape(c)[i]
      /\ \A i \in 1 .. Len(Escape(d)) : (Escape(d) \o t)[i] = Escape(d)[i]
  BY <1>1, ConcatFacts
<1>3. /\ 1 \in 1 .. Len(Escape(c)) /\ 1 \in 1 .. Len(Escape(d))
  <2>1. \A e : Len(Escape(e)) \in {1, 3}
    BY EscapeFacts
  <2>2. \A l \in {1, 3} : 1 \in 1 .. l
    OBVIOUS
  <2> QED BY <2>1, <2>2
<1>4. Escape(c)[1] = Escape(d)[1]
  BY <1>2, <1>3
<1>5. CASE c \notin DOMAIN Hex \/ d \notin DOMAIN Hex
  BY <1>4, <1>5, EscapeFacts
<1>6. CASE c \in DOMAIN Hex /\ d \in DOMAIN Hex
  <2>1. Len(Escape(c)) = 3 /\ Len(Escape(d)) = 3
    BY <1>6, EscapeFacts
  <2>2. 2 \in 1 .. 3 /\ 3 \in 1 .. 3
    OBVIOUS
  <2>3. Escape(c)[2] = Escape(d)[2] /\ Escape(c)[3] = Escape(d)[3]
    <3>1. \A i \in 1 .. 3 : (Escape(c) \o s)[i] = Escape(c)[i]
      BY <1>2, <2>1
    <3>2. \A i \in 1 .. 3 : (Escape(d) \o t)[i] = Escape(d)[i]
      BY <1>2, <2>1
    <3>3. \A i \in 1 .. 3 : Escape(c)[i] = Escape(d)[i]
      BY <3>1, <3>2
    <3> QED BY <2>2, <3>3, Zenon
  <2>4. Hex[c][1] = Hex[d][1] /\ Hex[c][2] = Hex[d][2]
    BY <1>6, <2>3, EscapeFacts
  <2> QED BY <1>6, <2>4, HexDistinct
<1> QED BY <1>5, <1>6

LEMMA IdentifierParts ==
  ASSUME NEW name, IsSeq(name)
  PROVE  Parts([i \in DOMAIN name |-> Escape(name[i])])
<1> DEFINE parts == [i \in DOMAIN name |-> Escape(name[i])]
<1>1. Len(name) \in Nat /\ DOMAIN name = 1 .. Len(name)
  BY SeqFacts
<1>2. IsSeq(parts) /\ Len(parts) = Len(name)
  <2>1. DOMAIN parts = 1 .. Len(name) /\ parts = [i \in 1 .. Len(name) |-> parts[i]]
    BY <1>1
  <2> HIDE DEF parts
  <2> QED BY <1>1, <2>1, SeqMade
<1>3. \A i \in 1 .. Len(name) : IsSeq(parts[i])
  BY <1>1, EscapeFacts
<1> QED BY <1>2, <1>3 DEF Parts

LEMMA IdentifierSeq ==
  ASSUME NEW name, IsSeq(name)
  PROVE  IsSeq(FilenameIdentifier(name))
<1> DEFINE S == { FilenameIdentifier(name) } \cup { s : s \in {} }
<1>1. PICK g : /\ Joins([i \in DOMAIN name |-> Escape(name[i])], g)
               /\ FilenameIdentifier(name) = g[Len([i \in DOMAIN name |-> Escape(name[i])])]
  BY IdentifierParts, FlattenIs DEF FilenameIdentifier
<1>2. Len([i \in DOMAIN name |-> Escape(name[i])]) \in 0 .. Len([i \in DOMAIN name |-> Escape(name[i])])
  BY IdentifierParts, SeqFacts DEF Parts
<1> QED BY <1>1, <1>2, IdentifierParts, JoinsSeq

\* The identifier of a name that is not empty begins with what stands for its
\* first character.
LEMMA IdentifierFirst ==
  ASSUME NEW c, NEW rest, IsSeq(rest)
  PROVE  FilenameIdentifier(<<c>> \o rest) = Escape(c) \o FilenameIdentifier(rest)
<1> DEFINE name == <<c>> \o rest
           n == Len(rest)
           parts == [i \in DOMAIN name |-> Escape(name[i])]
           others == [i \in DOMAIN rest |-> Escape(rest[i])]
<1>1. n \in Nat /\ DOMAIN rest = 1 .. n
  BY SeqFacts
<1>2. /\ IsSeq(name) /\ Len(name) = n + 1
      /\ name[1] = c
      /\ \A i \in 1 .. n : name[i + 1] = rest[i]
  BY <1>1, ConsFacts
<1>3. DOMAIN name = 1 .. n + 1
  BY <1>2, SeqFacts
<1> HIDE DEF name
<1>4. IsSeq(others) /\ Len(others) = n /\ \A i \in 1 .. n : others[i] = Escape(rest[i])
  <2>1. DOMAIN others = 1 .. n /\ others = [i \in 1 .. n |-> others[i]]
    BY <1>1
  <2>2. \A i \in 1 .. n : others[i] = Escape(rest[i])
    BY <1>1
  <2> HIDE DEF others
  <2> QED BY <1>1, <2>1, <2>2, SeqMade
<1>5. IsSeq(parts) /\ Len(parts) = n + 1 /\ \A i \in 1 .. n + 1 : parts[i] = Escape(name[i])
  <2>1. DOMAIN parts = 1 .. n + 1 /\ parts = [i \in 1 .. n + 1 |-> parts[i]] /\ n + 1 \in Nat
    BY <1>1, <1>3
  <2>2. \A i \in 1 .. n + 1 : parts[i] = Escape(name[i])
    BY <1>3
  <2> HIDE DEF parts
  <2> QED BY <2>1, <2>2, SeqMade
<1> HIDE DEF others, parts
<1>6. parts = <<Escape(c)>> \o others
  <2> DEFINE whole == <<Escape(c)>> \o others
  <2>1. /\ IsSeq(whole) /\ Len(whole) = n + 1
        /\ whole[1] = Escape(c)
        /\ \A i \in 1 .. n : whole[i + 1] = others[i]
    BY <1>4, ConsFacts
  <2> HIDE DEF whole, n
  <2>2. ASSUME NEW i \in 1 .. n + 1 PROVE parts[i] = whole[i]
    <3>1. CASE i = 1
      BY <1>2, <1>5, <2>1, <3>1
    <3>2. CASE i # 1
      <4>1. PICK j \in 1 .. n : i = j + 1
        <5>1. i - 1 \in 1 .. n /\ i = i - 1 + 1
          BY <1>1, <3>2
        <5> QED BY <5>1
      <4> QED BY <1>2, <1>4, <1>5, <2>1, <4>1
    <3> QED BY <3>1, <3>2
  <2>3. parts = whole
    BY <1>5, <2>1, <2>2, SeqSame
  <2> QED BY <2>3 DEF whole
<1>7. Parts(others)
  BY IdentifierParts DEF others
<1> QED BY <1>6, <1>7, EscapeFacts, FlattenFirst DEF FilenameIdentifier, name, parts, others

\* A sequence that is not empty is its first element and the others.
LEMMA FirstAndRest ==
  ASSUME NEW s, IsSeq(s), NEW n \in Nat, Len(s) = n + 1
  PROVE  \E c, rest : IsSeq(rest) /\ Len(rest) = n /\ s = <<c>> \o rest
<1>1. s \in Seq(Range(s)) /\ s # << >>
  BY EmptyFacts DEF IsSeq
<1>2. /\ Tail(s) \in Seq(Range(s)) /\ Len(Tail(s)) = n
      /\ \A i \in 1 .. n : Tail(s)[i] = s[i + 1]
  BY <1>1, HeadTailProperties
<1>3. IsSeq(Tail(s))
  BY <1>2, SeqIs
<1> DEFINE rest == Tail(s)
           whole == <<s[1]>> \o rest
<1>4. IsSeq(rest) /\ Len(rest) = n /\ \A i \in 1 .. n : rest[i] = s[i + 1]
  BY <1>2, <1>3
<1> HIDE DEF rest
<1>5. /\ IsSeq(whole) /\ Len(whole) = n + 1
      /\ whole[1] = s[1]
      /\ \A i \in 1 .. n : whole[i + 1] = rest[i]
  BY <1>4, ConsFacts
<1> HIDE DEF whole
<1>6. ASSUME NEW i \in 1 .. n + 1 PROVE s[i] = whole[i]
  <2>1. CASE i = 1
    BY <1>5, <2>1
  <2>2. CASE i # 1
    <3>1. PICK j \in 1 .. n : i = j + 1
      <4>1. i - 1 \in 1 .. n /\ i = i - 1 + 1
        BY <2>2
      <4> QED BY <4>1
    <3> QED BY <1>4, <1>5, <3>1
  <2> QED BY <2>1, <2>2
<1>7. s = whole
  BY <1>5, <1>6, SeqSame
<1> QED BY <1>4, <1>7 DEF whole

LEMMA NotEmpty ==
  ASSUME NEW s, IsSeq(s), Len(s) # 0
  PROVE  \E c, rest : IsSeq(rest) /\ s = Cons(c, rest)
<1> DEFINE n == Len(s) - 1
<1>1. n \in Nat /\ Len(s) = n + 1
  BY SeqFacts
<1> HIDE DEF n
<1>2. \E c, rest : IsSeq(rest) /\ Len(rest) = n /\ s = <<c>> \o rest
  BY <1>1, FirstAndRest
<1>3. \E c, rest : IsSeq(rest) /\ s = <<c>> \o rest
  BY <1>2, Zenon
<1> QED BY <1>3, Zenon DEF Cons

\* FilenameIdentifier maps no two names to one.
LEMMA IdentifierDistinct ==
  ASSUME NEW x, IsSeq(x), NEW y, IsSeq(y), FilenameIdentifier(x) = FilenameIdentifier(y)
  PROVE  x = y
<1> DEFINE Told(n) == \A s, t : IsSeq(s) /\ IsSeq(t) /\ Len(s) = n
                                  /\ FilenameIdentifier(s) = FilenameIdentifier(t) => s = t
           S == { n \in Nat : Told(n) }
<1>1. ASSUME NEW c, NEW rest, IsSeq(rest) PROVE Len(Escape(c) \o FilenameIdentifier(rest)) # 0
  <2>1. /\ IsSeq(Escape(c)) /\ IsSeq(FilenameIdentifier(rest))
        /\ Len(Escape(c) \o FilenameIdentifier(rest)) = Len(Escape(c)) + Len(FilenameIdentifier(rest))
    BY <1>1, EscapeFacts, IdentifierSeq, ConcatFacts
  <2>2. Len(Escape(c)) \in Nat /\ Len(FilenameIdentifier(rest)) \in Nat
    BY <2>1, SeqFacts
  <2>3. Len(Escape(c)) # 0
    <3>1. Len(Escape(c)) \in {1, 3}
      BY EscapeFacts
    <3> QED BY <3>1
  <2> QED BY <2>1, <2>2, <2>3
<1>2. \A s : IsSeq(s) /\ Len(s) = 0 => s = << >>
  BY EmptyFacts
<1>3. FilenameIdentifier(<< >>) = << >>
  <2> DEFINE parts == [i \in DOMAIN << >> |-> Escape(<< >>[i])]
  <2>1. DOMAIN << >> = 1 .. 0
    BY EmptyFacts, SeqFacts
  <2>2. Parts(parts)
    BY EmptyFacts, IdentifierParts
  <2>3. DOMAIN parts = 1 .. Len(parts) /\ Len(parts) \in Nat
    BY <2>2, SeqFacts DEF Parts
  <2>4. Len(parts) = 0
    BY <2>1, <2>3
  <2> HIDE DEF parts
  <2>5. FlattenSeq(parts) = parts /\ parts = << >>
    BY <2>2, <2>4, EmptyFacts DEF FlattenSeq, Parts
  <2> QED BY <2>5 DEF FilenameIdentifier, parts
<1>4. ASSUME NEW s, IsSeq(s), FilenameIdentifier(s) = << >> PROVE s = << >>
  <2>1. CASE Len(s) = 0
    BY <1>2, <1>4, <2>1
  <2>2. CASE Len(s) # 0
    <3>2. PICK c, rest : IsSeq(rest) /\ s = <<c>> \o rest
      BY <1>4, <2>2, NotEmpty, Zenon DEF Cons
    <3>3. FilenameIdentifier(s) = Escape(c) \o FilenameIdentifier(rest)
      BY <3>2, IdentifierFirst
    <3> QED BY <1>1, <1>4, <3>2, <3>3, EmptyFacts
  <2> QED BY <2>1, <2>2
<1>5. Told(0)
  <2> SUFFICES ASSUME NEW s, NEW t, IsSeq(s), IsSeq(t), Len(s) = 0,
                      FilenameIdentifier(s) = FilenameIdentifier(t)
               PROVE  s = t
    OBVIOUS
  <2>1. s = << >>
    BY <1>2
  <2>2. t = << >>
    BY <1>3, <1>4, <2>1
  <2> QED BY <2>1, <2>2
<1>6. ASSUME NEW n \in Nat, Told(n) PROVE Told(n + 1)
  <2> SUFFICES ASSUME NEW s, NEW t, IsSeq(s), IsSeq(t), Len(s) = n + 1,
                      FilenameIdentifier(s) = FilenameIdentifier(t)
               PROVE  s = t
    OBVIOUS
  <2>1. PICK c, rest : IsSeq(rest) /\ Len(rest) = n /\ s = <<c>> \o rest
    BY FirstAndRest
  <2>2. FilenameIdentifier(s) = Escape(c) \o FilenameIdentifier(rest)
    BY <2>1, IdentifierFirst
  <2>3. t # << >>
    BY <1>1, <1>3, <2>1, <2>2, EmptyFacts
  <2>4. Len(t) # 0
    BY <1>2, <2>3, Zenon
  <2>5. PICK d, more : IsSeq(more) /\ t = <<d>> \o more
    BY <2>4, NotEmpty, Zenon DEF Cons
  <2>6. FilenameIdentifier(t) = Escape(d) \o FilenameIdentifier(more)
    BY <2>5, IdentifierFirst
  <2>7. IsSeq(FilenameIdentifier(rest)) /\ IsSeq(FilenameIdentifier(more))
    BY <2>1, <2>5, IdentifierSeq
  <2>8. c = d
    BY <2>2, <2>6, <2>7, EscapeDistinct
  <2>9. FilenameIdentifier(rest) = FilenameIdentifier(more)
    BY <2>2, <2>6, <2>7, <2>8, EscapeFacts, ConcatCancel
  <2>10. rest = more
    BY <1>6, <2>1, <2>5, <2>9
  <2> QED BY <2>1, <2>5, <2>8, <2>10
<1>7. \A n \in Nat : Told(n)
  <2>1. 0 \in S
    BY <1>5
  <2>2. \A n \in Nat : n \in S => n + 1 \in S
    <3> HIDE DEF Told
    <3> QED BY <1>6
  <2> HIDE DEF S
  <2>3. Nat \subseteq S
    BY <2>1, <2>2, NatInd
  <2> HIDE DEF Told
  <2> QED BY <2>3 DEF S
<1>8. Len(x) \in Nat
  BY SeqFacts
<1> QED BY <1>7, <1>8

-----------------------------------------------------------------------------
(***************************************************************************)
(* How a compiler that has read s goes on through a piece b: g[k] is the   *)
(* list of the open namespaces after k tokens of it.                       *)
(***************************************************************************)
Run(b, s, g) ==
  /\ g[0] = s
  /\ \A i \in 1 .. Len(b) : g[i] = Braces(g[i - 1], b[i])

\* It ends in t.
Leads(b, s, t) == IsSeq(b) /\ \A g : Run(b, s, g) => g[Len(b)] = t

Quiet(t) == t.tok \notin {"open", "close"}

Flat(b) == IsSeq(b) /\ \A t \in Range(b) : Quiet(t)

LEMMA RunNext ==
  ASSUME NEW b, NEW s, NEW g, Run(b, s, g), NEW k \in Nat, k + 1 \in 1 .. Len(b)
  PROVE  g[k + 1] = Braces(g[k], b[k + 1])
<1> DEFINE i == k + 1
<1>1. k = i - 1 /\ i \in 1 .. Len(b)
  OBVIOUS
<1> HIDE DEF i
<1>2. g[i] = Braces(g[k], b[i])
  BY <1>1, Zenon DEF Run
<1> QED BY <1>2 DEF i

\* A run through two pieces is one through the first, then one through the second.
LEMMA RunSplit ==
  ASSUME NEW a, IsSeq(a), NEW b, IsSeq(b), NEW s, NEW g, Run(a \o b, s, g)
  PROVE  /\ Run(a, s, g)
         /\ Run(b, g[Len(a)], [k \in 0 .. Len(b) |-> g[Len(a) + k]])
<1> DEFINE m == Len(a)
           n == Len(b)
           h == [k \in 0 .. n |-> g[m + k]]
<1>1. m \in Nat /\ n \in Nat /\ Len(a \o b) = m + n
  BY SeqFacts, ConcatFacts
<1>2. ASSUME NEW i \in 1 .. m PROVE g[i] = Braces(g[i - 1], a[i])
  <2>1. i \in 1 .. Len(a \o b)
    BY <1>1
  <2>2. (a \o b)[i] = a[i]
    BY ConcatFacts
  <2> QED BY <2>1, <2>2 DEF Run
<1>3. ASSUME NEW i \in 1 .. n PROVE h[i] = Braces(h[i - 1], b[i])
  <2>1. i - 1 \in 0 .. n /\ i \in 0 .. n /\ m + (i - 1) \in Nat
    BY <1>1
  <2>2. m + (i - 1) + 1 = m + i /\ m + i \in 1 .. Len(a \o b)
    BY <1>1
  <2>3. (a \o b)[m + i] = b[i]
    BY ConcatBehind
  <2> DEFINE j == m + (i - 1)
  <2> HIDE DEF n
  <2>4. h[i] = g[m + i] /\ h[i - 1] = g[j]
    BY <2>1
  <2>5. j \in Nat /\ j + 1 = m + i
    BY <2>1, <2>2
  <2> HIDE DEF j, h
  <2>6. g[j + 1] = Braces(g[j], (a \o b)[j + 1])
    BY <2>2, <2>5, RunNext, ZenonT(60)
  <2> QED BY <2>3, <2>4, <2>5, <2>6
<1>4. h[0] = g[m]
  <2>1. 0 \in 0 .. n /\ m + 0 = m
    BY <1>1
  <2> QED BY <2>1
<1>5. Run(a, s, g)
  BY <1>2 DEF Run
<1>6. Run(b, g[m], h)
  <2> HIDE DEF h
  <2> QED BY <1>3, <1>4 DEF Run
<1> QED BY <1>5, <1>6

LEMMA LeadsConcat ==
  ASSUME NEW a, NEW b, NEW s, NEW t, NEW u, Leads(a, s, t), Leads(b, t, u)
  PROVE  Leads(a \o b, s, u)
<1>1. IsSeq(a) /\ IsSeq(b)
  BY DEF Leads
<1>2. IsSeq(a \o b) /\ Len(a \o b) = Len(a) + Len(b)
  BY <1>1, ConcatFacts
<1>3. ASSUME NEW g, Run(a \o b, s, g) PROVE g[Len(a \o b)] = u
  <2> DEFINE h == [k \in 0 .. Len(b) |-> g[Len(a) + k]]
  <2>1. Run(a, s, g) /\ Run(b, g[Len(a)], h)
    BY <1>1, <1>3, RunSplit
  <2>2. g[Len(a)] = t
    BY <2>1 DEF Leads
  <2>3. h[Len(b)] = u
    <3> HIDE DEF h
    <3> QED BY <2>1, <2>2 DEF Leads
  <2>4. Len(b) \in 0 .. Len(b)
    BY <1>1, SeqFacts
  <2> QED BY <1>2, <2>3, <2>4
<1> QED BY <1>2, <1>3 DEF Leads

LEMMA LeadsNowhere ==
  ASSUME NEW s
  PROVE  Leads(<< >>, s, s)
BY EmptyFacts DEF Leads, Run

LEMMA LeadsOne ==
  ASSUME NEW x, NEW s
  PROVE  Leads(<<x>>, s, Braces(s, x))
<1> DEFINE one == <<x>>
<1>1. IsSeq(one) /\ Len(one) = 1 /\ one[1] = x
  BY OneFacts
<1> HIDE DEF one
<1>2. ASSUME NEW g, Run(one, s, g) PROVE g[1] = Braces(s, x)
  <2>1. 1 \in 1 .. 1 /\ 1 - 1 = 0
    OBVIOUS
  <2> QED BY <1>1, <1>2, <2>1 DEF Run
<1>3. Leads(one, s, Braces(s, x))
  BY <1>1, <1>2 DEF Leads
<1> QED BY <1>3 DEF one

LEMMA LeadsFlatten ==
  ASSUME NEW seqs, Parts(seqs), NEW s, \A i \in 1 .. Len(seqs) : Leads(seqs[i], s, s)
  PROVE  Leads(FlattenSeq(seqs), s, s)
<1>1. PICK g : Joins(seqs, g) /\ FlattenSeq(seqs) = g[Len(seqs)]
  BY FlattenIs
<1>2. Len(seqs) \in Nat
  BY SeqFacts DEF Parts
<1> DEFINE S == { k \in Nat : k <= Len(seqs) => Leads(g[k], s, s) }
<1>3. 0 \in S
  BY <1>1, LeadsNowhere DEF Joins
<1>4. ASSUME NEW k \in Nat, k \in S PROVE k + 1 \in S
  <2> SUFFICES ASSUME k + 1 <= Len(seqs) PROVE Leads(g[k + 1], s, s)
    OBVIOUS
  <2>1. k + 1 \in 1 .. Len(seqs) /\ Leads(g[k], s, s)
    BY <1>2, <1>4
  <2>2. g[k + 1] = g[k] \o seqs[k + 1] /\ Leads(seqs[k + 1], s, s)
    BY <1>1, <2>1, JoinsNext
  <2> QED BY <2>1, <2>2, LeadsConcat
<1> HIDE DEF S
<1>5. Len(seqs) \in S
  BY <1>2, <1>3, <1>4, NatInd
<1> QED BY <1>1, <1>2, <1>5 DEF S

\* Nothing is opened or closed where there are no braces.
LEMMA RunFlat ==
  ASSUME NEW b, Flat(b), NEW s, NEW g, Run(b, s, g), NEW n \in 0 .. Len(b)
  PROVE  g[n] = s
<1> DEFINE S == { k \in Nat : k <= Len(b) => g[k] = s }
<1>1. Len(b) \in Nat /\ \A i \in 1 .. Len(b) : b[i] \in Range(b)
  BY SeqFacts DEF Flat
<1>2. 0 \in S
  BY DEF Run
<1>3. ASSUME NEW k \in Nat, k \in S PROVE k + 1 \in S
  <2> SUFFICES ASSUME k + 1 <= Len(b) PROVE g[k + 1] = s
    OBVIOUS
  <2>1. k + 1 \in 1 .. Len(b) /\ g[k] = s
    BY <1>1, <1>3
  <2>2. g[k + 1] = Braces(s, b[k + 1])
    BY <2>1, RunNext
  <2>3. Quiet(b[k + 1])
    BY <1>1, <2>1 DEF Flat
  <2> DEFINE t == b[k + 1]
  <2> HIDE DEF t
  <2>4. \A x : Quiet(x) => Braces(s, x) = s
    BY DEF Quiet, Braces
  <2> QED BY <2>2, <2>3, <2>4
<1> HIDE DEF S
<1>4. n \in S
  BY <1>1, <1>2, <1>3, NatInd
<1> QED BY <1>1, <1>4 DEF S

LEMMA LeadsFlat ==
  ASSUME NEW b, Flat(b), NEW s
  PROVE  Leads(b, s, s)
<1>1. IsSeq(b)
  BY DEF Flat
<1>2. Len(b) \in 0 .. Len(b)
  BY <1>1, SeqFacts
<1> QED BY <1>1, <1>2, RunFlat DEF Leads

\* A brace closes what was opened last.
LEMMA LeadsClose ==
  ASSUME NEW name, NEW s, IsSeq(s)
  PROVE  Leads(<<Close>>, Append(s, name), s)
<1>1. Append(s, name) # << >> /\ Front(Append(s, name)) = s
  <2> DEFINE S == Range(s) \cup {name}
  <2>1. s \in Seq(S) /\ name \in S
    BY SeqMonotonic DEF IsSeq
  <2> HIDE DEF S
  <2>2. /\ Append(s, name) \in Seq(S) /\ Append(s, name) # << >>
        /\ Len(Append(s, name)) = Len(s) + 1 /\ Len(s) \in Nat
        /\ \A i \in 1 .. Len(s) : Append(s, name)[i] = s[i]
    BY <2>1
  <2> DEFINE long == Append(s, name)
             short == SubSeq(long, 1, Len(long) - 1)
  <2> HIDE DEF long
  <2>3. Len(long) - 1 = Len(s) /\ \A i \in 1 .. Len(s) : long[i] = s[i] /\ s[i] \in S
    BY <2>1, <2>2 DEF long
  <2>4. /\ SubSeq(long, 1, Len(s)) \in Seq(S)
        /\ Len(SubSeq(long, 1, Len(s))) = Len(s)
        /\ \A i \in 1 .. Len(s) : SubSeq(long, 1, Len(s))[i] = s[i]
    BY <2>1, <2>2, <2>3
  <2>5. SubSeq(long, 1, Len(s)) = s
    BY <2>1, <2>4, SeqEqual
  <2> QED BY <2>2, <2>3, <2>5 DEF Front, long
<1>2. Braces(Append(s, name), Close) = s
  BY <1>1 DEF Braces, Close
<1> QED BY <1>2, LeadsOne

\* A namespace around what is balanced.
LEMMA LeadsAround ==
  ASSUME NEW name, NEW b, NEW s, IsSeq(s), Leads(b, Append(s, name), Append(s, name))
  PROVE  Leads(<<Open(name)>> \o b \o <<Close>>, s, s)
<1>1. Leads(<<Open(name)>>, s, Append(s, name))
  <2>1. Braces(s, Open(name)) = Append(s, name)
    BY DEF Braces, Open
  <2> QED BY <2>1, LeadsOne
<1>2. Leads(<<Open(name)>> \o b, s, Append(s, name))
  BY <1>1, LeadsConcat
<1> QED BY <1>2, LeadsClose, LeadsConcat

-----------------------------------------------------------------------------
(***************************************************************************)
(* The namespaces of a package are opened and closed one by one.           *)
(***************************************************************************)
LEMMA PrefixFacts ==
  ASSUME NEW p, IsSeq(p), NEW k \in Nat, k + 1 <= Len(p)
  PROVE  /\ SubSeq(p, 1, k + 1) = Append(SubSeq(p, 1, k), p[k + 1])
         /\ SubSeq(p, 1, k + 1) # << >>
         /\ Front(SubSeq(p, 1, k + 1)) = SubSeq(p, 1, k)
<1> DEFINE S == Range(p)
           short == SubSeq(p, 1, k)
           long == SubSeq(p, 1, k + 1)
<1>1. Len(p) \in Nat /\ \A i \in 1 .. Len(p) : p[i] \in S
  BY SeqFacts
<1> HIDE DEF S
<1>2. short \in Seq(S) /\ Len(short) = k /\ \A i \in 1 .. k : short[i] = p[i]
  BY <1>1
<1>3. long \in Seq(S) /\ Len(long) = k + 1 /\ \A i \in 1 .. k + 1 : long[i] = p[i]
  BY <1>1
<1>4. SubSeq(long, 1, k) \in Seq(S) /\ Len(SubSeq(long, 1, k)) = k
      /\ \A i \in 1 .. k : SubSeq(long, 1, k)[i] = long[i]
  BY <1>3
<1> HIDE DEF short, long
<1>5. SubSeq(long, 1, k) = short
  <2>1. \A i \in 1 .. k : SubSeq(long, 1, k)[i] = short[i]
    BY <1>2, <1>3, <1>4
  <2> QED BY <1>2, <1>4, <2>1, SeqEqual
<1>6. Front(long) = short
  <2>1. Len(long) - 1 = k
    BY <1>3
  <2> QED BY <1>5, <2>1 DEF Front
<1>7. long = Append(short, p[k + 1])
  <2>1. p[k + 1] \in S /\ k + 1 \in 1 .. k + 1
    BY <1>1
  <2>2. /\ Append(short, p[k + 1]) \in Seq(S)
        /\ Len(Append(short, p[k + 1])) = k + 1
        /\ \A i \in 1 .. k : Append(short, p[k + 1])[i] = short[i]
        /\ Append(short, p[k + 1])[k + 1] = p[k + 1]
    BY <1>2, <2>1
  <2>3. ASSUME NEW i \in 1 .. k + 1 PROVE long[i] = Append(short, p[k + 1])[i]
    <3>1. CASE i = k + 1
      BY <1>3, <2>2, <3>1
    <3>2. CASE i # k + 1
      <4>1. i \in 1 .. k
        BY <3>2
      <4> QED BY <1>2, <1>3, <2>2, <4>1
    <3> QED BY <3>1, <3>2
  <2> QED BY <1>3, <2>2, <2>3, SeqEqual
<1>8. long # << >>
  BY <1>3
<1> QED BY <1>6, <1>7, <1>8 DEF short, long

LEMMA PrefixEnds ==
  ASSUME NEW p, IsSeq(p)
  PROVE  SubSeq(p, 1, 0) = << >> /\ SubSeq(p, 1, Len(p)) = p
<1>1. Len(p) \in Nat /\ p \in Seq(Range(p)) /\ \A i \in 1 .. Len(p) : p[i] \in Range(p)
  BY SeqFacts DEF IsSeq
<1> DEFINE S == Range(p)
<1> HIDE DEF S
<1>2. /\ SubSeq(p, 1, Len(p)) \in Seq(S) /\ Len(SubSeq(p, 1, Len(p))) = Len(p)
      /\ \A i \in 1 .. Len(p) : SubSeq(p, 1, Len(p))[i] = p[i]
  BY <1>1 DEF S
<1> QED BY <1>1, <1>2, SubSeqEmpty, SeqEqual DEF S

LEMMA OpensAll ==
  ASSUME NEW p, IsSeq(p)
  PROVE  Leads([i \in DOMAIN p |-> Open(p[i])], << >>, p)
<1> DEFINE b == [i \in DOMAIN p |-> Open(p[i])]
           n == Len(p)
<1>1. n \in Nat /\ DOMAIN p = 1 .. n
  BY SeqFacts
<1>2. IsSeq(b) /\ Len(b) = n /\ \A i \in 1 .. n : b[i] = Open(p[i])
  <2>1. DOMAIN b = 1 .. n /\ b = [i \in 1 .. n |-> b[i]] /\ \A i \in 1 .. n : b[i] = Open(p[i])
    BY <1>1
  <2> HIDE DEF b
  <2> QED BY <1>1, <2>1, SeqMade
<1> HIDE DEF b
<1>3. ASSUME NEW g, Run(b, << >>, g) PROVE g[n] = p
  <2> DEFINE S == { k \in Nat : k <= n => g[k] = SubSeq(p, 1, k) }
  <2>1. 0 \in S
    BY <1>3, PrefixEnds DEF Run
  <2>2. ASSUME NEW k \in Nat, k \in S PROVE k + 1 \in S
    <3> SUFFICES ASSUME k + 1 <= n PROVE g[k + 1] = SubSeq(p, 1, k + 1)
      OBVIOUS
    <3>1. k + 1 \in 1 .. n /\ g[k] = SubSeq(p, 1, k)
      BY <1>1, <2>2
    <3>2. g[k + 1] = Braces(g[k], Open(p[k + 1]))
      BY <1>2, <1>3, <3>1, RunNext
    <3>3. \A s, name : Braces(s, Open(name)) = Append(s, name)
      BY DEF Braces, Open
    <3>4. SubSeq(p, 1, k + 1) = Append(SubSeq(p, 1, k), p[k + 1])
      BY PrefixFacts
    <3> QED BY <3>1, <3>2, <3>3, <3>4, Zenon
  <2> HIDE DEF S
  <2>3. n \in S
    BY <1>1, <2>1, <2>2, NatInd
  <2>4. g[n] = SubSeq(p, 1, n)
    BY <1>1, <2>3 DEF S
  <2> QED BY <2>4, PrefixEnds
<1>4. Leads(b, << >>, p)
  BY <1>2, <1>3 DEF Leads
<1> QED BY <1>4 DEF b

LEMMA ClosesAll ==
  ASSUME NEW p, IsSeq(p)
  PROVE  Leads([i \in DOMAIN p |-> Close], p, << >>)
<1> DEFINE b == [i \in DOMAIN p |-> Close]
           n == Len(p)
<1>1. n \in Nat /\ DOMAIN p = 1 .. n
  BY SeqFacts
<1>2. IsSeq(b) /\ Len(b) = n /\ \A i \in 1 .. n : b[i] = Close
  <2>1. DOMAIN b = 1 .. n /\ b = [i \in 1 .. n |-> b[i]] /\ \A i \in 1 .. n : b[i] = Close
    BY <1>1
  <2> HIDE DEF b
  <2> QED BY <1>1, <2>1, SeqMade
<1> HIDE DEF b
<1>3. ASSUME NEW g, Run(b, p, g) PROVE g[n] = << >>
  <2> DEFINE S == { k \in Nat : k <= n => g[k] = SubSeq(p, 1, n - k) }
  <2>1. 0 \in S
    <3>1. n - 0 = n
      BY <1>1
    <3> QED BY <1>3, <3>1, PrefixEnds DEF Run
  <2>2. ASSUME NEW k \in Nat, k \in S PROVE k + 1 \in S
    <3> SUFFICES ASSUME k + 1 <= n PROVE g[k + 1] = SubSeq(p, 1, n - (k + 1))
      OBVIOUS
    <3>1. k + 1 \in 1 .. n /\ g[k] = SubSeq(p, 1, n - k)
      BY <1>1, <2>2
    <3>2. g[k + 1] = Braces(g[k], Close)
      BY <1>2, <1>3, <3>1, RunNext
    <3> DEFINE l == n - (k + 1)
    <3>3. l \in Nat /\ l + 1 = n - k /\ l + 1 <= n
      BY <1>1
    <3> HIDE DEF l
    <3>4. g[k] # << >> /\ Front(g[k]) = SubSeq(p, 1, l)
      BY <3>1, <3>3, PrefixFacts
    <3>5. \A s : s # << >> => Braces(s, Close) = Front(s)
      BY DEF Braces, Close
    <3> QED BY <3>2, <3>4, <3>5 DEF l
  <2> HIDE DEF S
  <2>3. n \in S
    BY <1>1, <2>1, <2>2, NatInd
  <2>4. g[n] = SubSeq(p, 1, 0)
    <3>1. n - n = 0 /\ n <= n
      BY <1>1
    <3> QED BY <2>3, <3>1 DEF S
  <2> QED BY <2>4, PrefixEnds
<1>4. Leads(b, p, << >>)
  BY <1>2, <1>3 DEF Leads
<1> QED BY <1>4 DEF b

-----------------------------------------------------------------------------
(***************************************************************************)
(* What the functions of the generator print has no braces but those of    *)
(* its namespaces.                                                         *)
(***************************************************************************)
LEMMA FlatNone == Flat(<< >>)
BY EmptyFacts DEF Flat

LEMMA FlatOne ==
  ASSUME NEW x, Quiet(x)
  PROVE  Flat(<<x>>)
BY OneFacts DEF Flat

LEMMA FlatConcat ==
  ASSUME NEW a, Flat(a), NEW b, Flat(b)
  PROVE  Flat(a \o b)
<1>1. IsSeq(a) /\ IsSeq(b)
  BY DEF Flat
<1>2. IsSeq(a \o b) /\ Range(a \o b) = Range(a) \cup Range(b)
  BY <1>1, ConcatFacts, ConcatRange
<1> QED BY <1>2 DEF Flat

LEMMA FlatTuples ==
  ASSUME NEW x, NEW y, NEW z, NEW v, Quiet(x), Quiet(y), Quiet(z), Quiet(v)
  PROVE  Flat(<<x, y>>) /\ Flat(<<x, y, z>>) /\ Flat(<<x, y, z, v>>)
<1> DEFINE S == {x, y, z, v}
<1>1. <<x, y>> \in Seq(S) /\ <<x, y, z>> \in Seq(S) /\ <<x, y, z, v>> \in Seq(S)
  OBVIOUS
<1>2. \A t \in S : Quiet(t)
  OBVIOUS
<1> HIDE DEF S
<1>3. \A b : b \in Seq(S) => Flat(b)
  BY <1>2, SeqIs DEF Flat
<1> QED BY <1>1, <1>3

LEMMA FlatFlatten ==
  ASSUME NEW seqs, IsSeq(seqs), \A i \in 1 .. Len(seqs) : Flat(seqs[i])
  PROVE  Flat(FlattenSeq(seqs))
<1>1. Parts(seqs)
  BY DEF Parts, Flat
<1>2. IsSeq(FlattenSeq(seqs)) /\ Range(FlattenSeq(seqs)) = UNION { Range(seqs[i]) : i \in 1 .. Len(seqs) }
  BY <1>1, FlattenIsSeq, FlattenRange
<1> QED BY <1>2 DEF Flat

LEMMA QuietTokens ==
  /\ \A class, name, types : Quiet(Decl(class, name, types))
  /\ \A class, name : Quiet(Alias(class, name))
  /\ \A name : Quiet(Var(name))
  /\ \A id : Quiet(Guard(id))
  /\ \A class, name, types, aliases, row, uses : Quiet(Def(class, name, types, aliases, row, uses))
  /\ \A s : Quiet(PrintCallMethod(s))
BY DEF Quiet, Decl, Alias, Var, Guard, Def, PrintCallMethod

LEMMA ClientMethodFlat ==
  ASSUME NEW m \in MethodDescriptor, NEW i
  PROVE  Flat(PrintHeaderClientMethodPublic(m)) /\ Flat(PrintSourceClientMethod(m, i))
<1>1. m.client_streaming \in BOOLEAN /\ m.server_streaming \in BOOLEAN
  BY DEF MethodDescriptor
<1>2. CASE NoStreaming(m)
  BY <1>2, QuietTokens, FlatTuples DEF PrintHeaderClientMethodPublic, PrintSourceClientMethod, NoStreaming, ClientOnlyStreaming, ServerOnlyStreaming, BidiStreaming
<1>3. CASE ClientOnlyStreaming(m)
  BY <1>3, QuietTokens, FlatTuples DEF PrintHeaderClientMethodPublic, PrintSourceClientMethod, NoStreaming, ClientOnlyStreaming, ServerOnlyStreaming, BidiStreaming
<1>4. CASE ServerOnlyStreaming(m)
  BY <1>4, QuietTokens, FlatTuples DEF PrintHeaderClientMethodPublic, PrintSourceClientMethod, NoStreaming, ClientOnlyStreaming, ServerOnlyStreaming, BidiStreaming
<1>5. CASE BidiStreaming(m)
  BY <1>5, QuietTokens, FlatTuples DEF PrintHeaderClientMethodPublic, PrintSourceClientMethod, NoStreaming, ClientOnlyStreaming, ServerOnlyStreaming, BidiStreaming
<1> QED BY <1>1, <1>2, <1>3, <1>4, <1>5 DEF NoStreaming, ClientOnlyStreaming, ServerOnlyStreaming, BidiStreaming

LEMMA ServerMethodFlat ==
  ASSUME NEW m
  PROVE  Flat(PrintHeaderServiceMethod(m)) /\ Flat(PrintSourceServerMethod(m))
<1>1. Flat(PrintSourceServerMethod(m))
  BY QuietTokens, FlatTuples DEF PrintSourceServerMethod
<1>2. Flat(PrintHeaderServiceMethod(m))
  <2>1. Flat(<< Alias("Service", Handle(m)) >>)
    BY QuietTokens, FlatOne
  <2>2. Flat(IF m.client_streaming
               THEN << Alias("Service", Own(m, "Reader")), Alias("Service", Own(m, "ReaderSptr")) >>
               ELSE << >>)
    BY QuietTokens, FlatTuples, FlatNone
  <2>3. Flat(<< Decl("Service", <<"", m.name>>, Handler(m)), Decl("Service", <<"", m.name>>, Entry(m)) >>)
    BY QuietTokens, FlatTuples
  <2> QED BY <2>1, <2>2, <2>3, FlatConcat DEF PrintHeaderServiceMethod
<1> QED BY <1>1, <1>2

\* What is printed for every element of a sequence.
LEMMA FlatEach ==
  ASSUME NEW seq, IsSeq(seq), NEW f, DOMAIN f = DOMAIN seq, f = [i \in DOMAIN seq |-> f[i]],
         \A i \in DOMAIN seq : Flat(f[i])
  PROVE  Flat(FlattenSeq(f))
<1>1. \A i \in DOMAIN seq : IsSeq(f[i])
  BY DEF Flat
<1>2. Parts(f) /\ Len(f) = Len(seq) /\ DOMAIN f = 1 .. Len(seq)
  BY <1>1, PartsMade
<1>3. IsSeq(f) /\ \A i \in 1 .. Len(f) : Flat(f[i])
  BY <1>2 DEF Parts
<1> QED BY <1>3, FlatFlatten

LEMMA MembersFlat ==
  ASSUME NEW class, NEW members, IsSeq(members)
  PROVE  Flat(DeclAll(class, members)) /\ Flat(DefAll(class, members))
<1> DEFINE d == [i \in DOMAIN members |-> << Decl(class, <<"", members[i][1]>>, members[i][2]) >>]
           f == [i \in DOMAIN members |->
                   << Def(class, <<"", members[i][1]>>, members[i][2], {}, 0, {}) >>]
<1>1. \A i \in DOMAIN members : Flat(d[i]) /\ Flat(f[i])
  BY QuietTokens, FlatOne
<1>2. /\ DOMAIN d = DOMAIN members /\ d = [i \in DOMAIN members |-> d[i]]
      /\ DOMAIN f = DOMAIN members /\ f = [i \in DOMAIN members |-> f[i]]
  OBVIOUS
<1>3. DeclAll(class, members) = FlattenSeq(d) /\ DefAll(class, members) = FlattenSeq(f)
  BY DEF DeclAll, DefAll, Each
<1> HIDE DEF d, f
<1> QED BY <1>1, <1>2, <1>3, FlatEach

LEMMA MembersAreSeqs == IsSeq(StubMembers) /\ IsSeq(ServiceMembers)
BY OneFacts, FourIsSeq DEF StubMembers, ServiceMembers

LEMMA ServiceFacts ==
  ASSUME NEW s \in ServiceDescriptor
  PROVE  /\ IsSeq(s.methods)
         /\ \A i \in DOMAIN s.methods : s.methods[i] \in MethodDescriptor
<1>1. s.methods \in Seq(MethodDescriptor)
  BY DEF ServiceDescriptor
<1>2. IsSeq(s.methods) /\ DOMAIN s.methods = 1 .. Len(s.methods)
  BY <1>1, SeqIs
<1> QED BY <1>1, <1>2, ElementOfSeq

LEMMA MethodsFlat ==
  ASSUME NEW s \in ServiceDescriptor
  PROVE  /\ Flat(Each(s.methods, PrintHeaderClientMethodPublic))
         /\ Flat(Each(s.methods, PrintHeaderServiceMethod))
         /\ Flat(FlattenSeq([i \in DOMAIN s.methods |-> PrintSourceClientMethod(s.methods[i], i)]))
         /\ Flat(Each(s.methods, PrintSourceServerMethod))
<1> DEFINE a == [i \in DOMAIN s.methods |-> PrintHeaderClientMethodPublic(s.methods[i])]
           b == [i \in DOMAIN s.methods |-> PrintHeaderServiceMethod(s.methods[i])]
           c == [i \in DOMAIN s.methods |-> PrintSourceClientMethod(s.methods[i], i)]
           d == [i \in DOMAIN s.methods |-> PrintSourceServerMethod(s.methods[i])]
<1>1. \A i \in DOMAIN s.methods : Flat(a[i]) /\ Flat(b[i]) /\ Flat(c[i]) /\ Flat(d[i])
  BY ServiceFacts, ClientMethodFlat, ServerMethodFlat
<1>2. /\ DOMAIN a = DOMAIN s.methods /\ a = [i \in DOMAIN s.methods |-> a[i]]
      /\ DOMAIN b = DOMAIN s.methods /\ b = [i \in DOMAIN s.methods |-> b[i]]
      /\ DOMAIN c = DOMAIN s.methods /\ c = [i \in DOMAIN s.methods |-> c[i]]
      /\ DOMAIN d = DOMAIN s.methods /\ d = [i \in DOMAIN s.methods |-> d[i]]
  OBVIOUS
<1>3. /\ Each(s.methods, PrintHeaderClientMethodPublic) = FlattenSeq(a)
      /\ Each(s.methods, PrintHeaderServiceMethod) = FlattenSeq(b)
      /\ Each(s.methods, PrintSourceServerMethod) = FlattenSeq(d)
  BY DEF Each
<1>4. IsSeq(s.methods)
  BY ServiceFacts
<1> HIDE DEF a, b, c, d
<1>5. Flat(FlattenSeq(a)) /\ Flat(FlattenSeq(b)) /\ Flat(FlattenSeq(c)) /\ Flat(FlattenSeq(d))
  BY <1>1, <1>2, <1>4, FlatEach
<1> QED BY <1>3, <1>5 DEF c

-----------------------------------------------------------------------------
(***************************************************************************)
(* A service: a namespace that is opened first and closed last.            *)
(***************************************************************************)
\* All of b is read in the namespaces v.
Within(b, w, v) ==
  IsSeq(b) /\ Len(b) # 0 /\ \A g : Run(b, w, g) => \A k \in 1 .. Len(b) : g[k] = v

LEMMA BracesFacts ==
  /\ \A w, name : Braces(w, Open(name)) = Append(w, name)
  /\ \A w, t : Quiet(t) => Braces(w, t) = w
BY DEF Braces, Open, Quiet

LEMMA WithinOpen ==
  ASSUME NEW name, NEW w
  PROVE  Within(<<Open(name)>>, w, Append(w, name))
<1> DEFINE one == <<Open(name)>>
<1>1. IsSeq(one) /\ Len(one) = 1 /\ one[1] = Open(name)
  BY OneFacts
<1> HIDE DEF one
<1>2. ASSUME NEW g, Run(one, w, g), NEW k \in 1 .. Len(one) PROVE g[k] = Append(w, name)
  <2>1. k = 1 /\ k - 1 = 0
    BY <1>1
  <2>2. g[k] = Braces(w, Open(name))
    BY <1>1, <1>2, <2>1 DEF Run
  <2> QED BY <2>2, BracesFacts
<1>3. Within(one, w, Append(w, name))
  BY <1>1, <1>2 DEF Within
<1> QED BY <1>3 DEF one

LEMMA WithinMore ==
  ASSUME NEW a, NEW w, NEW v, Within(a, w, v), NEW b, Flat(b)
  PROVE  Within(a \o b, w, v)
<1>1. IsSeq(a) /\ IsSeq(b)
  BY DEF Within, Flat
<1>2. IsSeq(a \o b) /\ Len(a \o b) = Len(a) + Len(b)
  BY <1>1, ConcatFacts
<1>3. Len(a) \in Nat \ {0} /\ Len(b) \in Nat
  BY <1>1, SeqFacts DEF Within
<1>4. ASSUME NEW g, Run(a \o b, w, g), NEW k \in 1 .. Len(a \o b) PROVE g[k] = v
  <2> DEFINE h == [i \in 0 .. Len(b) |-> g[Len(a) + i]]
  <2>1. Run(a, w, g) /\ Run(b, g[Len(a)], h)
    BY <1>1, <1>4, RunSplit
  <2>2. Len(a) \in 1 .. Len(a)
    BY <1>3
  <2>3. g[Len(a)] = v
    BY <2>1, <2>2 DEF Within
  <2>4. CASE k <= Len(a)
    <3>1. k \in 1 .. Len(a)
      BY <1>2, <1>3, <2>4
    <3> QED BY <2>1, <3>1 DEF Within
  <2>5. CASE ~ (k <= Len(a))
    <3>1. k - Len(a) \in 0 .. Len(b) /\ Len(a) + (k - Len(a)) = k
      BY <1>2, <1>3, <2>5
    <3>2. h[k - Len(a)] = g[k]
      BY <3>1
    <3> DEFINE l == k - Len(a)
    <3> HIDE DEF h, l
    <3>3. h[l] = v
      BY <2>1, <2>3, <3>1, RunFlat DEF l
    <3> QED BY <3>2, <3>3 DEF l
  <2> QED BY <2>4, <2>5
<1>5. Len(a \o b) # 0
  BY <1>2, <1>3
<1> QED BY <1>2, <1>4, <1>5 DEF Within

LEMMA WithinClosed ==
  ASSUME NEW name, NEW w, IsSeq(w), NEW b, Within(b, w, Append(w, name))
  PROVE  Leads(b \o <<Close>>, w, w)
<1>1. IsSeq(b) /\ Len(b) \in 1 .. Len(b)
  <2>1. IsSeq(b) /\ Len(b) \in Nat /\ Len(b) # 0
    BY SeqFacts DEF Within
  <2> QED BY <2>1
<1>2. Leads(b, w, Append(w, name))
  BY <1>1 DEF Within, Leads
<1> QED BY <1>2, LeadsClose, LeadsConcat

\* What a service prints before its namespace is closed.
MethodNames(s) ==
  [tok |-> "method_names",
   names |-> [i \in DOMAIN s.methods |-> <<file.package, s.name, s.methods[i].name>>]]

HeaderInner(s) ==
  << Open(s.name), Decl("", GetServiceDescriptor, << >>) >>
  \o DeclAll("Stub", StubMembers)
  \o Each(s.methods, PrintHeaderClientMethodPublic)
  \o DeclAll("Service", ServiceMembers)
  \o Each(s.methods, PrintHeaderServiceMethod)

SourceInner(s) ==
  << Open(s.name), MethodNames(s),
     Def("", GetServiceDescriptor, << >>, {}, 0, { AssignDescriptorsOnce, ServiceDescriptorOf(s) }) >>
  \o DefAll("Stub", StubMembers)
  \o FlattenSeq([i \in DOMAIN s.methods |-> PrintSourceClientMethod(s.methods[i], i)])
  \o DefAll("Service", ServiceMembers)
  \o << PrintCallMethod(s) >>
  \o Each(s.methods, PrintSourceServerMethod)

LEMMA InnerClosed ==
  ASSUME NEW s
  PROVE  /\ PrintHeaderService(s) = HeaderInner(s) \o <<Close>>
         /\ PrintSourceService(s) = SourceInner(s) \o <<Close>>
BY DEF PrintHeaderService, PrintSourceService, HeaderInner, SourceInner, MethodNames

LEMMA InnerWithin ==
  ASSUME NEW s \in ServiceDescriptor, NEW w
  PROVE  /\ Within(HeaderInner(s), w, Append(w, s.name))
         /\ Within(SourceInner(s), w, Append(w, s.name))
<1> DEFINE o == <<Open(s.name)>>
           v == Append(w, s.name)
           decl == << Decl("", GetServiceDescriptor, << >>) >>
           def == Def("", GetServiceDescriptor, << >>, {}, 0,
                      { AssignDescriptorsOnce, ServiceDescriptorOf(s) })
<1>1. Within(o, w, v)
  BY WithinOpen
<1>2. /\ Flat(DeclAll("Stub", StubMembers)) /\ Flat(DeclAll("Service", ServiceMembers))
      /\ Flat(DefAll("Stub", StubMembers)) /\ Flat(DefAll("Service", ServiceMembers))
  BY MembersFlat, MembersAreSeqs
<1>3. Flat(decl) /\ Flat(<< PrintCallMethod(s) >>)
  BY QuietTokens, FlatOne
<1>4. Flat(<<MethodNames(s), def>>)
  <2>1. Quiet(MethodNames(s)) /\ Quiet(def)
    BY QuietTokens DEF Quiet, MethodNames
  <2> HIDE DEF def
  <2> QED BY <2>1, FlatTuples
<1>5. /\ << Open(s.name), Decl("", GetServiceDescriptor, << >>) >> = o \o decl
      /\ << Open(s.name), MethodNames(s), def >> = o \o <<MethodNames(s), def>>
  <2> DEFINE x == Open(s.name)
             y == MethodNames(s)
             z == Decl("", GetServiceDescriptor, << >>)
  <2> HIDE DEF def, x, y, z
  <2>1. <<x>> \o <<z>> = <<x, z>>
    BY TwoFacts
  <2>2. <<x>> \o <<y, def>> = <<x, y, def>>
    BY ThreeJoined
  <2> QED BY <2>1, <2>2 DEF x, y, z
<1> HIDE DEF o, v, decl, def
<1>6. Within(o \o decl, w, v) /\ Within(o \o <<MethodNames(s), def>>, w, v)
  BY <1>1, <1>3, <1>4, WithinMore
<1>7. Within(HeaderInner(s), w, v)
  <2> DEFINE p == o \o decl
             a == DeclAll("Stub", StubMembers)
             b == Each(s.methods, PrintHeaderClientMethodPublic)
             c == DeclAll("Service", ServiceMembers)
             d == Each(s.methods, PrintHeaderServiceMethod)
  <2>1. HeaderInner(s) = (((p \o a) \o b) \o c) \o d
    BY <1>5 DEF HeaderInner
  <2>2. Within(p, w, v) /\ Flat(a) /\ Flat(b) /\ Flat(c) /\ Flat(d)
    BY <1>2, <1>6, MethodsFlat
  <2> HIDE DEF p, a, b, c, d
  <2>3. Within(p \o a, w, v)
    BY <2>2, WithinMore
  <2>4. Within((p \o a) \o b, w, v)
    BY <2>2, <2>3, WithinMore
  <2>5. Within(((p \o a) \o b) \o c, w, v)
    BY <2>2, <2>4, WithinMore
  <2>6. Within((((p \o a) \o b) \o c) \o d, w, v)
    BY <2>2, <2>5, WithinMore
  <2> QED BY <2>1, <2>6
<1>8. Within(SourceInner(s), w, v)
  <2> DEFINE p == o \o <<MethodNames(s), def>>
             a == DefAll("Stub", StubMembers)
             b == FlattenSeq([i \in DOMAIN s.methods |-> PrintSourceClientMethod(s.methods[i], i)])
             c == DefAll("Service", ServiceMembers)
             d == << PrintCallMethod(s) >>
             e == Each(s.methods, PrintSourceServerMethod)
  <2>1. SourceInner(s) = ((((p \o a) \o b) \o c) \o d) \o e
    BY <1>5 DEF SourceInner, def
  <2>2. Within(p, w, v) /\ Flat(a) /\ Flat(b) /\ Flat(c) /\ Flat(d) /\ Flat(e)
    BY <1>2, <1>3, <1>6, MethodsFlat
  <2> HIDE DEF p, a, b, c, d, e
  <2>3. Within(p \o a, w, v)
    BY <2>2, WithinMore
  <2>4. Within((p \o a) \o b, w, v)
    BY <2>2, <2>3, WithinMore
  <2>5. Within(((p \o a) \o b) \o c, w, v)
    BY <2>2, <2>4, WithinMore
  <2>6. Within((((p \o a) \o b) \o c) \o d, w, v)
    BY <2>2, <2>5, WithinMore
  <2>7. Within(((((p \o a) \o b) \o c) \o d) \o e, w, v)
    BY <2>2, <2>6, WithinMore
  <2> QED BY <2>1, <2>7
<1> QED BY <1>7, <1>8 DEF v

LEMMA ServiceLeads ==
  ASSUME NEW s \in ServiceDescriptor, NEW w, IsSeq(w)
  PROVE  Leads(PrintHeaderService(s), w, w) /\ Leads(PrintSourceService(s), w, w)
BY InnerWithin, InnerClosed, WithinClosed

-----------------------------------------------------------------------------
(***************************************************************************)
(* The two files.                                                          *)
(***************************************************************************)
LEMMA FileFacts ==
  ASSUME NEW f \in Files
  PROVE  /\ IsSeq(f.name) /\ IsSeq(f.package) /\ IsSeq(f.services)
         /\ \A i \in DOMAIN f.services : f.services[i] \in ServiceDescriptor
         /\ f.lite \in BOOLEAN /\ f.generic \in BOOLEAN
<1>1. f \in FileDescriptor
  BY FilesAssumption
<1>2. /\ f.name \in Seq(Character) /\ f.package \in Seq(Identifier)
      /\ f.services \in Seq(ServiceDescriptor)
      /\ f.lite \in BOOLEAN /\ f.generic \in BOOLEAN
  BY <1>1 DEF FileDescriptor
<1>3. IsSeq(f.name)
  BY <1>2, SeqIs
<1>4. IsSeq(f.package)
  BY <1>2, SeqIs
<1>5. IsSeq(f.services) /\ DOMAIN f.services = 1 .. Len(f.services)
  BY <1>2, SeqIs
<1>6. \A i \in DOMAIN f.services : f.services[i] \in ServiceDescriptor
  BY <1>2, <1>5, ElementOfSeq
<1> QED BY <1>2, <1>3, <1>4, <1>5, <1>6

\* The services of the file, one behind the other.
LEMMA ServicesLead ==
  ASSUME file \in Files, NEW w, IsSeq(w)
  PROVE  /\ Leads(Each(file.services, PrintHeaderService), w, w)
         /\ Leads(Each(file.services, PrintSourceService), w, w)
<1> DEFINE a == [i \in DOMAIN file.services |-> PrintHeaderService(file.services[i])]
           b == [i \in DOMAIN file.services |-> PrintSourceService(file.services[i])]
<1>1. \A i \in DOMAIN file.services : Leads(a[i], w, w) /\ Leads(b[i], w, w)
  BY FileFacts, ServiceLeads
<1>2. /\ DOMAIN a = DOMAIN file.services /\ a = [i \in DOMAIN file.services |-> a[i]]
      /\ DOMAIN b = DOMAIN file.services /\ b = [i \in DOMAIN file.services |-> b[i]]
  OBVIOUS
<1>3. /\ Each(file.services, PrintHeaderService) = FlattenSeq(a)
      /\ Each(file.services, PrintSourceService) = FlattenSeq(b)
  BY DEF Each
<1>4. IsSeq(file.services)
  BY FileFacts
<1> HIDE DEF a, b
<1>5. \A i \in DOMAIN file.services : IsSeq(a[i]) /\ IsSeq(b[i])
  BY <1>1 DEF Leads
<1>6. Parts(a) /\ DOMAIN a = 1 .. Len(a) /\ Parts(b) /\ DOMAIN b = 1 .. Len(b)
  <2>1. Parts(a) /\ Len(a) = Len(file.services) /\ DOMAIN a = 1 .. Len(file.services)
    BY <1>2, <1>4, <1>5, PartsMade
  <2>2. Parts(b) /\ Len(b) = Len(file.services) /\ DOMAIN b = 1 .. Len(file.services)
    BY <1>2, <1>4, <1>5, PartsMade
  <2> QED BY <2>1, <2>2
<1>7. Leads(FlattenSeq(a), w, w)
  <2>1. \A i \in 1 .. Len(a) : Leads(a[i], w, w)
    BY <1>1, <1>2, <1>6
  <2> QED BY <1>6, <2>1, LeadsFlatten
<1>8. Leads(FlattenSeq(b), w, w)
  <2>1. \A i \in 1 .. Len(b) : Leads(b[i], w, w)
    BY <1>1, <1>2, <1>6
  <2> QED BY <1>6, <2>1, LeadsFlatten
<1> QED BY <1>3, <1>7, <1>8

LEMMA HeaderServicesLead ==
  ASSUME file \in Files, NEW w, IsSeq(w)
  PROVE  Leads(GetHeaderServices, w, w)
<1>1. CASE services_namespace = ""
  BY <1>1, ServicesLead DEF GetHeaderServices
<1>2. CASE services_namespace # ""
  <2> DEFINE v == Append(w, services_namespace)
             services == Each(file.services, PrintHeaderService)
  <2>1. IsSeq(v)
    <3> DEFINE S == Range(w) \cup {services_namespace}
    <3>1. w \in Seq(S) /\ services_namespace \in S
      BY SeqMonotonic DEF IsSeq
    <3> HIDE DEF S
    <3>2. v \in Seq(S)
      BY <3>1
    <3> HIDE DEF v
    <3> QED BY <3>2, SeqIs
  <2>2. Leads(services, v, v)
    <3> HIDE DEF v
    <3> QED BY <2>1, ServicesLead
  <2>3. GetHeaderServices = << Open(services_namespace) >> \o services \o << Close >>
    BY <1>2 DEF GetHeaderServices
  <2> HIDE DEF services
  <2> QED BY <2>2, <2>3, LeadsAround
<1> QED BY <1>1, <1>2

LEMMA PackageLeads ==
  ASSUME file \in Files
  PROVE  Leads(OpenPackage, << >>, file.package) /\ Leads(ClosePackage, file.package, << >>)
BY FileFacts, OpensAll, ClosesAll DEF OpenPackage, ClosePackage

LEMMA HeaderLeads ==
  ASSUME file \in Files
  PROVE  Leads(Header, << >>, << >>)
<1>1. Leads(GetHeaderPrologue, << >>, << >>)
  BY QuietTokens, FlatOne, LeadsFlat DEF GetHeaderPrologue
<1>2. Leads(GetHeaderPrologue \o OpenPackage, << >>, file.package)
  BY <1>1, PackageLeads, LeadsConcat
<1>3. Leads((GetHeaderPrologue \o OpenPackage) \o GetHeaderServices, << >>, file.package)
  BY <1>2, FileFacts, HeaderServicesLead, LeadsConcat
<1> QED BY <1>3, PackageLeads, LeadsConcat DEF Header

\* The guard comes first.
LEMMA HeaderFirst ==
  ASSUME file \in Files
  PROVE  Header # << >> /\ Head(Header) = Guard(FilenameIdentifier(file.name))
<1> DEFINE guard == Guard(FilenameIdentifier(file.name))
           p == << guard >>
           rest == OpenPackage \o (GetHeaderServices \o ClosePackage)
<1>1. IsSeq(OpenPackage) /\ IsSeq(GetHeaderServices) /\ IsSeq(ClosePackage)
  BY FileFacts, PackageLeads, HeaderServicesLead DEF Leads
<1>2. IsSeq(p)
  BY OneFacts
<1>3. IsSeq(GetHeaderServices \o ClosePackage)
  BY <1>1, ConcatIsSeq
<1>4. IsSeq(rest)
  BY <1>1, <1>3, ConcatIsSeq
<1>5. Header = p \o rest
  <2> DEFINE a == OpenPackage
             b == GetHeaderServices
             c == ClosePackage
  <2>1. Header = ((p \o a) \o b) \o c
    BY DEF Header, GetHeaderPrologue
  <2>2. rest = a \o (b \o c)
    OBVIOUS
  <2> HIDE DEF p, a, b, c, rest
  <2>3. IsSeq(p \o a) /\ IsSeq(b \o c)
    BY <1>1, <1>2, ConcatIsSeq DEF a, b, c
  <2>4. ((p \o a) \o b) \o c = (p \o a) \o (b \o c)
    <3> DEFINE q == p \o a
    <3> HIDE DEF q
    <3>1. IsSeq(q)
      BY <2>3 DEF q
    <3>2. (q \o b) \o c = q \o (b \o c)
      BY <1>1, <3>1, ConcatAssoc, SMTT(60) DEF b, c
    <3> QED BY <3>2 DEF q
  <2>5. (p \o a) \o (b \o c) = p \o (a \o (b \o c))
    <3> DEFINE q == b \o c
    <3> HIDE DEF q
    <3>1. IsSeq(q)
      BY <2>3 DEF q
    <3>2. (p \o a) \o q = p \o (a \o q)
      BY <1>1, <1>2, <3>1, ConcatAssoc DEF a
    <3> QED BY <3>2 DEF q
  <2> QED BY <2>1, <2>2, <2>4, <2>5
<1> HIDE DEF rest, guard
<1>6. IsSeq(Header) /\ Len(Header) = Len(rest) + 1 /\ Header[1] = guard
  BY <1>4, <1>5, ConsFacts
<1>7. Len(rest) \in Nat
  BY <1>4, SeqFacts
<1>8. Header # << >>
  BY <1>6, <1>7, EmptyFacts
<1>9. Head(Header) = Header[1]
  <2>1. Header \in Seq(Range(Header))
    BY <1>6 DEF IsSeq
  <2> QED BY <1>8, <2>1
<1> QED BY <1>6, <1>8, <1>9 DEF guard

\* What the source holds besides the services.
LEMMA DescriptorsSeq ==
  ASSUME file \in Files
  PROVE  /\ IsSeq(GetSourceDescriptors)
         /\ GetSourceDescriptors # << >>
         /\ ~ file.lite => \A w : IsSeq(w) => Leads(GetSourceDescriptors, w, w)
<1> DEFINE vars0 == [i \in DOMAIN file.services |-> << Var(ServiceDescriptorOf(file.services[i])) >>]
           vs == Each(file.services, LAMBDA s : << Var(ServiceDescriptorOf(s)) >>)
           o == << Open("") >>
           assign == [tok |-> "assign", to |-> [i \in DOMAIN file.services |->
                                                  ServiceDescriptorOf(file.services[i])]]
           once == Def("", AssignDescriptorsOnce, << >>, {}, 0, {})
           t == <<assign, once, Close>>
<1>1. Flat(vs)
  <2>1. \A i \in DOMAIN file.services : Flat(vars0[i])
    BY QuietTokens, FlatOne
  <2>2. DOMAIN vars0 = DOMAIN file.services /\ vars0 = [i \in DOMAIN file.services |-> vars0[i]]
    OBVIOUS
  <2>3. vs = FlattenSeq(vars0)
    BY DEF Each
  <2> HIDE DEF vars0, vs
  <2> QED BY <2>1, <2>2, <2>3, FileFacts, FlatEach
<1>2. GetSourceDescriptors = IF file.lite THEN (o \o vs) \o << >> ELSE (o \o vs) \o t
  BY FileFacts DEF GetSourceDescriptors, HasDescriptorMethods
<1>3. IsSeq(o) /\ IsSeq(t) /\ Len(o) = 1
  BY OneFacts, ThreeIsSeq
<1>4. IsSeq(vs)
  BY <1>1 DEF Flat
<1>5. t = <<assign>> \o <<once, Close>> /\ <<once, Close>> = <<once>> \o <<Close>>
  <2> HIDE DEF assign, once
  <2> DEFINE c == Close
  <2> HIDE DEF c
  <2>1. <<assign>> \o <<once, c>> = <<assign, once, c>>
    BY ThreeJoined
  <2>2. <<once>> \o <<c>> = <<once, c>>
    BY TwoFacts
  <2> QED BY <2>1, <2>2 DEF c
<1>6. Quiet(assign) /\ Quiet(once)
  BY QuietTokens DEF Quiet
<1> HIDE DEF vs, vars0, assign, once, t
<1>7. IsSeq(o \o vs) /\ Len(o \o vs) = Len(vs) + 1
  BY <1>4, ConsFacts
<1> DEFINE q == o \o vs
<1> HIDE DEF o
<1>7a. IsSeq(q) /\ Len(q) \in Nat /\ Len(q) # 0
  <2>1. Len(vs) \in Nat
    BY <1>4, SeqFacts
  <2>2. IsSeq(q) /\ Len(q) = Len(vs) + 1
    BY <1>7
  <2> HIDE DEF q
  <2> QED BY <2>1, <2>2
<1>8. IsSeq(GetSourceDescriptors) /\ Len(GetSourceDescriptors) # 0
  <2>1. CASE file.lite
    <3>1. GetSourceDescriptors = q \o << >>
      BY <1>2, <2>1
    <3> HIDE DEF q
    <3>2. q \o << >> = q
      BY <1>7a, EmptyFacts
    <3> QED BY <1>7a, <3>1, <3>2
  <2>2. CASE ~ file.lite
    <3>1. GetSourceDescriptors = q \o t
      BY <1>2, <2>2
    <3> HIDE DEF q
    <3>2. IsSeq(q \o t) /\ Len(q \o t) = Len(q) + Len(t)
      BY <1>3, <1>7a, ConcatFacts
    <3>3. Len(t) \in Nat
      BY <1>3, SeqFacts
    <3>4. Len(q \o t) # 0
      BY <1>7a, <3>2, <3>3
    <3> QED BY <3>1, <3>2, <3>4
  <2> QED BY <2>1, <2>2
<1> HIDE DEF q
<1>9. ASSUME ~ file.lite, NEW w, IsSeq(w) PROVE Leads(GetSourceDescriptors, w, w)
  <2> DEFINE v == Append(w, "")
  <2>1. Leads(o, w, v)
    <3>1. Braces(w, Open("")) = v
      BY BracesFacts
    <3> QED BY <3>1, LeadsOne DEF o
  <2>2. Leads(vs, v, v)
    BY <1>1, LeadsFlat
  <2>3. Leads(t, v, w)
    <3>1. Leads(<<assign>>, v, v) /\ Leads(<<once>>, v, v)
      BY <1>6, FlatOne, LeadsFlat
    <3>2. Leads(<<Close>>, v, w)
      BY <1>9, LeadsClose
    <3> HIDE DEF v
    <3>3. Leads(<<once, Close>>, v, w)
      BY <1>5, <3>1, <3>2, LeadsConcat
    <3> QED BY <1>5, <3>1, <3>3, LeadsConcat
  <2> HIDE DEF v
  <2>4. Leads(o \o vs, w, v)
    BY <2>1, <2>2, LeadsConcat
  <2>5. Leads((o \o vs) \o t, w, w)
    BY <2>3, <2>4, LeadsConcat
  <2> QED BY <1>2, <1>9, <2>5
<1>10. GetSourceDescriptors # << >>
  BY <1>8, EmptyFacts
<1> QED BY <1>8, <1>9, <1>10

LEMMA SourceSeq ==
  ASSUME file \in Files
  PROVE  IsSeq(Source) /\ Source # << >>
<1> DEFINE a == OpenPackage
           b == GetSourceDescriptors
           c == Each(file.services, PrintSourceService)
           d == ClosePackage
<1>1. IsSeq(a) /\ IsSeq(d) /\ IsSeq(c)
  BY PackageLeads, ServicesLead, EmptyFacts DEF Leads
<1>2. IsSeq(b) /\ b # << >>
  BY DescriptorsSeq
<1>3. Source = ((a \o b) \o c) \o d
  BY DEF Source
<1> HIDE DEF a, b, c, d
<1>4. IsSeq(a \o b) /\ Len(a \o b) = Len(a) + Len(b)
  BY <1>1, <1>2, ConcatFacts
<1>5. Len(a) \in Nat /\ Len(b) \in Nat /\ Len(c) \in Nat /\ Len(d) \in Nat /\ Len(b) # 0
  BY <1>1, <1>2, SeqFacts, EmptyFacts
<1> DEFINE q == a \o b
           r == q \o c
<1> HIDE DEF q
<1>6. IsSeq(r) /\ Len(r) = Len(q) + Len(c)
  BY <1>1, <1>4, ConcatFacts DEF q
<1> HIDE DEF r
<1>7. IsSeq(r \o d) /\ Len(r \o d) = Len(r) + Len(d)
  BY <1>1, <1>6, ConcatFacts
<1>8. Source = r \o d
  BY <1>3 DEF r, q
<1>9. Len(Source) # 0
  BY <1>4, <1>5, <1>6, <1>7, <1>8 DEF q
<1> QED BY <1>7, <1>8, <1>9, EmptyFacts

LEMMA SourceLeads ==
  ASSUME file \in Files, ~ file.lite
  PROVE  Leads(Source, << >>, << >>)
<1> DEFINE p == file.package
<1>1. IsSeq(p)
  BY FileFacts
<1> HIDE DEF p
<1>2. Leads(OpenPackage, << >>, p) /\ Leads(ClosePackage, p, << >>)
  BY PackageLeads DEF p
<1>3. Leads(GetSourceDescriptors, p, p)
  BY <1>1, DescriptorsSeq
<1>4. Leads(Each(file.services, PrintSourceService), p, p)
  BY <1>1, ServicesLead
<1>5. Leads(OpenPackage \o GetSourceDescriptors, << >>, p)
  BY <1>2, <1>3, LeadsConcat
<1>6. Leads((OpenPackage \o GetSourceDescriptors) \o Each(file.services, PrintSourceService), << >>, p)
  BY <1>4, <1>5, LeadsConcat
<1> QED BY <1>2, <1>6, LeadsConcat DEF Source

\* Scopes is the run of the compiler.
LEMMA ScopesRun ==
  ASSUME NEW unit, IsSeq(unit)
  PROVE  Run(unit, << >>, Scopes(unit))
<1> DEFINE n == Len(unit)
           N == { unit[i].namespace : i \in 1 .. n } \cup {"}"}
           V == Seq(N)
           step == [p \in (1 .. n) \X V |-> Braces(p[2], unit[p[1]])]
           Fn(g) == [i \in 0 .. n |-> IF i = 0 THEN << >> ELSE Braces(g[i - 1], unit[i])]
<1>1. n \in Nat /\ << >> \in V
  BY SeqFacts, EmptySeq
<1>2. step \in [(1 .. n) \X V -> V]
  <2>1. ASSUME NEW i \in 1 .. n, NEW s \in V PROVE Braces(s, unit[i]) \in V
    <3>1. unit[i].namespace \in N /\ "}" \in N
      OBVIOUS
    <3> DEFINE x == unit[i]
               c == "}"
    <3>2. x.namespace \in N /\ c \in N
      BY <3>1
    <3> HIDE DEF N, x, c
    <3>3. Append(s, x.namespace) \in V /\ <<c>> \in V
      BY <3>2
    <3>4. s # << >> => Front(s) \in V
      <4> SUFFICES ASSUME s # << >> PROVE Front(s) \in V
        OBVIOUS
      <4>1. Len(s) \in Nat /\ \A k \in 1 .. Len(s) - 1 : s[k] \in N
        <5>1. Len(s) \in Nat
          BY LenProperties
        <5>2. \A k \in 1 .. Len(s) : s[k] \in N
          BY ElementOfSeq
        <5> QED BY <5>1, <5>2
      <4>2. SubSeq(s, 1, Len(s) - 1) \in Seq(N)
        BY <4>1, SubSeqProperties
      <4> QED BY <4>2 DEF Front
    <3>5. Braces(s, x) \in {Append(s, x.namespace), <<c>>, Front(s), s}
             /\ (Braces(s, x) = Front(s) \/ Braces(s, x) \in {Append(s, x.namespace), <<c>>, s})
      BY DEF Braces, c
    <3>6. s = << >> => Braces(s, x) \in {Append(s, x.namespace), <<c>>, s}
      BY DEF Braces, c
    <3> QED BY <3>3, <3>4, <3>5, <3>6 DEF x
  <2> HIDE DEF V
  <2> QED BY <2>1
<1>3. PICK g : Upto(V, << >>, step, n, g)
  <2> HIDE DEF n, V, step
  <2> QED BY <1>1, <1>2, RecursionExists
<1>4. g \in [0 .. n -> V] /\ g[0] = << >> /\ \A i \in 1 .. n : g[i] = step[i, g[i - 1]]
  BY <1>3 DEF Upto
<1>5. ASSUME NEW i \in 1 .. n PROVE g[i] = Braces(g[i - 1], unit[i])
  <2> HIDE DEF V
  <2>1. i - 1 \in 0 .. n
    BY <1>1
  <2>2. g[i - 1] \in V
    BY <1>4, <2>1
  <2>3. <<i, g[i - 1]>> \in (1 .. n) \X V
    BY <2>2
  <2> QED BY <1>4, <2>3
<1>6. g = Fn(g)
  <2> HIDE DEF V, step
  <2>1. \A i \in 0 .. n : i = 0 \/ i \in 1 .. n
    BY <1>1
  <2>2. \A i \in 0 .. n : g[i] = IF i = 0 THEN << >> ELSE Braces(g[i - 1], unit[i])
    BY <1>4, <1>5, <2>1
  <2> QED BY <1>4, <2>2
<1> DEFINE scope == CHOOSE f : f = Fn(f)
<1>7. scope = Fn(scope)
  BY <1>6
<1>8. Scopes(unit) = scope
  BY DEF Scopes
<1>9. scope[0] = << >> /\ \A i \in 1 .. n : scope[i] = Braces(scope[i - 1], unit[i])
  <2> HIDE DEF scope
  <2>1. 0 \in 0 .. n /\ \A i \in 1 .. n : i \in 0 .. n /\ i # 0
    BY <1>1
  <2> HIDE DEF n
  <2> QED BY <1>7, <2>1
<1> HIDE DEF scope
<1> QED BY <1>8, <1>9 DEF Run

-----------------------------------------------------------------------------
(***************************************************************************)
(* The runs of the plugin.  What is written last is decided by the file    *)
(* and the namespace alone, and neither changes once the header is there.  *)
(***************************************************************************)
Written ==
  /\ file \in Files
  /\ header # << >> => header = Header /\ parameters = << >>
  /\ source = IF result = "done" THEN Source ELSE << >>
  /\ result = "done" => header # << >>
  /\ result = "error" => header = << >>

\* What parameters are left, and the namespaces that may have been asked for.
Left(all) == { SubSeq(all, n + 1, Len(all)) : n \in 0 .. Len(all) }
Asked == {""} \cup { p.value : p \in UNION { Range(all) : all \in Parameters } }

LEMMA Suffix ==
  ASSUME NEW S, NEW s \in Seq(S), NEW n \in Nat, n <= Len(s)
  PROVE  /\ SubSeq(s, n + 1, Len(s)) \in Seq(S)
         /\ Len(SubSeq(s, n + 1, Len(s))) = Len(s) - n
         /\ \A i \in 1 .. Len(s) - n : SubSeq(s, n + 1, Len(s))[i] = s[n + i]
<1> DEFINE m == Len(s)
           k == n + 1
           t == SubSeq(s, k, m)
<1>1. m \in Nat /\ k \in Nat /\ k - 1 = n /\ k <= m + 1 /\ m - k + 1 = m - n
  BY LenProperties
<1>2. \A i \in k .. m : s[i] \in S
  <2>1. \A i \in 1 .. m : s[i] \in S
    BY ElementOfSeq
  <2> HIDE DEF m
  <2> QED BY <1>1, <2>1
<1> HIDE DEF m, k
<1>3. /\ t \in Seq(S)
      /\ Len(t) = IF k <= m THEN m - k + 1 ELSE 0
      /\ \A i \in 1 .. m - k + 1 : t[i] = s[k + i - 1]
  <2>1. k \in Int /\ m \in Int
    BY <1>1
  <2> QED BY <1>2, <2>1, SubSeqProperties
<1> HIDE DEF t
<1>4. Len(t) = m - n
  BY <1>1, <1>3
<1>5. ASSUME NEW i \in 1 .. m - n PROVE t[i] = s[n + i]
  <2>1. i \in 1 .. m - k + 1 /\ k + i - 1 = n + i
    BY <1>1 DEF k
  <2> QED BY <1>3, <2>1
<1> QED BY <1>3, <1>4, <1>5 DEF t, k, m

LEMMA LeftFacts ==
  ASSUME NEW all \in Parameters
  PROVE  /\ all \in Left(all)
         /\ \A rest \in Left(all) : rest # << >> =>
              Tail(rest) \in Left(all) /\ Head(rest) \in Range(all)
<1> DEFINE S == [key : STRING, value : STRING]
<1>1. all \in Seq(S)
  BY ParametersAssumption
<1> HIDE DEF S
<1>2. Len(all) \in Nat /\ DOMAIN all = 1 .. Len(all) /\ \A i \in 1 .. Len(all) : all[i] \in S
  BY <1>1, LenProperties, ElementOfSeq
<1>3. all = SubSeq(all, 1, Len(all))
  <2>1. /\ SubSeq(all, 1, Len(all)) \in Seq(S)
        /\ Len(SubSeq(all, 1, Len(all))) = Len(all)
        /\ \A i \in 1 .. Len(all) : SubSeq(all, 1, Len(all))[i] = all[i]
    BY <1>1, <1>2
  <2> QED BY <1>1, <2>1, SeqEqual
<1>4. all \in Left(all)
  <2>1. 0 \in 0 .. Len(all) /\ 0 + 1 = 1
    BY <1>2
  <2> QED BY <1>3, <2>1 DEF Left
<1>5. ASSUME NEW n \in 0 .. Len(all), SubSeq(all, n + 1, Len(all)) # << >>
      PROVE  /\ Tail(SubSeq(all, n + 1, Len(all))) \in Left(all)
             /\ Head(SubSeq(all, n + 1, Len(all))) \in Range(all)
  <2> DEFINE rest == SubSeq(all, n + 1, Len(all))
             next == SubSeq(all, n + 2, Len(all))
  <2>1. n \in Nat /\ n <= Len(all)
    BY <1>2
  <2>2. /\ rest \in Seq(S) /\ Len(rest) = Len(all) - n
        /\ \A i \in 1 .. Len(all) - n : rest[i] = all[n + i]
    BY <1>1, <2>1, Suffix
  <2>3. n + 1 \in Nat /\ n + 1 <= Len(all) /\ (n + 1) + 1 = n + 2
    <3>1. Len(rest) # 0
      BY <1>5, <2>2, EmptySeq
    <3> HIDE DEF rest
    <3> DEFINE m == Len(all)
    <3>2. m - n # 0 /\ m \in Nat /\ n <= m
      BY <1>2, <2>1, <2>2, <3>1
    <3> HIDE DEF m
    <3>3. n + 1 <= m
      BY <2>1, <3>2
    <3> QED BY <2>1, <3>3 DEF m
  <2>3a. /\ next \in Seq(S) /\ Len(next) = Len(all) - (n + 1)
         /\ \A i \in 1 .. Len(all) - (n + 1) : next[i] = all[(n + 1) + i]
    <3> DEFINE k == n + 1
    <3>1. k \in Nat /\ k <= Len(all) /\ next = SubSeq(all, k + 1, Len(all))
      BY <2>3
    <3> HIDE DEF k, next
    <3>2. /\ next \in Seq(S) /\ Len(next) = Len(all) - k
          /\ \A i \in 1 .. Len(all) - k : next[i] = all[k + i]
      BY <1>1, <3>1, Suffix
    <3> QED BY <3>2 DEF k
  <2>4. rest # << >>
    BY <1>5
  <2>5. next \in Left(all)
    <3>1. n + 1 \in 0 .. Len(all) /\ next = SubSeq(all, (n + 1) + 1, Len(all))
      BY <1>2, <2>3
    <3> QED BY <3>1 DEF Left
  <2> HIDE DEF rest, next
  <2>6. /\ Tail(rest) \in Seq(S) /\ Len(Tail(rest)) = Len(rest) - 1 /\ Head(rest) = rest[1]
        /\ \A i \in 1 .. Len(rest) - 1 : Tail(rest)[i] = rest[i + 1]
    BY <2>2, <2>4, HeadTailProperties
  <2>7. Tail(rest) = next
    <3>1. Len(Tail(rest)) = Len(next)
      <4> DEFINE m == Len(all)
      <4>1. m \in Nat /\ Len(Tail(rest)) = (m - n) - 1 /\ Len(next) = m - (n + 1)
        BY <1>2, <2>2, <2>3a, <2>6
      <4> HIDE DEF m
      <4> QED BY <2>1, <4>1
    <3>2. ASSUME NEW i \in 1 .. Len(next) PROVE Tail(rest)[i] = next[i]
      <4>1. /\ i \in Nat /\ i \in 1 .. Len(all) - (n + 1)
            /\ i + 1 \in 1 .. Len(all) - n /\ i \in 1 .. Len(rest) - 1
        BY <1>2, <2>1, <2>2, <2>3a
      <4>2. n + (i + 1) = (n + 1) + i
        BY <2>1, <4>1
      <4>3. Tail(rest)[i] = rest[i + 1] /\ rest[i + 1] = all[n + (i + 1)]
        BY <2>2, <2>6, <4>1
      <4>4. next[i] = all[(n + 1) + i]
        BY <2>3a, <4>1
      <4> QED BY <4>2, <4>3, <4>4
    <3> QED BY <2>3a, <2>6, <3>1, <3>2, SeqEqual
  <2>8. Head(rest) \in Range(all)
    <3>1. 1 \in 1 .. Len(all) - n /\ n + 1 \in DOMAIN all
      BY <1>2, <2>1, <2>3
    <3> QED BY <2>2, <2>6, <3>1 DEF Range
  <2> QED BY <2>5, <2>7, <2>8 DEF rest
<1> QED BY <1>4, <1>5 DEF Left

\* The type invariant with its parts named.
Parameterised ==
  /\ \E all \in Parameters : parameters \in Left(all)
  /\ services_namespace \in Asked

LEMMA TypeParts ==
  ASSUME Written, result \in {"running", "done", "error"}, Parameterised
  PROVE  TypeOK
<1>1. file.lite \in BOOLEAN /\ file.generic \in BOOLEAN
  BY FileFacts DEF Written
<1>2. \E all \in Parameters : \E n \in 0 .. Len(all) : parameters = SubSeq(all, n + 1, Len(all))
  BY DEF Parameterised, Left
<1>3. services_namespace \in {""} \cup { p.value : p \in UNION { Range(all) : all \in Parameters } }
  BY DEF Parameterised, Asked
<1>4. (header # << >> /\ source # << >>) = (result = "done")
  <2>1. file \in Files
    BY DEF Written
  <2>2. Source # << >>
    BY <2>1, SourceSeq
  <2> QED BY <2>2 DEF Written
<1> QED BY <1>1, <1>2, <1>3, <1>4 DEF TypeOK

IInv == Written /\ Parameterised /\ result \in {"running", "done", "error"}

LEMMA InitInv ==
  ASSUME Init
  PROVE  IInv
<1>1. Written /\ result \in {"running", "done", "error"}
  BY DEF Init, Written
<1>2. Parameterised
  BY LeftFacts DEF Init, Parameterised, Asked
<1> QED BY <1>1, <1>2 DEF IInv

\* The files written are those of the namespace and the file, which stay.
LEMMA SameFile ==
  ASSUME file' = file
  PROVE  /\ Source' = Source
         /\ services_namespace' = services_namespace => Header' = Header
<1>1. Source' = Source
  BY DEF Source, OpenPackage, ClosePackage, GetSourceDescriptors, HasDescriptorMethods,
         PrintSourceService, Each
<1>2. services_namespace' = services_namespace => Header' = Header
  BY DEF Header, GetHeaderPrologue, OpenPackage, ClosePackage, GetHeaderServices, Each
<1> QED BY <1>1, <1>2

LEMMA NextInv ==
  ASSUME IInv, [Next]_vars
  PROVE  IInv'
<1> USE DEF IInv
<1>1. CASE Refuse
  <2>1. Parameterised'
    BY <1>1 DEF Refuse, Parameterised
  <2>2. Written'
    BY <1>1 DEF Refuse, Written
  <2> QED BY <1>1, <2>1, <2>2 DEF Refuse
<1>2. CASE ReadParameter
  <2>1. header = << >> /\ header' = << >> /\ file' = file /\ file \in Files
    BY <1>2 DEF ReadParameter, Written
  <2>2. result = "running" /\ result' \in {"running", "error"} /\ source' = source
    BY <1>2 DEF ReadParameter
  <2>3. Written'
    BY <2>1, <2>2 DEF Written
  <2>4. PICK all \in Parameters : parameters \in Left(all)
    BY DEF Parameterised
  <2>5. parameters # << >>
    BY <1>2 DEF ReadParameter
  <2>6. Tail(parameters) \in Left(all) /\ Head(parameters) \in Range(all)
    BY <2>4, <2>5, LeftFacts
  <2>7. \/ services_namespace' = Head(parameters).value /\ parameters' = Tail(parameters)
        \/ services_namespace' = services_namespace /\ parameters' = parameters
    BY <1>2 DEF ReadParameter
  <2>8. Head(parameters).value \in Asked
    <3> DEFINE p == Head(parameters)
    <3>1. p \in UNION { Range(a) : a \in Parameters }
      BY <2>6
    <3> HIDE DEF p
    <3>2. p.value \in { x.value : x \in UNION { Range(a) : a \in Parameters } }
      BY <3>1
    <3> QED BY <3>2 DEF Asked, p
  <2>9. Parameterised'
    <3>1. CASE services_namespace' = Head(parameters).value /\ parameters' = Tail(parameters)
      BY <2>6, <2>8, <3>1 DEF Parameterised
    <3>2. CASE services_namespace' = services_namespace /\ parameters' = parameters
      BY <3>2 DEF Parameterised
    <3> QED BY <2>7, <3>1, <3>2
  <2> QED BY <2>2, <2>3, <2>9
<1>3. CASE WriteHeader
  <2>1. /\ header' = Header /\ file' = file /\ services_namespace' = services_namespace
        /\ parameters = << >> /\ parameters' = parameters /\ result = "running"
        /\ result' = result /\ source' = source
    BY <1>3 DEF WriteHeader
  <2>2. Header' = Header
    BY <2>1, SameFile
  <2>3. Written'
    BY <2>1, <2>2 DEF Written
  <2>4. Parameterised'
    BY <2>1 DEF Parameterised
  <2> QED BY <2>1, <2>3, <2>4
<1>4. CASE WriteSource
  <2>1. /\ header' = header /\ file' = file /\ services_namespace' = services_namespace
        /\ parameters' = parameters /\ header # << >> /\ source' = Source /\ result' = "done"
    BY <1>4 DEF WriteSource
  <2>2. Header' = Header /\ Source' = Source
    BY <2>1, SameFile
  <2>3. Written'
    BY <2>1, <2>2 DEF Written
  <2>4. Parameterised'
    BY <2>1 DEF Parameterised
  <2> QED BY <2>1, <2>3, <2>4
<1>5. CASE UNCHANGED vars
  <2>1. /\ header' = header /\ file' = file /\ services_namespace' = services_namespace
        /\ parameters' = parameters /\ source' = source /\ result' = result
    BY <1>5 DEF vars
  <2>2. Header' = Header /\ Source' = Source
    BY <2>1, SameFile
  <2>3. Written'
    BY <2>1, <2>2 DEF Written
  <2>4. Parameterised'
    BY <2>1 DEF Parameterised
  <2> QED BY <2>1, <2>3, <2>4
<1> QED BY <1>1, <1>2, <1>3, <1>4, <1>5 DEF Next

LEMMA Invariance == Spec => []IInv
<1>1. Init => IInv
  BY InitInv
<1>2. IInv /\ [Next]_vars => IInv'
  BY NextInv
<1> QED BY <1>1, <1>2, PTL DEF Spec

\* Every variable has its type for every file and every list of parameters, and
\* the plugin leaves two files or, when it refused, none that Generate finished.
THEOREM TypeCorrect == Spec => []TypeOK
<1>1. IInv => TypeOK
  BY TypeParts DEF IInv
<1> QED BY <1>1, Invariance, PTL

LEMMA GuardsOfInv ==
  ASSUME IInv
  PROVE  GuardsDistinct
<1> SUFFICES ASSUME header # << >>, NEW name \in DOMAIN Guards,
                    Guards[name] = Head(header).id
             PROVE  name = file.name
  BY DEF GuardsDistinct
<1>1. file \in Files /\ header = Header
  BY DEF IInv, Written
<1>2. Head(header) = Guard(FilenameIdentifier(file.name))
  BY <1>1, HeaderFirst
<1>3. Head(header).id = FilenameIdentifier(file.name)
  BY <1>2 DEF Guard
<1>4. PICK f \in Files : name = f.name
  BY DEF Guards
<1>5. Guards[name] = FilenameIdentifier(name)
  BY DEF Guards
<1>6. IsSeq(name) /\ IsSeq(file.name)
  BY <1>1, <1>4, FileFacts
<1> QED BY <1>3, <1>5, <1>6, IdentifierDistinct

\* The include guards of FilenameIdentifier never collide: whatever the files are
\* called, no two names are escaped to the same identifier.
THEOREM GuardsApart == Spec => []GuardsDistinct
<1>1. IInv => GuardsDistinct
  BY GuardsOfInv
<1> QED BY <1>1, Invariance, PTL

LEMMA BalancedOfInv ==
  ASSUME IInv, ~ file.lite
  PROVE  Balanced
<1> SUFFICES ASSUME result = "done"
             PROVE  Scopes(Unit)[Len(header)] = << >> /\ Scopes(Unit)[Len(Unit)] = << >>
  BY DEF Balanced
<1>1. file \in Files /\ header = Header /\ source = Source
  BY DEF IInv, Written
<1>2. Leads(header, << >>, << >>) /\ Leads(source, << >>, << >>)
  BY <1>1, HeaderLeads, SourceLeads
<1>3. IsSeq(header) /\ IsSeq(source)
  BY <1>2 DEF Leads
<1>4. IsSeq(Unit) /\ Unit = header \o source
  BY <1>3, ConcatIsSeq DEF Unit
<1> DEFINE g == Scopes(Unit)
<1>5. Run(Unit, << >>, g)
  BY <1>4, ScopesRun
<1> HIDE DEF g
<1>6. Run(header, << >>, g)
  BY <1>3, <1>4, <1>5, RunSplit
<1>7. g[Len(header)] = << >>
  BY <1>2, <1>6 DEF Leads
<1>8. Leads(Unit, << >>, << >>)
  BY <1>2, <1>4, LeadsConcat
<1>9. g[Len(Unit)] = << >>
  BY <1>5, <1>8 DEF Leads
<1> QED BY <1>7, <1>9 DEF g

\* The braces of the two files match, however deep the package, however many the
\* services and whatever namespace was asked for, unless the file is of the lite
\* runtime (then the namespace that GetSourceDescriptors opens stays open).
THEOREM BracesMatch == Spec => [](~ file.lite => Balanced)
<1>1. IInv => (~ file.lite => Balanced)
  BY BalancedOfInv
<1> QED BY <1>1, Invariance, PTL

-----------------------------------------------------------------------------
(***************************************************************************)
(* A piece as it is read: every token with the namespaces it is read in.   *)
(***************************************************************************)
Reads(b, s, t, q) ==
  /\ IsSeq(b) /\ IsSeq(q) /\ Len(q) = Len(b)
  /\ \A g : Run(b, s, g) => g[Len(b)] = t /\ \A k \in 1 .. Len(b) : q[k] = <<g[k], b[k]>>

\* All of b is read in the namespaces v.
At(v, b) == [k \in 1 .. Len(b) |-> <<v, b[k]>>]

LEMMA AtFacts ==
  ASSUME NEW v, NEW b, IsSeq(b)
  PROVE  /\ IsSeq(At(v, b)) /\ Len(At(v, b)) = Len(b)
         /\ \A k \in 1 .. Len(b) : At(v, b)[k] = <<v, b[k]>>
         /\ Range(At(v, b)) = { <<v, x>> : x \in Range(b) }
<1> DEFINE q == At(v, b)
<1>1. Len(b) \in Nat /\ DOMAIN b = 1 .. Len(b)
  BY SeqFacts
<1>2. /\ DOMAIN q = 1 .. Len(b) /\ q = [k \in 1 .. Len(b) |-> q[k]]
      /\ \A k \in 1 .. Len(b) : q[k] = <<v, b[k]>>
  BY DEF At
<1> HIDE DEF q
<1>3. IsSeq(q) /\ Len(q) = Len(b)
  BY <1>1, <1>2, SeqMade
<1>4. Range(q) = { <<v, x>> : x \in Range(b) }
  BY <1>1, <1>2 DEF Range
<1> QED BY <1>2, <1>3, <1>4 DEF q

LEMMA ReadsConcat ==
  ASSUME NEW a, NEW b, NEW s, NEW t, NEW u, NEW p, NEW q, Reads(a, s, t, p), Reads(b, t, u, q)
  PROVE  Reads(a \o b, s, u, p \o q)
<1>1. IsSeq(a) /\ IsSeq(b) /\ IsSeq(p) /\ IsSeq(q) /\ Len(p) = Len(a) /\ Len(q) = Len(b)
  BY DEF Reads
<1>2. IsSeq(a \o b) /\ Len(a \o b) = Len(a) + Len(b)
  BY <1>1, ConcatFacts
<1>3. IsSeq(p \o q) /\ Len(p \o q) = Len(p) + Len(q)
  BY <1>1, ConcatFacts
<1>4. Len(a) \in Nat /\ Len(b) \in Nat
  BY <1>1, SeqFacts
<1>5. ASSUME NEW g, Run(a \o b, s, g)
      PROVE  /\ g[Len(a \o b)] = u
             /\ \A k \in 1 .. Len(a \o b) : (p \o q)[k] = <<g[k], (a \o b)[k]>>
  <2> DEFINE h == [k \in 0 .. Len(b) |-> g[Len(a) + k]]
  <2>1. Run(a, s, g) /\ Run(b, g[Len(a)], h)
    BY <1>1, <1>5, RunSplit
  <2>2. g[Len(a)] = t /\ \A k \in 1 .. Len(a) : p[k] = <<g[k], a[k]>>
    BY <2>1 DEF Reads
  <2>3. h[Len(b)] = u /\ \A k \in 1 .. Len(b) : q[k] = <<h[k], b[k]>>
    <3> HIDE DEF h
    <3> QED BY <2>1, <2>2 DEF Reads
  <2>4. \A k \in 0 .. Len(b) : h[k] = g[Len(a) + k]
    OBVIOUS
  <2>5. Len(b) \in 0 .. Len(b)
    BY <1>4
  <2> HIDE DEF h
  <2>6. g[Len(a \o b)] = u
    BY <1>2, <2>3, <2>4, <2>5
  <2>7. ASSUME NEW k \in 1 .. Len(a \o b) PROVE (p \o q)[k] = <<g[k], (a \o b)[k]>>
    <3>1. CASE k <= Len(a)
      <4>1. k \in 1 .. Len(a)
        BY <1>2, <1>4, <3>1
      <4>2. (a \o b)[k] = a[k]
        BY <1>1, <4>1, ConcatFacts
      <4>3. (p \o q)[k] = p[k]
        BY <1>1, <4>1, ConcatFacts
      <4> QED BY <2>2, <4>1, <4>2, <4>3
    <3>2. CASE ~ (k <= Len(a))
      <4> DEFINE l == k - Len(a)
      <4>1. l \in 1 .. Len(b) /\ l \in 0 .. Len(b) /\ k = Len(a) + l
        BY <1>2, <1>4, <3>2
      <4> HIDE DEF l
      <4>2. (a \o b)[Len(a) + l] = b[l]
        BY <1>1, <4>1, ConcatBehind
      <4>3. (p \o q)[Len(p) + l] = q[l]
        BY <1>1, <4>1, ConcatBehind
      <4>4. q[l] = <<h[l], b[l]>> /\ h[l] = g[Len(a) + l]
        BY <2>3, <2>4, <4>1
      <4> QED BY <1>1, <4>1, <4>2, <4>3, <4>4
    <3> QED BY <3>1, <3>2
  <2> QED BY <2>6, <2>7
<1>6. Len(p \o q) = Len(a \o b)
  BY <1>1, <1>2, <1>3
<1> QED BY <1>2, <1>3, <1>5, <1>6 DEF Reads

LEMMA ReadsNowhere ==
  ASSUME NEW s
  PROVE  Reads(<< >>, s, s, << >>)
<1>1. ASSUME NEW k \in 1 .. 0 PROVE FALSE
  OBVIOUS
<1> QED BY <1>1, EmptyFacts DEF Reads, Run

LEMMA ReadsFlatten ==
  ASSUME NEW seqs, Parts(seqs), NEW qs, Parts(qs), Len(qs) = Len(seqs), NEW s,
         \A i \in 1 .. Len(seqs) : Reads(seqs[i], s, s, qs[i])
  PROVE  Reads(FlattenSeq(seqs), s, s, FlattenSeq(qs))
<1>1. PICK g : Joins(seqs, g) /\ FlattenSeq(seqs) = g[Len(seqs)]
  BY FlattenIs
<1>2. PICK h : Joins(qs, h) /\ FlattenSeq(qs) = h[Len(qs)]
  BY FlattenIs
<1>3. Len(seqs) \in Nat
  BY SeqFacts DEF Parts
<1> DEFINE S == { k \in Nat : k <= Len(seqs) => Reads(g[k], s, s, h[k]) }
<1>4. 0 \in S
  BY <1>1, <1>2, ReadsNowhere DEF Joins
<1>5. ASSUME NEW k \in Nat, k \in S PROVE k + 1 \in S
  <2> SUFFICES ASSUME k + 1 <= Len(seqs) PROVE Reads(g[k + 1], s, s, h[k + 1])
    OBVIOUS
  <2>1. k + 1 \in 1 .. Len(seqs) /\ Reads(g[k], s, s, h[k])
    BY <1>3, <1>5
  <2>2. g[k + 1] = g[k] \o seqs[k + 1] /\ Reads(seqs[k + 1], s, s, qs[k + 1])
    BY <1>1, <2>1, JoinsNext
  <2>3. h[k + 1] = h[k] \o qs[k + 1]
    BY <1>2, <2>1, JoinsNext
  <2> QED BY <2>1, <2>2, <2>3, ReadsConcat
<1> HIDE DEF S
<1>6. Len(seqs) \in S
  BY <1>3, <1>4, <1>5, NatInd
<1> QED BY <1>1, <1>2, <1>3, <1>6 DEF S

LEMMA ReadsFlat ==
  ASSUME NEW b, Flat(b), NEW v
  PROVE  Reads(b, v, v, At(v, b))
<1>1. IsSeq(b) /\ Len(b) \in 0 .. Len(b) /\ \A k \in 1 .. Len(b) : k \in 0 .. Len(b)
  <2>1. IsSeq(b) /\ Len(b) \in Nat
    BY SeqFacts DEF Flat
  <2> QED BY <2>1
<1>2. \A g : Run(b, v, g) => \A k \in 0 .. Len(b) : g[k] = v
  BY RunFlat
<1> QED BY <1>1, <1>2, AtFacts DEF Reads

LEMMA ReadsWithin ==
  ASSUME NEW b, NEW w, NEW v, Within(b, w, v)
  PROVE  Reads(b, w, v, At(v, b))
<1>1. IsSeq(b) /\ Len(b) \in 1 .. Len(b)
  <2>1. IsSeq(b) /\ Len(b) \in Nat /\ Len(b) # 0
    BY SeqFacts DEF Within
  <2> QED BY <2>1
<1>2. \A g : Run(b, w, g) => \A k \in 1 .. Len(b) : g[k] = v
  BY DEF Within
<1> QED BY <1>1, <1>2, AtFacts DEF Reads

\* There is one run only.
LEMMA RunUnique ==
  ASSUME NEW b, IsSeq(b), NEW s, NEW g, Run(b, s, g), NEW h, Run(b, s, h), NEW n \in 0 .. Len(b)
  PROVE  g[n] = h[n]
<1> DEFINE S == { k \in Nat : k <= Len(b) => g[k] = h[k] }
<1>1. Len(b) \in Nat
  BY SeqFacts
<1>2. 0 \in S
  BY DEF Run
<1>3. ASSUME NEW k \in Nat, k \in S PROVE k + 1 \in S
  <2> SUFFICES ASSUME k + 1 <= Len(b) PROVE g[k + 1] = h[k + 1]
    OBVIOUS
  <2>1. k + 1 \in 1 .. Len(b) /\ g[k] = h[k]
    BY <1>1, <1>3
  <2>2. g[k + 1] = Braces(g[k], b[k + 1])
    BY <2>1, RunNext
  <2>3. h[k + 1] = Braces(h[k], b[k + 1])
    BY <2>1, RunNext
  <2> QED BY <2>1, <2>2, <2>3
<1> HIDE DEF S
<1>4. n \in S
  BY <1>1, <1>2, <1>3, NatInd
<1> QED BY <1>1, <1>4 DEF S

LEMMA ReadsSomewhere ==
  ASSUME NEW b, NEW s, NEW t, Leads(b, s, t)
  PROVE  \E q : Reads(b, s, t, q) /\ \A x \in Range(q) : \E w : \E y \in Range(b) : x = <<w, y>>
<1>1. IsSeq(b) /\ Len(b) \in Nat /\ \A k \in 1 .. Len(b) : b[k] \in Range(b) /\ k \in 0 .. Len(b)
  BY SeqFacts DEF Leads
<1>2. CASE \E g : Run(b, s, g)
  <2>1. PICK g : Run(b, s, g)
    BY <1>2
  <2> DEFINE q == [k \in 1 .. Len(b) |-> <<g[k], b[k]>>]
  <2>2. DOMAIN q = 1 .. Len(b) /\ q = [k \in 1 .. Len(b) |-> q[k]]
        /\ \A k \in 1 .. Len(b) : q[k] = <<g[k], b[k]>>
    OBVIOUS
  <2> HIDE DEF q
  <2>3. IsSeq(q) /\ Len(q) = Len(b)
    BY <1>1, <2>2, SeqMade
  <2>4. ASSUME NEW h, Run(b, s, h) PROVE h[Len(b)] = t /\ \A k \in 1 .. Len(b) : q[k] = <<h[k], b[k]>>
    <3>1. \A k \in 1 .. Len(b) : h[k] = g[k]
      BY <1>1, <2>1, <2>4, RunUnique
    <3> QED BY <2>2, <2>4, <3>1 DEF Leads
  <2>5. Reads(b, s, t, q)
    BY <1>1, <2>3, <2>4 DEF Reads
  <2>6. \A x \in Range(q) : \E w : \E y \in Range(b) : x = <<w, y>>
    BY <1>1, <2>2 DEF Range
  <2> QED BY <2>5, <2>6
<1>3. CASE ~ \E g : Run(b, s, g)
  <2>1. Reads(b, s, t, At(s, b))
    BY <1>1, <1>3, AtFacts DEF Reads
  <2>2. \A x \in Range(At(s, b)) : \E w : \E y \in Range(b) : x = <<w, y>>
    BY <1>1, AtFacts
  <2> QED BY <2>1, <2>2
<1> QED BY <1>2, <1>3

-----------------------------------------------------------------------------
(***************************************************************************)
(* The two files as they are read: bare braces of the package around       *)
(* blocks, one of each service and one of the descriptors.                 *)
(***************************************************************************)
Bare(q) == IsSeq(q) /\ \A x \in Range(q) : ~ Quiet(x[2])

\* A namespace v that is closed again.
Block(v, w, b) == At(v, b) \o << <<w, Close>> >>

LEMMA BlockFacts ==
  ASSUME NEW v, NEW w, NEW b, IsSeq(b)
  PROVE  /\ IsSeq(Block(v, w, b))
         /\ Range(Block(v, w, b)) = { <<v, x>> : x \in Range(b) } \cup { <<w, Close>> }
<1>1. IsSeq(At(v, b)) /\ Range(At(v, b)) = { <<v, x>> : x \in Range(b) }
  BY AtFacts
<1> DEFINE q == At(v, b)
           x == <<w, Close>>
           one == <<x>>
<1>2. IsSeq(one) /\ Range(one) = {x}
  BY OneFacts
<1> HIDE DEF q, x, one
<1>3. IsSeq(q \o one) /\ Range(q \o one) = Range(q) \cup Range(one)
  BY <1>1, <1>2, ConcatIsSeq, ConcatRange DEF q
<1>4. Block(v, w, b) = q \o one
  BY DEF Block, q, x, one
<1> QED BY <1>1, <1>2, <1>3, <1>4 DEF q, x

LEMMA ReadsBlock ==
  ASSUME NEW name, NEW w, IsSeq(w), NEW b, Within(b, w, Append(w, name))
  PROVE  Reads(b \o <<Close>>, w, w, Block(Append(w, name), w, b))
<1> DEFINE v == Append(w, name)
           close == <<Close>>
           q == << <<w, Close>> >>
<1>1. Reads(b, w, v, At(v, b))
  BY ReadsWithin
<1>2. IsSeq(close) /\ Len(close) = 1 /\ close[1] = Close
  BY OneFacts
<1>3. IsSeq(q) /\ Len(q) = 1 /\ q[1] = <<w, Close>>
  BY OneFacts
<1>4. Leads(close, v, w)
  BY LeadsClose
<1> HIDE DEF v, close, q
<1>5. ASSUME NEW g, Run(close, v, g) PROVE g[1] = w
  BY <1>2, <1>4, <1>5 DEF Leads
<1>6. \A k \in 1 .. 1 : k = 1
  OBVIOUS
<1>7. Reads(close, v, w, q)
  BY <1>2, <1>3, <1>5, <1>6 DEF Reads
<1>8. Reads(b \o close, w, w, At(v, b) \o q)
  BY <1>1, <1>7, ReadsConcat
<1> QED BY <1>8 DEF v, close, q, Block

HeaderBlocks ==
  [i \in DOMAIN file.services |->
     Block(Append(file.package, file.services[i].name), file.package,
           HeaderInner(file.services[i]))]

SourceBlocks ==
  [i \in DOMAIN file.services |->
     Block(Append(file.package, file.services[i].name), file.package,
           SourceInner(file.services[i]))]

LEMMA InnerSeqs ==
  ASSUME NEW s \in ServiceDescriptor
  PROVE  IsSeq(HeaderInner(s)) /\ IsSeq(SourceInner(s))
BY InnerWithin DEF Within

LEMMA BlocksFacts ==
  ASSUME file \in Files
  PROVE  /\ Parts(HeaderBlocks) /\ Len(HeaderBlocks) = Len(file.services)
         /\ Parts(SourceBlocks) /\ Len(SourceBlocks) = Len(file.services)
         /\ DOMAIN file.services = 1 .. Len(file.services)
<1>1. IsSeq(file.services) /\ DOMAIN file.services = 1 .. Len(file.services)
  BY FileFacts, SeqFacts
<1>2. ASSUME NEW i \in DOMAIN file.services
      PROVE  IsSeq(HeaderBlocks[i]) /\ IsSeq(SourceBlocks[i])
  <2>1. file.services[i] \in ServiceDescriptor
    BY FileFacts
  <2> QED BY <2>1, InnerSeqs, BlockFacts DEF HeaderBlocks, SourceBlocks
<1>3. /\ DOMAIN HeaderBlocks = DOMAIN file.services
      /\ HeaderBlocks = [i \in DOMAIN file.services |-> HeaderBlocks[i]]
      /\ DOMAIN SourceBlocks = DOMAIN file.services
      /\ SourceBlocks = [i \in DOMAIN file.services |-> SourceBlocks[i]]
  BY DEF HeaderBlocks, SourceBlocks
<1>4. Parts(HeaderBlocks) /\ Len(HeaderBlocks) = Len(file.services)
  BY <1>1, <1>2, <1>3, PartsMade
<1>5. Parts(SourceBlocks) /\ Len(SourceBlocks) = Len(file.services)
  BY <1>1, <1>2, <1>3, PartsMade
<1> QED BY <1>1, <1>4, <1>5

LEMMA ServicesRead ==
  ASSUME file \in Files
  PROVE  /\ Reads(Each(file.services, PrintHeaderService), file.package, file.package,
                  FlattenSeq(HeaderBlocks))
         /\ Reads(Each(file.services, PrintSourceService), file.package, file.package,
                  FlattenSeq(SourceBlocks))
<1> DEFINE a == [i \in DOMAIN file.services |-> PrintHeaderService(file.services[i])]
           b == [i \in DOMAIN file.services |-> PrintSourceService(file.services[i])]
           p == file.package
<1>1. IsSeq(file.services) /\ DOMAIN file.services = 1 .. Len(file.services) /\ IsSeq(p)
  BY FileFacts, SeqFacts
<1>2. ASSUME NEW i \in DOMAIN file.services
      PROVE  Reads(a[i], p, p, HeaderBlocks[i]) /\ Reads(b[i], p, p, SourceBlocks[i])
  <2> DEFINE s == file.services[i]
             v == Append(p, s.name)
  <2>1. s \in ServiceDescriptor
    BY FileFacts
  <2>2. /\ a[i] = HeaderInner(s) \o <<Close>> /\ HeaderBlocks[i] = Block(v, p, HeaderInner(s))
        /\ b[i] = SourceInner(s) \o <<Close>> /\ SourceBlocks[i] = Block(v, p, SourceInner(s))
    BY InnerClosed DEF HeaderBlocks, SourceBlocks
  <2> HIDE DEF s, a, b, p
  <2>3. Within(HeaderInner(s), p, v) /\ Within(SourceInner(s), p, v)
    BY <2>1, InnerWithin
  <2> QED BY <1>1, <2>2, <2>3, ReadsBlock
<1>3. /\ DOMAIN a = DOMAIN file.services /\ a = [i \in DOMAIN file.services |-> a[i]]
      /\ DOMAIN b = DOMAIN file.services /\ b = [i \in DOMAIN file.services |-> b[i]]
  OBVIOUS
<1>4. /\ Each(file.services, PrintHeaderService) = FlattenSeq(a)
      /\ Each(file.services, PrintSourceService) = FlattenSeq(b)
  BY DEF Each
<1> HIDE DEF a, b, p
<1>5. \A i \in DOMAIN file.services : IsSeq(a[i]) /\ IsSeq(b[i])
  BY <1>2 DEF Reads
<1>6. Parts(a) /\ Len(a) = Len(file.services)
  BY <1>1, <1>3, <1>5, PartsMade
<1>7. Parts(b) /\ Len(b) = Len(file.services)
  BY <1>1, <1>3, <1>5, PartsMade
<1>8. Reads(FlattenSeq(a), p, p, FlattenSeq(HeaderBlocks))
  BY <1>1, <1>2, <1>6, BlocksFacts, ReadsFlatten
<1>9. Reads(FlattenSeq(b), p, p, FlattenSeq(SourceBlocks))
  BY <1>1, <1>2, <1>7, BlocksFacts, ReadsFlatten
<1> QED BY <1>4, <1>8, <1>9 DEF p

LEMMA BracesLoud == (\A name : ~ Quiet(Open(name))) /\ ~ Quiet(Close)
BY DEF Quiet, Open, Close

LEMMA BareOf ==
  ASSUME NEW B, \A y \in B : ~ Quiet(y),
         NEW q, IsSeq(q), \A x \in Range(q) : \E w : \E y \in B : x = <<w, y>>
  PROVE  Bare(q)
<1>1. ASSUME NEW x \in Range(q) PROVE ~ Quiet(x[2])
  <2>1. PICK w : \E y \in B : x = <<w, y>>
    BY <1>1
  <2>2. PICK y \in B : x = <<w, y>>
    BY <2>1
  <2>3. x[2] = y
    BY <2>2
  <2> QED BY <2>3
<1> QED BY <1>1 DEF Bare

LEMMA PackageReads ==
  ASSUME file \in Files
  PROVE  /\ \E q : Reads(OpenPackage, << >>, file.package, q) /\ Bare(q)
         /\ \E q : Reads(ClosePackage, file.package, << >>, q) /\ Bare(q)
<1>1. \A x \in Range(OpenPackage) : ~ Quiet(x)
  <2>1. \A x \in Range(OpenPackage) : \E name : x = Open(name)
    BY DEF Range, OpenPackage
  <2> QED BY <2>1, BracesLoud
<1>2. \A x \in Range(ClosePackage) : ~ Quiet(x)
  <2>1. \A x \in Range(ClosePackage) : x = Close
    BY DEF Range, ClosePackage
  <2> QED BY <2>1, BracesLoud
<1>3. PICK q : /\ Reads(OpenPackage, << >>, file.package, q)
               /\ \A x \in Range(q) : \E w : \E y \in Range(OpenPackage) : x = <<w, y>>
  BY PackageLeads, ReadsSomewhere
<1>4. IsSeq(q)
  BY <1>3 DEF Reads
<1>5. Bare(q)
  BY <1>1, <1>3, <1>4, BareOf
<1>6. PICK r : /\ Reads(ClosePackage, file.package, << >>, r)
               /\ \A x \in Range(r) : \E w : \E y \in Range(ClosePackage) : x = <<w, y>>
  BY PackageLeads, ReadsSomewhere
<1>7. IsSeq(r)
  BY <1>6 DEF Reads
<1>8. Bare(r)
  BY <1>2, <1>6, <1>7, BareOf
<1> QED BY <1>3, <1>5, <1>6, <1>8

-----------------------------------------------------------------------------
\* The block of the descriptors, in a file that is not lite.
Assign == [tok |-> "assign", to |-> [i \in DOMAIN file.services |->
                                       ServiceDescriptorOf(file.services[i])]]
Once == Def("", AssignDescriptorsOnce, << >>, {}, 0, {})
Pointers == Each(file.services, LAMBDA s : << Var(ServiceDescriptorOf(s)) >>)

DescriptorsInner == (<< Open("") >> \o Pointers) \o <<Assign, Once>>

LEMMA PointersFacts ==
  ASSUME file \in Files
  PROVE  /\ Flat(Pointers)
         /\ Range(Pointers) = { Var(ServiceDescriptorOf(file.services[i])) : i \in DOMAIN file.services }
<1> DEFINE f == [i \in DOMAIN file.services |-> << Var(ServiceDescriptorOf(file.services[i])) >>]
<1>1. \A i \in DOMAIN file.services : Flat(f[i])
  BY QuietTokens, FlatOne
<1>2. /\ DOMAIN f = DOMAIN file.services /\ f = [i \in DOMAIN file.services |-> f[i]]
      /\ \A i \in DOMAIN file.services : f[i] = << Var(ServiceDescriptorOf(file.services[i])) >>
  OBVIOUS
<1>3. Pointers = FlattenSeq(f)
  BY DEF Pointers, Each
<1> HIDE DEF f
<1>4. IsSeq(file.services) /\ DOMAIN file.services = 1 .. Len(file.services)
  BY FileFacts, SeqFacts
<1>5. Flat(FlattenSeq(f))
  BY <1>1, <1>2, <1>4, FlatEach
<1>6. Parts(f) /\ Len(f) = Len(file.services)
  BY <1>1, <1>2, <1>4, PartsMade DEF Flat
<1>7. Range(FlattenSeq(f)) = UNION { Range(f[i]) : i \in DOMAIN file.services }
  BY <1>4, <1>6, FlattenRange
<1>8. \A i \in DOMAIN file.services : Range(f[i]) = { Var(ServiceDescriptorOf(file.services[i])) }
  BY <1>2, OneFacts
<1> DEFINE D == DOMAIN file.services
           V(i) == Var(ServiceDescriptorOf(file.services[i]))
<1> HIDE DEF D, V
<1>9. UNION { Range(f[i]) : i \in D } = { V(i) : i \in D }
  <2>1. \A i \in D : Range(f[i]) = {V(i)}
    BY <1>8 DEF D, V
  <2> QED BY <2>1
<1> QED BY <1>3, <1>5, <1>7, <1>9 DEF D, V

LEMMA AssignOnceFacts ==
  /\ Quiet(Assign) /\ Quiet(Once)
  /\ Flat(<<Assign, Once>>) /\ Range(<<Assign, Once>>) = {Assign, Once}
  /\ Assign.tok = "assign" /\ Once.tok = "def"
<1>1. Quiet(Assign) /\ Quiet(Once) /\ Assign.tok = "assign" /\ Once.tok = "def"
  BY DEF Quiet, Assign, Once, Def
<1> DEFINE two == <<Assign, Once>>
<1>2. Flat(two)
  BY <1>1, FlatTuples
<1>3. IsSeq(two) /\ Len(two) = 2 /\ two[1] = Assign /\ two[2] = Once
  BY TwoFacts
<1> HIDE DEF two
<1>4. DOMAIN two = 1 .. 2
  BY <1>3, SeqFacts
<1>5. 1 .. 2 = {1, 2}
  OBVIOUS
<1>6. Range(two) = {Assign, Once}
  BY <1>3, <1>4, <1>5 DEF Range
<1> QED BY <1>1, <1>2, <1>6 DEF two

LEMMA DescriptorsWithin ==
  ASSUME file \in Files, NEW w
  PROVE  Within(DescriptorsInner, w, Append(w, ""))
<1>1. Within(<<Open("")>>, w, Append(w, ""))
  BY WithinOpen
<1>2. Within(<<Open("")>> \o Pointers, w, Append(w, ""))
  BY <1>1, PointersFacts, WithinMore
<1> QED BY <1>2, AssignOnceFacts, WithinMore DEF DescriptorsInner

LEMMA DescriptorsRange ==
  ASSUME file \in Files
  PROVE  /\ IsSeq(DescriptorsInner)
         /\ Range(DescriptorsInner) = ({Open("")} \cup Range(Pointers)) \cup {Assign, Once}
<1> DEFINE o == <<Open("")>>
           two == <<Assign, Once>>
<1>1. IsSeq(o) /\ Range(o) = {Open("")}
  BY OneFacts
<1>2. IsSeq(Pointers)
  BY PointersFacts DEF Flat
<1>3. IsSeq(two) /\ Range(two) = {Assign, Once}
  BY AssignOnceFacts DEF Flat
<1> DEFINE q == o \o Pointers
<1>4. DescriptorsInner = q \o two
  BY DEF DescriptorsInner
<1> HIDE DEF o, two
<1>5. IsSeq(q) /\ Range(q) = Range(o) \cup Range(Pointers)
  BY <1>1, <1>2, ConcatIsSeq, ConcatRange
<1> HIDE DEF q
<1>6. IsSeq(q \o two) /\ Range(q \o two) = Range(q) \cup Range(two)
  BY <1>3, <1>5, ConcatIsSeq, ConcatRange
<1> QED BY <1>1, <1>3, <1>4, <1>5, <1>6

LEMMA DescriptorsClosed ==
  ASSUME file \in Files, ~ file.lite
  PROVE  GetSourceDescriptors = DescriptorsInner \o <<Close>>
<1> DEFINE o == << Open("") >>
           q == o \o Pointers
           c == <<Close>>
           two == <<Assign, Once>>
           three == <<Assign, Once, Close>>
<1>1. GetSourceDescriptors = q \o three
  BY DEF GetSourceDescriptors, HasDescriptorMethods, Pointers, Assign, Once
<1>2. DescriptorsInner = q \o two
  BY DEF DescriptorsInner
<1>3. IsSeq(two) /\ IsSeq(c) /\ IsSeq(q)
  <2>1. IsSeq(o)
    BY OneFacts
  <2>2. IsSeq(Pointers)
    BY PointersFacts DEF Flat
  <2>3. IsSeq(two)
    BY AssignOnceFacts DEF Flat
  <2> HIDE DEF o
  <2>4. IsSeq(q)
    BY <2>1, <2>2, ConcatIsSeq
  <2> QED BY <2>3, <2>4, OneFacts
<1>4. two \o c = three
  <2> DEFINE x == Assign
             y == Once
             z == Close
  <2> HIDE DEF x, y, z
  <2>1. <<x, y>> = <<x>> \o <<y>> /\ <<y>> \o <<z>> = <<y, z>>
    BY TwoFacts
  <2>2. (<<x>> \o <<y>>) \o <<z>> = <<x>> \o (<<y>> \o <<z>>)
    BY OneFacts, ConcatAssoc
  <2>3. <<x>> \o <<y, z>> = <<x, y, z>>
    BY ThreeJoined
  <2>4. <<x, y>> \o <<z>> = <<x, y, z>>
    BY <2>1, <2>2, <2>3
  <2> QED BY <2>4 DEF x, y, z
<1> HIDE DEF q, c, two, three
<1>5. (q \o two) \o c = q \o (two \o c)
  BY <1>3, ConcatAssoc
<1> QED BY <1>1, <1>2, <1>4, <1>5 DEF c

DescriptorsBlock == Block(Append(file.package, ""), file.package, DescriptorsInner)

LEMMA SourceReads ==
  ASSUME file \in Files, ~ file.lite
  PROVE  \E p, q : /\ Bare(p) /\ Bare(q)
                   /\ Reads(Source, << >>, << >>,
                            ((p \o DescriptorsBlock) \o FlattenSeq(SourceBlocks)) \o q)
<1> DEFINE w == file.package
<1>1. IsSeq(w)
  BY FileFacts
<1>2. PICK p : Reads(OpenPackage, << >>, w, p) /\ Bare(p)
  BY PackageReads
<1>3. PICK q : Reads(ClosePackage, w, << >>, q) /\ Bare(q)
  BY PackageReads
<1>4. Reads(GetSourceDescriptors, w, w, DescriptorsBlock)
  <2>1. Within(DescriptorsInner, w, Append(w, ""))
    BY DescriptorsWithin
  <2> HIDE DEF w
  <2>2. Reads(DescriptorsInner \o <<Close>>, w, w, Block(Append(w, ""), w, DescriptorsInner))
    BY <1>1, <2>1, ReadsBlock
  <2> QED BY <2>2, DescriptorsClosed DEF DescriptorsBlock, w
<1> DEFINE a == OpenPackage
           b == GetSourceDescriptors
           c == Each(file.services, PrintSourceService)
           d == ClosePackage
           r == FlattenSeq(SourceBlocks)
<1>5. Reads(c, w, w, r)
  BY ServicesRead
<1>6. Source = ((a \o b) \o c) \o d
  BY DEF Source
<1> HIDE DEF w, a, b, c, d, r
<1>7. Reads(a \o b, << >>, w, p \o DescriptorsBlock)
  BY <1>2, <1>4, ReadsConcat DEF a, b
<1>8. Reads((a \o b) \o c, << >>, w, (p \o DescriptorsBlock) \o r)
  BY <1>5, <1>7, ReadsConcat
<1>9. Reads(((a \o b) \o c) \o d, << >>, << >>, ((p \o DescriptorsBlock) \o r) \o q)
  BY <1>3, <1>8, ReadsConcat DEF d
<1> QED BY <1>2, <1>3, <1>6, <1>9 DEF r

LEMMA HeaderReads ==
  ASSUME file \in Files, services_namespace = ""
  PROVE  \E p, q : /\ Bare(p) /\ Bare(q)
                   /\ Reads(Header, << >>, << >>,
                            ((At(<< >>, GetHeaderPrologue) \o p) \o FlattenSeq(HeaderBlocks)) \o q)
<1> DEFINE w == file.package
<1>2. PICK p : Reads(OpenPackage, << >>, w, p) /\ Bare(p)
  BY PackageReads
<1>3. PICK q : Reads(ClosePackage, w, << >>, q) /\ Bare(q)
  BY PackageReads
<1>4. Reads(GetHeaderPrologue, << >>, << >>, At(<< >>, GetHeaderPrologue))
  BY QuietTokens, FlatOne, ReadsFlat DEF GetHeaderPrologue
<1> DEFINE a == GetHeaderPrologue
           b == OpenPackage
           c == GetHeaderServices
           d == ClosePackage
           r == FlattenSeq(HeaderBlocks)
           o == At(<< >>, GetHeaderPrologue)
<1>5. Reads(c, w, w, r)
  BY ServicesRead DEF GetHeaderServices
<1>6. Header = ((a \o b) \o c) \o d
  BY DEF Header
<1> HIDE DEF w, a, b, c, d, r, o
<1>7. Reads(a \o b, << >>, w, o \o p)
  BY <1>2, <1>4, ReadsConcat DEF a, b, o
<1>8. Reads((a \o b) \o c, << >>, w, (o \o p) \o r)
  BY <1>5, <1>7, ReadsConcat
<1>9. Reads(((a \o b) \o c) \o d, << >>, << >>, ((o \o p) \o r) \o q)
  BY <1>3, <1>8, ReadsConcat DEF d
<1> QED BY <1>2, <1>3, <1>6, <1>9 DEF r, o
-----------------------------------------------------------------------------
\* What Scopes says of a unit.
LEMMA ReadsScopes ==
  ASSUME NEW unit, NEW t, NEW q, Reads(unit, << >>, t, q)
  PROVE  /\ IsSeq(unit) /\ IsSeq(q) /\ DOMAIN unit = 1 .. Len(unit) /\ Len(q) = Len(unit)
         /\ Len(unit) \in Nat
         /\ \A k \in DOMAIN unit : q[k] = <<Scopes(unit)[k], unit[k]>>
         /\ \A w, x : (\E k \in DOMAIN unit : Scopes(unit)[k] = w /\ unit[k] = x)
                        <=> <<w, x>> \in Range(q)
<1>1. IsSeq(unit) /\ IsSeq(q) /\ Len(q) = Len(unit)
  BY DEF Reads
<1>2. /\ DOMAIN unit = 1 .. Len(unit) /\ Len(unit) \in Nat /\ DOMAIN q = 1 .. Len(unit)
  BY <1>1, SeqFacts
<1>3. Run(unit, << >>, Scopes(unit))
  BY <1>1, ScopesRun
<1>4. \A k \in DOMAIN unit : q[k] = <<Scopes(unit)[k], unit[k]>>
  BY <1>2, <1>3 DEF Reads
<1> DEFINE g == Scopes(unit)
<1> HIDE DEF g
<1>5. ASSUME NEW w, NEW x
      PROVE  (\E k \in DOMAIN unit : g[k] = w /\ unit[k] = x) <=> <<w, x>> \in Range(q)
  <2>1. Range(q) = { q[k] : k \in DOMAIN unit }
    BY <1>2 DEF Range
  <2>2. \A k \in DOMAIN unit : q[k] = <<w, x>> <=> g[k] = w /\ unit[k] = x
    BY <1>4 DEF g
  <2> QED BY <2>1, <2>2
<1> QED BY <1>1, <1>2, <1>4, <1>5 DEF g

\* The range of four sequences, one behind the other.
LEMMA FourRange ==
  ASSUME NEW a, IsSeq(a), NEW b, IsSeq(b), NEW c, IsSeq(c), NEW d, IsSeq(d)
  PROVE  /\ IsSeq(((a \o b) \o c) \o d)
         /\ Range(((a \o b) \o c) \o d) = ((Range(a) \cup Range(b)) \cup Range(c)) \cup Range(d)
<1>1. IsSeq(a \o b) /\ Range(a \o b) = Range(a) \cup Range(b)
  BY ConcatIsSeq, ConcatRange
<1> DEFINE p == a \o b
<1> HIDE DEF p
<1>2. IsSeq(p \o c) /\ Range(p \o c) = Range(p) \cup Range(c)
  BY <1>1, ConcatIsSeq, ConcatRange DEF p
<1> DEFINE q == p \o c
<1> HIDE DEF q
<1>3. IsSeq(q \o d) /\ Range(q \o d) = Range(q) \cup Range(d)
  BY <1>2, ConcatIsSeq, ConcatRange DEF q
<1> QED BY <1>1, <1>2, <1>3 DEF p, q

LEMMA AppendDistinct ==
  ASSUME NEW p, IsSeq(p), NEW x, NEW y, Append(p, x) = Append(p, y)
  PROVE  x = y
<1> DEFINE S == Range(p) \cup {x, y}
<1>1. p \in Seq(S) /\ x \in S /\ y \in S
  BY SeqMonotonic DEF IsSeq
<1> HIDE DEF S
<1>2. Append(p, x)[Len(p) + 1] = x /\ Append(p, y)[Len(p) + 1] = y
  BY <1>1, AppendProperties
<1> QED BY <1>2

LEMMA InBlock ==
  ASSUME NEW v, NEW Z, NEW u, NEW c, NEW w, NEW x, x # c
  PROVE  <<w, x>> \in { <<v, z>> : z \in Z } \cup { <<u, c>> } <=> w = v /\ x \in Z
OBVIOUS

LEMMA SourcePlaces ==
  ASSUME file \in Files, ~ file.lite, NEW w, NEW x, Quiet(x)
  PROVE  (\E k \in DOMAIN Source : Scopes(Source)[k] = w /\ Source[k] = x)
           <=> \/ w = Append(file.package, "") /\ x \in Range(DescriptorsInner)
               \/ \E i \in DOMAIN file.services :
                    /\ w = Append(file.package, file.services[i].name)
                    /\ x \in Range(SourceInner(file.services[i]))
<1>1. PICK p, q : /\ Bare(p) /\ Bare(q)
                  /\ Reads(Source, << >>, << >>,
                           ((p \o DescriptorsBlock) \o FlattenSeq(SourceBlocks)) \o q)
  BY SourceReads
<1> DEFINE all == ((p \o DescriptorsBlock) \o FlattenSeq(SourceBlocks)) \o q
           D == DOMAIN file.services
           y == <<w, x>>
<1>2. (\E k \in DOMAIN Source : Scopes(Source)[k] = w /\ Source[k] = x) <=> y \in Range(all)
  BY <1>1, ReadsScopes
<1>3. /\ IsSeq(DescriptorsBlock)
      /\ Range(DescriptorsBlock) = { <<Append(file.package, ""), z>> : z \in Range(DescriptorsInner) }
                                     \cup { <<file.package, Close>> }
  <2> DEFINE v == Append(file.package, "")
             b == DescriptorsInner
  <2> HIDE DEF v, b
  <2>1. IsSeq(b)
    BY DescriptorsRange DEF b
  <2>2. /\ IsSeq(Block(v, file.package, b))
        /\ Range(Block(v, file.package, b)) = { <<v, z>> : z \in Range(b) } \cup { <<file.package, Close>> }
    BY <2>1, BlockFacts
  <2> QED BY <2>2 DEF DescriptorsBlock, v, b
<1>4. /\ IsSeq(FlattenSeq(SourceBlocks))
      /\ Range(FlattenSeq(SourceBlocks)) = UNION { Range(SourceBlocks[i]) : i \in D }
  <2>1. Parts(SourceBlocks) /\ D = 1 .. Len(SourceBlocks)
    BY BlocksFacts
  <2> HIDE DEF D
  <2>2. IsSeq(FlattenSeq(SourceBlocks))
    BY <2>1, FlattenIsSeq
  <2>3. Range(FlattenSeq(SourceBlocks)) = UNION { Range(SourceBlocks[i]) : i \in 1 .. Len(SourceBlocks) }
    BY <2>1, FlattenRange
  <2> QED BY <2>1, <2>2, <2>3
<1>5. Range(all) = ((Range(p) \cup Range(DescriptorsBlock)) \cup Range(FlattenSeq(SourceBlocks)))
                     \cup Range(q)
  <2> DEFINE b == DescriptorsBlock
             c == FlattenSeq(SourceBlocks)
  <2>1. all = ((p \o b) \o c) \o q
    OBVIOUS
  <2> HIDE DEF b, c, all
  <2>2. IsSeq(p) /\ IsSeq(q) /\ IsSeq(b) /\ IsSeq(c)
    BY <1>1, <1>3, <1>4 DEF Bare, b, c
  <2>3. Range(all) = ((Range(p) \cup Range(b)) \cup Range(c)) \cup Range(q)
    BY <2>1, <2>2, FourRange
  <2> QED BY <2>3 DEF b, c
<1>6. y \notin Range(p) /\ y \notin Range(q)
  <2>1. y[2] = x
    OBVIOUS
  <2> HIDE DEF y
  <2> QED BY <1>1, <2>1 DEF Bare
<1>7. x # Close
  BY BracesLoud
<1>8. y \in Range(DescriptorsBlock)
        <=> w = Append(file.package, "") /\ x \in Range(DescriptorsInner)
  <2> DEFINE v == Append(file.package, "")
  <2> HIDE DEF v
  <2>1. Range(DescriptorsBlock) = { <<v, z>> : z \in Range(DescriptorsInner) } \cup { <<file.package, Close>> }
    BY <1>3 DEF v
  <2>2. y \in Range(DescriptorsBlock) <=> w = v /\ x \in Range(DescriptorsInner)
    BY <1>7, <2>1, InBlock
  <2> QED BY <2>2 DEF v
<1>9. ASSUME NEW i \in D
      PROVE  y \in Range(SourceBlocks[i])
               <=> /\ w = Append(file.package, file.services[i].name)
                   /\ x \in Range(SourceInner(file.services[i]))
  <2> DEFINE s == file.services[i]
             v == Append(file.package, s.name)
  <2>1. SourceBlocks[i] = Block(v, file.package, SourceInner(s))
    BY DEF SourceBlocks
  <2>2. IsSeq(SourceInner(s))
    BY FileFacts, InnerSeqs
  <2> HIDE DEF s, v
  <2>3. Range(SourceBlocks[i]) = { <<v, z>> : z \in Range(SourceInner(s)) } \cup { <<file.package, Close>> }
    BY <2>1, <2>2, BlockFacts
  <2>4. y \in Range(SourceBlocks[i]) <=> w = v /\ x \in Range(SourceInner(s))
    BY <1>7, <2>3, InBlock
  <2> QED BY <2>4 DEF s, v
<1>10. y \in Range(FlattenSeq(SourceBlocks)) <=> \E i \in D : y \in Range(SourceBlocks[i])
  BY <1>4
<1> HIDE DEF y, all
<1> QED BY <1>2, <1>5, <1>6, <1>8, <1>9, <1>10
-----------------------------------------------------------------------------
(***************************************************************************)
(* What is in a block.                                                     *)
(***************************************************************************)
LEMMA TwoRange ==
  ASSUME NEW x, NEW y
  PROVE  Range(<<x, y>>) = {x, y}
<1>1. 1 .. 2 = {1, 2}
  OBVIOUS
<1> QED BY <1>1 DEF Range

LEMMA ThreeRange ==
  ASSUME NEW x, NEW y, NEW z
  PROVE  Range(<<x, y, z>>) = {x, y, z}
<1>1. 1 .. 3 = {1, 2, 3}
  OBVIOUS
<1> QED BY <1>1 DEF Range

LEMMA FourElements ==
  ASSUME NEW x, NEW y, NEW z, NEW v
  PROVE  Range(<<x, y, z, v>>) = {x, y, z, v}
<1>1. 1 .. 4 = {1, 2, 3, 4}
  OBVIOUS
<1> QED BY <1>1 DEF Range

LEMMA EachRange ==
  ASSUME NEW seq, IsSeq(seq), NEW f, DOMAIN f = DOMAIN seq, f = [i \in DOMAIN seq |-> f[i]],
         \A i \in DOMAIN seq : IsSeq(f[i])
  PROVE  /\ IsSeq(FlattenSeq(f))
         /\ \A x : x \in Range(FlattenSeq(f)) <=> \E i \in DOMAIN seq : x \in Range(f[i])
<1>1. Parts(f) /\ DOMAIN f = 1 .. Len(f)
  BY PartsMade
<1>2. IsSeq(FlattenSeq(f)) /\ Range(FlattenSeq(f)) = UNION { Range(f[i]) : i \in 1 .. Len(f) }
  BY <1>1, FlattenIsSeq, FlattenRange
<1> DEFINE r == FlattenSeq(f)
<1> HIDE DEF r
<1>3. 1 .. Len(f) = DOMAIN seq
  BY <1>1
<1>4. Range(r) = UNION { Range(f[i]) : i \in DOMAIN seq }
  BY <1>2, <1>3 DEF r
<1>5. \A x : x \in Range(r) <=> \E i \in DOMAIN seq : x \in Range(f[i])
  BY <1>4
<1> QED BY <1>2, <1>5 DEF r

\* A member that every Stub or Service has.
Declared(class, f) == Decl(class, <<"", f[1]>>, f[2])
Defined(class, f) == Def(class, <<"", f[1]>>, f[2], {}, 0, {})

LEMMA MembersRange ==
  ASSUME NEW class, NEW members, IsSeq(members)
  PROVE  /\ \A x : x \in Range(DeclAll(class, members)) <=> \E f \in Range(members) : x = Declared(class, f)
         /\ \A x : x \in Range(DefAll(class, members)) <=> \E f \in Range(members) : x = Defined(class, f)
<1> DEFINE a == [i \in DOMAIN members |-> << Declared(class, members[i]) >>]
           b == [i \in DOMAIN members |-> << Defined(class, members[i]) >>]
<1>1. DeclAll(class, members) = FlattenSeq(a) /\ DefAll(class, members) = FlattenSeq(b)
  BY DEF DeclAll, DefAll, Each, Declared, Defined
<1>2. /\ \A i \in DOMAIN members : a[i] = << Declared(class, members[i]) >>
      /\ \A i \in DOMAIN members : b[i] = << Defined(class, members[i]) >>
      /\ DOMAIN a = DOMAIN members /\ a = [i \in DOMAIN members |-> a[i]]
      /\ DOMAIN b = DOMAIN members /\ b = [i \in DOMAIN members |-> b[i]]
  OBVIOUS
<1> HIDE DEF a, b
<1>3. /\ \A i \in DOMAIN members : IsSeq(a[i]) /\ Range(a[i]) = { Declared(class, members[i]) }
      /\ \A i \in DOMAIN members : IsSeq(b[i]) /\ Range(b[i]) = { Defined(class, members[i]) }
  BY <1>2, OneFacts
<1>4. Range(members) = { members[i] : i \in DOMAIN members }
  BY DEF Range
<1>5. \A x : x \in Range(FlattenSeq(a)) <=> \E i \in DOMAIN members : x \in Range(a[i])
  BY <1>2, <1>3, EachRange
<1>6. \A x : x \in Range(FlattenSeq(b)) <=> \E i \in DOMAIN members : x \in Range(b[i])
  BY <1>2, <1>3, EachRange
<1>7. \A x : x \in Range(FlattenSeq(a)) <=> \E f \in Range(members) : x = Declared(class, f)
  BY <1>3, <1>4, <1>5
<1>8. \A x : x \in Range(FlattenSeq(b)) <=> \E f \in Range(members) : x = Defined(class, f)
  BY <1>3, <1>4, <1>6
<1> QED BY <1>1, <1>7, <1>8

Getter(s) == Def("", GetServiceDescriptor, << >>, {}, 0, { AssignDescriptorsOnce, ServiceDescriptorOf(s) })

ClientTexts(s) == [i \in DOMAIN s.methods |-> PrintSourceClientMethod(s.methods[i], i)]

LEMMA MethodsRange ==
  ASSUME NEW s \in ServiceDescriptor
  PROVE  /\ \A x : x \in Range(Each(s.methods, PrintHeaderClientMethodPublic))
                     <=> \E i \in DOMAIN s.methods : x \in Range(PrintHeaderClientMethodPublic(s.methods[i]))
         /\ \A x : x \in Range(Each(s.methods, PrintHeaderServiceMethod))
                     <=> \E i \in DOMAIN s.methods : x \in Range(PrintHeaderServiceMethod(s.methods[i]))
         /\ \A x : x \in Range(FlattenSeq(ClientTexts(s)))
                     <=> \E i \in DOMAIN s.methods : x \in Range(PrintSourceClientMethod(s.methods[i], i))
         /\ \A x : x \in Range(Each(s.methods, PrintSourceServerMethod))
                     <=> \E i \in DOMAIN s.methods : x \in Range(PrintSourceServerMethod(s.methods[i]))
<1> DEFINE D == DOMAIN s.methods
           a == [i \in D |-> PrintHeaderClientMethodPublic(s.methods[i])]
           b == [i \in D |-> PrintHeaderServiceMethod(s.methods[i])]
           c == ClientTexts(s)
           d == [i \in D |-> PrintSourceServerMethod(s.methods[i])]
<1>1. /\ Each(s.methods, PrintHeaderClientMethodPublic) = FlattenSeq(a)
      /\ Each(s.methods, PrintHeaderServiceMethod) = FlattenSeq(b)
      /\ Each(s.methods, PrintSourceServerMethod) = FlattenSeq(d)
  BY DEF Each
<1>2. /\ D = DOMAIN a /\ a = [i \in D |-> a[i]]
      /\ \A i \in D : a[i] = PrintHeaderClientMethodPublic(s.methods[i])
  OBVIOUS
<1>3. /\ D = DOMAIN b /\ b = [i \in D |-> b[i]]
      /\ \A i \in D : b[i] = PrintHeaderServiceMethod(s.methods[i])
  OBVIOUS
<1>4. /\ D = DOMAIN c /\ c = [i \in D |-> c[i]]
      /\ \A i \in D : c[i] = PrintSourceClientMethod(s.methods[i], i)
  BY DEF ClientTexts
<1>5. /\ D = DOMAIN d /\ d = [i \in D |-> d[i]]
      /\ \A i \in D : d[i] = PrintSourceServerMethod(s.methods[i])
  OBVIOUS
<1> HIDE DEF a, b, c, d
<1>6. \A i \in D : IsSeq(a[i]) /\ IsSeq(b[i]) /\ IsSeq(c[i]) /\ IsSeq(d[i])
  BY <1>2, <1>3, <1>4, <1>5, ServiceFacts, ClientMethodFlat, ServerMethodFlat DEF Flat
<1>7. IsSeq(s.methods)
  BY ServiceFacts
<1>8. \A x : x \in Range(FlattenSeq(a)) <=> \E i \in D : x \in Range(a[i])
  BY <1>2, <1>6, <1>7, EachRange
<1>9. \A x : x \in Range(FlattenSeq(b)) <=> \E i \in D : x \in Range(b[i])
  BY <1>3, <1>6, <1>7, EachRange
<1>10. \A x : x \in Range(FlattenSeq(c)) <=> \E i \in D : x \in Range(c[i])
  BY <1>4, <1>6, <1>7, EachRange
<1>11. \A x : x \in Range(FlattenSeq(d)) <=> \E i \in D : x \in Range(d[i])
  BY <1>5, <1>6, <1>7, EachRange
<1>12. \A x : x \in Range(FlattenSeq(a)) <=> \E i \in D : x \in Range(PrintHeaderClientMethodPublic(s.methods[i]))
  BY <1>2, <1>8, Zenon
<1>13. \A x : x \in Range(FlattenSeq(b)) <=> \E i \in D : x \in Range(PrintHeaderServiceMethod(s.methods[i]))
  BY <1>3, <1>9, Zenon
<1>14. \A x : x \in Range(FlattenSeq(c)) <=> \E i \in D : x \in Range(PrintSourceClientMethod(s.methods[i], i))
  BY <1>4, <1>10, Zenon
<1>15. \A x : x \in Range(FlattenSeq(d)) <=> \E i \in D : x \in Range(PrintSourceServerMethod(s.methods[i]))
  BY <1>5, <1>11, Zenon
<1> HIDE DEF D
<1> QED BY <1>1, <1>12, <1>13, <1>14, <1>15 DEF D, c

LEMMA HeaderInnerRange ==
  ASSUME NEW s \in ServiceDescriptor, NEW x
  PROVE  x \in Range(HeaderInner(s))
           <=> \/ x \in { Open(s.name), Decl("", GetServiceDescriptor, << >>) }
               \/ \E f \in Range(StubMembers) : x = Declared("Stub", f)
               \/ \E i \in DOMAIN s.methods : x \in Range(PrintHeaderClientMethodPublic(s.methods[i]))
               \/ \E f \in Range(ServiceMembers) : x = Declared("Service", f)
               \/ \E i \in DOMAIN s.methods : x \in Range(PrintHeaderServiceMethod(s.methods[i]))
<1> DEFINE o == << Open(s.name), Decl("", GetServiceDescriptor, << >>) >>
           a == DeclAll("Stub", StubMembers)
           b == Each(s.methods, PrintHeaderClientMethodPublic)
           c == DeclAll("Service", ServiceMembers)
           d == Each(s.methods, PrintHeaderServiceMethod)
           p == ((o \o a) \o b) \o c
<1>1. HeaderInner(s) = p \o d
  BY DEF HeaderInner
<1>2. IsSeq(o) /\ Range(o) = { Open(s.name), Decl("", GetServiceDescriptor, << >>) }
  BY TwoFacts, TwoRange
<1>3. IsSeq(a) /\ IsSeq(b) /\ IsSeq(c) /\ IsSeq(d)
  BY MembersAreSeqs, MembersFlat, MethodsFlat DEF Flat
<1>4. /\ x \in Range(a) <=> \E f \in Range(StubMembers) : x = Declared("Stub", f)
      /\ x \in Range(c) <=> \E f \in Range(ServiceMembers) : x = Declared("Service", f)
  BY MembersAreSeqs, MembersRange
<1>5. /\ x \in Range(b) <=> \E i \in DOMAIN s.methods : x \in Range(PrintHeaderClientMethodPublic(s.methods[i]))
      /\ x \in Range(d) <=> \E i \in DOMAIN s.methods : x \in Range(PrintHeaderServiceMethod(s.methods[i]))
  BY MethodsRange
<1> HIDE DEF o, a, b, c, d
<1>6. IsSeq(p) /\ Range(p) = ((Range(o) \cup Range(a)) \cup Range(b)) \cup Range(c)
  <2>1. IsSeq(o)
    BY <1>2
  <2> QED BY <1>3, <2>1, FourRange
<1> HIDE DEF p
<1>7. Range(p \o d) = Range(p) \cup Range(d)
  BY <1>3, <1>6, ConcatRange
<1>8. x \in Range(HeaderInner(s))
        <=> x \in Range(o) \/ x \in Range(a) \/ x \in Range(b) \/ x \in Range(c) \/ x \in Range(d)
  BY <1>1, <1>6, <1>7
<1> QED BY <1>2, <1>4, <1>5, <1>8

LEMMA SourceInnerRange ==
  ASSUME NEW s \in ServiceDescriptor, NEW x
  PROVE  x \in Range(SourceInner(s))
           <=> \/ x \in { Open(s.name), MethodNames(s), Getter(s) }
               \/ \E f \in Range(StubMembers) : x = Defined("Stub", f)
               \/ \E i \in DOMAIN s.methods : x \in Range(PrintSourceClientMethod(s.methods[i], i))
               \/ \E f \in Range(ServiceMembers) : x = Defined("Service", f)
               \/ x = PrintCallMethod(s)
               \/ \E i \in DOMAIN s.methods : x \in Range(PrintSourceServerMethod(s.methods[i]))
<1> DEFINE o == << Open(s.name), MethodNames(s), Getter(s) >>
           a == DefAll("Stub", StubMembers)
           b == FlattenSeq(ClientTexts(s))
           c == DefAll("Service", ServiceMembers)
           e == << PrintCallMethod(s) >>
           d == Each(s.methods, PrintSourceServerMethod)
           p == ((o \o a) \o b) \o c
           q == p \o e
<1>1. SourceInner(s) = q \o d
  BY DEF SourceInner, Getter, ClientTexts
<1>2. IsSeq(o) /\ Range(o) = { Open(s.name), MethodNames(s), Getter(s) }
  <2> DEFINE x1 == Open(s.name)
             x2 == MethodNames(s)
             x3 == Getter(s)
  <2> HIDE DEF x1, x2, x3
  <2>1. IsSeq(<<x1, x2, x3>>) /\ Range(<<x1, x2, x3>>) = {x1, x2, x3}
    BY ThreeIsSeq, ThreeRange
  <2> QED BY <2>1 DEF x1, x2, x3
<1>3. IsSeq(a) /\ IsSeq(b) /\ IsSeq(c) /\ IsSeq(d)
  BY MembersAreSeqs, MembersFlat, MethodsFlat DEF Flat, ClientTexts
<1>4. /\ x \in Range(a) <=> \E f \in Range(StubMembers) : x = Defined("Stub", f)
      /\ x \in Range(c) <=> \E f \in Range(ServiceMembers) : x = Defined("Service", f)
  BY MembersAreSeqs, MembersRange
<1>5. /\ x \in Range(b) <=> \E i \in DOMAIN s.methods : x \in Range(PrintSourceClientMethod(s.methods[i], i))
      /\ x \in Range(d) <=> \E i \in DOMAIN s.methods : x \in Range(PrintSourceServerMethod(s.methods[i]))
  BY MethodsRange
<1>5a. IsSeq(e) /\ Range(e) = { PrintCallMethod(s) }
  BY OneFacts
<1> HIDE DEF o, a, b, c, d, e
<1>6. IsSeq(p) /\ Range(p) = ((Range(o) \cup Range(a)) \cup Range(b)) \cup Range(c)
  BY <1>2, <1>3, FourRange
<1> HIDE DEF p
<1>7. IsSeq(q) /\ Range(q) = Range(p) \cup Range(e)
  BY <1>5a, <1>6, ConcatIsSeq, ConcatRange
<1> HIDE DEF q
<1>8. Range(q \o d) = Range(q) \cup Range(d)
  BY <1>3, <1>7, ConcatRange
<1>9. x \in Range(SourceInner(s))
        <=> x \in Range(o) \/ x \in Range(a) \/ x \in Range(b) \/ x \in Range(c) \/ x \in Range(e)
            \/ x \in Range(d)
  BY <1>1, <1>6, <1>7, <1>8
<1> QED BY <1>2, <1>4, <1>5, <1>5a, <1>9
-----------------------------------------------------------------------------
(***************************************************************************)
(* A call: what the stub of a service sends, and what its switch expects.  *)
(***************************************************************************)
LEMMA DefFields ==
  ASSUME NEW class, NEW name, NEW types, NEW aliases, NEW row, NEW uses
  PROVE  LET x == Def(class, name, types, aliases, row, uses) IN
           /\ x.tok = "def" /\ x.class = class /\ x.name = name /\ x.types = types
           /\ x.aliases = aliases /\ x.row = row /\ x.uses = uses
BY DEF Def

Row(m, i) == IF NoStreaming(m) THEN 1 ELSE i

\* The two functions that a stub has for a method.
Stubs(m, i, sync, async) ==
  << Def("Stub", <<"Sync_", m.name>>, sync, {}, Row(m, i), {}),
     Def("Stub", <<"Async_", m.name>>, async, {}, Row(m, i), {}) >>

LEMMA ClientMethodText ==
  ASSUME NEW m \in MethodDescriptor, NEW i
  PROVE  \E sync, async : PrintSourceClientMethod(m, i) = Stubs(m, i, sync, async)
<1>1. m.client_streaming \in BOOLEAN /\ m.server_streaming \in BOOLEAN
  BY DEF MethodDescriptor
<1>2. CASE NoStreaming(m)
  BY <1>2 DEF PrintSourceClientMethod, Stubs, Row, NoStreaming, ClientOnlyStreaming, ServerOnlyStreaming, BidiStreaming
<1>3. CASE ClientOnlyStreaming(m)
  BY <1>3 DEF PrintSourceClientMethod, Stubs, Row, NoStreaming, ClientOnlyStreaming
<1>4. CASE ServerOnlyStreaming(m)
  BY <1>4 DEF PrintSourceClientMethod, Stubs, Row, NoStreaming, ClientOnlyStreaming, ServerOnlyStreaming
<1>5. CASE BidiStreaming(m)
  BY <1>5 DEF PrintSourceClientMethod, Stubs, Row, NoStreaming, ClientOnlyStreaming, ServerOnlyStreaming, BidiStreaming
<1> QED BY <1>1, <1>2, <1>3, <1>4, <1>5 DEF NoStreaming, ClientOnlyStreaming, ServerOnlyStreaming, BidiStreaming

Calls == {"Sync_", "Async_"}

LEMMA ClientMethodRange ==
  ASSUME NEW m \in MethodDescriptor, NEW i
  PROVE  /\ \A x \in Range(PrintSourceClientMethod(m, i)) :
              /\ x.tok = "def" /\ x.class = "Stub" /\ x.row = Row(m, i)
              /\ x.name \in { <<call, m.name>> : call \in Calls }
         /\ \A call \in Calls : \E x \in Range(PrintSourceClientMethod(m, i)) :
              x.tok = "def" /\ x.name = <<call, m.name>>
<1>1. PICK sync, async : PrintSourceClientMethod(m, i) = Stubs(m, i, sync, async)
  BY ClientMethodText
<1> DEFINE a == Def("Stub", <<"Sync_", m.name>>, sync, {}, Row(m, i), {})
           b == Def("Stub", <<"Async_", m.name>>, async, {}, Row(m, i), {})
<1>2. /\ a.tok = "def" /\ a.class = "Stub" /\ a.row = Row(m, i) /\ a.name = <<"Sync_", m.name>>
      /\ b.tok = "def" /\ b.class = "Stub" /\ b.row = Row(m, i) /\ b.name = <<"Async_", m.name>>
  BY DefFields
<1>3. PrintSourceClientMethod(m, i) = <<a, b>>
  BY <1>1 DEF Stubs
<1> HIDE DEF a, b
<1>4. Range(PrintSourceClientMethod(m, i)) = {a, b}
  BY <1>3, TwoRange
<1> QED BY <1>2, <1>4 DEF Calls

LEMMA ServerMethodRange ==
  ASSUME NEW m
  PROVE  \A x \in Range(PrintSourceServerMethod(m)) :
           x.tok = "def" /\ x.class = "Service" /\ x.name = <<"", m.name>>
<1> DEFINE name == <<"", m.name>>
<1>1. \E t, a, u : PrintSourceServerMethod(m)
                     = << Def("Service", name, t, a, 0, {}), Def("Service", name, u, {}, 0, {}) >>
  <2>1. CASE ServerOnlyStreaming(m)
    BY <2>1 DEF PrintSourceServerMethod
  <2>2. CASE ~ ServerOnlyStreaming(m)
    BY <2>2 DEF PrintSourceServerMethod
  <2> QED BY <2>1, <2>2
<1>2. PICK t, a, u : PrintSourceServerMethod(m)
                       = << Def("Service", name, t, a, 0, {}), Def("Service", name, u, {}, 0, {}) >>
  BY <1>1
<1> DEFINE x == Def("Service", name, t, a, 0, {})
           y == Def("Service", name, u, {}, 0, {})
<1>3. /\ x.tok = "def" /\ x.class = "Service" /\ x.name = name
      /\ y.tok = "def" /\ y.class = "Service" /\ y.name = name
  <2> HIDE DEF name
  <2> QED BY DEF Def
<1>4. PrintSourceServerMethod(m) = <<x, y>>
  BY <1>2
<1> HIDE DEF x, y
<1>5. Range(PrintSourceServerMethod(m)) = {x, y}
  BY <1>4, TwoRange
<1> QED BY <1>3, <1>5

LEMMA SourceInnerTokens ==
  ASSUME NEW s \in ServiceDescriptor, NEW x \in Range(SourceInner(s))
  PROVE  /\ x.tok # "assign"
         /\ x.tok = "method_names" => x = MethodNames(s)
         /\ x.tok = "switch" => x = PrintCallMethod(s)
         /\ \A call \in Calls : \A name :
              x.tok = "def" /\ x.name = <<call, name>> =>
                \E i \in DOMAIN s.methods : s.methods[i].name = name /\ x.row = Row(s.methods[i], i)
<1>1. \A call \in Calls : \A name, other : <<call, name>> # <<"", other>>
  BY DEF Calls
<1>2. CASE x = Open(s.name)
  BY <1>2 DEF Open
<1>3. CASE x = MethodNames(s)
  BY <1>3 DEF MethodNames
<1>4. CASE x = PrintCallMethod(s)
  BY <1>4 DEF PrintCallMethod
<1>5. CASE x.tok = "def" /\ \E other : x.name = <<"", other>>
  BY <1>1, <1>5
<1>6. CASE x = Getter(s)
  <2>1. x.tok = "def" /\ x.name = <<"", "GetServiceDescriptor">>
    BY <1>6 DEF Getter, GetServiceDescriptor, Def
  <2> QED BY <1>5, <2>1
<1>7. CASE \E class, f : x = Defined(class, f)
  <2>1. x.tok = "def" /\ \E other : x.name = <<"", other>>
    <3>1. PICK class, f : x = Defined(class, f)
      BY <1>7
    <3>2. Defined(class, f).tok = "def" /\ Defined(class, f).name = <<"", f[1]>>
      BY DEF Defined, Def
    <3> QED BY <3>1, <3>2
  <2> QED BY <1>5, <2>1
<1>8. CASE \E i \in DOMAIN s.methods : x \in Range(PrintSourceServerMethod(s.methods[i]))
  <2>1. x.tok = "def" /\ \E other : x.name = <<"", other>>
    BY <1>8, ServerMethodRange
  <2> QED BY <1>5, <2>1
<1>9. CASE \E i \in DOMAIN s.methods : x \in Range(PrintSourceClientMethod(s.methods[i], i))
  <2>1. PICK i \in DOMAIN s.methods : x \in Range(PrintSourceClientMethod(s.methods[i], i))
    BY <1>9
  <2>2. s.methods[i] \in MethodDescriptor
    BY ServiceFacts
  <2>3. /\ x.tok = "def" /\ x.row = Row(s.methods[i], i)
        /\ x.name \in { <<call, s.methods[i].name>> : call \in Calls }
    BY <2>1, <2>2, ClientMethodRange
  <2>4. \A call, name : x.name = <<call, name>> => s.methods[i].name = name
    BY <2>3
  <2> QED BY <2>3, <2>4
<1>10. \/ x = Open(s.name) \/ x = MethodNames(s) \/ x = Getter(s)
       \/ \E class, f : x = Defined(class, f)
       \/ \E i \in DOMAIN s.methods : x \in Range(PrintSourceClientMethod(s.methods[i], i))
       \/ x = PrintCallMethod(s)
       \/ \E i \in DOMAIN s.methods : x \in Range(PrintSourceServerMethod(s.methods[i]))
  BY SourceInnerRange, Zenon
<1> QED BY <1>2, <1>3, <1>4, <1>6, <1>7, <1>8, <1>9, <1>10, Zenon

LEMMA NamesOfFile ==
  ASSUME NEW f \in Files
  PROVE  /\ \A i, j \in DOMAIN f.services : f.services[i].name = f.services[j].name => i = j
         /\ \A i \in DOMAIN f.services :
              /\ f.services[i].name # ""
              /\ \A k \in DOMAIN f.services[i].methods : f.services[i].methods[k].name # ""
              /\ \A k, l \in DOMAIN f.services[i].methods :
                   f.services[i].methods[k].name = f.services[i].methods[l].name => k = l
<1>1. /\ NamesDistinct(f.services)
      /\ \A i \in DOMAIN f.services : NamesDistinct(f.services[i].methods)
  BY FilesAssumption
<1>2. ASSUME NEW i \in DOMAIN f.services
      PROVE  /\ f.services[i].name # ""
             /\ \A k \in DOMAIN f.services[i].methods : f.services[i].methods[k].name # ""
  <2> DEFINE s == f.services[i]
  <2>1. s \in ServiceDescriptor
    BY FileFacts
  <2> HIDE DEF s
  <2>2. \A k \in DOMAIN s.methods : s.methods[k] \in MethodDescriptor
    BY <2>1, ServiceFacts
  <2>3. s.name \in Identifier
    BY <2>1 DEF ServiceDescriptor
  <2>4. \A k \in DOMAIN s.methods : s.methods[k].name \in Identifier
    BY <2>2 DEF MethodDescriptor
  <2> QED BY <2>3, <2>4 DEF Identifier, s
<1> QED BY <1>1, <1>2 DEF NamesDistinct

\* In the namespace of a service of the source is what its block holds.
LEMMA ServicePlaces ==
  ASSUME file \in Files, ~ file.lite, source = Source, NEW j \in DOMAIN file.services,
         NEW x, Quiet(x)
  PROVE  x \in InService(file.services[j]) <=> x \in Range(SourceInner(file.services[j]))
<1> DEFINE s == file.services[j]
           v == Append(file.package, s.name)
           D == DOMAIN file.services
           none == Append(file.package, "")
           Place(w) == \E k \in DOMAIN Source : Scopes(Source)[k] = w /\ Source[k] = x
<1>1. IsSeq(file.package) /\ s.name # ""
  BY FileFacts, NamesOfFile
<1>2. x \in InService(s) <=> Place(v)
  BY DEF InService
<1>3. v # none
  BY <1>1, AppendDistinct
<1>4. \A i \in D : v = Append(file.package, file.services[i].name) => i = j
  BY <1>1, AppendDistinct, NamesOfFile
<1>5. Place(v) <=> \/ v = none /\ x \in Range(DescriptorsInner)
                   \/ \E i \in D : /\ v = Append(file.package, file.services[i].name)
                                   /\ x \in Range(SourceInner(file.services[i]))
  <2> HIDE DEF v
  <2> QED BY SourcePlaces
<1> HIDE DEF none, Place
<1> QED BY <1>2, <1>3, <1>4, <1>5

LEMMA ServiceOnly ==
  ASSUME file \in Files, ~ file.lite, source = Source, NEW j \in DOMAIN file.services
  PROVE  /\ Only(InService(file.services[j]), "method_names") = MethodNames(file.services[j])
         /\ Only(InService(file.services[j]), "switch") = PrintCallMethod(file.services[j])
<1> DEFINE s == file.services[j]
           T == InService(s)
           R == Range(SourceInner(s))
<1>1. s \in ServiceDescriptor
  BY FileFacts
<1>2. \A x : Quiet(x) => (x \in T <=> x \in R)
  BY ServicePlaces
<1>3. /\ MethodNames(s).tok = "method_names" /\ Quiet(MethodNames(s))
      /\ PrintCallMethod(s).tok = "switch" /\ Quiet(PrintCallMethod(s))
  BY DEF MethodNames, PrintCallMethod, Quiet
<1> HIDE DEF s
<1>4. MethodNames(s) \in R /\ PrintCallMethod(s) \in R
  BY <1>1, SourceInnerRange
<1>5. \A x \in R : /\ x.tok = "method_names" => x = MethodNames(s)
                   /\ x.tok = "switch" => x = PrintCallMethod(s)
  BY <1>1, SourceInnerTokens
<1>6. \A x : x.tok \in {"method_names", "switch"} => Quiet(x)
  BY DEF Quiet
<1> HIDE DEF T, R
<1>7. \A x \in T : /\ x.tok = "method_names" => x = MethodNames(s)
                   /\ x.tok = "switch" => x = PrintCallMethod(s)
  BY <1>2, <1>5, <1>6
<1>8. MethodNames(s) \in T /\ PrintCallMethod(s) \in T
  BY <1>2, <1>3, <1>4
<1>9. Only(T, "method_names") = MethodNames(s)
  BY <1>3, <1>7, <1>8 DEF Only
<1>10. Only(T, "switch") = PrintCallMethod(s)
  BY <1>3, <1>7, <1>8 DEF Only
<1> QED BY <1>9, <1>10 DEF T, s

Stub(s, call, m) == CHOOSE t \in InService(s) : t.tok = "def" /\ t.name = <<call, m.name>>

LEMMA StubRow ==
  ASSUME file \in Files, ~ file.lite, source = Source, NEW j \in DOMAIN file.services,
         NEW i \in DOMAIN file.services[j].methods, NEW call \in Calls
  PROVE  Stub(file.services[j], call, file.services[j].methods[i]).row
           = Row(file.services[j].methods[i], i)
<1> DEFINE s == file.services[j]
           T == InService(s)
           R == Range(SourceInner(s))
           m == s.methods[i]
<1>1. s \in ServiceDescriptor
  BY FileFacts
<1>2. \A x : Quiet(x) => (x \in T <=> x \in R)
  BY ServicePlaces
<1>3. i \in DOMAIN s.methods /\ \A k \in DOMAIN s.methods : s.methods[k].name = m.name => k = i
  BY NamesOfFile
<1> HIDE DEF s
<1>4. m \in MethodDescriptor
  BY <1>1, <1>3, ServiceFacts
<1>5. PICK x \in Range(PrintSourceClientMethod(m, i)) : x.tok = "def" /\ x.name = <<call, m.name>>
  <2> HIDE DEF m
  <2>1. \A c \in Calls : \E x \in Range(PrintSourceClientMethod(m, i)) :
          x.tok = "def" /\ x.name = <<c, m.name>>
    BY <1>4, ClientMethodRange
  <2> QED BY <2>1
<1>6. x \in R
  <2>1. \E k \in DOMAIN s.methods : x \in Range(PrintSourceClientMethod(s.methods[k], k))
    BY <1>3, <1>5
  <2> QED BY <1>1, <2>1, SourceInnerRange, Zenon
<1>7. \A t : t.tok = "def" => Quiet(t)
  BY DEF Quiet
<1>8. ASSUME NEW t \in R, t.tok = "def", t.name = <<call, m.name>>
      PROVE  t.row = Row(m, i)
  <2>1. PICK k \in DOMAIN s.methods : s.methods[k].name = m.name /\ t.row = Row(s.methods[k], k)
    BY <1>1, <1>8, SourceInnerTokens
  <2> QED BY <1>3, <2>1
<1> HIDE DEF T, R, m
<1>9. x \in T
  BY <1>2, <1>5, <1>6, <1>7
<1>10. \A t \in T : t.tok = "def" /\ t.name = <<call, m.name>> => t.row = Row(m, i)
  BY <1>2, <1>7, <1>8
<1>11. Stub(s, call, m).row = Row(m, i)
  BY <1>5, <1>9, <1>10 DEF Stub, T
<1> QED BY <1>11 DEF m, s
LEMMA AssignOnly ==
  ASSUME file \in Files, ~ file.lite
  PROVE  Only(Range(Source), "assign") = Assign
<1>1. ASSUME NEW x, Quiet(x)
      PROVE  x \in Range(Source)
               => \/ x \in Range(DescriptorsInner)
                  \/ \E i \in DOMAIN file.services : x \in Range(SourceInner(file.services[i]))
  <2> SUFFICES ASSUME x \in Range(Source)
               PROVE  \/ x \in Range(DescriptorsInner)
                      \/ \E i \in DOMAIN file.services : x \in Range(SourceInner(file.services[i]))
    OBVIOUS
  <2>1. PICK k \in DOMAIN Source : Source[k] = x
    BY DEF Range
  <2>2. PICK w : w = Scopes(Source)[k]
    OBVIOUS
  <2>3. \E l \in DOMAIN Source : Scopes(Source)[l] = w /\ Source[l] = x
    BY <2>1, <2>2
  <2> QED BY <1>1, <2>3, SourcePlaces, Zenon
<1>2. Assign \in Range(Source)
  <2>1. Assign \in Range(DescriptorsInner)
    BY DescriptorsRange
  <2>2. PICK w : w = Append(file.package, "")
    OBVIOUS
  <2>2a. PICK x : x = Assign
    OBVIOUS
  <2> DEFINE P == \E k \in DOMAIN Source : Scopes(Source)[k] = w /\ Source[k] = x
  <2>3. Quiet(x)
    BY <2>2a, AssignOnceFacts
  <2>4. P
    <3>1. w = Append(file.package, "") /\ x \in Range(DescriptorsInner)
      BY <2>1, <2>2, <2>2a
    <3> DEFINE R == \/ w = Append(file.package, "") /\ x \in Range(DescriptorsInner)
                    \/ \E i \in DOMAIN file.services :
                         /\ w = Append(file.package, file.services[i].name)
                         /\ x \in Range(SourceInner(file.services[i]))
    <3>2. P <=> R
      BY <2>3, SourcePlaces
    <3>3. R
      BY <3>1
    <3> HIDE DEF P, R
    <3> QED BY <3>2, <3>3
  <2> QED BY <2>2a, <2>4 DEF Range
<1>3. ASSUME NEW x \in Range(Source), x.tok = "assign" PROVE x = Assign
  <2>1. Quiet(x)
    BY <1>3 DEF Quiet
  <2>2. ~ \E i \in DOMAIN file.services : x \in Range(SourceInner(file.services[i]))
    BY <1>3, FileFacts, SourceInnerTokens
  <2>3. x \in Range(DescriptorsInner)
    BY <1>1, <2>1, <2>2
  <2>4. x # Open("")
    BY <2>1, BracesLoud
  <2>5. x \notin Range(Pointers)
    <3>1. \A n : Var(n).tok = "var"
      BY DEF Var
    <3>2. \A n : x # Var(n)
      BY <1>3, <3>1
    <3>3. \A y \in Range(Pointers) : \E n : y = Var(n)
      BY PointersFacts
    <3> QED BY <3>2, <3>3, Zenon
  <2>6. x # Once
    BY <1>3, AssignOnceFacts
  <2> QED BY <2>3, <2>4, <2>5, <2>6, DescriptorsRange
<1> DEFINE T == Range(Source)
<1> HIDE DEF T
<1>4. Assign \in T /\ \A x \in T : x.tok = "assign" => x = Assign
  BY <1>2, <1>3 DEF T
<1>5. Only(T, "assign") = Assign
  BY <1>4, AssignOnceFacts DEF Only
<1> QED BY <1>5 DEF T

\* The descriptor that the source assigns to a service is that of the service.
LEMMA DescriptorIs ==
  ASSUME file \in Files, ~ file.lite, source = Source, NEW j \in DOMAIN file.services
  PROVE  Descriptor(file.services[j]) = file.services[j]
<1> DEFINE D == DOMAIN file.services
           to == [i \in D |-> ServiceDescriptorOf(file.services[i])]
           s == file.services[j]
<1>1. Only(Range(source), "assign").to = to
  BY AssignOnly DEF Assign
<1>2. \A i \in D : ServiceDescriptorOf(file.services[i]) = ServiceDescriptorOf(s) => i = j
  BY NamesOfFile DEF ServiceDescriptorOf
<1>3. DOMAIN to = D /\ \A i \in D : to[i] = ServiceDescriptorOf(s) <=> i = j
  BY <1>2
<1>4. (CHOOSE i \in DOMAIN to : to[i] = ServiceDescriptorOf(s)) = j
  <2> HIDE DEF to
  <2> QED BY <1>3
<1> QED BY <1>1, <1>4 DEF Descriptor

LEMMA TableFacts ==
  ASSUME NEW s \in ServiceDescriptor
  PROVE  /\ DOMAIN MethodNames(s).names = DOMAIN s.methods
         /\ DOMAIN MethodNames(s).names = 1 .. Len(MethodNames(s).names)
         /\ \A i \in DOMAIN s.methods :
              /\ MethodNames(s).names[i] = <<file.package, s.name, s.methods[i].name>>
              /\ PrintCallMethod(s).cases[i].method = s.methods[i].name
              /\ PrintCallMethod(s).cases[i].buffer = ~ s.methods[i].client_streaming
<1> DEFINE D == DOMAIN s.methods
           names == MethodNames(s).names
<1>1. names = [i \in D |-> <<file.package, s.name, s.methods[i].name>>]
  BY DEF MethodNames
<1>2. DOMAIN names = D /\ names = [i \in D |-> names[i]]
  BY <1>1
<1>3. \A i \in D : names[i] = <<file.package, s.name, s.methods[i].name>>
  BY <1>1
<1>4. IsSeq(s.methods) /\ D = 1 .. Len(s.methods) /\ Len(s.methods) \in Nat
  BY ServiceFacts, SeqFacts
<1> DEFINE n == Len(s.methods)
<1> HIDE DEF D, names, n
<1>5. Len(names) = n
  BY <1>2, <1>4, SeqMade DEF n
<1>6. ASSUME NEW i \in D
      PROVE  /\ PrintCallMethod(s).cases[i].method = s.methods[i].name
             /\ PrintCallMethod(s).cases[i].buffer = ~ s.methods[i].client_streaming
  <2> DEFINE m == s.methods[i]
  <2>1. m \in MethodDescriptor
    BY ServiceFacts DEF D
  <2>2. m.client_streaming \in BOOLEAN /\ m.server_streaming \in BOOLEAN
    BY <2>1 DEF MethodDescriptor
  <2>3. /\ PrintCallMethod(s).cases[i].method = m.name
        /\ PrintCallMethod(s).cases[i].buffer = (NoStreaming(m) \/ ServerOnlyStreaming(m))
    BY DEF PrintCallMethod, D
  <2> HIDE DEF m
  <2>4. (NoStreaming(m) \/ ServerOnlyStreaming(m)) = ~ m.client_streaming
    BY <2>2 DEF NoStreaming, ServerOnlyStreaming
  <2> QED BY <2>3, <2>4 DEF m
<1> QED BY <1>2, <1>3, <1>4, <1>5, <1>6 DEF D, names, n

\* Every unary method is the first of its service.
UnaryFirst ==
  \A s \in Range(file.services) : \A i \in DOMAIN s.methods : NoStreaming(s.methods[i]) => i = 1

LEMMA RoutedOfSource ==
  ASSUME file \in Files, ~ file.lite, source = Source, UnaryFirst
  PROVE  Routed
<1> SUFFICES ASSUME NEW s \in Range(file.services), NEW m \in Range(s.methods), NEW call \in Calls
             PROVE  LET names == Only(InService(s), "method_names").names
                        cases == Only(InService(s), "switch").cases
                        stub == Stub(s, call, m)
                    IN  /\ stub.row \in DOMAIN names
                        /\ \A i \in DOMAIN names : names[i] = names[stub.row] =>
                             /\ cases[i].method = m.name
                             /\ cases[i].buffer = ~ Descriptor(s).methods[i].client_streaming
                        /\ \A other \in Range(file.services) \ {s} :
                             ~ Contains(Only(InService(other), "method_names").names, names[stub.row])
  BY Zenon DEF Routed, Calls, Stub
<1>1. PICK j \in DOMAIN file.services : s = file.services[j]
  BY DEF Range
<1>2. PICK k \in DOMAIN s.methods : m = s.methods[k]
  BY DEF Range
<1> DEFINE names == MethodNames(s).names
           cases == PrintCallMethod(s).cases
           stub == Stub(s, call, m)
<1>3. /\ Only(InService(s), "method_names").names = names
      /\ Only(InService(s), "switch").cases = cases
  BY <1>1, ServiceOnly
<1>4. stub.row = k
  <2>1. stub.row = Row(m, k)
    BY <1>1, <1>2, StubRow
  <2>2. Row(m, k) = k
    BY <1>2 DEF Row, UnaryFirst
  <2> QED BY <2>1, <2>2
<1>5. Descriptor(s) = s
  BY <1>1, DescriptorIs
<1>6. s \in ServiceDescriptor
  BY <1>1, FileFacts
<1>7. \A i \in DOMAIN s.methods : s.methods[i].name = m.name => i = k
  BY <1>1, <1>2, NamesOfFile
<1>8. /\ DOMAIN names = DOMAIN s.methods
      /\ \A i \in DOMAIN s.methods :
           /\ names[i] = <<file.package, s.name, s.methods[i].name>>
           /\ cases[i].method = s.methods[i].name
           /\ cases[i].buffer = ~ s.methods[i].client_streaming
  BY <1>6, TableFacts
<1>9. ASSUME NEW other \in Range(file.services) \ {s}
      PROVE  ~ Contains(Only(InService(other), "method_names").names, names[k])
  <2>1. PICK l \in DOMAIN file.services : other = file.services[l]
    BY DEF Range
  <2>2. other.name # s.name
    BY <1>1, <2>1, NamesOfFile
  <2>3. Only(InService(other), "method_names").names = MethodNames(other).names
    BY <2>1, ServiceOnly
  <2>4. other \in ServiceDescriptor
    BY <2>1, FileFacts
  <2>5. \A i \in 1 .. Len(MethodNames(other).names) :
          MethodNames(other).names[i] = <<file.package, other.name, other.methods[i].name>>
    BY <2>4, TableFacts
  <2>6. names[k] = <<file.package, s.name, s.methods[k].name>>
    BY <1>8
  <2> DEFINE table == MethodNames(other).names
  <2> HIDE DEF table, names
  <2>7. \A i \in 1 .. Len(table) : table[i] # names[k]
    BY <2>2, <2>5, <2>6 DEF table
  <2>8. ~ Contains(table, names[k])
    BY <2>7 DEF Contains
  <2> QED BY <2>3, <2>8 DEF table
<1> HIDE DEF names, cases, stub
<1>10. \A i \in DOMAIN names : names[i] = names[k] => cases[i].method = m.name
  BY <1>2, <1>7, <1>8
<1>11. \A i \in DOMAIN names : cases[i].buffer = ~ s.methods[i].client_streaming
  BY <1>8
<1> QED BY <1>2, <1>3, <1>4, <1>5, <1>8, <1>9, <1>10, <1>11 DEF stub

\* What a stub sends arrives at the handler of its method, and only there, with a
\* request buffer exactly if CallMethod expects one, for any number of services
\* and methods and whatever namespace was asked for, if the runtime is not lite
\* and a service has no unary method but its first (a unary stub names row 0).
THEOREM CallsRouted == Spec => [](~ file.lite /\ UnaryFirst => Routed)
<1>1. IInv => (~ file.lite /\ UnaryFirst => Routed)
  <2> SUFFICES ASSUME IInv, ~ file.lite, UnaryFirst PROVE Routed
    OBVIOUS
  <2>1. CASE result = "done"
    <3>1. file \in Files /\ source = Source
      BY <2>1 DEF IInv, Written
    <3> QED BY <3>1, RoutedOfSource
  <2>2. CASE result # "done"
    BY <2>2 DEF Routed
  <2> QED BY <2>1, <2>2
<1> QED BY <1>1, Invariance, PTL

-----------------------------------------------------------------------------
(***************************************************************************)
(* A unit: the header, then the source.                                    *)
(***************************************************************************)
LEMMA UnitReads ==
  ASSUME file \in Files, ~ file.lite, services_namespace = ""
  PROVE  \E a, b, c, d :
           /\ Bare(a) /\ Bare(b) /\ Bare(c) /\ Bare(d)
           /\ Reads(Header \o Source, << >>, << >>,
                    (((At(<< >>, GetHeaderPrologue) \o a) \o FlattenSeq(HeaderBlocks)) \o b)
                    \o (((c \o DescriptorsBlock) \o FlattenSeq(SourceBlocks)) \o d))
<1>1. PICK a, b : /\ Bare(a) /\ Bare(b)
                  /\ Reads(Header, << >>, << >>,
                           ((At(<< >>, GetHeaderPrologue) \o a) \o FlattenSeq(HeaderBlocks)) \o b)
  BY HeaderReads
<1>2. PICK c, d : /\ Bare(c) /\ Bare(d)
                  /\ Reads(Source, << >>, << >>,
                           ((c \o DescriptorsBlock) \o FlattenSeq(SourceBlocks)) \o d)
  BY SourceReads
<1> DEFINE p == ((At(<< >>, GetHeaderPrologue) \o a) \o FlattenSeq(HeaderBlocks)) \o b
           q == ((c \o DescriptorsBlock) \o FlattenSeq(SourceBlocks)) \o d
<1>3. Reads(Header, << >>, << >>, p) /\ Reads(Source, << >>, << >>, q)
  BY <1>1, <1>2
<1> HIDE DEF p, q
<1>4. Reads(Header \o Source, << >>, << >>, p \o q)
  BY <1>3, ReadsConcat
<1> QED BY <1>1, <1>2, <1>4 DEF p, q

-----------------------------------------------------------------------------
(***************************************************************************)
(* What a name in a namespace sees.                                        *)
(***************************************************************************)
LEMMA NamedIs ==
  ASSUME NEW scope, IsSeq(scope)
  PROVE  \E g : /\ Named(scope) = g[Len(scope)]
                /\ g[0] = << >>
                /\ \A i \in 1 .. Len(scope) :
                     g[i] = IF scope[i] = "" THEN g[i - 1] ELSE Append(g[i - 1], scope[i])
<1> DEFINE n == Len(scope)
           V == Seq(Range(scope))
           Grown(s, x) == IF x = "" THEN s ELSE Append(s, x)
           step == [p \in (1 .. n) \X V |-> Grown(p[2], scope[p[1]])]
           Fn(g) == [i \in 0 .. n |-> IF i = 0 THEN << >> ELSE Grown(g[i - 1], scope[i])]
<1>1. n \in Nat /\ << >> \in V /\ \A i \in 1 .. n : scope[i] \in Range(scope)
  BY SeqFacts, EmptySeq
<1>2. step \in [(1 .. n) \X V -> V]
  <2>1. ASSUME NEW i \in 1 .. n, NEW s \in V PROVE Grown(s, scope[i]) \in V
    <3> DEFINE x == scope[i]
               R == Range(scope)
    <3>1. x \in R /\ s \in Seq(R)
      BY <1>1
    <3> HIDE DEF x, R
    <3>2. Append(s, x) \in Seq(R)
      BY <3>1
    <3>3. Grown(s, x) \in Seq(R)
      BY <3>1, <3>2
    <3> QED BY <3>3 DEF x, R
  <2> HIDE DEF V, Grown
  <2> QED BY <2>1
<1>3. PICK g : Upto(V, << >>, step, n, g)
  <2> HIDE DEF n, V, step
  <2> QED BY <1>1, <1>2, RecursionExists
<1>4. g \in [0 .. n -> V] /\ g[0] = << >> /\ \A i \in 1 .. n : g[i] = step[i, g[i - 1]]
  BY <1>3 DEF Upto
<1>5. ASSUME NEW i \in 1 .. n PROVE g[i] = Grown(g[i - 1], scope[i])
  <2> HIDE DEF V, Grown
  <2>1. i - 1 \in 0 .. n
    BY <1>1
  <2>2. g[i - 1] \in V
    BY <1>4, <2>1
  <2>3. <<i, g[i - 1]>> \in (1 .. n) \X V
    BY <2>2
  <2> QED BY <1>4, <2>3
<1>6. g = Fn(g)
  <2> HIDE DEF V, step, Grown
  <2>1. \A i \in 0 .. n : i = 0 \/ i \in 1 .. n
    BY <1>1
  <2>2. \A i \in 0 .. n : g[i] = IF i = 0 THEN << >> ELSE Grown(g[i - 1], scope[i])
    BY <1>4, <1>5, <2>1
  <2> QED BY <1>4, <2>2
<1> DEFINE named == CHOOSE f : f = Fn(f)
<1>7. named = Fn(named)
  BY <1>6
<1>8. Named(scope) = named[n]
  BY DEF Named
<1>9. named[0] = << >> /\ \A i \in 1 .. n : named[i] = Grown(named[i - 1], scope[i])
  <2> HIDE DEF named, Grown
  <2>1. 0 \in 0 .. n /\ \A i \in 1 .. n : i \in 0 .. n /\ i # 0
    BY <1>1
  <2> HIDE DEF n
  <2> QED BY <1>7, <2>1
<1> HIDE DEF named
<1> QED BY <1>8, <1>9

\* An anonymous namespace in the namespaces p is seen as p, any other as itself.
Blank(name) == name = ""

LEMMA NamedAppend ==
  ASSUME NEW p, IsSeq(p), \A i \in 1 .. Len(p) : ~ Blank(p[i]), NEW x
  PROVE  Named(Append(p, x)) = IF Blank(x) THEN p ELSE Append(p, x)
<1> DEFINE n == Len(p)
           long == Append(p, x)
           last == n + 1
<1>1. n \in Nat
  BY SeqFacts
<1>2. /\ IsSeq(long) /\ Len(long) = last /\ long[last] = x
      /\ \A i \in 1 .. n : long[i] = p[i]
  <2> DEFINE S == Range(p) \cup {x}
  <2>1. p \in Seq(S) /\ x \in S
    BY SeqMonotonic DEF IsSeq
  <2> HIDE DEF S
  <2>2. /\ long \in Seq(S) /\ Len(long) = last /\ long[last] = x
        /\ \A i \in 1 .. n : long[i] = p[i]
    BY <2>1, AppendProperties
  <2> HIDE DEF long
  <2>3. IsSeq(long)
    BY <2>2, SeqIs
  <2> QED BY <2>2, <2>3
<1>3. PICK g : /\ Named(long) = g[Len(long)]
               /\ g[0] = << >>
               /\ \A i \in 1 .. Len(long) :
                    g[i] = IF Blank(long[i]) THEN g[i - 1] ELSE Append(g[i - 1], long[i])
  <2> HIDE DEF long
  <2> QED BY <1>2, NamedIs DEF Blank
<1> DEFINE S == { k \in Nat : k <= n => g[k] = SubSeq(p, 1, k) }
<1>5. 0 \in S
  BY <1>3, PrefixEnds
<1>6. ASSUME NEW k \in Nat, k \in S PROVE k + 1 \in S
  <2> SUFFICES ASSUME k + 1 <= n PROVE g[k + 1] = SubSeq(p, 1, k + 1)
    OBVIOUS
  <2> DEFINE i == k + 1
  <2>1. i \in 1 .. n /\ i \in 1 .. last /\ k = i - 1 /\ g[k] = SubSeq(p, 1, k)
    BY <1>1, <1>6
  <2>2. SubSeq(p, 1, k + 1) = Append(SubSeq(p, 1, k), p[k + 1])
    BY PrefixFacts
  <2> HIDE DEF i, long
  <2>3. long[i] = p[i] /\ ~ Blank(p[i])
    BY <1>2, <2>1
  <2>4. g[i] = Append(g[i - 1], long[i])
    BY <1>2, <1>3, <2>1, <2>3
  <2>5. g[i] = Append(SubSeq(p, 1, k), p[i])
    BY <2>1, <2>3, <2>4
  <2> QED BY <2>2, <2>5 DEF i
<1> HIDE DEF S
<1>7. n \in S
  BY <1>1, <1>5, <1>6, NatInd
<1>8. g[n] = p
  <2>1. g[n] = SubSeq(p, 1, n)
    BY <1>1, <1>7 DEF S
  <2> QED BY <2>1, PrefixEnds
<1>9. last \in 1 .. last /\ last - 1 = n
  BY <1>1
<1> HIDE DEF long, last, n
<1>10. g[last] = IF Blank(x) THEN p ELSE Append(p, x)
  BY <1>2, <1>3, <1>8, <1>9
<1>11. Named(long) = g[last]
  BY <1>2, <1>3
<1> QED BY <1>10, <1>11 DEF long

LEMMA PrefixItself ==
  ASSUME NEW p, IsSeq(p)
  PROVE  IsPrefix(p, p)
<1>1. Len(p) \in Nat
  BY SeqFacts
<1> QED BY <1>1 DEF IsPrefix

LEMMA PrefixOfAppend ==
  ASSUME NEW p, IsSeq(p), NEW x
  PROVE  IsPrefix(p, Append(p, x)) /\ IsSeq(Append(p, x))
<1> DEFINE S == Range(p) \cup {x}
           long == Append(p, x)
           n == Len(p)
<1>1. p \in Seq(S) /\ x \in S
  BY SeqMonotonic DEF IsSeq
<1> HIDE DEF S
<1>2. /\ long \in Seq(S) /\ Len(long) = n + 1 /\ n \in Nat
      /\ \A i \in 1 .. n : long[i] = p[i]
  BY <1>1, AppendProperties, LenProperties
<1>3. n <= Len(long)
  BY <1>2
<1>4. \A i \in 1 .. n : p[i] \in S
  BY <1>1, ElementOfSeq
<1> HIDE DEF long, n
<1>5. /\ SubSeq(long, 1, n) \in Seq(S) /\ Len(SubSeq(long, 1, n)) = n
      /\ \A i \in 1 .. n : SubSeq(long, 1, n)[i] = long[i]
  BY <1>2, <1>3, <1>4
<1>6. SubSeq(long, 1, n) = p
  BY <1>1, <1>2, <1>5, SeqEqual DEF n
<1>7. SubSeq(p, 1, n) = p
  <2>1. IsSeq(p)
    OBVIOUS
  <2> QED BY <2>1, PrefixEnds DEF n
<1>8. IsPrefix(p, long)
  BY <1>3, <1>6, <1>7 DEF IsPrefix, n
<1>9. IsSeq(long)
  BY <1>2, SeqIs
<1> QED BY <1>8, <1>9 DEF long

-----------------------------------------------------------------------------
(***************************************************************************)
(* Every name is declared before it is mentioned: what x mentions is in E, *)
(* and q resolves when each of it is in E or before it in q.               *)
(***************************************************************************)
Sees(x, y) == IsPrefix(Named(y[1]), Named(x[1]))

Met(x, E) ==
  /\ \A a \in AliasesOf(x[2]) :
       LET y == <<x[1], Alias(ClassOf(x[2]), a)>> IN y \in E /\ Sees(x, y)
  /\ x[2].tok = "def" =>
       \A u \in x[2].uses : \E y \in E :
         Sees(x, y) /\ y[2].tok \in {"def", "var"} /\ y[2].name = u

Before(q, k) == { q[l] : l \in 1 .. k - 1 }

Resolved(q, E) == \A k \in 1 .. Len(q) : Met(q[k], E \cup Before(q, k))

LEMMA MetMore ==
  ASSUME NEW x, NEW E, NEW F, E \subseteq F, Met(x, E)
  PROVE  Met(x, F)
BY Zenon DEF Met

LEMMA ResolvedMore ==
  ASSUME NEW q, NEW E, NEW F, E \subseteq F, Resolved(q, E)
  PROVE  Resolved(q, F)
<1>1. ASSUME NEW k \in 1 .. Len(q) PROVE Met(q[k], F \cup Before(q, k))
  <2> DEFINE A == E \cup Before(q, k)
             B == F \cup Before(q, k)
  <2>1. Met(q[k], A) /\ A \subseteq B
    BY DEF Resolved
  <2> HIDE DEF A, B
  <2> QED BY <2>1, MetMore DEF B
<1> QED BY <1>1 DEF Resolved

LEMMA ResolvedAll ==
  ASSUME NEW q, IsSeq(q), NEW E, \A x \in Range(q) : Met(x, E)
  PROVE  Resolved(q, E)
<1>1. ASSUME NEW k \in 1 .. Len(q) PROVE Met(q[k], E \cup Before(q, k))
  <2> DEFINE B == E \cup Before(q, k)
  <2>1. E \subseteq B
    OBVIOUS
  <2>2. Met(q[k], E)
    BY SeqFacts
  <2> HIDE DEF B
  <2>3. Met(q[k], B)
    BY <2>1, <2>2, MetMore
  <2> QED BY <2>3 DEF B
<1> QED BY <1>1 DEF Resolved

LEMMA ResolvedConcat ==
  ASSUME NEW p, IsSeq(p), NEW q, IsSeq(q), NEW E, Resolved(p, E), Resolved(q, E \cup Range(p))
  PROVE  Resolved(p \o q, E)
<1> DEFINE r == p \o q
           m == Len(p)
           n == Len(q)
<1>1. /\ m \in Nat /\ n \in Nat /\ Len(r) = m + n
      /\ \A i \in 1 .. m : r[i] = p[i]
      /\ \A i \in 1 .. n : r[m + i] = q[i]
      /\ \A x \in Range(p) : \E i \in 1 .. m : x = p[i]
  <2>1. m \in Nat /\ \A x \in Range(p) : \E i \in 1 .. m : x = p[i]
    BY SeqFacts
  <2>2. n \in Nat
    BY SeqFacts
  <2>3. /\ Len(r) = m + n
        /\ \A i \in 1 .. m : r[i] = p[i]
        /\ \A i \in 1 .. n : r[m + i] = q[i]
    BY ConcatFacts
  <2> HIDE DEF r, m, n
  <2> QED BY <2>1, <2>2, <2>3
<1>2. /\ \A k \in 1 .. m : Met(p[k], E \cup Before(p, k))
      /\ \A k \in 1 .. n : Met(q[k], (E \cup Range(p)) \cup Before(q, k))
  BY DEF Resolved
<1> DEFINE R == Range(p)
<1> HIDE DEF r, m, n, R
<1>3. ASSUME NEW k \in 1 .. m + n PROVE Met(r[k], E \cup Before(r, k))
  <2> DEFINE A == E \cup Before(r, k)
  <2>1. CASE k <= m
    <3>1. k \in 1 .. m /\ \A l \in 1 .. k - 1 : l \in 1 .. m
      BY <1>1, <2>1
    <3>2. r[k] = p[k] /\ \A l \in 1 .. k - 1 : r[l] = p[l]
      BY <1>1, <3>1
    <3> DEFINE B == E \cup Before(p, k)
    <3>3. B \subseteq A
      BY <3>2 DEF Before
    <3>4. Met(p[k], B)
      BY <1>2, <3>1
    <3> HIDE DEF A, B
    <3> QED BY <3>2, <3>3, <3>4, MetMore DEF A
  <2>2. CASE ~ (k <= m)
    <3> DEFINE i == k - m
               B == (E \cup R) \cup Before(q, i)
    <3>1. i \in 1 .. n /\ k = m + i
      BY <1>1, <2>2
    <3>2. r[k] = q[i]
      BY <1>1, <3>1
    <3>3. \A l \in 1 .. i - 1 : l \in 1 .. n /\ m + l \in 1 .. k - 1
      BY <1>1, <3>1
    <3>4. \A l \in 1 .. m : l \in 1 .. k - 1
      BY <1>1, <3>1
    <3>5. Before(q, i) \subseteq Before(r, k)
      <4>1. ASSUME NEW l \in 1 .. i - 1 PROVE q[l] \in Before(r, k)
        <5>1. q[l] = r[m + l] /\ m + l \in 1 .. k - 1
          BY <1>1, <3>3
        <5> QED BY <5>1 DEF Before
      <4> HIDE DEF i
      <4> QED BY <4>1 DEF Before
    <3>6. R \subseteq Before(r, k)
      <4>1. ASSUME NEW l \in 1 .. m PROVE p[l] \in Before(r, k)
        <5>1. p[l] = r[l] /\ l \in 1 .. k - 1
          BY <1>1, <3>4
        <5> QED BY <5>1 DEF Before
      <4> QED BY <1>1, <4>1 DEF R
    <3>7. Met(q[i], B)
      <4> HIDE DEF i
      <4> QED BY <1>2, <3>1 DEF R
    <3>8. B \subseteq A
      BY <3>5, <3>6
    <3> HIDE DEF A, B
    <3> QED BY <3>2, <3>7, <3>8, MetMore DEF A
  <2> QED BY <2>1, <2>2
<1> QED BY <1>1, <1>3 DEF Resolved, r

LEMMA ResolvedFlatten ==
  ASSUME NEW qs, Parts(qs), NEW E, \A i \in 1 .. Len(qs) : Resolved(qs[i], E)
  PROVE  Resolved(FlattenSeq(qs), E)
<1>1. PICK g : Joins(qs, g) /\ FlattenSeq(qs) = g[Len(qs)]
  BY FlattenIs
<1>2. Len(qs) \in Nat
  BY SeqFacts DEF Parts
<1> DEFINE S == { k \in Nat : k <= Len(qs) => Resolved(g[k], E) }
<1>3. 0 \in S
  <2>1. \A k \in 1 .. 0 : FALSE
    OBVIOUS
  <2> QED BY <1>1, <2>1, EmptyFacts DEF Joins, Resolved
<1>4. ASSUME NEW k \in Nat, k \in S PROVE k + 1 \in S
  <2> SUFFICES ASSUME k + 1 <= Len(qs) PROVE Resolved(g[k + 1], E)
    OBVIOUS
  <2>1. k + 1 \in 1 .. Len(qs) /\ k \in 0 .. Len(qs) /\ Resolved(g[k], E)
    BY <1>2, <1>4
  <2>2. g[k + 1] = g[k] \o qs[k + 1] /\ Resolved(qs[k + 1], E)
    BY <1>1, <2>1, JoinsNext
  <2>3. IsSeq(g[k]) /\ IsSeq(qs[k + 1])
    BY <1>1, <2>1, JoinsSeq DEF Parts
  <2> DEFINE F == E \cup Range(g[k])
  <2>4. E \subseteq F
    OBVIOUS
  <2> HIDE DEF F
  <2>5. Resolved(qs[k + 1], F)
    BY <2>2, <2>4, ResolvedMore
  <2>6. Resolved(g[k] \o qs[k + 1], E)
    BY <2>1, <2>3, <2>5, ResolvedConcat DEF F
  <2> QED BY <2>2, <2>6
<1> HIDE DEF S
<1>5. Len(qs) \in S
  BY <1>2, <1>3, <1>4, NatInd
<1> QED BY <1>1, <1>2, <1>5 DEF S

\* What is read in the namespaces v, piece by piece.
LEMMA AtConcat ==
  ASSUME NEW v, NEW a, IsSeq(a), NEW b, IsSeq(b)
  PROVE  At(v, a \o b) = At(v, a) \o At(v, b)
<1> DEFINE m == Len(a)
           n == Len(b)
           c == a \o b
           p == At(v, a)
           q == At(v, b)
           r == At(v, c)
<1>1. m \in Nat /\ n \in Nat
  BY SeqFacts
<1>2. /\ IsSeq(c) /\ Len(c) = m + n
      /\ \A i \in 1 .. m : c[i] = a[i]
      /\ \A i \in 1 .. n : c[m + i] = b[i]
  BY ConcatFacts
<1>3. IsSeq(p) /\ Len(p) = m /\ \A i \in 1 .. m : p[i] = <<v, a[i]>>
  BY AtFacts
<1>4. IsSeq(q) /\ Len(q) = n /\ \A i \in 1 .. n : q[i] = <<v, b[i]>>
  BY AtFacts
<1> HIDE DEF c, p, q, m, n
<1>5. IsSeq(r) /\ Len(r) = m + n /\ \A i \in 1 .. m + n : r[i] = <<v, c[i]>>
  BY <1>2, AtFacts
<1> HIDE DEF r
<1>6. /\ IsSeq(p \o q) /\ Len(p \o q) = m + n
      /\ \A i \in 1 .. m : (p \o q)[i] = p[i]
      /\ \A i \in 1 .. n : (p \o q)[m + i] = q[i]
  <2>1. IsSeq(p) /\ IsSeq(q)
    BY <1>3, <1>4
  <2>2. /\ IsSeq(p \o q) /\ Len(p \o q) = Len(p) + Len(q)
        /\ \A i \in 1 .. Len(p) : (p \o q)[i] = p[i]
        /\ \A i \in 1 .. Len(q) : (p \o q)[Len(p) + i] = q[i]
    BY <2>1, ConcatFacts
  <2> DEFINE s == p \o q
  <2> HIDE DEF s
  <2>3. Len(p) = m /\ Len(q) = n
    BY <1>3, <1>4
  <2>4. /\ IsSeq(s) /\ Len(s) = m + n
        /\ \A i \in 1 .. m : s[i] = p[i]
        /\ \A i \in 1 .. n : s[m + i] = q[i]
    BY <2>2, <2>3 DEF s
  <2> QED BY <2>4 DEF s
<1> DEFINE s == p \o q
<1> HIDE DEF s
<1>7. ASSUME NEW k \in 1 .. m + n PROVE r[k] = s[k]
  <2>1. CASE k <= m
    <3>1. k \in 1 .. m
      BY <1>1, <2>1
    <3> QED BY <1>2, <1>3, <1>5, <1>6, <3>1 DEF s
  <2>2. CASE ~ (k <= m)
    <3> DEFINE i == k - m
    <3>1. i \in 1 .. n /\ k = m + i
      BY <1>1, <2>2
    <3> HIDE DEF i
    <3>2. c[k] = b[i] /\ s[k] = q[i] /\ q[i] = <<v, b[i]>>
      BY <1>2, <1>4, <1>6, <3>1 DEF s
    <3> QED BY <1>5, <3>2
  <2> QED BY <2>1, <2>2
<1>8. r = s
  BY <1>5, <1>6, <1>7, SeqSame DEF s
<1> QED BY <1>8 DEF r, s, c, p, q

LEMMA AtFlatten ==
  ASSUME NEW v, NEW seqs, Parts(seqs), NEW qs, Parts(qs), Len(qs) = Len(seqs),
         \A i \in 1 .. Len(seqs) : qs[i] = At(v, seqs[i])
  PROVE  At(v, FlattenSeq(seqs)) = FlattenSeq(qs)
<1>1. PICK g : Joins(seqs, g) /\ FlattenSeq(seqs) = g[Len(seqs)]
  BY FlattenIs
<1>2. PICK h : Joins(qs, h) /\ FlattenSeq(qs) = h[Len(qs)]
  BY FlattenIs
<1>3. Len(seqs) \in Nat
  BY SeqFacts DEF Parts
<1> DEFINE S == { k \in Nat : k <= Len(seqs) => At(v, g[k]) = h[k] }
<1>4. 0 \in S
  <2>1. IsSeq(At(v, << >>)) /\ Len(At(v, << >>)) = 0
    BY EmptyFacts, AtFacts
  <2>2. At(v, << >>) = << >>
    BY <2>1, EmptyFacts
  <2> QED BY <1>1, <1>2, <2>2 DEF Joins
<1>5. ASSUME NEW k \in Nat, k \in S PROVE k + 1 \in S
  <2> SUFFICES ASSUME k + 1 <= Len(seqs) PROVE At(v, g[k + 1]) = h[k + 1]
    OBVIOUS
  <2>1. k + 1 \in 1 .. Len(seqs) /\ k \in 0 .. Len(seqs) /\ At(v, g[k]) = h[k]
    BY <1>3, <1>5
  <2>2. g[k + 1] = g[k] \o seqs[k + 1] /\ qs[k + 1] = At(v, seqs[k + 1])
    BY <1>1, <2>1, JoinsNext
  <2>3. h[k + 1] = h[k] \o qs[k + 1]
    BY <1>2, <2>1, JoinsNext
  <2>4. IsSeq(g[k]) /\ IsSeq(seqs[k + 1])
    BY <1>1, <2>1, JoinsSeq DEF Parts
  <2>5. At(v, g[k] \o seqs[k + 1]) = At(v, g[k]) \o At(v, seqs[k + 1])
    BY <2>4, AtConcat
  <2> QED BY <2>1, <2>2, <2>3, <2>5
<1> HIDE DEF S
<1>6. Len(seqs) \in S
  BY <1>3, <1>4, <1>5, NatInd
<1> QED BY <1>1, <1>2, <1>3, <1>6 DEF S

-----------------------------------------------------------------------------
(***************************************************************************)
(* What the tokens mention.                                                *)
(***************************************************************************)
LEMMA Mentions ==
  /\ \A class, name, types : /\ AliasesOf(Decl(class, name, types)) = Generated(types)
                             /\ ClassOf(Decl(class, name, types)) = class
                             /\ Decl(class, name, types).tok = "decl"
  /\ \A class, name, types, aliases, row, uses :
       /\ AliasesOf(Def(class, name, types, aliases, row, uses)) = Generated(types) \cup aliases
       /\ ClassOf(Def(class, name, types, aliases, row, uses)) = class
       /\ Def(class, name, types, aliases, row, uses).uses = uses
  /\ \A x : x.tok \notin {"decl", "def", "switch"} => AliasesOf(x) = {}
<1>1. ASSUME NEW class, NEW name, NEW types
      PROVE  /\ AliasesOf(Decl(class, name, types)) = Generated(types)
             /\ ClassOf(Decl(class, name, types)) = class
             /\ Decl(class, name, types).tok = "decl"
  <2> DEFINE x == Decl(class, name, types)
  <2>1. x.tok = "decl" /\ x.types = types /\ x.class = class
    BY DEF Decl
  <2> HIDE DEF x
  <2>2. AliasesOf(x) = Generated(x.types) /\ ClassOf(x) = x.class
    BY <2>1 DEF AliasesOf, ClassOf
  <2> QED BY <2>1, <2>2 DEF x
<1>2. ASSUME NEW class, NEW name, NEW types, NEW aliases, NEW row, NEW uses
      PROVE  /\ AliasesOf(Def(class, name, types, aliases, row, uses)) = Generated(types) \cup aliases
             /\ ClassOf(Def(class, name, types, aliases, row, uses)) = class
             /\ Def(class, name, types, aliases, row, uses).uses = uses
  <2> DEFINE x == Def(class, name, types, aliases, row, uses)
  <2>1. x.tok = "def" /\ x.types = types /\ x.class = class /\ x.aliases = aliases /\ x.uses = uses
    BY DEF Def
  <2> HIDE DEF x
  <2>2. AliasesOf(x) = Generated(x.types) \cup x.aliases /\ ClassOf(x) = x.class
    BY <2>1 DEF AliasesOf, ClassOf
  <2> QED BY <2>1, <2>2 DEF x
<1>3. \A x : x.tok \notin {"decl", "def", "switch"} => AliasesOf(x) = {}
  BY DEF AliasesOf
<1> QED BY <1>1, <1>2, <1>3

LEMMA DeclMentions ==
  ASSUME NEW class, NEW name, NEW types
  PROVE  /\ AliasesOf(Decl(class, name, types)) = Generated(types)
         /\ Decl(class, name, types).tok = "decl"
BY Mentions

LEMMA GeneratedFacts ==
  /\ Generated(<< >>) = {}
  /\ \A x : Generated(<<x>>) \subseteq {x}
  /\ \A x, y : Generated(<<x, y>>) \subseteq {x, y}
  /\ \A x, y, z : Generated(<<x, y, z>>) \subseteq {x, y, z}
  /\ \A x, y, z, v : Generated(<<x, y, z, v>>) \subseteq {x, y, z, v}
  /\ \A types, t : Cpp(t) \notin Generated(types)
<1>1. Generated(<< >>) = {}
  BY EmptyFacts DEF Generated
<1>2. \A x : Generated(<<x>>) \subseteq {x}
  BY OneFacts DEF Generated
<1>3. \A x, y : Generated(<<x, y>>) \subseteq {x, y}
  BY TwoRange DEF Generated
<1>4. \A x, y, z : Generated(<<x, y, z>>) \subseteq {x, y, z}
  BY ThreeRange DEF Generated
<1>5. \A x, y, z, v : Generated(<<x, y, z, v>>) \subseteq {x, y, z, v}
  <2>1. \A types : Generated(types) \subseteq Range(types)
    BY DEF Generated
  <2> SUFFICES ASSUME NEW x, NEW y, NEW z, NEW v
               PROVE  Generated(<<x, y, z, v>>) \subseteq {x, y, z, v}
    OBVIOUS
  <2>2. Range(<<x, y, z, v>>) = {x, y, z, v}
    BY FourElements
  <2> DEFINE types == <<x, y, z, v>>
  <2> HIDE DEF types
  <2>3. Generated(types) \subseteq Range(types)
    BY <2>1
  <2> QED BY <2>2, <2>3 DEF types
<1>6. \A types, t : Cpp(t) \notin Generated(types)
  <2>1. \A t : Cpp(t)[1] = ""
    BY DEF Cpp
  <2>2. \A types, x : x \in Generated(types) => x[1] # ""
    BY DEF Generated
  <2> QED BY <2>1, <2>2, Zenon
<1> QED BY <1>1, <1>2, <1>3, <1>4, <1>5, <1>6

\* Whether v sees what is declared in v.
Whole(v) == IsPrefix(Named(v), Named(v))

LEMMA MetNothing ==
  ASSUME NEW v, NEW x, AliasesOf(x) = {}, x.tok = "def" => x.uses = {}, NEW E
  PROVE  Met(<<v, x>>, E)
<1> DEFINE y == <<v, x>>
<1>1. y[2] = x
  OBVIOUS
<1> HIDE DEF y
<1>2. Met(y, E)
  BY <1>1 DEF Met
<1> QED BY <1>2 DEF y

LEMMA MetAliases ==
  ASSUME NEW v, Whole(v), NEW x, x.tok = "def" => x.uses = {}, NEW E,
         \A a \in AliasesOf(x) : <<v, Alias(ClassOf(x), a)>> \in E
  PROVE  Met(<<v, x>>, E)
<1> DEFINE y == <<v, x>>
<1>1. y[2] = x /\ y[1] = v /\ \A z : <<v, z>>[1] = v
  OBVIOUS
<1> HIDE DEF y
<1>2. ASSUME NEW a \in AliasesOf(y[2])
      PROVE  LET z == <<y[1], Alias(ClassOf(y[2]), a)>> IN z \in E /\ Sees(y, z)
  <2> DEFINE t == Alias(ClassOf(x), a)
             z == <<v, t>>
  <2>1. z \in E
    BY <1>1, <1>2
  <2>2. z[1] = v /\ z = <<y[1], Alias(ClassOf(y[2]), a)>>
    BY <1>1
  <2> HIDE DEF z
  <2>3. Sees(y, z)
    BY <1>1, <2>2 DEF Sees, Whole
  <2> QED BY <2>1, <2>2, <2>3
<1>3. Met(y, E)
  BY <1>1, <1>2, Zenon DEF Met
<1> QED BY <1>3 DEF y

\* A brace, a guard, a variable or an alias mentions nothing.
LEMMA MetQuietly ==
  ASSUME NEW v, NEW x, x.tok \notin {"decl", "def", "switch"}, NEW E
  PROVE  Met(<<v, x>>, E)
BY Mentions, MetNothing

LEMMA MetDecl ==
  ASSUME NEW v, Whole(v), NEW class, NEW name, NEW types, NEW E,
         \A a \in Generated(types) : <<v, Alias(class, a)>> \in E
  PROVE  Met(<<v, Decl(class, name, types)>>, E)
<1> DEFINE x == Decl(class, name, types)
<1>1. AliasesOf(x) = Generated(types) /\ ClassOf(x) = class /\ x.tok = "decl"
  BY Mentions
<1> HIDE DEF x
<1>2. Met(<<v, x>>, E)
  BY <1>1, MetAliases
<1> QED BY <1>2 DEF x

LEMMA MetDecls ==
  ASSUME NEW v, Whole(v), NEW class, NEW name, NEW types, NEW E, NEW a,
         Generated(types) \subseteq {a}, <<v, Alias(class, a)>> \in E
  PROVE  Met(<<v, Decl(class, name, types)>>, E)
BY MetDecl

LEMMA BeforeFacts ==
  ASSUME NEW q
  PROVE  /\ Before(q, 1) = {} /\ Before(q, 2) = {q[1]} /\ Before(q, 3) = {q[1], q[2]}
         /\ Before(q, 4) = {q[1], q[2], q[3]}
<1>1. 1 .. 1 - 1 = {} /\ 1 .. 2 - 1 = {1} /\ 1 .. 3 - 1 = {1, 2} /\ 1 .. 4 - 1 = {1, 2, 3}
  OBVIOUS
<1> QED BY <1>1 DEF Before

LEMMA FourAt ==
  ASSUME NEW v, NEW a, NEW b, NEW c, NEW d
  PROVE  /\ Len(At(v, <<a, b, c, d>>)) = 4 /\ At(v, <<a, b, c, d>>)[1] = <<v, a>>
         /\ At(v, <<a, b, c, d>>)[2] = <<v, b>> /\ At(v, <<a, b, c, d>>)[3] = <<v, c>>
         /\ At(v, <<a, b, c, d>>)[4] = <<v, d>>
<1> DEFINE q == <<a, b, c, d>>
<1>2. IsSeq(q) /\ Len(q) = 4 /\ q[1] = a /\ q[2] = b /\ q[3] = c /\ q[4] = d
  BY FourIsSeq
<1>3. 1 \in 1 .. 4 /\ 2 \in 1 .. 4 /\ 3 \in 1 .. 4 /\ 4 \in 1 .. 4
  OBVIOUS
<1> HIDE DEF q
<1>5. /\ Len(At(v, q)) = 4 /\ At(v, q)[1] = <<v, a>> /\ At(v, q)[2] = <<v, b>>
      /\ At(v, q)[3] = <<v, c>> /\ At(v, q)[4] = <<v, d>>
  BY <1>2, <1>3, AtFacts
<1> QED BY <1>5 DEF q

LEMMA ThreeAt ==
  ASSUME NEW v, NEW a, NEW b, NEW c
  PROVE  /\ Len(At(v, <<a, b, c>>)) = 3 /\ At(v, <<a, b, c>>)[1] = <<v, a>>
         /\ At(v, <<a, b, c>>)[2] = <<v, b>> /\ At(v, <<a, b, c>>)[3] = <<v, c>>
<1> DEFINE q == <<a, b, c>>
<1>2. IsSeq(q) /\ Len(q) = 3 /\ q[1] = a /\ q[2] = b /\ q[3] = c
  BY ThreeIsSeq
<1>3. 1 \in 1 .. 3 /\ 2 \in 1 .. 3 /\ 3 \in 1 .. 3
  OBVIOUS
<1> HIDE DEF q
<1>5. /\ Len(At(v, q)) = 3 /\ At(v, q)[1] = <<v, a>> /\ At(v, q)[2] = <<v, b>>
      /\ At(v, q)[3] = <<v, c>>
  BY <1>2, <1>3, AtFacts
<1> QED BY <1>5 DEF q

LEMMA ResolvedFour ==
  ASSUME NEW v, NEW a, NEW b, NEW c, NEW d,
         Met(<<v, a>>, {}), Met(<<v, b>>, {<<v, a>>}), Met(<<v, c>>, {<<v, a>>, <<v, b>>}),
         Met(<<v, d>>, {<<v, a>>, <<v, b>>, <<v, c>>})
  PROVE  Resolved(At(v, <<a, b, c, d>>), {})
<1> DEFINE q == At(v, <<a, b, c, d>>)
<1>1. /\ Len(q) = 4 /\ q[1] = <<v, a>> /\ q[2] = <<v, b>> /\ q[3] = <<v, c>> /\ q[4] = <<v, d>>
  BY FourAt
<1> HIDE DEF q
<1>2. /\ Before(q, 1) = {} /\ Before(q, 2) = {q[1]} /\ Before(q, 3) = {q[1], q[2]}
      /\ Before(q, 4) = {q[1], q[2], q[3]}
  BY BeforeFacts
<1>3. \A S : {} \cup S = S
  OBVIOUS
<1>4. /\ Met(q[1], Before(q, 1)) /\ Met(q[2], Before(q, 2)) /\ Met(q[3], Before(q, 3))
      /\ Met(q[4], Before(q, 4))
  BY <1>1, <1>2
<1>5. ASSUME NEW k \in 1 .. 4 PROVE Met(q[k], {} \cup Before(q, k))
  <2>1. k = 1 \/ k = 2 \/ k = 3 \/ k = 4
    OBVIOUS
  <2> QED BY <1>3, <1>4, <2>1
<1>6. Resolved(q, {})
  BY <1>1, <1>5 DEF Resolved
<1> QED BY <1>6 DEF q

LEMMA ResolvedThree ==
  ASSUME NEW v, NEW a, NEW b, NEW c,
         Met(<<v, a>>, {}), Met(<<v, b>>, {<<v, a>>}), Met(<<v, c>>, {<<v, a>>, <<v, b>>})
  PROVE  Resolved(At(v, <<a, b, c>>), {})
<1> DEFINE q == At(v, <<a, b, c>>)
<1>1. /\ Len(q) = 3 /\ q[1] = <<v, a>> /\ q[2] = <<v, b>> /\ q[3] = <<v, c>>
  BY ThreeAt
<1> HIDE DEF q
<1>2. /\ Before(q, 1) = {} /\ Before(q, 2) = {q[1]} /\ Before(q, 3) = {q[1], q[2]}
  BY BeforeFacts
<1>3. \A S : {} \cup S = S
  OBVIOUS
<1>4. Met(q[1], Before(q, 1)) /\ Met(q[2], Before(q, 2)) /\ Met(q[3], Before(q, 3))
  BY <1>1, <1>2
<1>5. ASSUME NEW k \in 1 .. 3 PROVE Met(q[k], {} \cup Before(q, k))
  <2>1. k = 1 \/ k = 2 \/ k = 3
    OBVIOUS
  <2> QED BY <1>3, <1>4, <2>1
<1>6. Resolved(q, {})
  BY <1>1, <1>5 DEF Resolved
<1> QED BY <1>6 DEF q

LEMMA MetAlias ==
  ASSUME NEW v, NEW class, NEW name, NEW E
  PROVE  Met(<<v, Alias(class, name)>>, E)
<1>1. Alias(class, name).tok = "alias"
  BY DEF Alias
<1> QED BY <1>1, MetQuietly

\* An alias before the function that mentions it, twice.
LEMMA AliasesFirst ==
  ASSUME NEW v, Whole(v), NEW class, NEW a, NEW m, NEW t, Generated(t) \subseteq {a},
         NEW b, NEW n, NEW u, Generated(u) \subseteq {b}
  PROVE  Resolved(At(v, << Alias(class, a), Decl(class, m, t), Alias(class, b), Decl(class, n, u) >>), {})
<1> DEFINE w == Alias(class, a)
           x == Decl(class, m, t)
           y == Alias(class, b)
           z == Decl(class, n, u)
<1>1. Met(<<v, w>>, {}) /\ Met(<<v, y>>, {<<v, w>>, <<v, x>>})
  BY MetAlias
<1>2. Met(<<v, x>>, {<<v, w>>})
  <2> DEFINE E == {<<v, w>>}
  <2>1. <<v, w>> \in E
    OBVIOUS
  <2> HIDE DEF E
  <2>2. Met(<<v, x>>, E)
    BY <2>1, MetDecls
  <2> QED BY <2>2 DEF E
<1>3. Met(<<v, z>>, {<<v, w>>, <<v, x>>, <<v, y>>})
  <2> DEFINE E == {<<v, w>>, <<v, x>>, <<v, y>>}
  <2>1. <<v, y>> \in E
    OBVIOUS
  <2> HIDE DEF E
  <2>2. Met(<<v, z>>, E)
    BY <2>1, MetDecls
  <2> QED BY <2>2 DEF E
<1> HIDE DEF w, x, y, z
<1>4. Resolved(At(v, <<w, x, y, z>>), {})
  BY <1>1, <1>2, <1>3, ResolvedFour
<1> QED BY <1>4 DEF w, x, y, z

\* What the header says of a method of the stub: of a unary one, of another.
Unary(m, t, p, u) ==
  << Decl("Stub", <<"Sync_", m.name>>, t), Alias("Stub", p), Decl("Stub", <<"Async_", m.name>>, u) >>

Stream(m, o, t, p, u) ==
  << Alias("Stub", o), Decl("Stub", <<"Sync_", m.name>>, t),
     Alias("Stub", p), Decl("Stub", <<"Async_", m.name>>, u) >>

\* Header and source agree on the types, and the aliases come first.
LEMMA ClientMethodShape ==
  ASSUME NEW m \in MethodDescriptor, NEW i
  PROVE  \E o, t, p, u :
           /\ PrintSourceClientMethod(m, i) = Stubs(m, i, t, u)
           /\ Generated(t) \subseteq {o} /\ Generated(u) \subseteq {p}
           /\ \/ Generated(t) = {} /\ PrintHeaderClientMethodPublic(m) = Unary(m, t, p, u)
              \/ PrintHeaderClientMethodPublic(m) = Stream(m, o, t, p, u)
<1>1. m.client_streaming \in BOOLEAN /\ m.server_streaming \in BOOLEAN
  BY DEF MethodDescriptor
<1>2. CASE NoStreaming(m)
  <2> DEFINE p == Own(m, "RespCb")
             a == Cpp("Status")
             b == Cpp("Request")
             c == Cpp("Response*")
             d == Cpp("void")
             e == Cpp("ErrorCb")
             t == <<a, b, c>>
             u == <<d, b, p, e>>
  <2>1. /\ PrintHeaderClientMethodPublic(m) = Unary(m, t, p, u)
        /\ PrintSourceClientMethod(m, i) = Stubs(m, i, t, u)
    BY <1>2 DEF PrintHeaderClientMethodPublic, PrintSourceClientMethod, Stubs, Row, Unary, Stream, NoStreaming, ClientOnlyStreaming, ServerOnlyStreaming, BidiStreaming
  <2>2. \A types : /\ a \notin Generated(types) /\ b \notin Generated(types)
                   /\ c \notin Generated(types) /\ d \notin Generated(types)
                   /\ e \notin Generated(types)
    BY GeneratedFacts
  <2> HIDE DEF a, b, c, d, e, p
  <2>3. Generated(t) \subseteq {a, b, c} /\ Generated(u) \subseteq {d, b, p, e}
    BY GeneratedFacts
  <2> HIDE DEF t, u
  <2>4. Generated(t) = {} /\ Generated(u) \subseteq {p}
    BY <2>2, <2>3
  <2>5. Generated(t) \subseteq {p}
    BY <2>4
  <2> QED BY <2>1, <2>4, <2>5, Zenon
<1>3. CASE ClientOnlyStreaming(m)
  <2> DEFINE o == Own(m, "SyncWriter")
             p == Own(m, "AsyncWriter")
             t == <<o>>
             u == <<p>>
  <2>1. /\ PrintHeaderClientMethodPublic(m) = Stream(m, o, t, p, u)
        /\ PrintSourceClientMethod(m, i) = Stubs(m, i, t, u)
    BY <1>3 DEF PrintHeaderClientMethodPublic, PrintSourceClientMethod, Stubs, Row, Unary, Stream, NoStreaming, ClientOnlyStreaming, ServerOnlyStreaming, BidiStreaming
  <2> HIDE DEF o, p
  <2>2. Generated(t) \subseteq {o} /\ Generated(u) \subseteq {p}
    BY GeneratedFacts
  <2> HIDE DEF t, u
  <2> QED BY <2>1, <2>2, Zenon
<1>4. CASE ServerOnlyStreaming(m)
  <2> DEFINE o == Own(m, "SyncReader")
             p == Own(m, "MsgCb")
             a == Cpp("Request")
             b == Cpp("void")
             c == Cpp("StatusCb")
             t == <<o, a>>
             u == <<b, a, p, c>>
  <2>1. /\ PrintHeaderClientMethodPublic(m) = Stream(m, o, t, p, u)
        /\ PrintSourceClientMethod(m, i) = Stubs(m, i, t, u)
    BY <1>4 DEF PrintHeaderClientMethodPublic, PrintSourceClientMethod, Stubs, Row, Unary, Stream, NoStreaming, ClientOnlyStreaming, ServerOnlyStreaming, BidiStreaming
  <2>2. \A types : a \notin Generated(types) /\ b \notin Generated(types) /\ c \notin Generated(types)
    BY GeneratedFacts
  <2> HIDE DEF a, b, c, o, p
  <2>3. Generated(t) \subseteq {o, a} /\ Generated(u) \subseteq {b, a, p, c}
    BY GeneratedFacts
  <2> HIDE DEF t, u
  <2>4. Generated(t) \subseteq {o} /\ Generated(u) \subseteq {p}
    BY <2>2, <2>3
  <2> QED BY <2>1, <2>4, Zenon
<1>5. CASE BidiStreaming(m)
  <2> DEFINE o == Own(m, "SyncReaderWriter")
             p == Own(m, "AsyncReaderWriter")
             c == Cpp("StatusCb")
             t == <<o>>
             u == <<p, c>>
  <2>1. /\ PrintHeaderClientMethodPublic(m) = Stream(m, o, t, p, u)
        /\ PrintSourceClientMethod(m, i) = Stubs(m, i, t, u)
    BY <1>5 DEF PrintHeaderClientMethodPublic, PrintSourceClientMethod, Stubs, Row, Unary, Stream, NoStreaming, ClientOnlyStreaming, ServerOnlyStreaming, BidiStreaming
  <2>2. \A types : c \notin Generated(types)
    BY GeneratedFacts
  <2> HIDE DEF c, o, p
  <2>3. Generated(t) \subseteq {o} /\ Generated(u) \subseteq {p, c}
    BY GeneratedFacts
  <2> HIDE DEF t, u
  <2>4. Generated(t) \subseteq {o} /\ Generated(u) \subseteq {p}
    BY <2>2, <2>3
  <2> QED BY <2>1, <2>4, Zenon
<1> QED BY <1>1, <1>2, <1>3, <1>4, <1>5 DEF NoStreaming, ClientOnlyStreaming, ServerOnlyStreaming, BidiStreaming

LEMMA ClientMethodResolved ==
  ASSUME NEW m \in MethodDescriptor, NEW v, Whole(v)
  PROVE  Resolved(At(v, PrintHeaderClientMethodPublic(m)), {})
<1>1. PICK o, t, p, u :
        /\ Generated(t) \subseteq {o} /\ Generated(u) \subseteq {p}
        /\ \/ Generated(t) = {} /\ PrintHeaderClientMethodPublic(m) = Unary(m, t, p, u)
           \/ PrintHeaderClientMethodPublic(m) = Stream(m, o, t, p, u)
  BY ClientMethodShape, Zenon
<1> DEFINE sync == <<"Sync_", m.name>>
           async == <<"Async_", m.name>>
<1>2. CASE Generated(t) = {} /\ PrintHeaderClientMethodPublic(m) = Unary(m, t, p, u)
  <2> DEFINE x == Decl("Stub", sync, t)
             y == Alias("Stub", p)
             z == Decl("Stub", async, u)
  <2>1. PrintHeaderClientMethodPublic(m) = <<x, y, z>>
    BY <1>2 DEF Unary
  <2> HIDE DEF sync, async
  <2>3. Met(<<v, x>>, {})
    BY <1>2, MetDecl
  <2>4. Met(<<v, y>>, {<<v, x>>})
    BY MetAlias
  <2>5. Met(<<v, z>>, {<<v, x>>, <<v, y>>})
    <3> DEFINE E == {<<v, x>>, <<v, y>>}
    <3>1. <<v, y>> \in E
      OBVIOUS
    <3> HIDE DEF E
    <3>2. Met(<<v, z>>, E)
      BY <1>1, <3>1, MetDecls
    <3> QED BY <3>2 DEF E
  <2> HIDE DEF x, y, z
  <2> QED BY <2>1, <2>3, <2>4, <2>5, ResolvedThree
<1>3. CASE PrintHeaderClientMethodPublic(m) = Stream(m, o, t, p, u)
  <2>1. PrintHeaderClientMethodPublic(m)
          = << Alias("Stub", o), Decl("Stub", sync, t), Alias("Stub", p), Decl("Stub", async, u) >>
    BY <1>3 DEF Stream
  <2> HIDE DEF sync, async
  <2> QED BY <1>1, <2>1, AliasesFirst
<1> QED BY <1>1, <1>2, <1>3

\* The range of that text, and that its aliases suffice.
LEMMA ClientMethodTypes ==
  ASSUME NEW m \in MethodDescriptor, NEW i
  PROVE  \E t, u :
           /\ PrintSourceClientMethod(m, i) = Stubs(m, i, t, u)
           /\ \A a \in Generated(t) \cup Generated(u) :
                Alias("Stub", a) \in Range(PrintHeaderClientMethodPublic(m))
           /\ Decl("Stub", <<"Sync_", m.name>>, t) \in Range(PrintHeaderClientMethodPublic(m))
           /\ Decl("Stub", <<"Async_", m.name>>, u) \in Range(PrintHeaderClientMethodPublic(m))
           /\ \A x \in Range(PrintHeaderClientMethodPublic(m)) :
                \/ x.tok = "alias"
                \/ x = Decl("Stub", <<"Sync_", m.name>>, t)
                \/ x = Decl("Stub", <<"Async_", m.name>>, u)
<1>1. PICK o, t, p, u :
        /\ PrintSourceClientMethod(m, i) = Stubs(m, i, t, u)
        /\ Generated(t) \subseteq {o} /\ Generated(u) \subseteq {p}
        /\ \/ Generated(t) = {} /\ PrintHeaderClientMethodPublic(m) = Unary(m, t, p, u)
           \/ PrintHeaderClientMethodPublic(m) = Stream(m, o, t, p, u)
  BY ClientMethodShape, Zenon
<1> DEFINE w == Alias("Stub", o)
           x == Decl("Stub", <<"Sync_", m.name>>, t)
           y == Alias("Stub", p)
           z == Decl("Stub", <<"Async_", m.name>>, u)
           R == Range(PrintHeaderClientMethodPublic(m))
<1>2. w.tok = "alias" /\ y.tok = "alias"
  BY DEF Alias
<1>3. \/ Generated(t) = {} /\ R = {x, y, z}
      \/ R = {w, x, y, z}
  <2>1. Unary(m, t, p, u) = <<x, y, z>> /\ Stream(m, o, t, p, u) = <<w, x, y, z>>
    BY DEF Unary, Stream
  <2> HIDE DEF w, x, y, z
  <2>2. Range(<<x, y, z>>) = {x, y, z} /\ Range(<<w, x, y, z>>) = {w, x, y, z}
    BY ThreeRange, FourElements
  <2> QED BY <1>1, <2>1, <2>2
<1>4. \A a \in Generated(t) \cup Generated(u) : Alias("Stub", a) \in R
  <2>1. ASSUME NEW a \in Generated(t) \cup Generated(u) PROVE Alias("Stub", a) \in R
    <3>1. \/ a \in Generated(t) /\ Alias("Stub", a) = w
          \/ Alias("Stub", a) = y
      BY <1>1
    <3> HIDE DEF R, w, x, y, z
    <3> QED BY <1>3, <3>1
  <2> QED BY <2>1
<1> HIDE DEF w, x, y, z, R
<1>5. x \in R /\ z \in R /\ \A k \in R : k.tok = "alias" \/ k = x \/ k = z
  BY <1>2, <1>3
<1> QED BY <1>1, <1>4, <1>5, Zenon DEF R, x, z

\* A method of the service: its aliases, then its two functions.
LEMMA ServerTexts ==
  ASSUME NEW m
  PROVE  \E a : /\ PrintHeaderServiceMethod(m)
                     = a \o << Decl("Service", <<"", m.name>>, Handler(m)),
                               Decl("Service", <<"", m.name>>, Entry(m)) >>
                /\ IsSeq(a) /\ \A x \in Range(a) : x.tok = "alias"
                /\ Alias("Service", Handle(m)) \in Range(a)
                /\ m.client_streaming => Alias("Service", Own(m, "ReaderSptr")) \in Range(a)
<1> DEFINE h == Alias("Service", Handle(m))
           r == Alias("Service", Own(m, "Reader"))
           p == Alias("Service", Own(m, "ReaderSptr"))
           x == Decl("Service", <<"", m.name>>, Handler(m))
           y == Decl("Service", <<"", m.name>>, Entry(m))
           b == IF m.client_streaming THEN <<r, p>> ELSE << >>
           a == <<h>> \o b
<1>1. h.tok = "alias" /\ r.tok = "alias" /\ p.tok = "alias"
  BY DEF Alias
<1>2. PrintHeaderServiceMethod(m) = a \o <<x, y>>
  BY DEF PrintHeaderServiceMethod
<1> HIDE DEF h, r, p, x, y
<1>3. IsSeq(<<h>>) /\ Range(<<h>>) = {h}
  BY OneFacts
<1>4. IsSeq(b) /\ Range(b) \subseteq {r, p} /\ (m.client_streaming => p \in Range(b))
  <2>1. CASE m.client_streaming
    <3>1. b = <<r, p>>
      BY <2>1
    <3>2. IsSeq(<<r, p>>) /\ Range(<<r, p>>) = {r, p}
      BY TwoFacts, TwoRange
    <3> HIDE DEF b
    <3> QED BY <3>1, <3>2
  <2>2. CASE ~ m.client_streaming
    <3>1. b = << >>
      BY <2>2
    <3> HIDE DEF b
    <3> QED BY <2>2, <3>1, EmptyFacts
  <2> QED BY <2>1, <2>2
<1> HIDE DEF b
<1>5. IsSeq(a) /\ Range(a) = {h} \cup Range(b)
  BY <1>3, <1>4, ConcatIsSeq, ConcatRange
<1> HIDE DEF a
<1>6. /\ \A z \in Range(a) : z.tok = "alias"
      /\ h \in Range(a) /\ (m.client_streaming => p \in Range(a))
  BY <1>1, <1>4, <1>5
<1> QED BY <1>2, <1>5, <1>6, Zenon DEF h, p, x, y

\* Which of the aliases those functions mention.
LEMMA ServerTypes ==
  ASSUME NEW m
  PROVE  /\ \A a \in Generated(Handler(m)) :
              a = Handle(m) \/ (m.client_streaming /\ a = Own(m, "ReaderSptr"))
         /\ \A a \in Generated(Entry(m)) : a = Handle(m)
<1> DEFINE v == Cpp("void")
           b == Cpp("grpc_byte_buffer")
           c == Cpp("CallSptr")
           q == Cpp("Request")
           r == Own(m, "ReaderSptr")
           h == Handle(m)
<1>1. \A types : /\ v \notin Generated(types) /\ b \notin Generated(types)
                 /\ c \notin Generated(types) /\ q \notin Generated(types)
  BY GeneratedFacts
<1>2. /\ Handler(m) = IF m.client_streaming THEN <<r, h>> ELSE <<v, q, h>>
      /\ Entry(m) = IF m.client_streaming THEN <<v, c>> ELSE <<v, b, h>>
  BY DEF Handler, Entry
<1> HIDE DEF v, b, c, q, r, h
<1>3. /\ Generated(<<r, h>>) \subseteq {r, h} /\ Generated(<<v, q, h>>) \subseteq {v, q, h}
      /\ Generated(<<v, c>>) \subseteq {v, c} /\ Generated(<<v, b, h>>) \subseteq {v, b, h}
  BY GeneratedFacts
<1>4. /\ \A a \in Generated(Handler(m)) : a = h \/ (m.client_streaming /\ a = r)
      /\ \A a \in Generated(Entry(m)) : a = h
  <2>1. CASE m.client_streaming
    <3>1. Handler(m) = <<r, h>> /\ Entry(m) = <<v, c>>
      BY <1>2, <2>1
    <3> QED BY <1>1, <1>3, <2>1, <3>1
  <2>2. CASE ~ m.client_streaming
    <3>1. Handler(m) = <<v, q, h>> /\ Entry(m) = <<v, b, h>>
      BY <1>2, <2>2
    <3> QED BY <1>1, <1>3, <3>1
  <2> QED BY <2>1, <2>2
<1> QED BY <1>4 DEF h, r

LEMMA ServerMethodResolved ==
  ASSUME NEW m, NEW v, Whole(v)
  PROVE  Resolved(At(v, PrintHeaderServiceMethod(m)), {})
<1> DEFINE x == Decl("Service", <<"", m.name>>, Handler(m))
           y == Decl("Service", <<"", m.name>>, Entry(m))
           d == <<x, y>>
<1>1. PICK a : /\ PrintHeaderServiceMethod(m) = a \o d
               /\ IsSeq(a) /\ \A z \in Range(a) : z.tok = "alias"
               /\ Alias("Service", Handle(m)) \in Range(a)
               /\ m.client_streaming => Alias("Service", Own(m, "ReaderSptr")) \in Range(a)
  BY ServerTexts
<1>2. IsSeq(d) /\ Range(d) = {x, y}
  BY TwoFacts, TwoRange
<1> DEFINE p == At(v, a)
           q == At(v, d)
<1>3. IsSeq(p) /\ Range(p) = { <<v, z>> : z \in Range(a) }
  BY <1>1, AtFacts
<1>4. IsSeq(q) /\ Range(q) = { <<v, z>> : z \in Range(d) }
  BY <1>2, AtFacts
<1>5. At(v, a \o d) = p \o q
  BY <1>1, <1>2, AtConcat
<1> HIDE DEF p, q, d
<1>6. Resolved(p, {})
  <2>1. ASSUME NEW z \in Range(p) PROVE Met(z, {})
    <3>1. PICK t \in Range(a) : z = <<v, t>>
      BY <1>3
    <3>2. t.tok \notin {"decl", "def", "switch"}
      BY <1>1
    <3>3. Met(<<v, t>>, {})
      BY <3>2, MetQuietly
    <3> QED BY <3>1, <3>3
  <2> QED BY <1>3, <2>1, ResolvedAll
<1> DEFINE E == {} \cup Range(p)
<1>7. <<v, Alias("Service", Handle(m))>> \in E
  BY <1>1, <1>3
<1>8. m.client_streaming => <<v, Alias("Service", Own(m, "ReaderSptr"))>> \in E
  BY <1>1, <1>3
<1> HIDE DEF E
<1>9. Met(<<v, x>>, E)
  <2>1. ASSUME NEW b \in Generated(Handler(m)) PROVE <<v, Alias("Service", b)>> \in E
    BY <1>7, <1>8, ServerTypes
  <2> DEFINE n == <<"", m.name>>
             t == Handler(m)
  <2> HIDE DEF n, t, x
  <2>2. Met(<<v, Decl("Service", n, t)>>, E)
    BY <2>1, MetDecl DEF t
  <2> QED BY <2>2 DEF n, t, x
<1>10. Met(<<v, y>>, E)
  <2>1. ASSUME NEW b \in Generated(Entry(m)) PROVE <<v, Alias("Service", b)>> \in E
    BY <1>7, ServerTypes
  <2> DEFINE n == <<"", m.name>>
             t == Entry(m)
  <2> HIDE DEF n, t, y
  <2>2. Met(<<v, Decl("Service", n, t)>>, E)
    BY <2>1, MetDecl DEF t
  <2> QED BY <2>2 DEF n, t, y
<1> HIDE DEF x, y
<1>11. \A z \in Range(q) : Met(z, E)
  BY <1>2, <1>4, <1>9, <1>10
<1>12. Resolved(q, E)
  BY <1>4, <1>11, ResolvedAll
<1>13. Resolved(p \o q, {})
  BY <1>3, <1>4, <1>6, <1>12, ResolvedConcat DEF E
<1> QED BY <1>1, <1>5, <1>13

\* Pieces of text in the namespaces v that need nothing from outside.
LEMMA ResolvedAt ==
  ASSUME NEW v, NEW b, IsSeq(b), NEW E, \A x \in Range(b) : Met(<<v, x>>, E)
  PROVE  Resolved(At(v, b), E)
<1> DEFINE q == At(v, b)
<1>1. IsSeq(q) /\ Range(q) = { <<v, x>> : x \in Range(b) }
  BY AtFacts
<1> HIDE DEF q
<1>2. \A z \in Range(q) : Met(z, E)
  BY <1>1
<1>3. Resolved(q, E)
  BY <1>1, <1>2, ResolvedAll
<1> QED BY <1>3 DEF q

LEMMA ResolvedJoin ==
  ASSUME NEW v, NEW a, IsSeq(a), NEW b, IsSeq(b),
         Resolved(At(v, a), {}), Resolved(At(v, b), {})
  PROVE  Resolved(At(v, a \o b), {}) /\ IsSeq(a \o b)
<1> DEFINE p == At(v, a)
           q == At(v, b)
           E == {} \cup Range(p)
<1>1. IsSeq(p) /\ IsSeq(q)
  BY AtFacts
<1>2. At(v, a \o b) = p \o q
  BY AtConcat
<1>3. {} \subseteq E
  OBVIOUS
<1>4. Resolved(p, {}) /\ Resolved(q, {})
  OBVIOUS
<1> HIDE DEF p, q, E
<1>5. Resolved(q, E)
  BY <1>3, <1>4, ResolvedMore
<1>6. Resolved(p \o q, {})
  BY <1>1, <1>4, <1>5, ResolvedConcat DEF E
<1> QED BY <1>2, <1>6, ConcatIsSeq

LEMMA ResolvedEach ==
  ASSUME NEW v, NEW seq, IsSeq(seq), NEW f, DOMAIN f = DOMAIN seq, f = [i \in DOMAIN seq |-> f[i]],
         \A i \in DOMAIN seq : IsSeq(f[i]) /\ Resolved(At(v, f[i]), {})
  PROVE  Resolved(At(v, FlattenSeq(f)), {})
<1>1. Parts(f) /\ Len(f) = Len(seq) /\ DOMAIN f = 1 .. Len(seq)
  BY PartsMade
<1> DEFINE g == [i \in DOMAIN seq |-> At(v, f[i])]
<1>2. /\ DOMAIN g = DOMAIN seq /\ g = [i \in DOMAIN seq |-> g[i]]
      /\ \A i \in DOMAIN seq : g[i] = At(v, f[i])
  OBVIOUS
<1> HIDE DEF g
<1>3. \A i \in DOMAIN seq : IsSeq(g[i])
  BY <1>2, AtFacts
<1>4. Parts(g) /\ Len(g) = Len(seq)
  BY <1>2, <1>3, PartsMade
<1>5. At(v, FlattenSeq(f)) = FlattenSeq(g)
  BY <1>1, <1>2, <1>4, AtFlatten
<1>6. \A i \in 1 .. Len(g) : Resolved(g[i], {})
  BY <1>1, <1>2, <1>4
<1>7. Resolved(FlattenSeq(g), {})
  BY <1>4, <1>6, ResolvedFlatten
<1> QED BY <1>5, <1>7

\* What every Stub and Service has mentions no alias.
LEMMA MembersMention ==
  ASSUME NEW f, f \in Range(StubMembers) \cup Range(ServiceMembers)
  PROVE  Generated(f[2]) = {}
<1> DEFINE a == Cpp("ChannelSptr")
           b == Cpp("CompletionQueueForNextSptr")
           c == Cpp("size_t")
           d == Cpp("grpc_byte_buffer*")
           e == Cpp("CallSptr")
<1>1. \A types : /\ a \notin Generated(types) /\ b \notin Generated(types) /\ c \notin Generated(types)
                 /\ d \notin Generated(types) /\ e \notin Generated(types)
  BY GeneratedFacts
<1> HIDE DEF a, b, c, d, e
<1>2. /\ Generated(<< >>) = {} /\ Generated(<<a, b>>) \subseteq {a, b} /\ Generated(<<c>>) \subseteq {c}
      /\ Generated(<<c, d, e>>) \subseteq {c, d, e}
  BY GeneratedFacts
<1>3. f[2] \in { << >>, <<a, b>>, <<c>>, <<c, d, e>> }
  <2> DEFINE S == {<<a, b>>}
             T == { << >>, <<c>>, <<c, d, e>> }
  <2>1. Range(StubMembers) = { <<"Stub", <<a, b>> >> }
    BY OneFacts DEF StubMembers, a, b
  <2>2. Range(ServiceMembers)
          = { <<"Service", << >> >>, <<"~Service", << >> >>, <<"GetMethodName", <<c>> >>,
              <<"CallMethod", <<c, d, e>> >> }
    BY FourElements DEF ServiceMembers, c, d, e
  <2> QED BY <2>1, <2>2
<1> QED BY <1>1, <1>2, <1>3

LEMMA MembersResolved ==
  ASSUME NEW class, NEW members, IsSeq(members), \A f \in Range(members) : Generated(f[2]) = {},
         NEW v, Whole(v)
  PROVE  Resolved(At(v, DeclAll(class, members)), {})
<1>1. IsSeq(DeclAll(class, members))
  BY MembersFlat DEF Flat
<1>2. ASSUME NEW x \in Range(DeclAll(class, members)) PROVE Met(<<v, x>>, {})
  <2>1. PICK f \in Range(members) : x = Declared(class, f)
    BY MembersRange
  <2> DEFINE n == <<"", f[1]>>
             t == f[2]
  <2> HIDE DEF n, t
  <2>2. AliasesOf(Decl(class, n, t)) = Generated(t) /\ Decl(class, n, t).tok = "decl"
    BY DeclMentions
  <2>3. Generated(t) = {} /\ x = Decl(class, n, t)
    BY <2>1 DEF Declared, n, t
  <2>4. AliasesOf(x) = {} /\ x.tok = "decl"
    BY <2>2, <2>3
  <2> QED BY <2>4, MetNothing
<1> QED BY <1>1, <1>2, ResolvedAt

\* A service of the header needs nothing from outside.
LEMMA HeaderInnerResolved ==
  ASSUME NEW s \in ServiceDescriptor, NEW v, Whole(v)
  PROVE  Resolved(At(v, HeaderInner(s)), {})
<1> DEFINE o == << Open(s.name), Decl("", GetServiceDescriptor, << >>) >>
           a == DeclAll("Stub", StubMembers)
           b == Each(s.methods, PrintHeaderClientMethodPublic)
           c == DeclAll("Service", ServiceMembers)
           d == Each(s.methods, PrintHeaderServiceMethod)
<1>1. HeaderInner(s) = (((o \o a) \o b) \o c) \o d
  BY DEF HeaderInner
<1>2. IsSeq(o) /\ IsSeq(a) /\ IsSeq(b) /\ IsSeq(c) /\ IsSeq(d)
  BY TwoFacts, MembersAreSeqs, MembersFlat, MethodsFlat DEF Flat
<1>3. Resolved(At(v, o), {})
  <2> DEFINE x == Open(s.name)
             y == Decl("", GetServiceDescriptor, << >>)
  <2>1. x.tok \notin {"decl", "def", "switch"}
    BY DEF Open
  <2>2. AliasesOf(y) = Generated(<< >>) /\ y.tok = "decl"
    BY DeclMentions
  <2>2a. AliasesOf(y) = {}
    BY <2>2, GeneratedFacts
  <2> HIDE DEF x, y
  <2>3. Met(<<v, x>>, {}) /\ Met(<<v, y>>, {})
    BY <2>1, <2>2, <2>2a, MetQuietly, MetNothing
  <2>4. IsSeq(<<x, y>>) /\ Range(<<x, y>>) = {x, y}
    BY TwoFacts, TwoRange
  <2>5. Resolved(At(v, <<x, y>>), {})
    BY <2>3, <2>4, ResolvedAt
  <2> QED BY <2>5 DEF x, y
<1>4. Resolved(At(v, a), {}) /\ Resolved(At(v, c), {})
  BY MembersResolved, MembersMention, MembersAreSeqs
<1>5. Resolved(At(v, b), {})
  <2> DEFINE f == [i \in DOMAIN s.methods |-> PrintHeaderClientMethodPublic(s.methods[i])]
  <2>1. b = FlattenSeq(f)
    BY DEF Each
  <2>2. /\ DOMAIN f = DOMAIN s.methods /\ f = [i \in DOMAIN s.methods |-> f[i]]
        /\ \A i \in DOMAIN s.methods : f[i] = PrintHeaderClientMethodPublic(s.methods[i])
    OBVIOUS
  <2> HIDE DEF f, b
  <2>3. \A i \in DOMAIN s.methods : IsSeq(f[i]) /\ Resolved(At(v, f[i]), {})
    BY <2>2, ServiceFacts, ClientMethodFlat, ClientMethodResolved DEF Flat
  <2>4. IsSeq(s.methods)
    BY ServiceFacts
  <2> QED BY <2>1, <2>2, <2>3, <2>4, ResolvedEach
<1>6. Resolved(At(v, d), {})
  <2> DEFINE f == [i \in DOMAIN s.methods |-> PrintHeaderServiceMethod(s.methods[i])]
  <2>1. d = FlattenSeq(f)
    BY DEF Each
  <2>2. /\ DOMAIN f = DOMAIN s.methods /\ f = [i \in DOMAIN s.methods |-> f[i]]
        /\ \A i \in DOMAIN s.methods : f[i] = PrintHeaderServiceMethod(s.methods[i])
    OBVIOUS
  <2> HIDE DEF f, d
  <2>3. \A i \in DOMAIN s.methods : IsSeq(f[i]) /\ Resolved(At(v, f[i]), {})
    BY <2>2, ServerMethodFlat, ServerMethodResolved DEF Flat
  <2>4. IsSeq(s.methods)
    BY ServiceFacts
  <2> QED BY <2>1, <2>2, <2>3, <2>4, ResolvedEach
<1> HIDE DEF o, a, b, c, d
<1>7. Resolved(At(v, o \o a), {}) /\ IsSeq(o \o a)
  BY <1>2, <1>3, <1>4, ResolvedJoin
<1>8. Resolved(At(v, (o \o a) \o b), {}) /\ IsSeq((o \o a) \o b)
  BY <1>2, <1>5, <1>7, ResolvedJoin
<1>9. Resolved(At(v, ((o \o a) \o b) \o c), {}) /\ IsSeq(((o \o a) \o b) \o c)
  BY <1>2, <1>4, <1>8, ResolvedJoin
<1>10. Resolved(At(v, (((o \o a) \o b) \o c) \o d), {})
  BY <1>2, <1>6, <1>9, ResolvedJoin
<1> QED BY <1>1, <1>10

-----------------------------------------------------------------------------
(***************************************************************************)
(* The source mentions what the header declares.                           *)
(***************************************************************************)

\* Whether the writer that the source names is that of the method itself.
OwnWriter(m) == ServerOnlyStreaming(m) => m.name = "ListFeatures"

\* The two functions that a service has for a method.
Served(m, aliases) ==
  << Def("Service", <<"", m.name>>, Entry(m), aliases, 0, {}),
     Def("Service", <<"", m.name>>, Handler(m), {}, 0, {}) >>

LEMMA ServerMethodText ==
  ASSUME NEW m \in MethodDescriptor, OwnWriter(m)
  PROVE  \E aliases :
           /\ PrintSourceServerMethod(m) = Served(m, aliases)
           /\ \A a \in aliases : a = Handle(m) \/ a = Own(m, "ReaderSptr")
           /\ aliases # {} => m.client_streaming
<1>1. m.client_streaming \in BOOLEAN /\ m.server_streaming \in BOOLEAN
  BY DEF MethodDescriptor
<1>2. CASE ServerOnlyStreaming(m)
  <2>1. m.name = "ListFeatures" /\ ~ m.client_streaming /\ m.server_streaming
    BY <1>1, <1>2 DEF OwnWriter, ServerOnlyStreaming
  <2> DEFINE w == Own(ListFeatures, "Writer")
  <2>2. w = Handle(m)
    BY <2>1 DEF Handle, Own, ListFeatures
  <2> HIDE DEF w
  <2>3. Entry(m) = <<Cpp("void"), Cpp("grpc_byte_buffer"), w>> /\ Handler(m) = <<Cpp("void"), Cpp("Request"), w>>
    BY <2>1, <2>2 DEF Entry, Handler
  <2>4. PrintSourceServerMethod(m) = Served(m, {})
    BY <1>2, <2>3 DEF PrintSourceServerMethod, Served, w
  <2> QED BY <2>4, Zenon
<1>3. CASE ~ ServerOnlyStreaming(m)
  <2> DEFINE A == IF m.client_streaming THEN { Handle(m), Own(m, "ReaderSptr") } ELSE {}
  <2>1. PrintSourceServerMethod(m) = Served(m, A)
    BY <1>3 DEF PrintSourceServerMethod, Served
  <2>2. \A a \in A : a = Handle(m) \/ a = Own(m, "ReaderSptr")
    OBVIOUS
  <2>3. A # {} => m.client_streaming
    OBVIOUS
  <2> HIDE DEF A
  <2> QED BY <2>1, <2>2, <2>3, Zenon
<1> QED BY <1>2, <1>3

\* A definition in a class that uses nothing, and mentions aliases of the class
\* that were read.
LEMMA MetDef ==
  ASSUME NEW v, Whole(v), NEW class, NEW name, NEW types, NEW aliases, NEW row, NEW E,
         \A a \in Generated(types) \cup aliases : <<v, Alias(class, a)>> \in E
  PROVE  Met(<<v, Def(class, name, types, aliases, row, {})>>, E)
<1> DEFINE none == {}
           x == Def(class, name, types, aliases, row, none)
<1> HIDE DEF none
<1>1. AliasesOf(x) = Generated(types) \cup aliases /\ ClassOf(x) = class /\ x.uses = none
  BY Mentions
<1> HIDE DEF x
<1>2. Met(<<v, x>>, E)
  BY <1>1, MetAliases DEF none
<1> QED BY <1>2 DEF x, none

LEMMA ClientDefsMet ==
  ASSUME NEW m \in MethodDescriptor, NEW i, NEW v, Whole(v), NEW E,
         { <<v, z>> : z \in Range(PrintHeaderClientMethodPublic(m)) } \subseteq E,
         NEW x \in Range(PrintSourceClientMethod(m, i))
  PROVE  Met(<<v, x>>, E)
<1>1. PICK t, u :
        /\ PrintSourceClientMethod(m, i) = Stubs(m, i, t, u)
        /\ \A a \in Generated(t) \cup Generated(u) :
             Alias("Stub", a) \in Range(PrintHeaderClientMethodPublic(m))
  BY ClientMethodTypes, Zenon
<1> DEFINE p == <<"Sync_", m.name>>
           q == <<"Async_", m.name>>
           r == Row(m, i)
           y == Def("Stub", p, t, {}, r, {})
           z == Def("Stub", q, u, {}, r, {})
<1>2. PrintSourceClientMethod(m, i) = <<y, z>>
  BY <1>1 DEF Stubs
<1> HIDE DEF p, q, r
<1>3. /\ \A a \in Generated(t) \cup {} : <<v, Alias("Stub", a)>> \in E
      /\ \A a \in Generated(u) \cup {} : <<v, Alias("Stub", a)>> \in E
  BY <1>1
<1>4. Met(<<v, y>>, E) /\ Met(<<v, z>>, E)
  BY <1>3, MetDef
<1> HIDE DEF y, z
<1>5. x = y \/ x = z
  BY <1>2, TwoRange
<1> QED BY <1>4, <1>5

LEMMA ServerDefsMet ==
  ASSUME NEW m \in MethodDescriptor, OwnWriter(m), NEW v, Whole(v), NEW E,
         { <<v, z>> : z \in Range(PrintHeaderServiceMethod(m)) } \subseteq E,
         NEW x \in Range(PrintSourceServerMethod(m))
  PROVE  Met(<<v, x>>, E)
<1>1. PICK aliases :
        /\ PrintSourceServerMethod(m) = Served(m, aliases)
        /\ \A a \in aliases : a = Handle(m) \/ a = Own(m, "ReaderSptr")
        /\ aliases # {} => m.client_streaming
  BY ServerMethodText, Zenon
<1> DEFINE n == <<"", m.name>>
           t == Entry(m)
           u == Handler(m)
           y == Def("Service", n, t, aliases, 0, {})
           z == Def("Service", n, u, {}, 0, {})
           R == Range(PrintHeaderServiceMethod(m))
<1>2. PrintSourceServerMethod(m) = <<y, z>>
  BY <1>1 DEF Served
<1>3. /\ Alias("Service", Handle(m)) \in R
      /\ m.client_streaming => Alias("Service", Own(m, "ReaderSptr")) \in R
  <2> DEFINE d == << Decl("Service", <<"", m.name>>, Handler(m)), Decl("Service", <<"", m.name>>, Entry(m)) >>
  <2>1. PICK a : /\ PrintHeaderServiceMethod(m) = a \o d
                 /\ IsSeq(a)
                 /\ Alias("Service", Handle(m)) \in Range(a)
                 /\ m.client_streaming => Alias("Service", Own(m, "ReaderSptr")) \in Range(a)
    BY ServerTexts
  <2>2. IsSeq(d)
    BY TwoFacts
  <2> HIDE DEF d, R
  <2>3. R = Range(a) \cup Range(d)
    BY <2>1, <2>2, ConcatRange DEF R
  <2> QED BY <2>1, <2>3
<1>4. \A a : Alias("Service", a) \in R => <<v, Alias("Service", a)>> \in E
  OBVIOUS
<1>5. /\ \A a \in Generated(t) : a = Handle(m)
      /\ \A a \in Generated(u) : a = Handle(m) \/ (m.client_streaming /\ a = Own(m, "ReaderSptr"))
  BY ServerTypes
<1> HIDE DEF n, t, u, R
<1>6. /\ \A a \in Generated(t) \cup aliases : <<v, Alias("Service", a)>> \in E
      /\ \A a \in Generated(u) \cup {} : <<v, Alias("Service", a)>> \in E
  BY <1>1, <1>3, <1>4, <1>5
<1>7. Met(<<v, y>>, E) /\ Met(<<v, z>>, E)
  BY <1>6, MetDef
<1> HIDE DEF y, z
<1>8. x = y \/ x = z
  BY <1>2, TwoRange
<1> QED BY <1>7, <1>8

\* The switch of CallMethod.
LEMMA SwitchMet ==
  ASSUME NEW s \in ServiceDescriptor, NEW v, Whole(v), NEW E,
         \A i \in DOMAIN s.methods :
           { <<v, z>> : z \in Range(PrintHeaderServiceMethod(s.methods[i])) } \subseteq E
  PROVE  Met(<<v, PrintCallMethod(s)>>, E)
<1> DEFINE x == PrintCallMethod(s)
           D == DOMAIN s.methods
<1>1. x.tok = "switch" /\ x.tok # "def" /\ DOMAIN x.cases = D
  BY DEF PrintCallMethod
<1>2. \A i \in D : x.cases[i].aliases
                     = IF s.methods[i].client_streaming THEN {} ELSE { Handle(s.methods[i]) }
  BY DEF PrintCallMethod
<1>3. \A i \in D : <<v, Alias("Service", Handle(s.methods[i]))>> \in E
  <2>1. ASSUME NEW i \in D PROVE <<v, Alias("Service", Handle(s.methods[i]))>> \in E
    <3> DEFINE m == s.methods[i]
               d == << Decl("Service", <<"", m.name>>, Handler(m)), Decl("Service", <<"", m.name>>, Entry(m)) >>
               h == Alias("Service", Handle(m))
               R == Range(PrintHeaderServiceMethod(m))
    <3>1. { <<v, z>> : z \in R } \subseteq E
      OBVIOUS
    <3> HIDE DEF m
    <3>2. PICK a : PrintHeaderServiceMethod(m) = a \o d /\ IsSeq(a) /\ h \in Range(a)
      BY ServerTexts
    <3>3. IsSeq(d)
      BY TwoFacts
    <3> HIDE DEF d, R, h
    <3>4. R = Range(a) \cup Range(d)
      BY <3>2, <3>3, ConcatRange DEF R
    <3>5. <<v, h>> \in E
      BY <3>1, <3>2, <3>4
    <3> QED BY <3>5 DEF h, m
  <2> QED BY <2>1
<1> HIDE DEF x
<1>4. ClassOf(x) = "Service" /\ AliasesOf(x) = UNION { c.aliases : c \in Range(x.cases) }
  BY <1>1 DEF ClassOf, AliasesOf
<1>5. ASSUME NEW a \in AliasesOf(x) PROVE <<v, Alias("Service", a)>> \in E
  <2>1. PICK c \in Range(x.cases) : a \in c.aliases
    BY <1>4
  <2>2. PICK i \in D : c = x.cases[i]
    BY <1>1, <2>1 DEF Range
  <2>3. a = Handle(s.methods[i])
    BY <1>2, <2>1, <2>2
  <2> QED BY <1>3, <2>3
<1>6. Met(<<v, x>>, E)
  BY <1>1, <1>4, <1>5, MetAliases
<1> QED BY <1>6 DEF x

LEMMA DefMentions ==
  ASSUME NEW class, NEW name, NEW types, NEW aliases, NEW row, NEW uses
  PROVE  /\ AliasesOf(Def(class, name, types, aliases, row, uses)) = Generated(types) \cup aliases
         /\ Def(class, name, types, aliases, row, uses).uses = uses
BY Mentions

\* GetServiceDescriptor finds what the anonymous namespace w defines.
LEMMA GetterMet ==
  ASSUME NEW s, NEW v, NEW w, IsPrefix(Named(w), Named(v)), NEW E,
         <<w, Once>> \in E, <<w, Var(ServiceDescriptorOf(s))>> \in E
  PROVE  Met(<<v, Getter(s)>>, E)
<1> DEFINE a == AssignDescriptorsOnce
           b == ServiceDescriptorOf(s)
           u == {a, b}
           none == {}
           c == ""
           n == GetServiceDescriptor
           t == << >>
           x == Def(c, n, t, none, 0, u)
           y == <<w, Once>>
           z == <<w, Var(b)>>
           q == <<v, x>>
<1>1. Getter(s) = x
  BY DEF Getter
<1>2. Once.tok = "def" /\ Once.name = a
  BY DEF Once, Def
<1>3. Var(b).tok = "var" /\ Var(b).name = b
  BY DEF Var
<1> HIDE DEF a, b
<1>4. y[1] = w /\ y[2].tok \in {"def", "var"} /\ y[2].name = a
  BY <1>2
<1>5. z[1] = w /\ z[2].tok \in {"def", "var"} /\ z[2].name = b
  BY <1>3
<1>6. y \in E /\ z \in E
  BY DEF b
<1> HIDE DEF u, none, y, z, c, n, t
<1>7. AliasesOf(x) = Generated(t) \cup none /\ x.uses = u
  BY DefMentions
<1>8. AliasesOf(x) = {}
  BY <1>7, GeneratedFacts DEF none, t
<1> HIDE DEF x
<1>9. q[1] = v /\ q[2] = x
  OBVIOUS
<1> HIDE DEF q
<1>10. Sees(q, y) /\ Sees(q, z)
  BY <1>4, <1>5, <1>9 DEF Sees
<1>11. \A k \in u : \E e \in E : Sees(q, e) /\ e[2].tok \in {"def", "var"} /\ e[2].name = k
  <2>1. ASSUME NEW k \in u PROVE k = a \/ k = b
    BY DEF u
  <2>2. \E e \in E : Sees(q, e) /\ e[2].tok \in {"def", "var"} /\ e[2].name = a
    BY <1>4, <1>6, <1>10, Zenon
  <2>3. \E e \in E : Sees(q, e) /\ e[2].tok \in {"def", "var"} /\ e[2].name = b
    BY <1>5, <1>6, <1>10, Zenon
  <2> QED BY <2>1, <2>2, <2>3, Zenon
<1>12. \A e : e \notin AliasesOf(q[2])
  BY <1>8, <1>9
<1>13. q[2].uses = u
  BY <1>7, <1>9
<1>14. Met(q, E)
  BY <1>11, <1>12, <1>13, Zenon DEF Met
<1> QED BY <1>1, <1>14 DEF q, x, u, none, c, n, t, a, b

\* A service of the source mentions what the header declared of it, and the
\* descriptors.
LEMMA SourceInnerMet ==
  ASSUME NEW s \in ServiceDescriptor, \A i \in DOMAIN s.methods : OwnWriter(s.methods[i]),
         NEW v, Whole(v), NEW w, IsPrefix(Named(w), Named(v)), NEW E,
         { <<v, z>> : z \in Range(HeaderInner(s)) } \subseteq E,
         <<w, Once>> \in E, <<w, Var(ServiceDescriptorOf(s))>> \in E,
         NEW x \in Range(SourceInner(s))
  PROVE  Met(<<v, x>>, E)
<1> DEFINE D == DOMAIN s.methods
<1>1. ASSUME NEW i \in D
      PROVE  /\ s.methods[i] \in MethodDescriptor
             /\ { <<v, z>> : z \in Range(PrintHeaderClientMethodPublic(s.methods[i])) } \subseteq E
             /\ { <<v, z>> : z \in Range(PrintHeaderServiceMethod(s.methods[i])) } \subseteq E
  <2>1. \A z \in Range(HeaderInner(s)) : <<v, z>> \in E
    OBVIOUS
  <2>2. \A z \in Range(PrintHeaderClientMethodPublic(s.methods[i])) : z \in Range(HeaderInner(s))
    BY HeaderInnerRange
  <2>3. \A z \in Range(PrintHeaderServiceMethod(s.methods[i])) : z \in Range(HeaderInner(s))
    BY HeaderInnerRange
  <2>4. s.methods[i] \in MethodDescriptor
    BY ServiceFacts
  <2> QED BY <2>1, <2>2, <2>3, <2>4
<1>2. CASE x = Open(s.name) \/ x = MethodNames(s)
  <2>1. x.tok \notin {"decl", "def", "switch"}
    BY <1>2 DEF Open, MethodNames
  <2> QED BY <2>1, MetQuietly
<1>3. CASE x = Getter(s)
  BY <1>3, GetterMet
<1>4. CASE \E f \in Range(StubMembers) \cup Range(ServiceMembers) :
             x = Defined("Stub", f) \/ x = Defined("Service", f)
  <2>1. PICK f \in Range(StubMembers) \cup Range(ServiceMembers) :
               x = Defined("Stub", f) \/ x = Defined("Service", f)
    BY <1>4
  <2>2. Generated(f[2]) = {}
    BY MembersMention
  <2> DEFINE n == <<"", f[1]>>
             t == f[2]
             none == {}
  <2>3. \/ x = Def("Stub", n, t, none, 0, {})
        \/ x = Def("Service", n, t, none, 0, {})
    BY <2>1 DEF Defined
  <2>4. \A class : \A a \in Generated(t) \cup none : <<v, Alias(class, a)>> \in E
    BY <2>2
  <2> HIDE DEF n, t, none
  <2>5. \A class : Met(<<v, Def(class, n, t, none, 0, {})>>, E)
    BY <2>4, MetDef
  <2> QED BY <2>3, <2>5
<1>5. CASE \E i \in D : x \in Range(PrintSourceClientMethod(s.methods[i], i))
  BY <1>1, <1>5, ClientDefsMet
<1>6. CASE x = PrintCallMethod(s)
  BY <1>1, <1>6, SwitchMet
<1>7. CASE \E i \in D : x \in Range(PrintSourceServerMethod(s.methods[i]))
  BY <1>1, <1>7, ServerDefsMet
<1>8. \/ x = Open(s.name) \/ x = MethodNames(s) \/ x = Getter(s)
      \/ \E f \in Range(StubMembers) : x = Defined("Stub", f)
      \/ \E i \in D : x \in Range(PrintSourceClientMethod(s.methods[i], i))
      \/ \E f \in Range(ServiceMembers) : x = Defined("Service", f)
      \/ x = PrintCallMethod(s)
      \/ \E i \in D : x \in Range(PrintSourceServerMethod(s.methods[i]))
  BY SourceInnerRange
<1> HIDE DEF D
<1>9. CASE \E f \in Range(StubMembers) : x = Defined("Stub", f)
  BY <1>4, <1>9
<1>10. CASE \E f \in Range(ServiceMembers) : x = Defined("Service", f)
  BY <1>4, <1>10
<1> QED BY <1>2, <1>3, <1>5, <1>6, <1>7, <1>8, <1>9, <1>10

\* The namespaces of a service see themselves and the anonymous one of the file.
LEMMA ServiceSees ==
  ASSUME file \in Files, NEW j \in DOMAIN file.services
  PROVE  /\ Whole(Append(file.package, file.services[j].name))
         /\ IsPrefix(Named(Append(file.package, "")), Named(Append(file.package, file.services[j].name)))
<1>1. PICK p : p = file.package
  OBVIOUS
<1>2. PICK n : n = file.services[j].name
  OBVIOUS
<1>3. IsSeq(p) /\ \A i \in 1 .. Len(p) : ~ Blank(p[i])
  <2>1. file.package \in Seq(Identifier)
    BY FilesAssumption DEF FileDescriptor
  <2>2. \A i \in 1 .. Len(file.package) : file.package[i] \in Identifier
    BY <2>1
  <2>3. \A x \in Identifier : ~ Blank(x)
    BY DEF Identifier, Blank
  <2>4. IsSeq(file.package)
    BY FileFacts
  <2> QED BY <1>1, <2>2, <2>3, <2>4
<1>4. ~ Blank(n)
  BY <1>2, NamesOfFile DEF Blank
<1>5. PICK e : e = "" /\ Blank(e)
  BY DEF Blank
<1>6. Named(Append(p, n)) = Append(p, n)
  BY <1>3, <1>4, NamedAppend
<1>7. Named(Append(p, e)) = p
  BY <1>3, <1>5, NamedAppend
<1>8. IsPrefix(p, Append(p, n)) /\ IsSeq(Append(p, n))
  BY <1>3, PrefixOfAppend
<1>9. IsPrefix(Append(p, n), Append(p, n))
  BY <1>8, PrefixItself
<1>10. Whole(Append(p, n)) /\ IsPrefix(Named(Append(p, e)), Named(Append(p, n)))
  BY <1>6, <1>7, <1>8, <1>9 DEF Whole
<1> QED BY <1>1, <1>2, <1>5, <1>10

\* A text that only opens and closes mentions nothing.
LEMMA BareResolved ==
  ASSUME NEW q, Bare(q), NEW E
  PROVE  Resolved(q, E)
<1>1. ASSUME NEW x \in Range(q) PROVE Met(x, E)
  <2>1. x[2].tok \in {"open", "close"}
    BY DEF Bare, Quiet
  <2>2. AliasesOf(x[2]) = {} /\ x[2].tok # "def"
    BY <2>1, Mentions
  <2> QED BY <2>2 DEF Met
<1> QED BY <1>1, ResolvedAll DEF Bare

LEMMA ResolvedThen ==
  ASSUME NEW p, IsSeq(p), NEW q, IsSeq(q), NEW E, NEW F, Resolved(p, E), Resolved(q, F),
         F \subseteq E \cup Range(p)
  PROVE  Resolved(p \o q, E) /\ IsSeq(p \o q) /\ Range(p \o q) = Range(p) \cup Range(q)
<1> DEFINE G == E \cup Range(p)
<1>1. F \subseteq G
  OBVIOUS
<1> HIDE DEF G
<1>2. Resolved(q, G)
  BY <1>1, ResolvedMore
<1>3. Resolved(p \o q, E)
  BY <1>2, ResolvedConcat DEF G
<1> QED BY <1>3, ConcatIsSeq, ConcatRange

LEMMA BlockResolved ==
  ASSUME NEW v, NEW w, NEW b, IsSeq(b), Resolved(At(v, b), {})
  PROVE  Resolved(Block(v, w, b), {})
<1> DEFINE p == At(v, b)
           x == <<w, Close>>
           q == <<x>>
<1>1. IsSeq(p)
  BY AtFacts
<1>2. IsSeq(q) /\ Range(q) = {x}
  BY OneFacts
<1>3. ~ Quiet(x[2])
  BY BracesLoud
<1>4. Block(v, w, b) = p \o q
  BY DEF Block
<1> HIDE DEF p, x, q
<1>5. Bare(q)
  BY <1>2, <1>3 DEF Bare
<1>6. Resolved(q, {})
  BY <1>5, BareResolved
<1>7. Resolved(p \o q, {})
  BY <1>1, <1>2, <1>6, ResolvedThen DEF p
<1> QED BY <1>4, <1>7

LEMMA HeaderBlocksResolved ==
  ASSUME file \in Files
  PROVE  Resolved(FlattenSeq(HeaderBlocks), {})
<1>1. ASSUME NEW j \in 1 .. Len(HeaderBlocks) PROVE Resolved(HeaderBlocks[j], {})
  <2>1. j \in DOMAIN file.services
    BY BlocksFacts
  <2>2. PICK v : v = Append(file.package, file.services[j].name)
    OBVIOUS
  <2>3. PICK s \in ServiceDescriptor : s = file.services[j]
    BY <2>1, FileFacts
  <2>4. PICK w : w = file.package
    OBVIOUS
  <2>5. HeaderBlocks[j] = Block(v, w, HeaderInner(s))
    BY <2>1, <2>2, <2>3, <2>4 DEF HeaderBlocks
  <2>6. Whole(v)
    BY <2>1, <2>2, ServiceSees
  <2>7. IsSeq(HeaderInner(s))
    BY InnerSeqs
  <2>8. Resolved(At(v, HeaderInner(s)), {})
    BY <2>6, HeaderInnerResolved
  <2>9. Resolved(Block(v, w, HeaderInner(s)), {})
    BY <2>7, <2>8, BlockResolved
  <2> QED BY <2>5, <2>9
<1>2. Parts(HeaderBlocks)
  BY BlocksFacts
<1> QED BY <1>1, <1>2, ResolvedFlatten

LEMMA DescriptorsResolved ==
  ASSUME file \in Files
  PROVE  Resolved(DescriptorsBlock, {})
<1>1. PICK v : v = Append(file.package, "")
  OBVIOUS
<1>2. ASSUME NEW x \in Range(DescriptorsInner) PROVE Met(<<v, x>>, {})
  <2>1. CASE x = Once
    <3> DEFINE none == {}
               c == ""
               n == AssignDescriptorsOnce
               t == << >>
               y == Def(c, n, t, none, 0, none)
    <3>1. Once = y
      BY DEF Once
    <3> HIDE DEF none, c, n, t
    <3>2. AliasesOf(y) = Generated(t) \cup none /\ y.uses = none
      BY DefMentions
    <3> HIDE DEF y
    <3>3. AliasesOf(Once) = {} /\ Once.uses = {}
      BY <3>1, <3>2, GeneratedFacts DEF none, t
    <3> QED BY <2>1, <3>3, MetNothing
  <2>2. CASE x # Once
    <3>1. x = Open("") \/ x = Assign \/ \E i \in DOMAIN file.services : x = Var(ServiceDescriptorOf(file.services[i]))
      BY <2>2, DescriptorsRange, PointersFacts
    <3>2. x.tok \notin {"decl", "def", "switch"}
      <4>1. CASE x = Open("")
        BY <4>1 DEF Open
      <4>2. CASE x = Assign
        BY <4>2, AssignOnceFacts
      <4>3. CASE \E i \in DOMAIN file.services : x = Var(ServiceDescriptorOf(file.services[i]))
        BY <4>3 DEF Var
      <4> QED BY <3>1, <4>1, <4>2, <4>3
    <3> QED BY <3>2, MetQuietly
  <2> QED BY <2>1, <2>2
<1>3. IsSeq(DescriptorsInner)
  BY DescriptorsRange
<1>4. Resolved(At(v, DescriptorsInner), {})
  BY <1>2, <1>3, ResolvedAt
<1>5. PICK w : w = file.package
  OBVIOUS
<1>6. Resolved(Block(v, w, DescriptorsInner), {})
  BY <1>3, <1>4, BlockResolved
<1> QED BY <1>1, <1>5, <1>6 DEF DescriptorsBlock

\* Every server-streaming method is called as the one of the example, whose
\* writer the source names.
WriterNamed ==
  \A s \in Range(file.services) : \A i \in DOMAIN s.methods : OwnWriter(s.methods[i])

LEMMA SourceBlocksMet ==
  ASSUME file \in Files, WriterNamed, NEW E,
         Range(FlattenSeq(HeaderBlocks)) \subseteq E, Range(DescriptorsBlock) \subseteq E
  PROVE  Resolved(FlattenSeq(SourceBlocks), E)
<1>0. /\ Parts(HeaderBlocks) /\ Len(HeaderBlocks) = Len(file.services)
      /\ Parts(SourceBlocks) /\ Len(SourceBlocks) = Len(file.services)
      /\ DOMAIN file.services = 1 .. Len(file.services)
  BY BlocksFacts
<1>1. ASSUME NEW j \in 1 .. Len(SourceBlocks) PROVE Resolved(SourceBlocks[j], E)
  <2>1. j \in DOMAIN file.services
    BY <1>0
  <2>2. PICK v : v = Append(file.package, file.services[j].name)
    OBVIOUS
  <2>3. PICK s \in ServiceDescriptor : s = file.services[j]
    BY <2>1, FileFacts
  <2>4. PICK u : u = file.package
    OBVIOUS
  <2>5. PICK w : w = Append(file.package, "")
    OBVIOUS
  <2>6. SourceBlocks[j] = Block(v, u, SourceInner(s)) /\ HeaderBlocks[j] = Block(v, u, HeaderInner(s))
    BY <2>1, <2>2, <2>3, <2>4 DEF SourceBlocks, HeaderBlocks
  <2>7. Whole(v) /\ IsPrefix(Named(w), Named(v))
    BY <2>1, <2>2, <2>5, ServiceSees
  <2>8. \A i \in DOMAIN s.methods : OwnWriter(s.methods[i])
    BY <2>1, <2>3 DEF WriterNamed, Range
  <2>9. { <<v, z>> : z \in Range(HeaderInner(s)) } \subseteq E
    <3>1. Range(HeaderBlocks[j]) = { <<v, z>> : z \in Range(HeaderInner(s)) } \cup { <<u, Close>> }
      BY <2>6, InnerSeqs, BlockFacts
    <3>2. Range(HeaderBlocks[j]) \subseteq Range(FlattenSeq(HeaderBlocks))
      BY <1>0, <2>1, FlattenRange
    <3> DEFINE A == { <<v, z>> : z \in Range(HeaderInner(s)) }
               B == Range(FlattenSeq(HeaderBlocks))
               C == Range(HeaderBlocks[j])
    <3>3. A \subseteq C /\ C \subseteq B /\ B \subseteq E
      BY <3>1, <3>2
    <3> HIDE DEF A, B, C
    <3>4. A \subseteq E
      BY <3>3
    <3> QED BY <3>4 DEF A
  <2>10. <<w, Once>> \in E /\ <<w, Var(ServiceDescriptorOf(s))>> \in E
    <3>1. Range(DescriptorsBlock) = { <<w, z>> : z \in Range(DescriptorsInner) } \cup { <<u, Close>> }
      <4>1. PICK b : b = DescriptorsInner
        OBVIOUS
      <4>2. IsSeq(b) /\ DescriptorsBlock = Block(w, u, b)
        BY <2>4, <2>5, <4>1, DescriptorsRange DEF DescriptorsBlock
      <4>3. Range(Block(w, u, b)) = { <<w, z>> : z \in Range(b) } \cup { <<u, Close>> }
        BY <4>2, BlockFacts
      <4> QED BY <4>1, <4>2, <4>3
    <3>2. Once \in Range(DescriptorsInner) /\ Var(ServiceDescriptorOf(s)) \in Range(DescriptorsInner)
      BY <2>1, <2>3, DescriptorsRange, PointersFacts
    <3>3. \A z \in Range(DescriptorsInner) : <<w, z>> \in Range(DescriptorsBlock)
      BY <3>1
    <3> QED BY <3>2, <3>3
  <2>11. \A x \in Range(SourceInner(s)) : Met(<<v, x>>, E)
    BY <2>7, <2>8, <2>9, <2>10, SourceInnerMet
  <2>12. IsSeq(SourceInner(s))
    BY InnerSeqs
  <2> DEFINE p == At(v, SourceInner(s))
             c == <<u, Close>>
             q == <<c>>
             none == {}
  <2>13. Resolved(p, E)
    BY <2>11, <2>12, ResolvedAt
  <2>14. IsSeq(p)
    BY <2>12, AtFacts
  <2>15. IsSeq(q) /\ Range(q) = {c}
    BY OneFacts
  <2>16. ~ Quiet(c[2])
    BY BracesLoud
  <2>17. Block(v, u, SourceInner(s)) = p \o q
    BY DEF Block
  <2>18. none \subseteq E \cup Range(p)
    OBVIOUS
  <2> HIDE DEF p, q, c, none
  <2>19. Bare(q)
    BY <2>15, <2>16 DEF Bare
  <2>20. Resolved(q, none)
    BY <2>19, BareResolved
  <2>21. Resolved(p \o q, E)
    BY <2>13, <2>14, <2>15, <2>18, <2>20, ResolvedThen
  <2> QED BY <2>6, <2>17, <2>21
<1> QED BY <1>0, <1>1, ResolvedFlatten

\* Header and source as they are read: every name is met when it is mentioned.
LEMMA UnitResolved ==
  ASSUME file \in Files, ~ file.lite, services_namespace = "", WriterNamed
  PROVE  \E q : Reads(Header \o Source, << >>, << >>, q) /\ Resolved(q, {})
<1>1. PICK a, b, c, d :
        /\ Bare(a) /\ Bare(b) /\ Bare(c) /\ Bare(d)
        /\ Reads(Header \o Source, << >>, << >>,
                 (((At(<< >>, GetHeaderPrologue) \o a) \o FlattenSeq(HeaderBlocks)) \o b)
                 \o (((c \o DescriptorsBlock) \o FlattenSeq(SourceBlocks)) \o d))
  BY UnitReads
<1> DEFINE o == At(<< >>, GetHeaderPrologue)
           h == FlattenSeq(HeaderBlocks)
           e == DescriptorsBlock
           s == FlattenSeq(SourceBlocks)
           none == {}
<1>2. IsSeq(a) /\ IsSeq(b) /\ IsSeq(c) /\ IsSeq(d)
  BY <1>1 DEF Bare
<1>3. \A E : Resolved(a, E) /\ Resolved(b, E) /\ Resolved(c, E) /\ Resolved(d, E)
  BY <1>1, BareResolved
<1>4. IsSeq(o) /\ Resolved(o, none)
  <2> DEFINE g == Guard(FilenameIdentifier(file.name))
             p == <<g>>
  <2>1. g.tok \notin {"decl", "def", "switch"}
    BY DEF Guard
  <2>2. IsSeq(p) /\ Range(p) = {g}
    BY OneFacts
  <2>3. o = At(<< >>, p)
    BY DEF GetHeaderPrologue
  <2> DEFINE v == << >>
  <2> HIDE DEF g, p, v, none
  <2>4. \A x \in Range(p) : Met(<<v, x>>, none)
    BY <2>1, <2>2, MetQuietly
  <2>5. Resolved(At(v, p), none) /\ IsSeq(At(v, p))
    BY <2>2, <2>4, ResolvedAt, AtFacts
  <2> QED BY <2>3, <2>5 DEF v
<1>5. IsSeq(h) /\ Resolved(h, none)
  BY BlocksFacts, FlattenIsSeq, HeaderBlocksResolved
<1>6. IsSeq(e) /\ Resolved(e, none)
  <2>1. PICK v, w, p : v = Append(file.package, "") /\ w = file.package /\ p = DescriptorsInner
    OBVIOUS
  <2>2. IsSeq(p)
    BY <2>1, DescriptorsRange
  <2>3. IsSeq(Block(v, w, p))
    BY <2>2, BlockFacts
  <2>4. IsSeq(e)
    BY <2>1, <2>3 DEF DescriptorsBlock
  <2> QED BY <2>4, DescriptorsResolved
<1>7. IsSeq(s) /\ \A E : Range(h) \subseteq E /\ Range(e) \subseteq E => Resolved(s, E)
  <2>1. IsSeq(s)
    BY BlocksFacts, FlattenIsSeq
  <2> QED BY <2>1, SourceBlocksMet
<1>8. \A E : none \subseteq E
  BY DEF none
<1> HIDE DEF o, h, e, s, none
<1>9. IsSeq(o \o a) /\ Resolved(o \o a, none)
  BY <1>2, <1>3, <1>4, <1>8, ResolvedThen
<1> DEFINE p == (o \o a) \o h
           H == p \o b
<1>10. IsSeq(p) /\ Resolved(p, none) /\ Range(p) = Range(o \o a) \cup Range(h)
  BY <1>5, <1>8, <1>9, ResolvedThen
<1> HIDE DEF p
<1>11. IsSeq(H) /\ Resolved(H, none) /\ Range(H) = Range(p) \cup Range(b)
  BY <1>2, <1>3, <1>8, <1>10, ResolvedThen
<1>12. Range(h) \subseteq Range(H)
  BY <1>10, <1>11
<1> DEFINE E == none \cup Range(H)
           F == E \cup Range(c \o e)
           q == c \o e
           r == q \o s
           S == r \o d
<1>13. Range(h) \subseteq E
  BY <1>12
<1> HIDE DEF E, H
<1>14. IsSeq(q) /\ Resolved(q, E) /\ Range(q) = Range(c) \cup Range(e)
  BY <1>2, <1>3, <1>6, <1>8, ResolvedThen
<1>15. Range(h) \subseteq F /\ Range(e) \subseteq F /\ F \subseteq E \cup Range(q)
  BY <1>13, <1>14
<1> HIDE DEF F, q
<1>16. Resolved(s, F)
  BY <1>7, <1>15
<1>17. IsSeq(r) /\ Resolved(r, E)
  BY <1>7, <1>14, <1>15, <1>16, ResolvedThen
<1> HIDE DEF r
<1>18. IsSeq(S) /\ Resolved(S, E)
  BY <1>2, <1>3, <1>8, <1>17, ResolvedThen
<1> HIDE DEF S
<1>19. Resolved(H \o S, none)
  BY <1>11, <1>18, ResolvedConcat DEF E
<1>20. Reads(Header \o Source, << >>, << >>, H \o S)
  BY <1>1 DEF H, S, p, r, q, o, h, e, s
<1> QED BY <1>19, <1>20 DEF none

\* What NamesResolve says of a unit read so.
LEMMA NamesOfResolved ==
  ASSUME NEW t, NEW q, Reads(Unit, << >>, t, q), Resolved(q, {})
  PROVE  NamesResolve
<1>1. PICK unit : unit = Unit
  OBVIOUS
<1> DEFINE scope == Scopes(unit)
<1>2. /\ DOMAIN unit = 1 .. Len(unit) /\ Len(q) = Len(unit) /\ Len(unit) \in Nat
      /\ \A k \in DOMAIN unit : q[k] = <<scope[k], unit[k]>>
  BY <1>1, ReadsScopes
<1> HIDE DEF scope
<1> DEFINE D == DOMAIN unit
<1>3. \A k \in D : q[k][1] = scope[k] /\ q[k][2] = unit[k]
  BY <1>2
<1>4. ASSUME NEW n \in D
      PROVE  /\ Met(q[n], Before(q, n))
             /\ \A y \in Before(q, n) : \E k \in D : k < n /\ y = q[k]
  <2>1. {} \cup Before(q, n) = Before(q, n)
    OBVIOUS
  <2>2. n \in 1 .. Len(q)
    BY <1>2
  <2>3. Met(q[n], Before(q, n))
    BY <2>1, <2>2 DEF Resolved
  <2>4. \A k \in 1 .. n - 1 : k \in D /\ k < n
    BY <1>2
  <2> HIDE DEF D
  <2>5. \A y \in Before(q, n) : \E k \in D : k < n /\ y = q[k]
    BY <2>4 DEF Before
  <2> QED BY <2>3, <2>5
<1> DEFINE Seen(k, n) == k < n /\ IsPrefix(Named(scope[k]), Named(scope[n]))
<1>5. ASSUME NEW n \in D, NEW a \in AliasesOf(unit[n])
      PROVE  \E k \in D : Seen(k, n) /\ unit[k] = Alias(ClassOf(unit[n]), a) /\ scope[k] = scope[n]
  <2> DEFINE y == <<q[n][1], Alias(ClassOf(q[n][2]), a)>>
  <2>1. y \in Before(q, n) /\ Sees(q[n], y)
    <3>1. Met(q[n], Before(q, n)) /\ a \in AliasesOf(q[n][2])
      BY <1>3, <1>4, <1>5
    <3> QED BY <3>1 DEF Met
  <2>2. PICK k \in D : k < n /\ y = q[k]
    BY <1>4, <2>1
  <2>3. y[1] = q[n][1] /\ y[2] = Alias(ClassOf(q[n][2]), a)
    OBVIOUS
  <2> HIDE DEF y
  <2>4. scope[k] = scope[n] /\ unit[k] = Alias(ClassOf(unit[n]), a)
    BY <1>3, <2>2, <2>3
  <2>5. IsPrefix(Named(scope[k]), Named(scope[n]))
    BY <1>3, <2>1, <2>2 DEF Sees
  <2> QED BY <2>2, <2>4, <2>5
<1>6. ASSUME NEW n \in D, unit[n].tok = "def", NEW u \in unit[n].uses
      PROVE  \E k \in D : Seen(k, n) /\ unit[k].tok \in {"def", "var"} /\ unit[k].name = u
  <2>1. Met(q[n], Before(q, n)) /\ q[n][2].tok = "def" /\ u \in q[n][2].uses
    BY <1>3, <1>4, <1>6
  <2>2. PICK y \in Before(q, n) : Sees(q[n], y) /\ y[2].tok \in {"def", "var"} /\ y[2].name = u
    BY <2>1, Zenon DEF Met
  <2>3. PICK k \in D : k < n /\ y = q[k]
    BY <1>4
  <2>4. unit[k].tok \in {"def", "var"} /\ unit[k].name = u
    BY <1>3, <2>2, <2>3
  <2>5. IsPrefix(Named(scope[k]), Named(scope[n]))
    BY <1>3, <2>2, <2>3 DEF Sees
  <2> QED BY <2>3, <2>4, <2>5
<1>7. \A n \in D :
        /\ \A a \in AliasesOf(unit[n]) : \E k \in D :
             Seen(k, n) /\ unit[k] = Alias(ClassOf(unit[n]), a) /\ scope[k] = scope[n]
        /\ unit[n].tok = "def" =>
             \A u \in unit[n].uses : \E k \in D :
               Seen(k, n) /\ unit[k].tok \in {"def", "var"} /\ unit[k].name = u
  <2> HIDE DEF D, Seen
  <2> QED BY <1>5, <1>6, Zenon
<1>8. NamesResolve
  <2> SUFFICES ASSUME result = "done"
               PROVE  \A n \in D :
                        /\ \A a \in AliasesOf(unit[n]) : \E k \in D :
                             Seen(k, n) /\ unit[k] = Alias(ClassOf(unit[n]), a) /\ scope[k] = scope[n]
                        /\ unit[n].tok = "def" =>
                             \A u \in unit[n].uses : \E k \in D :
                               Seen(k, n) /\ unit[k].tok \in {"def", "var"} /\ unit[k].name = u
    BY <1>1 DEF NamesResolve, scope
  <2> QED BY <1>7
<1> QED BY <1>8

\* Every name of the generated files is declared before it is mentioned, where it
\* can be seen, if the runtime is not lite, no namespace was asked for (the header
\* opens it and the source does not) and a server-streaming method is called
\* ListFeatures (whose writer the source names for every such method).
THEOREM NamesResolved ==
  Spec => [](~ file.lite /\ services_namespace = "" /\ WriterNamed => NamesResolve)
<1>1. IInv => (~ file.lite /\ services_namespace = "" /\ WriterNamed => NamesResolve)
  <2> SUFFICES ASSUME IInv, ~ file.lite, services_namespace = "", WriterNamed PROVE NamesResolve
    OBVIOUS
  <2>1. CASE result = "done"
    <3>1. file \in Files /\ source = Source /\ header = Header
      BY <2>1 DEF IInv, Written
    <3>2. PICK q : Reads(Header \o Source, << >>, << >>, q) /\ Resolved(q, {})
      BY <3>1, UnitResolved
    <3>3. Unit = Header \o Source
      BY <3>1 DEF Unit
    <3> QED BY <3>2, <3>3, NamesOfResolved
  <2>2. CASE result # "done"
    BY <2>2 DEF NamesResolve
  <2> QED BY <2>1, <2>2
<1> QED BY <1>1, Invariance, PTL

-----------------------------------------------------------------------------
(***************************************************************************)
(* What is defined in a piece is defined once.                             *)
(***************************************************************************)
Same(x, y) == x.class = y.class /\ x.name = y.name /\ x.types = y.types

\* Two definitions of one function, which is what there must not be.
Again(x, y) ==
  x[2].tok = "def" /\ y[2].tok = "def" /\ x[1] = y[1] /\ Same(x[2], y[2])

Single(q) == \A k, l \in 1 .. Len(q) : Again(q[k], q[l]) => k = l

Apart(p, q) == \A x \in Range(p), y \in Range(q) : ~ Again(x, y)

LEMMA PlaceSame ==
  ASSUME NEW v, NEW x, NEW w, NEW y
  PROVE  PlaceOf(v, x) = PlaceOf(w, y) <=> v = w /\ Same(x, y)
BY DEF PlaceOf, Same

LEMMA AgainSwapped ==
  ASSUME NEW x, NEW y, Again(x, y)
  PROVE  Again(y, x)
BY DEF Again, Same

LEMMA SingleConcat ==
  ASSUME NEW p, IsSeq(p), NEW q, IsSeq(q), Single(p), Single(q), Apart(p, q)
  PROVE  Single(p \o q)
<1> DEFINE r == p \o q
           m == Len(p)
           n == Len(q)
<1>1. m \in Nat /\ n \in Nat
  BY SeqFacts
<1>2. Len(r) = m + n /\ (\A i \in 1 .. m : r[i] = p[i]) /\ \A i \in 1 .. n : r[m + i] = q[i]
  BY ConcatFacts
<1>3. \A i \in 1 .. m, j \in 1 .. n : ~ Again(p[i], q[j])
  BY SeqFacts DEF Apart
<1>4. \A i \in 1 .. m, j \in 1 .. n : ~ Again(q[j], p[i])
  BY <1>3, AgainSwapped
<1>5. /\ \A k, l \in 1 .. m : Again(p[k], p[l]) => k = l
      /\ \A k, l \in 1 .. n : Again(q[k], q[l]) => k = l
  BY DEF Single
<1> HIDE DEF r, m, n
<1>6. \A k \in 1 .. m + n : \/ k \in 1 .. m /\ r[k] = p[k]
                            \/ \E i \in 1 .. n : k = m + i /\ r[k] = q[i]
  <2> SUFFICES ASSUME NEW k \in 1 .. m + n, k \notin 1 .. m
               PROVE  \E i \in 1 .. n : k = m + i /\ r[k] = q[i]
    BY <1>2
  <2>1. k - m \in 1 .. n /\ k = m + (k - m)
    BY <1>1
  <2>2. r[m + (k - m)] = q[k - m]
    BY <1>2, <2>1
  <2> QED BY <2>1, <2>2
<1>7. ASSUME NEW k \in 1 .. m + n, NEW l \in 1 .. m + n, Again(r[k], r[l]) PROVE k = l
  <2>1. CASE k \in 1 .. m /\ r[k] = p[k]
    <3>1. l \in 1 .. m /\ r[l] = p[l]
      BY <1>3, <1>6, <1>7, <2>1
    <3> QED BY <1>5, <1>7, <2>1, <3>1
  <2>2. CASE \E i \in 1 .. n : k = m + i /\ r[k] = q[i]
    <3>1. PICK i \in 1 .. n : k = m + i /\ r[k] = q[i]
      BY <2>2
    <3>2. PICK j \in 1 .. n : l = m + j /\ r[l] = q[j]
      BY <1>4, <1>6, <1>7, <3>1
    <3>3. i = j
      BY <1>5, <1>7, <3>1, <3>2
    <3> QED BY <3>1, <3>2, <3>3
  <2> QED BY <1>6, <2>1, <2>2
<1> QED BY <1>2, <1>7 DEF Single, r

LEMMA SingleFlatten ==
  ASSUME NEW qs, Parts(qs), \A i \in 1 .. Len(qs) : Single(qs[i]),
         \A i, j \in 1 .. Len(qs) : i # j => Apart(qs[i], qs[j])
  PROVE  Single(FlattenSeq(qs))
<1>1. PICK g : Joins(qs, g) /\ FlattenSeq(qs) = g[Len(qs)]
  BY FlattenIs
<1>2. Len(qs) \in Nat
  BY SeqFacts DEF Parts
<1> DEFINE S == { k \in Nat : k <= Len(qs) =>
                    /\ Single(g[k])
                    /\ \A x \in Range(g[k]) : \E i \in 1 .. k : x \in Range(qs[i]) }
<1>3. 0 \in S
  <2>1. \A k \in 1 .. 0 : FALSE
    OBVIOUS
  <2>2. g[0] = << >>
    BY <1>1 DEF Joins
  <2> QED BY <2>1, <2>2, EmptyFacts DEF Single
<1>4. ASSUME NEW k \in Nat, k \in S PROVE k + 1 \in S
  <2> SUFFICES ASSUME k + 1 <= Len(qs)
               PROVE  /\ Single(g[k + 1])
                      /\ \A x \in Range(g[k + 1]) : \E i \in 1 .. k + 1 : x \in Range(qs[i])
    OBVIOUS
  <2>1. /\ k + 1 \in 1 .. Len(qs) /\ k \in 0 .. Len(qs) /\ Single(g[k])
        /\ \A x \in Range(g[k]) : \E i \in 1 .. k : x \in Range(qs[i])
    BY <1>2, <1>4
  <2>2. g[k + 1] = g[k] \o qs[k + 1] /\ Single(qs[k + 1])
    BY <1>1, <2>1, JoinsNext
  <2>3. IsSeq(g[k]) /\ IsSeq(qs[k + 1])
    BY <1>1, <2>1, JoinsSeq DEF Parts
  <2>4. \A i \in 1 .. k : i \in 1 .. Len(qs) /\ i # k + 1 /\ i \in 1 .. k + 1
    BY <1>2, <2>1
  <2>5. Apart(g[k], qs[k + 1])
    <3>1. \A i \in 1 .. k : Apart(qs[i], qs[k + 1])
      BY <2>1, <2>4
    <3> QED BY <2>1, <3>1, Zenon DEF Apart
  <2>6. Single(g[k] \o qs[k + 1])
    BY <2>1, <2>2, <2>3, <2>5, SingleConcat
  <2>7. Range(g[k] \o qs[k + 1]) = Range(g[k]) \cup Range(qs[k + 1])
    BY <2>3, ConcatRange
  <2>8. k + 1 \in 1 .. k + 1
    OBVIOUS
  <2>9. \A x \in Range(g[k + 1]) : x \in Range(g[k]) \/ x \in Range(qs[k + 1])
    BY <2>2, <2>7
  <2>10. \A x \in Range(g[k + 1]) : \E i \in 1 .. k + 1 : x \in Range(qs[i])
    BY <2>1, <2>4, <2>8, <2>9, Zenon
  <2> QED BY <2>2, <2>6, <2>10
<1> HIDE DEF S
<1>5. Len(qs) \in S
  BY <1>2, <1>3, <1>4, NatInd
<1> QED BY <1>1, <1>2, <1>5 DEF S

\* A piece that defines nothing, and one of one token.
LEMMA SingleNone ==
  ASSUME NEW q, IsSeq(q), \A x \in Range(q) : x[2].tok # "def"
  PROVE  Single(q) /\ \A p : Apart(p, q) /\ Apart(q, p)
BY SeqFacts DEF Single, Apart, Again

LEMMA SingleOne ==
  ASSUME NEW q, IsSeq(q), Len(q) = 1
  PROVE  Single(q)
<1>1. \A k \in 1 .. 1 : k = 1
  OBVIOUS
<1> QED BY <1>1 DEF Single

\* The pieces of a text in the namespaces v.
LEMMA ApartAt ==
  ASSUME NEW v, NEW a, IsSeq(a), NEW b, IsSeq(b),
         \A x \in Range(a), y \in Range(b) : x.tok = "def" /\ y.tok = "def" => ~ Same(x, y)
  PROVE  Apart(At(v, a), At(v, b))
<1>1. Range(At(v, a)) = { <<v, x>> : x \in Range(a) } /\ Range(At(v, b)) = { <<v, y>> : y \in Range(b) }
  BY AtFacts
<1>2. ASSUME NEW z \in Range(At(v, a)), NEW w \in Range(At(v, b)) PROVE ~ Again(z, w)
  <2>1. PICK x \in Range(a) : z = <<v, x>>
    BY <1>1
  <2>2. PICK y \in Range(b) : w = <<v, y>>
    BY <1>1
  <2>3. z[2] = x /\ w[2] = y
    BY <2>1, <2>2
  <2> QED BY <2>3 DEF Again
<1> QED BY <1>2 DEF Apart

LEMMA SingleJoin ==
  ASSUME NEW v, NEW a, IsSeq(a), NEW b, IsSeq(b), Single(At(v, a)), Single(At(v, b)),
         \A x \in Range(a), y \in Range(b) : x.tok = "def" /\ y.tok = "def" => ~ Same(x, y)
  PROVE  Single(At(v, a \o b)) /\ IsSeq(a \o b) /\ Range(a \o b) = Range(a) \cup Range(b)
<1> DEFINE p == At(v, a)
           q == At(v, b)
<1>1. IsSeq(p) /\ IsSeq(q)
  BY AtFacts
<1>2. At(v, a \o b) = p \o q
  BY AtConcat
<1>3. Apart(p, q)
  BY ApartAt
<1>4. Single(p) /\ Single(q)
  OBVIOUS
<1> HIDE DEF p, q
<1>5. Single(p \o q)
  BY <1>1, <1>3, <1>4, SingleConcat
<1> QED BY <1>2, <1>5, ConcatIsSeq, ConcatRange

LEMMA SingleEach ==
  ASSUME NEW v, NEW seq, IsSeq(seq), NEW f, DOMAIN f = DOMAIN seq, f = [i \in DOMAIN seq |-> f[i]],
         \A i \in DOMAIN seq : IsSeq(f[i]) /\ Single(At(v, f[i])),
         \A i, j \in DOMAIN seq : i # j =>
           \A x \in Range(f[i]), y \in Range(f[j]) : x.tok = "def" /\ y.tok = "def" => ~ Same(x, y)
  PROVE  Single(At(v, FlattenSeq(f)))
<1>1. Parts(f) /\ Len(f) = Len(seq) /\ DOMAIN f = 1 .. Len(seq)
  BY PartsMade
<1> DEFINE g == [i \in DOMAIN seq |-> At(v, f[i])]
<1>2. /\ DOMAIN g = DOMAIN seq /\ g = [i \in DOMAIN seq |-> g[i]]
      /\ \A i \in DOMAIN seq : g[i] = At(v, f[i])
  OBVIOUS
<1> HIDE DEF g
<1>3. \A i \in DOMAIN seq : IsSeq(g[i])
  BY <1>2, AtFacts
<1>4. Parts(g) /\ Len(g) = Len(seq)
  BY <1>2, <1>3, PartsMade
<1>5. At(v, FlattenSeq(f)) = FlattenSeq(g)
  BY <1>1, <1>2, <1>4, AtFlatten
<1>6. \A i \in 1 .. Len(g) : Single(g[i])
  BY <1>1, <1>2, <1>4
<1>7. \A i, j \in 1 .. Len(g) : i # j => Apart(g[i], g[j])
  <2> SUFFICES ASSUME NEW i \in DOMAIN seq, NEW j \in DOMAIN seq, i # j PROVE Apart(g[i], g[j])
    BY <1>1, <1>4
  <2>1. Apart(At(v, f[i]), At(v, f[j]))
    BY ApartAt
  <2> QED BY <1>2, <2>1
<1>8. Single(FlattenSeq(g))
  BY <1>4, <1>6, <1>7, SingleFlatten
<1> QED BY <1>5, <1>8

LEMMA SingleAtOne ==
  ASSUME NEW v, NEW x
  PROVE  Single(At(v, <<x>>))
BY OneFacts, AtFacts, SingleOne

LEMMA SingleAtTwo ==
  ASSUME NEW v, NEW x, NEW y, ~ Same(x, y)
  PROVE  Single(At(v, <<x, y>>))
<1>1. IsSeq(<<x>>) /\ Range(<<x>>) = {x} /\ IsSeq(<<y>>) /\ Range(<<y>>) = {y}
  BY OneFacts
<1>2. Single(At(v, <<x>>)) /\ Single(At(v, <<y>>))
  BY SingleAtOne
<1>3. <<x>> \o <<y>> = <<x, y>>
  BY TwoFacts
<1> DEFINE a == <<x>>
           b == <<y>>
<1> HIDE DEF a, b
<1>4. Single(At(v, a \o b))
  BY <1>1, <1>2, SingleJoin DEF a, b
<1> QED BY <1>3, <1>4 DEF a, b

LEMMA SingleAtNone ==
  ASSUME NEW v, NEW b, IsSeq(b), \A x \in Range(b) : x.tok # "def"
  PROVE  Single(At(v, b))
<1> DEFINE q == At(v, b)
<1>1. IsSeq(q) /\ Range(q) = { <<v, x>> : x \in Range(b) }
  BY AtFacts
<1> HIDE DEF q
<1>2. \A z \in Range(q) : z[2].tok # "def"
  BY <1>1
<1> QED BY <1>1, <1>2, SingleNone DEF q

\* What a stub has for a method differs in its name, and what a service has in
\* its types.
LEMMA ClientMethodSingle ==
  ASSUME NEW m \in MethodDescriptor, NEW i, NEW v
  PROVE  Single(At(v, PrintSourceClientMethod(m, i)))
<1>1. PICK sync, async : PrintSourceClientMethod(m, i) = Stubs(m, i, sync, async)
  BY ClientMethodText
<1> DEFINE x == Def("Stub", <<"Sync_", m.name>>, sync, {}, Row(m, i), {})
           y == Def("Stub", <<"Async_", m.name>>, async, {}, Row(m, i), {})
<1>2. x.name[1] = "Sync_" /\ y.name[1] = "Async_"
  BY DefFields
<1>3. PrintSourceClientMethod(m, i) = <<x, y>>
  BY <1>1 DEF Stubs
<1> HIDE DEF x, y
<1>4. ~ Same(x, y)
  BY <1>2 DEF Same
<1> QED BY <1>3, <1>4, SingleAtTwo

\* No member of every service has the types of a method.
OfSize(t) == t = << >> \/ t[1] = Cpp("size_t")

LEMMA MembersOfSize ==
  ASSUME NEW f \in Range(ServiceMembers)
  PROVE  OfSize(f[2])
<1> DEFINE c == Cpp("size_t")
           d == Cpp("grpc_byte_buffer*")
           e == Cpp("CallSptr")
<1> HIDE DEF c, d, e
<1>1. <<c>>[1] = c /\ <<c, d, e>>[1] = c
  OBVIOUS
<1>2. f[2] = << >> \/ f[2] = <<c>> \/ f[2] = <<c, d, e>>
  <2>1. Range(ServiceMembers)
          = { <<"Service", << >> >>, <<"~Service", << >> >>, <<"GetMethodName", <<c>> >>,
              <<"CallMethod", <<c, d, e>> >> }
    BY FourElements DEF ServiceMembers, c, d, e
  <2> QED BY <2>1
<1> QED BY <1>1, <1>2 DEF OfSize, c

LEMMA MethodTypes ==
  ASSUME NEW m \in MethodDescriptor
  PROVE  Entry(m) # Handler(m) /\ ~ OfSize(Entry(m)) /\ ~ OfSize(Handler(m))
<1>1. m.name # "" /\ m.client_streaming \in BOOLEAN
  BY DEF MethodDescriptor, Identifier
<1> DEFINE v == Cpp("void")
           b == Cpp("grpc_byte_buffer")
           c == Cpp("CallSptr")
           q == Cpp("Request")
           r == Own(m, "ReaderSptr")
           h == Handle(m)
           z == Cpp("size_t")
<1>2. v # z /\ r # z /\ r # v /\ b # q
  <2>1. v[2] = "void" /\ z[2] = "size_t" /\ b[2] = "grpc_byte_buffer" /\ q[2] = "Request"
    BY DEF Cpp
  <2>2. r[1] = m.name /\ z[1] = "" /\ v[1] = ""
    BY DEF Own, Cpp
  <2> HIDE DEF v, b, q, r, z
  <2>3. v # z /\ b # q
    BY <2>1
  <2>4. r # z /\ r # v
    BY <1>1, <2>2
  <2> QED BY <2>3, <2>4
<1>3. /\ Handler(m) = IF m.client_streaming THEN <<r, h>> ELSE <<v, q, h>>
      /\ Entry(m) = IF m.client_streaming THEN <<v, c>> ELSE <<v, b, h>>
  BY DEF Handler, Entry
<1> HIDE DEF v, b, c, q, r, h, z
<1>4. \A x, y : <<x, y>> # << >> /\ <<x, y>>[1] = x
  OBVIOUS
<1>5. \A x, y, k : <<x, y, k>> # << >> /\ <<x, y, k>>[1] = x /\ <<x, y, k>>[2] = y
  OBVIOUS
<1>6. CASE m.client_streaming
  <2>1. Handler(m) = <<r, h>> /\ Entry(m) = <<v, c>>
    BY <1>3, <1>6
  <2>2. Handler(m) # << >> /\ Handler(m)[1] = r /\ Entry(m) # << >> /\ Entry(m)[1] = v
    BY <1>4, <2>1
  <2> QED BY <1>2, <2>2 DEF OfSize, z
<1>7. CASE ~ m.client_streaming
  <2>1. Handler(m) = <<v, q, h>> /\ Entry(m) = <<v, b, h>>
    BY <1>3, <1>7
  <2>2. /\ Handler(m) # << >> /\ Handler(m)[1] = v /\ Handler(m)[2] = q
        /\ Entry(m) # << >> /\ Entry(m)[1] = v /\ Entry(m)[2] = b
    BY <1>5, <2>1
  <2> QED BY <1>2, <2>2 DEF OfSize, z
<1> QED BY <1>6, <1>7

LEMMA ServerMethodSingle ==
  ASSUME NEW m \in MethodDescriptor, OwnWriter(m), NEW v
  PROVE  /\ Single(At(v, PrintSourceServerMethod(m)))
         /\ \A x \in Range(PrintSourceServerMethod(m)) : ~ OfSize(x.types)
         /\ \E x, y \in Range(PrintSourceServerMethod(m)) : x.types = Entry(m) /\ y.types = Handler(m)
         /\ \A x \in Range(PrintSourceServerMethod(m)) : x.types = Entry(m) \/ x.types = Handler(m)
<1>1. PICK aliases : PrintSourceServerMethod(m) = Served(m, aliases)
  BY ServerMethodText, Zenon
<1> DEFINE x == Def("Service", <<"", m.name>>, Entry(m), aliases, 0, {})
           y == Def("Service", <<"", m.name>>, Handler(m), {}, 0, {})
<1>2. x.types = Entry(m) /\ y.types = Handler(m)
  BY DEF Def
<1>3. PrintSourceServerMethod(m) = <<x, y>>
  BY <1>1 DEF Served
<1> HIDE DEF x, y
<1>4. ~ Same(x, y)
  BY <1>2, MethodTypes DEF Same
<1>5. Range(PrintSourceServerMethod(m)) = {x, y}
  BY <1>3, TwoRange
<1>6. Single(At(v, PrintSourceServerMethod(m)))
  BY <1>3, <1>4, SingleAtTwo
<1>7. /\ \A k \in Range(PrintSourceServerMethod(m)) : ~ OfSize(k.types)
      /\ \A k \in Range(PrintSourceServerMethod(m)) : k.types = Entry(m) \/ k.types = Handler(m)
  BY <1>2, <1>5, MethodTypes
<1>8. \E k, l \in Range(PrintSourceServerMethod(m)) : k.types = Entry(m) /\ l.types = Handler(m)
  BY <1>2, <1>5
<1> QED BY <1>6, <1>7, <1>8

LEMMA MembersSingle ==
  ASSUME NEW class, NEW members, IsSeq(members),
         \A i, j \in DOMAIN members : members[i][1] = members[j][1] => i = j, NEW v
  PROVE  Single(At(v, DefAll(class, members)))
<1> DEFINE D == DOMAIN members
           f == [i \in D |-> << Defined(class, members[i]) >>]
<1>1. DefAll(class, members) = FlattenSeq(f)
  BY DEF DefAll, Each, Defined
<1>2. DOMAIN f = D /\ f = [i \in D |-> f[i]] /\ \A i \in D : f[i] = << Defined(class, members[i]) >>
  OBVIOUS
<1> HIDE DEF f
<1>3. \A i \in D : IsSeq(f[i]) /\ Single(At(v, f[i]))
  BY <1>2, OneFacts, SingleAtOne
<1>4. \A i \in D : Range(f[i]) = { Defined(class, members[i]) }
  BY <1>2, OneFacts
<1>5. ASSUME NEW i \in D, NEW j \in D, i # j, NEW x \in Range(f[i]), NEW y \in Range(f[j])
      PROVE  ~ Same(x, y)
  <2>1. x = Defined(class, members[i]) /\ y = Defined(class, members[j])
    BY <1>4
  <2>2. \A k : Defined(class, k).name[2] = k[1]
    BY DEF Defined, Def
  <2>3. x.name[2] = members[i][1] /\ y.name[2] = members[j][1]
    BY <2>1, <2>2
  <2> QED BY <1>5, <2>3 DEF Same
<1> HIDE DEF D
<1>6. Single(At(v, FlattenSeq(f)))
  BY <1>2, <1>3, <1>5, SingleEach DEF D
<1> QED BY <1>1, <1>6

LEMMA MembersNamesDistinct ==
  /\ \A i, j \in DOMAIN StubMembers : StubMembers[i][1] = StubMembers[j][1] => i = j
  /\ \A i, j \in DOMAIN ServiceMembers : ServiceMembers[i][1] = ServiceMembers[j][1] => i = j
<1>1. \A i, j \in DOMAIN StubMembers : StubMembers[i][1] = StubMembers[j][1] => i = j
  <2>1. DOMAIN StubMembers = 1 .. 1
    BY OneFacts, SeqFacts DEF StubMembers
  <2> QED BY <2>1
<1>2. \A i, j \in DOMAIN ServiceMembers : ServiceMembers[i][1] = ServiceMembers[j][1] => i = j
  <2>1. DOMAIN ServiceMembers = 1 .. 4
    BY DEF ServiceMembers
  <2>2. /\ ServiceMembers[1][1] = "Service" /\ ServiceMembers[2][1] = "~Service"
        /\ ServiceMembers[3][1] = "GetMethodName" /\ ServiceMembers[4][1] = "CallMethod"
    BY DEF ServiceMembers
  <2>3. \A i \in 1 .. 4 : i = 1 \/ i = 2 \/ i = 3 \/ i = 4
    OBVIOUS
  <2> QED BY <2>1, <2>2, <2>3
<1> QED BY <1>1, <1>2

LEMMA MethodsSingle ==
  ASSUME NEW s \in ServiceDescriptor, \A i \in DOMAIN s.methods : OwnWriter(s.methods[i]),
         \A k, l \in DOMAIN s.methods : s.methods[k].name = s.methods[l].name => k = l, NEW v
  PROVE  /\ Single(At(v, FlattenSeq(ClientTexts(s))))
         /\ Single(At(v, Each(s.methods, PrintSourceServerMethod)))
<1> DEFINE D == DOMAIN s.methods
           c == ClientTexts(s)
           d == [i \in D |-> PrintSourceServerMethod(s.methods[i])]
<1>1. IsSeq(s.methods)
  BY ServiceFacts
<1>2. \A i \in D : s.methods[i] \in MethodDescriptor
  BY ServiceFacts
<1>3. DOMAIN c = D /\ c = [i \in D |-> c[i]] /\ \A i \in D : c[i] = PrintSourceClientMethod(s.methods[i], i)
  BY DEF ClientTexts
<1>4. DOMAIN d = D /\ d = [i \in D |-> d[i]] /\ \A i \in D : d[i] = PrintSourceServerMethod(s.methods[i])
  OBVIOUS
<1>5. Each(s.methods, PrintSourceServerMethod) = FlattenSeq(d)
  BY DEF Each
<1> HIDE DEF c, d
<1>6. ASSUME NEW i \in D PROVE IsSeq(c[i]) /\ Single(At(v, c[i]))
  <2>1. PICK m \in MethodDescriptor : c[i] = PrintSourceClientMethod(m, i)
    BY <1>2, <1>3
  <2>2. IsSeq(PrintSourceClientMethod(m, i))
    BY ClientMethodFlat DEF Flat
  <2>3. Single(At(v, PrintSourceClientMethod(m, i)))
    BY ClientMethodSingle
  <2> QED BY <2>1, <2>2, <2>3
<1>7. \A i \in D : IsSeq(d[i]) /\ Single(At(v, d[i]))
  BY <1>2, <1>4, ServerMethodFlat, ServerMethodSingle DEF Flat
<1>a. \A k, n : <<k, n>>[2] = n
  OBVIOUS
<1>8. ASSUME NEW i \in D, NEW j \in D, i # j, NEW x \in Range(c[i]), NEW y \in Range(c[j])
      PROVE  ~ Same(x, y)
  <2> DEFINE a == s.methods[i].name
             b == s.methods[j].name
  <2>1. a # b
    BY <1>8
  <2>2. x.name \in { <<call, a>> : call \in Calls } /\ y.name \in { <<call, b>> : call \in Calls }
    <3>1. PICK m \in MethodDescriptor, n \in MethodDescriptor : m = s.methods[i] /\ n = s.methods[j]
      BY <1>2
    <3>2. x \in Range(PrintSourceClientMethod(m, i)) /\ y \in Range(PrintSourceClientMethod(n, j))
      BY <1>3, <1>8, <3>1
    <3>3. x.name \in { <<call, m.name>> : call \in Calls } /\ y.name \in { <<call, n.name>> : call \in Calls }
      BY <3>2, ClientMethodRange
    <3> QED BY <3>1, <3>3
  <2> HIDE DEF a, b
  <2>3. x.name[2] = a /\ y.name[2] = b
    BY <2>2
  <2> QED BY <2>1, <2>3 DEF Same
<1>9. ASSUME NEW i \in D, NEW j \in D, i # j, NEW x \in Range(d[i]), NEW y \in Range(d[j])
      PROVE  ~ Same(x, y)
  <2> DEFINE a == s.methods[i].name
             b == s.methods[j].name
  <2>1. a # b
    BY <1>9
  <2>2. x.name = <<"", a>> /\ y.name = <<"", b>>
    <3>1. \A m : \A z \in Range(PrintSourceServerMethod(m)) : z.name = <<"", m.name>>
      BY ServerMethodRange
    <3> QED BY <1>4, <3>1
  <2> DEFINE z == ""
  <2>3. x.name = <<z, a>> /\ y.name = <<z, b>>
    BY <2>2
  <2> HIDE DEF a, b, z
  <2>4. x.name[2] = a /\ y.name[2] = b
    BY <2>3, <1>a
  <2> QED BY <2>1, <2>4 DEF Same
<1> HIDE DEF D
<1>10. Single(At(v, FlattenSeq(c)))
  BY <1>1, <1>3, <1>6, <1>8, SingleEach DEF D
<1>11. Single(At(v, FlattenSeq(d)))
  BY <1>1, <1>4, <1>7, <1>9, SingleEach DEF D
<1> QED BY <1>5, <1>10, <1>11 DEF c

LEMMA HeadSingle ==
  ASSUME NEW s, NEW v
  PROVE  LET o == << Open(s.name), MethodNames(s), Getter(s) >>
         IN  IsSeq(o) /\ Single(At(v, o)) /\ \A x \in Range(o) : x.tok = "def" => x.class = ""
<1> DEFINE x == Open(s.name)
           y == MethodNames(s)
           z == Getter(s)
           a == <<x, y>>
           b == <<z>>
<1>1. x.tok # "def" /\ y.tok # "def" /\ z.class = ""
  BY DEF Open, MethodNames, Getter, Def
<1> HIDE DEF x, y, z
<1>2. IsSeq(a) /\ Range(a) = {x, y}
  BY TwoFacts, TwoRange
<1>3. IsSeq(b) /\ Range(b) = {z}
  BY OneFacts
<1>4. a \o b = <<x, y, z>>
  <2>1. a = <<x>> \o <<y>> /\ <<y>> \o <<z>> = <<y, z>> /\ <<x>> \o <<y, z>> = <<x, y, z>>
    BY TwoFacts, ThreeJoined
  <2>2. IsSeq(<<x>>) /\ IsSeq(<<y>>) /\ IsSeq(<<z>>)
    BY OneFacts
  <2>3. (<<x>> \o <<y>>) \o <<z>> = <<x>> \o (<<y>> \o <<z>>)
    BY <2>2, ConcatAssoc
  <2> QED BY <2>1, <2>3
<1>5. Single(At(v, b))
  BY SingleAtOne
<1> HIDE DEF a, b
<1>6. \A k \in Range(a) : k.tok # "def"
  BY <1>1, <1>2
<1>7. Single(At(v, a))
  BY <1>2, <1>6, SingleAtNone
<1>8. Single(At(v, a \o b)) /\ IsSeq(a \o b) /\ Range(a \o b) = Range(a) \cup Range(b)
  BY <1>2, <1>3, <1>5, <1>6, <1>7, SingleJoin
<1>9. \A k \in Range(a \o b) : k.tok = "def" => k.class = ""
  BY <1>1, <1>3, <1>6, <1>8
<1> QED BY <1>4, <1>8, <1>9 DEF x, y, z

LEMMA SourceInnerSingle ==
  ASSUME NEW s \in ServiceDescriptor, \A i \in DOMAIN s.methods : OwnWriter(s.methods[i]),
         \A k, l \in DOMAIN s.methods : s.methods[k].name = s.methods[l].name => k = l, NEW v
  PROVE  Single(At(v, SourceInner(s)))
<1> DEFINE o == << Open(s.name), MethodNames(s), Getter(s) >>
           a == DefAll("Stub", StubMembers)
           b == FlattenSeq(ClientTexts(s))
           c == DefAll("Service", ServiceMembers)
           e == << PrintCallMethod(s) >>
           d == Each(s.methods, PrintSourceServerMethod)
<1>1. SourceInner(s) = ((((o \o a) \o b) \o c) \o e) \o d
  BY DEF SourceInner, Getter, ClientTexts
<1>2. IsSeq(a) /\ IsSeq(b) /\ IsSeq(c) /\ IsSeq(d)
  BY MembersAreSeqs, MembersFlat, MethodsFlat DEF Flat, ClientTexts
<1>3. IsSeq(o) /\ Single(At(v, o)) /\ \A x \in Range(o) : x.tok = "def" => x.class = ""
  BY HeadSingle
<1>4. Single(At(v, a)) /\ Single(At(v, c))
  BY MembersSingle, MembersAreSeqs, MembersNamesDistinct
<1>5. Single(At(v, b)) /\ Single(At(v, d))
  BY MethodsSingle
<1>6. IsSeq(e) /\ Single(At(v, e)) /\ Range(e) = { PrintCallMethod(s) }
  BY OneFacts, SingleAtOne
<1>7. \A x \in Range(a) : x.class = "Stub" /\ x.name[1] = ""
  <2> SUFFICES ASSUME NEW x \in Range(a) PROVE x.class = "Stub" /\ x.name[1] = ""
    OBVIOUS
  <2>1. PICK f \in Range(StubMembers) : x = Defined("Stub", f)
    BY MembersAreSeqs, MembersRange
  <2> QED BY <2>1 DEF Defined, Def
<1>8. \A x \in Range(b) : x.class = "Stub" /\ x.name[1] # ""
  <2> SUFFICES ASSUME NEW x \in Range(b) PROVE x.class = "Stub" /\ x.name[1] # ""
    OBVIOUS
  <2>1. PICK i \in DOMAIN s.methods : x \in Range(PrintSourceClientMethod(s.methods[i], i))
    BY MethodsRange
  <2>2. x.class = "Stub" /\ x.name \in { <<call, s.methods[i].name>> : call \in Calls }
    BY <2>1, ServiceFacts, ClientMethodRange
  <2>3. x.name[1] \in Calls
    BY <2>2
  <2> QED BY <2>2, <2>3 DEF Calls
<1>9. \A x \in Range(c) : x.class = "Service" /\ OfSize(x.types)
  <2> SUFFICES ASSUME NEW x \in Range(c) PROVE x.class = "Service" /\ OfSize(x.types)
    OBVIOUS
  <2>1. PICK f \in Range(ServiceMembers) : x = Defined("Service", f)
    BY MembersAreSeqs, MembersRange
  <2>2. x.class = "Service" /\ x.types = f[2]
    BY <2>1 DEF Defined, Def
  <2> QED BY <2>2, MembersOfSize
<1>10. \A x \in Range(e) : x.tok # "def"
  BY <1>6 DEF PrintCallMethod
<1>11. \A x \in Range(d) : x.class = "Service" /\ ~ OfSize(x.types)
  <2> SUFFICES ASSUME NEW x \in Range(d) PROVE x.class = "Service" /\ ~ OfSize(x.types)
    OBVIOUS
  <2>1. PICK i \in DOMAIN s.methods : x \in Range(PrintSourceServerMethod(s.methods[i]))
    BY MethodsRange
  <2> QED BY <2>1, ServiceFacts, ServerMethodRange, ServerMethodSingle
<1> HIDE DEF o, a, b, c, d, e
<1> DEFINE p == o \o a
<1>12. \A x \in Range(o), y \in Range(a) : x.tok = "def" /\ y.tok = "def" => ~ Same(x, y)
  BY <1>3, <1>7 DEF Same
<1>13. IsSeq(p) /\ Single(At(v, p)) /\ Range(p) = Range(o) \cup Range(a)
  <2>1. IsSeq(o) /\ IsSeq(a) /\ Single(At(v, o)) /\ Single(At(v, a))
    BY <1>2, <1>3, <1>4
  <2>2. IsSeq(o \o a) /\ Single(At(v, o \o a)) /\ Range(o \o a) = Range(o) \cup Range(a)
    BY <1>12, <2>1, SingleJoin
  <2> QED BY <2>2
<1> HIDE DEF p
<1> DEFINE q == p \o b
<1>14. \A x \in Range(p), y \in Range(b) : x.tok = "def" /\ y.tok = "def" => ~ Same(x, y)
  BY <1>3, <1>7, <1>8, <1>13 DEF Same
<1>15. IsSeq(q) /\ Single(At(v, q)) /\ Range(q) = Range(p) \cup Range(b)
  BY <1>2, <1>5, <1>13, <1>14, SingleJoin
<1> HIDE DEF q
<1> DEFINE r == q \o c
<1>16. \A x \in Range(q) : x.tok = "def" => x.class # "Service"
  BY <1>3, <1>7, <1>8, <1>13, <1>15
<1>17. \A x \in Range(q), y \in Range(c) : x.tok = "def" /\ y.tok = "def" => ~ Same(x, y)
  BY <1>9, <1>16 DEF Same
<1>18. IsSeq(r) /\ Single(At(v, r)) /\ Range(r) = Range(q) \cup Range(c)
  BY <1>2, <1>4, <1>15, <1>17, SingleJoin
<1> HIDE DEF r
<1> DEFINE t == r \o e
<1>19. \A x \in Range(r), y \in Range(e) : x.tok = "def" /\ y.tok = "def" => ~ Same(x, y)
  BY <1>10
<1>20. IsSeq(t) /\ Single(At(v, t)) /\ Range(t) = Range(r) \cup Range(e)
  BY <1>6, <1>18, <1>19, SingleJoin
<1> HIDE DEF t
<1>21. \A x \in Range(t), y \in Range(d) : x.tok = "def" /\ y.tok = "def" => ~ Same(x, y)
  <2> SUFFICES ASSUME NEW x \in Range(t), NEW y \in Range(d), x.tok = "def", Same(x, y) PROVE FALSE
    OBVIOUS
  <2>1. x.class = "Service" /\ ~ OfSize(x.types)
    BY <1>11 DEF Same
  <2>2. x \in Range(c)
    BY <1>10, <1>16, <1>18, <1>20, <2>1
  <2> QED BY <1>9, <2>1, <2>2
<1>22. Single(At(v, t \o d))
  BY <1>2, <1>5, <1>20, <1>21, SingleJoin
<1> QED BY <1>1, <1>22 DEF t, r, q, p

-----------------------------------------------------------------------------
(***************************************************************************)
(* What the header declares and what the source defines.                   *)
(***************************************************************************)
Pair(x, y) == x.tok = "decl" /\ y.tok = "def" /\ Same(x, y)

Matched(A, B) ==
  /\ \A x \in A : x.tok = "decl" => \E y \in B : Pair(x, y)
  /\ \A y \in B : y.tok = "def" /\ y.class # "" => \E x \in A : Pair(x, y)

LEMMA PairMade ==
  ASSUME NEW class, NEW name, NEW types, NEW aliases, NEW row, NEW uses
  PROVE  Pair(Decl(class, name, types), Def(class, name, types, aliases, row, uses))
BY DEF Pair, Same, Decl, Def

LEMMA ClientMatched ==
  ASSUME NEW m \in MethodDescriptor, NEW i
  PROVE  Matched(Range(PrintHeaderClientMethodPublic(m)), Range(PrintSourceClientMethod(m, i)))
<1> DEFINE A == Range(PrintHeaderClientMethodPublic(m))
           B == Range(PrintSourceClientMethod(m, i))
           p == <<"Sync_", m.name>>
           q == <<"Async_", m.name>>
<1>1. PICK t, u :
        /\ PrintSourceClientMethod(m, i) = Stubs(m, i, t, u)
        /\ Decl("Stub", p, t) \in A
        /\ Decl("Stub", q, u) \in A
        /\ \A x \in A : x.tok = "alias" \/ x = Decl("Stub", p, t) \/ x = Decl("Stub", q, u)
  BY ClientMethodTypes, Zenon
<1> DEFINE r == Row(m, i)
           x == Decl("Stub", p, t)
           y == Decl("Stub", q, u)
           k == Def("Stub", p, t, {}, r, {})
           l == Def("Stub", q, u, {}, r, {})
<1>2. Pair(x, k) /\ Pair(y, l)
  BY PairMade
<1>3. PrintSourceClientMethod(m, i) = <<k, l>>
  BY <1>1 DEF Stubs
<1> HIDE DEF p, q, r, k, l
<1>4. B = {k, l}
  BY <1>3, TwoRange
<1>5. x \in A /\ y \in A /\ \A z \in A : z.tok = "alias" \/ z = x \/ z = y
  BY <1>1
<1> HIDE DEF A, B, x, y
<1>6. Matched(A, B)
  BY <1>2, <1>4, <1>5 DEF Matched
<1> QED BY <1>6 DEF A, B

LEMMA ServerMatched ==
  ASSUME NEW m \in MethodDescriptor, OwnWriter(m)
  PROVE  Matched(Range(PrintHeaderServiceMethod(m)), Range(PrintSourceServerMethod(m)))
<1> DEFINE A == Range(PrintHeaderServiceMethod(m))
           B == Range(PrintSourceServerMethod(m))
           n == <<"", m.name>>
           x == Decl("Service", n, Handler(m))
           y == Decl("Service", n, Entry(m))
           d == <<x, y>>
<1>1. PICK a : PrintHeaderServiceMethod(m) = a \o d /\ IsSeq(a) /\ \A z \in Range(a) : z.tok = "alias"
  BY ServerTexts, Zenon
<1>2. PICK aliases : PrintSourceServerMethod(m) = Served(m, aliases)
  BY ServerMethodText, Zenon
<1> DEFINE k == Def("Service", n, Entry(m), aliases, 0, {})
           l == Def("Service", n, Handler(m), {}, 0, {})
<1>3. Pair(y, k) /\ Pair(x, l)
  BY PairMade
<1>4. PrintSourceServerMethod(m) = <<k, l>>
  BY <1>2 DEF Served
<1> HIDE DEF n, k, l, x, y
<1>5. IsSeq(d) /\ Range(d) = {x, y}
  BY TwoFacts, TwoRange
<1> HIDE DEF d
<1>6. A = Range(a) \cup {x, y}
  BY <1>1, <1>5, ConcatRange
<1>7. B = {k, l}
  BY <1>4, TwoRange
<1> HIDE DEF A, B
<1>8. Matched(A, B)
  BY <1>1, <1>3, <1>6, <1>7 DEF Matched
<1> QED BY <1>8 DEF A, B

LEMMA InnerMatched ==
  ASSUME NEW s \in ServiceDescriptor, \A i \in DOMAIN s.methods : OwnWriter(s.methods[i])
  PROVE  Matched(Range(HeaderInner(s)), Range(SourceInner(s)))
<1> DEFINE D == DOMAIN s.methods
           A == Range(HeaderInner(s))
           B == Range(SourceInner(s))
<1>1. \A i \in D : s.methods[i] \in MethodDescriptor
  BY ServiceFacts
<1>2. \A class, f : Pair(Declared(class, f), Defined(class, f))
  BY PairMade DEF Declared, Defined
<1>3. Pair(Decl("", GetServiceDescriptor, << >>), Getter(s))
  BY PairMade DEF Getter
<1>4. \A i \in D : Matched(Range(PrintHeaderClientMethodPublic(s.methods[i])),
                           Range(PrintSourceClientMethod(s.methods[i], i)))
  BY <1>1, ClientMatched
<1>5. \A i \in D : Matched(Range(PrintHeaderServiceMethod(s.methods[i])),
                           Range(PrintSourceServerMethod(s.methods[i])))
  BY <1>1, ServerMatched
<1>6. ASSUME NEW x \in A, x.tok = "decl" PROVE \E y \in B : Pair(x, y)
  <2>1. CASE x = Open(s.name)
    BY <1>6, <2>1 DEF Open
  <2>2. CASE x = Decl("", GetServiceDescriptor, << >>)
    <3>1. Getter(s) \in B
      BY SourceInnerRange
    <3> QED BY <1>3, <2>2, <3>1
  <2>3. CASE \E f \in Range(StubMembers) : x = Declared("Stub", f)
    <3>1. PICK f \in Range(StubMembers) : x = Declared("Stub", f)
      BY <2>3
    <3>2. Defined("Stub", f) \in B
      BY SourceInnerRange
    <3> QED BY <1>2, <3>1, <3>2
  <2>4. CASE \E i \in D : x \in Range(PrintHeaderClientMethodPublic(s.methods[i]))
    <3>1. PICK i \in D : x \in Range(PrintHeaderClientMethodPublic(s.methods[i]))
      BY <2>4
    <3>2. PICK y \in Range(PrintSourceClientMethod(s.methods[i], i)) : Pair(x, y)
      BY <1>4, <1>6, <3>1 DEF Matched
    <3>3. y \in B
      BY <3>2, SourceInnerRange
    <3> QED BY <3>2, <3>3
  <2>5. CASE \E f \in Range(ServiceMembers) : x = Declared("Service", f)
    <3>1. PICK f \in Range(ServiceMembers) : x = Declared("Service", f)
      BY <2>5
    <3>2. Defined("Service", f) \in B
      BY SourceInnerRange
    <3> QED BY <1>2, <3>1, <3>2
  <2>6. CASE \E i \in D : x \in Range(PrintHeaderServiceMethod(s.methods[i]))
    <3>1. PICK i \in D : x \in Range(PrintHeaderServiceMethod(s.methods[i]))
      BY <2>6
    <3>2. PICK y \in Range(PrintSourceServerMethod(s.methods[i])) : Pair(x, y)
      BY <1>5, <1>6, <3>1 DEF Matched
    <3>3. y \in B
      BY <3>2, SourceInnerRange
    <3> QED BY <3>2, <3>3
  <2> QED BY <2>1, <2>2, <2>3, <2>4, <2>5, <2>6, HeaderInnerRange
<1>7. ASSUME NEW y \in B, y.tok = "def", y.class # "" PROVE \E x \in A : Pair(x, y)
  <2>1. CASE y = Open(s.name) \/ y = MethodNames(s) \/ y = PrintCallMethod(s)
    <3>1. Open(s.name).tok # "def" /\ MethodNames(s).tok # "def" /\ PrintCallMethod(s).tok # "def"
      BY DEF Open, MethodNames, PrintCallMethod
    <3> QED BY <1>7, <2>1, <3>1
  <2>2. CASE y = Getter(s)
    BY <1>7, <2>2 DEF Getter, Def
  <2>3. CASE \E f \in Range(StubMembers) : y = Defined("Stub", f)
    <3>1. PICK f \in Range(StubMembers) : y = Defined("Stub", f)
      BY <2>3
    <3>2. Declared("Stub", f) \in A
      BY HeaderInnerRange
    <3> QED BY <1>2, <3>1, <3>2
  <2>4. CASE \E i \in D : y \in Range(PrintSourceClientMethod(s.methods[i], i))
    <3>1. PICK i \in D : y \in Range(PrintSourceClientMethod(s.methods[i], i))
      BY <2>4
    <3>2. PICK x \in Range(PrintHeaderClientMethodPublic(s.methods[i])) : Pair(x, y)
      BY <1>4, <1>7, <3>1 DEF Matched
    <3>3. x \in A
      BY <3>1, <3>2, HeaderInnerRange
    <3> QED BY <3>2, <3>3
  <2>5. CASE \E f \in Range(ServiceMembers) : y = Defined("Service", f)
    <3>1. PICK f \in Range(ServiceMembers) : y = Defined("Service", f)
      BY <2>5
    <3>2. Declared("Service", f) \in A
      BY HeaderInnerRange
    <3> QED BY <1>2, <3>1, <3>2
  <2>6. CASE \E i \in D : y \in Range(PrintSourceServerMethod(s.methods[i]))
    <3>1. PICK i \in D : y \in Range(PrintSourceServerMethod(s.methods[i]))
      BY <2>6
    <3>2. PICK x \in Range(PrintHeaderServiceMethod(s.methods[i])) : Pair(x, y)
      BY <1>5, <1>7, <3>1 DEF Matched
    <3>3. x \in A
      BY <3>1, <3>2, HeaderInnerRange
    <3> QED BY <3>2, <3>3
  <2> QED BY <2>1, <2>2, <2>3, <2>4, <2>5, <2>6, SourceInnerRange
<1> HIDE DEF A, B
<1>8. Matched(A, B)
  BY <1>6, <1>7 DEF Matched
<1> QED BY <1>8 DEF A, B

LEMMA HeaderInnerTokens ==
  ASSUME NEW s \in ServiceDescriptor, NEW x \in Range(HeaderInner(s))
  PROVE  x.tok # "def"
<1>1. \A i \in DOMAIN s.methods : s.methods[i] \in MethodDescriptor
  BY ServiceFacts
<1>2. Open(s.name).tok # "def" /\ \A class, name, types : Decl(class, name, types).tok # "def"
  BY DEF Open, Decl
<1>3. \A class, f : Declared(class, f).tok # "def"
  BY <1>2 DEF Declared
<1>4. ASSUME NEW m \in MethodDescriptor, x \in Range(PrintHeaderClientMethodPublic(m)) PROVE x.tok # "def"
  <2> DEFINE p == <<"Sync_", m.name>>
             q == <<"Async_", m.name>>
             A == Range(PrintHeaderClientMethodPublic(m))
  <2>1. PICK t, u : \A z \in A : z.tok = "alias" \/ z = Decl("Stub", p, t) \/ z = Decl("Stub", q, u)
    BY ClientMethodTypes, Zenon
  <2> HIDE DEF p, q
  <2>2. x.tok = "alias" \/ x = Decl("Stub", p, t) \/ x = Decl("Stub", q, u)
    BY <1>4, <2>1
  <2> QED BY <1>2, <2>2
<1>5. ASSUME NEW m \in MethodDescriptor, x \in Range(PrintHeaderServiceMethod(m)) PROVE x.tok # "def"
  <2> DEFINE n == <<"", m.name>>
             y == Decl("Service", n, Handler(m))
             z == Decl("Service", n, Entry(m))
             d == <<y, z>>
  <2>1. PICK a : PrintHeaderServiceMethod(m) = a \o d /\ IsSeq(a) /\ \A k \in Range(a) : k.tok = "alias"
    BY ServerTexts, Zenon
  <2>2. y.tok # "def" /\ z.tok # "def"
    BY <1>2
  <2> HIDE DEF n, y, z
  <2>3. IsSeq(d) /\ Range(d) = {y, z}
    BY TwoFacts, TwoRange
  <2> HIDE DEF d
  <2>4. x \in Range(a) \cup {y, z}
    BY <1>5, <2>1, <2>3, ConcatRange
  <2> QED BY <2>1, <2>2, <2>4
<1>6. \/ x = Open(s.name) \/ x = Decl("", GetServiceDescriptor, << >>)
      \/ \E f \in Range(StubMembers) : x = Declared("Stub", f)
      \/ \E i \in DOMAIN s.methods : x \in Range(PrintHeaderClientMethodPublic(s.methods[i]))
      \/ \E f \in Range(ServiceMembers) : x = Declared("Service", f)
      \/ \E i \in DOMAIN s.methods : x \in Range(PrintHeaderServiceMethod(s.methods[i]))
  BY HeaderInnerRange
<1> QED BY <1>1, <1>2, <1>3, <1>4, <1>5, <1>6

LEMMA SourceInnerNoDecl ==
  ASSUME NEW s \in ServiceDescriptor, NEW x \in Range(SourceInner(s))
  PROVE  x.tok # "decl"
<1>1. \A i \in DOMAIN s.methods : s.methods[i] \in MethodDescriptor
  BY ServiceFacts
<1>2. Open(s.name).tok # "decl" /\ MethodNames(s).tok # "decl" /\ PrintCallMethod(s).tok # "decl"
  BY DEF Open, MethodNames, PrintCallMethod
<1>3. Getter(s).tok # "decl" /\ \A class, f : Defined(class, f).tok # "decl"
  BY DEF Getter, Defined, Def
<1>4. ASSUME NEW i \in DOMAIN s.methods, x \in Range(PrintSourceClientMethod(s.methods[i], i)) PROVE x.tok # "decl"
  <2>1. x.tok = "def"
    BY <1>1, <1>4, ClientMethodRange
  <2> QED BY <2>1
<1>5. ASSUME NEW i \in DOMAIN s.methods, x \in Range(PrintSourceServerMethod(s.methods[i])) PROVE x.tok # "decl"
  <2>1. x.tok = "def"
    BY <1>1, <1>5, ServerMethodRange
  <2> QED BY <2>1
<1>6. \/ x = Open(s.name) \/ x = MethodNames(s) \/ x = Getter(s)
      \/ \E f \in Range(StubMembers) : x = Defined("Stub", f)
      \/ \E i \in DOMAIN s.methods : x \in Range(PrintSourceClientMethod(s.methods[i], i))
      \/ \E f \in Range(ServiceMembers) : x = Defined("Service", f)
      \/ x = PrintCallMethod(s)
      \/ \E i \in DOMAIN s.methods : x \in Range(PrintSourceServerMethod(s.methods[i]))
  BY SourceInnerRange
<1> QED BY <1>2, <1>3, <1>4, <1>5, <1>6

\* A declaration of the header and a definition of the source as they are read.
Linked(x, y) == x[1] = y[1] /\ Pair(x[2], y[2])

LEMMA BlocksMatched ==
  ASSUME file \in Files, WriterNamed
  PROVE  /\ \A x \in Range(FlattenSeq(HeaderBlocks)) :
              /\ x[2].tok # "def"
              /\ x[2].tok = "decl" => \E y \in Range(FlattenSeq(SourceBlocks)) : Linked(x, y)
         /\ \A y \in Range(FlattenSeq(SourceBlocks)) :
              /\ y[2].tok # "decl"
              /\ y[2].tok = "def" /\ y[2].class # ""
                   => \E x \in Range(FlattenSeq(HeaderBlocks)) : Linked(x, y)
<1> DEFINE H == Range(FlattenSeq(HeaderBlocks))
           S == Range(FlattenSeq(SourceBlocks))
           D == DOMAIN file.services
           s(j) == file.services[j]
           v(j) == Append(file.package, s(j).name)
           c == <<file.package, Close>>
           A(j) == Range(HeaderInner(s(j)))
           B(j) == Range(SourceInner(s(j)))
<1>1. \A j \in D : s(j) \in ServiceDescriptor
  BY FileFacts
<1>2. \A j \in D : Matched(A(j), B(j))
  BY <1>1, InnerMatched DEF WriterNamed, Range
<1>3. \A j \in D : Range(HeaderBlocks[j]) = { <<v(j), x>> : x \in A(j) } \cup {c}
  BY <1>1, InnerSeqs, BlockFacts DEF HeaderBlocks
<1>4. \A j \in D : Range(SourceBlocks[j]) = { <<v(j), x>> : x \in B(j) } \cup {c}
  BY <1>1, InnerSeqs, BlockFacts DEF SourceBlocks
<1>5. /\ H = UNION { Range(HeaderBlocks[j]) : j \in D }
      /\ S = UNION { Range(SourceBlocks[j]) : j \in D }
  BY BlocksFacts, FlattenRange
<1>6. c[2].tok = "close"
  BY DEF Close
<1>7. \A j \in D : (\A x \in A(j) : x.tok # "def") /\ \A y \in B(j) : y.tok # "decl"
  BY <1>1, HeaderInnerTokens, SourceInnerNoDecl
<1> HIDE DEF H, S, D, s, v, c, A, B
<1>8. ASSUME NEW j \in D, NEW x \in A(j), x.tok = "decl"
      PROVE  \E y \in S : Linked(<<v(j), x>>, y)
  <2>1. PICK y \in B(j) : Pair(x, y)
    BY <1>2, <1>8 DEF Matched
  <2>2. <<v(j), y>> \in S
    BY <1>4, <1>5
  <2>3. Linked(<<v(j), x>>, <<v(j), y>>)
    BY <2>1 DEF Linked
  <2> QED BY <2>2, <2>3
<1>9. ASSUME NEW j \in D, NEW y \in B(j), y.tok = "def", y.class # ""
      PROVE  \E x \in H : Linked(x, <<v(j), y>>)
  <2>1. PICK x \in A(j) : Pair(x, y)
    BY <1>2, <1>9 DEF Matched
  <2>2. <<v(j), x>> \in H
    BY <1>3, <1>5
  <2>3. Linked(<<v(j), x>>, <<v(j), y>>)
    BY <2>1 DEF Linked
  <2> QED BY <2>2, <2>3
<1>10. ASSUME NEW x \in H
       PROVE  x[2].tok # "def" /\ (x[2].tok = "decl" => \E y \in S : Linked(x, y))
  <2>1. PICK j \in D : x \in Range(HeaderBlocks[j])
    BY <1>5
  <2>2. CASE x = c
    BY <1>6, <2>2
  <2>3. CASE x # c
    <3>1. PICK z \in A(j) : x = <<v(j), z>>
      BY <1>3, <2>1, <2>3
    <3>2. x[2] = z
      BY <3>1
    <3>3. z.tok = "decl" => \E y \in S : Linked(x, y)
      BY <1>8, <3>1
    <3> QED BY <1>7, <3>2, <3>3
  <2> QED BY <2>2, <2>3
<1>11. ASSUME NEW y \in S
       PROVE  y[2].tok # "decl" /\ (y[2].tok = "def" /\ y[2].class # "" => \E x \in H : Linked(x, y))
  <2>1. PICK j \in D : y \in Range(SourceBlocks[j])
    BY <1>5
  <2>2. CASE y = c
    BY <1>6, <2>2
  <2>3. CASE y # c
    <3>1. PICK z \in B(j) : y = <<v(j), z>>
      BY <1>4, <2>1, <2>3
    <3>2. y[2] = z
      BY <3>1
    <3>3. z.tok = "def" /\ z.class # "" => \E x \in H : Linked(x, y)
      BY <1>9, <3>1
    <3> QED BY <1>7, <3>2, <3>3
  <2> QED BY <2>2, <2>3
<1> QED BY <1>10, <1>11 DEF H, S

-----------------------------------------------------------------------------
(***************************************************************************)
(* The definitions of the whole unit.                                      *)
(***************************************************************************)

\* A piece that defines nothing may stand before or after another one.
LEMMA SingleBeside ==
  ASSUME NEW p, IsSeq(p), NEW q, IsSeq(q), Single(p), \A x \in Range(q) : x[2].tok # "def"
  PROVE  /\ Single(p \o q) /\ IsSeq(p \o q) /\ Range(p \o q) = Range(p) \cup Range(q)
         /\ Single(q \o p) /\ IsSeq(q \o p) /\ Range(q \o p) = Range(q) \cup Range(p)
<1>1. Single(q) /\ Apart(p, q) /\ Apart(q, p)
  BY SingleNone
<1>2. Single(p \o q) /\ Single(q \o p)
  BY <1>1, SingleConcat
<1> QED BY <1>2, ConcatIsSeq, ConcatRange

LEMMA BareNoDef ==
  ASSUME NEW q, Bare(q), NEW x \in Range(q)
  PROVE  x[2].tok # "def" /\ x[2].tok # "decl"
<1>1. x[2].tok \in {"open", "close"}
  BY DEF Bare, Quiet
<1> QED BY <1>1

LEMMA BlockSingle ==
  ASSUME NEW v, NEW w, NEW b, IsSeq(b), Single(At(v, b))
  PROVE  Single(Block(v, w, b))
<1> DEFINE p == At(v, b)
           c == <<w, Close>>
           q == <<c>>
<1>1. IsSeq(p) /\ IsSeq(q) /\ Range(q) = {c}
  BY AtFacts, OneFacts
<1>2. c[2].tok # "def"
  BY DEF Close
<1>3. Block(v, w, b) = p \o q
  BY DEF Block
<1> HIDE DEF c, q
<1>4. Single(p)
  OBVIOUS
<1> HIDE DEF p
<1>5. \A x \in Range(q) : x[2].tok # "def"
  BY <1>1, <1>2
<1>6. Single(p \o q)
  BY <1>1, <1>4, <1>5, SingleBeside
<1> QED BY <1>3, <1>6

\* What is defined in different namespaces is not defined again.
DefinedIn(q, v) == \A x \in Range(q) : x[2].tok = "def" => x[1] = v

LEMMA ElsewhereApart ==
  ASSUME NEW p, NEW q, NEW v, NEW w, v # w, DefinedIn(p, v), DefinedIn(q, w)
  PROVE  Apart(p, q)
BY DEF Apart, Again, DefinedIn

LEMMA BlockDefsThere ==
  ASSUME NEW v, NEW w, NEW b, IsSeq(b), NEW x \in Range(Block(v, w, b)), x[2].tok = "def"
  PROVE  x[1] = v
<1> DEFINE c == <<w, Close>>
<1>1. c[2].tok # "def"
  BY DEF Close
<1>2. Range(Block(v, w, b)) = { <<v, y>> : y \in Range(b) } \cup {c}
  BY BlockFacts
<1> HIDE DEF c
<1>3. PICK y \in Range(b) : x = <<v, y>>
  BY <1>1, <1>2
<1> QED BY <1>3

LEMMA SourceBlocksSingle ==
  ASSUME file \in Files, WriterNamed
  PROVE  /\ Single(FlattenSeq(SourceBlocks))
         /\ Apart(DescriptorsBlock, FlattenSeq(SourceBlocks))
<1> DEFINE D == DOMAIN file.services
           s(j) == file.services[j]
           v(j) == Append(file.package, s(j).name)
           w == Append(file.package, "")
           B(j) == SourceInner(s(j))
<1>1. \A j \in D : s(j) \in ServiceDescriptor /\ IsSeq(B(j))
  BY FileFacts, InnerSeqs
<1>2. \A j \in D : SourceBlocks[j] = Block(v(j), file.package, B(j))
  BY DEF SourceBlocks
<1>3. ASSUME NEW j \in D PROVE Single(At(v(j), B(j)))
  <2>1. \A i \in DOMAIN s(j).methods : OwnWriter(s(j).methods[i])
    BY DEF WriterNamed, Range
  <2>2. \A k, l \in DOMAIN s(j).methods : s(j).methods[k].name = s(j).methods[l].name => k = l
    BY NamesOfFile
  <2>3. PICK t \in ServiceDescriptor : t = s(j)
    BY <1>1
  <2>4. \A u : Single(At(u, SourceInner(t)))
    <3>1. /\ \A i \in DOMAIN t.methods : OwnWriter(t.methods[i])
          /\ \A k, l \in DOMAIN t.methods : t.methods[k].name = t.methods[l].name => k = l
      BY <2>1, <2>2, <2>3
    <3> QED BY <3>1, SourceInnerSingle
  <2> QED BY <2>3, <2>4
<1>4. \A i, j \in D : i # j => v(i) # v(j)
  <2>1. \A i, j \in D : s(i).name = s(j).name => i = j
    BY NamesOfFile
  <2> QED BY <2>1, FileFacts, AppendDistinct
<1>5. \A j \in D : v(j) # w
  <2>1. \A j \in D : s(j).name # ""
    BY NamesOfFile
  <2> QED BY <2>1, FileFacts, AppendDistinct
<1>6. Parts(SourceBlocks) /\ D = 1 .. Len(SourceBlocks)
  BY BlocksFacts
<1>7. DescriptorsBlock = Block(w, file.package, DescriptorsInner) /\ IsSeq(DescriptorsInner)
  BY DescriptorsRange DEF DescriptorsBlock
<1> HIDE DEF D, s, v, w, B
<1>8. \A j \in D : Single(SourceBlocks[j])
  BY <1>1, <1>2, <1>3, BlockSingle
<1>9. \A j \in D : DefinedIn(SourceBlocks[j], v(j))
  BY <1>1, <1>2, BlockDefsThere DEF DefinedIn
<1>10. DefinedIn(DescriptorsBlock, w)
  BY <1>7, BlockDefsThere DEF DefinedIn
<1>11. ASSUME NEW i \in D, NEW j \in D, i # j PROVE Apart(SourceBlocks[i], SourceBlocks[j])
  <2>1. PICK p, q, x, y : p = SourceBlocks[i] /\ q = SourceBlocks[j] /\ x = v(i) /\ y = v(j)
    OBVIOUS
  <2>2. x # y /\ DefinedIn(p, x) /\ DefinedIn(q, y)
    BY <1>4, <1>9, <1>11, <2>1
  <2>3. Apart(p, q)
    BY <2>2, ElsewhereApart
  <2> QED BY <2>1, <2>3
<1>12. Single(FlattenSeq(SourceBlocks))
  BY <1>6, <1>8, <1>11, SingleFlatten
<1>13. Apart(DescriptorsBlock, FlattenSeq(SourceBlocks))
  <2>1. Range(FlattenSeq(SourceBlocks)) = UNION { Range(SourceBlocks[j]) : j \in D }
    BY <1>6, FlattenRange
  <2>2. ASSUME NEW j \in D PROVE Apart(DescriptorsBlock, SourceBlocks[j])
    <3>1. PICK p, q, x, y : p = DescriptorsBlock /\ q = SourceBlocks[j] /\ x = w /\ y = v(j)
      OBVIOUS
    <3>2. x # y /\ DefinedIn(p, x) /\ DefinedIn(q, y)
      BY <1>5, <1>9, <1>10, <3>1
    <3>3. Apart(p, q)
      BY <3>2, ElsewhereApart
    <3> QED BY <3>1, <3>3
  <2> QED BY <2>1, <2>2 DEF Apart
<1> QED BY <1>12, <1>13

LEMMA DescriptorsSingle ==
  ASSUME file \in Files
  PROVE  /\ IsSeq(DescriptorsBlock) /\ Single(DescriptorsBlock)
         /\ \A x \in Range(DescriptorsBlock) :
              x[2].tok # "decl" /\ (x[2].tok = "def" => x[2].class = "")
<1> DEFINE o == << Open("") >>
           a == Pointers
           b == <<Assign, Once>>
           w == Append(file.package, "")
           u == file.package
<1>1. IsSeq(o) /\ Range(o) = {Open("")} /\ IsSeq(a) /\ IsSeq(b) /\ Range(b) = {Assign, Once}
  BY OneFacts, TwoFacts, TwoRange, PointersFacts DEF Flat
<1>2. Open("").tok = "open" /\ Assign.tok = "assign" /\ Once.tok = "def" /\ Once.class = ""
  BY DEF Open, Assign, Once, Def
<1>3. \A x \in Range(a) : x.tok = "var"
  BY PointersFacts DEF Var
<1>4. DescriptorsInner = (o \o a) \o b
  BY DEF DescriptorsInner
<1>5. ~ Same(Assign, Once) \/ Assign.tok # "def"
  BY <1>2
<1>6. Single(At(w, b))
  <2>1. Single(At(w, <<Assign>>)) /\ Single(At(w, <<Once>>))
    BY SingleAtOne
  <2>2. IsSeq(<<Assign>>) /\ Range(<<Assign>>) = {Assign} /\ IsSeq(<<Once>>) /\ Range(<<Once>>) = {Once}
    BY OneFacts
  <2>3. <<Assign>> \o <<Once>> = b
    BY TwoFacts
  <2> DEFINE p == <<Assign>>
             q == <<Once>>
  <2> HIDE DEF p, q, b, w
  <2>4. \A x \in Range(p) : x.tok # "def"
    BY <1>2, <2>2 DEF p
  <2>5. Single(At(w, p \o q))
    BY <2>1, <2>2, <2>4, SingleJoin DEF p, q
  <2> QED BY <2>3, <2>5 DEF p, q
<1> HIDE DEF o, a, b
<1>7. IsSeq(o \o a) /\ Range(o \o a) = Range(o) \cup Range(a)
  BY <1>1, ConcatIsSeq, ConcatRange
<1>8. \A x \in Range(o \o a) : x.tok # "def" /\ x.tok # "decl"
  BY <1>1, <1>2, <1>3, <1>7
<1>9. Single(At(w, (o \o a) \o b)) /\ IsSeq((o \o a) \o b) /\ Range((o \o a) \o b) = Range(o \o a) \cup Range(b)
  <2> DEFINE p == o \o a
  <2>1. IsSeq(p) /\ \A x \in Range(p) : x.tok # "def"
    BY <1>7, <1>8
  <2> HIDE DEF p, w
  <2>2. Single(At(w, p))
    BY <2>1, SingleAtNone
  <2>3. PICK v, q : v = w /\ q = b
    OBVIOUS
  <2>4. IsSeq(p) /\ IsSeq(q) /\ Single(At(v, p)) /\ Single(At(v, q))
    BY <1>1, <1>6, <2>1, <2>2, <2>3
  <2>5. PICK r : r = p
    OBVIOUS
  <2>6. \A x \in Range(r), y \in Range(q) : x.tok = "def" /\ y.tok = "def" => ~ Same(x, y)
    BY <2>1, <2>5
  <2>7. Single(At(v, r \o q)) /\ IsSeq(r \o q) /\ Range(r \o q) = Range(r) \cup Range(q)
    BY <2>4, <2>5, <2>6, SingleJoin
  <2> QED BY <2>3, <2>5, <2>7 DEF p
<1>10. \A x \in Range(DescriptorsInner) : x.tok # "decl" /\ (x.tok = "def" => x.class = "")
  BY <1>1, <1>2, <1>4, <1>8, <1>9
<1> DEFINE c == <<u, Close>>
<1>11. c[2].tok = "close"
  BY DEF Close
<1> HIDE DEF w, u
<1>12. Single(Block(w, u, DescriptorsInner)) /\ IsSeq(Block(w, u, DescriptorsInner))
  BY <1>4, <1>9, BlockSingle, BlockFacts
<1>13. Range(Block(w, u, DescriptorsInner)) = { <<w, x>> : x \in Range(DescriptorsInner) } \cup {c}
  BY <1>4, <1>9, BlockFacts
<1>14. DescriptorsBlock = Block(w, u, DescriptorsInner)
  BY DEF DescriptorsBlock, w, u
<1> HIDE DEF c
<1>15. \A x \in Range(DescriptorsBlock) : x[2].tok # "decl" /\ (x[2].tok = "def" => x[2].class = "")
  <2> SUFFICES ASSUME NEW x \in Range(DescriptorsBlock) PROVE x[2].tok # "decl" /\ (x[2].tok = "def" => x[2].class = "")
    OBVIOUS
  <2>1. CASE x = c
    BY <1>11, <2>1
  <2>2. CASE x # c
    <3>1. PICK y \in Range(DescriptorsInner) : x = <<w, y>>
      BY <1>13, <1>14, <2>2
    <3> QED BY <1>10, <3>1
  <2> QED BY <2>1, <2>2
<1> QED BY <1>12, <1>14, <1>15

\* Every declaration is defined, and every member that is defined was declared.
Answered(q) ==
  /\ \A x \in Range(q) : x[2].tok = "decl" => \E y \in Range(q) : Linked(x, y)
  /\ \A y \in Range(q) : y[2].tok = "def" /\ y[2].class # "" => \E x \in Range(q) : Linked(x, y)

LEMMA UnitAnswered ==
  ASSUME file \in Files, ~ file.lite, services_namespace = "", WriterNamed
  PROVE  \E q : Reads(Header \o Source, << >>, << >>, q) /\ Single(q) /\ Answered(q)
<1>1. PICK a, b, c, d :
        /\ Bare(a) /\ Bare(b) /\ Bare(c) /\ Bare(d)
        /\ Reads(Header \o Source, << >>, << >>,
                 (((At(<< >>, GetHeaderPrologue) \o a) \o FlattenSeq(HeaderBlocks)) \o b)
                 \o (((c \o DescriptorsBlock) \o FlattenSeq(SourceBlocks)) \o d))
  BY UnitReads
<1> DEFINE o == At(<< >>, GetHeaderPrologue)
           h == FlattenSeq(HeaderBlocks)
           e == DescriptorsBlock
           s == FlattenSeq(SourceBlocks)
<1>2. IsSeq(a) /\ IsSeq(b) /\ IsSeq(c) /\ IsSeq(d)
  BY <1>1 DEF Bare
<1>3. /\ \A x \in Range(a) : x[2].tok # "def" /\ x[2].tok # "decl"
      /\ \A x \in Range(b) : x[2].tok # "def" /\ x[2].tok # "decl"
      /\ \A x \in Range(c) : x[2].tok # "def" /\ x[2].tok # "decl"
      /\ \A x \in Range(d) : x[2].tok # "def" /\ x[2].tok # "decl"
  BY <1>1, BareNoDef
<1>4. IsSeq(o) /\ \A x \in Range(o) : x[2].tok # "def" /\ x[2].tok # "decl"
  <2> DEFINE g == Guard(FilenameIdentifier(file.name))
             p == <<g>>
             v == << >>
  <2>1. g.tok = "guard"
    BY DEF Guard
  <2>2. IsSeq(p) /\ Range(p) = {g}
    BY OneFacts
  <2>3. o = At(v, p)
    BY DEF GetHeaderPrologue
  <2> HIDE DEF g, p, v
  <2>4. IsSeq(At(v, p)) /\ Range(At(v, p)) = { <<v, x>> : x \in Range(p) }
    BY <2>2, AtFacts
  <2>5. ASSUME NEW x \in Range(At(v, p)) PROVE x[2] = g
    <3>1. PICK y \in Range(p) : x = <<v, y>>
      BY <2>4
    <3>2. y = g
      BY <2>2
    <3>3. PICK k : k = v
      OBVIOUS
    <3>4. x = <<k, y>>
      BY <3>1, <3>3
    <3> QED BY <3>2, <3>4
  <2> QED BY <2>1, <2>3, <2>4, <2>5
<1>5. IsSeq(h) /\ IsSeq(s)
  BY BlocksFacts, FlattenIsSeq
<1>6. IsSeq(e) /\ Single(e) /\ \A x \in Range(e) : x[2].tok # "decl" /\ (x[2].tok = "def" => x[2].class = "")
  BY DescriptorsSingle
<1>7. Single(s) /\ Apart(e, s)
  BY SourceBlocksSingle
<1>8. \A x \in Range(h) : /\ x[2].tok # "def"
                          /\ x[2].tok = "decl" => \E y \in Range(s) : Linked(x, y)
  BY BlocksMatched
<1>9. \A y \in Range(s) : /\ y[2].tok # "decl"
                          /\ y[2].tok = "def" /\ y[2].class # "" => \E x \in Range(h) : Linked(x, y)
  BY BlocksMatched
<1> HIDE DEF o, h, e, s
<1> DEFINE H == ((o \o a) \o h) \o b
           S == (((c \o e) \o s) \o d)
<1>10. IsSeq(o \o a) /\ Range(o \o a) = Range(o) \cup Range(a)
  BY <1>2, <1>4, ConcatIsSeq, ConcatRange
<1>11. IsSeq((o \o a) \o h) /\ Range((o \o a) \o h) = Range(o \o a) \cup Range(h)
  BY <1>5, <1>10, ConcatIsSeq, ConcatRange
<1>12. IsSeq(H) /\ Range(H) = (Range(o \o a) \cup Range(h)) \cup Range(b)
  BY <1>2, <1>11, ConcatIsSeq, ConcatRange
<1>13. \A x \in Range(c) : x[2].tok # "def"
  BY <1>3
<1>14. IsSeq(c \o e) /\ Single(c \o e) /\ Range(c \o e) = Range(c) \cup Range(e)
  BY <1>2, <1>6, <1>13, SingleBeside
<1>15. Apart(c \o e, s)
  <2>1. \A x, y : x[2].tok # "def" => ~ Again(x, y)
    BY DEF Again
  <2> QED BY <1>7, <1>13, <1>14, <2>1 DEF Apart
<1>16. /\ Single((c \o e) \o s) /\ IsSeq((c \o e) \o s)
       /\ Range((c \o e) \o s) = Range(c \o e) \cup Range(s)
  BY <1>5, <1>7, <1>14, <1>15, SingleConcat, ConcatIsSeq, ConcatRange
<1>17. \A x \in Range(d) : x[2].tok # "def"
  BY <1>3
<1>18. IsSeq(S) /\ Single(S) /\ Range(S) = (Range(c \o e) \cup Range(s)) \cup Range(d)
  <2> DEFINE r == (c \o e) \o s
  <2>1. IsSeq(r) /\ Single(r) /\ Range(r) = Range(c \o e) \cup Range(s)
    BY <1>16
  <2> HIDE DEF r
  <2>2. IsSeq(r \o d) /\ Single(r \o d) /\ Range(r \o d) = Range(r) \cup Range(d)
    BY <1>2, <1>17, <2>1, SingleBeside
  <2> QED BY <2>1, <2>2 DEF r
<1> HIDE DEF H, S
<1>19. \A x \in Range(H) : x[2].tok # "def" /\ (x[2].tok = "decl" => x \in Range(h))
  BY <1>3, <1>4, <1>8, <1>10, <1>12
<1>20. \A x \in Range(S) : x[2].tok # "decl" /\ (x[2].tok = "def" /\ x[2].class # "" => x \in Range(s))
  BY <1>3, <1>6, <1>9, <1>14, <1>18
<1>21. Range(h) \subseteq Range(H) /\ Range(s) \subseteq Range(S)
  BY <1>12, <1>18
<1>22. \A x \in Range(H) : x[2].tok # "def"
  BY <1>19
<1>23. Single(H \o S) /\ Range(H \o S) = Range(H) \cup Range(S)
  BY <1>12, <1>18, <1>22, SingleBeside
<1>24. Answered(H \o S)
  <2>1. ASSUME NEW x \in Range(H \o S), x[2].tok = "decl" PROVE \E y \in Range(H \o S) : Linked(x, y)
    <3>1. x \in Range(h)
      BY <1>19, <1>20, <1>23, <2>1
    <3> QED BY <1>8, <1>21, <1>23, <2>1, <3>1
  <2>2. ASSUME NEW y \in Range(H \o S), y[2].tok = "def", y[2].class # ""
        PROVE  \E x \in Range(H \o S) : Linked(x, y)
    <3>1. y \in Range(s)
      BY <1>19, <1>20, <1>23, <2>2
    <3> QED BY <1>9, <1>21, <1>23, <2>2, <3>1
  <2> QED BY <2>1, <2>2 DEF Answered
<1>25. Reads(Header \o Source, << >>, << >>, H \o S)
  BY <1>1 DEF H, S, o, h, e, s
<1> QED BY <1>23, <1>24, <1>25

\* What Implemented says of a unit.
ImplementedIn(unit) ==
  LET scope == Scopes(unit)
      Place(n) == PlaceOf(scope[n], unit[n])
      Tokens(tok) == { n \in DOMAIN unit : unit[n].tok = tok }
      members == { n \in Tokens("def") : unit[n].class # "" }
  IN  /\ \A n \in Tokens("decl") :
           Cardinality({ d \in Tokens("def") : Place(d) = Place(n) }) = 1
      /\ \A d \in members : \E n \in Tokens("decl") : Place(d) = Place(n)

LEMMA ImplementedOfAnswered ==
  ASSUME NEW t, NEW q, Reads(Unit, << >>, t, q), Single(q), Answered(q)
  PROVE  Implemented
<1>1. PICK unit : unit = Unit
  OBVIOUS
<1> DEFINE scope == Scopes(unit)
           D == DOMAIN unit
           Place(n) == PlaceOf(scope[n], unit[n])
           Tokens(tok) == { n \in D : unit[n].tok = tok }
<1>2. /\ D = 1 .. Len(unit) /\ Len(q) = Len(unit) /\ IsSeq(q)
      /\ \A k \in D : q[k] = <<scope[k], unit[k]>>
  BY <1>1, ReadsScopes
<1>3. \A k \in D : q[k][1] = scope[k] /\ q[k][2] = unit[k]
  <2> HIDE DEF scope, D
  <2> QED BY <1>2
<1>4. \A x \in Range(q) : \E k \in D : x = q[k]
  BY <1>2, SeqFacts
<1>5. \A k \in D : q[k] \in Range(q)
  BY <1>2, SeqFacts
<1>6. \A k, l \in D : Place(k) = Place(l) <=> q[k][1] = q[l][1] /\ Same(q[k][2], q[l][2])
  BY <1>3, PlaceSame
<1> HIDE DEF scope, Place, D
<1>7. \A k, l \in D : Again(q[k], q[l]) => k = l
  BY <1>2 DEF Single
<1>8. \A n, d \in D : Linked(q[n], q[d]) <=> n \in Tokens("decl") /\ d \in Tokens("def") /\ Place(d) = Place(n)
  BY <1>3, <1>6 DEF Linked, Pair, Same
<1>9. ASSUME NEW n \in Tokens("decl")
      PROVE  Cardinality({ d \in Tokens("def") : Place(d) = Place(n) }) = 1
  <2>1. PICK y \in Range(q) : Linked(q[n], y)
    BY <1>3, <1>5 DEF Answered
  <2>2. PICK d \in D : y = q[d]
    BY <1>4
  <2>3. d \in Tokens("def") /\ Place(d) = Place(n)
    BY <1>8, <2>1, <2>2
  <2>4. ASSUME NEW k \in Tokens("def"), Place(k) = Place(n) PROVE k = d
    <3>1. Again(q[k], q[d])
      BY <1>3, <1>6, <2>3, <2>4 DEF Again
    <3> QED BY <1>7, <3>1
  <2>5. { k \in Tokens("def") : Place(k) = Place(n) } = {d}
    BY <2>3, <2>4
  <2> QED BY <2>5, FS_Singleton
<1> DEFINE members == { n \in Tokens("def") : unit[n].class # "" }
<1>10. ASSUME NEW d \in members PROVE \E n \in Tokens("decl") : Place(d) = Place(n)
  <2>1. PICK x \in Range(q) : Linked(x, q[d])
    BY <1>3, <1>5 DEF Answered
  <2>2. PICK n \in D : x = q[n]
    BY <1>4
  <2> QED BY <1>8, <2>1, <2>2
<1>11. ImplementedIn(unit)
  <2> SUFFICES /\ \A n \in Tokens("decl") : Cardinality({ d \in Tokens("def") : Place(d) = Place(n) }) = 1
               /\ \A d \in members : \E n \in Tokens("decl") : Place(d) = Place(n)
    BY DEF ImplementedIn, scope, Place, D
  <2> QED BY <1>9, <1>10
<1>12. ImplementedIn(Unit)
  BY <1>1, <1>11
<1> QED BY <1>12 DEF Implemented, ImplementedIn

\* Every function that the header declares is defined once in the source, in the
\* same namespaces, with the same types, and every member that is defined there
\* was declared, under the same conditions.
THEOREM MembersImplemented ==
  Spec => [](~ file.lite /\ services_namespace = "" /\ WriterNamed => Implemented)
<1>1. IInv => (~ file.lite /\ services_namespace = "" /\ WriterNamed => Implemented)
  <2> SUFFICES ASSUME IInv, ~ file.lite, services_namespace = "", WriterNamed PROVE Implemented
    OBVIOUS
  <2>1. CASE result = "done"
    <3>1. file \in Files /\ source = Source /\ header = Header
      BY <2>1 DEF IInv, Written
    <3>2. PICK q : Reads(Header \o Source, << >>, << >>, q) /\ Single(q) /\ Answered(q)
      BY <3>1, UnitAnswered
    <3>3. Unit = Header \o Source
      BY <3>1 DEF Unit
    <3> QED BY <3>2, <3>3, ImplementedOfAnswered
  <2>2. CASE result # "done"
    BY <2>2 DEF Implemented
  <2> QED BY <2>1, <2>2
<1> QED BY <1>1, Invariance, PTL
=============================================================================
