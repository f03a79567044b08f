---------------------------- MODULE DbParser_proofs ----------------------------
(***************************************************************************)
(* The parser of the feature database loads just the texts of the form, as *)
(* the features that they say, and looks at no character after their end:  *)
(* for files of any length, any number of features, and numbers and names  *)
(* of any kind.                                                            *)
(***************************************************************************)
EXTENDS DbParser, SequenceTheorems, WellFoundedInduction, TLAPS

-----------------------------------------------------------------------------
(***************************************************************************)
(* Induction over the naturals, said of sets.                              *)
(***************************************************************************)
LEMMA Least ==
  ASSUME NEW T \in SUBSET Nat, T # {}
  PROVE  \E n \in T : \A m \in T : n <= m
<1>1. IsWellFoundedOn(OpToRel(<, Nat), Nat)
  BY NatLessThanWellFounded
<1>2. PICK n \in T : \A y \in T : ~ (<<y, n>> \in OpToRel(<, Nat))
  BY <1>1, WFMin
<1>3. \A y \in T : ~ (y < n)
  BY <1>2 DEF OpToRel
<1> QED BY <1>3

LEMMA NatInd ==
  ASSUME NEW S, 0 \in S, \A n \in Nat : n \in S => n + 1 \in S
  PROVE  Nat \subseteq S
<1> SUFFICES ASSUME NEW x \in Nat, x \notin S PROVE FALSE
  OBVIOUS
<1> DEFINE T == Nat \ S
<1>1. PICK n \in T : \A m \in T : n <= m
  BY Least
<1>2. n # 0 /\ n - 1 \in Nat /\ n - 1 \in S
  BY <1>1
<1> QED BY <1>1, <1>2

\* g holds the first m values of a recursion.
Upto(V, base, step, m, g) ==
  g \in [0 .. m -> V] /\ g[0] = base /\ \A i \in 1 .. m : g[i] = step[i, g[i - 1]]

LEMMA Longer ==
  ASSUME NEW V, NEW base \in V, NEW n \in Nat, NEW step \in [(1 .. n) \X V -> V],
         NEW m \in Nat, m + 1 <= n, NEW g, Upto(V, base, step, m, g)
  PROVE  \E h : Upto(V, base, step, m + 1, h)
<1>1. g \in [0 .. m -> V] /\ g[0] = base /\ \A i \in 1 .. m : g[i] = step[i, g[i - 1]]
  BY DEF Upto
<1>2. m + 1 \in 1 .. n /\ m \in 0 .. m
  OBVIOUS
<1>2a. g[m] \in V
  BY <1>1, <1>2
<1> DEFINE last == step[m + 1, g[m]]
<1>3. last \in V
  <2>1. <<m + 1, g[m]>> \in (1 .. n) \X V
    BY <1>2, <1>2a
  <2> QED BY <2>1
<1> HIDE DEF last
<1> DEFINE next == [k \in 0 .. m + 1 |-> IF k = m + 1 THEN last ELSE g[k]]
<1>4. \A k \in 0 .. m + 1 : k # m + 1 => g[k] \in V
  <2>1. \A k \in 0 .. m + 1 : k # m + 1 => k \in 0 .. m
    OBVIOUS
  <2> QED BY <1>1, <2>1
<1>5. next \in [0 .. m + 1 -> V]
  BY <1>3, <1>4
<1>6. next[m + 1] = last /\ \A k \in 0 .. m : next[k] = g[k]
  OBVIOUS
<1> HIDE DEF next
<1>7. ASSUME NEW i \in 1 .. m + 1 PROVE next[i] = step[i, next[i - 1]]
  <2>1. CASE i = m + 1
    <3>1. i - 1 = m /\ next[m] = g[m] /\ next[i] = last
      BY <1>2, <1>6, <2>1
    <3> QED BY <2>1, <3>1 DEF last
  <2>2. CASE i # m + 1
    <3>1. i \in 1 .. m /\ i \in 0 .. m /\ i - 1 \in 0 .. m
      BY <2>2
    <3> QED BY <1>1, <1>6, <3>1
  <2> QED BY <2>1, <2>2
<1>8. next[0] = base
  <2>1. 0 \in 0 .. m
    OBVIOUS
  <2> QED BY <1>1, <1>6, <2>1
<1> QED BY <1>5, <1>7, <1>8 DEF Upto

\* A function defined by recursion over the places of a sequence exists.
LEMMA RecursionExists ==
  ASSUME NEW V, NEW base \in V, NEW n \in Nat, NEW step \in [(1 .. n) \X V -> V]
  PROVE  \E g : Upto(V, base, step, n, g)
<1> DEFINE S == { m \in Nat : m <= n => \E g : Upto(V, base, step, m, g) }
<1>1. 0 \in S
  <2>1. Upto(V, base, step, 0, [k \in 0 .. 0 |-> base])
    BY DEF Upto
  <2> QED BY <2>1
<1>2. ASSUME NEW m \in Nat, m \in S PROVE m + 1 \in S
  <2> SUFFICES ASSUME m + 1 <= n PROVE \E g : Upto(V, base, step, m + 1, g)
    OBVIOUS
  <2>1. PICK g : Upto(V, base, step, m, g)
    <3>1. m <= n
      OBVIOUS
    <3> QED BY <1>2, <3>1
  <2> QED BY <2>1, Longer
<1> HIDE DEF S
<1>3. n \in S
  BY <1>1, <1>2, NatInd
<1> QED BY <1>3 DEF S

\* What is kept of a text is a text.
LEMMA RemoveSpacesType ==
  ASSUME NEW s \in Seq(Characters)
  PROVE  RemoveSpaces(s) \in Seq(Characters)
<1> DEFINE n == Len(s)
           Kept(g) == [i \in 0 .. n |->
                         IF i = 0 THEN << >>
                         ELSE IF s[i] = "space" THEN g[i - 1] ELSE Append(g[i - 1], s[i])]
           V == Seq(Characters)
           step == [p \in (1 .. n) \X V |->
                      IF s[p[1]] = "space" THEN p[2] ELSE Append(p[2], s[p[1]])]
<1>1. n \in Nat /\ << >> \in V /\ \A i \in 1 .. n : s[i] \in Characters
  BY EmptySeq, ElementOfSeq, LenProperties
<1>2. step \in [(1 .. n) \X V -> V]
  <2>1. \A i \in 1 .. n, t \in V : Append(t, s[i]) \in V
    BY <1>1, AppendProperties
  <2> HIDE DEF V
  <2> QED BY <2>1
<1>3. PICK g : /\ g \in [0 .. n -> V] /\ g[0] = << >>
               /\ \A i \in 1 .. n : g[i] = step[i, g[i - 1]]
  <2> HIDE DEF n, V, step
  <2>1. \E g : Upto(V, << >>, step, n, g)
    BY <1>1, <1>2, RecursionExists
  <2> QED BY <2>1 DEF Upto
<1>4. ASSUME NEW i \in 1 .. n
      PROVE  g[i] = IF s[i] = "space" THEN g[i - 1] ELSE Append(g[i - 1], s[i])
  <2> HIDE DEF V
  <2>1. i - 1 \in 0 .. n
    BY <1>1
  <2>1a. g[i - 1] \in V
    BY <1>3, <2>1
  <2>2. <<i, g[i - 1]>> \in (1 .. n) \X V
    BY <2>1a
  <2> QED BY <1>3, <2>2
<1>5. g = Kept(g)
  <2> HIDE DEF V
  <2>1. \A i \in 0 .. n : i = 0 \/ i \in 1 .. n
    BY <1>1
  <2>2. \A i \in 0 .. n : g[i] = IF i = 0 THEN << >>
                                ELSE IF s[i] = "space" THEN g[i - 1] ELSE Append(g[i - 1], s[i])
    BY <1>3, <1>4, <2>1
  <2> QED BY <1>3, <2>2
<1> DEFINE kept == CHOOSE f : f = Kept(f)
<1>6. kept = Kept(kept)
  BY <1>5
<1>7. RemoveSpaces(s) = kept[n]
  BY DEF RemoveSpaces
<1>8. kept[0] = << >> /\ \A i \in 1 .. n :
        kept[i] = IF s[i] = "space" THEN kept[i - 1] ELSE Append(kept[i - 1], s[i])
  <2> HIDE DEF kept
  <2>1. 0 \in 0 .. n /\ \A i \in 1 .. n : i \in 0 .. n /\ i # 0
    BY <1>1
  <2> HIDE DEF n
  <2> QED BY <1>6, <2>1
<1> DEFINE S == { i \in Nat : i <= n => kept[i] \in V }
<1> HIDE DEF kept
<1>9. 0 \in S
  BY <1>1, <1>8
<1>10. ASSUME NEW i \in Nat, i \in S PROVE i + 1 \in S
  <2> SUFFICES ASSUME i + 1 <= n PROVE kept[i + 1] \in V
    OBVIOUS
  <2>1. kept[i] \in V /\ i + 1 \in 1 .. n
    BY <1>1, <1>10
  <2>2. kept[i + 1] = IF s[i + 1] = "space" THEN kept[i] ELSE Append(kept[i], s[i + 1])
    BY <1>8, <2>1
  <2> QED BY <1>1, <2>1, <2>2, AppendProperties
<1> HIDE DEF S
<1>11. n \in S
  BY <1>1, <1>9, <1>10, NatInd
<1> QED BY <1>1, <1>7, <1>11 DEF S

-----------------------------------------------------------------------------
(***************************************************************************)
(* The form, said of places of the whole text.                             *)
(***************************************************************************)
\* The number n is from b on and ends before e.
NumberAt(s, b, e, n) ==
  /\ b < e
  /\ s[b] \in Numerals /\ Value[s[b]] \in Longs
  /\ n = ToInt(Value[s[b]])
  /\ \A k \in b .. e - 1 : s[k] \notin {",", "}"}

\* The feature f is from b to q, with its comma at i and its brace at j.
FeatureAt(s, b, i, j, q, f) ==
  /\ s[b] = "{" /\ s[b + 1] = "location" /\ s[b + 2] = "{" /\ s[b + 3] = "latitude"
  /\ NumberAt(s, b + 4, i, f[1])
  /\ s[i] = "," /\ s[i + 1] = "longitude"
  /\ NumberAt(s, i + 2, j, f[2])
  /\ s[j] = "}" /\ s[j + 1] = "," /\ s[j + 2] = "name" /\ s[j + 3] = "quote"
  /\ j + 4 <= q /\ s[q] = "quote"
  /\ f[3] = SubSeq(s, j + 4, q - 1)
  /\ \A k \in j + 4 .. q - 1 : s[k] # "quote"

LEMMA TextFacts ==
  ASSUME NEW s \in Seq(Characters)
  PROVE  Len(s) \in Nat /\ DOMAIN s = 1 .. Len(s) /\ \A i \in 1 .. Len(s) : s[i] \in Characters
BY LenProperties, ElementOfSeq

\* A part of a text, character by character.
LEMMA Part ==
  ASSUME NEW s \in Seq(Characters), NEW m \in Nat, NEW n \in Nat, 1 <= m, m <= n + 1, n <= Len(s)
  PROVE  /\ SubSeq(s, m, n) \in Seq(Characters)
         /\ Len(SubSeq(s, m, n)) = n - m + 1
         /\ \A k \in 1 .. n - m + 1 : SubSeq(s, m, n)[k] = s[m + k - 1]
<1>1. \A i \in m .. n : s[i] \in Characters
  BY TextFacts
<1>2. /\ SubSeq(s, m, n) \in Seq(Characters)
      /\ Len(SubSeq(s, m, n)) = IF m <= n THEN n - m + 1 ELSE 0
      /\ \A k \in 1 .. n - m + 1 : SubSeq(s, m, n)[k] = s[m + k - 1]
  BY <1>1, SubSeqProperties
<1>3. (IF m <= n THEN n - m + 1 ELSE 0) = n - m + 1
  OBVIOUS
<1> QED BY <1>2, <1>3

LEMMA Two ==
  ASSUME NEW s \in Seq(Characters), NEW m \in Nat, 1 <= m, m + 1 <= Len(s),
         NEW a \in Characters, NEW b \in Characters
  PROVE  SubSeq(s, m, m + 1) = <<a, b>> <=> s[m] = a /\ s[m + 1] = b
<1> DEFINE t == SubSeq(s, m, m + 1)
<1>1. /\ t \in Seq(Characters) /\ Len(t) = 2
      /\ t[1] = s[m] /\ t[2] = s[m + 1]
  <2>1. /\ (m + 1) - m + 1 = 2 /\ m + 1 - 1 = m /\ m + 2 - 1 = m + 1
        /\ 1 \in 1 .. 2 /\ 2 \in 1 .. 2
    OBVIOUS
  <2> QED BY <2>1, Part
<1>2. /\ <<a, b>> \in Seq(Characters) /\ Len(<<a, b>>) = 2
      /\ <<a, b>>[1] = a /\ <<a, b>>[2] = b
  OBVIOUS
<1> HIDE DEF t
<1>3. \A k \in 1 .. 2 : k = 1 \/ k = 2
  OBVIOUS
<1>4. t[1] = a /\ t[2] = b => t = <<a, b>>
  BY <1>1, <1>2, <1>3, SeqEqual
<1> QED BY <1>1, <1>2, <1>4 DEF t

LEMMA Four ==
  ASSUME NEW s \in Seq(Characters), NEW m \in Nat, 1 <= m, m + 3 <= Len(s),
         NEW a \in Characters, NEW b \in Characters, NEW c \in Characters, NEW d \in Characters
  PROVE  SubSeq(s, m, m + 3) = <<a, b, c, d>> <=>
           s[m] = a /\ s[m + 1] = b /\ s[m + 2] = c /\ s[m + 3] = d
<1> DEFINE t == SubSeq(s, m, m + 3)
<1>1. /\ t \in Seq(Characters) /\ Len(t) = 4
      /\ t[1] = s[m] /\ t[2] = s[m + 1] /\ t[3] = s[m + 2] /\ t[4] = s[m + 3]
  <2>1. /\ (m + 3) - m + 1 = 4 /\ m + 1 - 1 = m /\ m + 2 - 1 = m + 1 /\ m + 3 - 1 = m + 2
        /\ m + 4 - 1 = m + 3
        /\ 1 \in 1 .. 4 /\ 2 \in 1 .. 4 /\ 3 \in 1 .. 4 /\ 4 \in 1 .. 4
    OBVIOUS
  <2> QED BY <2>1, Part
<1>2. /\ <<a, b, c, d>> \in Seq(Characters) /\ Len(<<a, b, c, d>>) = 4
      /\ <<a, b, c, d>>[1] = a /\ <<a, b, c, d>>[2] = b
      /\ <<a, b, c, d>>[3] = c /\ <<a, b, c, d>>[4] = d
  OBVIOUS
<1> HIDE DEF t
<1>3. \A k \in 1 .. 4 : k = 1 \/ k = 2 \/ k = 3 \/ k = 4
  OBVIOUS
<1>4. t[1] = a /\ t[2] = b /\ t[3] = c /\ t[4] = d => t = <<a, b, c, d>>
  BY <1>1, <1>2, <1>3, SeqEqual
<1> QED BY <1>1, <1>2, <1>4 DEF t

LEMMA NumberIs ==
  ASSUME NEW s \in Seq(Characters), NEW b \in Nat, NEW e \in Nat,
         1 <= b, b < e, e <= Len(s), NEW n
  PROVE  IsNumber(SubSeq(s, b, e - 1), n) <=> NumberAt(s, b, e, n)
<1> DEFINE t == SubSeq(s, b, e - 1)
<1>1. /\ t \in Seq(Characters) /\ Len(t) = e - b
      /\ \A k \in 1 .. e - b : t[k] = s[b + k - 1]
  <2>1. e - 1 \in Nat /\ b <= e - 1 /\ e - 1 <= Len(s) /\ (e - 1) - b + 1 = e - b
    BY TextFacts
  <2> QED BY <2>1, Part
<1>2. t # << >> /\ DOMAIN t = 1 .. e - b /\ t[1] = s[b]
  <2>1. Len(t) # 0 /\ 1 \in 1 .. e - b /\ b + 1 - 1 = b
    BY <1>1
  <2> QED BY <1>1, <2>1, EmptySeq, LenProperties
<1> HIDE DEF t
<1>3. (\A k \in 1 .. e - b : t[k] \notin {",", "}"}) <=> \A k \in b .. e - 1 : s[k] \notin {",", "}"}
  <2>1. ASSUME \A k \in 1 .. e - b : t[k] \notin {",", "}"}, NEW k \in b .. e - 1
        PROVE  s[k] \notin {",", "}"}
    <3>1. k - b + 1 \in 1 .. e - b /\ b + (k - b + 1) - 1 = k
      OBVIOUS
    <3> QED BY <1>1, <2>1, <3>1
  <2>2. ASSUME \A k \in b .. e - 1 : s[k] \notin {",", "}"}, NEW k \in 1 .. e - b
        PROVE  t[k] \notin {",", "}"}
    <3>1. b + k - 1 \in b .. e - 1
      OBVIOUS
    <3> QED BY <1>1, <2>2, <3>1
  <2> QED BY <2>1, <2>2
<1>4. IsNumber(t, n) <=> NumberAt(s, b, e, n)
  BY <1>2, <1>3 DEF IsNumber, NumberAt
<1> QED BY <1>4 DEF t

\* A text that ends with four characters, some more, and one.
EndsWith(s, m, a, b, c, d, g, e) ==
  SubSeq(s, m, Len(s)) = <<a, b, c, d>> \o g \o <<e>>

EndsThus(s, m, a, b, c, d, g, e) ==
  /\ s[m] = a /\ s[m + 1] = b /\ s[m + 2] = c /\ s[m + 3] = d
  /\ s[Len(s)] = e
  /\ g = SubSeq(s, m + 4, Len(s) - 1)

LEMMA Ending ==
  ASSUME NEW s \in Seq(Characters), NEW m \in Nat, 1 <= m, m + 4 <= Len(s),
         NEW a \in Characters, NEW b \in Characters, NEW c \in Characters, NEW d \in Characters,
         NEW e \in Characters, NEW g \in Seq(Characters)
  PROVE  EndsWith(s, m, a, b, c, d, g, e) <=> EndsThus(s, m, a, b, c, d, g, e)
<1> DEFINE n == Len(s)
           t == SubSeq(s, m, n)
           u == <<a, b, c, d>>
           w == u \o g
           v == w \o <<e>>
           h == SubSeq(s, m + 4, n - 1)
<1>0. n \in Nat
  BY TextFacts
<1>1. /\ t \in Seq(Characters) /\ Len(t) = n - m + 1
      /\ \A k \in 1 .. n - m + 1 : t[k] = s[m + k - 1]
  <2>1. m <= n
    BY <1>0
  <2> QED BY <1>0, <2>1, Part
<1>2. /\ h \in Seq(Characters) /\ Len(h) = n - m - 4
      /\ \A k \in 1 .. n - m - 4 : h[k] = s[m + k + 3]
  <2>1. /\ n - 1 \in Nat /\ m + 4 \in Nat /\ 1 <= m + 4 /\ m + 4 <= (n - 1) + 1 /\ n - 1 <= Len(s)
    BY <1>0
  <2>2. /\ h \in Seq(Characters) /\ Len(h) = (n - 1) - (m + 4) + 1
        /\ \A k \in 1 .. (n - 1) - (m + 4) + 1 : h[k] = s[(m + 4) + k - 1]
    <3> HIDE DEF n
    <3> QED BY <2>1, Part
  <2>3. (n - 1) - (m + 4) + 1 = n - m - 4 /\ \A k \in Int : (m + 4) + k - 1 = m + k + 3
    BY <1>0
  <2> HIDE DEF h, n
  <2> QED BY <2>2, <2>3
<1>2a. Len(h) = n - m - 4
  BY <1>2
<1>3. /\ u \in Seq(Characters) /\ Len(u) = 4
      /\ u[1] = a /\ u[2] = b /\ u[3] = c /\ u[4] = d
      /\ <<e>> \in Seq(Characters) /\ Len(<<e>>) = 1 /\ <<e>>[1] = e
  OBVIOUS
<1>4. Len(g) \in Nat
  BY TextFacts
<1> HIDE DEF n, t, u, h
<1>5. /\ w \in Seq(Characters) /\ Len(w) = 4 + Len(g)
      /\ \A k \in 1 .. 4 + Len(g) : w[k] = IF k <= 4 THEN u[k] ELSE g[k - 4]
  <2>1. /\ w \in Seq(Characters) /\ Len(w) = Len(u) + Len(g)
        /\ \A k \in 1 .. Len(u) + Len(g) : w[k] = IF k <= Len(u) THEN u[k] ELSE g[k - Len(u)]
    BY <1>3, ConcatProperties
  <2>2. Len(u) = 4
    BY <1>3
  <2> HIDE DEF w
  <2> QED BY <2>1, <2>2
<1> HIDE DEF w
<1>6. /\ v \in Seq(Characters) /\ Len(v) = 5 + Len(g)
      /\ \A k \in 1 .. 5 + Len(g) : v[k] = IF k <= 4 + Len(g) THEN w[k] ELSE <<e>>[k - (4 + Len(g))]
  <2>1. /\ v \in Seq(Characters) /\ Len(v) = 4 + Len(g) + 1
        /\ \A k \in 1 .. 4 + Len(g) + 1 : v[k] = IF k <= 4 + Len(g) THEN w[k] ELSE <<e>>[k - (4 + Len(g))]
    BY <1>3, <1>5, ConcatProperties
  <2>2. 4 + Len(g) + 1 = 5 + Len(g)
    BY <1>4
  <2> HIDE DEF v
  <2> QED BY <2>1, <2>2
<1> HIDE DEF v
<1>7. /\ v[1] = a /\ v[2] = b /\ v[3] = c /\ v[4] = d
      /\ v[5 + Len(g)] = e
      /\ \A k \in 1 .. Len(g) : v[k + 4] = g[k]
  <2>1. /\ \A k \in 1 .. 4 : k \in 1 .. 4 + Len(g) /\ k \in 1 .. 5 + Len(g)
        /\ 5 + Len(g) \in 1 .. 5 + Len(g) /\ 5 + Len(g) - (4 + Len(g)) = 1
        /\ ~ (5 + Len(g) <= 4 + Len(g))
    BY <1>4
  <2>2. \A k \in 1 .. 4 : v[k] = u[k]
    BY <1>4, <1>5, <1>6, <2>1
  <2>3. v[5 + Len(g)] = e
    BY <1>3, <1>6, <2>1
  <2>4. ASSUME NEW k \in 1 .. Len(g) PROVE v[k + 4] = g[k]
    <3>1. /\ k + 4 \in 1 .. 4 + Len(g) /\ k + 4 \in 1 .. 5 + Len(g) /\ ~ (k + 4 <= 4)
          /\ k + 4 <= 4 + Len(g) /\ k + 4 - 4 = k
      BY <1>4
    <3> QED BY <1>5, <1>6, <3>1
  <2> QED BY <1>3, <2>2, <2>3, <2>4
<1>8. ASSUME t = v
      PROVE  /\ s[m] = a /\ s[m + 1] = b /\ s[m + 2] = c /\ s[m + 3] = d
             /\ s[n] = e /\ g = h
  <2>1. n - m + 1 = 5 + Len(g)
    BY <1>1, <1>6, <1>8
  <2>2. \A k \in 1 .. 5 + Len(g) : s[m + k - 1] = v[k]
    BY <1>1, <1>8, <2>1
  <2>3. /\ 1 \in 1 .. 5 + Len(g) /\ 2 \in 1 .. 5 + Len(g) /\ 3 \in 1 .. 5 + Len(g)
        /\ 4 \in 1 .. 5 + Len(g) /\ 5 + Len(g) \in 1 .. 5 + Len(g)
        /\ m + 1 - 1 = m /\ m + 2 - 1 = m + 1 /\ m + 3 - 1 = m + 2 /\ m + 4 - 1 = m + 3
        /\ m + (5 + Len(g)) - 1 = n
    BY <1>0, <1>4, <2>1
  <2>4. s[m] = a /\ s[m + 1] = b /\ s[m + 2] = c /\ s[m + 3] = d /\ s[n] = e
    BY <1>7, <2>2, <2>3
  <2>5. Len(g) = Len(h)
    BY <1>0, <1>2a, <1>4, <2>1
  <2>6. ASSUME NEW k \in 1 .. Len(g) PROVE g[k] = h[k]
    <3>1. /\ k + 4 \in 1 .. 5 + Len(g) /\ m + (k + 4) - 1 = m + k + 3
          /\ k \in 1 .. n - m - 4
      BY <1>0, <1>4, <2>1
    <3> QED BY <1>2, <1>7, <2>2, <3>1
  <2>7. g = h
    BY <1>2, <2>5, <2>6, SeqEqual
  <2> QED BY <2>4, <2>7
<1>9. ASSUME s[m] = a, s[m + 1] = b, s[m + 2] = c, s[m + 3] = d, s[n] = e, g = h
      PROVE  t = v
  <2>1. Len(g) = n - m - 4 /\ n - m + 1 = 5 + Len(g)
    BY <1>0, <1>2a, <1>9, SMTT(60)
  <2>2. ASSUME NEW k \in 1 .. 5 + Len(g) PROVE t[k] = v[k]
    <3>1. t[k] = s[m + k - 1]
      BY <1>1, <2>1
    <3>2. CASE k = 1 \/ k = 2 \/ k = 3 \/ k = 4
      <4>1. m + 1 - 1 = m /\ m + 2 - 1 = m + 1 /\ m + 3 - 1 = m + 2 /\ m + 4 - 1 = m + 3
        OBVIOUS
      <4> QED BY <1>7, <1>9, <3>1, <3>2, <4>1
    <3>3. CASE k = 5 + Len(g)
      <4>1. m + k - 1 = n
        BY <1>0, <1>4, <2>1, <3>3
      <4> QED BY <1>7, <1>9, <3>1, <3>3, <4>1
    <3>4. CASE 4 < k /\ k < 5 + Len(g)
      <4>1. k - 4 \in 1 .. Len(g) /\ (k - 4) + 4 = k /\ m + (k - 4) + 3 = m + k - 1
            /\ k - 4 \in 1 .. n - m - 4
        BY <1>0, <1>4, <2>1, <3>4
      <4> QED BY <1>2, <1>7, <1>9, <3>1, <4>1
    <3>5. \/ k = 1 \/ k = 2 \/ k = 3 \/ k = 4 \/ k = 5 + Len(g)
          \/ 4 < k /\ k < 5 + Len(g)
      BY <1>4
    <3> QED BY <3>2, <3>3, <3>4, <3>5
  <2> QED BY <1>1, <1>6, <2>1, <2>2, SeqEqual
<1>10. t = v <=> /\ s[m] = a /\ s[m + 1] = b /\ s[m + 2] = c /\ s[m + 3] = d
                 /\ s[n] = e /\ g = h
  BY <1>8, <1>9
<1> QED BY <1>10 DEF t, v, w, u, n, h, EndsWith, EndsThus

LEMMA Letters ==
  /\ "{" \in Characters /\ "location" \in Characters /\ "latitude" \in Characters
  /\ "longitude" \in Characters /\ "name" \in Characters /\ "," \in Characters
  /\ "}" \in Characters /\ "quote" \in Characters /\ "]" \in Characters /\ "[" \in Characters
BY DEF Characters, Keys, Marks

\* The form of a feature.
LEMMA FeatureIs ==
  ASSUME NEW s \in Seq(Characters), NEW f, f[3] \in Seq(Characters)
  PROVE  IsFeature(s, f) <=>
           \E i \in Nat, j \in Nat : FeatureAt(s, 1, i, j, Len(s), f)
<1>1. Len(s) \in Nat /\ DOMAIN s = 1 .. Len(s)
  BY TextFacts
<1> DEFINE Is(i, j) ==
             /\ 5 < i /\ i + 2 < j /\ j + 3 < Len(s)
             /\ s[i] = "," /\ s[j] = "}"
             /\ SubSeq(s, 1, 4) = <<"{", "location", "{", "latitude">>
             /\ IsNumber(SubSeq(s, 5, i - 1), f[1])
             /\ SubSeq(s, i, i + 1) = <<",", "longitude">>
             /\ IsNumber(SubSeq(s, i + 2, j - 1), f[2])
             /\ SubSeq(s, j, Len(s)) = <<"}", ",", "name", "quote">> \o f[3] \o <<"quote">>
             /\ \A k \in DOMAIN f[3] : f[3][k] # "quote"
<1>2. IsFeature(s, f) <=> \E i, j \in DOMAIN s : Is(i, j)
  BY DEF IsFeature
<1>3. ASSUME NEW i \in Nat, NEW j \in Nat, 5 < i, i + 2 < j, j + 3 < Len(s)
      PROVE  Is(i, j) <=> FeatureAt(s, 1, i, j, Len(s), f)
  <2>1. SubSeq(s, 1, 4) = <<"{", "location", "{", "latitude">> <=>
          s[1] = "{" /\ s[2] = "location" /\ s[3] = "{" /\ s[4] = "latitude"
    <3>1. 1 + 3 = 4 /\ 1 + 2 = 3 /\ 1 + 1 = 2 /\ 1 <= 1 /\ 1 + 3 <= Len(s) /\ 1 \in Nat
      BY <1>1, <1>3
    <3>2. \A a, b, c, d \in Characters : SubSeq(s, 1, 1 + 3) = <<a, b, c, d>> <=>
            s[1] = a /\ s[1 + 1] = b /\ s[1 + 2] = c /\ s[1 + 3] = d
      BY <3>1, Four
    <3>3. \A a, b, c, d \in Characters : SubSeq(s, 1, 4) = <<a, b, c, d>> <=>
            s[1] = a /\ s[2] = b /\ s[3] = c /\ s[4] = d
      BY <3>1, <3>2
    <3> QED BY <3>3, Letters, Zenon
  <2>2. IsNumber(SubSeq(s, 5, i - 1), f[1]) <=> NumberAt(s, 5, i, f[1])
    BY <1>1, <1>3, NumberIs
  <2>3. SubSeq(s, i, i + 1) = <<",", "longitude">> <=> s[i] = "," /\ s[i + 1] = "longitude"
    <3>1. 1 <= i /\ i + 1 <= Len(s)
      BY <1>1, <1>3
    <3>2. \A a, b \in Characters : SubSeq(s, i, i + 1) = <<a, b>> <=> s[i] = a /\ s[i + 1] = b
      BY <3>1, Two
    <3> QED BY <3>2, Letters, Zenon
  <2>4. IsNumber(SubSeq(s, i + 2, j - 1), f[2]) <=> NumberAt(s, i + 2, j, f[2])
    BY <1>1, <1>3, NumberIs
  <2>5. SubSeq(s, j, Len(s)) = <<"}", ",", "name", "quote">> \o f[3] \o <<"quote">> <=>
          /\ s[j] = "}" /\ s[j + 1] = "," /\ s[j + 2] = "name" /\ s[j + 3] = "quote"
          /\ s[Len(s)] = "quote"
          /\ f[3] = SubSeq(s, j + 4, Len(s) - 1)
    <3>1. 1 <= j /\ j + 4 <= Len(s)
      BY <1>1, <1>3
    <3> PICK g \in Seq(Characters) : g = f[3]
      OBVIOUS
    <3>2. \A a, b, c, d, e \in Characters :
            EndsWith(s, j, a, b, c, d, g, e) <=> EndsThus(s, j, a, b, c, d, g, e)
      BY <3>1, Ending
    <3>3. EndsWith(s, j, "}", ",", "name", "quote", g, "quote") <=>
            EndsThus(s, j, "}", ",", "name", "quote", g, "quote")
      BY <3>2, Letters
    <3> QED BY <3>3 DEF EndsWith, EndsThus
  <2>6. ASSUME f[3] = SubSeq(s, j + 4, Len(s) - 1)
        PROVE  (\A k \in DOMAIN f[3] : f[3][k] # "quote") <=>
                 \A k \in j + 4 .. Len(s) - 1 : s[k] # "quote"
    <3>1. /\ Len(s) - 1 \in Nat /\ j + 4 \in Nat /\ 1 <= j + 4 /\ j + 4 <= (Len(s) - 1) + 1
          /\ Len(s) - 1 <= Len(s)
      BY <1>1, <1>3
    <3>2. /\ Len(f[3]) = (Len(s) - 1) - (j + 4) + 1
          /\ \A k \in 1 .. (Len(s) - 1) - (j + 4) + 1 : f[3][k] = s[(j + 4) + k - 1]
      BY <2>6, <3>1, Part
    <3>3. DOMAIN f[3] = 1 .. (Len(s) - 1) - (j + 4) + 1
      <4>1. DOMAIN f[3] = 1 .. Len(f[3])
        BY TextFacts
      <4> QED BY <3>2, <4>1
    <3>4. ASSUME NEW k \in 1 .. (Len(s) - 1) - (j + 4) + 1
          PROVE  (j + 4) + k - 1 \in j + 4 .. Len(s) - 1
      BY <1>1
    <3>5. ASSUME NEW k \in j + 4 .. Len(s) - 1
          PROVE  /\ k - (j + 4) + 1 \in 1 .. (Len(s) - 1) - (j + 4) + 1
                 /\ (j + 4) + (k - (j + 4) + 1) - 1 = k
      BY <1>1
    <3>6. ASSUME \A k \in DOMAIN f[3] : f[3][k] # "quote", NEW k \in j + 4 .. Len(s) - 1
          PROVE  s[k] # "quote"
      BY <3>2, <3>3, <3>5, <3>6, ZenonT(60)
    <3>7. ASSUME \A k \in j + 4 .. Len(s) - 1 : s[k] # "quote", NEW k \in DOMAIN f[3]
          PROVE  f[3][k] # "quote"
      <4>1. k \in 1 .. (Len(s) - 1) - (j + 4) + 1
        BY <3>3
      <4> QED BY <3>2, <3>4, <3>7, <4>1
    <3> QED BY <3>6, <3>7
  <2>7. 1 + 1 = 2 /\ 1 + 2 = 3 /\ 1 + 3 = 4 /\ 1 + 4 = 5 /\ j + 4 <= Len(s)
    BY <1>1, <1>3
  <2> QED BY <1>3, <2>1, <2>2, <2>3, <2>4, <2>5, <2>6, <2>7 DEF FeatureAt
<1>4. ASSUME NEW i \in Nat, NEW j \in Nat, FeatureAt(s, 1, i, j, Len(s), f)
      PROVE  5 < i /\ i + 2 < j /\ j + 3 < Len(s) /\ i \in DOMAIN s /\ j \in DOMAIN s
  <2>1. 1 + 4 < i /\ i + 2 < j /\ j + 4 <= Len(s)
    BY <1>4 DEF FeatureAt, NumberAt
  <2> QED BY <1>1, <2>1
<1>5. \A i \in DOMAIN s : i \in Nat
  BY <1>1
<1> QED BY <1>2, <1>3, <1>4, <1>5

\* A feature within a text is one at its place there.
LEMMA NumberShift ==
  ASSUME NEW s \in Seq(Characters), NEW t \in Seq(Characters), NEW d \in Nat,
         \A k \in 1 .. Len(t) : t[k] = s[k + d],
         NEW u \in Nat, NEW v \in Nat, 1 <= u, u < v, v <= Len(t), NEW n
  PROVE  NumberAt(t, u, v, n) <=> NumberAt(s, u + d, v + d, n)
<1>0. Len(t) \in Nat
  BY TextFacts
<1>1. t[u] = s[u + d] /\ (u < v <=> u + d < v + d)
  <2>1. u \in 1 .. Len(t)
    BY <1>0
  <2> QED BY <2>1
<1>2. ASSUME \A k \in u .. v - 1 : t[k] \notin {",", "}"}, NEW k \in u + d .. v + d - 1
      PROVE  s[k] \notin {",", "}"}
  <2>1. k - d \in u .. v - 1 /\ k - d \in 1 .. Len(t) /\ (k - d) + d = k
    BY <1>0
  <2> QED BY <1>2, <2>1
<1>3. ASSUME \A k \in u + d .. v + d - 1 : s[k] \notin {",", "}"}, NEW k \in u .. v - 1
      PROVE  t[k] \notin {",", "}"}
  <2>1. k + d \in u + d .. v + d - 1 /\ k \in 1 .. Len(t)
    BY <1>0
  <2> QED BY <1>3, <2>1
<1>4. (\A k \in u .. v - 1 : t[k] \notin {",", "}"}) <=>
        \A k \in u + d .. v + d - 1 : s[k] \notin {",", "}"}
  BY <1>2, <1>3, Zenon
<1>5. NumberAt(t, u, v, n) <=> /\ u < v
                               /\ t[u] \in Numerals /\ Value[t[u]] \in Longs
                               /\ n = ToInt(Value[t[u]])
                               /\ \A k \in u .. v - 1 : t[k] \notin {",", "}"}
  BY DEF NumberAt
<1>6. NumberAt(s, u + d, v + d, n) <=> /\ u + d < v + d
                                       /\ s[u + d] \in Numerals /\ Value[s[u + d]] \in Longs
                                       /\ n = ToInt(Value[s[u + d]])
                                       /\ \A k \in u + d .. v + d - 1 : s[k] \notin {",", "}"}
  BY DEF NumberAt
<1> QED BY <1>1, <1>4, <1>5, <1>6, Zenon

LEMMA FeatureShift ==
  ASSUME NEW s \in Seq(Characters), NEW b \in Nat, NEW q \in Nat, 1 <= b, b <= q, q <= Len(s),
         NEW i \in Nat, NEW j \in Nat, NEW f
  PROVE  FeatureAt(SubSeq(s, b, q), 1, i, j, q - b + 1, f) <=>
         FeatureAt(s, b, i + (b - 1), j + (b - 1), q, f)
<1> DEFINE t == SubSeq(s, b, q)
           d == b - 1
           n == q - b + 1
<1>1. /\ t \in Seq(Characters) /\ Len(t) = n
      /\ \A k \in 1 .. n : t[k] = s[b + k - 1]
  BY Part
<1>2. /\ d \in Nat /\ n \in Nat /\ b = d + 1 /\ q = n + d /\ Len(s) \in Nat
      /\ \A k \in Int : b + k - 1 = k + d
  BY TextFacts
<1> HIDE DEF t, d, n
<1>3. \A k \in 1 .. n : t[k] = s[k + d]
  BY <1>1, <1>2
<1>4. ASSUME 5 < i, i + 2 < j, j + 4 <= n
      PROVE  FeatureAt(t, 1, i, j, n, f) <=> FeatureAt(s, b, i + d, j + d, q, f)
  <2>1. /\ t[1] = s[b] /\ t[1 + 1] = s[b + 1] /\ t[1 + 2] = s[b + 2] /\ t[1 + 3] = s[b + 3]
    <3>1. /\ 1 \in 1 .. n /\ 1 + 1 \in 1 .. n /\ 1 + 2 \in 1 .. n /\ 1 + 3 \in 1 .. n
          /\ 1 + d = b /\ (1 + 1) + d = b + 1 /\ (1 + 2) + d = b + 2 /\ (1 + 3) + d = b + 3
      BY <1>2, <1>4
    <3> QED BY <1>3, <3>1
  <2>2. NumberAt(t, 1 + 4, i, f[1]) <=> NumberAt(s, b + 4, i + d, f[1])
    <3>1. NumberAt(t, 5, i, f[1]) <=> NumberAt(s, 5 + d, i + d, f[1])
      BY <1>1, <1>2, <1>3, <1>4, NumberShift, SMTT(60)
    <3>2. 1 + 4 = 5 /\ 5 + d = b + 4
      BY <1>2
    <3> QED BY <3>1, <3>2
  <2>3. t[i] = s[i + d] /\ t[i + 1] = s[(i + d) + 1]
    <3>1. i \in 1 .. n /\ i + 1 \in 1 .. n /\ (i + 1) + d = (i + d) + 1
      BY <1>2, <1>4
    <3> QED BY <1>3, <3>1
  <2>4. NumberAt(t, i + 2, j, f[2]) <=> NumberAt(s, (i + d) + 2, j + d, f[2])
    <3>1. NumberAt(t, i + 2, j, f[2]) <=> NumberAt(s, (i + 2) + d, j + d, f[2])
      <4>1. i + 2 \in Nat /\ 1 <= i + 2 /\ j <= n
        BY <1>2, <1>4
      <4> QED BY <1>1, <1>2, <1>3, <1>4, <4>1, NumberShift
    <3>2. (i + 2) + d = (i + d) + 2
      BY <1>2
    <3> QED BY <3>1, <3>2
  <2>5. /\ t[j] = s[j + d] /\ t[j + 1] = s[(j + d) + 1] /\ t[j + 2] = s[(j + d) + 2]
        /\ t[j + 3] = s[(j + d) + 3]
    <3>1. /\ j \in 1 .. n /\ j + 1 \in 1 .. n /\ j + 2 \in 1 .. n /\ j + 3 \in 1 .. n
          /\ (j + 1) + d = (j + d) + 1 /\ (j + 2) + d = (j + d) + 2 /\ (j + 3) + d = (j + d) + 3
      BY <1>2, <1>4
    <3> QED BY <1>3, <3>1
  <2>6. t[n] = s[q]
    <3>1. n \in 1 .. n
      BY <1>2, <1>4
    <3> QED BY <1>2, <1>3, <3>1
  <2>7. SubSeq(t, j + 4, n - 1) = SubSeq(s, (j + d) + 4, q - 1)
    <3> DEFINE g == SubSeq(t, j + 4, n - 1)
               h == SubSeq(s, (j + d) + 4, q - 1)
               l == n - j - 4
    <3>1. /\ j + 4 \in Nat /\ n - 1 \in Nat /\ 1 <= j + 4 /\ j + 4 <= (n - 1) + 1 /\ n - 1 <= n
          /\ (n - 1) - (j + 4) + 1 = l
      BY <1>2, <1>4
    <3>2. /\ g \in Seq(Characters) /\ Len(g) = l
          /\ \A k \in 1 .. l : g[k] = t[(j + 4) + k - 1]
      <4> HIDE DEF l
      <4> QED BY <1>1, <3>1, Part, ZenonT(60)
    <3>3. /\ (j + d) + 4 \in Nat /\ q - 1 \in Nat /\ 1 <= (j + d) + 4
          /\ (j + d) + 4 <= (q - 1) + 1 /\ q - 1 <= Len(s)
          /\ (q - 1) - ((j + d) + 4) + 1 = l
      BY <1>2, <1>4
    <3>4. /\ h \in Seq(Characters) /\ Len(h) = l
          /\ \A k \in 1 .. l : h[k] = s[((j + d) + 4) + k - 1]
      <4> HIDE DEF l
      <4> QED BY <3>3, Part
    <3>5. ASSUME NEW k \in 1 .. l PROVE g[k] = h[k]
      <4>1. /\ (j + 4) + k - 1 \in 1 .. n
            /\ ((j + 4) + k - 1) + d = ((j + d) + 4) + k - 1
        BY <1>2, <1>4
      <4> HIDE DEF g, h, l
      <4> QED BY <1>3, <3>2, <3>4, <4>1
    <3> HIDE DEF g, h, l
    <3>6. g = h
      BY <3>2, <3>4, <3>5, SeqEqual
    <3> QED BY <3>6 DEF g, h
  <2>8. (\A k \in j + 4 .. n - 1 : t[k] # "quote") <=>
          \A k \in (j + d) + 4 .. q - 1 : s[k] # "quote"
    <3>1. ASSUME \A k \in j + 4 .. n - 1 : t[k] # "quote", NEW k \in (j + d) + 4 .. q - 1
          PROVE  s[k] # "quote"
      <4>1. k - d \in j + 4 .. n - 1 /\ k - d \in 1 .. n /\ (k - d) + d = k
        BY <1>2
      <4> QED BY <1>3, <3>1, <4>1
    <3>2. ASSUME \A k \in (j + d) + 4 .. q - 1 : s[k] # "quote", NEW k \in j + 4 .. n - 1
          PROVE  t[k] # "quote"
      <4>1. k + d \in (j + d) + 4 .. q - 1 /\ k \in 1 .. n
        BY <1>2
      <4> QED BY <1>3, <3>2, <4>1
    <3> QED BY <3>1, <3>2
  <2>9. j + 4 <= n /\ (j + d) + 4 <= q
    BY <1>2, <1>4
  <2> QED BY <2>1, <2>2, <2>3, <2>4, <2>5, <2>6, <2>7, <2>8, <2>9, ZenonT(60) DEF FeatureAt
<1>5. ASSUME FeatureAt(t, 1, i, j, n, f) PROVE 5 < i /\ i + 2 < j /\ j + 4 <= n
  <2>1. 1 + 4 < i /\ i + 2 < j /\ j + 4 <= n
    BY <1>5 DEF FeatureAt, NumberAt
  <2> QED BY <2>1
<1>6. ASSUME FeatureAt(s, b, i + d, j + d, q, f) PROVE 5 < i /\ i + 2 < j /\ j + 4 <= n
  <2>1. b + 4 < i + d /\ (i + d) + 2 < j + d /\ (j + d) + 4 <= q
    BY <1>6 DEF FeatureAt, NumberAt
  <2> QED BY <1>2, <2>1
<1>7. FeatureAt(t, 1, i, j, n, f) <=> FeatureAt(s, b, i + d, j + d, q, f)
  BY <1>4, <1>5, <1>6
<1> QED BY <1>7 DEF t, d, n

LEMMA FeatureWithin ==
  ASSUME NEW s \in Seq(Characters), NEW b \in Nat, NEW q \in Nat, 1 <= b, q <= Len(s),
         NEW f, f[3] \in Seq(Characters)
  PROVE  IsFeature(SubSeq(s, b, q), f) <=> \E i \in Nat, j \in Nat : FeatureAt(s, b, i, j, q, f)
<1>1. CASE b <= q
  <2> DEFINE t == SubSeq(s, b, q)
  <2>1. t \in Seq(Characters) /\ Len(t) = q - b + 1
    <3>1. b <= q + 1
      BY <1>1
    <3> QED BY <3>1, Part
  <2>2. IsFeature(t, f) <=> \E i \in Nat, j \in Nat : FeatureAt(t, 1, i, j, q - b + 1, f)
    <3> HIDE DEF t
    <3> QED BY <2>1, FeatureIs
  <2>3. \A i \in Nat, j \in Nat : FeatureAt(t, 1, i, j, q - b + 1, f) <=>
                                  FeatureAt(s, b, i + (b - 1), j + (b - 1), q, f)
    BY <1>1, FeatureShift
  <2>4. ASSUME NEW i \in Nat, NEW j \in Nat, FeatureAt(s, b, i, j, q, f)
        PROVE  \E k \in Nat, l \in Nat : k + (b - 1) = i /\ l + (b - 1) = j
    <3>1. b + 4 < i /\ i + 2 < j
      BY <2>4 DEF FeatureAt, NumberAt
    <3>2. i - (b - 1) \in Nat /\ j - (b - 1) \in Nat
          /\ (i - (b - 1)) + (b - 1) = i /\ (j - (b - 1)) + (b - 1) = j
      BY <3>1
    <3> QED BY <3>2
  <2>5. \A k \in Nat : k + (b - 1) \in Nat
    OBVIOUS
  <2> HIDE DEF t
  <2>6. ASSUME NEW i \in Nat, NEW j \in Nat, FeatureAt(t, 1, i, j, q - b + 1, f)
        PROVE  \E k \in Nat, l \in Nat : FeatureAt(s, b, k, l, q, f)
    BY <2>3, <2>5, <2>6
  <2>7. ASSUME NEW i \in Nat, NEW j \in Nat, FeatureAt(s, b, i, j, q, f)
        PROVE  \E k \in Nat, l \in Nat : FeatureAt(t, 1, k, l, q - b + 1, f)
    <3>1. PICK k \in Nat, l \in Nat : k + (b - 1) = i /\ l + (b - 1) = j
      BY <2>4, <2>7
    <3>2. FeatureAt(t, 1, k, l, q - b + 1, f)
      BY <2>3, <2>7, <3>1
    <3> QED BY <3>2
  <2> QED BY <2>2, <2>6, <2>7 DEF t
<1>2. CASE ~ (b <= q)
  <2>1. SubSeq(s, b, q) = << >>
    BY <1>2, SubSeqEmpty
  <2>2. << >> \in Seq(Characters) /\ Len(<< >>) = 0
    BY EmptySeq
  <2>3. ~ IsFeature(<< >>, f)
    <3>1. ASSUME NEW i \in Nat, NEW j \in Nat, FeatureAt(<< >>, 1, i, j, 0, f) PROVE FALSE
      <4>1. 1 + 4 < i /\ i + 2 < j /\ j + 4 <= 0
        BY <3>1 DEF FeatureAt, NumberAt
      <4> QED BY <4>1
    <3>2. IsFeature(<< >>, f) <=>
             \E i \in Nat, j \in Nat : FeatureAt(<< >>, 1, i, j, Len(<< >>), f)
      BY <2>2, FeatureIs
    <3> QED BY <2>2, <3>1, <3>2
  <2>4. ASSUME NEW i \in Nat, NEW j \in Nat, FeatureAt(s, b, i, j, q, f) PROVE FALSE
    <3>1. b + 4 < i /\ i + 2 < j /\ j + 4 <= q
      BY <2>4 DEF FeatureAt, NumberAt
    <3> QED BY <1>2, <3>1
  <2> QED BY <2>1, <2>3, <2>4
<1> QED BY <1>1, <1>2

-----------------------------------------------------------------------------
(***************************************************************************)
(* The parser at one place of the text.                                    *)
(***************************************************************************)
LEMMA ScanFacts ==
  ASSUME db_ \in Seq(Characters), NEW at \in Nat, NEW chars
  PROVE  \/ /\ ScanTo(at, chars) = Len(db_)
            /\ \A k \in at .. Len(db_) - 1 : db_[k + 1] \notin chars
         \/ /\ ScanTo(at, chars) \in at .. Len(db_) - 1
            /\ db_[ScanTo(at, chars) + 1] \in chars
            /\ \A k \in at .. ScanTo(at, chars) - 1 : db_[k + 1] \notin chars
<1> DEFINE there == { k \in at .. Len(db_) - 1 : db_[k + 1] \in chars }
           first == CHOOSE k \in there : \A l \in there : k <= l
<1>0. Len(db_) \in Nat
  BY TextFacts
<1>1. ScanTo(at, chars) = IF there = {} THEN Len(db_) ELSE first
  BY DEF ScanTo
<1>2. CASE there = {}
  BY <1>1, <1>2
<1>3. CASE there # {}
  <2>1. there \subseteq Nat
    BY <1>0
  <2>2. first \in there /\ \A l \in there : first <= l
    <3> HIDE DEF there
    <3> QED BY <1>3, <2>1, Least
  <2>3. first \in at .. Len(db_) - 1 /\ db_[first + 1] \in chars
    BY <2>2
  <2>4. ASSUME NEW k \in at .. first - 1 PROVE db_[k + 1] \notin chars
    <3>1. k \in at .. Len(db_) - 1 /\ ~ (first <= k)
      <4> HIDE DEF first
      <4> QED BY <1>0, <2>3
    <3> QED BY <2>2, <3>1
  <2> HIDE DEF there, first
  <2> QED BY <1>1, <1>3, <2>3, <2>4
<1> QED BY <1>2, <1>3

\* The first place is the only first one.
LEMMA ScanIs ==
  ASSUME db_ \in Seq(Characters), NEW at \in Nat, NEW chars,
         NEW e \in at .. Len(db_) - 1, db_[e + 1] \in chars,
         \A k \in at .. e - 1 : db_[k + 1] \notin chars
  PROVE  ScanTo(at, chars) = e
<1>0. Len(db_) \in Nat
  BY TextFacts
<1> PICK x : x = ScanTo(at, chars)
  OBVIOUS
<1>1. \/ x = Len(db_) /\ \A k \in at .. Len(db_) - 1 : db_[k + 1] \notin chars
      \/ /\ x \in at .. Len(db_) - 1 /\ db_[x + 1] \in chars
         /\ \A k \in at .. x - 1 : db_[k + 1] \notin chars
  BY ScanFacts
<1>2. x \in at .. Len(db_) - 1 /\ db_[x + 1] \in chars
      /\ \A k \in at .. x - 1 : db_[k + 1] \notin chars
  BY <1>1
<1>3. ~ (x < e)
  <2>1. x < e => x \in at .. e - 1
    BY <1>0, <1>2
  <2> QED BY <1>2, <2>1
<1>4. ~ (e < x)
  <2>1. e < x => e \in at .. x - 1
    BY <1>0, <1>2
  <2> QED BY <1>2, <2>1
<1> QED BY <1>0, <1>2, <1>3, <1>4

Comma(c) == ScanTo(c + 4, {",", "}"})
Brace(c) == ScanTo(Comma(c) + 2, {",", "}"})
EndQuote(c) == ScanTo(Brace(c) + 4, {"quote"})
Quote(c) == IF EndQuote(c) = Len(db_) THEN EndQuote(c) ELSE EndQuote(c) + 1

\* What TryParseOne asks of the text at c.
Begins(c) == MatchAt(c, <<"{", "location", "{", "latitude">>)
GoesOn(c) == MatchAt(Comma(c), <<",", "longitude">>)
Named(c) == MatchAt(Brace(c), <<"}", ",", "name", "quote">>) /\ Quote(c) # Len(db_)
Parses(c) == Begins(c) /\ IsLong(c + 4) /\ GoesOn(c) /\ IsLong(Comma(c) + 2) /\ Named(c)
Ends(c) == MatchAt(Quote(c), <<"}", ",">>)
Last(c) == Quote(c) + 2 = Len(db_) /\ db_[Quote(c) + 2] = "]"
Parsed(c) == <<ToInt(Value[db_[c + 4 + 1]]), ToInt(Value[db_[Comma(c) + 2 + 1]]),
               SubSeq(db_, Brace(c) + 4 + 1, Quote(c) - 1)>>

LEMMA MatchFour ==
  ASSUME db_ \in Seq(Characters), NEW at \in Nat,
         NEW a \in Characters, NEW b \in Characters, NEW c \in Characters, NEW d \in Characters
  PROVE  MatchAt(at, <<a, b, c, d>>) <=>
           /\ at + 4 <= Len(db_)
           /\ db_[at + 1] = a /\ db_[at + 2] = b /\ db_[at + 3] = c /\ db_[at + 4] = d
<1>1. Len(<<a, b, c, d>>) = 4
  OBVIOUS
<1>2. CASE at + 4 <= Len(db_)
  <2> DEFINE m == at + 1
  <2>1. m \in Nat /\ 1 <= m /\ m + 3 <= Len(db_) /\ m + 1 = at + 2 /\ m + 2 = at + 3 /\ m + 3 = at + 4
    BY <1>2, TextFacts
  <2>2. SubSeq(db_, m, m + 3) = <<a, b, c, d>> <=>
           db_[m] = a /\ db_[m + 1] = b /\ db_[m + 2] = c /\ db_[m + 3] = d
    <3> HIDE DEF m
    <3> QED BY <2>1, Four
  <2> QED BY <1>1, <1>2, <2>1, <2>2 DEF MatchAt
<1> QED BY <1>1, <1>2 DEF MatchAt

LEMMA MatchTwo ==
  ASSUME db_ \in Seq(Characters), NEW at \in Nat, NEW a \in Characters, NEW b \in Characters
  PROVE  MatchAt(at, <<a, b>>) <=>
           at + 2 <= Len(db_) /\ db_[at + 1] = a /\ db_[at + 2] = b
<1>1. Len(<<a, b>>) = 2
  OBVIOUS
<1>2. CASE at + 2 <= Len(db_)
  <2> DEFINE m == at + 1
  <2>1. m \in Nat /\ 1 <= m /\ m + 1 <= Len(db_) /\ m + 1 = at + 2
    BY <1>2, TextFacts
  <2>2. SubSeq(db_, m, m + 1) = <<a, b>> <=> db_[m] = a /\ db_[m + 1] = b
    <3> HIDE DEF m
    <3> QED BY <2>1, Two
  <2> QED BY <1>1, <1>2, <2>1, <2>2 DEF MatchAt
<1> QED BY <1>1, <1>2 DEF MatchAt

\* The places where the scans end are characters of the text or its end.
LEMMA ScanType ==
  ASSUME db_ \in Seq(Characters), NEW at \in Nat, NEW chars
  PROVE  ScanTo(at, chars) \in Nat /\ ScanTo(at, chars) <= Len(db_)
<1>0. Len(db_) \in Nat
  BY TextFacts
<1> PICK x : x = ScanTo(at, chars)
  OBVIOUS
<1>1. x = Len(db_) \/ x \in at .. Len(db_) - 1
  BY ScanFacts
<1>2. x \in Nat /\ x <= Len(db_)
  BY <1>0, <1>1
<1> QED BY <1>2

LEMMA PlaceTypes ==
  ASSUME db_ \in Seq(Characters), NEW c \in Nat
  PROVE  /\ Comma(c) \in Nat /\ Brace(c) \in Nat /\ EndQuote(c) \in Nat /\ Quote(c) \in Nat
         /\ Quote(c) <= Len(db_)
<1>0. Len(db_) \in Nat
  BY TextFacts
<1>1. Comma(c) \in Nat
  <2>1. c + 4 \in Nat
    OBVIOUS
  <2> QED BY <2>1, ScanType DEF Comma
<1>2. Brace(c) \in Nat
  <2>1. Comma(c) + 2 \in Nat
    BY <1>1
  <2> QED BY <2>1, ScanType DEF Brace
<1>3. EndQuote(c) \in Nat /\ EndQuote(c) <= Len(db_)
  <2>1. Brace(c) + 4 \in Nat
    BY <1>2
  <2> QED BY <2>1, ScanType DEF EndQuote
<1>4. Quote(c) \in Nat /\ Quote(c) <= Len(db_)
  BY <1>0, <1>3 DEF Quote
<1> QED BY <1>1, <1>2, <1>3, <1>4

\* A numeral is neither a comma nor a brace.
Stops == {",", "}"}

LEMMA NumeralsApart == \A c \in Numerals : c \notin Stops
<1>1. "," \in Keys \cup Marks /\ "}" \in Keys \cup Marks
  BY DEF Marks
<1> QED BY <1>1, ValueAssumption DEF Stops

\* A number that ReadLong takes ends where the scan from it does.
LEMMA NumberRead ==
  ASSUME db_ \in Seq(Characters), NEW at \in Nat, IsLong(at),
         NEW e \in Nat, e = ScanTo(at, Stops), e < Len(db_)
  PROVE  NumberAt(db_, at + 1, e + 1, ToInt(Value[db_[at + 1]]))
<1>0. Len(db_) \in Nat
  BY TextFacts
<1>1. /\ e \in at .. Len(db_) - 1 /\ db_[e + 1] \in Stops
      /\ \A k \in at .. e - 1 : db_[k + 1] \notin Stops
  BY <1>0, ScanFacts
<1>2. db_[at + 1] \in Numerals /\ Value[db_[at + 1]] \in Longs
  BY DEF IsLong
<1>3. e # at
  BY <1>1, <1>2, NumeralsApart
<1>4. ASSUME NEW k \in at + 1 .. (e + 1) - 1 PROVE db_[k] \notin Stops
  <2>1. k - 1 \in at .. e - 1 /\ (k - 1) + 1 = k
    OBVIOUS
  <2> QED BY <1>1, <2>1
<1>5. at + 1 < e + 1
  BY <1>1, <1>3
<1> QED BY <1>2, <1>4, <1>5 DEF NumberAt, Stops

LEMMA ReadNumber ==
  ASSUME db_ \in Seq(Characters), NEW at \in Nat, NEW e \in Nat, e < Len(db_), NEW n,
         NumberAt(db_, at + 1, e + 1, n), db_[e + 1] \in Stops
  PROVE  IsLong(at) /\ ScanTo(at, Stops) = e
<1>0. Len(db_) \in Nat
  BY TextFacts
<1>1. /\ at + 1 < e + 1 /\ db_[at + 1] \in Numerals /\ Value[db_[at + 1]] \in Longs
      /\ \A k \in at + 1 .. (e + 1) - 1 : db_[k] \notin Stops
  BY DEF NumberAt, Stops
<1>2. e \in at .. Len(db_) - 1 /\ at < Len(db_)
  BY <1>0, <1>1
<1>3. ASSUME NEW k \in at .. e - 1 PROVE db_[k + 1] \notin Stops
  <2>1. k + 1 \in at + 1 .. (e + 1) - 1
    OBVIOUS
  <2> QED BY <1>1, <2>1
<1>4. ScanTo(at, Stops) = e
  BY <1>2, <1>3, ScanIs
<1> QED BY <1>1, <1>2, <1>4 DEF IsLong

\* The comparisons of the parser, character by character.
LEMMA MatchBegins ==
  ASSUME db_ \in Seq(Characters), NEW at \in Nat
  PROVE  MatchAt(at, <<"{", "location", "{", "latitude">>) <=>
           /\ at + 4 <= Len(db_)
           /\ db_[at + 1] = "{" /\ db_[at + 2] = "location" /\ db_[at + 3] = "{"
           /\ db_[at + 4] = "latitude"
<1>1. \A a, b, c, d \in Characters : MatchAt(at, <<a, b, c, d>>) <=>
           /\ at + 4 <= Len(db_)
           /\ db_[at + 1] = a /\ db_[at + 2] = b /\ db_[at + 3] = c /\ db_[at + 4] = d
  BY MatchFour
<1> QED BY <1>1, Letters, Zenon

LEMMA MatchName ==
  ASSUME db_ \in Seq(Characters), NEW at \in Nat
  PROVE  MatchAt(at, <<"}", ",", "name", "quote">>) <=>
           /\ at + 4 <= Len(db_)
           /\ db_[at + 1] = "}" /\ db_[at + 2] = "," /\ db_[at + 3] = "name"
           /\ db_[at + 4] = "quote"
<1>1. \A a, b, c, d \in Characters : MatchAt(at, <<a, b, c, d>>) <=>
           /\ at + 4 <= Len(db_)
           /\ db_[at + 1] = a /\ db_[at + 2] = b /\ db_[at + 3] = c /\ db_[at + 4] = d
  BY MatchFour
<1> QED BY <1>1, Letters, Zenon

LEMMA MatchLongitude ==
  ASSUME db_ \in Seq(Characters), NEW at \in Nat
  PROVE  MatchAt(at, <<",", "longitude">>) <=>
           at + 2 <= Len(db_) /\ db_[at + 1] = "," /\ db_[at + 2] = "longitude"
<1>1. \A a, b \in Characters : MatchAt(at, <<a, b>>) <=>
           at + 2 <= Len(db_) /\ db_[at + 1] = a /\ db_[at + 2] = b
  BY MatchTwo
<1> QED BY <1>1, Letters, Zenon

\* What is parsed is a feature...
LEMMA ParsedIsFeature ==
  ASSUME db_ \in Seq(Characters), NEW c \in Nat, Parses(c)
  PROVE  /\ Quote(c) + 1 <= Len(db_)
         /\ FeatureAt(db_, c + 1, Comma(c) + 1, Brace(c) + 1, Quote(c), Parsed(c))
<1>0. Len(db_) \in Nat
  BY TextFacts
<1> PICK comma \in Nat, brace \in Nat, end \in Nat, q \in Nat :
      comma = Comma(c) /\ brace = Brace(c) /\ end = EndQuote(c) /\ q = Quote(c)
  BY PlaceTypes
<1>1. /\ Begins(c) /\ IsLong(c + 4) /\ GoesOn(c) /\ IsLong(comma + 2) /\ Named(c)
  BY DEF Parses
<1>2. /\ db_[c + 1] = "{" /\ db_[c + 2] = "location" /\ db_[c + 3] = "{" /\ db_[c + 4] = "latitude"
  BY <1>1, MatchBegins DEF Begins
<1>3. comma + 2 <= Len(db_) /\ db_[comma + 1] = "," /\ db_[comma + 2] = "longitude"
  BY <1>1, MatchLongitude DEF GoesOn
<1>4. /\ brace + 4 <= Len(db_) /\ db_[brace + 1] = "}" /\ db_[brace + 2] = "," /\ db_[brace + 3] = "name"
      /\ db_[brace + 4] = "quote"
  BY <1>1, MatchName DEF Named
<1>5. NumberAt(db_, (c + 4) + 1, comma + 1, ToInt(Value[db_[(c + 4) + 1]]))
  <2>1. comma + 2 <= Len(db_)
    BY <1>3
  <2>2. comma < Len(db_) /\ c + 4 \in Nat
    BY <1>0, <2>1
  <2> QED BY <1>1, <2>2, NumberRead DEF Comma, Stops
<1>6. NumberAt(db_, (comma + 2) + 1, brace + 1, ToInt(Value[db_[(comma + 2) + 1]]))
  <2>1. brace + 4 <= Len(db_)
    BY <1>4
  <2>2. brace < Len(db_) /\ comma + 2 \in Nat
    BY <1>0, <2>1
  <2> QED BY <1>1, <2>2, NumberRead DEF Brace, Stops
<1>7. q # Len(db_) /\ q <= Len(db_)
  BY <1>1, PlaceTypes DEF Named
<1>8. q = end + 1 /\ end # Len(db_)
  BY <1>7 DEF Quote
<1>9. /\ end \in brace + 4 .. Len(db_) - 1 /\ db_[end + 1] \in {"quote"}
      /\ \A k \in brace + 4 .. end - 1 : db_[k + 1] \notin {"quote"}
  <2>1. brace + 4 \in Nat
    OBVIOUS
  <2> QED BY <1>8, <2>1, ScanFacts DEF EndQuote
<1>10. db_[q] = "quote" /\ (brace + 1) + 4 <= q /\ q + 1 <= Len(db_)
  BY <1>0, <1>7, <1>8, <1>9, SMTT(60)
<1>11. ASSUME NEW k \in (brace + 1) + 4 .. q - 1 PROVE db_[k] # "quote"
  <2>1. k - 1 \in brace + 4 .. end - 1 /\ (k - 1) + 1 = k
    BY <1>8, SMTT(60)
  <2> QED BY <1>9, <2>1
<1> DEFINE f == Parsed(c)
<1>12. /\ f[1] = ToInt(Value[db_[(c + 4) + 1]]) /\ f[2] = ToInt(Value[db_[(comma + 2) + 1]])
       /\ f[3] = SubSeq(db_, (brace + 4) + 1, q - 1)
  BY DEF Parsed
<1> HIDE DEF f
<1>13. FeatureAt(db_, c + 1, comma + 1, brace + 1, q, f)
  <2>1. /\ (c + 1) + 1 = c + 2 /\ (c + 1) + 2 = c + 3 /\ (c + 1) + 3 = c + 4
        /\ (c + 1) + 4 = (c + 4) + 1
        /\ (comma + 1) + 1 = comma + 2 /\ (comma + 1) + 2 = (comma + 2) + 1
        /\ (brace + 1) + 1 = brace + 2 /\ (brace + 1) + 2 = brace + 3
        /\ (brace + 1) + 3 = brace + 4 /\ (brace + 1) + 4 = (brace + 4) + 1
    BY SMTT(60)
  <2> QED BY <1>2, <1>3, <1>4, <1>5, <1>6, <1>10, <1>11, <1>12, <2>1 DEF FeatureAt
<1> QED BY <1>10, <1>13 DEF f

\* ...and a feature, unless the text ends with it, is parsed.
LEMMA FeatureIsParsed ==
  ASSUME db_ \in Seq(Characters), NEW c \in Nat, NEW i \in Nat, NEW j \in Nat, NEW q \in Nat,
         NEW f, FeatureAt(db_, c + 1, i, j, q, f), q < Len(db_)
  PROVE  Parses(c) /\ Quote(c) = q
<1>0. Len(db_) \in Nat
  BY TextFacts
<1>1. /\ db_[c + 1] = "{" /\ db_[c + 2] = "location" /\ db_[c + 3] = "{" /\ db_[c + 4] = "latitude"
      /\ NumberAt(db_, (c + 4) + 1, i, f[1])
      /\ db_[i] = "," /\ db_[i + 1] = "longitude"
      /\ NumberAt(db_, i + 2, j, f[2])
      /\ db_[j] = "}" /\ db_[j + 1] = "," /\ db_[j + 2] = "name" /\ db_[j + 3] = "quote"
      /\ j + 4 <= q /\ db_[q] = "quote"
      /\ \A k \in j + 4 .. q - 1 : db_[k] # "quote"
  <2>1. /\ (c + 1) + 1 = c + 2 /\ (c + 1) + 2 = c + 3 /\ (c + 1) + 3 = c + 4
        /\ (c + 1) + 4 = (c + 4) + 1
    OBVIOUS
  <2> QED BY <2>1 DEF FeatureAt
<1>1a. (c + 4) + 1 < i /\ i + 2 < j /\ j + 4 <= q
  BY <1>1 DEF NumberAt
<1>2. c + 5 < i /\ i + 2 < j /\ j + 4 <= q
  BY <1>1a
<1> PICK comma \in Nat, brace \in Nat : i = comma + 1 /\ j = brace + 1
  <2>1. i - 1 \in Nat /\ j - 1 \in Nat /\ i = (i - 1) + 1 /\ j = (j - 1) + 1
    BY <1>2
  <2> QED BY <2>1
<1>3. /\ i + 1 = comma + 2 /\ i + 2 = (comma + 2) + 1 /\ j + 1 = brace + 2 /\ j + 2 = brace + 3
      /\ j + 3 = brace + 4 /\ j + 4 = (brace + 4) + 1
      /\ comma < Len(db_) /\ brace < Len(db_) /\ c + 4 \in Nat /\ comma + 2 \in Nat /\ brace + 4 \in Nat
      /\ c + 4 <= Len(db_) /\ comma + 2 <= Len(db_) /\ brace + 4 <= Len(db_)
  BY <1>0, <1>2
<1>4. Begins(c)
  BY <1>1, <1>3, MatchBegins DEF Begins
<1>5. IsLong(c + 4) /\ Comma(c) = comma
  <2>1. NumberAt(db_, (c + 4) + 1, comma + 1, f[1]) /\ db_[comma + 1] \in Stops
    BY <1>1 DEF Stops
  <2> QED BY <1>3, <2>1, ReadNumber DEF Comma, Stops
<1>6. GoesOn(c)
  BY <1>1, <1>3, <1>5, MatchLongitude DEF GoesOn
<1>7. IsLong(comma + 2) /\ Brace(c) = brace
  <2>1. NumberAt(db_, (comma + 2) + 1, brace + 1, f[2]) /\ db_[brace + 1] \in Stops
    BY <1>1, <1>3 DEF Stops
  <2> QED BY <1>3, <1>5, <2>1, ReadNumber DEF Brace, Stops
<1>8. EndQuote(c) = q - 1
  <2> PICK e \in Nat : e + 1 = q
    <3>1. q - 1 \in Nat /\ (q - 1) + 1 = q
      BY <1>2
    <3> QED BY <3>1
  <2>1. e \in brace + 4 .. Len(db_) - 1
    BY <1>0, <1>2, <1>3
  <2>1a. db_[e + 1] \in {"quote"}
    BY <1>1
  <2>2. ASSUME NEW k \in brace + 4 .. e - 1 PROVE db_[k + 1] \notin {"quote"}
    <3>1. k + 1 \in j + 4 .. q - 1
      BY <1>3
    <3> QED BY <1>1, <3>1
  <2>3. ScanTo(brace + 4, {"quote"}) = e
    BY <1>3, <2>1, <2>1a, <2>2, ScanIs
  <2> QED BY <1>7, <2>3 DEF EndQuote
<1>9. Quote(c) = q
  <2>1. q - 1 # Len(db_) /\ (q - 1) + 1 = q
    BY <1>0
  <2> QED BY <1>8, <2>1 DEF Quote
<1>10. Named(c)
  <2>1. MatchAt(brace, <<"}", ",", "name", "quote">>)
    BY <1>1, <1>3, MatchName, ZenonT(60)
  <2>2. q # Len(db_)
    BY <1>0
  <2> QED BY <1>7, <1>9, <2>1, <2>2 DEF Named
<1> QED BY <1>4, <1>5, <1>6, <1>7, <1>9, <1>10 DEF Parses

-----------------------------------------------------------------------------
(***************************************************************************)
(* The invariant.                                                          *)
(***************************************************************************)
Text == RemoveSpaces(GetDbFileContent)

Coordinates == { ToInt(Value[c]) : c \in Numerals }
Features == Coordinates \X Coordinates \X Seq(Characters)

\* Places where a feature may end, of which the i-th begins after the one before.
Places == { p \in 3 .. Len(db_) : db_[p - 2] = "quote" }
Begin(end, i) == IF i = 1 THEN 2 ELSE end[i - 1] + 1

\* The i-th feature of list is there, and ends as the last one or as another.
Says(list, end, i) ==
  /\ IsFeature(SubSeq(db_, Begin(end, i), end[i] - 2), list[i])
  /\ \/ SubSeq(db_, end[i] - 1, end[i]) = <<"}", ",">>
     \/ i = Len(list) /\ end[i] = Len(db_) /\ db_[end[i]] = "]"

\* The text says list up to a place, with its features at end.
SaysUpTo(list, end, place) ==
  /\ end \in [1 .. Len(list) -> Places]
  /\ IF list = << >> THEN place = 1
     ELSE db_ # << >> /\ db_[1] = "[" /\ end[Len(list)] = place
  /\ \A i \in 1 .. Len(list) : Says(list, end, i)

\* Whatever list the text says, what was parsed are its first features.
OnTheWay ==
  \A list \in Lists : \A end : SaysUpTo(list, end, Len(db_)) /\ list # << >> =>
    feature_list = << >> \/ (/\ Len(feature_list) \in 1 .. Len(list)
                             /\ end[Len(feature_list)] = current_)

Types ==
  /\ file \in Seq(Characters)
  /\ argument \in {"none", "path", "other"}
  /\ phase \in {"start", "parsing", "loaded", "refused", "thrown"}
  /\ current_ \in Nat
  /\ feature_list \in Seq(Features)
  /\ db_ \in Seq(Characters)

InPhase ==
  /\ phase = "start" => feature_list = << >>
  /\ phase # "start" => db_ = Text
  /\ phase = "parsing" =>
       /\ current_ >= 1
       /\ failed_ = (db_ = << >> \/ db_[1] # "[")
       /\ \E end : SaysUpTo(feature_list, end, current_)
       /\ OnTheWay

IInv == Types /\ InPhase /\ InBounds /\ LoadsTheForm

-----------------------------------------------------------------------------
LEMMA FormIs ==
  ASSUME db_ \in Seq(Characters), NEW S, NEW list \in Seq(S), list # << >>
  PROVE  IsForm(db_, list) <=> \E end : SaysUpTo(list, end, Len(db_))
<1>1. DOMAIN list = 1 .. Len(list) /\ Len(list) \in Nat /\ Len(list) \in 1 .. Len(list)
  BY EmptySeq, LenProperties
<1>2. IsForm(db_, list) <=>
        /\ db_ # << >> /\ db_[1] = "["
        /\ \E end \in [1 .. Len(list) -> Places] :
             /\ end[Len(list)] = Len(db_)
             /\ \A i \in 1 .. Len(list) :
                  /\ IsFeature(SubSeq(db_, Begin(end, i), end[i] - 2), list[i])
                  /\ \/ SubSeq(db_, end[i] - 1, end[i]) = <<"}", ",">>
                     \/ i = Len(list) /\ db_[end[i]] = "]"
  BY <1>1 DEF IsForm, Places, Begin
<1>3. ASSUME NEW end \in [1 .. Len(list) -> Places], end[Len(list)] = Len(db_), NEW i \in 1 .. Len(list)
      PROVE  Says(list, end, i) <=>
               /\ IsFeature(SubSeq(db_, Begin(end, i), end[i] - 2), list[i])
               /\ \/ SubSeq(db_, end[i] - 1, end[i]) = <<"}", ",">>
                  \/ i = Len(list) /\ db_[end[i]] = "]"
  BY <1>3, Zenon DEF Says
<1>4. \A end : SaysUpTo(list, end, Len(db_)) <=>
        /\ end \in [1 .. Len(list) -> Places]
        /\ db_ # << >> /\ db_[1] = "[" /\ end[Len(list)] = Len(db_)
        /\ \A i \in 1 .. Len(list) : Says(list, end, i)
  BY Zenon DEF SaysUpTo
<1> QED BY <1>2, <1>3, <1>4, Zenon

LEMMA TextType ==
  ASSUME file \in Seq(Characters)
  PROVE  Text \in Seq(Characters)
<1>1. GetDbFileContent \in Seq(Characters)
  BY EmptySeq DEF GetDbFileContent
<1> QED BY <1>1, RemoveSpacesType DEF Text

LEMMA InitIInv == Init => IInv
<1> SUFFICES ASSUME Init PROVE IInv
  OBVIOUS
<1>1. << >> \in Seq(Features) /\ << >> \in Seq(Characters)
  BY EmptySeq
<1>2. Types
  BY <1>1, FilesAssumption DEF Init, Types
<1>3. InPhase /\ InBounds /\ LoadsTheForm
  BY DEF Init, InPhase, InBounds, LoadsTheForm
<1> QED BY <1>2, <1>3 DEF IInv

LEMMA ConstructKeeps == ASSUME IInv, Construct PROVE IInv'
<1>1. /\ phase = "start" /\ phase' = "parsing" /\ db_' = Text /\ current_' = 1
      /\ failed_' = (db_' = << >> \/ db_'[1] # "[")
      /\ UNCHANGED <<file, argument, feature_list, outside>>
  BY DEF Construct, Text
<1>2. feature_list = << >> /\ Text' = Text
  BY <1>1 DEF IInv, InPhase, Text, GetDbFileContent
<1>3. Types'
  BY <1>1, TextType DEF IInv, Types
<1>4. (\E end : SaysUpTo(feature_list, end, current_))'
  <2> DEFINE none == [i \in {} |-> 0]
  <2>1. Len(feature_list') = 0 /\ 1 .. Len(feature_list') = {}
    BY <1>1, <1>2, EmptySeq
  <2>2. none \in [{} -> Places']
    OBVIOUS
  <2> HIDE DEF none
  <2>3. SaysUpTo(feature_list, none, current_)'
    BY <1>1, <1>2, <2>1, <2>2 DEF SaysUpTo
  <2> QED BY <2>3
<1>5. OnTheWay'
  BY <1>1, <1>2 DEF OnTheWay
<1>6. InPhase'
  <2>1. phase' = "parsing" /\ current_' >= 1 /\ db_' = Text'
    BY <1>1, <1>2
  <2>2. failed_' = (db_' = << >> \/ db_'[1] # "[")
    BY <1>1
  <2> QED BY <1>4, <1>5, <2>1, <2>2, Zenon DEF InPhase
<1>7. InBounds' /\ LoadsTheForm'
  BY <1>1 DEF IInv, InBounds, LoadsTheForm
<1> QED BY <1>3, <1>6, <1>7 DEF IInv

\* The parser is where the next feature of a list begins that the text says, and
\* parses it.
LEMMA NextIsParsed ==
  ASSUME IInv, phase = "parsing", ~ Finished, NEW list \in Lists, list # << >>,
         NEW end, SaysUpTo(list, end, Len(db_))
  PROVE  /\ ~ failed_ /\ Parses(current_) /\ (Ends(current_) \/ Last(current_))
         /\ Len(feature_list) + 1 \in 1 .. Len(list)
         /\ end[Len(feature_list) + 1] = Quote(current_) + 2
<1> PICK k \in Nat : k = Len(feature_list)
  BY LenProperties DEF IInv, Types
<1>0. /\ db_ \in Seq(Characters) /\ Len(db_) \in Nat /\ current_ \in Nat /\ current_ >= 1
      /\ current_ < Len(db_)
  BY TextFacts DEF IInv, Types, InPhase, Finished
<1>1. /\ list \in Seq(Int \X Int \X Seq(Characters)) /\ Len(list) \in Nat
      /\ Len(list) \in 1 .. Len(list)
  <2>1. list \in Seq(Int \X Int \X Seq(Characters))
    BY ListsAssumption
  <2> QED BY <2>1, LenProperties, EmptySeq
<1>2. /\ end \in [1 .. Len(list) -> Places]
      /\ db_ # << >> /\ db_[1] = "[" /\ end[Len(list)] = Len(db_)
      /\ \A i \in 1 .. Len(list) : Says(list, end, i)
  BY Zenon DEF SaysUpTo
<1>3. ~ failed_
  BY <1>2 DEF IInv, InPhase
<1>4. k = 0 \/ (k \in 1 .. Len(list) /\ end[k] = current_)
  <2>1. feature_list = << >> \/ (k \in 1 .. Len(list) /\ end[k] = current_)
    BY DEF IInv, InPhase, OnTheWay
  <2> QED BY <2>1, EmptySeq
<1>5. k + 1 \in 1 .. Len(list)
  <2>1. k # Len(list)
    BY <1>0, <1>1, <1>2, <1>4
  <2> QED BY <1>1, <1>4, <2>1, SMTT(60)
<1>6. Begin(end, k + 1) = current_ + 1
  <2>1. CASE k = 0
    <3>1. feature_list = << >>
      BY <2>1, EmptySeq DEF IInv, Types
    <3>2. current_ = 1
      BY <3>1 DEF IInv, InPhase, SaysUpTo
    <3> QED BY <2>1, <3>2 DEF Begin
  <2>2. CASE k # 0
    <3>1. k + 1 # 1 /\ (k + 1) - 1 = k
      BY <2>2
    <3> QED BY <1>4, <2>2, <3>1 DEF Begin
  <2> QED BY <2>1, <2>2
<1> PICK e : e = end[k + 1]
  OBVIOUS
<1>7. e \in 3 .. Len(db_)
  BY <1>2, <1>5 DEF Places
<1> PICK f : f = list[k + 1]
  OBVIOUS
<1>8. f[3] \in Seq(Characters)
  BY <1>1, <1>5, ElementOfSeq
<1>9. /\ IsFeature(SubSeq(db_, current_ + 1, e - 2), f)
      /\ \/ SubSeq(db_, e - 1, e) = <<"}", ",">>
         \/ k + 1 = Len(list) /\ e = Len(db_) /\ db_[e] = "]"
  BY <1>2, <1>5, <1>6 DEF Says
<1> PICK q \in Nat : q = e - 2
  BY <1>7
<1>10. e = q + 2 /\ q < Len(db_) /\ q <= Len(db_) /\ q + 2 <= Len(db_) /\ e - 1 = q + 1
  BY <1>0, <1>7
<1>11. \E i \in Nat, j \in Nat : FeatureAt(db_, current_ + 1, i, j, q, f)
  <2>1. current_ + 1 \in Nat /\ 1 <= current_ + 1
    BY <1>0
  <2> QED BY <1>0, <1>8, <1>9, <1>10, <2>1, FeatureWithin
<1>12. Parses(current_) /\ Quote(current_) = q
  <2>1. PICK i \in Nat, j \in Nat : FeatureAt(db_, current_ + 1, i, j, q, f)
    BY <1>11
  <2> QED BY <1>0, <1>10, <2>1, FeatureIsParsed, SMTT(60)
<1>13. Ends(current_) \/ Last(current_)
  <2>1. SubSeq(db_, e - 1, e) = <<"}", ",">> => MatchAt(q, <<"}", ",">>)
    <3>1. Len(<<"}", ",">>) = 2
      OBVIOUS
    <3> QED BY <1>10, <3>1 DEF MatchAt
  <2>2. e = Len(db_) /\ db_[e] = "]" => q + 2 = Len(db_) /\ db_[q + 2] = "]"
    BY <1>10
  <2> QED BY <1>9, <1>12, <2>1, <2>2 DEF Ends, Last
<1> QED BY <1>3, <1>5, <1>10, <1>12, <1>13

\* A step of the parser, in the words used here.
Accepts == ~ failed_ /\ Parses(current_) /\ (Ends(current_) \/ Last(current_))

LEMMA StepIs ==
  ASSUME TryParseOne
  PROVE  /\ phase = "parsing" /\ ~ Finished /\ UNCHANGED <<file, argument, db_>>
         /\ \/ /\ Accepts /\ feature_list' = Append(feature_list, Parsed(current_))
               /\ current_' = Quote(current_) + 2
               /\ UNCHANGED <<failed_, phase>>
            \/ /\ ~ Accepts /\ phase' \in {"refused", "thrown"}
               /\ feature_list' = << >> \/ UNCHANGED feature_list
         /\ current_' = Quote(current_) + 2 \/ UNCHANGED current_
         /\ outside' = (outside \/ (/\ ~ failed_ /\ Parses(current_) /\ ~ Ends(current_)
                                    /\ Quote(current_) + 1 > Len(db_)))
<1> DEFINE parses == ~ failed_ /\ Parses(current_)
           ends == Ends(current_)
           last == Last(current_)
           throws == /\ ~ failed_ /\ Begins(current_)
                     /\ \/ ~ IsLong(current_ + 4)
                        \/ GoesOn(current_) /\ ~ IsLong(Comma(current_) + 2)
<1>1. /\ phase = "parsing" /\ ~ Finished /\ UNCHANGED <<file, argument, db_>>
      /\ \/ /\ parses /\ (ends \/ last)
            /\ feature_list' = Append(feature_list, Parsed(current_))
            /\ UNCHANGED <<failed_, phase>>
         \/ /\ throws
            /\ phase' = "thrown"
            /\ UNCHANGED <<failed_, feature_list>>
         \/ /\ ~ throws /\ ~ (parses /\ (ends \/ last))
            /\ failed_' = TRUE
            /\ feature_list' = << >>
            /\ phase' = "refused"
      /\ outside' = (outside \/ (parses /\ ~ ends /\ Quote(current_) + 1 > Len(db_)))
      /\ current_' = IF parses THEN Quote(current_) + 2 ELSE current_
  BY Zenon DEF TryParseOne, Parses, Begins, GoesOn, Named, Ends, Last, Parsed, Comma, Brace, EndQuote,
     Quote, NameEnds
<1>2. throws => ~ parses
  BY DEF Parses
<1> HIDE DEF parses, ends, last, throws
<1>3. Accepts <=> parses /\ (ends \/ last)
  BY DEF Accepts, parses, ends, last
<1>4. parses /\ ~ ends /\ Quote(current_) + 1 > Len(db_) <=>
        ~ failed_ /\ Parses(current_) /\ ~ Ends(current_) /\ Quote(current_) + 1 > Len(db_)
  BY DEF parses, ends
<1> QED BY <1>1, <1>2, <1>3, <1>4

\* Where the text is refused it has not the form.
LEMMA RefusedIsNoForm ==
  ASSUME IInv, phase = "parsing", ~ Finished, ~ Accepts, NEW list \in Lists
  PROVE  ~ IsForm(Text, list)
<1>0. /\ db_ = Text /\ db_ \in Seq(Characters) /\ Len(db_) \in Nat /\ current_ \in Nat
      /\ current_ >= 1 /\ current_ < Len(db_)
  BY TextFacts DEF IInv, Types, InPhase, Finished
<1>1. CASE list = << >>
  <2>1. ~ (Len(db_) <= 1)
    BY <1>0
  <2> QED BY <1>0, <1>1, <2>1 DEF IsForm
<1>2. CASE list # << >>
  <2>1. list \in Seq(Int \X Int \X Seq(Characters))
    BY ListsAssumption
  <2>2. IsForm(db_, list) <=> \E end : SaysUpTo(list, end, Len(db_))
    BY <1>0, <1>2, <2>1, FormIs
  <2>3. ASSUME NEW end, SaysUpTo(list, end, Len(db_)) PROVE FALSE
    BY <1>2, <2>3, NextIsParsed DEF Accepts
  <2> QED BY <1>0, <2>2, <2>3
<1> QED BY <1>1, <1>2

LEMMA ParsedType ==
  ASSUME db_ \in Seq(Characters), NEW c \in Nat, Parses(c)
  PROVE  Parsed(c) \in Features
<1>1. /\ db_[c + 4 + 1] \in Numerals /\ db_[Comma(c) + 2 + 1] \in Numerals
  BY DEF Parses, IsLong
<1>2. SubSeq(db_, Brace(c) + 4 + 1, Quote(c) - 1) \in Seq(Characters)
  <2>1. /\ Brace(c) + 4 + 1 \in Int /\ Quote(c) - 1 \in Int
        /\ \A i \in Brace(c) + 4 + 1 .. Quote(c) - 1 : i \in 1 .. Len(db_)
    <3> PICK b \in Nat, q \in Nat : b = Brace(c) /\ q = Quote(c) /\ q <= Len(db_)
      BY PlaceTypes
    <3>1. /\ b + 4 + 1 \in Int /\ q - 1 \in Int
          /\ \A i \in b + 4 + 1 .. q - 1 : i \in 1 .. Len(db_)
      BY TextFacts
    <3> QED BY <3>1
  <2>2. \A i \in Brace(c) + 4 + 1 .. Quote(c) - 1 : db_[i] \in Characters
    BY <2>1, TextFacts
  <2> QED BY <2>1, <2>2, SubSeqProperties
<1> QED BY <1>1, <1>2 DEF Parsed, Features, Coordinates

\* The next feature is read where it is said.
LEMMA SaysNext ==
  ASSUME IInv, phase = "parsing", ~ Finished, Accepts
  PROVE  \E end : SaysUpTo(Append(feature_list, Parsed(current_)), end, Quote(current_) + 2)
<1> DEFINE list == Append(feature_list, Parsed(current_))
<1> PICK k \in Nat : k = Len(feature_list)
  BY LenProperties DEF IInv, Types
<1> PICK q \in Nat, c \in Nat : q = Quote(current_) /\ c = current_
  BY PlaceTypes DEF IInv, Types
<1>0. /\ db_ \in Seq(Characters) /\ Len(db_) \in Nat /\ c >= 1 /\ c < Len(db_)
      /\ ~ failed_ /\ Parses(c) /\ (Ends(c) \/ Last(c)) /\ feature_list \in Seq(Features)
  BY TextFacts DEF IInv, Types, InPhase, Finished, Accepts
<1>1. PICK old : SaysUpTo(feature_list, old, current_)
  BY DEF IInv, InPhase
<1>2. /\ list \in Seq(Features) /\ Len(list) = k + 1 /\ list[k + 1] = Parsed(c)
      /\ \A i \in 1 .. k : list[i] = feature_list[i]
  <2> HIDE DEF list
  <2>1. Parsed(c) \in Features
    BY <1>0, ParsedType
  <2> QED BY <1>0, <2>1, AppendProperties DEF list
<1>3. /\ q + 1 <= Len(db_)
      /\ FeatureAt(db_, c + 1, Comma(c) + 1, Brace(c) + 1, q, Parsed(c))
  BY <1>0, ParsedIsFeature
<1> PICK comma \in Nat, brace \in Nat : comma = Comma(c) + 1 /\ brace = Brace(c) + 1
  <2>1. Comma(c) \in Nat /\ Brace(c) \in Nat
    BY <1>0, PlaceTypes
  <2> QED BY <2>1
<1>3a. q <= Len(db_) /\ FeatureAt(db_, c + 1, comma, brace, q, Parsed(c))
  BY <1>0, <1>3, PlaceTypes
<1>4. /\ IsFeature(SubSeq(db_, c + 1, q), Parsed(c)) /\ db_[q] = "quote"
  <2>1. Parsed(c)[3] \in Seq(Characters)
    BY <1>0, ParsedType DEF Features
  <2>2. c + 1 \in Nat /\ 1 <= c + 1
    OBVIOUS
  <2>3. IsFeature(SubSeq(db_, c + 1, q), Parsed(c))
    BY <1>0, <1>3a, <2>1, <2>2, FeatureWithin
  <2> QED BY <1>3a, <2>3 DEF FeatureAt
<1>5. q + 2 \in Places
  <2>1. q + 2 <= Len(db_)
    <3>1. CASE Ends(c)
      <4>1. Len(<<"}", ",">>) = 2
        OBVIOUS
      <4> QED BY <3>1, <4>1 DEF Ends, MatchAt
    <3>2. CASE Last(c)
      BY <1>0, <3>2 DEF Last
    <3> QED BY <1>0, <3>1, <3>2
  <2>2. q >= 1
    <3>1. brace + 4 <= q
      BY <1>3a DEF FeatureAt
    <3> QED BY <3>1
  <2>3. q + 2 \in 3 .. Len(db_) /\ (q + 2) - 2 = q
    BY <1>0, <2>1, <2>2
  <2> QED BY <1>4, <2>3 DEF Places
<1> DEFINE end == [i \in 1 .. k + 1 |-> IF i = k + 1 THEN q + 2 ELSE old[i]]
<1>6. old \in [1 .. k -> Places] /\ \A i \in 1 .. k : Says(feature_list, old, i)
  BY <1>1 DEF SaysUpTo
<1>7. /\ end \in [1 .. k + 1 -> Places] /\ end[k + 1] = q + 2
      /\ \A i \in 1 .. k : end[i] = old[i]
  <2>1. \A i \in 1 .. k + 1 : i = k + 1 \/ i \in 1 .. k
    OBVIOUS
  <2>2. k + 1 \in 1 .. k + 1 /\ \A i \in 1 .. k : i \in 1 .. k + 1 /\ i # k + 1
    OBVIOUS
  <2> HIDE DEF Places
  <2> QED BY <1>5, <1>6, <2>1, <2>2
<1> HIDE DEF list, end
<1>8. Begin(end, k + 1) = c + 1
  <2>1. CASE k = 0
    <3>1. feature_list = << >>
      BY <1>0, <2>1, EmptySeq
    <3>2. c = 1
      BY <1>1, <3>1 DEF SaysUpTo
    <3> QED BY <2>1, <3>2 DEF Begin
  <2>2. CASE k # 0
    <3>1. k + 1 # 1 /\ (k + 1) - 1 = k /\ k \in 1 .. k
      BY <2>2
    <3>2. old[k] = c
      <4>1. feature_list # << >>
        BY <2>2, EmptySeq
      <4> QED BY <1>1, <4>1 DEF SaysUpTo
    <3> QED BY <1>7, <3>1, <3>2 DEF Begin
  <2> QED BY <2>1, <2>2
<1>9. Says(list, end, k + 1)
  <2>1. (q + 2) - 2 = q /\ (q + 2) - 1 = q + 1
    OBVIOUS
  <2>2. Ends(c) => SubSeq(db_, q + 1, q + 2) = <<"}", ",">>
    <3>1. Len(<<"}", ",">>) = 2
      OBVIOUS
    <3> QED BY <3>1 DEF Ends, MatchAt
  <2>3. Last(c) => q + 2 = Len(db_) /\ db_[q + 2] = "]"
    BY DEF Last
  <2> QED BY <1>0, <1>2, <1>4, <1>7, <1>8, <2>1, <2>2, <2>3 DEF Says
<1>10. ASSUME NEW n \in 1 .. k PROVE Says(list, end, n)
  <2>1. Begin(end, n) = Begin(old, n)
    <3>1. n = 1 \/ n - 1 \in 1 .. k
      OBVIOUS
    <3> QED BY <1>7, <3>1 DEF Begin
  <2>2. n # k + 1 /\ (n = k => k \in 1 .. k /\ k # 0)
    OBVIOUS
  <2>3. n = k => old[n] = c
    <3>1. n = k => feature_list # << >>
      BY <2>2, EmptySeq
    <3> QED BY <1>1, <3>1 DEF SaysUpTo
  <2>4. Says(feature_list, old, n)
    BY <1>6
  <2>5. ~ (n = k /\ old[n] = Len(db_))
    BY <1>0, <2>3
  <2> QED BY <1>2, <1>7, <2>1, <2>2, <2>4, <2>5 DEF Says
<1>11. SaysUpTo(list, end, q + 2)
  <2>1. list # << >>
    BY <1>2, EmptySeq
  <2>2. db_ # << >> /\ db_[1] = "["
    BY <1>0 DEF IInv, InPhase
  <2>3. \A i \in 1 .. k + 1 : i = k + 1 \/ i \in 1 .. k
    OBVIOUS
  <2> QED BY <1>2, <1>7, <1>9, <1>10, <2>1, <2>2, <2>3 DEF SaysUpTo
<1> QED BY <1>11 DEF list

-----------------------------------------------------------------------------
(***************************************************************************)
(* The invariant is kept.                                                  *)
(***************************************************************************)
\* No test of the parser reads beyond the terminating null.
LEMMA StaysInBounds == ASSUME IInv, TryParseOne PROVE InBounds'
<1>1. /\ ~ outside
      /\ outside' = (outside \/ (/\ ~ failed_ /\ Parses(current_) /\ ~ Ends(current_)
                                 /\ Quote(current_) + 1 > Len(db_)))
  BY StepIs DEF IInv, InBounds
<1>2. Parses(current_) => ~ (Quote(current_) + 1 > Len(db_))
  <2>1. Quote(current_) \in Nat /\ Len(db_) \in Nat
    BY PlaceTypes, TextFacts DEF IInv, Types
  <2>2. Parses(current_) => Quote(current_) + 1 <= Len(db_)
    BY ParsedIsFeature DEF IInv, Types
  <2> QED BY <2>1, <2>2
<1> QED BY <1>1, <1>2 DEF InBounds

LEMMA AcceptKeeps == ASSUME IInv, TryParseOne, Accepts PROVE IInv'
<1>1. /\ phase = "parsing" /\ ~ Finished
      /\ UNCHANGED <<file, argument, db_, failed_, phase>>
      /\ feature_list' = Append(feature_list, Parsed(current_))
      /\ current_' = Quote(current_) + 2
  BY StepIs
<1>2. /\ db_ \in Seq(Characters) /\ current_ \in Nat /\ feature_list \in Seq(Features)
      /\ Parses(current_) /\ Quote(current_) \in Nat
  BY PlaceTypes DEF IInv, Types, Accepts
<1>3. /\ feature_list' \in Seq(Features) /\ Len(feature_list') = Len(feature_list) + 1
      /\ current_' \in Nat /\ current_' >= 1
  <2>1. Parsed(current_) \in Features
    BY <1>2, ParsedType
  <2>2. /\ feature_list' \in Seq(Features) /\ Len(feature_list') = Len(feature_list) + 1
    BY <1>1, <1>2, <2>1, AppendProperties
  <2>3. current_' \in Nat /\ current_' >= 1
    BY <1>1, <1>2
  <2> QED BY <2>2, <2>3
<1>4. Types'
  BY <1>1, <1>2, <1>3 DEF IInv, Types
<1>5. (\E end : SaysUpTo(feature_list, end, current_))'
  <2>1. PICK end : SaysUpTo(Append(feature_list, Parsed(current_)), end, Quote(current_) + 2)
    BY <1>1, SaysNext
  <2>2. SaysUpTo(feature_list, end, current_)'
    BY <1>1, <2>1 DEF SaysUpTo, Places, Says, Begin
  <2> QED BY <2>2
<1>6. OnTheWay'
  <2> SUFFICES ASSUME NEW list \in Lists, NEW end, SaysUpTo(list, end, Len(db_))', list # << >>
               PROVE  /\ Len(feature_list') \in 1 .. Len(list)
                      /\ end[Len(feature_list')] = current_'
    BY DEF OnTheWay
  <2>1. SaysUpTo(list, end, Len(db_))
    BY <1>1 DEF SaysUpTo, Places, Says, Begin
  <2> QED BY <1>1, <1>3, <2>1, NextIsParsed
<1>7. InPhase'
  <2>1. db_' = Text'
    BY <1>1 DEF IInv, InPhase, Text, GetDbFileContent
  <2>2. failed_' = (db_' = << >> \/ db_'[1] # "[")
    BY <1>1 DEF IInv, InPhase
  <2>3. phase' = "parsing"
    BY <1>1
  <2> QED BY <1>3, <1>5, <1>6, <2>1, <2>2, <2>3, Zenon DEF InPhase
<1>8. LoadsTheForm'
  BY <1>1 DEF LoadsTheForm
<1> QED BY <1>4, <1>7, <1>8, StaysInBounds DEF IInv

LEMMA RefuseKeeps == ASSUME IInv, TryParseOne, ~ Accepts PROVE IInv'
<1>1. /\ phase = "parsing" /\ ~ Finished /\ phase' \in {"refused", "thrown"}
      /\ UNCHANGED <<file, argument, db_>>
      /\ feature_list' = << >> \/ UNCHANGED feature_list
      /\ current_' = Quote(current_) + 2 \/ UNCHANGED current_
  BY StepIs
<1>2. Text' = Text /\ db_ = Text
  BY <1>1 DEF IInv, InPhase, Text, GetDbFileContent
<1>3. Types'
  <2>1. Quote(current_) \in Nat
    BY PlaceTypes DEF IInv, Types
  <2>2. Quote(current_) + 2 \in Nat
    BY <2>1
  <2> QED BY <1>1, <2>2, EmptySeq DEF IInv, Types
<1>4. InPhase'
  BY <1>1, <1>2 DEF InPhase
<1>5. LoadsTheForm'
  <2>1. \A list \in Lists : ~ IsForm(Text, list)
    BY <1>1, RefusedIsNoForm
  <2>2. \A list \in Lists : ~ IsForm(Text', list)
    BY <1>2, <2>1
  <2> QED BY <1>1, <2>2 DEF LoadsTheForm, Text
<1> QED BY <1>3, <1>4, <1>5, StaysInBounds DEF IInv

LEMMA LoadKeeps == ASSUME IInv, Load PROVE IInv'
<1>1. /\ phase = "parsing" /\ Finished /\ phase' = "loaded"
      /\ UNCHANGED <<file, argument, db_, current_, failed_, feature_list, outside>>
  BY DEF Load
<1>2. Text' = Text /\ db_ = Text
  BY <1>1 DEF IInv, InPhase, Text, GetDbFileContent
<1>3. Types' /\ InPhase' /\ InBounds'
  BY <1>1, <1>2 DEF IInv, Types, InPhase, InBounds
<1>4. IsForm(db_, feature_list)
  <2>0. db_ \in Seq(Characters) /\ Len(db_) \in Nat /\ feature_list \in Seq(Features)
        /\ current_ \in Nat /\ current_ >= Len(db_)
    BY <1>1, TextFacts DEF IInv, Types, Finished
  <2>1. PICK end : SaysUpTo(feature_list, end, current_)
    BY <1>1 DEF IInv, InPhase
  <2>2. CASE feature_list = << >>
    <3>1. current_ = 1
      BY <2>1, <2>2 DEF SaysUpTo
    <3>2. Len(db_) <= 1
      BY <2>0, <3>1
    <3> QED BY <2>2, <3>2 DEF IsForm
  <2>3. CASE feature_list # << >>
    <3>1. current_ \in Places
      <4>1. end \in [1 .. Len(feature_list) -> Places] /\ end[Len(feature_list)] = current_
        BY <2>1, <2>3 DEF SaysUpTo
      <4>2. Len(feature_list) \in 1 .. Len(feature_list)
        BY <2>0, <2>3, LenProperties, EmptySeq
      <4> QED BY <4>1, <4>2
    <3>2. current_ = Len(db_)
      <4>1. current_ <= Len(db_)
        BY <2>0, <3>1 DEF Places
      <4> QED BY <2>0, <4>1
    <3> QED BY <2>0, <2>1, <2>3, <3>2, FormIs
  <2> QED BY <2>2, <2>3
<1>5. LoadsTheForm'
  <2>1. IsForm(Text', feature_list')
    BY <1>1, <1>2, <1>4
  <2> QED BY <1>1, <2>1 DEF LoadsTheForm, Text
<1> QED BY <1>3, <1>5 DEF IInv

LEMMA StutterKeeps == ASSUME IInv, UNCHANGED vars PROVE IInv'
<1>1. UNCHANGED <<file, argument, db_, current_, failed_, feature_list, phase, outside>>
  BY DEF vars
<1>2. Text' = Text
  BY <1>1 DEF Text, GetDbFileContent
<1>3. Types' /\ InBounds'
  BY <1>1 DEF IInv, Types, InBounds
<1>4. LoadsTheForm'
  BY <1>1, <1>2 DEF IInv, LoadsTheForm, Text
<1>5. OnTheWay' <=> OnTheWay
  BY <1>1 DEF OnTheWay, SaysUpTo, Places, Says, Begin
<1>6. (\E end : SaysUpTo(feature_list, end, current_))' <=>
        \E end : SaysUpTo(feature_list, end, current_)
  BY <1>1 DEF SaysUpTo, Places, Says, Begin
<1>7. InPhase'
  BY <1>1, <1>2, <1>5, <1>6 DEF IInv, InPhase
<1> QED BY <1>3, <1>4, <1>7 DEF IInv

LEMMA NextKeeps == ASSUME IInv, [Next]_vars PROVE IInv'
BY ConstructKeeps, AcceptKeeps, RefuseKeeps, LoadKeeps, StutterKeeps DEF Next

LEMMA Inductive == Spec => []IInv
BY InitIInv, NextKeeps, PTL DEF Spec

-----------------------------------------------------------------------------
\* The parser is sound and complete for the form: a list is loaded only from a text
\* that has the form and says just this list, and no list is said by a text that is
\* refused, for any file, any numbers and any list.
THEOREM LoadsJustTheForm == Spec => []LoadsTheForm
<1>1. IInv => LoadsTheForm
  BY DEF IInv
<1> QED BY <1>1, Inductive, PTL

\* No character after the terminating null is read, wherever a text of any length ends.
THEOREM ReadsInBounds == Spec => []InBounds
<1>1. IInv => InBounds
  BY DEF IInv
<1> QED BY <1>1, Inductive, PTL
=============================================================================
