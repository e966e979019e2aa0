------------------------------ MODULE KeyProofs ------------------------------
(* Theorems about KeyText and IdentityKeys: the keys of no two identities, and *)
(* of no two rate-limit buckets, are one text, whatever texts they are made of. *)
EXTENDS IdentityKeys, SequenceTheorems, WellFoundedInduction, TLAPS

-----------------------------------------------------------------------------
(* Induction over the numbers of a set, by its least missing number. *)

LEMMA NatSetInduction ==
  ASSUME NEW G, 0 \in G, \A n \in Nat : n \in G => n + 1 \in G
  PROVE  \A n \in Nat : n \in G
<1> DEFINE R == OpToRel(<, Nat)
           T == {n \in Nat : n \notin G}
<1> SUFFICES ASSUME T # {} PROVE FALSE
  OBVIOUS
<1>1. T \subseteq Nat
  OBVIOUS
<1>2. IsWellFoundedOn(R, Nat)
  BY NatLessThanWellFounded
<1>3. \E x \in T : \A y \in T : ~(<<y, x>> \in R)
  <2> HIDE DEF R, T
  <2> QED BY <1>1, <1>2, WFMin
<1>4. PICK x \in T : \A y \in T : ~(<<y, x>> \in R)
  BY <1>3
<1> HIDE DEF R
<1>5. x - 1 \in Nat /\ (x - 1) + 1 = x
  OBVIOUS
<1>6. <<x - 1, x>> \in R
  BY <1>5 DEF R, OpToRel
<1>7. x - 1 \in G
  BY <1>4, <1>5, <1>6
<1> QED BY <1>5, <1>7

-----------------------------------------------------------------------------
(* What FlattenSeq computes, piece by piece. *)

Joins(g, e, cat, pieces, n) ==
  g[0] = e /\ \A i \in 1 .. n : g[i] = cat[g[i - 1]][pieces[i]]

LEMMA JoinExists ==
  ASSUME NEW X, NEW e \in X, NEW cat \in [X -> [X -> X]],
         NEW n \in Nat, NEW pieces \in [1 .. n -> X]
  PROVE  \E g \in [0 .. n -> X] : Joins(g, e, cat, pieces, n)
<1> DEFINE Reached(m) == m <= n => \E g \in [0 .. m -> X] : Joins(g, e, cat, pieces, m)
           G == {m \in Nat : Reached(m)}
<1>1. Reached(0)
  <2>1. Joins([i \in 0 .. 0 |-> e], e, cat, pieces, 0)
    BY DEF Joins
  <2> QED BY <2>1
<1>2. ASSUME NEW m \in Nat, Reached(m) PROVE Reached(m + 1)
  <2> SUFFICES ASSUME m + 1 <= n
               PROVE  \E g \in [0 .. m + 1 -> X] : Joins(g, e, cat, pieces, m + 1)
    OBVIOUS
  <2>1. PICK g \in [0 .. m -> X] : Joins(g, e, cat, pieces, m)
    BY <1>2
  <2> DEFINE h == [i \in 0 .. m + 1 |-> IF i <= m THEN g[i] ELSE cat[g[m]][pieces[m + 1]]]
  <2>2. h \in [0 .. m + 1 -> X]
    OBVIOUS
  <2>3. Joins(h, e, cat, pieces, m + 1)
    BY <2>1 DEF Joins
  <2> QED BY <2>2, <2>3
<1> HIDE DEF Reached
<1>3. 0 \in G /\ \A m \in Nat : m \in G => m + 1 \in G
  BY <1>1, <1>2
<1>4. \A m \in Nat : m \in G
  <2> HIDE DEF G
  <2> QED BY <1>3, NatSetInduction
<1> QED BY <1>4 DEF Reached

LEMMA FlattenSteps ==
  ASSUME NEW S, NEW n \in Nat, NEW seqs \in [1 .. n -> Seq(S)]
  PROVE  \E f \in [0 .. n -> Seq(S)] :
           /\ f[0] = <<>>
           /\ \A i \in 1 .. n : f[i] = f[i - 1] \o seqs[i]
           /\ FlattenSeq(seqs) = f[n]
<1> DEFINE X == Seq(S)
           empty == <<>>
           Cat(a, b) == a \o b
           Body(h) == [i \in 1 .. n |-> IF i = 1 THEN seqs[i] ELSE Cat(h[i - 1], seqs[i])]
           flatten == CHOOSE h : h = Body(h)
<1>1. Len(seqs) = n
  OBVIOUS
<1>2. empty \in X /\ \A x, y \in X : Cat(x, y) \in X /\ Cat(empty, y) = y
  BY ConcatProperties, ConcatEmptySeq
<1>3. FlattenSeq(seqs) = IF n = 0 THEN empty ELSE flatten[n]
  BY <1>1 DEF FlattenSeq
<1> SUFFICES \E f \in [0 .. n -> X] :
               /\ f[0] = empty
               /\ \A i \in 1 .. n : f[i] = Cat(f[i - 1], seqs[i])
               /\ (IF n = 0 THEN empty ELSE flatten[n]) = f[n]
  BY <1>3
<1> HIDE DEF X, empty, Cat
<1>4. PICK g \in [0 .. n -> X] :
        g[0] = empty /\ \A i \in 1 .. n : g[i] = Cat(g[i - 1], seqs[i])
  <2> DEFINE cat == [x \in X |-> [y \in X |-> Cat(x, y)]]
  <2>1. cat \in [X -> [X -> X]]
    BY <1>2
  <2>2. empty \in X /\ seqs \in [1 .. n -> X]
    BY <1>2 DEF X
  <2>3. PICK g \in [0 .. n -> X] : Joins(g, empty, cat, seqs, n)
    <3> HIDE DEF cat
    <3> QED BY <2>1, <2>2, JoinExists
  <2>4. ASSUME NEW i \in 1 .. n PROVE g[i] = Cat(g[i - 1], seqs[i])
    <3>1. g[i - 1] \in X /\ seqs[i] \in X
      BY <2>2
    <3>2. g[i] = cat[g[i - 1]][seqs[i]]
      BY <2>3 DEF Joins
    <3> QED BY <3>1, <3>2
  <2>5. g[0] = empty
    BY <2>3 DEF Joins
  <2> QED BY <2>4, <2>5
<1>5. \E h : h = Body(h)
  <2> DEFINE h == [i \in 1 .. n |-> g[i]]
  <2>1. ASSUME NEW i \in 1 .. n
        PROVE  g[i] = IF i = 1 THEN seqs[i] ELSE Cat(h[i - 1], seqs[i])
    <3>1. CASE i = 1
      <4>1. seqs[i] \in X
        BY DEF X
      <4> QED BY <1>2, <1>4, <3>1, <4>1
    <3>2. CASE i # 1
      BY <1>4, <3>2
    <3> QED BY <3>1, <3>2
  <2>2. h = Body(h)
    BY <2>1
  <2> QED BY <2>2
<1>6. flatten = Body(flatten)
  <2> HIDE DEF Body
  <2> QED BY <1>5
<1> HIDE DEF flatten
<1>7. \A i \in 1 .. n : flatten[i] = IF i = 1 THEN seqs[i] ELSE Cat(flatten[i - 1], seqs[i])
  BY <1>6
<1>8. \A i \in 1 .. n : flatten[i] = g[i]
  <2> DEFINE G == {m \in Nat : m \in 1 .. n => flatten[m] = g[m]}
  <2>1. 0 \in G
    OBVIOUS
  <2>2. ASSUME NEW m \in Nat, m \in G PROVE m + 1 \in G
    <3> SUFFICES ASSUME m + 1 <= n PROVE flatten[m + 1] = g[m + 1]
      OBVIOUS
    <3>1. CASE m = 0
      <4>1. seqs[1] \in X
        BY <3>1 DEF X
      <4> QED BY <1>2, <1>4, <1>7, <3>1, <4>1
    <3>2. CASE m > 0
      BY <1>4, <1>7, <2>2, <3>2
    <3> QED BY <3>1, <3>2
  <2>3. \A m \in Nat : m \in G
    <3> HIDE DEF G
    <3> QED BY <2>1, <2>2, NatSetInduction
  <2> QED BY <2>3
<1>9. (IF n = 0 THEN empty ELSE flatten[n]) = g[n]
  BY <1>4, <1>8
<1> WITNESS g \in [0 .. n -> X]
<1> QED BY <1>4, <1>9

-----------------------------------------------------------------------------
(* What is written in pieces, none of which begins another, reads back. *)

IsPrefixOf(a, b) == Len(a) <= Len(b) /\ \A p \in 1 .. Len(a) : b[p] = a[p]

\* f holds what FlattenSeq has written after each piece of s.
Flattens(f, s, S) ==
  /\ f \in [0 .. Len(s) -> Seq(S)]
  /\ f[0] = <<>>
  /\ \A i \in 1 .. Len(s) : f[i] = f[i - 1] \o s[i]
  /\ FlattenSeq(s) = f[Len(s)]

LEMMA Flattening ==
  ASSUME NEW S, NEW s \in Seq(Seq(S))
  PROVE  \E f : Flattens(f, s, S)
<1>1. Len(s) \in Nat /\ s \in [1 .. Len(s) -> Seq(S)]
  OBVIOUS
<1>2. PICK f \in [0 .. Len(s) -> Seq(S)] :
        /\ f[0] = <<>>
        /\ \A i \in 1 .. Len(s) : f[i] = f[i - 1] \o s[i]
        /\ FlattenSeq(s) = f[Len(s)]
  BY <1>1, FlattenSteps
<1> QED BY <1>2 DEF Flattens

LEMMA FlattenGrows ==
  ASSUME NEW S, NEW s \in Seq(Seq(S)), NEW f, Flattens(f, s, S), NEW m \in 0 .. Len(s)
  PROVE  IsPrefixOf(f[m], FlattenSeq(s))
<1> DEFINE G == {j \in Nat : m + j <= Len(s) => IsPrefixOf(f[m], f[m + j])}
<1>1. Len(s) \in Nat /\ m \in Nat
  OBVIOUS
<1>2. \A i \in 0 .. Len(s) : f[i] \in Seq(S)
  BY DEF Flattens
<1>3. 0 \in G
  BY <1>1, <1>2 DEF IsPrefixOf
<1>4. ASSUME NEW j \in Nat, j \in G PROVE j + 1 \in G
  <2> SUFFICES ASSUME m + j + 1 <= Len(s) PROVE IsPrefixOf(f[m], f[m + j + 1])
    BY <1>1
  <2>1. IsPrefixOf(f[m], f[m + j])
    BY <1>1, <1>4
  <2> DEFINE a == f[m + j]
             b == s[m + j + 1]
  <2>2. m + j + 1 \in 1 .. Len(s) /\ (m + j + 1) - 1 = m + j
    BY <1>1
  <2>3. f[m + j + 1] = a \o b
    BY <2>2 DEF Flattens
  <2>4. f[m] \in Seq(S) /\ a \in Seq(S)
    BY <1>1, <1>2
  <2>5. b \in Seq(S)
    BY <2>2
  <2> HIDE DEF a, b, G
  <2>6. IsPrefixOf(f[m], a)
    BY <2>1 DEF a
  <2>7. /\ Len(a \o b) = Len(a) + Len(b)
        /\ \A i \in 1 .. Len(a) + Len(b) : (a \o b)[i] = IF i <= Len(a) THEN a[i]
                                                            ELSE b[i - Len(a)]
    BY <2>4, <2>5, ConcatProperties
  <2>8. Len(a) \in Nat /\ Len(b) \in Nat /\ Len(f[m]) \in Nat
    BY <2>4, <2>5
  <2>9. IsPrefixOf(f[m], a \o b)
    BY <2>6, <2>7, <2>8 DEF IsPrefixOf
  <2> QED BY <2>3, <2>9
<1>5. \A j \in Nat : j \in G
  <2> HIDE DEF G
  <2> QED BY <1>3, <1>4, NatSetInduction
<1>6. PICK j \in Nat : m + j = Len(s)
  <2>1. Len(s) - m \in Nat /\ m + (Len(s) - m) = Len(s)
    BY <1>1
  <2> QED BY <2>1
<1>7. IsPrefixOf(f[m], f[Len(s)])
  <2>1. m + j <= Len(s) => IsPrefixOf(f[m], f[m + j])
    BY <1>5
  <2>2. m + j <= Len(s)
    BY <1>1, <1>6
  <2>3. f[m + j] = f[Len(s)]
    BY <1>6
  <2> QED BY <2>1, <2>2, <2>3
<1> QED BY <1>7 DEF Flattens

LEMMA SameCharactersPrefix ==
  ASSUME NEW S, NEW u \in Seq(S), NEW v \in Seq(S), IsPrefixOf(u, v)
  PROVE  IsPrefix(u, v)
<1>1. Len(u) \in Nat /\ Len(v) \in Nat /\ Len(u) <= Len(v)
  BY DEF IsPrefixOf
<1> DEFINE a == SubSeq(u, 1, Len(u))
           b == SubSeq(v, 1, Len(u))
<1>2. a \in Seq(S) /\ Len(a) = Len(u) /\ \A p \in 1 .. Len(u) : a[p] = u[p]
  BY <1>1, SubSeqProperties
<1>3. b \in Seq(S) /\ Len(b) = Len(u) /\ \A p \in 1 .. Len(u) : b[p] = v[p]
  BY <1>1, SubSeqProperties
<1> HIDE DEF a, b
<1>4. a = b
  BY <1>2, <1>3, SeqEqual DEF IsPrefixOf
<1> QED BY <1>1, <1>4 DEF IsPrefix, a, b

\* Of two texts that continue a third one alike, one begins the other.
LEMMA ContinuationsCompare ==
  ASSUME NEW S, NEW a \in Seq(S), NEW u \in Seq(S), NEW v \in Seq(S), NEW e,
         IsPrefixOf(a \o u, e), IsPrefixOf(a \o v, e)
  PROVE  IsPrefix(u, v) \/ IsPrefix(v, u)
<1>1. Len(a) \in Nat /\ Len(u) \in Nat /\ Len(v) \in Nat
  OBVIOUS
<1>2. \A p \in 1 .. Len(u) : e[Len(a) + p] = u[p]
  <2>1. /\ Len(a \o u) = Len(a) + Len(u)
        /\ \A p \in 1 .. Len(u) : (a \o u)[Len(a) + p] = u[p]
    BY <1>1, ConcatProperties
  <2> QED BY <1>1, <2>1 DEF IsPrefixOf
<1>3. \A p \in 1 .. Len(v) : e[Len(a) + p] = v[p]
  <2>1. /\ Len(a \o v) = Len(a) + Len(v)
        /\ \A p \in 1 .. Len(v) : (a \o v)[Len(a) + p] = v[p]
    BY <1>1, ConcatProperties
  <2> QED BY <1>1, <2>1 DEF IsPrefixOf
<1>4. CASE Len(u) <= Len(v)
  <2>1. IsPrefixOf(u, v)
    BY <1>1, <1>2, <1>3, <1>4 DEF IsPrefixOf
  <2> QED BY <2>1, SameCharactersPrefix
<1>5. CASE Len(v) <= Len(u)
  <2>1. IsPrefixOf(v, u)
    BY <1>1, <1>2, <1>3, <1>5 DEF IsPrefixOf
  <2> QED BY <2>1, SameCharactersPrefix
<1> QED BY <1>1, <1>4, <1>5

IsPrefixCode(P, S) ==
  /\ P \subseteq Seq(S)
  /\ \A a \in P : a # <<>>
  /\ \A a, b \in P : IsPrefix(a, b) => a = b

\* As long as two lists of pieces agree so does what they write, and where they
\* part, two pieces begin at the same place.
LEMMA PiecesGoOn ==
  ASSUME NEW S, NEW P, IsPrefixCode(P, S), NEW s \in Seq(P), NEW t \in Seq(P),
         NEW f, NEW g, Flattens(f, s, S), Flattens(g, t, S), FlattenSeq(s) = FlattenSeq(t),
         NEW i \in Nat, i < Len(s), i <= Len(t), f[i] = g[i]
  PROVE  i < Len(t) /\ s[i + 1] = t[i + 1] /\ f[i + 1] = g[i + 1]
<1> DEFINE e == FlattenSeq(s)
           a == f[i]
           u == s[i + 1]
           v == t[i + 1]
<1>1. i + 1 \in 1 .. Len(s) /\ (i + 1) - 1 = i /\ Len(t) \in Nat
  OBVIOUS
<1>2. s \in Seq(Seq(S)) /\ t \in Seq(Seq(S))
  <2>1. P \subseteq Seq(S)
    BY DEF IsPrefixCode
  <2> QED BY <2>1, SeqMonotonic
<1>3. u \in P /\ a \in Seq(S) /\ u \in Seq(S) /\ f[i + 1] = a \o u
  <2>1. u \in P
    BY <1>1
  <2>2. a \in Seq(S)
    <3>1. i \in 0 .. Len(s)
      BY <1>1
    <3> QED BY <3>1 DEF Flattens
  <2>3. f[i + 1] = a \o u
    BY <1>1 DEF Flattens
  <2> QED BY <2>1, <2>2, <2>3 DEF IsPrefixCode
<1>4. IsPrefixOf(a \o u, e)
  <2>1. i + 1 \in 0 .. Len(s)
    BY <1>1
  <2>2. IsPrefixOf(f[i + 1], FlattenSeq(s))
    BY <1>2, <2>1, FlattenGrows
  <2> QED BY <1>3, <2>2
<1>5. i < Len(t)
  <2> SUFFICES ASSUME i = Len(t) PROVE FALSE
    BY <1>1
  <2>1. e = a
    BY DEF Flattens
  <2>2. Len(u) > 0
    <3>1. u # <<>>
      BY <1>3 DEF IsPrefixCode
    <3> HIDE DEF u
    <3> QED BY <1>3, <3>1, EmptySeq
  <2> HIDE DEF a, u, e
  <2>3. Len(a \o u) = Len(a) + Len(u) /\ Len(a) \in Nat /\ Len(u) \in Nat
    BY <1>3, ConcatProperties
  <2> QED BY <1>4, <2>1, <2>2, <2>3 DEF IsPrefixOf
<1>6. i + 1 \in 1 .. Len(t)
  BY <1>1, <1>5
<1>7. v \in P /\ v \in Seq(S) /\ g[i + 1] = a \o v
  <2>1. v \in P
    BY <1>6
  <2>2. g[i + 1] = a \o v
    BY <1>1, <1>6 DEF Flattens
  <2> QED BY <2>1, <2>2 DEF IsPrefixCode
<1>8. IsPrefixOf(a \o v, e)
  <2>1. i + 1 \in 0 .. Len(t)
    BY <1>1, <1>6
  <2>2. IsPrefixOf(g[i + 1], FlattenSeq(t))
    BY <1>2, <2>1, FlattenGrows
  <2> QED BY <1>7, <2>2
<1>9. u = v
  <2> HIDE DEF a, e, u, v
  <2>1. IsPrefix(u, v) \/ IsPrefix(v, u)
    BY <1>3, <1>4, <1>7, <1>8, ContinuationsCompare
  <2> QED BY <1>3, <1>7, <2>1 DEF IsPrefixCode
<1> QED BY <1>3, <1>5, <1>7, <1>9

LEMMA PiecesAgree ==
  ASSUME NEW S, NEW P, IsPrefixCode(P, S), NEW s \in Seq(P), NEW t \in Seq(P),
         FlattenSeq(s) = FlattenSeq(t)
  PROVE  Len(s) <= Len(t) /\ \A i \in 1 .. Len(s) : s[i] = t[i]
<1>1. s \in Seq(Seq(S)) /\ t \in Seq(Seq(S))
  <2>1. P \subseteq Seq(S)
    BY DEF IsPrefixCode
  <2> QED BY <2>1, SeqMonotonic
<1>2. PICK f : Flattens(f, s, S)
  BY <1>1, Flattening
<1>3. PICK g : Flattens(g, t, S)
  BY <1>1, Flattening
<1> DEFINE Agree(i) == i <= Len(t) /\ f[i] = g[i] /\ \A j \in 1 .. i : s[j] = t[j]
           G == {i \in Nat : i <= Len(s) => Agree(i)}
<1>4. Len(s) \in Nat /\ Len(t) \in Nat
  OBVIOUS
<1>5. 0 \in G
  BY <1>2, <1>3, <1>4 DEF Flattens
<1>6. ASSUME NEW i \in Nat, i \in G PROVE i + 1 \in G
  <2> SUFFICES ASSUME i + 1 <= Len(s) PROVE Agree(i + 1)
    OBVIOUS
  <2>1. Agree(i) /\ i < Len(s)
    BY <1>4, <1>6
  <2>2. i < Len(t) /\ s[i + 1] = t[i + 1] /\ f[i + 1] = g[i + 1]
    BY <1>2, <1>3, <2>1, PiecesGoOn
  <2> QED BY <1>4, <2>1, <2>2
<1>7. \A i \in Nat : i \in G
  <2> HIDE DEF G
  <2> QED BY <1>5, <1>6, NatSetInduction
<1> QED BY <1>4, <1>7

LEMMA PrefixCodesDecode ==
  ASSUME NEW S, NEW P, IsPrefixCode(P, S), NEW s \in Seq(P), NEW t \in Seq(P),
         FlattenSeq(s) = FlattenSeq(t)
  PROVE  s = t
<1>1. Len(s) <= Len(t) /\ \A i \in 1 .. Len(s) : s[i] = t[i]
  BY PiecesAgree
<1>2. Len(t) <= Len(s)
  BY PiecesAgree
<1>3. Len(s) = Len(t)
  BY <1>1, <1>2
<1> QED BY <1>1, <1>3, SeqEqual

-----------------------------------------------------------------------------
(* encodeURIComponent reads back, and leaves no separator but "%". *)

Encoded == Plain \cup {"%"}

LEMMA EscapesType ==
  ASSUME NEW c \in Chars
  PROVE  /\ Escaped(c) \in Seq(Encoded) /\ Escaped(c) # <<>>
         /\ \/ c \in Plain /\ Escaped(c) = <<c>> /\ Escaped(c)[1] = c
            \/ /\ c \in Chars \ Plain /\ Escaped(c) = EscapeOf[c]
               /\ Escaped(c)[1] = "%"
<1>1. CASE c \in Plain
  <2>1. Escaped(c) = <<c>>
    BY <1>1 DEF Escaped
  <2>2. c \in Encoded
    BY <1>1 DEF Encoded
  <2> QED BY <1>1, <2>1, <2>2
<1>2. CASE c \notin Plain
  <2>1. Escaped(c) = EscapeOf[c]
    BY <1>2 DEF Escaped
  <2> QED BY <1>2, <2>1, EscapesAssumption DEF Encoded
<1> QED BY <1>1, <1>2

LEMMA ItsOwnPrefix ==
  ASSUME NEW S, NEW a \in Seq(S)
  PROVE  IsPrefix(a, a)
<1>1. Len(a) \in Nat
  OBVIOUS
<1> QED BY <1>1 DEF IsPrefix

LEMMA PrefixesStartAlike ==
  ASSUME NEW S, NEW a \in Seq(S), NEW b \in Seq(S), a # <<>>, IsPrefix(a, b)
  PROVE  a[1] = b[1]
<1>1. Len(a) \in Nat \ {0} /\ Len(b) \in Nat
  BY EmptySeq
<1> DEFINE c == SubSeq(a, 1, Len(a))
           d == SubSeq(b, 1, Len(a))
<1>2. Len(a) <= Len(b) /\ c = d
  BY DEF IsPrefix
<1>3. \A p \in 1 .. Len(a) : c[p] = a[p]
  BY <1>1, SubSeqProperties
<1>4. \A p \in 1 .. Len(a) : d[p] = b[p]
  BY <1>1, <1>2, SubSeqProperties
<1> HIDE DEF c, d
<1> QED BY <1>1, <1>2, <1>3, <1>4

LEMMA EscapesTellCharacters ==
  ASSUME NEW c \in Chars, NEW d \in Chars, IsPrefix(Escaped(c), Escaped(d))
  PROVE  c = d
<1>1. Escaped(c)[1] = Escaped(d)[1]
  BY EscapesType, PrefixesStartAlike
<1>2. "%" \notin Plain
  BY CharsAssumption DEF Separators
<1>3. CASE c \in Plain
  BY <1>1, <1>2, <1>3, EscapesType
<1>4. CASE c \notin Plain
  <2>1. d \notin Plain
    BY <1>1, <1>2, <1>4, EscapesType
  <2>2. Escaped(c) = EscapeOf[c] /\ Escaped(d) = EscapeOf[d]
    BY <1>4, <2>1 DEF Escaped
  <2> QED BY <1>4, <2>1, <2>2, EscapesAssumption
<1> QED BY <1>3, <1>4

Escapes == {Escaped(c) : c \in Chars}

LEMMA EscapesArePrefixCode == IsPrefixCode(Escapes, Encoded)
<1>1. Escapes \subseteq Seq(Encoded) /\ \A a \in Escapes : a # <<>>
  BY EscapesType DEF Escapes
<1>2. ASSUME NEW a \in Escapes, NEW b \in Escapes, IsPrefix(a, b) PROVE a = b
  <2>1. PICK c \in Chars : a = Escaped(c)
    BY DEF Escapes
  <2>2. PICK d \in Chars : b = Escaped(d)
    BY DEF Escapes
  <2>3. c = d
    BY <1>2, <2>1, <2>2, EscapesTellCharacters
  <2> QED BY <2>1, <2>2, <2>3
<1> QED BY <1>1, <1>2 DEF IsPrefixCode

EscapesIn(s) == [i \in DOMAIN s |-> Escaped(s[i])]

LEMMA EscapesInType ==
  ASSUME NEW s \in Seq(Chars)
  PROVE  /\ EscapesIn(s) \in Seq(Escapes) /\ Len(EscapesIn(s)) = Len(s)
         /\ \A i \in 1 .. Len(s) : EscapesIn(s)[i] = Escaped(s[i])
<1>1. Len(s) \in Nat /\ DOMAIN s = 1 .. Len(s) /\ \A i \in 1 .. Len(s) : s[i] \in Chars
  OBVIOUS
<1>2. \A i \in 1 .. Len(s) : Escaped(s[i]) \in Escapes
  BY <1>1 DEF Escapes
<1>3. EscapesIn(s) \in [1 .. Len(s) -> Escapes]
  BY <1>1, <1>2 DEF EscapesIn
<1> QED BY <1>1, <1>3 DEF EscapesIn

LEMMA EncodingType ==
  ASSUME NEW s \in Seq(Chars)
  PROVE  EncodeURIComponent(s) \in Seq(Encoded)
<1>1. EscapesIn(s) \in Seq(Seq(Encoded))
  <2>1. Escapes \subseteq Seq(Encoded)
    BY EscapesArePrefixCode DEF IsPrefixCode
  <2> QED BY <2>1, EscapesInType, SeqMonotonic
<1>2. PICK f : Flattens(f, EscapesIn(s), Encoded)
  BY <1>1, Flattening
<1>3. EncodeURIComponent(s) = FlattenSeq(EscapesIn(s))
  BY DEF EncodeURIComponent, EscapesIn
<1>4. Len(EscapesIn(s)) \in 0 .. Len(EscapesIn(s))
  BY <1>1
<1> QED BY <1>2, <1>3, <1>4 DEF Flattens

\* encodeURIComponent gives no two texts the same encoding.
THEOREM EncodingInjective ==
  ASSUME NEW s \in Seq(Chars), NEW t \in Seq(Chars),
         EncodeURIComponent(s) = EncodeURIComponent(t)
  PROVE  s = t
<1>1. EscapesIn(s) = EscapesIn(t)
  <2>1. FlattenSeq(EscapesIn(s)) = FlattenSeq(EscapesIn(t))
    BY DEF EncodeURIComponent, EscapesIn
  <2> QED BY <2>1, EscapesInType, EscapesArePrefixCode, PrefixCodesDecode
<1>2. Len(s) = Len(t)
  BY <1>1, EscapesInType
<1>3. ASSUME NEW i \in 1 .. Len(s) PROVE s[i] = t[i]
  <2>1. s[i] \in Chars /\ t[i] \in Chars
    BY <1>2
  <2>2. Escaped(s[i]) = Escaped(t[i])
    BY <1>1, <1>2, EscapesInType
  <2>3. IsPrefix(Escaped(s[i]), Escaped(t[i]))
    BY <2>1, <2>2, EscapesType, ItsOwnPrefix
  <2> QED BY <2>1, <2>3, EscapesTellCharacters
<1> QED BY <1>2, <1>3, SeqEqual

-----------------------------------------------------------------------------
(* Array.join reads back when no part has the separator in it. *)

LEMMA ListsAreSequences ==
  ASSUME NEW X, NEW n \in Nat, NEW s \in [1 .. n -> X]
  PROVE  s \in Seq(X) /\ Len(s) = n
OBVIOUS

MovesOn(a, z, p) == (a \o (z \o p)) \o z = (a \o z) \o (p \o z)

LEMMA Reassociates ==
  ASSUME NEW S, NEW a \in Seq(S), NEW z \in Seq(S), NEW p \in Seq(S)
  PROVE  MovesOn(a, z, p)
<1> DEFINE zp == z \o p
           pz == p \o z
<1>1. zp \in Seq(S) /\ pz \in Seq(S)
  BY ConcatProperties
<1>2. zp \o z = z \o pz
  BY ConcatAssociative
<1>3. (a \o z) \o pz = a \o (z \o pz)
  <2> HIDE DEF pz
  <2> QED BY <1>1, ConcatAssociative
<1>4. (a \o zp) \o z = a \o (zp \o z)
  <2> HIDE DEF zp
  <2> QED BY <1>1, ConcatAssociative
<1> QED BY <1>2, <1>3, <1>4 DEF MovesOn

Continued(z, parts)  == [i \in DOMAIN parts |-> IF i = 1 THEN parts[i] ELSE <<z>> \o parts[i]]
Terminated(z, parts) == [i \in DOMAIN parts |-> parts[i] \o <<z>>]

LEMMA ContinuedType ==
  ASSUME NEW S, NEW z \in S, NEW parts \in Seq(Seq(S))
  PROVE  /\ Continued(z, parts) \in Seq(Seq(S)) /\ Terminated(z, parts) \in Seq(Seq(S))
         /\ Len(Continued(z, parts)) = Len(parts) /\ Len(Terminated(z, parts)) = Len(parts)
<1>1. Len(parts) \in Nat /\ DOMAIN parts = 1 .. Len(parts)
  OBVIOUS
<1>2. <<z>> \in Seq(S)
  OBVIOUS
<1>3. ASSUME NEW i \in 1 .. Len(parts)
      PROVE  <<z>> \o parts[i] \in Seq(S) /\ parts[i] \o <<z>> \in Seq(S) /\ parts[i] \in Seq(S)
  <2>1. parts[i] \in Seq(S)
    OBVIOUS
  <2> DEFINE p == parts[i]
             y == <<z>>
  <2>2. y \in Seq(S) /\ p \in Seq(S)
    BY <1>2, <2>1
  <2> HIDE DEF p, y
  <2>3. y \o p \in Seq(S) /\ p \o y \in Seq(S)
    BY <2>2, ConcatProperties
  <2> QED BY <2>1, <2>3 DEF p, y
<1>4. /\ Continued(z, parts) \in [1 .. Len(parts) -> Seq(S)]
      /\ Terminated(z, parts) \in [1 .. Len(parts) -> Seq(S)]
  BY <1>1, <1>3 DEF Continued, Terminated
<1> DEFINE c == Continued(z, parts)
           d == Terminated(z, parts)
<1>5. c \in [1 .. Len(parts) -> Seq(S)] /\ d \in [1 .. Len(parts) -> Seq(S)]
  BY <1>4
<1> HIDE DEF c, d
<1>6. c \in Seq(Seq(S)) /\ Len(c) = Len(parts)
  BY <1>1, <1>5, ListsAreSequences
<1>7. d \in Seq(Seq(S)) /\ Len(d) = Len(parts)
  BY <1>1, <1>5, ListsAreSequences
<1> QED BY <1>6, <1>7 DEF c, d

LEMMA JoinedType ==
  ASSUME NEW S, NEW z \in S, NEW parts \in Seq(Seq(S))
  PROVE  JoinedBy(z, parts) \in Seq(S)
<1>1. Continued(z, parts) \in Seq(Seq(S))
  BY ContinuedType
<1>2. PICK f : Flattens(f, Continued(z, parts), S)
  BY <1>1, Flattening
<1>3. JoinedBy(z, parts) = FlattenSeq(Continued(z, parts))
  BY DEF JoinedBy, Continued
<1>4. Len(Continued(z, parts)) \in 0 .. Len(Continued(z, parts))
  BY <1>1
<1> QED BY <1>2, <1>3, <1>4 DEF Flattens

\* With one more separator at its end, each part is ended by one.
LEMMA JoinTerminated ==
  ASSUME NEW S, NEW z \in S, NEW parts \in Seq(Seq(S)), parts # <<>>
  PROVE  JoinedBy(z, parts) \o <<z>> = FlattenSeq(Terminated(z, parts))
<1> DEFINE n == Len(parts)
           y == <<z>>
           c == Continued(z, parts)
           d == Terminated(z, parts)
<1>1. n \in Nat \ {0} /\ DOMAIN parts = 1 .. n /\ y \in Seq(S)
  BY EmptySeq
<1>2. PICK f : Flattens(f, c, S)
  BY ContinuedType, Flattening
<1>3. PICK g : Flattens(g, d, S)
  BY ContinuedType, Flattening
<1>4. Len(c) = n /\ Len(d) = n
  BY ContinuedType
<1>5. \A i \in 1 .. n : c[i] = (IF i = 1 THEN parts[i] ELSE y \o parts[i]) /\ d[i] = parts[i] \o y
  BY <1>1 DEF Continued, Terminated
<1>6. \A i \in 1 .. n : parts[i] \in Seq(S)
  OBVIOUS
<1>7. /\ f[0] = <<>> /\ \A i \in 1 .. n : f[i] = f[i - 1] \o c[i]
      /\ g[0] = <<>> /\ \A i \in 1 .. n : g[i] = g[i - 1] \o d[i]
      /\ FlattenSeq(c) = f[n] /\ FlattenSeq(d) = g[n]
      /\ \A i \in 0 .. n : f[i] \in Seq(S) /\ g[i] \in Seq(S)
  BY <1>2, <1>3, <1>4 DEF Flattens
<1> DEFINE G == {m \in Nat : m + 1 <= n => f[m + 1] \o y = g[m + 1]}
<1>8. JoinedBy(z, parts) = FlattenSeq(c)
  BY DEF JoinedBy, Continued
<1> HIDE DEF n, y, c, d
<1>9. f[1] \o y = g[1]
  <2>1. 1 \in 1 .. n
    BY <1>1
  <2> DEFINE p == parts[1]
  <2>2. p \in Seq(S) /\ p \o y \in Seq(S)
    BY <1>1, <1>6, <2>1, ConcatProperties
  <2>3. f[1] = <<>> \o p /\ g[1] = <<>> \o (p \o y)
    <3>1. c[1] = p /\ d[1] = p \o y
      BY <1>5, <2>1
    <3>2. f[1] = f[1 - 1] \o c[1] /\ g[1] = g[1 - 1] \o d[1]
      BY <1>7, <2>1
    <3>3. f[1 - 1] = <<>> /\ g[1 - 1] = <<>>
      BY <1>7
    <3> QED BY <3>1, <3>2, <3>3
  <2> DEFINE q == p \o y
  <2>4. <<>> \o p = p /\ <<>> \o q = q
    <3> HIDE DEF p, q
    <3> QED BY <2>2, ConcatEmptySeq DEF q
  <2> QED BY <2>3, <2>4
<1>10. 0 \in G
  BY <1>9
<1>11. ASSUME NEW m \in Nat, m \in G PROVE m + 1 \in G
  <2> SUFFICES ASSUME m + 2 <= n PROVE f[m + 2] \o y = g[m + 2]
    BY <1>1
  <2>1. f[m + 1] \o y = g[m + 1]
    BY <1>1, <1>11
  <2>2. m + 2 \in 1 .. n /\ m + 1 \in 0 .. n /\ (m + 2) - 1 = m + 1 /\ m + 2 # 1
    BY <1>1
  <2> DEFINE a == f[m + 1]
             p == parts[m + 2]
  <2>3. a \in Seq(S) /\ p \in Seq(S)
    BY <1>6, <1>7, <2>2
  <2>4. c[m + 2] = y \o p /\ d[m + 2] = p \o y
    BY <1>5, <2>2
  <2>5. f[m + 2] = f[(m + 2) - 1] \o c[m + 2] /\ g[m + 2] = g[(m + 2) - 1] \o d[m + 2]
    BY <1>7, <2>2
  <2>6. f[(m + 2) - 1] = a /\ g[(m + 2) - 1] = a \o y
    BY <2>1, <2>2
  <2>7. MovesOn(a, y, p)
    <3> HIDE DEF a, p
    <3> QED BY <1>1, <2>3, Reassociates
  <2>8. f[m + 2] = a \o (y \o p) /\ g[m + 2] = (a \o y) \o (p \o y)
    <3> HIDE DEF a, p
    <3> QED BY <2>4, <2>5, <2>6
  <2> HIDE DEF a, p
  <2> QED BY <2>7, <2>8 DEF MovesOn
<1>12. \A m \in Nat : m \in G
  <2> HIDE DEF G
  <2> QED BY <1>10, <1>11, NatSetInduction
<1>13. f[n] \o y = g[n]
  <2>1. PICK m \in Nat : m + 1 = n
    <3>1. n - 1 \in Nat /\ (n - 1) + 1 = n
      BY <1>1
    <3> QED BY <3>1
  <2>2. m + 1 <= n => f[m + 1] \o y = g[m + 1]
    BY <1>12
  <2>3. m + 1 <= n
    BY <1>1, <2>1
  <2> QED BY <2>1, <2>2, <2>3
<1> QED BY <1>7, <1>8, <1>13 DEF c, d, y

LEMMA EndedParts ==
  ASSUME NEW T, NEW z, NEW p \in Seq(T)
  PROVE  /\ p \o <<z>> \in Seq(T \cup {z})
         /\ Len(p \o <<z>>) = Len(p) + 1
         /\ (p \o <<z>>)[Len(p) + 1] = z
         /\ \A i \in 1 .. Len(p) : (p \o <<z>>)[i] = p[i] /\ p[i] \in T
<1> DEFINE S == T \cup {z}
           y == <<z>>
<1>1. p \in Seq(S) /\ y \in Seq(S) /\ Len(y) = 1 /\ y[1] = z /\ Len(p) \in Nat
  <2>1. T \subseteq S
    OBVIOUS
  <2>2. p \in Seq(S)
    BY <2>1, SeqMonotonic
  <2> QED BY <2>2
<1> HIDE DEF y, S
<1>2. /\ p \o y \in Seq(S) /\ Len(p \o y) = Len(p) + 1
      /\ \A i \in 1 .. Len(p) + 1 : (p \o y)[i] = IF i <= Len(p) THEN p[i] ELSE y[i - Len(p)]
  BY <1>1, ConcatProperties
<1>3. (p \o y)[Len(p) + 1] = z
  BY <1>1, <1>2
<1>4. \A i \in 1 .. Len(p) : (p \o y)[i] = p[i] /\ p[i] \in T
  BY <1>1, <1>2
<1> QED BY <1>2, <1>3, <1>4 DEF S, y

EndedBy(z, T) == {p \o <<z>> : p \in Seq(T)}

LEMMA EndedPartsArePrefixCode ==
  ASSUME NEW T, NEW z, z \notin T
  PROVE  IsPrefixCode(EndedBy(z, T), T \cup {z})
<1>1. ASSUME NEW a \in EndedBy(z, T) PROVE a \in Seq(T \cup {z}) /\ a # <<>>
  <2>1. PICK p \in Seq(T) : a = p \o <<z>>
    BY DEF EndedBy
  <2>2. a \in Seq(T \cup {z}) /\ Len(a) = Len(p) + 1 /\ Len(p) \in Nat
    BY <2>1, EndedParts
  <2>3. Len(<<>>) = 0
    BY EmptySeq
  <2> QED BY <2>2, <2>3
<1>2. ASSUME NEW a \in EndedBy(z, T), NEW b \in EndedBy(z, T), IsPrefix(a, b) PROVE a = b
  <2>1. PICK p \in Seq(T) : a = p \o <<z>>
    BY DEF EndedBy
  <2>2. PICK q \in Seq(T) : b = q \o <<z>>
    BY DEF EndedBy
  <2>3. /\ a \in Seq(T \cup {z}) /\ Len(a) = Len(p) + 1 /\ a[Len(p) + 1] = z
        /\ \A i \in 1 .. Len(p) : a[i] = p[i] /\ p[i] \in T
    BY <2>1, EndedParts
  <2>4. /\ b \in Seq(T \cup {z}) /\ Len(b) = Len(q) + 1 /\ b[Len(q) + 1] = z
        /\ \A i \in 1 .. Len(q) : b[i] = q[i] /\ q[i] \in T
    BY <2>2, EndedParts
  <2>5. Len(p) \in Nat /\ Len(q) \in Nat
    OBVIOUS
  <2> DEFINE c == SubSeq(a, 1, Len(a))
             d == SubSeq(b, 1, Len(a))
  <2>6. Len(a) <= Len(b) /\ c = d
    BY <1>2 DEF IsPrefix
  <2>7. \A i \in 1 .. Len(a) : c[i] = a[i] /\ d[i] = b[i]
    BY <2>3, <2>4, <2>5, <2>6, SubSeqProperties
  <2> HIDE DEF c, d
  <2>8. \A i \in 1 .. Len(a) : a[i] = b[i]
    BY <2>6, <2>7
  <2>9. ~(Len(p) < Len(q))
    <3> SUFFICES ASSUME Len(p) < Len(q) PROVE FALSE
      OBVIOUS
    <3>1. Len(p) + 1 \in 1 .. Len(q) /\ Len(p) + 1 \in 1 .. Len(a)
      BY <2>3, <2>5
    <3>2. b[Len(p) + 1] \in T /\ b[Len(p) + 1] = z
      BY <2>3, <2>4, <2>8, <3>1
    <3> QED BY <3>2
  <2>10. Len(a) = Len(b)
    BY <2>3, <2>4, <2>5, <2>6, <2>9
  <2> QED BY <2>3, <2>4, <2>8, <2>10, SeqEqual
<1> QED BY <1>1, <1>2 DEF IsPrefixCode

LEMMA JoinSeparates ==
  ASSUME NEW T, NEW z, z \notin T,
         NEW s \in Seq(Seq(T)), NEW t \in Seq(Seq(T)), s # <<>>, t # <<>>,
         JoinedBy(z, s) = JoinedBy(z, t)
  PROVE  s = t
<1> DEFINE S == T \cup {z}
<1>1. z \in S /\ s \in Seq(Seq(S)) /\ t \in Seq(Seq(S))
  <2>1. Seq(T) \subseteq Seq(S)
    <3>1. T \subseteq S
      OBVIOUS
    <3> HIDE DEF S
    <3> QED BY <3>1, SeqMonotonic
  <2> QED BY <2>1, SeqMonotonic
<1>2. FlattenSeq(Terminated(z, s)) = FlattenSeq(Terminated(z, t))
  <2>1. JoinedBy(z, s) \o <<z>> = FlattenSeq(Terminated(z, s))
    <3> HIDE DEF S
    <3> QED BY <1>1, JoinTerminated
  <2>2. JoinedBy(z, t) \o <<z>> = FlattenSeq(Terminated(z, t))
    <3> HIDE DEF S
    <3> QED BY <1>1, JoinTerminated
  <2> QED BY <2>1, <2>2
<1>3. ASSUME NEW r \in Seq(Seq(T))
      PROVE  /\ Terminated(z, r) \in Seq(EndedBy(z, T)) /\ Len(Terminated(z, r)) = Len(r)
             /\ \A i \in 1 .. Len(r) : Terminated(z, r)[i] = r[i] \o <<z>>
  <2>1. Len(r) \in Nat /\ DOMAIN r = 1 .. Len(r) /\ \A i \in 1 .. Len(r) : r[i] \in Seq(T)
    OBVIOUS
  <2>2. Terminated(z, r) \in [1 .. Len(r) -> EndedBy(z, T)]
    BY <2>1 DEF Terminated, EndedBy
  <2> QED BY <2>1, <2>2 DEF Terminated
<1>4. Terminated(z, s) = Terminated(z, t)
  <2> DEFINE a == Terminated(z, s)
             b == Terminated(z, t)
             P == EndedBy(z, T)
  <2>1. a \in Seq(P) /\ b \in Seq(P) /\ FlattenSeq(a) = FlattenSeq(b)
    BY <1>2, <1>3
  <2>2. IsPrefixCode(P, S)
    BY EndedPartsArePrefixCode
  <2> HIDE DEF a, b, P, S
  <2>3. a = b
    BY <2>1, <2>2, PrefixCodesDecode
  <2> QED BY <2>3 DEF a, b
<1>5. Len(s) = Len(t)
  BY <1>3, <1>4
<1>6. ASSUME NEW i \in 1 .. Len(s) PROVE s[i] = t[i]
  <2> DEFINE p == s[i]
             q == t[i]
  <2>1. p \in Seq(T) /\ q \in Seq(T) /\ p \o <<z>> = q \o <<z>>
    <3>1. i \in 1 .. Len(t)
      BY <1>5
    <3>2. p \in Seq(T) /\ Terminated(z, s)[i] = p \o <<z>>
      BY <1>3
    <3>3. q \in Seq(T) /\ Terminated(z, t)[i] = q \o <<z>>
      BY <1>3, <3>1
    <3> QED BY <1>4, <3>2, <3>3
  <2> HIDE DEF p, q
  <2>2. /\ Len(p \o <<z>>) = Len(p) + 1
        /\ \A j \in 1 .. Len(p) : (p \o <<z>>)[j] = p[j]
    BY <2>1, EndedParts
  <2>3. /\ Len(q \o <<z>>) = Len(q) + 1
        /\ \A j \in 1 .. Len(q) : (q \o <<z>>)[j] = q[j]
    BY <2>1, EndedParts
  <2>4. Len(p) \in Nat /\ Len(q) \in Nat
    BY <2>1
  <2>5. Len(p) = Len(q) /\ \A j \in 1 .. Len(p) : p[j] = q[j]
    BY <2>1, <2>2, <2>3, <2>4
  <2>6. p = q
    BY <2>1, <2>5, SeqEqual
  <2> QED BY <2>6 DEF p, q
<1> QED BY <1>5, <1>6, SeqEqual

-----------------------------------------------------------------------------
(* The keys of identities. *)

Prefixed(label, text) == label \o text

LEMMA PrefixCancels ==
  ASSUME NEW S, NEW a \in Seq(S), NEW x \in Seq(S), NEW y \in Seq(S),
         Prefixed(a, x) = Prefixed(a, y)
  PROVE  x = y
BY ConcatSimplifications DEF Prefixed

LEMMA PrefixType ==
  ASSUME NEW S, NEW a \in Seq(S), NEW x \in Seq(S)
  PROVE  Prefixed(a, x) \in Seq(S)
BY ConcatProperties DEF Prefixed

LEMMA SeparatorsApart ==
  /\ Plain \subseteq Encoded /\ Plain \subseteq Chars
  /\ \A z \in {":", "&", "=", "|", "@"} : z \notin Encoded
BY CharsAssumption DEF Encoded, Separators

LEMMA LabelledType ==
  ASSUME NEW w \in Words, NEW T, Encoded \cup {"="} \subseteq T, NEW x \in Seq(Encoded)
  PROVE  Labelled(w, x) \in Seq(T)
<1> DEFINE l == Letters[w]
           q == <<"=">>
<1>1. l \in Seq(T) /\ q \in Seq(T) /\ x \in Seq(T)
  <2>1. l \in Seq(Plain) /\ Plain \subseteq T
    BY WordsAssumption, SeparatorsApart
  <2>2. l \in Seq(T)
    <3> HIDE DEF l
    <3> QED BY <2>1, SeqMonotonic
  <2>3. x \in Seq(T)
    BY SeqMonotonic
  <2> QED BY <2>2, <2>3
<1> HIDE DEF l, q
<1>2. Prefixed(l, q) \in Seq(T)
  BY <1>1, PrefixType
<1>3. Prefixed(Prefixed(l, q), x) \in Seq(T)
  <2> DEFINE p == Prefixed(l, q)
  <2> HIDE DEF p
  <2> QED BY <1>1, <1>2, PrefixType DEF p
<1> QED BY <1>3 DEF Prefixed, Labelled, l, q

LEMMA LabelCancels ==
  ASSUME NEW w \in Words, NEW x \in Seq(Encoded), NEW y \in Seq(Encoded),
         Labelled(w, x) = Labelled(w, y)
  PROVE  x = y
<1> DEFINE T == Encoded \cup {"="}
           l == Letters[w]
           q == <<"=">>
           p == Prefixed(l, q)
<1>1. l \in Seq(T) /\ q \in Seq(T) /\ x \in Seq(T) /\ y \in Seq(T)
  <2>1. l \in Seq(Plain) /\ Plain \subseteq T /\ Encoded \subseteq T
    BY WordsAssumption, SeparatorsApart
  <2>2. l \in Seq(T) /\ x \in Seq(T) /\ y \in Seq(T)
    <3> HIDE DEF l, T
    <3> QED BY <2>1, SeqMonotonic
  <2> QED BY <2>2
<1>2. Prefixed(p, x) = Prefixed(p, y)
  BY DEF Prefixed, Labelled
<1> HIDE DEF l, q, T
<1>3. p \in Seq(T)
  BY <1>1, PrefixType
<1> HIDE DEF p
<1> QED BY <1>1, <1>2, <1>3, PrefixCancels

LEMMA DecimalType ==
  ASSUME NEW n \in Numbers
  PROVE  Decimal[n] \in Seq(Encoded)
<1> DEFINE d == Decimal[n]
<1>1. d \in Seq(Plain)
  BY NumbersAssumption
<1> HIDE DEF d
<1>2. d \in Seq(Encoded)
  BY <1>1, SeparatorsApart, SeqMonotonic
<1> QED BY <1>2 DEF d

\* Two events of one id are the same event: of one intent, one place in its list, one
\* name and one version.
THEOREM EventIdKeysSeparate ==
  ASSUME NEW d \in EventIds, NEW e \in EventIds, BuildEventIdKey(d) = BuildEventIdKey(e)
  PROVE  d = e
<1> DEFINE T == Encoded \cup {"="}
           A(x) == Labelled("intentId", EncodeURIComponent(x.intentId))
           B(x) == Labelled("eventIndex", Decimal[x.eventIndex])
           C(x) == Labelled("eventName", EncodeURIComponent(x.eventName))
           D(x) == Labelled("schemaVersion", Decimal[x.schemaVersion])
           Parts(x) == <<A(x), B(x), C(x), D(x)>>
<1>1. ASSUME NEW x \in EventIds
      PROVE  /\ x.intentId \in Seq(Chars) /\ x.eventIndex \in Numbers
             /\ x.eventName \in Seq(Chars) /\ x.schemaVersion \in Numbers
             /\ EncodeURIComponent(x.intentId) \in Seq(Encoded)
             /\ EncodeURIComponent(x.eventName) \in Seq(Encoded)
             /\ Decimal[x.eventIndex] \in Seq(Encoded)
             /\ Decimal[x.schemaVersion] \in Seq(Encoded)
  <2>1. /\ x.intentId \in Seq(Chars) /\ x.eventIndex \in Numbers
        /\ x.eventName \in Seq(Chars) /\ x.schemaVersion \in Numbers
    BY DEF EventIds, Text
  <2> QED BY <2>1, EncodingType, DecimalType
<1>2. {"intentId", "eventIndex", "eventName", "schemaVersion"} \subseteq Words
  BY DEF Words
<1>3. ASSUME NEW x \in EventIds PROVE Parts(x) \in Seq(Seq(T)) /\ Parts(x) # <<>>
  <2>1. A(x) \in Seq(T) /\ B(x) \in Seq(T) /\ C(x) \in Seq(T) /\ D(x) \in Seq(T)
    BY <1>1, <1>2, LabelledType
  <2> HIDE DEF A, B, C, D
  <2> QED BY <2>1
<1>4. Parts(d) = Parts(e)
  <2>1. "&" \notin T
    BY SeparatorsApart
  <2>2. JoinedBy("&", Parts(d)) = JoinedBy("&", Parts(e))
    BY DEF BuildEventIdKey
  <2> HIDE DEF Parts, T
  <2> QED BY <1>3, <2>1, <2>2, JoinSeparates
<1>5. A(d) = A(e) /\ B(d) = B(e) /\ C(d) = C(e) /\ D(d) = D(e)
  <2> HIDE DEF A, B, C, D
  <2> QED BY <1>4
<1>6. /\ EncodeURIComponent(d.intentId) = EncodeURIComponent(e.intentId)
      /\ EncodeURIComponent(d.eventName) = EncodeURIComponent(e.eventName)
      /\ Decimal[d.eventIndex] = Decimal[e.eventIndex]
      /\ Decimal[d.schemaVersion] = Decimal[e.schemaVersion]
  BY <1>1, <1>2, <1>5, LabelCancels
<1>7. /\ d.intentId = e.intentId /\ d.eventName = e.eventName
      /\ d.eventIndex = e.eventIndex /\ d.schemaVersion = e.schemaVersion
  BY <1>1, <1>6, EncodingInjective, NumbersAssumption
<1> QED BY <1>7 DEF EventIds

\* Two attempts of one id are the same attempt of the same execution.
THEOREM AttemptIdKeysSeparate ==
  ASSUME NEW d \in AttemptIds, NEW e \in AttemptIds,
         BuildExecutionAttemptIdKey(d) = BuildExecutionAttemptIdKey(e)
  PROVE  d = e
<1> DEFINE T == Encoded \cup {"="}
           A(x) == Labelled("executionId", EncodeURIComponent(x.executionId))
           B(x) == Labelled("attemptNumber", Decimal[x.attemptNumber])
           Parts(x) == <<A(x), B(x)>>
<1>1. ASSUME NEW x \in AttemptIds
      PROVE  /\ x.executionId \in Seq(Chars) /\ x.attemptNumber \in Numbers
             /\ EncodeURIComponent(x.executionId) \in Seq(Encoded)
             /\ Decimal[x.attemptNumber] \in Seq(Encoded)
  <2>1. x.executionId \in Seq(Chars) /\ x.attemptNumber \in Numbers
    BY DEF AttemptIds, Text
  <2> QED BY <2>1, EncodingType, DecimalType
<1>2. {"executionId", "attemptNumber"} \subseteq Words
  BY DEF Words
<1>3. ASSUME NEW x \in AttemptIds PROVE Parts(x) \in Seq(Seq(T)) /\ Parts(x) # <<>>
  <2>1. A(x) \in Seq(T) /\ B(x) \in Seq(T)
    BY <1>1, <1>2, LabelledType
  <2> HIDE DEF A, B
  <2> QED BY <2>1
<1>4. Parts(d) = Parts(e)
  <2>1. "&" \notin T
    BY SeparatorsApart
  <2>2. JoinedBy("&", Parts(d)) = JoinedBy("&", Parts(e))
    BY DEF BuildExecutionAttemptIdKey
  <2> HIDE DEF Parts, T
  <2> QED BY <1>3, <2>1, <2>2, JoinSeparates
<1>5. A(d) = A(e) /\ B(d) = B(e)
  <2> HIDE DEF A, B
  <2> QED BY <1>4
<1>6. /\ EncodeURIComponent(d.executionId) = EncodeURIComponent(e.executionId)
      /\ Decimal[d.attemptNumber] = Decimal[e.attemptNumber]
  BY <1>1, <1>2, <1>5, LabelCancels
<1>7. d.executionId = e.executionId /\ d.attemptNumber = e.attemptNumber
  BY <1>1, <1>6, EncodingInjective, NumbersAssumption
<1> QED BY <1>7 DEF AttemptIds

\* The characters of the parts of an intent's key, roots and derived ones alike.
IntentCharacters == Encoded \cup {"=", "&", "@"}

LEMMA PlainTextType ==
  ASSUME NEW T, Plain \subseteq T, NEW x \in Seq(Plain)
  PROVE  x \in Seq(T)
BY SeqMonotonic

LEMMA AppendedParts ==
  ASSUME NEW X, NEW s \in Seq(X), NEW e \in X
  PROVE  /\ Append(s, e) \in Seq(X) /\ Len(Append(s, e)) = Len(s) + 1
         /\ \A i \in 1 .. Len(s) : Append(s, e)[i] = s[i]
         /\ Append(s, e)[Len(s) + 1] = e
BY AppendProperties

LEMMA FifthAppended ==
  ASSUME NEW X, NEW a \in X, NEW b \in X, NEW c \in X, NEW d \in X, NEW e \in X
  PROVE  Append(<<a, b, c, d>>, e) = <<a, b, c, d, e>>
<1> DEFINE s == <<a, b, c, d>>
           t == <<a, b, c, d, e>>
<1>1. s \in Seq(X) /\ Len(s) = 4 /\ t \in Seq(X) /\ Len(t) = 5
  OBVIOUS
<1>2. /\ Append(s, e) \in Seq(X) /\ Len(Append(s, e)) = 5 /\ Append(s, e)[5] = e
      /\ \A i \in 1 .. 4 : Append(s, e)[i] = s[i]
  <2> HIDE DEF s, t
  <2>1. /\ Append(s, e) \in Seq(X) /\ Len(Append(s, e)) = Len(s) + 1
        /\ \A i \in 1 .. Len(s) : Append(s, e)[i] = s[i]
        /\ Append(s, e)[Len(s) + 1] = e
    <3>1. s \in Seq(X)
      BY <1>1
    <3> QED BY <3>1, AppendedParts
  <2> QED BY <1>1, <2>1
<1>3. t[5] = e /\ \A i \in 1 .. 4 : t[i] = s[i]
  OBVIOUS
<1> HIDE DEF s, t
<1>4. \A i \in 1 .. 5 : Append(s, e)[i] = t[i]
  BY <1>2, <1>3
<1>5. Append(s, e) = t
  BY <1>1, <1>2, <1>4, SeqEqual
<1> QED BY <1>5 DEF s, t

LEMMA PairType ==
  ASSUME NEW X, NEW a \in X, NEW b \in X
  PROVE  <<a, b>> \in Seq(X) /\ <<a, b>> # <<>>
OBVIOUS

LEMMA EncodedPairType ==
  ASSUME NEW x \in Seq(Chars), NEW y \in Seq(Chars)
  PROVE  /\ <<EncodeURIComponent(x), EncodeURIComponent(y)>> \in Seq(Seq(Encoded))
         /\ JoinedBy("=", <<EncodeURIComponent(x), EncodeURIComponent(y)>>)
              \in Seq(Encoded \cup {"="})
<1> DEFINE a == EncodeURIComponent(x)
           b == EncodeURIComponent(y)
           T == Encoded \cup {"="}
<1>1. a \in Seq(Encoded) /\ b \in Seq(Encoded) /\ Encoded \subseteq T
  BY EncodingType
<1> HIDE DEF a, b, T
<1>2. a \in Seq(T) /\ b \in Seq(T)
  BY <1>1, SeqMonotonic
<1>3. <<a, b>> \in Seq(Seq(Encoded)) /\ <<a, b>> \in Seq(Seq(T))
  BY <1>1, <1>2, PairType
<1>4. JoinedBy("=", <<a, b>>) \in Seq(T)
  <2>1. "=" \in T
    BY DEF T
  <2> QED BY <1>3, <2>1, JoinedType
<1> QED BY <1>3, <1>4 DEF a, b, T

LEMMA EncodedPairsApart ==
  ASSUME NEW x \in Seq(Chars), NEW y \in Seq(Chars), NEW v \in Seq(Chars), NEW w \in Seq(Chars),
         JoinedBy("=", <<EncodeURIComponent(x), EncodeURIComponent(y)>>)
           = JoinedBy("=", <<EncodeURIComponent(v), EncodeURIComponent(w)>>)
  PROVE  x = v /\ y = w
<1> DEFINE s == <<EncodeURIComponent(x), EncodeURIComponent(y)>>
           t == <<EncodeURIComponent(v), EncodeURIComponent(w)>>
<1>1. s \in Seq(Seq(Encoded)) /\ t \in Seq(Seq(Encoded)) /\ s # <<>> /\ t # <<>>
  BY EncodedPairType
<1>2. JoinedBy("=", s) = JoinedBy("=", t) /\ "=" \notin Encoded
  BY SeparatorsApart
<1> HIDE DEF s, t
<1>3. s = t
  BY <1>1, <1>2, JoinSeparates
<1>4. /\ EncodeURIComponent(x) = EncodeURIComponent(v)
      /\ EncodeURIComponent(y) = EncodeURIComponent(w)
  BY <1>3 DEF s, t
<1> QED BY <1>4, EncodingInjective

LEMMA TenantPartsType ==
  ASSUME NEW r \in Reference
  PROVE  /\ TenantParts(r) \in Seq(Seq(Encoded \cup {"="})) /\ TenantParts(r) # <<>>
         /\ JoinedBy("&", TenantParts(r)) \in Seq(IntentCharacters)
<1> DEFINE T == Encoded \cup {"="}
           A(S) == Labelled("tenantType", EncodeURIComponent(r.type)) \in Seq(S)
           B(S) == Labelled("tenantId", EncodeURIComponent(r.id)) \in Seq(S)
<1>1. /\ EncodeURIComponent(r.type) \in Seq(Encoded)
      /\ EncodeURIComponent(r.id) \in Seq(Encoded)
  BY EncodingType DEF Reference, Text
<1>2. "tenantType" \in Words /\ "tenantId" \in Words
  BY DEF Words
<1>3. A(T) /\ B(T) /\ A(IntentCharacters) /\ B(IntentCharacters)
  <2>1. T \subseteq IntentCharacters
    BY DEF IntentCharacters
  <2> QED BY <1>1, <1>2, <2>1, LabelledType
<1>4. TenantParts(r) \in Seq(Seq(T)) /\ TenantParts(r) # <<>>
  BY <1>3, PairType DEF TenantParts
<1>5. TenantParts(r) \in Seq(Seq(IntentCharacters))
  BY <1>3, PairType DEF TenantParts
<1>6. JoinedBy("&", TenantParts(r)) \in Seq(IntentCharacters)
  <2>1. "&" \in IntentCharacters
    BY DEF IntentCharacters
  <2> QED BY <1>5, <2>1, JoinedType
<1> QED BY <1>4, <1>6

LEMMA TenantPartsApart ==
  ASSUME NEW r \in Reference, NEW q \in Reference,
         JoinedBy("&", TenantParts(r)) = JoinedBy("&", TenantParts(q))
  PROVE  r = q
<1>1. TenantParts(r) = TenantParts(q)
  <2>1. "&" \notin Encoded \cup {"="}
    BY SeparatorsApart
  <2> QED BY <2>1, TenantPartsType, JoinSeparates
<1>2. /\ Labelled("tenantType", EncodeURIComponent(r.type))
           = Labelled("tenantType", EncodeURIComponent(q.type))
      /\ Labelled("tenantId", EncodeURIComponent(r.id))
           = Labelled("tenantId", EncodeURIComponent(q.id))
  BY <1>1 DEF TenantParts
<1>3. "tenantType" \in Words /\ "tenantId" \in Words
  BY DEF Words
<1>4. ASSUME NEW x \in Reference
      PROVE  /\ x.type \in Seq(Chars) /\ x.id \in Seq(Chars)
             /\ EncodeURIComponent(x.type) \in Seq(Encoded)
             /\ EncodeURIComponent(x.id) \in Seq(Encoded)
  BY EncodingType DEF Reference, Text
<1>5. /\ EncodeURIComponent(r.type) = EncodeURIComponent(q.type)
      /\ EncodeURIComponent(r.id) = EncodeURIComponent(q.id)
  BY <1>2, <1>3, <1>4, LabelCancels
<1>6. r.type = q.type /\ r.id = q.id
  BY <1>4, <1>5, EncodingInjective
<1> QED BY <1>6 DEF Reference

LEMMA ComponentTexts ==
  ASSUME NEW c \in Component
  PROVE  c.name \in Seq(Chars) /\ c.value \in Seq(Chars)
BY PlainTextType, SeparatorsApart DEF Component, Name, Text

LEMMA ComponentPartsType ==
  ASSUME NEW list \in Seq(Component) \ {<<>>}
  PROVE  /\ ComponentParts(list) \in Seq(Seq(Encoded \cup {"="}))
         /\ ComponentParts(list) # <<>> /\ Len(ComponentParts(list)) = Len(list)
         /\ \A i \in 1 .. Len(list) :
              ComponentParts(list)[i] = JoinedBy("=", <<EncodeURIComponent(list[i].name),
                                                        EncodeURIComponent(list[i].value)>>)
         /\ JoinedBy("&", ComponentParts(list)) \in Seq(IntentCharacters)
<1> DEFINE T == Encoded \cup {"="}
           parts == ComponentParts(list)
           Part(i) == JoinedBy("=", <<EncodeURIComponent(list[i].name),
                                      EncodeURIComponent(list[i].value)>>)
<1>1. Len(list) \in Nat \ {0} /\ DOMAIN list = 1 .. Len(list)
  BY EmptySeq
<1>2. ASSUME NEW i \in 1 .. Len(list) PROVE Part(i) \in Seq(T)
  <2>1. list[i] \in Component
    OBVIOUS
  <2> QED BY <2>1, ComponentTexts, EncodedPairType
<1>3. \A i \in 1 .. Len(list) : parts[i] = Part(i)
  BY <1>1 DEF ComponentParts
<1>4. parts \in [1 .. Len(list) -> Seq(T)]
  <2>1. parts = [i \in 1 .. Len(list) |-> Part(i)]
    BY <1>1 DEF ComponentParts
  <2> HIDE DEF parts, Part
  <2> QED BY <1>2, <2>1
<1>5. parts \in Seq(Seq(T)) /\ Len(parts) = Len(list)
  <2> HIDE DEF parts, T
  <2> QED BY <1>1, <1>4, ListsAreSequences
<1>6. parts # <<>>
  <2> HIDE DEF parts
  <2> QED BY <1>1, <1>5, EmptySeq
<1>7. JoinedBy("&", parts) \in Seq(IntentCharacters)
  <2>1. Seq(T) \subseteq Seq(IntentCharacters)
    <3>1. T \subseteq IntentCharacters
      BY DEF IntentCharacters
    <3> HIDE DEF T
    <3> QED BY <3>1, SeqMonotonic
  <2>2. parts \in Seq(Seq(IntentCharacters))
    <3> HIDE DEF parts, T
    <3> QED BY <1>5, <2>1, SeqMonotonic
  <2>3. "&" \in IntentCharacters
    BY DEF IntentCharacters
  <2> HIDE DEF parts
  <2> QED BY <2>2, <2>3, JoinedType
<1> QED BY <1>3, <1>5, <1>6, <1>7

LEMMA ComponentPartsApart ==
  ASSUME NEW s \in Seq(Component) \ {<<>>}, NEW t \in Seq(Component) \ {<<>>},
         JoinedBy("&", ComponentParts(s)) = JoinedBy("&", ComponentParts(t))
  PROVE  s = t
<1>1. ComponentParts(s) = ComponentParts(t)
  <2>1. "&" \notin Encoded \cup {"="}
    BY SeparatorsApart
  <2> QED BY <2>1, ComponentPartsType, JoinSeparates
<1>2. Len(s) = Len(t)
  BY <1>1, ComponentPartsType
<1>3. ASSUME NEW i \in 1 .. Len(s) PROVE s[i] = t[i]
  <2> DEFINE a == s[i]
             b == t[i]
  <2>1. a \in Component /\ b \in Component
    BY <1>2
  <2>2. JoinedBy("=", <<EncodeURIComponent(a.name), EncodeURIComponent(a.value)>>)
          = JoinedBy("=", <<EncodeURIComponent(b.name), EncodeURIComponent(b.value)>>)
    BY <1>1, <1>2, ComponentPartsType
  <2> HIDE DEF a, b
  <2>3. a.name = b.name /\ a.value = b.value
    BY <2>1, <2>2, ComponentTexts, EncodedPairsApart
  <2>4. a = b
    BY <2>1, <2>3 DEF Component
  <2> QED BY <2>4 DEF a, b
<1> QED BY <1>2, <1>3, SeqEqual

LEMMA VersionType ==
  ASSUME NEW n \in Numbers
  PROVE  Letters["v"] \in Seq(Plain) /\ Decimal[n] \in Seq(Plain)
         /\ Letters["v"] \o Decimal[n] \in Seq(Plain)
<1> DEFINE v == Letters["v"]
           d == Decimal[n]
<1>1. v \in Seq(Plain) /\ d \in Seq(Plain)
  BY WordsAssumption, NumbersAssumption DEF Words
<1> HIDE DEF v, d
<1>2. Prefixed(v, d) \in Seq(Plain)
  BY <1>1, PrefixType
<1> QED BY <1>1, <1>2 DEF Prefixed, v, d

LEMMA RootPartsType ==
  ASSUME NEW d \in IntentDescriptors
  PROVE  /\ RootParts(d) \in Seq(Seq(IntentCharacters)) /\ RootParts(d) # <<>>
         /\ RootParts(d)[1] \in Seq(Plain)
         /\ BuildRootIntentKey(d) = JoinedBy(":", RootParts(d))
<1> DEFINE v == Letters["v"] \o Decimal[d.version]
           r == JoinedBy("&", TenantParts(d.tenant))
           c == JoinedBy("&", ComponentParts(d.components))
<1>1. /\ d.namespace \in Seq(Plain) /\ d.action \in Seq(Plain) /\ d.version \in Numbers
      /\ d.tenant \in Reference /\ d.components \in Seq(Component) \ {<<>>}
  BY DEF IntentDescriptors, Name
<1>2. v \in Seq(Plain)
  BY <1>1, VersionType
<1>3. r \in Seq(IntentCharacters) /\ c \in Seq(IntentCharacters)
  BY <1>1, TenantPartsType, ComponentPartsType
<1>4. RootParts(d) = <<d.namespace, d.action, v, r, c>>
  BY DEF RootParts, TenantParts, ComponentParts
<1> HIDE DEF v, r, c
<1>5. /\ d.namespace \in Seq(IntentCharacters) /\ d.action \in Seq(IntentCharacters)
      /\ v \in Seq(IntentCharacters)
  <2>1. Plain \subseteq IntentCharacters
    BY SeparatorsApart DEF IntentCharacters
  <2> QED BY <1>1, <1>2, <2>1, PlainTextType
<1>6. RootParts(d) \in Seq(Seq(IntentCharacters)) /\ RootParts(d) # <<>>
  BY <1>3, <1>4, <1>5
<1>7. RootParts(d)[1] \in Seq(Plain)
  BY <1>1, <1>4
<1>8. BuildRootIntentKey(d) = JoinedBy(":", RootParts(d))
  BY DEF BuildRootIntentKey, RootParts
<1> QED BY <1>6, <1>7, <1>8

LEMMA FivesAgree ==
  ASSUME NEW a, NEW b, NEW c, NEW d, NEW e, NEW v, NEW w, NEW x, NEW y, NEW z,
         <<a, b, c, d, e>> = <<v, w, x, y, z>>
  PROVE  a = v /\ b = w /\ c = x /\ d = y /\ e = z
<1> DEFINE s == <<a, b, c, d, e>>
           t == <<v, w, x, y, z>>
<1>1. s[1] = t[1] /\ s[2] = t[2] /\ s[3] = t[3] /\ s[4] = t[4] /\ s[5] = t[5]
  <2> HIDE DEF s, t
  <2>1. s = t
    BY DEF s, t
  <2> QED BY <2>1
<1> QED BY <1>1

LEMMA RootPartsApart ==
  ASSUME NEW d \in IntentDescriptors, NEW e \in IntentDescriptors,
         RootParts(d) = RootParts(e)
  PROVE  d = e
<1> DEFINE V(x) == Letters["v"] \o Decimal[x.version]
           R(x) == JoinedBy("&", TenantParts(x.tenant))
           C(x) == JoinedBy("&", ComponentParts(x.components))
<1>1. d.namespace = e.namespace /\ d.action = e.action /\ V(d) = V(e) /\ R(d) = R(e) /\ C(d) = C(e)
  <2>1. /\ RootParts(d) = <<d.namespace, d.action, V(d), R(d), C(d)>>
        /\ RootParts(e) = <<e.namespace, e.action, V(e), R(e), C(e)>>
    BY DEF RootParts, TenantParts, ComponentParts
  <2> HIDE DEF V, R, C
  <2>2. <<d.namespace, d.action, V(d), R(d), C(d)>> = <<e.namespace, e.action, V(e), R(e), C(e)>>
    BY <2>1
  <2> QED BY <2>2, FivesAgree
<1>2. ASSUME NEW x \in IntentDescriptors
      PROVE  /\ x.version \in Numbers /\ x.tenant \in Reference
             /\ x.components \in Seq(Component) \ {<<>>}
  BY DEF IntentDescriptors
<1>3. d.tenant = e.tenant
  BY <1>1, <1>2, TenantPartsApart
<1>4. d.components = e.components
  BY <1>1, <1>2, ComponentPartsApart
<1>5. d.version = e.version
  <2> DEFINE v == Letters["v"]
             m == Decimal[d.version]
             n == Decimal[e.version]
  <2>1. v \in Seq(Plain) /\ m \in Seq(Plain) /\ n \in Seq(Plain)
    BY <1>2, VersionType
  <2>2. Prefixed(v, m) = Prefixed(v, n)
    BY <1>1 DEF Prefixed
  <2> HIDE DEF v, m, n
  <2>3. m = n
    BY <2>1, <2>2, PrefixCancels
  <2> QED BY <1>2, <2>3, NumbersAssumption DEF m, n
<1> QED BY <1>1, <1>3, <1>4, <1>5 DEF IntentDescriptors

LEMMA DerivationTexts ==
  ASSUME NEW r \in Derivations
  PROVE  /\ r.parent \in Seq(Chars) /\ r.slot \in Seq(Chars)
         /\ r.discriminator \in Seq(Chars) \cup {Absent}
         /\ EncodeURIComponent(r.parent) \in Seq(Encoded)
         /\ EncodeURIComponent(r.slot) \in Seq(Encoded)
         /\ r.discriminator # Absent => EncodeURIComponent(r.discriminator) \in Seq(Encoded)
<1>1. /\ r.parent \in Seq(Chars) /\ r.slot \in Seq(Plain)
      /\ r.discriminator \in Seq(Chars) \cup {Absent}
  BY DEF Derivations, Name, Text
<1>2. r.slot \in Seq(Chars)
  <2> DEFINE x == r.slot
  <2> HIDE DEF x
  <2>1. x \in Seq(Plain)
    BY <1>1 DEF x
  <2>2. x \in Seq(Chars)
    BY <2>1, SeparatorsApart, PlainTextType
  <2> QED BY <2>2 DEF x
<1> QED BY <1>1, <1>2, EncodingType

LEMMA DerivedPartsType ==
  ASSUME NEW r \in Derivations
  PROVE  /\ DerivedParts(r) \in Seq(Seq(IntentCharacters)) /\ DerivedParts(r) # <<>>
         /\ DerivedParts(r)[1] = <<"@">> \o Letters["derived"]
         /\ DerivedParts(r)[3] = Labelled("parentIntentId", EncodeURIComponent(r.parent))
         /\ DerivedParts(r)[4] = Labelled("slot", EncodeURIComponent(r.slot))
         /\ Len(DerivedParts(r)) = IF r.discriminator = Absent THEN 4 ELSE 5
         /\ r.discriminator # Absent =>
              DerivedParts(r)[5] = Labelled("discriminator", EncodeURIComponent(r.discriminator))
<1> DEFINE a == <<"@">> \o Letters["derived"]
           b == Letters["v1"]
           p == Labelled("parentIntentId", EncodeURIComponent(r.parent))
           s == Labelled("slot", EncodeURIComponent(r.slot))
           q == Labelled("discriminator", EncodeURIComponent(r.discriminator))
           X == Seq(IntentCharacters)
<1>1. {"derived", "v1", "parentIntentId", "slot", "discriminator"} \subseteq Words
  BY DEF Words
<1>2. Encoded \cup {"="} \subseteq IntentCharacters /\ Plain \subseteq IntentCharacters
  BY SeparatorsApart DEF IntentCharacters
<1>3. p \in X /\ s \in X /\ (r.discriminator # Absent => q \in X)
  BY <1>1, <1>2, DerivationTexts, LabelledType
<1>4. a \in X /\ b \in X
  <2> DEFINE at == <<"@">>
             l == Letters["derived"]
  <2>1. l \in Seq(Plain) /\ b \in Seq(Plain)
    BY <1>1, WordsAssumption
  <2>2. at \in X
    BY DEF IntentCharacters
  <2> HIDE DEF at, l, b, X
  <2>3. l \in X /\ b \in X
    BY <1>2, <2>1, PlainTextType DEF X
  <2>4. Prefixed(at, l) \in X
    BY <2>2, <2>3, PrefixType DEF X
  <2> QED BY <2>3, <2>4 DEF Prefixed, at, l
<1>5. DerivedSegments(r) = <<a, b, p, s>>
  BY DEF DerivedSegments
<1>6. DerivedParts(r) = IF r.discriminator = Absent THEN <<a, b, p, s>> ELSE <<a, b, p, s, q>>
  <2> HIDE DEF a, b, p, s, q
  <2>1. Append(<<a, b, p, s>>, q) = <<a, b, p, s, q>>
    <3> DEFINE Y == {a, b, p, s, q}
    <3>1. a \in Y /\ b \in Y /\ p \in Y /\ s \in Y /\ q \in Y
      OBVIOUS
    <3> HIDE DEF Y
    <3> QED BY <3>1, FifthAppended
  <2> QED BY <1>5, <2>1 DEF DerivedParts, q
<1> HIDE DEF a, b, p, s, q, X
<1>7. DerivedParts(r) \in Seq(X) /\ DerivedParts(r) # <<>>
  BY <1>3, <1>4, <1>6
<1>8. /\ DerivedParts(r)[1] = a /\ DerivedParts(r)[3] = p /\ DerivedParts(r)[4] = s
      /\ Len(DerivedParts(r)) = IF r.discriminator = Absent THEN 4 ELSE 5
      /\ r.discriminator # Absent => DerivedParts(r)[5] = q
  BY <1>6
<1> QED BY <1>7, <1>8 DEF a, p, s, q, X

LEMMA DerivedPartsApart ==
  ASSUME NEW r \in Derivations, NEW t \in Derivations, DerivedParts(r) = DerivedParts(t)
  PROVE  r = t
<1>1. {"parentIntentId", "slot", "discriminator"} \subseteq Words
  BY DEF Words
<1>2. r.parent = t.parent /\ r.slot = t.slot
  <2>1. /\ Labelled("parentIntentId", EncodeURIComponent(r.parent))
             = Labelled("parentIntentId", EncodeURIComponent(t.parent))
        /\ Labelled("slot", EncodeURIComponent(r.slot))
             = Labelled("slot", EncodeURIComponent(t.slot))
    <3>1. /\ DerivedParts(r)[3] = Labelled("parentIntentId", EncodeURIComponent(r.parent))
          /\ DerivedParts(r)[4] = Labelled("slot", EncodeURIComponent(r.slot))
      BY DerivedPartsType
    <3>2. /\ DerivedParts(t)[3] = Labelled("parentIntentId", EncodeURIComponent(t.parent))
          /\ DerivedParts(t)[4] = Labelled("slot", EncodeURIComponent(t.slot))
      BY DerivedPartsType
    <3> QED BY <3>1, <3>2
  <2>2. /\ EncodeURIComponent(r.parent) = EncodeURIComponent(t.parent)
        /\ EncodeURIComponent(r.slot) = EncodeURIComponent(t.slot)
    BY <1>1, <2>1, DerivationTexts, LabelCancels
  <2> QED BY <2>2, DerivationTexts, EncodingInjective
<1>3. r.discriminator = t.discriminator
  <2>1. r.discriminator = Absent <=> t.discriminator = Absent
    <3>1. Len(DerivedParts(r)) = IF r.discriminator = Absent THEN 4 ELSE 5
      BY DerivedPartsType
    <3>2. Len(DerivedParts(t)) = IF t.discriminator = Absent THEN 4 ELSE 5
      BY DerivedPartsType
    <3> QED BY <3>1, <3>2
  <2>2. CASE r.discriminator = Absent
    BY <2>1, <2>2
  <2>3. CASE r.discriminator # Absent
    <3>1. Labelled("discriminator", EncodeURIComponent(r.discriminator))
            = Labelled("discriminator", EncodeURIComponent(t.discriminator))
      BY <2>1, <2>3, DerivedPartsType
    <3>2. EncodeURIComponent(r.discriminator) = EncodeURIComponent(t.discriminator)
      BY <1>1, <2>1, <2>3, <3>1, DerivationTexts, LabelCancels
    <3> QED BY <2>1, <2>3, <3>2, DerivationTexts, EncodingInjective
  <2> QED BY <2>2, <2>3
<1> QED BY <1>2, <1>3 DEF Derivations

LEMMA PrefixFirst ==
  ASSUME NEW S, NEW a \in Seq(S), NEW t \in Seq(S), Len(a) = 1
  PROVE  Len(a \o t) >= 1 /\ (a \o t)[1] = a[1]
<1>1. Len(t) \in Nat /\ 1 \in 1 .. Len(a) + Len(t)
  OBVIOUS
<1>2. /\ Len(a \o t) = Len(a) + Len(t)
      /\ \A i \in 1 .. Len(a) + Len(t) : (a \o t)[i] = IF i <= Len(a) THEN a[i] ELSE t[i - Len(a)]
  BY ConcatProperties
<1> QED BY <1>1, <1>2

\* Two intents of one id are the same intent: no two root descriptors share a key, no
\* two derivations do, and no descriptor shares one with a derivation.
THEOREM IntentKeysSeparate ==
  ASSUME NEW d \in IntentDescriptors \cup Derivations,
         NEW e \in IntentDescriptors \cup Derivations,
         BuildIntentKey(d) = BuildIntentKey(e)
  PROVE  d = e
<1> DEFINE Parts(x) == IF "parent" \in DOMAIN x THEN DerivedParts(x) ELSE RootParts(x)
<1>1. \A x \in Derivations : "parent" \in DOMAIN x
  BY DEF Derivations
<1>2. \A x \in IntentDescriptors : "parent" \notin DOMAIN x
  BY DEF IntentDescriptors
<1>3. \A x \in Derivations : Parts(x) = DerivedParts(x)
  BY <1>1
<1>4. \A x \in IntentDescriptors : Parts(x) = RootParts(x)
  BY <1>2
<1>5. ASSUME NEW x \in IntentDescriptors \cup Derivations
      PROVE  /\ BuildIntentKey(x) = JoinedBy(":", Parts(x))
             /\ Parts(x) \in Seq(Seq(IntentCharacters)) /\ Parts(x) # <<>>
  <2>1. CASE x \in IntentDescriptors
    <3>1. BuildIntentKey(x) = BuildRootIntentKey(x)
      BY <1>2, <2>1 DEF BuildIntentKey
    <3> HIDE DEF Parts
    <3> QED BY <1>4, <2>1, <3>1, RootPartsType
  <2>2. CASE x \in Derivations
    <3>1. BuildIntentKey(x) = BuildDerivedIntentKey(x)
      BY <1>1, <2>2 DEF BuildIntentKey
    <3>2. BuildDerivedIntentKey(x) = JoinedBy(":", DerivedParts(x))
      BY DEF BuildDerivedIntentKey, DerivedParts
    <3> HIDE DEF Parts
    <3> QED BY <1>3, <2>2, <3>1, <3>2, DerivedPartsType
  <2> QED BY <2>1, <2>2
<1> HIDE DEF Parts
<1>6. Parts(d) = Parts(e)
  <2>1. ":" \notin IntentCharacters
    BY SeparatorsApart DEF IntentCharacters
  <2>2. JoinedBy(":", Parts(d)) = JoinedBy(":", Parts(e))
    BY <1>5
  <2> QED BY <1>5, <2>1, <2>2, JoinSeparates
<1>7. ASSUME NEW x \in IntentDescriptors, NEW y \in Derivations PROVE Parts(x) # Parts(y)
  <2> DEFINE at == <<"@">>
             l == Letters["derived"]
             a == at \o l
  <2>1. Parts(x)[1] \in Seq(Plain) /\ Parts(y)[1] = a
    BY <1>3, <1>4, RootPartsType, DerivedPartsType
  <2>2. a \notin Seq(Plain)
    <3>1. l \in Seq(Plain) /\ Plain \subseteq Encoded \cup {"@"}
      BY WordsAssumption, SeparatorsApart DEF Words
    <3> DEFINE S == Encoded \cup {"@"}
    <3>2. l \in Seq(S)
      <4> HIDE DEF l, S
      <4> QED BY <3>1, PlainTextType DEF S
    <3>3. at \in Seq(S) /\ Len(at) = 1 /\ at[1] = "@"
      OBVIOUS
    <3> HIDE DEF at, l, S
    <3>4. Len(at \o l) >= 1 /\ (at \o l)[1] = at[1]
      BY <3>2, <3>3, PrefixFirst
    <3> HIDE DEF a
    <3>5. Len(a) >= 1 /\ a[1] = "@"
      BY <3>3, <3>4 DEF a
    <3> SUFFICES ASSUME a \in Seq(Plain) PROVE FALSE
      OBVIOUS
    <3>6. a[1] \in Plain
      BY <3>5
    <3> QED BY <3>5, <3>6, SeparatorsApart
  <2> HIDE DEF a
  <2> QED BY <2>1, <2>2
<1>8. CASE d \in IntentDescriptors /\ e \in IntentDescriptors
  BY <1>4, <1>6, <1>8, RootPartsApart
<1>9. CASE d \in Derivations /\ e \in Derivations
  BY <1>3, <1>6, <1>9, DerivedPartsApart
<1> QED BY <1>6, <1>7, <1>8, <1>9

-----------------------------------------------------------------------------
(* Rate-limit buckets. *)

LEMMA SharersType ==
  ASSUME NEW scope \in Scopes, NEW o \in Operations
  PROVE  Sharers(scope, o) \in Seq(Seq(Chars))
<1>1. /\ o.actor \in Reference /\ o.tenant \in Reference /\ o.subject \in Reference
      /\ o.name \in Seq(Chars) /\ o.schemaVersion \in Numbers
  BY DEF Operations, Text
<1>2. \A r \in Reference : <<r.type, r.id>> \in Seq(Seq(Chars))
  BY PairType DEF Reference, Text
<1>3. <<o.name, Decimal[o.schemaVersion]>> \in Seq(Seq(Chars))
  <2> DEFINE n == Decimal[o.schemaVersion]
  <2>1. n \in Seq(Plain)
    BY <1>1, NumbersAssumption
  <2> HIDE DEF n
  <2>2. n \in Seq(Chars)
    BY <2>1, SeparatorsApart, PlainTextType
  <2>3. <<o.name, n>> \in Seq(Seq(Chars))
    BY <1>1, <2>2, PairType
  <2> QED BY <2>3 DEF n
<1>4. <<>> \in Seq(Seq(Chars))
  OBVIOUS
<1>5. CASE scope = "global"
  BY <1>4, <1>5 DEF Sharers
<1>6. CASE scope = "actor"
  BY <1>1, <1>2, <1>6 DEF Sharers
<1>7. CASE scope = "tenant"
  BY <1>1, <1>2, <1>7 DEF Sharers
<1>8. CASE scope = "subject"
  BY <1>1, <1>2, <1>8 DEF Sharers
<1>9. CASE scope = "operation"
  BY <1>3, <1>9 DEF Sharers
<1> QED BY <1>5, <1>6, <1>7, <1>8, <1>9 DEF Scopes

LEMMA BucketPartsType ==
  ASSUME NEW limit \in RateLimits, NEW s \in Seq(Seq(Chars))
  PROVE  /\ BucketParts(limit, s) \in Seq(Seq(Encoded)) /\ BucketParts(limit, s) # <<>>
         /\ Len(BucketParts(limit, s)) = 2 + Len(s)
         /\ BucketParts(limit, s)[1] = EncodeURIComponent(limit.key)
         /\ BucketParts(limit, s)[2] = Letters[limit.scope]
         /\ \A i \in 1 .. Len(s) : BucketParts(limit, s)[i + 2] = EncodeURIComponent(s[i])
<1> DEFINE b == BucketParts(limit, s)
           n == 2 + Len(s)
           Part(i) == CASE i = 1 -> EncodeURIComponent(limit.key)
                        [] i = 2 -> Letters[limit.scope]
                        [] i > 2 -> EncodeURIComponent(s[i - 2])
<1>1. Len(s) \in Nat /\ n \in Nat /\ \A i \in 1 .. Len(s) : s[i] \in Seq(Chars)
  OBVIOUS
<1>2. limit.key \in Seq(Chars) /\ limit.scope \in Words
  BY DEF RateLimits, Text, Scopes, Words
<1>3. Letters[limit.scope] \in Seq(Encoded)
  <2> DEFINE l == Letters[limit.scope]
  <2>1. l \in Seq(Plain)
    BY <1>2, WordsAssumption
  <2> HIDE DEF l
  <2>2. l \in Seq(Encoded)
    BY <2>1, SeparatorsApart, PlainTextType
  <2> QED BY <2>2 DEF l
<1>4. Part(1) = EncodeURIComponent(limit.key) /\ Part(2) = Letters[limit.scope]
  OBVIOUS
<1>5. ASSUME NEW i \in 1 .. n, i > 2
      PROVE  Part(i) = EncodeURIComponent(s[i - 2]) /\ i - 2 \in 1 .. Len(s)
  BY <1>1, <1>5
<1>6. ASSUME NEW i \in 1 .. n PROVE Part(i) \in Seq(Encoded)
  <2>1. CASE i = 1
    BY <1>2, <1>4, <2>1, EncodingType
  <2>2. CASE i = 2
    BY <1>3, <1>4, <2>2
  <2>3. CASE i > 2
    <3>1. Part(i) = EncodeURIComponent(s[i - 2]) /\ i - 2 \in 1 .. Len(s)
      BY <1>5, <2>3
    <3>2. s[i - 2] \in Seq(Chars)
      BY <1>1, <3>1
    <3> HIDE DEF Part
    <3> QED BY <3>1, <3>2, EncodingType
  <2>4. i = 1 \/ i = 2 \/ i > 2
    BY <1>1
  <2> HIDE DEF Part
  <2> QED BY <2>1, <2>2, <2>3, <2>4
<1>7. b = [i \in 1 .. n |-> Part(i)]
  BY DEF BucketParts
<1>8. 1 \in 1 .. n /\ 2 \in 1 .. n /\ n # 0
  BY <1>1
<1> HIDE DEF b, n, Part
<1>9. b \in [1 .. n -> Seq(Encoded)] /\ b[1] = Part(1) /\ b[2] = Part(2)
  BY <1>6, <1>7, <1>8
<1>10. b \in Seq(Seq(Encoded)) /\ Len(b) = n
  BY <1>1, <1>9, ListsAreSequences
<1>11. b # <<>>
  BY <1>8, <1>10, EmptySeq
<1>12. ASSUME NEW i \in 1 .. Len(s) PROVE b[i + 2] = EncodeURIComponent(s[i])
  <2>1. i + 2 \in 1 .. n /\ i + 2 > 2 /\ (i + 2) - 2 = i
    BY <1>1 DEF n
  <2>2. Part(i + 2) = EncodeURIComponent(s[(i + 2) - 2])
    BY <1>5, <2>1
  <2>3. b[i + 2] = Part(i + 2)
    BY <1>7, <2>1
  <2> QED BY <2>1, <2>2, <2>3
<1> QED BY <1>4, <1>9, <1>10, <1>11, <1>12 DEF b, n

\* Operations are counted in one bucket only when the limit is the same one and they
\* share what its scope names.
THEOREM BucketKeysSeparate ==
  ASSUME NEW l \in RateLimits, NEW m \in RateLimits, NEW o \in Operations, NEW p \in Operations,
         BuildRateLimitBucketKey(l, o) = BuildRateLimitBucketKey(m, p)
  PROVE  l = m /\ Sharers(l.scope, o) = Sharers(m.scope, p)
<1> DEFINE s == Sharers(l.scope, o)
           t == Sharers(m.scope, p)
<1>1. s \in Seq(Seq(Chars)) /\ t \in Seq(Seq(Chars))
  BY SharersType DEF RateLimits
<1>2. /\ BuildRateLimitBucketKey(l, o) = JoinedBy("|", BucketParts(l, s))
      /\ BuildRateLimitBucketKey(m, p) = JoinedBy("|", BucketParts(m, t))
  BY DEF BuildRateLimitBucketKey, BucketParts
<1> HIDE DEF s, t
<1>3. BucketParts(l, s) = BucketParts(m, t)
  <2> DEFINE b == BucketParts(l, s)
             c == BucketParts(m, t)
  <2>1. /\ b \in Seq(Seq(Encoded)) /\ b # <<>> /\ c \in Seq(Seq(Encoded)) /\ c # <<>>
        /\ JoinedBy("|", b) = JoinedBy("|", c)
    BY <1>1, <1>2, BucketPartsType
  <2>2. "|" \notin Encoded
    BY SeparatorsApart
  <2> HIDE DEF b, c
  <2>3. b = c
    BY <2>1, <2>2, JoinSeparates
  <2> QED BY <2>3 DEF b, c
<1>4. l.key = m.key /\ l.scope = m.scope
  <2>1. /\ l.key \in Seq(Chars) /\ m.key \in Seq(Chars)
        /\ l.scope \in Words /\ m.scope \in Words
    BY DEF RateLimits, Text, Scopes, Words
  <2>2. /\ BucketParts(l, s)[1] = EncodeURIComponent(l.key)
        /\ BucketParts(l, s)[2] = Letters[l.scope]
    BY <1>1, BucketPartsType
  <2>3. /\ BucketParts(m, t)[1] = EncodeURIComponent(m.key)
        /\ BucketParts(m, t)[2] = Letters[m.scope]
    BY <1>1, BucketPartsType
  <2>4. EncodeURIComponent(l.key) = EncodeURIComponent(m.key) /\ Letters[l.scope] = Letters[m.scope]
    BY <1>3, <2>2, <2>3
  <2> QED BY <2>1, <2>4, EncodingInjective, WordsAssumption
<1>5. Len(s) = Len(t)
  <2>1. 2 + Len(s) = 2 + Len(t)
    <3>1. Len(BucketParts(l, s)) = 2 + Len(s)
      BY <1>1, BucketPartsType
    <3>2. Len(BucketParts(m, t)) = 2 + Len(t)
      BY <1>1, BucketPartsType
    <3> QED BY <1>3, <3>1, <3>2
  <2>2. Len(s) \in Nat /\ Len(t) \in Nat
    BY <1>1
  <2> QED BY <2>1, <2>2
<1>6. ASSUME NEW i \in 1 .. Len(s) PROVE s[i] = t[i]
  <2>1. s[i] \in Seq(Chars) /\ t[i] \in Seq(Chars)
    BY <1>1, <1>5
  <2>2. EncodeURIComponent(s[i]) = EncodeURIComponent(t[i])
    <3>1. BucketParts(l, s)[i + 2] = EncodeURIComponent(s[i])
      BY <1>1, BucketPartsType
    <3>2. BucketParts(m, t)[i + 2] = EncodeURIComponent(t[i])
      BY <1>1, <1>5, BucketPartsType
    <3> QED BY <1>3, <3>1, <3>2
  <2> QED BY <2>1, <2>2, EncodingInjective
<1>7. s = t
  BY <1>1, <1>5, <1>6, SeqEqual
<1>8. l = m
  BY <1>4 DEF RateLimits
<1> QED BY <1>7, <1>8 DEF s, t

=============================================================================
