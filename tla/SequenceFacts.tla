--------------------------- MODULE SequenceFacts ---------------------------
(***************************************************************************)
(* Facts about sequences that the proofs about the models share: induction *)
(* over the natural numbers with a set for the induction hypothesis, and   *)
(* what FlattenSeq does when a sequence is added behind or taken in front. *)
(***************************************************************************)
EXTENDS Integers, Sequences, SequencesExt, SequenceTheorems, WellFoundedInduction, TLAPS

(* A set with 0 and the successors of its members has all numbers: a       *)
(* number outside it would have a least one, whose predecessor is inside.  *)
LEMMA NatSetInduction ==
  ASSUME NEW T, 0 \in T, \A n \in Nat : n \in T => n + 1 \in T
  PROVE  \A n \in Nat : n \in T
  <1> SUFFICES ASSUME Nat \ T # {} PROVE FALSE
    OBVIOUS
  <1> DEFINE R == OpToRel(<, Nat)
  <1>1. \A x, y \in Nat : <<x, y>> \in R <=> x < y
    BY DEF OpToRel
  <1>2. IsWellFoundedOn(R, Nat)
    BY NatLessThanWellFounded
  <1>3. Nat \ T \subseteq Nat
    OBVIOUS
  <1> HIDE DEF R
  <1>4. PICK x \in Nat \ T : \A y \in Nat \ T : ~(<<y, x>> \in R)
    BY <1>2, <1>3, WFMin
  <1>5. x # 0 /\ x - 1 \in Nat /\ x - 1 < x /\ (x - 1) + 1 = x
    BY <1>4
  <1>6. x - 1 \in T
    BY <1>1, <1>4, <1>5
  <1> QED BY <1>4, <1>5, <1>6

-----------------------------------------------------------------------------
(* Concatenation in any grouping. *)
LEMMA Regroup ==
  ASSUME NEW S
  PROVE  \A x, y, z \in Seq(S) : (x \o y) \o z = x \o (y \o z)
  BY ConcatAssociative

(* f[i] is the first i sequences of js in one. *)
IsFlat(f, js, n) == f = [i \in 1 .. n |-> IF i = 1 THEN js[i] ELSE f[i - 1] \o js[i]]

(* Such a function exists, also for the whole of js. *)
LEMMA FlatExists ==
  ASSUME NEW js
  PROVE  \A n \in Nat : \E f : IsFlat(f, js, n)
  <1> DEFINE T == {n \in Nat : \E f : IsFlat(f, js, n)}
  <1>1. 0 \in T
    <2>1. IsFlat(<<>>, js, 0)
      BY DEF IsFlat
    <2> QED BY <2>1
  <1>2. ASSUME NEW n \in Nat, n \in T
        PROVE  n + 1 \in T
    <2>1. PICK f : IsFlat(f, js, n)
      BY <1>2
    <2> DEFINE g == [i \in 1 .. n + 1 |->
                       IF i \in 1 .. n THEN f[i] ELSE IF i = 1 THEN js[i] ELSE f[i - 1] \o js[i]]
    <2>2. \A i \in 1 .. n : f[i] = IF i = 1 THEN js[i] ELSE f[i - 1] \o js[i]
      BY <2>1 DEF IsFlat
    <2>3. \A i \in 1 .. n + 1 : i = 1 \/ i - 1 \in 1 .. n
      OBVIOUS
    <2>4. \A i \in 1 .. n : i \in 1 .. n + 1 /\ g[i] = f[i]
      OBVIOUS
    <2>5. \A i \in 1 .. n + 1 : g[i] = IF i = 1 THEN js[i] ELSE g[i - 1] \o js[i]
      BY <2>2, <2>3, <2>4
    <2>6. g = [i \in 1 .. n + 1 |-> g[i]]
      OBVIOUS
    <2> HIDE DEF g
    <2>7. IsFlat(g, js, n + 1)
      BY <2>5, <2>6 DEF IsFlat
    <2> QED BY <2>7
  <1> HIDE DEF T
  <1>3. \A n \in Nat : n \in T
    BY <1>1, <1>2, NatSetInduction
  <1> QED BY <1>3 DEF T

(* What is said of f[1] and handed on from f[i] to f[i + 1] holds of every *)
(* f[i] with i at most n.                                                  *)
LEMMA UpTo ==
  ASSUME NEW n \in Nat, NEW T, 1 \in T, \A i \in 1 .. n - 1 : i \in T => i + 1 \in T
  PROVE  \A i \in 1 .. n : i \in T
  <1> DEFINE U == {k \in Nat : k + 1 \in 1 .. n => k + 1 \in T}
  <1>1. 0 \in U
    OBVIOUS
  <1>2. ASSUME NEW k \in Nat, k \in U
        PROVE  k + 1 \in U
    <2>1. (k + 1) + 1 \in 1 .. n => k + 1 \in 1 .. n - 1 /\ k + 1 \in 1 .. n
      OBVIOUS
    <2> QED BY <1>2, <2>1
  <1>3. \A k \in Nat : k \in U
    <2> HIDE DEF U
    <2> QED BY <1>1, <1>2, NatSetInduction
  <1> SUFFICES ASSUME NEW i \in 1 .. n PROVE i \in T
    OBVIOUS
  <1>4. i - 1 \in Nat /\ (i - 1) + 1 = i
    OBVIOUS
  <1>5. i - 1 \in U
    BY <1>3, <1>4
  <1> QED BY <1>4, <1>5

(* f[i + 1] is f[i] and the next of the sequences ks. *)
Accumulates(f, ks, n) == \A i \in 1 .. n - 1 : f[i + 1] = f[i] \o ks[i + 1]

(* FlattenSeq by its partial results. *)
LEMMA Flatten ==
  ASSUME NEW S, NEW js \in Seq(Seq(S)), js # <<>>
  PROVE  \E f : /\ FlattenSeq(js) = f[Len(js)]
                /\ \A i \in 1 .. Len(js) : f[i] \in Seq(S)
                /\ f[1] = js[1] /\ Accumulates(f, js, Len(js))
  <1> DEFINE n == Len(js)
             f == CHOOSE g : IsFlat(g, js, n)
  <1>1. n \in Nat /\ n # 0
    BY EmptySeq
  <1>2. FlattenSeq(js) = f[n]
    <2>1. Len(js) # 0
      BY <1>1
    <2> QED BY <2>1, Zenon DEF FlattenSeq, IsFlat
  <1>3. IsFlat(f, js, n)
    <2>1. \E g : IsFlat(g, js, n)
      BY <1>1, FlatExists
    <2> QED BY <2>1
  <1> HIDE DEF f
  <1>4. f[1] = js[1] /\ \A i \in 1 .. n - 1 : f[i + 1] = f[i] \o js[i + 1]
    <2>1. \A i \in 1 .. n : f[i] = IF i = 1 THEN js[i] ELSE f[i - 1] \o js[i]
      BY <1>3 DEF IsFlat
    <2>2. 1 \in 1 .. n /\ \A i \in 1 .. n - 1 : i + 1 \in 1 .. n /\ i + 1 # 1 /\ (i + 1) - 1 = i
      BY <1>1
    <2> QED BY <2>1, <2>2
  <1>5. \A i \in 1 .. n : js[i] \in Seq(S)
    BY ElementOfSeq
  <1>6. \A i \in 1 .. n : f[i] \in Seq(S)
    <2> DEFINE T == {i \in 1 .. n : f[i] \in Seq(S)}
    <2>1. 1 \in T
      BY <1>1, <1>4, <1>5
    <2>2. ASSUME NEW i \in 1 .. n - 1, i \in T
          PROVE  i + 1 \in T
      <3>1. f[i + 1] = f[i] \o js[i + 1] /\ i + 1 \in 1 .. n
        <4>1. f[i + 1] = f[i] \o js[i + 1]
          BY <1>4
        <4>2. i + 1 \in 1 .. n
          BY <1>1
        <4> QED BY <4>1, <4>2
      <3>2. f[i] \in Seq(S) /\ js[i + 1] \in Seq(S)
        BY <1>5, <2>2, <3>1
      <3> QED BY <3>1, <3>2, ConcatProperties
    <2> HIDE DEF T
    <2>3. \A i \in 1 .. n : i \in T
      BY <1>1, <2>1, <2>2, UpTo
    <2> QED BY <2>3 DEF T
  <1> QED BY <1>2, <1>4, <1>6 DEF Accumulates

(* Nothing flattened is nothing, and what is flattened is a sequence. *)
LEMMA FlattenType ==
  ASSUME NEW S, NEW js \in Seq(Seq(S))
  PROVE  FlattenSeq(js) \in Seq(S) /\ FlattenSeq(<<>>) = <<>>
  <1>1. FlattenSeq(<<>>) = <<>>
    BY DEF FlattenSeq
  <1>2. CASE js # <<>>
    <2>1. Len(js) \in 1 .. Len(js)
      BY <1>2, EmptySeq
    <2> QED BY <1>1, <1>2, <2>1, Flatten
  <1> QED BY <1>1, <1>2

(* A sequence added behind comes last. *)
LEMMA FlattenAppend ==
  ASSUME NEW S, NEW js \in Seq(Seq(S)), NEW j \in Seq(S)
  PROVE  FlattenSeq(Append(js, j)) = FlattenSeq(js) \o j
  <1> DEFINE n == Len(js)
             ks == Append(js, j)
  <1>1. /\ ks \in Seq(Seq(S)) /\ ks # <<>> /\ Len(ks) = n + 1 /\ n \in Nat
        /\ (\A i \in 1 .. n : ks[i] = js[i]) /\ ks[n + 1] = j
    BY AppendProperties, LenProperties
  <1> HIDE DEF ks
  <1>2. PICK g : FlattenSeq(ks) = g[n + 1] /\ g[1] = ks[1] /\ Accumulates(g, ks, n + 1)
    <2>1. PICK g : FlattenSeq(ks) = g[Len(ks)] /\ g[1] = ks[1] /\ Accumulates(g, ks, Len(ks))
      BY <1>1, Flatten
    <2> QED BY <1>1, <2>1
  <1>3. CASE js = <<>>
    <2>1. n = 0 /\ FlattenSeq(js) = <<>> /\ <<>> \o j = j
      BY <1>3, FlattenType, ConcatEmptySeq
    <2>2. n + 1 = 1
      BY <2>1
    <2> QED BY <1>1, <1>2, <2>1, <2>2 DEF ks
  <1>4. CASE js # <<>>
    <2>1. PICK f : FlattenSeq(js) = f[n] /\ f[1] = js[1] /\ Accumulates(f, js, n)
      BY <1>4, Flatten
    <2>2. n \in 1 .. n /\ 1 \in 1 .. n
      BY <1>4, EmptySeq
    <2>3. \A i \in 1 .. n : g[i] = f[i]
      <3> DEFINE T == {i \in 1 .. n : g[i] = f[i]}
      <3>1. 1 \in T
        BY <1>1, <1>2, <2>1, <2>2
      <3>2. ASSUME NEW i \in 1 .. n - 1, i \in T
            PROVE  i + 1 \in T
        <4>1. i + 1 \in 1 .. n /\ i \in 1 .. n /\ (n + 1) - 1 = n
          BY <1>1
        <4>2. f[i + 1] = f[i] \o js[i + 1] /\ g[i + 1] = g[i] \o ks[i + 1]
          BY <1>2, <2>1, <4>1 DEF Accumulates
        <4> QED BY <1>1, <3>2, <4>1, <4>2
      <3> HIDE DEF T
      <3>3. \A i \in 1 .. n : i \in T
        BY <1>1, <3>1, <3>2, UpTo
      <3> QED BY <3>3 DEF T
    <2>4. g[n + 1] = g[n] \o ks[n + 1]
      <3>1. n \in 1 .. (n + 1) - 1
        BY <1>1, <2>2
      <3> QED BY <1>2, <3>1 DEF Accumulates
    <2> QED BY <1>1, <1>2, <2>1, <2>2, <2>3, <2>4 DEF ks
  <1> QED BY <1>3, <1>4

(* Every f[i] is a sequence. *)
SeqsUpTo(f, n, S) == \A i \in 1 .. n : f[i] \in Seq(S)

(* Both f and g gather the sequences ks, f with h in front. *)
Shifted(f, g, ks, h, m, S) ==
  /\ m \in Nat /\ h \in Seq(S) /\ SeqsUpTo(g, m, S) /\ SeqsUpTo(ks, m, S)
  /\ f[1] = h \o g[1] /\ Accumulates(f, ks, m) /\ Accumulates(g, ks, m)

(* Then h stays in front. *)
LEMMA FlatShift ==
  ASSUME NEW S, NEW m, NEW f, NEW g, NEW ks, NEW h, Shifted(f, g, ks, h, m, S)
  PROVE  \A i \in 1 .. m : f[i] = h \o g[i]
  <1>0. /\ m \in Nat /\ h \in Seq(S) /\ SeqsUpTo(g, m, S) /\ SeqsUpTo(ks, m, S)
        /\ f[1] = h \o g[1] /\ Accumulates(f, ks, m) /\ Accumulates(g, ks, m)
    BY DEF Shifted
  <1> DEFINE T == {i \in Nat : f[i] = h \o g[i]}
  <1>1. 1 \in T
    BY <1>0
  <1>2. ASSUME NEW i \in 1 .. m - 1, i \in T
        PROVE  i + 1 \in T
    <2>1. i + 1 \in 1 .. m /\ i \in 1 .. m /\ i + 1 \in Nat
      BY <1>0
    <2>2. g[i] \in Seq(S) /\ ks[i + 1] \in Seq(S)
      BY <1>0, <2>1 DEF SeqsUpTo
    <2>3. f[i + 1] = f[i] \o ks[i + 1] /\ g[i + 1] = g[i] \o ks[i + 1] /\ f[i] = h \o g[i]
      BY <1>0, <1>2 DEF Accumulates
    <2>4. ASSUME NEW x \in Seq(S), NEW y \in Seq(S)
          PROVE  (h \o x) \o y = h \o (x \o y)
      <3>1. h \in Seq(S)
        BY <1>0
      <3> QED BY <3>1, Regroup
    <2>5. f[i + 1] = h \o g[i + 1]
      <3> DEFINE x == g[i]
                 y == ks[i + 1]
      <3>1. x \in Seq(S) /\ y \in Seq(S)
        BY <2>2
      <3>2. f[i + 1] = (h \o x) \o y /\ g[i + 1] = x \o y
        BY <2>3
      <3> HIDE DEF x, y
      <3>3. (h \o x) \o y = h \o (x \o y)
        BY <2>4, <3>1
      <3> QED BY <3>2, <3>3
    <2> QED BY <2>1, <2>5
  <1> HIDE DEF T
  <1>3. \A i \in 1 .. m : i \in T
    BY <1>0, <1>1, <1>2, UpTo
  <1> QED BY <1>3 DEF T

(* The sequence in front comes first. *)
LEMMA FlattenHead ==
  ASSUME NEW S, NEW js \in Seq(Seq(S)), js # <<>>
  PROVE  FlattenSeq(js) = Head(js) \o FlattenSeq(Tail(js))
  <1> DEFINE n == Len(js)
             h == Head(js)
             ks == Tail(js)
             m == n - 1
  <1>1. /\ n \in Nat /\ n # 0 /\ h = js[1] /\ h \in Seq(S)
        /\ ks \in Seq(Seq(S)) /\ Len(ks) = m
        /\ \A i \in 1 .. m : ks[i] = js[i + 1]
    BY HeadTailProperties, EmptySeq
  <1> HIDE DEF ks, h
  <1>2. PICK f : FlattenSeq(js) = f[n] /\ f[1] = js[1] /\ Accumulates(f, js, n)
    BY Flatten
  <1>3. CASE ks = <<>>
    <2>1. Len(ks) = 0 /\ FlattenSeq(ks) = <<>> /\ h \o <<>> = h
      BY <1>1, <1>3, FlattenType, ConcatEmptySeq
    <2>2. n = 1
      BY <1>1, <2>1
    <2> QED BY <1>1, <1>2, <2>1, <2>2 DEF ks, h
  <1>4. CASE ks # <<>>
    <2>1. PICK g : /\ FlattenSeq(ks) = g[Len(ks)] /\ g[1] = ks[1] /\ Accumulates(g, ks, Len(ks))
                   /\ \A i \in 1 .. Len(ks) : g[i] \in Seq(S)
      BY <1>1, <1>4, Flatten
    <2>2. m \in Nat /\ m \in 1 .. m /\ 1 \in 1 .. m
      BY <1>1, <1>4, EmptySeq
    <2> DEFINE e == [i \in 1 .. m |-> f[i + 1]]
    <2>3. e[1] = h \o g[1]
      <3>1. f[1 + 1] = f[1] \o js[1 + 1]
        BY <1>1, <1>2, <2>2 DEF Accumulates
      <3>2. js[1 + 1] = ks[1] /\ e[1] = f[1 + 1]
        BY <1>1, <2>2
      <3> QED BY <1>1, <1>2, <2>1, <3>1, <3>2
    <2>4. Accumulates(e, ks, m)
      <3> SUFFICES ASSUME NEW i \in 1 .. m - 1
                   PROVE  e[i + 1] = e[i] \o ks[i + 1]
        BY DEF Accumulates
      <3>1. i \in 1 .. m /\ i + 1 \in 1 .. m /\ i + 1 \in 1 .. n - 1
        BY <1>1
      <3>2. f[(i + 1) + 1] = f[i + 1] \o js[(i + 1) + 1]
        BY <1>2, <3>1 DEF Accumulates
      <3>3. js[(i + 1) + 1] = ks[i + 1] /\ e[i + 1] = f[(i + 1) + 1] /\ e[i] = f[i + 1]
        BY <1>1, <3>1
      <3> QED BY <3>2, <3>3
    <2>5. SeqsUpTo(g, m, S) /\ SeqsUpTo(ks, m, S)
      BY <1>1, <2>1, ElementOfSeq DEF SeqsUpTo
    <2>6. Accumulates(g, ks, m)
      BY <1>1, <2>1
    <2>7. e[m] = f[n]
      BY <1>1, <2>2
    <2> HIDE DEF e
    <2>8. e[m] = h \o g[m]
      <3>1. Shifted(e, g, ks, h, m, S)
        BY <1>1, <2>2, <2>3, <2>4, <2>5, <2>6 DEF Shifted
      <3>2. m \in 1 .. m
        BY <2>2
      <3> HIDE DEF m, n
      <3>3. \A i \in 1 .. m : e[i] = h \o g[i]
        BY <3>1, FlatShift
      <3> QED BY <3>2, <3>3
    <2> QED BY <1>1, <1>2, <2>1, <2>7, <2>8 DEF ks, h
  <1> QED BY <1>3, <1>4

(***************************************************************************)
(* Tuples that grow by one.                                                *)
(***************************************************************************)
LEMMA AppendIs ==
  ASSUME NEW S, NEW s \in Seq(S), NEW e \in S, NEW u \in Seq(S), Len(u) = Len(s) + 1,
         \A i \in 1 .. Len(s) : u[i] = s[i], u[Len(s) + 1] = e
  PROVE  Append(s, e) = u
  <1> DEFINE t == Append(s, e)
  <1>1. /\ t \in Seq(S) /\ Len(t) = Len(s) + 1 /\ t[Len(s) + 1] = e
        /\ \A i \in 1 .. Len(s) : t[i] = s[i]
    BY AppendProperties
  <1> HIDE DEF t
  <1>2. Len(s) \in Nat
    BY LenProperties
  <1>3. \A i \in 1 .. Len(t) : t[i] = u[i]
    BY <1>1, <1>2
  <1>4. t = u
    BY <1>1, <1>3, SeqEqual
  <1> QED BY <1>4 DEF t

LEMMA AppendToOne ==
  ASSUME NEW a, NEW b
  PROVE  Append(<<a>>, b) = <<a, b>>
  <1> DEFINE S == {a, b}
             s == <<a>>
             u == <<a, b>>
  <1>1. /\ s \in Seq(S) /\ Len(s) = 1 /\ s[1] = a
        /\ u \in Seq(S) /\ Len(u) = 2 /\ u[1] = a /\ u[2] = b
        /\ b \in S
    OBVIOUS
  <1> HIDE DEF s, S, u
  <1>2. Len(u) = Len(s) + 1 /\ u[Len(s) + 1] = b /\ \A i \in 1 .. Len(s) : u[i] = s[i]
    BY <1>1
  <1>3. Append(s, b) = u
    BY <1>1, <1>2, AppendIs
  <1> QED BY <1>3 DEF s, u

LEMMA AppendToTwo ==
  ASSUME NEW a, NEW b, NEW c
  PROVE  Append(<<a, b>>, c) = <<a, b, c>>
  <1> DEFINE S == {a, b, c}
             s == <<a, b>>
             u == <<a, b, c>>
  <1>1. /\ s \in Seq(S) /\ Len(s) = 2 /\ s[1] = a /\ s[2] = b
        /\ u \in Seq(S) /\ Len(u) = 3 /\ u[1] = a /\ u[2] = b /\ u[3] = c
        /\ c \in S
    OBVIOUS
  <1> HIDE DEF s, S, u
  <1>2. Len(u) = Len(s) + 1 /\ u[Len(s) + 1] = c /\ \A i \in 1 .. Len(s) : u[i] = s[i]
    BY <1>1
  <1>3. Append(s, c) = u
    BY <1>1, <1>2, AppendIs
  <1> QED BY <1>3 DEF s, u

LEMMA AppendToThree ==
  ASSUME NEW a, NEW b, NEW c, NEW d
  PROVE  Append(<<a, b, c>>, d) = <<a, b, c, d>>
  <1> DEFINE S == {a, b, c, d}
             s == <<a, b, c>>
             u == <<a, b, c, d>>
  <1>1. /\ s \in Seq(S) /\ Len(s) = 3 /\ s[1] = a /\ s[2] = b /\ s[3] = c
        /\ u \in Seq(S) /\ Len(u) = 4 /\ u[1] = a /\ u[2] = b /\ u[3] = c /\ u[4] = d
        /\ d \in S
    OBVIOUS
  <1> HIDE DEF s, S, u
  <1>2. Len(u) = Len(s) + 1 /\ u[Len(s) + 1] = d /\ \A i \in 1 .. Len(s) : u[i] = s[i]
    BY <1>1
  <1>3. Append(s, d) = u
    BY <1>1, <1>2, AppendIs
  <1> QED BY <1>3 DEF s, u

LEMMA AppendToFour ==
  ASSUME NEW a, NEW b, NEW c, NEW d, NEW e
  PROVE  Append(<<a, b, c, d>>, e) = <<a, b, c, d, e>>
  <1> DEFINE S == {a, b, c, d, e}
             s == <<a, b, c, d>>
             u == <<a, b, c, d, e>>
  <1>1. /\ s \in Seq(S) /\ Len(s) = 4 /\ s[1] = a /\ s[2] = b /\ s[3] = c /\ s[4] = d
        /\ u \in Seq(S) /\ Len(u) = 5 /\ u[1] = a /\ u[2] = b /\ u[3] = c /\ u[4] = d /\ u[5] = e
        /\ e \in S
    OBVIOUS
  <1> HIDE DEF s, S, u
  <1>2. Len(u) = Len(s) + 1 /\ u[Len(s) + 1] = e /\ \A i \in 1 .. Len(s) : u[i] = s[i]
    BY <1>1
  <1>3. Append(s, e) = u
    BY <1>1, <1>2, AppendIs
  <1> QED BY <1>3 DEF s, u

(***************************************************************************)
(* A function on 1 .. n is a sequence of n elements.                       *)
(***************************************************************************)
IsTuple(a) == Len(a) \in Nat /\ a = [i \in 1 .. Len(a) |-> a[i]]

LEMMA TupleParts ==
  ASSUME NEW n \in Nat, NEW F, NEW a, a = [i \in 1 .. n |-> F[i]]
  PROVE  Len(a) = n /\ DOMAIN a = 1 .. n /\ \A i \in 1 .. n : a[i] = F[i]
  OBVIOUS

LEMMA IsTupleOf ==
  ASSUME NEW n \in Nat, NEW F, NEW a, a = [i \in 1 .. n |-> F[i]]
  PROVE  IsTuple(a)
  BY TupleParts DEF IsTuple

LEMMA EmptyTuple ==
  ASSUME NEW n \in Nat, NEW F, NEW a, a = [i \in 1 .. n |-> F[i]], n = 0
  PROVE  a = <<>>
  OBVIOUS
=============================================================================
