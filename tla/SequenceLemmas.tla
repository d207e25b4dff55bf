--------------------------- MODULE SequenceLemmas ---------------------------
(***************************************************************************)
(* Facts about sequences the proofs of several components need: induction  *)
(* over the naturals stated for a set, and FlattenSeq of a sequence that   *)
(* grows at its end, or of two put together.                               *)
(***************************************************************************)
EXTENDS Integers, Sequences, SequencesExt, TLAPS, WellFoundedInduction, SequenceTheorems

\* A set of naturals with 0 and every successor has them all.
LEMMA SetInduction ==
    ASSUME NEW T, T \subseteq Nat, 0 \in T, \A n \in T : n + 1 \in T
    PROVE  T = Nat
<1> DEFINE R == OpToRel(<, Nat)
<1>1. IsWellFoundedOn(R, Nat)
  BY NatLessThanWellFounded, Zenon
<1>2. R = {ss \in Nat \X Nat : ss[1] < ss[2]}
  BY Zenon DEF OpToRel
<1> HIDE DEF R
<1>3. SUFFICES ASSUME Nat \ T # {} PROVE FALSE
  OBVIOUS
<1>4. PICK x \in Nat \ T : \A y \in Nat \ T : ~(<<y, x>> \in R)
  BY <1>1, <1>3, WFMin, Zenon
<1>5. x # 0 /\ x - 1 \in Nat
  BY <1>4
<1>6. <<x - 1, x>> \in R
  BY <1>2, <1>4, <1>5
<1>7. x - 1 \in T
  BY <1>4, <1>5, <1>6
<1> QED
  BY <1>4, <1>5, <1>7

\* Concatenation associates, named so that a proof can fix the set first and
\* the sequences after it.
Associates(S) == \A s1, s2, s3 \in Seq(S) : (s1 \o s2) \o s3 = s1 \o (s2 \o s3)

LEMMA ConcatAssociates == ASSUME NEW S PROVE Associates(S)
<1> SUFFICES ASSUME NEW a \in Seq(S), NEW b \in Seq(S), NEW c \in Seq(S)
             PROVE  (a \o b) \o c = a \o (b \o c)
  BY Zenon DEF Associates
<1> QED
  BY ConcatAssociative

\* Something added to the second of two sequences is added to both.
LEMMA ConcatAppend ==
    ASSUME NEW S, NEW s \in Seq(S), NEW t \in Seq(S), NEW x \in S
    PROVE  s \o t \in Seq(S) /\ s \o Append(t, x) = Append(s \o t, x)
OBVIOUS
-----------------------------------------------------------------------------
(* FlattenSeq *)

\* f holds the flattenings of the beginnings of s.
Flattens(f, s, n) == f = [i \in 1 .. n |-> IF i = 1 THEN s[i] ELSE f[i - 1] \o s[i]]

LEMMA FlattensAt ==
    ASSUME NEW f, NEW s, NEW n, Flattens(f, s, n), NEW i \in 1 .. n
    PROVE  f[i] = IF i = 1 THEN s[i] ELSE f[i - 1] \o s[i]
BY DEF Flattens

\* The recursive function FlattenSeq is defined by exists.
LEMMA FlattenExists ==
    ASSUME NEW s, NEW n \in Nat
    PROVE  \E f : Flattens(f, s, n)
<1> DEFINE T == {m \in Nat : \E f : Flattens(f, s, m)}
<1>1. 0 \in T
  <2> DEFINE f == [i \in 1 .. 0 |-> 0]
  <2>1. Flattens(f, s, 0)
    BY DEF Flattens
  <2> QED
    BY <2>1
<1>2. ASSUME NEW m \in T PROVE m + 1 \in T
  <2>1. PICK f : Flattens(f, s, m)
    BY <1>2
  <2> DEFINE g == [i \in 1 .. m + 1 |->
                     IF i = m + 1 THEN (IF i = 1 THEN s[i] ELSE f[i - 1] \o s[i]) ELSE f[i]]
  <2>2. m \in Nat
    BY <1>2
  <2>3. ASSUME NEW i \in 1 .. m + 1
        PROVE  g[i] = IF i = 1 THEN s[i] ELSE g[i - 1] \o s[i]
    <3>1. CASE i = m + 1
      BY <2>2, <3>1
    <3>2. CASE i # m + 1
      <4>1. i \in 1 .. m /\ g[i] = f[i] /\ (i # 1 => i - 1 \in 1 .. m /\ g[i - 1] = f[i - 1])
        BY <2>2, <3>2
      <4>2. f[i] = IF i = 1 THEN s[i] ELSE f[i - 1] \o s[i]
        BY <2>1, <4>1 DEF Flattens
      <4> QED
        BY <4>1, <4>2
    <3> QED
      BY <3>1, <3>2
  <2>4. g = [i \in 1 .. m + 1 |-> g[i]]
    OBVIOUS
  <2> HIDE DEF g
  <2>5. Flattens(g, s, m + 1)
    BY <2>3, <2>4 DEF Flattens
  <2> QED
    BY <2>2, <2>5
<1> HIDE DEF T
<1>3. T = Nat
  BY <1>1, <1>2, SetInduction DEF T
<1> QED
  BY <1>3 DEF T

\* What FlattenSeq is: the last value of such a function.
LEMMA FlattenIs ==
    ASSUME NEW S, NEW s \in Seq(Seq(S)), s # <<>>
    PROVE  \E f : Flattens(f, s, Len(s)) /\ FlattenSeq(s) = f[Len(s)]
<1> DEFINE g == CHOOSE f : f = [i \in 1 .. Len(s) |-> IF i = 1 THEN s[i] ELSE f[i - 1] \o s[i]]
<1>1. Len(s) \in Nat /\ Len(s) # 0
  BY EmptySeq
<1>2. FlattenSeq(s) = g[Len(s)]
  BY <1>1 DEF FlattenSeq
<1>3. Flattens(g, s, Len(s))
  <2>1. \E f : f = [i \in 1 .. Len(s) |-> IF i = 1 THEN s[i] ELSE f[i - 1] \o s[i]]
    BY <1>1, FlattenExists DEF Flattens
  <2> QED
    BY <2>1, Zenon DEF Flattens
<1> QED
  BY <1>2, <1>3
\* Two sequences that begin alike are flattened alike so far.
LEMMA FlattensAgree ==
    ASSUME NEW s, NEW t, NEW f, NEW g, NEW m \in Nat, NEW n \in Nat, m <= n,
           Flattens(f, s, m), Flattens(g, t, n), \A i \in 1 .. m : s[i] = t[i]
    PROVE  \A i \in 1 .. m : f[i] = g[i]
<1> DEFINE T == {k \in Nat : k \in 1 .. m => f[k] = g[k]}
<1>1. 0 \in T
  OBVIOUS
<1>2. ASSUME NEW k \in T PROVE k + 1 \in T
  <2>1. SUFFICES ASSUME k + 1 \in 1 .. m PROVE f[k + 1] = g[k + 1]
    OBVIOUS
  <2>2. /\ f[k + 1] = IF k + 1 = 1 THEN s[k + 1] ELSE f[(k + 1) - 1] \o s[k + 1]
        /\ g[k + 1] = IF k + 1 = 1 THEN t[k + 1] ELSE g[(k + 1) - 1] \o t[k + 1]
    <3>1. k + 1 \in 1 .. m /\ k + 1 \in 1 .. n
      BY <2>1
    <3> QED
      BY <3>1, FlattensAt
  <2>3. k + 1 # 1 => f[(k + 1) - 1] = g[(k + 1) - 1]
    <3>1. k \in Nat /\ (k + 1) - 1 = k
      OBVIOUS
    <3> QED
      BY <2>1, <3>1
  <2> QED
    BY <2>1, <2>2, <2>3
<1> HIDE DEF T
<1>3. T = Nat
  BY <1>1, <1>2, SetInduction DEF T
<1> QED
  BY <1>3 DEF T

LEMMA FlattenEmpty == FlattenSeq(<<>>) = <<>>
BY DEF FlattenSeq

\* A sequence that grows at its end is flattened so.
LEMMA FlattenAppend ==
    ASSUME NEW S, NEW s \in Seq(Seq(S)), NEW x \in Seq(S)
    PROVE  FlattenSeq(Append(s, x)) = FlattenSeq(s) \o x
<1> DEFINE t == Append(s, x)
<1>1. /\ t \in Seq(Seq(S)) /\ t # <<>> /\ Len(t) = Len(s) + 1 /\ Len(s) \in Nat
      /\ (\A i \in 1 .. Len(s) : t[i] = s[i]) /\ t[Len(s) + 1] = x
  BY AppendProperties, LenProperties
<1> HIDE DEF t
<1>2. PICK g : Flattens(g, t, Len(t)) /\ FlattenSeq(t) = g[Len(t)]
  BY <1>1, FlattenIs
<1>3. g[Len(t)] = IF Len(t) = 1 THEN t[Len(t)] ELSE g[Len(t) - 1] \o t[Len(t)]
  <2>1. Len(t) \in 1 .. Len(t)
    BY <1>1
  <2> QED
    BY <1>2, <2>1 DEF Flattens
<1>4. CASE s = <<>>
  <2>1. Len(t) = 1 /\ FlattenSeq(t) = x
    BY <1>1, <1>2, <1>3, <1>4
  <2> QED
    BY <1>4, <2>1, FlattenEmpty, ConcatEmptySeq DEF t
<1>5. CASE s # <<>>
  <2>1. PICK f : Flattens(f, s, Len(s)) /\ FlattenSeq(s) = f[Len(s)]
    BY <1>5, FlattenIs
  <2>2. Len(s) # 0
    BY <1>5, EmptySeq
  <2>3. \A i \in 1 .. Len(s) : f[i] = g[i]
    <3>1. Len(s) <= Len(t) /\ Len(t) \in Nat /\ \A i \in 1 .. Len(s) : s[i] = t[i]
      BY <1>1
    <3>2. Flattens(f, s, Len(s)) /\ Flattens(g, t, Len(t)) /\ Len(s) \in Nat
      BY <1>1, <1>2, <2>1
    <3> HIDE DEF Flattens
    <3> QED
      BY <3>1, <3>2, FlattensAgree
  <2>4. Len(t) # 1 /\ Len(t) - 1 = Len(s) /\ Len(s) \in 1 .. Len(s)
    BY <1>1, <2>2
  <2> QED
    BY <1>1, <1>2, <1>3, <2>1, <2>3, <2>4 DEF t
<1> QED
  BY <1>4, <1>5

\* What is flattened is a sequence of what the parts are made of.
LEMMA FlattenType ==
    ASSUME NEW S, NEW s \in Seq(Seq(S))
    PROVE  FlattenSeq(s) \in Seq(S)
<1> DEFINE T == {n \in Nat : \A u \in Seq(Seq(S)) : Len(u) = n => FlattenSeq(u) \in Seq(S)}
<1>1. 0 \in T
  <2>1. \A u \in Seq(Seq(S)) : Len(u) = 0 => u = <<>>
    BY EmptySeq
  <2> QED
    BY <2>1, FlattenEmpty, EmptySeq
<1>2. ASSUME NEW n \in T PROVE n + 1 \in T
  <2>1. n \in Nat /\ \A u \in Seq(Seq(S)) : Len(u) = n => FlattenSeq(u) \in Seq(S)
    BY <1>2
  <2>2. ASSUME NEW u \in Seq(Seq(S)), Len(u) = n + 1 PROVE FlattenSeq(u) \in Seq(S)
    <3>1. u # <<>>
      BY <2>1, <2>2, EmptySeq
    <3>2. PICK v \in Seq(Seq(S)), x \in Seq(S) : u = Append(v, x)
      BY <3>1, SequenceEmptyOrAppend
    <3>3. Len(v) = n
      <4>1. Len(Append(v, x)) = Len(v) + 1 /\ Len(v) \in Nat
        BY AppendProperties, LenProperties
      <4> QED
        BY <2>1, <2>2, <3>2, <4>1
    <3>4. FlattenSeq(u) = FlattenSeq(v) \o x /\ FlattenSeq(v) \in Seq(S)
      BY <2>1, <3>2, <3>3, FlattenAppend
    <3> QED
      BY <3>4, ConcatProperties
  <2> QED
    BY <2>1, <2>2
<1> HIDE DEF T
<1>3. T = Nat
  BY <1>1, <1>2, SetInduction DEF T
<1>4. Len(s) \in Nat
  BY LenProperties
<1> QED
  BY <1>3, <1>4 DEF T

\* Two sequences put together are flattened one after the other.
LEMMA FlattenConcat ==
    ASSUME NEW S, NEW s \in Seq(Seq(S)), NEW t \in Seq(Seq(S))
    PROVE  FlattenSeq(s \o t) = FlattenSeq(s) \o FlattenSeq(t)
<1> DEFINE P(u) == FlattenSeq(s \o u) = FlattenSeq(s) \o FlattenSeq(u)
           T == {n \in Nat : \A u \in Seq(Seq(S)) : Len(u) = n => P(u)}
<1>1. 0 \in T
  <2>1. \A u \in Seq(Seq(S)) : Len(u) = 0 => u = <<>>
    BY EmptySeq
  <2>2. P(<<>>)
    <3>1. s \o <<>> = s /\ FlattenSeq(s) \o <<>> = FlattenSeq(s)
      BY FlattenType, ConcatEmptySeq
    <3> QED
      BY <3>1, FlattenEmpty
  <2> HIDE DEF P
  <2> QED
    BY <2>1, <2>2
<1>2. ASSUME NEW n \in T PROVE n + 1 \in T
  <2>1. n \in Nat /\ \A u \in Seq(Seq(S)) : Len(u) = n => P(u)
    BY <1>2
  <2> HIDE DEF T
  <2>2. ASSUME NEW u \in Seq(Seq(S)), Len(u) = n + 1 PROVE P(u)
    <3>1. u # <<>>
      BY <2>1, <2>2, EmptySeq
    <3>2. PICK v \in Seq(Seq(S)), x \in Seq(S) : u = Append(v, x)
      BY <3>1, SequenceEmptyOrAppend
    <3>3. Len(v) = n
      <4>1. Len(Append(v, x)) = Len(v) + 1 /\ Len(v) \in Nat
        BY AppendProperties, LenProperties
      <4> QED
        BY <2>1, <2>2, <3>2, <4>1
    <3>4. s \o v \in Seq(Seq(S)) /\ s \o u = Append(s \o v, x)
      BY <3>2, ConcatAppend
    <3>5. FlattenSeq(s \o u) = FlattenSeq(s \o v) \o x /\ FlattenSeq(u) = FlattenSeq(v) \o x
      BY <3>2, <3>4, FlattenAppend
    <3>6. FlattenSeq(s \o v) = FlattenSeq(s) \o FlattenSeq(v)
      BY <2>1, <3>3
    <3>7. (FlattenSeq(s) \o FlattenSeq(v)) \o x = FlattenSeq(s) \o (FlattenSeq(v) \o x)
      <4>1. PICK fs \in Seq(S) : fs = FlattenSeq(s)
        BY FlattenType
      <4>2. PICK fv \in Seq(S) : fv = FlattenSeq(v)
        BY FlattenType
      <4>3. Associates(S)
        BY ConcatAssociates, Zenon
      <4>4. (fs \o fv) \o x = fs \o (fv \o x)
        BY <4>3, Zenon DEF Associates
      <4> QED
        BY <4>1, <4>2, <4>4
    <3> QED
      BY <3>5, <3>6, <3>7
  <2> HIDE DEF P
  <2> QED
    BY <2>1, <2>2 DEF T
<1> HIDE DEF T
<1>3. T = Nat
  BY <1>1, <1>2, SetInduction DEF T
<1>4. Len(t) \in Nat
  BY LenProperties
<1> QED
  BY <1>3, <1>4 DEF T
=============================================================================
