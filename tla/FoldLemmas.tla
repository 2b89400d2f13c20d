------------------------------ MODULE FoldLemmas ------------------------------
(***************************************************************************)
(* Induction over numbers and finite sets, and what it gives for folds: a  *)
(* recursive function over the subsets of a finite set exists, so that     *)
(* MapThenFoldSet and the operators built from it can be unfolded.  The    *)
(* facts are stated with sets and functions in place of operators.         *)
(***************************************************************************)
EXTENDS SequencesExt, FiniteSetTheorems, SequenceTheorems, WellFoundedInduction, TLAPS

\* The least of a set of numbers.
Below == OpToRel(<, Nat)

\* Among natural numbers one is the least.
LEMMA LeastExists ==
  ASSUME NEW S, S \subseteq Nat, S # {}
  PROVE  \E x \in S : \A y \in S : x <= y
<1>1. IsWellFoundedOn(Below, Nat)
  BY NatLessThanWellFounded DEF Below
<1>2. \A x, y \in Nat : x < y => <<x, y>> \in Below
  BY DEF Below, OpToRel
<1>3. PICK x \in S : \A y \in S : <<y, x>> \notin Below
  BY <1>1, WFMin
<1>4. ASSUME NEW y \in S
      PROVE  x <= y
  <2>1. x \in Nat /\ y \in Nat /\ ~(y < x)
    BY <1>2, <1>3
  <2>2. QED
    BY <2>1
<1>5. QED
  BY <1>4

\* Induction over the naturals, for a set in place of a predicate.
LEMMA NumberInduction ==
  ASSUME NEW P, 0 \in P, \A n \in Nat : n \in P => n + 1 \in P
  PROVE  Nat \subseteq P
<1>1. SUFFICES ASSUME Nat \ P # {}
               PROVE  FALSE
  OBVIOUS
<1>2. PICK n \in Nat \ P : \A m \in Nat \ P : n <= m
  BY <1>1, LeastExists
<1>3. n # 0 /\ n - 1 \in Nat /\ ~(n <= n - 1) /\ (n - 1) + 1 = n
  BY <1>2
<1>4. QED
  BY <1>2, <1>3

\* P holds of a finite set if it holds of a set whenever it holds of all that
\* lack one of its elements.
LEMMA SetInduction ==
  ASSUME NEW S, IsFiniteSet(S), NEW P,
         \A s \in SUBSET S : (\A x \in s : s \ {x} \in P) => s \in P
  PROVE  SUBSET S \subseteq P
<1> DEFINE sizes == {Cardinality(s) : s \in (SUBSET S) \ P}
<1>1. SUFFICES ASSUME (SUBSET S) \ P # {}
               PROVE  FALSE
  OBVIOUS
<1>2. \A s \in SUBSET S : IsFiniteSet(s) /\ Cardinality(s) \in Nat
  BY FS_Subset, FS_CardinalityType
<1>3. sizes \subseteq Nat /\ sizes # {}
  BY <1>1, <1>2
<1>4. PICK n \in sizes : \A m \in sizes : n <= m
  <2> HIDE DEF sizes
  <2> QED BY <1>3, LeastExists
<1>5. PICK s \in (SUBSET S) \ P : Cardinality(s) = n
  OBVIOUS
<1>6. ASSUME NEW x \in s
      PROVE  s \ {x} \in P
  <2>1. Cardinality(s \ {x}) = n - 1 /\ n \in Nat
    BY <1>2, <1>3, <1>5, FS_RemoveElement
  <2>2. ~(n <= n - 1)
    BY <2>1
  <2>3. Cardinality(s \ {x}) \notin sizes
    BY <1>4, <2>1, <2>2
  <2>4. s \ {x} \in SUBSET S
    OBVIOUS
  <2> QED BY <2>3, <2>4
<1>7. QED
  BY <1>5, <1>6

\* A fold over the subsets of S, that takes the element ch[s] last, exists.
IsFold(iter, S, base, ch, g) ==
  iter = [s \in SUBSET S |-> IF s = {} THEN base ELSE g[ch[s]][iter[s \ {ch[s]}]]]

Foldable(S, T, base, ch, g) ==
  /\ IsFiniteSet(S) /\ base \in T
  /\ \A s \in SUBSET S : s # {} => ch[s] \in s
  /\ g \in [S -> [T -> T]]

\* There is a function that takes a finite set apart one element at a time; the
\* folds of the community modules choose such a function.
LEMMA FoldExists ==
  ASSUME NEW S, NEW T, NEW base, NEW ch, NEW g, Foldable(S, T, base, ch, g)
  PROVE  \E iter \in [SUBSET S -> T] : IsFold(iter, S, base, ch, g)
<1> USE DEF Foldable
<1> DEFINE Small(n) == {s \in SUBSET S : Cardinality(s) <= n}
           Good(n, f) == \A s \in Small(n) :
             f[s] = IF s = {} THEN base ELSE g[ch[s]][f[s \ {ch[s]}]]
           P == {n \in Nat : \E f \in [Small(n) -> T] : Good(n, f)}
<1>1. \A s \in SUBSET S : IsFiniteSet(s) /\ Cardinality(s) \in Nat
  BY FS_Subset, FS_CardinalityType
<1>0. \A a \in S, b \in T : g[a][b] \in T
  OBVIOUS
<1>2. 0 \in P
  <2>1. \A s \in Small(0) : s = {}
    BY <1>1, FS_EmptySet
  <2>2. [s \in Small(0) |-> base] \in [Small(0) -> T]
    OBVIOUS
  <2>3. Good(0, [s \in Small(0) |-> base])
    BY <2>1
  <2> QED BY <2>2, <2>3
<1>3. ASSUME NEW n \in Nat, n \in P
      PROVE  n + 1 \in P
  <2>1. PICK f \in [Small(n) -> T] : Good(n, f)
    BY <1>3
  <2> DEFINE h == [s \in Small(n + 1) |->
               IF s = {} THEN base ELSE g[ch[s]][f[s \ {ch[s]}]]]
  <2>2. ASSUME NEW s \in Small(n + 1), s # {}
        PROVE  ch[s] \in s /\ s \ {ch[s]} \in Small(n)
    <3>1. s \in SUBSET S /\ ch[s] \in s /\ IsFiniteSet(s) /\ Cardinality(s) \in Nat
      BY <1>1, <2>2
    <3>2. Cardinality(s \ {ch[s]}) = Cardinality(s) - 1
      BY <3>1, FS_RemoveElement
    <3> QED BY <3>1, <3>2
  <2>3. ASSUME NEW s \in Small(n + 1), s # {}
        PROVE  g[ch[s]][f[s \ {ch[s]}]] \in T
    <3>1. ch[s] \in S /\ f[s \ {ch[s]}] \in T
      BY <2>2, <2>3
    <3> QED BY <1>0, <3>1
  <2>4. h \in [Small(n + 1) -> T]
    BY <2>3
  <2>5. \A s \in Small(n) : s \in Small(n + 1)
    BY <1>1
  <2>6. \A s \in Small(n) : h[s] = f[s]
    BY <2>1, <2>5
  <2>7. Good(n + 1, h)
    <3>1. TAKE s \in Small(n + 1)
    <3>2. CASE s = {}
      BY <3>2
    <3>3. CASE s # {}
      <4>1. s \ {ch[s]} \in Small(n)
        BY <2>2, <3>3
      <4>2. h[s \ {ch[s]}] = f[s \ {ch[s]}]
        BY <2>6, <4>1
      <4> QED BY <3>3, <4>2
    <3> QED BY <3>2, <3>3
  <2> QED
    <3> HIDE DEF Good, Small, h
    <3>1. \E k \in [Small(n + 1) -> T] : Good(n + 1, k)
      BY <2>4, <2>7
    <3> QED BY <3>1
<1> HIDE DEF P
<1>4. Cardinality(S) \in P
  BY <1>1, <1>2, <1>3, NumberInduction
<1> USE DEF P
<1>5. PICK f \in [Small(Cardinality(S)) -> T] : Good(Cardinality(S), f)
  BY <1>4
<1>6. Small(Cardinality(S)) = SUBSET S
  BY FS_Subset, <1>1
<1>7. f \in [SUBSET S -> T] /\ IsFold(f, S, base, ch, g)
  BY <1>5, <1>6 DEF IsFold
<1>8. QED
  BY <1>7

-----------------------------------------------------------------------------
\* P holds of all sequences if it holds of the empty one and appending keeps it.
LEMMA SequenceInduction ==
  ASSUME NEW S, NEW P, <<>> \in P,
         \A s \in Seq(S), e \in S : s \in P => Append(s, e) \in P
  PROVE  Seq(S) \subseteq P
<1> DEFINE L == {n \in Nat : \A s \in Seq(S) : Len(s) = n => s \in P}
<1>1. 0 \in L
  BY EmptySeq
<1>2. ASSUME NEW n \in Nat, n \in L
      PROVE  n + 1 \in L
  <2>1. ASSUME NEW s \in Seq(S), Len(s) = n + 1
        PROVE  s \in P
    <3>1. s # <<>>
      BY <2>1, EmptySeq
    <3>2. PICK t \in Seq(S), e \in S : s = Append(t, e)
      BY <3>1, SequenceEmptyOrAppend
    <3>3. Len(t) = n
      BY <2>1, <3>2, AppendProperties, LenProperties
    <3>4. t \in P
      BY <1>2, <3>3
    <3> QED BY <3>2, <3>4
  <2> QED BY <2>1
<1>3. Nat \subseteq L
  <2> HIDE DEF L
  <2> QED BY <1>1, <1>2, NumberInduction
<1>4. QED
  BY <1>3, LenProperties

\* The sequence of the concatenations that FlattenSeq goes through.
Flattens(f, s) ==
  f = [i \in 1..Len(s) |-> IF i = 1 THEN s[i] ELSE f[i - 1] \o s[i]]

\* What joins the parts of s joins those of s and one more.
LEMMA FlattensAppend ==
  ASSUME NEW S, NEW s \in Seq(Seq(S)), NEW e \in Seq(S),
         NEW f, f \in [1..Len(s) -> Seq(S)], Flattens(f, s)
  PROVE  \E h \in [1..Len(Append(s, e)) -> Seq(S)] :
           /\ Flattens(h, Append(s, e))
           /\ h[Len(s) + 1] = IF s = <<>> THEN e ELSE f[Len(s)] \o e
<1> DEFINE n == Len(s)
           t == Append(s, e)
           h == [i \in 1..n + 1 |-> IF i <= n THEN f[i] ELSE IF n = 0 THEN e ELSE f[n] \o e]
<1>1. /\ n \in Nat /\ Len(t) = n + 1 /\ t[n + 1] = e
      /\ \A i \in 1..n : t[i] = s[i] /\ s[i] \in Seq(S)
      /\ (s = <<>> <=> n = 0)
  BY AppendProperties, LenProperties, EmptySeq, ElementOfSeq
<1>2. (n # 0 => f[n] \in Seq(S)) /\ \A i \in 1..n : f[i] \in Seq(S)
  <2>1. f \in [1..n -> Seq(S)] /\ n \in Nat /\ (n # 0 => n \in 1..n)
    BY <1>1
  <2> HIDE DEF n, t
  <2> QED BY <2>1
<1>3. n # 0 => f[n] \o e \in Seq(S)
  BY <1>2, ConcatProperties
<1>4. \A i \in 1..n + 1 : h[i] \in Seq(S)
  <2>1. TAKE i \in 1..n + 1
  <2>2. h[i] = IF i <= n THEN f[i] ELSE IF n = 0 THEN e ELSE f[n] \o e
    OBVIOUS
  <2>3. i <= n => f[i] \in Seq(S)
    <3>1. i <= n => i \in 1..n
      BY <1>1
    <3> QED BY <1>2, <3>1
  <2> HIDE DEF h
  <2> QED BY <2>2, <2>3, <1>3
<1>5. h \in [1..Len(t) -> Seq(S)]
  BY <1>1, <1>4
<1>6. \A i \in 1..n : f[i] = IF i = 1 THEN s[i] ELSE f[i - 1] \o s[i]
  BY DEF Flattens
<1>7. \A i \in 1..n + 1 : h[i] = IF i = 1 THEN t[i] ELSE h[i - 1] \o t[i]
  <2>1. TAKE i \in 1..n + 1
  <2>2. CASE i <= n
    <3>1. h[i] = f[i] /\ t[i] = s[i] /\ (i # 1 => h[i - 1] = f[i - 1])
      BY <1>1, <2>2
    <3>2. i \in 1..n
      BY <2>2, <1>1
    <3> HIDE DEF h, t
    <3> QED BY <3>1, <3>2, <1>6
  <2>3. CASE i = n + 1
    <3>1. h[n + 1] = IF n = 0 THEN e ELSE f[n] \o e
      BY <1>1
    <3>2. n # 0 => h[n] = f[n]
      BY <1>1
    <3>3. n + 1 - 1 = n /\ (n + 1 = 1 <=> n = 0)
      BY <1>1
    <3> HIDE DEF h, t, n
    <3> QED BY <3>1, <3>2, <3>3, <2>3, <1>1
  <2> QED BY <2>2, <2>3, <1>1
<1>8. Flattens(h, t)
  <2>1. h = [i \in 1..Len(t) |-> h[i]]
    BY <1>1
  <2> HIDE DEF h, t, n
  <2> QED BY <1>1, <1>7, <2>1 DEF Flattens
<1>9. h[Len(s) + 1] = IF s = <<>> THEN e ELSE f[Len(s)] \o e
  BY <1>1
<1>10. QED
  BY <1>5, <1>8, <1>9

\* Every sequence of sequences can be joined part by part.
LEMMA FlattensExists ==
  ASSUME NEW S, NEW s \in Seq(Seq(S))
  PROVE  \E f \in [1..Len(s) -> Seq(S)] : Flattens(f, s)
<1> DEFINE P == {t \in Seq(Seq(S)) : \E f \in [1..Len(t) -> Seq(S)] : Flattens(f, t)}
<1>1. <<>> \in P
  <2>1. Len(<<>>) = 0 /\ <<>> \in Seq(Seq(S))
    BY EmptySeq
  <2>2. [i \in 1..0 |-> <<>>] \in [1..0 -> Seq(S)] /\ Flattens([i \in 1..0 |-> <<>>], <<>>)
    BY <2>1 DEF Flattens
  <2> QED BY <2>1, <2>2
<1>2. ASSUME NEW t \in Seq(Seq(S)), NEW e \in Seq(S), t \in P
      PROVE  Append(t, e) \in P
  <2>1. PICK f \in [1..Len(t) -> Seq(S)] : Flattens(f, t)
    BY <1>2
  <2>2. \E h \in [1..Len(Append(t, e)) -> Seq(S)] : Flattens(h, Append(t, e))
    BY <2>1, FlattensAppend
  <2> QED BY <2>2, AppendProperties
<1>3. Seq(Seq(S)) \subseteq P
  <2> HIDE DEF P
  <2> QED BY <1>1, <1>2, SequenceInduction
<1>4. QED
  BY <1>3

\* There is one way to join it.
LEMMA FlattensUnique ==
  ASSUME NEW s, Len(s) \in Nat, NEW f, NEW g, Flattens(f, s), Flattens(g, s)
  PROVE  f = g
<1> DEFINE P == {i \in Nat : i \in 1..Len(s) => f[i] = g[i]}
<1>1. /\ \A i \in 1..Len(s) : f[i] = IF i = 1 THEN s[i] ELSE f[i - 1] \o s[i]
      /\ \A i \in 1..Len(s) : g[i] = IF i = 1 THEN s[i] ELSE g[i - 1] \o s[i]
      /\ f = [i \in 1..Len(s) |-> f[i]] /\ g = [i \in 1..Len(s) |-> g[i]]
  BY DEF Flattens
<1>2. ASSUME NEW i \in Nat, i \in P
      PROVE  i + 1 \in P
  <2>1. CASE i + 1 \in 1..Len(s)
    <3>1. i # 0 => i \in 1..Len(s)
      BY <2>1
    <3>2. i # 0 => f[i] = g[i]
      BY <1>2, <3>1
    <3>3. i + 1 - 1 = i /\ (i + 1 = 1 <=> i = 0)
      OBVIOUS
    <3>4. \A j \in 1..Len(s) : j = i + 1 => f[j] = g[j]
      <4>1. TAKE j \in 1..Len(s)
      <4>2. HAVE j = i + 1
      <4>3. (j = 1 <=> i = 0) /\ j - 1 = i
        BY <4>2
      <4> HIDE DEF P
      <4>4. f[j] = IF j = 1 THEN s[j] ELSE f[j - 1] \o s[j]
        BY <1>1
      <4>5. g[j] = IF j = 1 THEN s[j] ELSE g[j - 1] \o s[j]
        BY <1>1
      <4> QED BY <3>2, <4>3, <4>4, <4>5
    <3>5. f[i + 1] = g[i + 1]
      BY <2>1, <3>4
    <3> QED BY <3>5
  <2> QED BY <2>1
<1>3. Nat \subseteq P
  <2>1. 0 \in P
    OBVIOUS
  <2> HIDE DEF P
  <2> QED BY <1>2, <2>1, NumberInduction
<1>4. \A i \in 1..Len(s) : f[i] = g[i]
  BY <1>3
<1>5. QED
  BY <1>1, <1>4

\* FlattenSeq is what the last step of that way gives.
LEMMA FlattenUnfolds ==
  ASSUME NEW s, Len(s) \in Nat \ {0}, NEW f, Flattens(f, s)
  PROVE  FlattenSeq(s) = f[Len(s)]
<1> DEFINE h == CHOOSE g : g = [i \in 1..Len(s) |-> IF i = 1 THEN s[i] ELSE g[i - 1] \o s[i]]
<1>1. FlattenSeq(s) = h[Len(s)]
  BY DEF FlattenSeq
<1>2. Flattens(h, s)
  BY DEF Flattens
<1>3. h = f
  <2> HIDE DEF h
  <2> QED BY <1>2, FlattensUnique
<1>4. QED
  BY <1>1, <1>3

\* FlattenSeq joins sequences.
LEMMA FlattenEmpty == FlattenSeq(<<>>) = <<>>
  BY EmptySeq DEF FlattenSeq

\* Sequences over S joined are a sequence over S.
LEMMA FlattenType ==
  ASSUME NEW S, NEW s \in Seq(Seq(S))
  PROVE  FlattenSeq(s) \in Seq(S)
<1>1. CASE s = <<>>
  BY <1>1, FlattenEmpty, EmptySeq
<1>2. CASE s # <<>>
  <2>1. Len(s) \in Nat \ {0} /\ Len(s) \in 1..Len(s)
    BY <1>2, EmptySeq
  <2>2. PICK f \in [1..Len(s) -> Seq(S)] : Flattens(f, s)
    BY FlattensExists
  <2>3. FlattenSeq(s) = f[Len(s)]
    BY <2>1, <2>2, FlattenUnfolds
  <2> QED BY <2>1, <2>3
<1>3. QED
  BY <1>1, <1>2

\* A part more is joined at the end.
LEMMA FlattenAppend ==
  ASSUME NEW S, NEW s \in Seq(Seq(S)), NEW e \in Seq(S)
  PROVE  FlattenSeq(Append(s, e)) = FlattenSeq(s) \o e
<1>1. PICK f \in [1..Len(s) -> Seq(S)] : Flattens(f, s)
  BY FlattensExists
<1>2. PICK h \in [1..Len(Append(s, e)) -> Seq(S)] :
        /\ Flattens(h, Append(s, e))
        /\ h[Len(s) + 1] = IF s = <<>> THEN e ELSE f[Len(s)] \o e
  <2>1. s \in Seq(Seq(S)) /\ e \in Seq(S)
    OBVIOUS
  <2> QED BY ONLY <1>1, <2>1, FlattensAppend, SMTT(30)
<1>3. Len(Append(s, e)) = Len(s) + 1 /\ Len(s) \in Nat
  BY AppendProperties, LenProperties
<1>4. FlattenSeq(Append(s, e)) = h[Len(s) + 1]
  <2>1. Len(Append(s, e)) \in Nat \ {0}
    BY <1>3
  <2>2. FlattenSeq(Append(s, e)) = h[Len(Append(s, e))]
    BY <1>2, <2>1, FlattenUnfolds
  <2> QED BY <1>3, <2>2
<1>5. CASE s = <<>>
  <2>1. <<>> \o e = e
    BY ConcatEmptySeq
  <2> QED BY <1>2, <1>4, <1>5, <2>1, FlattenEmpty
<1>6. CASE s # <<>>
  <2>1. Len(s) \in Nat \ {0}
    BY <1>6, EmptySeq
  <2>2. FlattenSeq(s) = f[Len(s)]
    BY <1>1, <2>1, FlattenUnfolds
  <2> QED BY <1>2, <1>4, <1>6, <2>2
<1>7. QED
  BY <1>5, <1>6

Regroups(a, b, c) == (a \o b) \o c = a \o (b \o c)

\* Concatenation is associative.
LEMMA Associative ==
  ASSUME NEW S
  PROVE  \A a, b, c \in Seq(S) : Regroups(a, b, c)
<1>1. ASSUME NEW a \in Seq(S), NEW b \in Seq(S), NEW c \in Seq(S)
      PROVE  (a \o b) \o c = a \o (b \o c)
  BY ONLY ConcatAssociative, SMT
<1>2. QED
  BY <1>1 DEF Regroups

\* Joining two lists of parts is joining what each gives.
LEMMA FlattenConcat ==
  ASSUME NEW S, NEW s \in Seq(Seq(S)), NEW t \in Seq(Seq(S))
  PROVE  FlattenSeq(s \o t) = FlattenSeq(s) \o FlattenSeq(t)
<1> DEFINE P == {u \in Seq(Seq(S)) : FlattenSeq(s \o u) = FlattenSeq(s) \o FlattenSeq(u)}
<1>1. <<>> \in P
  <2>1. s \o <<>> = s /\ <<>> \in Seq(Seq(S))
    BY ConcatEmptySeq, EmptySeq
  <2>2. FlattenSeq(s) \o <<>> = FlattenSeq(s)
    BY ConcatEmptySeq, FlattenType
  <2> QED BY <2>1, <2>2, FlattenEmpty
<1>2. ASSUME NEW u \in Seq(Seq(S)), NEW e \in Seq(S), u \in P
      PROVE  Append(u, e) \in P
  <2>1. s \o Append(u, e) = Append(s \o u, e)
    <3>1. Append(u, e) = u \o <<e>> /\ Append(s \o u, e) = (s \o u) \o <<e>>
      BY AppendIsConcat, ConcatProperties
    <3>2. <<e>> \in Seq(Seq(S))
      OBVIOUS
    <3>3. u \in Seq(Seq(S)) /\ s \in Seq(Seq(S))
      BY <1>2
    <3>4. Regroups(s, u, <<e>>)
      BY ONLY <3>2, <3>3, Associative
    <3> QED BY <3>1, <3>4 DEF Regroups
  <2>2. FlattenSeq(Append(s \o u, e)) = FlattenSeq(s \o u) \o e
    BY FlattenAppend, ConcatProperties
  <2>3. FlattenSeq(Append(u, e)) = FlattenSeq(u) \o e
    BY FlattenAppend
  <2>4. (FlattenSeq(s) \o FlattenSeq(u)) \o e = FlattenSeq(s) \o (FlattenSeq(u) \o e)
    <3> DEFINE a == FlattenSeq(s)
               b == FlattenSeq(u)
    <3>1. a \in Seq(S) /\ b \in Seq(S) /\ e \in Seq(S)
      BY <1>2, FlattenType
    <3> HIDE DEF a, b
    <3>2. Regroups(a, b, e)
      BY ONLY <3>1, Associative
    <3> QED BY <3>2 DEF a, b, Regroups
  <2>5. FlattenSeq(s \o u) = FlattenSeq(s) \o FlattenSeq(u)
    BY <1>2
  <2>6. Append(u, e) \in Seq(Seq(S))
    BY AppendProperties
  <2>7. FlattenSeq(s \o Append(u, e)) = FlattenSeq(s) \o FlattenSeq(Append(u, e))
    BY <2>1, <2>2, <2>3, <2>4, <2>5
  <2> QED BY <2>6, <2>7
<1>3. Seq(Seq(S)) \subseteq P
  <2> HIDE DEF P
  <2> QED BY <1>1, <1>2, SequenceInduction
<1>4. QED
  BY <1>3

\* A sequence taken apart into its elements and joined is itself.
LEMMA FlattenSingles ==
  ASSUME NEW S, NEW v \in Seq(S)
  PROVE  FlattenSeq([i \in 1..Len(v) |-> <<v[i]>>]) = v
<1> DEFINE Each(u) == [i \in 1..Len(u) |-> <<u[i]>>]
           P == {u \in Seq(S) : FlattenSeq(Each(u)) = u}
<1>0. \A u \in Seq(S) : Each(u) \in Seq(Seq(S)) /\ Len(Each(u)) = Len(u)
  <2>1. TAKE u \in Seq(S)
  <2>2. Len(u) \in Nat /\ \A i \in 1..Len(u) : <<u[i]>> \in Seq(S)
    BY LenProperties, ElementOfSeq
  <2> QED BY <2>2
<1>1. <<>> \in P
  <2>1. Len(<<>>) = 0 /\ <<>> \in Seq(S)
    BY EmptySeq
  <2>2. Each(<<>>) = <<>>
    BY <2>1
  <2> QED BY <2>1, <2>2, FlattenEmpty
<1>2. ASSUME NEW u \in Seq(S), NEW e \in S, u \in P
      PROVE  Append(u, e) \in P
  <2>1. /\ Append(u, e) \in Seq(S) /\ Len(Append(u, e)) = Len(u) + 1 /\ Len(u) \in Nat
        /\ \A i \in 1..Len(u) : Append(u, e)[i] = u[i]
        /\ Append(u, e)[Len(u) + 1] = e
    BY AppendProperties, LenProperties
  <2>2. <<e>> \in Seq(S)
    OBVIOUS
  <2> DEFINE s == Each(Append(u, e))
             t == Append(Each(u), <<e>>)
  <2>3. /\ t \in Seq(Seq(S)) /\ Len(t) = Len(u) + 1
        /\ \A i \in 1..Len(u) : t[i] = Each(u)[i]
        /\ t[Len(u) + 1] = <<e>>
    <3> HIDE DEF Each
    <3> QED BY <1>0, <2>2, AppendProperties
  <2>4. s \in Seq(Seq(S)) /\ Len(s) = Len(u) + 1
    BY <1>0, <2>1
  <2>5. ASSUME NEW i \in 1..Len(s)
        PROVE  s[i] = t[i]
    <3>1. s[i] = <<Append(u, e)[i]>>
      BY <2>1, <2>4
    <3>2. CASE i \in 1..Len(u)
      <4>1. Each(u)[i] = <<u[i]>>
        BY <3>2
      <4> HIDE DEF s, t, Each
      <4> QED BY <2>1, <2>3, <3>1, <3>2, <4>1
    <3>3. CASE i = Len(u) + 1
      <4> HIDE DEF s, t, Each
      <4> QED BY <2>1, <2>3, <3>1, <3>3
    <3> QED BY <2>1, <2>4, <3>2, <3>3
  <2>6. s = t
    <3> HIDE DEF s, t, Each
    <3> QED BY <2>3, <2>4, <2>5, SeqEqual
  <2>7. FlattenSeq(t) = FlattenSeq(Each(u)) \o <<e>>
    <3> HIDE DEF Each
    <3> QED BY <1>0, <2>2, FlattenAppend
  <2>8. Append(u, e) = u \o <<e>>
    BY AppendIsConcat
  <2>9. FlattenSeq(s) = Append(u, e)
    <3> HIDE DEF s, t, Each
    <3> QED BY <1>2, <2>6, <2>7, <2>8
  <2> QED BY <2>1, <2>9
<1>3. Seq(S) \subseteq P
  <2> HIDE DEF P
  <2> QED BY <1>1, <1>2, SequenceInduction
<1>4. QED
  BY <1>3

-----------------------------------------------------------------------------
\* The greatest of some indices, which FoldLeft takes last.
LEMMA MaxExists ==
  ASSUME NEW n \in Nat, NEW S, S \subseteq 1..n, S # {}
  PROVE  Max(S) \in S /\ \A i \in S : Max(S) >= i
<1> DEFINE T == {n - i : i \in S}
<1>1. T \subseteq Nat /\ T # {}
  OBVIOUS
<1>2. PICK x \in T : \A y \in T : x <= y
  <2> HIDE DEF T
  <2> QED BY <1>1, LeastExists
<1>3. PICK m \in S : x = n - m
  OBVIOUS
<1>4. ASSUME NEW i \in S
      PROVE  m >= i
  <2>1. n - i \in T /\ m \in Nat /\ i \in Nat
    OBVIOUS
  <2>2. n - m <= n - i
    BY <1>2, <1>3, <2>1
  <2> QED BY <2>1, <2>2
<1>5. \E k \in S : \A i \in S : k >= i
  BY <1>4
<1>6. QED
  BY <1>5 DEF Max
=============================================================================
