---------------------------- MODULE DetectionProofs ----------------------------
(***************************************************************************)
(* What is hidden of a sheet, for all rules, texts, requests and limits:   *)
(* how overlaps are resolved, what the caches answer and that the tokens   *)
(* restore every cell.                                                     *)
(***************************************************************************)
EXTENDS Detection, FoldLemmas

-----------------------------------------------------------------------------
(* Hits and their order *)

\* Hits in a text of n characters.
HitsIn(n) ==
  {x \in [start : Nat, end : Nat, type : Types, score : Nat, by : Nat] :
     1 <= x.start /\ x.start < x.end /\ x.end <= n + 1}
Findings(n) == {hits \in SUBSET HitsIn(n) : IsFiniteSet(hits)}
Apart(hits) == \A x, y \in hits : x # y => ~Overlap(x, y)

\* Earlier is a strict order, and it goes by the start (the sort key of
\* _merge_entities and _resolve_overlaps).
LEMMA EarlierOrders ==
  ASSUME NEW n \in Nat, NEW x \in HitsIn(n), NEW y \in HitsIn(n), NEW z \in HitsIn(n)
  PROVE  /\ ~Earlier(x, x)
         /\ Earlier(x, y) /\ Earlier(y, z) => Earlier(x, z)
         /\ ~Earlier(x, y) => y.start <= x.start
BY DEF Earlier, HitsIn

\* A finite set of hits has a latest and a leftmost.
LEMMA LatestExists ==
  ASSUME NEW n \in Nat, NEW hits \in Findings(n), hits # {}
  PROVE  Latest(hits) \in hits /\ \A y \in hits : ~Earlier(Latest(hits), y)
<1> DEFINE P == {s \in SUBSET hits : s # {} => \E x \in s : \A y \in s : ~Earlier(x, y)}
<1>1. ASSUME NEW s \in SUBSET hits, \A x \in s : s \ {x} \in P
      PROVE  s \in P
  <2>1. SUFFICES ASSUME s # {}
                 PROVE  \E x \in s : \A y \in s : ~Earlier(x, y)
    OBVIOUS
  <2>2. PICK x \in s : TRUE
    BY <2>1
  <2>3. s \subseteq HitsIn(n)
    BY DEF Findings
  <2>4. CASE s \ {x} = {}
    <3>1. \A y \in s : y = x
      BY <2>4
    <3> QED BY <2>3, <3>1, EarlierOrders
  <2>5. CASE s \ {x} # {}
    <3>1. PICK m \in s \ {x} : \A y \in s \ {x} : ~Earlier(m, y)
      BY <1>1, <2>5
    <3>2. CASE Earlier(m, x)
      <4>1. \A y \in s \ {x} : ~Earlier(x, y)
        BY <2>3, <3>1, <3>2, EarlierOrders
      <4> QED BY <2>3, <4>1, EarlierOrders
    <3>3. CASE ~Earlier(m, x)
      BY <3>1, <3>3
    <3> QED BY <3>2, <3>3
  <2> QED BY <2>4, <2>5
<1>2. IsFiniteSet(hits)
  BY DEF Findings
<1>3. SUBSET hits \subseteq P
  <2> HIDE DEF P
  <2> QED BY <1>1, <1>2, SetInduction
<1>4. \E x \in hits : \A y \in hits : ~Earlier(x, y)
  BY <1>3
<1>5. QED
  BY <1>4 DEF Latest

\* The hit that replace_entities splices last is one that starts first.
LEMMA LeftmostExists ==
  ASSUME NEW n \in Nat, NEW hits \in Findings(n), hits # {}
  PROVE  Leftmost(hits) \in hits /\ \A y \in hits : Leftmost(hits).start <= y.start
<1> DEFINE P == {x.start : x \in hits}
<1>1. P \subseteq Nat /\ P # {}
  BY DEF Findings, HitsIn
<1>2. PICK k \in P : \A j \in P : k <= j
  <2> HIDE DEF P
  <2> QED BY <1>1, LeastExists
<1>3. \E x \in hits : \A y \in hits : x.start <= y.start
  BY <1>2
<1>4. QED
  BY <1>3 DEF Leftmost

\* Part of what was found in a text was found in it.
LEMMA FindingsLess ==
  ASSUME NEW n \in Nat, NEW hits \in Findings(n), NEW s \in SUBSET hits
  PROVE  s \in Findings(n)
BY FS_Subset DEF Findings

-----------------------------------------------------------------------------
(* Resolved *)

\* A step of the resolution keeps only hits (_resolve_overlaps).
LEMMA KeepSubset ==
  ASSUME NEW hits, NEW x \in hits, NEW kept \in SUBSET hits, NEW weight
  PROVE  Keep(x, kept, weight) \in SUBSET hits
BY DEF Keep

\* Resolved is the end of a fold that looks at the latest hit last.
LEMMA ResolvedUnfolds ==
  ASSUME NEW n \in Nat, NEW hits \in Findings(n), NEW weight
  PROVE  \E iter :
           /\ iter \in [SUBSET hits -> SUBSET hits] /\ iter[{}] = {}
           /\ \A s \in SUBSET hits :
                s # {} => iter[s] = Keep(Latest(s), iter[s \ {Latest(s)}], weight)
           /\ Resolved(hits, weight) = iter[hits]
<1> DEFINE ch == [s \in SUBSET hits |-> Latest(s)]
           g == [x \in hits |-> [kept \in SUBSET hits |-> Keep(x, kept, weight)]]
           last == CHOOSE iter : iter = [s \in SUBSET hits |->
                    IF s = {} THEN {} ELSE Keep(Latest(s), iter[s \ {Latest(s)}], weight)]
<1>1. \A s \in SUBSET hits : s # {} => Latest(s) \in s
  BY LatestExists, FindingsLess
<1>2. \E iter \in [SUBSET hits -> SUBSET hits] : IsFold(iter, hits, {}, ch, g)
  <2>1. IsFiniteSet(hits) /\ {} \in SUBSET hits
    BY DEF Findings
  <2>2. \A s \in SUBSET hits : s # {} => ch[s] \in s
    BY <1>1
  <2> DEFINE T == SUBSET hits
  <2>3. g \in [hits -> [T -> T]] /\ {} \in T
    BY KeepSubset
  <2> HIDE DEF ch, g, T
  <2>4. \E iter \in [SUBSET hits -> T] : IsFold(iter, hits, {}, ch, g)
    <3>1. Foldable(hits, T, {}, ch, g)
      BY <2>1, <2>2, <2>3 DEF Foldable
    <3> QED BY <3>1, FoldExists
  <2> QED BY <2>4 DEF T
<1>4. \E iter : iter = [s \in SUBSET hits |->
        IF s = {} THEN {} ELSE Keep(Latest(s), iter[s \ {Latest(s)}], weight)]
  <2>1. PICK iter \in [SUBSET hits -> SUBSET hits] : IsFold(iter, hits, {}, ch, g)
    BY <1>2
  <2>2. iter = [s \in SUBSET hits |->
          IF s = {} THEN {} ELSE Keep(Latest(s), iter[s \ {Latest(s)}], weight)]
    BY <1>1, <2>1 DEF IsFold
  <2> QED BY <2>2
<1>5. last = [s \in SUBSET hits |->
        IF s = {} THEN {} ELSE Keep(Latest(s), last[s \ {Latest(s)}], weight)]
  BY <1>4
<1>6. Resolved(hits, weight) = last[hits]
  BY DEF Resolved, MapThenFoldSet
<1> HIDE DEF last
<1>0. PICK it : /\ it = [s \in SUBSET hits |->
                    IF s = {} THEN {} ELSE Keep(Latest(s), it[s \ {Latest(s)}], weight)]
                /\ Resolved(hits, weight) = it[hits]
  BY <1>5, <1>6
<1> DEFINE P == {s \in SUBSET hits : it[s] \in SUBSET hits}
<1>7. ASSUME NEW s \in SUBSET hits, \A x \in s : s \ {x} \in P
      PROVE  s \in P
  <2>1. it[s] = IF s = {} THEN {} ELSE Keep(Latest(s), it[s \ {Latest(s)}], weight)
    BY <1>0
  <2>2. CASE s = {}
    BY <2>1, <2>2
  <2>3. CASE s # {}
    <3>1. Latest(s) \in hits /\ it[s \ {Latest(s)}] \in SUBSET hits
      BY <1>1, <1>7, <2>3
    <3>2. Keep(Latest(s), it[s \ {Latest(s)}], weight) \in SUBSET hits
      <4> DEFINE x == Latest(s)
                 kept == it[s \ {Latest(s)}]
      <4>1. x \in hits /\ kept \in SUBSET hits
        BY <3>1
      <4> HIDE DEF x, kept
      <4>2. Keep(x, kept, weight) \in SUBSET hits
        BY ONLY <4>1, KeepSubset
      <4> QED BY <4>2 DEF x, kept
    <3> QED BY <2>1, <2>3, <3>2
  <2> QED BY <2>2, <2>3
<1>8. SUBSET hits \subseteq P
  <2>1. IsFiniteSet(hits)
    BY DEF Findings
  <2>2. \A s \in SUBSET hits : (\A x \in s : s \ {x} \in P) => s \in P
    BY <1>7
  <2> HIDE DEF P
  <2> QED BY ONLY <2>1, <2>2, SetInduction
<1>9. it \in [SUBSET hits -> SUBSET hits]
  BY <1>0, <1>8
<1>10. it[{}] = {} /\ \A s \in SUBSET hits :
         s # {} => it[s] = Keep(Latest(s), it[s \ {Latest(s)}], weight)
  BY <1>0
<1>11. QED
  BY <1>0, <1>9, <1>10

\* What overlaps join stays joined.
Spanned(x, cover) == \E h \in cover : h.start = x.start /\ h.end = x.end

\* Links through a cover can be put together.
LEMMA LinkedTrans ==
  ASSUME NEW n \in Nat, NEW x \in HitsIn(n), NEW y \in HitsIn(n), NEW z \in HitsIn(n),
         NEW cover, Spanned(y, cover), Linked(x, y, cover), Linked(y, z, cover)
  PROVE  Linked(x, z, cover)
<1> DEFINE In(p) == \E h \in cover : h.start < p /\ p < h.end
<1>1. /\ x.start \in Nat /\ x.end \in Nat /\ y.start \in Nat
      /\ y.end \in Nat /\ z.start \in Nat /\ z.end \in Nat
  BY DEF HitsIn
<1>2. \A p \in Nat : y.start < p /\ p < y.end => In(p)
  BY DEF Spanned
<1>3. /\ \A p \in x.end..y.start : In(p)
      /\ \A p \in y.end..x.start : In(p)
      /\ \A p \in y.end..z.start : In(p)
      /\ \A p \in z.end..y.start : In(p)
  BY DEF Linked
<1>4. ASSUME NEW p \in (x.end..z.start) \union (z.end..x.start)
      PROVE  In(p)
  <2>1. p \in Nat
    BY <1>1
  <2> HIDE DEF In
  <2>2. CASE y.start < p /\ p < y.end
    BY <1>2, <2>1, <2>2
  <2>3. CASE p <= y.start
    <3>1. p \in x.end..y.start \/ p \in z.end..y.start
      BY <1>1, <2>1, <2>3
    <3> QED BY <1>3, <3>1
  <2>4. CASE y.end <= p
    <3>1. p \in y.end..z.start \/ p \in y.end..x.start
      BY <1>1, <2>1, <2>4
    <3> QED BY <1>3, <3>1
  <2> QED BY <1>1, <2>1, <2>2, <2>3, <2>4
<1>5. QED
  BY <1>4 DEF Linked

\* Hits that overlap are linked through any cover.
LEMMA OverlapLinks ==
  ASSUME NEW n \in Nat, NEW x \in HitsIn(n), NEW y \in HitsIn(n), NEW cover,
         Overlap(x, y) \/ x = y
  PROVE  Linked(x, y, cover)
<1>1. /\ x.start \in Nat /\ x.end \in Nat /\ y.start \in Nat /\ y.end \in Nat
      /\ x.start < x.end /\ y.start < y.end
  BY DEF HitsIn
<1>2. y.start < x.end /\ x.start < y.end
  BY <1>1 DEF Overlap
<1>3. x.end..y.start = {} /\ y.end..x.start = {}
  BY <1>1, <1>2
<1>4. QED
  BY <1>3 DEF Linked

\* What holds of the hits kept among those of s that were looked at.
Heavy(s, kept, hits, weight) ==
  \A x \in s : (\A y \in hits \ {x} : Overlap(x, y) => weight[y] < weight[x]) => x \in kept
Clustered(s, kept, weight, cover) ==
  \A x \in s : \E y \in kept : weight[y] >= weight[x] /\ Linked(x, y, cover)
Settled(s, kept, hits, weight, cover) ==
  /\ kept \subseteq s /\ Apart(kept)
  /\ Heavy(s, kept, hits, weight) /\ Clustered(s, kept, weight, cover)

\* Looking at one hit more leaves the hits looked at settled: a hit is given up
\* only for one of at least its weight that overlaps it (_resolve_overlaps).
LEMMA KeepSettles ==
  ASSUME NEW n \in Nat, NEW hits \in SUBSET HitsIn(n), NEW weight \in [hits -> Nat],
         NEW cover, \A h \in hits : Spanned(h, cover),
         NEW s \in SUBSET hits, NEW x \in hits, x \notin s, \A y \in s : y.start <= x.start,
         NEW kept, Settled(s, kept, hits, weight, cover)
  PROVE  Settled(s \union {x}, Keep(x, kept, weight), hits, weight, cover)
<1> DEFINE over == {y \in kept : x.start < y.end}
           now == Keep(x, kept, weight)
<1>1. now = IF \A y \in over : weight[x] > weight[y] THEN (kept \ over) \union {x} ELSE kept
  BY DEF Keep
<1>2. kept \subseteq s /\ Apart(kept) /\ x \notin kept
  BY DEF Settled
<1>3. /\ \A y \in hits : y.start \in Nat /\ y.end \in Nat /\ y.start < y.end /\ weight[y] \in Nat
      /\ hits \subseteq HitsIn(n)
  BY DEF HitsIn
<1>4. ASSUME NEW y \in s
      PROVE  (x.start < y.end <=> Overlap(x, y)) /\ (Overlap(x, y) <=> Overlap(y, x))
  BY <1>3, <1>4 DEF Overlap
<1>5. over = {y \in kept : Overlap(x, y)}
  BY <1>2, <1>4
<1> HIDE DEF over, now
<1>6. now \subseteq s \union {x}
  BY <1>1, <1>2, <1>5
<1>7. Apart(now)
  BY <1>1, <1>2, <1>4, <1>5 DEF Apart
<1>8. Heavy(s \union {x}, now, hits, weight)
  <2>1. SUFFICES ASSUME NEW z \in s \union {x},
                        \A y \in hits \ {z} : Overlap(z, y) => weight[y] < weight[z]
                 PROVE  z \in now
    BY DEF Heavy
  <2>2. CASE z = x
    <3>1. \A y \in over : weight[x] > weight[y]
      BY <1>2, <1>3, <1>5, <2>1, <2>2
    <3> QED BY <1>1, <2>2, <3>1
  <2>3. CASE z \in s
    <3>1. z \in kept
      BY <2>1, <2>3 DEF Settled, Heavy
    <3>2. z \in over => weight[x] < weight[z]
      BY <1>4, <1>5, <2>1, <2>3
    <3>3. z \in over => ~(weight[x] > weight[z])
      BY <1>3, <2>3, <3>2
    <3> QED BY <1>1, <3>1, <3>3
  <2> QED BY <2>2, <2>3
<1>9. Clustered(s \union {x}, now, weight, cover)
  <2>1. SUFFICES ASSUME NEW z \in s \union {x}
                 PROVE  \E y \in now : weight[y] >= weight[z] /\ Linked(z, y, cover)
    BY DEF Clustered
  <2>2. CASE \A y \in over : weight[x] > weight[y]
    <3>1. now = (kept \ over) \union {x}
      BY <1>1, <2>2
    <3>2. CASE z = x
      <4>1. Linked(x, x, cover)
        BY <1>3, OverlapLinks
      <4> QED BY <1>3, <3>1, <3>2, <4>1
    <3>3. CASE z \in s
      <4>1. PICK y \in kept : weight[y] >= weight[z] /\ Linked(z, y, cover)
        BY <3>3 DEF Settled, Clustered
      <4>2. CASE y \notin over
        BY <3>1, <4>1, <4>2
      <4>3. CASE y \in over
        <5>1. Linked(y, x, cover)
          BY <1>2, <1>3, <1>4, <1>5, <4>3, OverlapLinks
        <5>2. Linked(z, x, cover)
          BY <1>2, <1>3, <3>3, <4>1, <5>1, LinkedTrans
        <5>3. weight[x] >= weight[z]
          BY <1>2, <1>3, <2>2, <3>3, <4>1, <4>3
        <5> QED BY <3>1, <5>2, <5>3
      <4> QED BY <4>2, <4>3
    <3> QED BY <3>2, <3>3
  <2>3. CASE ~\A y \in over : weight[x] > weight[y]
    <3>1. now = kept
      BY <1>1, <2>3
    <3>2. CASE z = x
      <4>1. PICK y \in over : ~(weight[x] > weight[y])
        BY <2>3
      <4>2. y \in kept /\ y \in s /\ Overlap(x, y)
        BY <1>2, <1>5
      <4>3. Linked(x, y, cover) /\ weight[y] >= weight[x]
        BY <1>3, <4>1, <4>2, OverlapLinks
      <4> QED BY <3>1, <3>2, <4>2, <4>3
    <3>3. CASE z \in s
      BY <3>1, <3>3 DEF Settled, Clustered
    <3> QED BY <3>2, <3>3
  <2> QED BY <2>2, <2>3
<1>10. QED
  BY <1>6, <1>7, <1>8, <1>9 DEF Settled, now

\* After the resolution every hit is kept or linked to one that weighs as much.
LEMMA ResolvedSettles ==
  ASSUME NEW n \in Nat, NEW hits \in Findings(n), NEW weight \in [hits -> Nat],
         NEW cover, \A h \in hits : Spanned(h, cover)
  PROVE  Settled(hits, Resolved(hits, weight), hits, weight, cover)
<1>1. PICK iter :
        /\ iter \in [SUBSET hits -> SUBSET hits] /\ iter[{}] = {}
        /\ \A s \in SUBSET hits :
             s # {} => iter[s] = Keep(Latest(s), iter[s \ {Latest(s)}], weight)
        /\ Resolved(hits, weight) = iter[hits]
  BY ResolvedUnfolds
<1> DEFINE P == {s \in SUBSET hits : Settled(s, iter[s], hits, weight, cover)}
<1>2. ASSUME NEW s \in SUBSET hits, \A x \in s : s \ {x} \in P
      PROVE  s \in P
  <2>1. CASE s = {}
    BY <1>1, <2>1 DEF Settled, Apart, Heavy, Clustered
  <2>2. CASE s # {}
    <3> DEFINE x == Latest(s)
               t == s \ {x}
    <3>1. x \in s /\ \A y \in s : ~Earlier(x, y)
      BY <2>2, LatestExists, FindingsLess
    <3>2. hits \in SUBSET HitsIn(n)
      BY DEF Findings
    <3>3. \A y \in t : y.start <= x.start
      BY <3>1, <3>2, EarlierOrders
    <3>4. Settled(t, iter[t], hits, weight, cover)
      BY <1>2, <3>1
    <3>5. x \in hits /\ x \notin t /\ t \in SUBSET hits /\ s = t \union {x}
      BY <3>1
    <3>6. iter[s] = Keep(x, iter[t], weight)
      BY <1>1, <2>2
    <3> HIDE DEF x, t
    <3>7. Settled(t \union {x}, Keep(x, iter[t], weight), hits, weight, cover)
      BY <3>2, <3>3, <3>4, <3>5, KeepSettles
    <3>8. Settled(s, iter[s], hits, weight, cover)
      BY <3>5, <3>6, <3>7
    <3> QED BY <3>8
  <2> QED BY <2>1, <2>2
<1>3. SUBSET hits \subseteq P
  <2>1. IsFiniteSet(hits)
    BY DEF Findings
  <2>2. \A s \in SUBSET hits : (\A x \in s : s \ {x} \in P) => s \in P
    BY <1>2
  <2> HIDE DEF P
  <2> QED BY ONLY <2>1, <2>2, SetInduction
<1>4. hits \in P
  BY <1>3
<1>5. QED
  BY <1>1, <1>4

-----------------------------------------------------------------------------
(* What the rules find *)

\* The image of a finite set is finite.
LEMMA ImageFinite ==
  ASSUME NEW S, IsFiniteSet(S), NEW T, NEW f \in [S -> T],
         \A t \in T : \E s \in S : f[s] = t
  PROVE  IsFiniteSet(T)
BY FS_Surjection DEF Surjection

\* The matches of a rule lie within the text.
LEMMA HitsFound ==
  ASSUME NEW rule, rule.word \in Seq(Chars) \ {<<>>}, rule.type \in Types,
         NEW text \in Seq(Chars), NEW score \in Nat, NEW by \in Nat
  PROVE  Hits(rule, text, score, by) \in Findings(Len(text))
<1> DEFINE places == Occurrences(rule.word, text)
           hit(i) == [start |-> i, end |-> i + Len(rule.word), type |-> rule.type,
                      score |-> score, by |-> by]
<1>1. Len(rule.word) \in Nat \ {0} /\ Len(text) \in Nat
  BY EmptySeq, LenProperties
<1> DEFINE m == Len(text) + 1 - Len(rule.word)
<1>2. places \subseteq 1..m /\ m \in Int
  <2>1. places \subseteq 1..m
    BY DEF Occurrences
  <2>2. m \in Int
    BY <1>1
  <2> QED BY <2>1, <2>2
<1>3. IsFiniteSet(places)
  <2> HIDE DEF m, places
  <2>1. IsFiniteSet(1..m)
    BY <1>2, FS_Interval
  <2> QED BY <1>2, <2>1, FS_Subset
<1>4. Hits(rule, text, score, by) = {hit(i) : i \in places}
  BY DEF Hits
<1>5. \A i \in places : hit(i) \in HitsIn(Len(text))
  <2>1. TAKE i \in places
  <2>2. i \in Nat /\ 1 <= i /\ i <= Len(text) + 1 - Len(rule.word)
    <3>1. i \in 1..m
      BY <1>2
    <3> HIDE DEF places
    <3> QED BY <1>1, <3>1
  <2> HIDE DEF places
  <2> QED BY <1>1, <2>2 DEF HitsIn
<1>6. IsFiniteSet({hit(i) : i \in places})
  <2> DEFINE T == {hit(i) : i \in places}
             f == [i \in places |-> hit(i)]
  <2>1. f \in [places -> T] /\ \A t \in T : \E i \in places : f[i] = t
    OBVIOUS
  <2> HIDE DEF f, T, places
  <2>2. IsFiniteSet(T)
    BY <1>3, <2>1, ImageFinite
  <2> QED BY <2>2 DEF T
<1>7. QED
  BY <1>4, <1>5, <1>6 DEF Findings

\* What several rules find is found in the text.
LEMMA FindingsUnion ==
  ASSUME NEW n, NEW S, IsFiniteSet(S), NEW f, \A s \in S : f[s] \in Findings(n)
  PROVE  UNION {f[s] : s \in S} \in Findings(n)
<1> DEFINE T == {f[s] : s \in S}
           h == [s \in S |-> f[s]]
<1>1. h \in [S -> T] /\ \A t \in T : \E s \in S : h[s] = t
  OBVIOUS
<1>2. \A t \in T : IsFiniteSet(t) /\ t \subseteq HitsIn(n)
  BY DEF Findings
<1>3. IsFiniteSet(T)
  <2> HIDE DEF T, h
  <2> QED BY <1>1, ImageFinite
<1>4. IsFiniteSet(UNION T)
  <2> HIDE DEF T, h
  <2> QED BY <1>2, <1>3, FS_UNION
<1>5. UNION T \subseteq HitsIn(n)
  BY <1>2
<1>6. QED
  BY <1>4, <1>5 DEF Findings

\* What two sources find is found in the text.
LEMMA FindingsBoth ==
  ASSUME NEW n, NEW a \in Findings(n), NEW b \in Findings(n)
  PROVE  a \union b \in Findings(n)
BY FS_Union DEF Findings

\* Nothing is a finding of any text.
LEMMA NoFindings == \A n : {} \in Findings(n)
BY FS_EmptySet DEF Findings

\* All that the demo rules find, before overlaps are resolved, and all that the
\* patterns do.
AllDemo(text) == UNION {Hits(rule, text, Sure, 1) : rule \in DemoRules}
AllRegex(text, lang) ==
  UNION {Hits(SpecsFor(lang)[k], text, Sure, 2) : k \in DOMAIN SpecsFor(lang)}

\* Every match of a rule has the rule's score.
LEMMA HitsScore ==
  \A rule, text, score, by : \A x \in Hits(rule, text, score, by) : x.score = score
BY DEF Hits

\* The matches of the workspace's rules lie within the text and are sure.
LEMMA AllDemoFound ==
  ASSUME NEW text \in Seq(Chars)
  PROVE  /\ AllDemo(text) \in Findings(Len(text))
         /\ \A x \in AllDemo(text) : x.score = Sure
<1> DEFINE f == [rule \in DemoRules |-> Hits(rule, text, Sure, 1)]
<1>1. \A rule \in DemoRules : f[rule] \in Findings(Len(text))
  <2>1. TAKE rule \in DemoRules
  <2>2. rule.word \in Seq(Chars) \ {<<>>} /\ rule.type \in Types /\ Sure \in Nat
    BY DetectionAssumption DEF Rules
  <2>3. Hits(rule, text, Sure, 1) \in Findings(Len(text))
    BY <2>2, HitsFound
  <2> QED BY <2>3
<1>2. IsFiniteSet(DemoRules)
  BY DetectionAssumption
<1>3. AllDemo(text) = UNION {f[rule] : rule \in DemoRules}
  BY DEF AllDemo
<1>4. UNION {f[rule] : rule \in DemoRules} \in Findings(Len(text))
  <2> HIDE DEF f
  <2> QED BY <1>1, <1>2, FindingsUnion
<1>5. \A x \in AllDemo(text) : x.score = Sure
  <2>1. TAKE x \in AllDemo(text)
  <2>2. PICK rule \in DemoRules : x \in Hits(rule, text, Sure, 1)
    BY DEF AllDemo
  <2> QED BY <2>2, HitsScore
<1>6. QED
  BY <1>3, <1>4, <1>5

\* The patterns of a language are rules (RegexPreFilter).
LEMMA SpecsType == \A lang : SpecsFor(lang) \in Seq(Rules)
BY DetectionAssumption, ConcatProperties DEF SpecsFor

\* The matches of one pattern lie within the text.
LEMMA SpecFound ==
  ASSUME NEW text \in Seq(Chars), NEW lang, NEW k \in DOMAIN SpecsFor(lang)
  PROVE  Hits(SpecsFor(lang)[k], text, Sure, 2) \in Findings(Len(text))
<1>1. SpecsFor(lang)[k] \in Rules /\ Sure \in Nat
  BY SpecsType, ElementOfSeq, LenProperties, DetectionAssumption
<1>2. QED
  BY <1>1, HitsFound DEF Rules

\* The matches of the patterns lie within the text and are sure.
LEMMA AllRegexFound ==
  ASSUME NEW text \in Seq(Chars), NEW lang
  PROVE  /\ AllRegex(text, lang) \in Findings(Len(text))
         /\ \A x \in AllRegex(text, lang) : x.score = Sure
<1> DEFINE f == [k \in DOMAIN SpecsFor(lang) |-> Hits(SpecsFor(lang)[k], text, Sure, 2)]
<1>1. \A k \in DOMAIN SpecsFor(lang) : f[k] \in Findings(Len(text))
  BY SpecFound
<1>2. IsFiniteSet(DOMAIN SpecsFor(lang))
  BY SpecsType, LenProperties, FS_Interval
<1>3. AllRegex(text, lang) = UNION {f[k] : k \in DOMAIN SpecsFor(lang)}
  BY DEF AllRegex
<1>4. UNION {f[k] : k \in DOMAIN SpecsFor(lang)} \in Findings(Len(text))
  <2> HIDE DEF f
  <2> QED BY <1>1, <1>2, FindingsUnion
<1>5. \A x \in AllRegex(text, lang) : x.score = Sure
  <2>1. TAKE x \in AllRegex(text, lang)
  <2>2. PICK k \in DOMAIN SpecsFor(lang) : x \in Hits(SpecsFor(lang)[k], text, Sure, 2)
    BY DEF AllRegex
  <2> QED BY <2>2, HitsScore
<1>6. QED
  BY <1>3, <1>4, <1>5

\* One pattern after the other: what overlaps a hit taken already is left out.
TakenBy(taken, rule, text) ==
  taken \union {x \in Hits(rule, text, Sure, 2) : \A y \in taken : ~Overlap(x, y)}

\* RegexHits takes the patterns in their order (RegexPreFilter.extract_entities).
LEMMA RegexUnfolds ==
  ASSUME NEW text \in Seq(Chars), NEW lang
  PROVE  \E iter :
           /\ iter[{}] = {}
           /\ \A s \in SUBSET (DOMAIN SpecsFor(lang)) :
                s # {} => iter[s] = TakenBy(iter[s \ {Max(s)}], SpecsFor(lang)[Max(s)], text)
           /\ RegexHits(text, lang) = iter[DOMAIN SpecsFor(lang)]
<1> DEFINE specs == SpecsFor(lang)
           D == DOMAIN specs
           T == Findings(Len(text))
           ch == [s \in SUBSET D |-> Max(s)]
           g == [k \in D |-> [taken \in T |-> TakenBy(taken, specs[k], text)]]
           last == CHOOSE iter : iter = [s \in SUBSET D |->
                     IF s = {} THEN {} ELSE TakenBy(iter[s \ {Max(s)}], specs[Max(s)], text)]
<1>1. /\ IsFiniteSet(D)
      /\ \A s \in SUBSET D : s # {} => Max(s) \in s
  <2>1. D = 1..Len(specs) /\ Len(specs) \in Nat
    BY SpecsType, LenProperties
  <2>2. IsFiniteSet(1..Len(specs))
    BY <2>1, FS_Interval
  <2> HIDE DEF specs, D
  <2> QED BY <2>1, <2>2, MaxExists
<1>2. \E iter : iter = [s \in SUBSET D |->
        IF s = {} THEN {} ELSE TakenBy(iter[s \ {Max(s)}], specs[Max(s)], text)]
  <2>1. {} \in T /\ \A s \in SUBSET D : s # {} => ch[s] \in s
    BY <1>1, NoFindings
  <2>2. ASSUME NEW k \in D, NEW taken \in T
        PROVE  TakenBy(taken, specs[k], text) \in T
    <3>1. Hits(specs[k], text, Sure, 2) \in T
      BY SpecFound
    <3> DEFINE free == {x \in Hits(specs[k], text, Sure, 2) : \A y \in taken : ~Overlap(x, y)}
    <3>2. free \in SUBSET Hits(specs[k], text, Sure, 2)
      OBVIOUS
    <3>3. free \in T
      <4> HIDE DEF free, specs
      <4> QED BY <3>1, <3>2, FS_Subset DEF Findings
    <3>4. taken \union free \in T
      <4> HIDE DEF free, specs
      <4> QED BY <3>3, FindingsBoth
    <3> QED BY <3>4 DEF TakenBy
  <2>3. g \in [D -> [T -> T]]
    <3> HIDE DEF D, T, specs
    <3> QED BY <2>2
  <2>4. PICK iter \in [SUBSET D -> T] : IsFold(iter, D, {}, ch, g)
    <3>1. Foldable(D, T, {}, ch, g)
      <4> HIDE DEF D, T, ch, g, specs
      <4> QED BY <1>1, <2>1, <2>3 DEF Foldable
    <3> HIDE DEF D, T, ch, g, specs
    <3> QED BY <3>1, FoldExists
  <2>5. iter = [s \in SUBSET D |->
          IF s = {} THEN {} ELSE TakenBy(iter[s \ {Max(s)}], specs[Max(s)], text)]
    <3>1. ASSUME NEW s \in SUBSET D, s # {}
          PROVE  g[ch[s]][iter[s \ {ch[s]}]] = TakenBy(iter[s \ {Max(s)}], specs[Max(s)], text)
      <4>1. Max(s) \in D /\ iter[s \ {Max(s)}] \in T /\ ch[s] = Max(s)
        BY <1>1, <3>1
      <4> HIDE DEF D, T, specs
      <4> QED BY <4>1
    <3>2. iter = [s \in SUBSET D |-> IF s = {} THEN {} ELSE g[ch[s]][iter[s \ {ch[s]}]]]
      BY <2>4 DEF IsFold
    <3> HIDE DEF D, T, specs, ch, g
    <3> QED BY <3>1, <3>2
  <2> HIDE DEF D, T, specs, ch, g
  <2> QED BY <2>5
<1>3. last = [s \in SUBSET D |->
        IF s = {} THEN {} ELSE TakenBy(last[s \ {Max(s)}], specs[Max(s)], text)]
  <2> HIDE DEF D, specs
  <2> QED BY <1>2
<1>4. RegexHits(text, lang) = last[D]
  BY DEF RegexHits, FoldLeft, MapThenFoldSet, TakenBy
<1>5. last[{}] = {} /\ \A s \in SUBSET D :
        s # {} => last[s] = TakenBy(last[s \ {Max(s)}], specs[Max(s)], text)
  <2> HIDE DEF D, specs, last
  <2> QED BY <1>3
<1>6. QED
  BY <1>4, <1>5

\* Each match of a pattern is taken or overlaps one that is.
LEMMA RegexTakes ==
  ASSUME NEW text \in Seq(Chars), NEW lang
  PROVE  /\ RegexHits(text, lang) \subseteq AllRegex(text, lang)
         /\ \A x \in AllRegex(text, lang) : \E y \in RegexHits(text, lang) : x = y \/ Overlap(x, y)
<1> DEFINE specs == SpecsFor(lang)
           D == DOMAIN specs
           Found(k) == Hits(specs[k], text, Sure, 2)
<1>1. PICK iter :
        /\ iter[{}] = {}
        /\ \A s \in SUBSET D : s # {} => iter[s] = TakenBy(iter[s \ {Max(s)}], specs[Max(s)], text)
        /\ RegexHits(text, lang) = iter[D]
  BY RegexUnfolds
<1>2. /\ IsFiniteSet(D)
      /\ \A s \in SUBSET D : s # {} => Max(s) \in s
  <2>1. D = 1..Len(specs) /\ Len(specs) \in Nat
    BY SpecsType, LenProperties
  <2>2. IsFiniteSet(1..Len(specs))
    BY <2>1, FS_Interval
  <2> HIDE DEF specs, D
  <2> QED BY <2>1, <2>2, MaxExists
<1> DEFINE Covered(s) ==
             /\ iter[s] \subseteq UNION {Found(k) : k \in s}
             /\ \A k \in s : \A x \in Found(k) : \E y \in iter[s] : x = y \/ Overlap(x, y)
           P == {s \in SUBSET D : Covered(s)}
<1>3. ASSUME NEW s \in SUBSET D, \A k \in s : s \ {k} \in P
      PROVE  s \in P
  <2>1. CASE s = {}
    BY <1>1, <2>1
  <2>2. CASE s # {}
    <3> DEFINE m == Max(s)
               old == iter[s \ {m}]
    <3>1. m \in s
      BY <1>2, <2>2
    <3>2. iter[s] = old \union {x \in Found(m) : \A y \in old : ~Overlap(x, y)}
      BY <1>1, <2>2 DEF TakenBy
    <3>3. Covered(s \ {m})
      BY <1>3, <3>1
    <3>4. /\ old \subseteq UNION {Found(k) : k \in s \ {m}}
          /\ \A k \in s \ {m} : \A x \in Found(k) : \E y \in old : x = y \/ Overlap(x, y)
      BY <3>3
    <3> HIDE DEF m, old, Found
    <3>5. iter[s] \subseteq UNION {Found(k) : k \in s}
      BY <3>1, <3>2, <3>4
    <3>6. ASSUME NEW k \in s, NEW x \in Found(k)
          PROVE  \E y \in iter[s] : x = y \/ Overlap(x, y)
      BY <3>2, <3>4, <3>6
    <3> QED BY <3>5, <3>6
  <2> QED BY <2>1, <2>2
<1>4. SUBSET D \subseteq P
  <2>1. \A s \in SUBSET D : (\A k \in s : s \ {k} \in P) => s \in P
    BY <1>3
  <2> HIDE DEF P, D
  <2> QED BY ONLY <1>2, <2>1, SetInduction
<1>5. Covered(D)
  <2>1. D \in SUBSET D
    OBVIOUS
  <2> HIDE DEF D
  <2> QED BY <1>4, <2>1
<1>6. AllRegex(text, lang) = UNION {Found(k) : k \in D}
  BY DEF AllRegex
<1>7. QED
  <2> HIDE DEF D, Found
  <2> QED BY <1>1, <1>5, <1>6

-----------------------------------------------------------------------------
(* What the engine answers *)

\* What is spanned by a part of a cover is spanned by the whole.
LEMMA SpannedUp ==
  ASSUME NEW a, NEW b, a \subseteq b
  PROVE  \A h \in a : Spanned(h, b)
BY DEF Spanned

\* Each match of the workspace's rules is kept or linked to one that is
\* (DemoRuleSet._resolve_overlaps).
LEMMA DemoHitsSettle ==
  ASSUME NEW text \in Seq(Chars), NEW cover, \A h \in AllDemo(text) : Spanned(h, cover)
  PROVE  /\ DemoHits(text) \subseteq AllDemo(text)
         /\ \A x \in AllDemo(text) : \E y \in DemoHits(text) : Linked(x, y, cover)
<1> DEFINE weight == [x \in AllDemo(text) |-> Length(x)]
           n == Len(text)
<1>1. n \in Nat /\ AllDemo(text) \in Findings(n)
  BY AllDemoFound, LenProperties
<1>2. weight \in [AllDemo(text) -> Nat]
  <2>1. \A x \in AllDemo(text) : Length(x) \in Nat
    BY <1>1 DEF Findings, HitsIn, Length
  <2> QED BY <2>1
<1>3. DemoHits(text) = Resolved(AllDemo(text), weight)
  BY DEF DemoHits, AllDemo
<1> HIDE DEF weight, n
<1>4. Settled(AllDemo(text), Resolved(AllDemo(text), weight), AllDemo(text), weight, cover)
  BY <1>1, <1>2, ResolvedSettles
<1>5. QED
  BY <1>3, <1>4 DEF Settled, Clustered

\* What merging two sources gives.
LEMMA MergeSettles ==
  ASSUME NEW n \in Nat, NEW hits \in Findings(n), NEW cover, \A h \in hits : Spanned(h, cover)
  PROVE  /\ Merge(hits) \in Findings(n) /\ Merge(hits) \subseteq hits /\ Apart(Merge(hits))
         /\ \A x \in hits :
              (\A y \in hits \ {x} : Overlap(x, y) => y.score < x.score) => x \in Merge(hits)
         /\ \A x \in hits : \E y \in Merge(hits) : y.score >= x.score /\ Linked(x, y, cover)
<1> DEFINE weight == [x \in hits |-> x.score]
<1>1. weight \in [hits -> Nat]
  <2>1. \A x \in hits : x.score \in Nat
    BY DEF Findings, HitsIn
  <2> QED BY <2>1
<1>2. Merge(hits) = Resolved(hits, weight)
  BY DEF Merge
<1>3. \A x \in hits : weight[x] = x.score
  OBVIOUS
<1> HIDE DEF weight
<1>4. Settled(hits, Merge(hits), hits, weight, cover)
  BY <1>1, <1>2, ResolvedSettles
<1>5. Merge(hits) \subseteq hits /\ Apart(Merge(hits))
  BY <1>4 DEF Settled
<1>6. Merge(hits) \in Findings(n)
  BY <1>5, FindingsLess
<1>7. ASSUME NEW x \in hits, \A y \in hits \ {x} : Overlap(x, y) => y.score < x.score
      PROVE  x \in Merge(hits)
  BY <1>3, <1>4, <1>7 DEF Settled, Heavy
<1>8. ASSUME NEW x \in hits
      PROVE  \E y \in Merge(hits) : y.score >= x.score /\ Linked(x, y, cover)
  BY <1>3, <1>4, <1>5 DEF Settled, Clustered
<1>9. QED
  BY <1>5, <1>6, <1>7, <1>8

\* Hits that do not overlap are all kept.
LEMMA MergeApart ==
  ASSUME NEW n \in Nat, NEW hits \in Findings(n), Apart(hits)
  PROVE  Merge(hits) = hits
<1>1. \A h \in hits : Spanned(h, hits)
  BY SpannedUp
<1>2. /\ Merge(hits) \subseteq hits
      /\ \A x \in hits :
           (\A y \in hits \ {x} : Overlap(x, y) => y.score < x.score) => x \in Merge(hits)
  BY <1>1, MergeSettles
<1>3. QED
  BY <1>2 DEF Apart

\* Rules: each match is hidden or linked to one that is.
AllRules(text, lang) == AllDemo(text) \union AllRegex(text, lang)

\* What the rules of both sources come to: hits apart, all sure, and one of them
\* linked to each match (_merge_entities over demo and regex hits).
LEMMA CertainSettles ==
  ASSUME NEW text \in Seq(Chars), NEW lang, NEW cover,
         \A h \in AllRules(text, lang) : Spanned(h, cover)
  PROVE  /\ Certain(text, lang) \in Findings(Len(text))
         /\ Apart(Certain(text, lang))
         /\ Certain(text, lang) \subseteq AllRules(text, lang)
         /\ \A x \in AllRules(text, lang) : x.score = Sure
         /\ \A x \in AllRules(text, lang) : \E y \in Certain(text, lang) : Linked(x, y, cover)
<1> DEFINE n == Len(text)
           both == DemoHits(text) \union RegexHits(text, lang)
<1>1. /\ n \in Nat
      /\ AllDemo(text) \in Findings(n) /\ AllRegex(text, lang) \in Findings(n)
      /\ \A x \in AllRules(text, lang) : x.score = Sure
  BY LenProperties, AllDemoFound, AllRegexFound DEF AllRules
<1>2. /\ DemoHits(text) \subseteq AllDemo(text)
      /\ \A x \in AllDemo(text) : \E y \in DemoHits(text) : Linked(x, y, cover)
  BY DemoHitsSettle DEF AllRules
<1>3. /\ RegexHits(text, lang) \subseteq AllRegex(text, lang)
      /\ \A x \in AllRegex(text, lang) : \E y \in RegexHits(text, lang) : x = y \/ Overlap(x, y)
  BY RegexTakes
<1>4. both \in Findings(n) /\ both \subseteq AllRules(text, lang)
  <2>1. DemoHits(text) \in Findings(n) /\ RegexHits(text, lang) \in Findings(n)
    BY <1>1, <1>2, <1>3, FindingsLess
  <2> QED BY <1>2, <1>3, <2>1, FindingsBoth DEF AllRules
<1>5. /\ \A h \in both : Spanned(h, cover)
      /\ AllRules(text, lang) \subseteq HitsIn(n)
  BY <1>1, <1>4 DEF AllRules, Findings
<1>6. Certain(text, lang) = Merge(both)
  BY DEF Certain
<1> HIDE DEF n, both
<1>7. /\ Merge(both) \in Findings(n) /\ Merge(both) \subseteq both /\ Apart(Merge(both))
      /\ \A x \in both : \E y \in Merge(both) : y.score >= x.score /\ Linked(x, y, cover)
  BY <1>1, <1>4, <1>5, MergeSettles
<1>8. ASSUME NEW x \in AllRules(text, lang)
      PROVE  \E y \in Merge(both) : Linked(x, y, cover)
  <2>1. PICK z \in both : Linked(x, z, cover)
    <3>1. CASE x \in AllDemo(text)
      BY <1>2, <3>1 DEF both
    <3>2. CASE x \in AllRegex(text, lang)
      <4>1. PICK z \in RegexHits(text, lang) : x = z \/ Overlap(x, z)
        BY <1>3, <3>2
      <4>2. x \in HitsIn(n) /\ z \in HitsIn(n) /\ z \in both
        BY <1>4, <1>5, <4>1 DEF both
      <4>3. Linked(x, z, cover)
        BY <1>1, <4>1, <4>2, OverlapLinks
      <4> QED BY <4>2, <4>3
    <3> QED BY <3>1, <3>2 DEF AllRules
  <2>2. PICK y \in Merge(both) : Linked(z, y, cover)
    BY <1>7
  <2>3. x \in HitsIn(n) /\ y \in HitsIn(n) /\ z \in HitsIn(n) /\ Spanned(z, cover)
    BY <1>4, <1>5, <1>7
  <2>4. Linked(x, y, cover)
    BY <1>1, <2>1, <2>2, <2>3, LinkedTrans
  <2> QED BY <2>4
<1>9. QED
  BY <1>1, <1>4, <1>6, <1>7, <1>8 DEF n

\* The analyser's hits, promoted, keep their places and scores.
Promotions(report, text) == {Promoted(x, text) : x \in report}

\* A promotion changes the type of a hit and nothing else
\* (_promote_localized_entity).
LEMMA PromotedSame ==
  \A x, text : /\ Promoted(x, text).start = x.start /\ Promoted(x, text).end = x.end
               /\ x \in HitsIn(Len(text)) => /\ Promoted(x, text) \in HitsIn(Len(text))
                                             /\ Promoted(x, text).score = x.score
<1>1. TAKE x, text
<1>2. CASE ~(x.type = Person /\ ToSet(Cut(text, x)) \intersect HebrewLetters # {})
  BY <1>2 DEF Promoted
<1>3. CASE x.type = Person /\ ToSet(Cut(text, x)) \intersect HebrewLetters # {}
  <2> DEFINE y == [x EXCEPT !.type = HePerson]
             n == Len(text)
  <2>1. Promoted(x, text) = y
    BY <1>3 DEF Promoted
  <2>2. y.start = x.start /\ y.end = x.end
    OBVIOUS
  <2>3. x \in HitsIn(n) => y \in HitsIn(n) /\ y.score = x.score
    <3> HIDE DEF n
    <3> QED BY ONLY DetectionAssumption DEF HitsIn
  <2> HIDE DEF y
  <2> QED BY <2>1, <2>2, <2>3
<1>4. QED
  BY <1>2, <1>3

\* Promoted hits lie within the text.
LEMMA PromotionsFound ==
  ASSUME NEW text, NEW report \in Findings(Len(text))
  PROVE  Promotions(report, text) \in Findings(Len(text))
<1> DEFINE T == Promotions(report, text)
           f == [x \in report |-> Promoted(x, text)]
<1>1. f \in [report -> T] /\ \A t \in T : \E x \in report : f[x] = t
  BY DEF Promotions
<1>2. IsFiniteSet(report) /\ report \subseteq HitsIn(Len(text))
  BY DEF Findings
<1>3. IsFiniteSet(T)
  <2> HIDE DEF T, f
  <2> QED BY <1>1, <1>2, ImageFinite
<1>4. T \subseteq HitsIn(Len(text))
  BY <1>2, PromotedSame DEF Promotions
<1>5. QED
  BY <1>3, <1>4 DEF Findings

\* What extract_entities comes to: hits apart, a sure rule hit kept unless the
\* analyser was as sure of something across it, and one linked to each hit.
LEMMA DetectedSettles ==
  ASSUME NEW text \in Seq(Chars), NEW lang, NEW report \in Findings(Len(text)), NEW cover,
         AllRules(text, lang) \union report \subseteq cover
  PROVE  /\ Detected(text, lang, report) \in Findings(Len(text))
         /\ Apart(Detected(text, lang, report))
         /\ \A x \in Certain(text, lang) :
              (\A y \in report : Overlap(x, y) => y.score < Sure) => x \in Detected(text, lang, report)
         /\ \A x \in AllRules(text, lang) \union report :
              \E y \in Detected(text, lang, report) : y.score >= x.score /\ Linked(x, y, cover)
<1> DEFINE n == Len(text)
           certain == Certain(text, lang)
           promoted == Promotions(report, text)
           both == certain \union promoted
<1>1. /\ n \in Nat
      /\ \A h \in AllRules(text, lang) : Spanned(h, cover)
      /\ \A h \in report : Spanned(h, cover)
  BY LenProperties, SpannedUp
<1>2. /\ certain \in Findings(n) /\ Apart(certain)
      /\ certain \subseteq AllRules(text, lang)
      /\ \A x \in AllRules(text, lang) : x.score = Sure
      /\ \A x \in AllRules(text, lang) : \E y \in certain : Linked(x, y, cover)
  BY <1>1, CertainSettles
<1>3. /\ promoted \in Findings(n)
      /\ \A h \in promoted : \E x \in report : h = Promoted(x, text)
      /\ \A x \in report : Promoted(x, text) \in promoted
  BY PromotionsFound DEF Promotions
<1>4. both \in Findings(n)
  BY <1>2, <1>3, FindingsBoth
<1>5. report \subseteq HitsIn(n) /\ certain \subseteq HitsIn(n) /\ promoted \subseteq HitsIn(n)
  BY <1>2, <1>3 DEF Findings
<1>6. \A h \in both : Spanned(h, cover)
  <2>1. \A h \in promoted : Spanned(h, cover)
    BY <1>1, <1>3, PromotedSame DEF Spanned
  <2> QED BY <1>1, <1>2, <2>1
<1>7. Detected(text, lang, report) = Merge(both)
  BY DEF Detected, Promotions
<1> HIDE DEF n, certain, promoted, both
<1>8. /\ Merge(both) \in Findings(n) /\ Merge(both) \subseteq both /\ Apart(Merge(both))
      /\ \A x \in both :
           (\A y \in both \ {x} : Overlap(x, y) => y.score < x.score) => x \in Merge(both)
      /\ \A x \in both : \E y \in Merge(both) : y.score >= x.score /\ Linked(x, y, cover)
  BY <1>1, <1>4, <1>6, MergeSettles
<1>9. ASSUME NEW x \in certain, \A y \in report : Overlap(x, y) => y.score < Sure
      PROVE  x \in Merge(both)
  <2>1. x \in both /\ x.score = Sure
    BY <1>2 DEF both
  <2>2. ASSUME NEW y \in both \ {x}, Overlap(x, y)
        PROVE  y.score < x.score
    <3>1. CASE y \in certain
      BY <1>2, <2>2, <3>1 DEF Apart
    <3>2. CASE y \in promoted
      <4>1. PICK z \in report : y = Promoted(z, text)
        BY <1>3, <3>2
      <4>2. z.start = y.start /\ z.end = y.end /\ z.score = y.score
        BY <1>5, <4>1, PromotedSame DEF n
      <4>3. Overlap(x, z)
        BY <2>2, <4>2 DEF Overlap
      <4> QED BY <1>9, <2>1, <4>2, <4>3
    <3> QED BY <3>1, <3>2 DEF both
  <2> QED BY <1>8, <2>1, <2>2
<1>10. ASSUME NEW x \in AllRules(text, lang) \union report
       PROVE  \E y \in Merge(both) : y.score >= x.score /\ Linked(x, y, cover)
  <2>1. CASE x \in AllRules(text, lang)
    <3>1. PICK z \in certain : Linked(x, z, cover)
      BY <1>2, <2>1
    <3>2. PICK y \in Merge(both) : y.score >= z.score /\ Linked(z, y, cover)
      BY <1>8 DEF both
    <3>3. z.score = Sure /\ x.score = Sure
      BY <1>2, <2>1
    <3>4. x \in HitsIn(n) /\ y \in HitsIn(n) /\ z \in HitsIn(n) /\ Spanned(z, cover)
      <4>1. AllRules(text, lang) \subseteq HitsIn(n)
        BY AllDemoFound, AllRegexFound DEF AllRules, Findings, n
      <4>2. y \in HitsIn(n)
        BY <1>8 DEF Findings
      <4> QED BY <1>1, <1>2, <1>5, <2>1, <4>1, <4>2
    <3>5. Linked(x, y, cover)
      BY <1>1, <3>1, <3>2, <3>4, LinkedTrans
    <3> QED BY <3>2, <3>3, <3>5
  <2>2. CASE x \in report
    <3> DEFINE z == Promoted(x, text)
    <3>1. z \in both /\ z.start = x.start /\ z.end = x.end /\ z.score = x.score
      BY <1>3, <1>5, <2>2, PromotedSame DEF both, n
    <3> HIDE DEF z
    <3>2. PICK y \in Merge(both) : y.score >= z.score /\ Linked(z, y, cover)
      BY <1>8, <3>1
    <3>3. Linked(x, y, cover)
      BY <3>1, <3>2 DEF Linked
    <3> QED BY <3>1, <3>2, <3>3
  <2> QED BY <2>1, <2>2
<1>11. QED
  BY <1>7, <1>8, <1>9, <1>10 DEF n, certain

\* With nothing from the analyser the rules' hits are the answer.
LEMMA DetectedNothing ==
  ASSUME NEW text \in Seq(Chars), NEW lang
  PROVE  Detected(text, lang, {}) = Certain(text, lang)
<1>1. Detected(text, lang, {}) = Merge(Certain(text, lang))
  BY DEF Detected
<1>2. Certain(text, lang) \in Findings(Len(text)) /\ Apart(Certain(text, lang))
  BY CertainSettles, SpannedUp
<1>3. QED
  BY <1>1, <1>2, LenProperties, MergeApart

-----------------------------------------------------------------------------
(* What the analyser is asked *)

\* Masking and the canonical template keep the length of a text (_mask_spans,
\* _canonicalize_ner_text).
LEMMA MaskType ==
  ASSUME NEW text \in Seq(Chars), NEW hits
  PROVE  /\ MaskSpans(text, hits) \in Seq(Chars) /\ Len(MaskSpans(text, hits)) = Len(text)
         /\ Canonical(MaskSpans(text, hits)) \in Seq(Chars)
         /\ Len(Canonical(MaskSpans(text, hits))) = Len(text)
<1> DEFINE masked == MaskSpans(text, hits)
<1>1. Len(text) \in Nat /\ DOMAIN text = 1..Len(text) /\ \A i \in 1..Len(text) : text[i] \in Chars
  BY LenProperties, ElementOfSeq
<1>2. Blank \in Chars /\ Zero \in Chars
  BY DEF Chars
<1>3. masked \in [1..Len(text) -> Chars]
  BY <1>1, <1>2 DEF MaskSpans
<1>4. masked \in Seq(Chars) /\ Len(masked) = Len(text)
  <2> HIDE DEF masked
  <2> QED BY <1>1, <1>3
<1> HIDE DEF masked
<1>5. Canonical(masked) \in [1..Len(text) -> Chars]
  BY <1>2, <1>3 DEF Canonical
<1>6. Canonical(masked) \in Seq(Chars) /\ Len(Canonical(masked)) = Len(text)
  BY <1>1, <1>5
<1>7. QED
  BY <1>4, <1>6 DEF masked

\* A template is asked for where the masked text is worth asking.
LEMMA CanonicalAsks ==
  ASSUME NEW masked \in Seq(Chars)
  PROVE  ShouldRunNer(Canonical(masked)) <=> ShouldRunNer(masked)
<1>1. DOMAIN Canonical(masked) = DOMAIN masked
  BY DEF Canonical
<1>2. \A i \in DOMAIN masked : Canonical(masked)[i] # Blank <=> masked[i] # Blank
  BY DetectionAssumption DEF Canonical
<1>3. QED
  BY <1>1, <1>2 DEF ShouldRunNer

\* What the analyser may report lies within the text.
LEMMA ReportsFound ==
  ASSUME NEW text \in Seq(Chars), NEW report \in SUBSET MayReport(text)
  PROVE  report \in Findings(Len(text))
<1> DEFINE f == [name \in NerWords |-> Hits(name, text, name.score, 3)]
<1>1. \A name \in NerWords : f[name] \in Findings(Len(text))
  <2>1. TAKE name \in NerWords
  <2>2. name.word \in Seq(Chars) \ {<<>>} /\ name.type \in Types /\ name.score \in Nat
    BY DetectionAssumption
  <2>3. Hits(name, text, name.score, 3) \in Findings(Len(text))
    BY <2>2, HitsFound
  <2> QED BY <2>3
<1>2. MayReport(text) = UNION {f[name] : name \in NerWords}
  BY DEF MayReport
<1>3. IsFiniteSet(NerWords)
  BY DetectionAssumption
<1>4. UNION {f[name] : name \in NerWords} \in Findings(Len(text))
  <2> HIDE DEF f
  <2> QED BY <1>1, <1>3, FindingsUnion
<1>5. QED
  BY <1>2, <1>4, FindingsLess

-----------------------------------------------------------------------------
(* The cells that are analysed together *)

\* Rows as the handlers read them: sequences of cells.
Sheets == Seq(Seq(Seq(Chars)))

\* The sheet of a request is made of cells of characters.
LEMMA RunType ==
  ASSUME run \in Requests
  PROVE  /\ run.rows \in Sheets /\ DOMAIN run.rows = 1..Len(run.rows) /\ Len(run.rows) \in Nat
         /\ \A r \in DOMAIN run.rows :
              /\ run.rows[r] \in Seq(Seq(Chars))
              /\ DOMAIN run.rows[r] = 1..Len(run.rows[r]) /\ Len(run.rows[r]) \in Nat
              /\ \A c \in DOMAIN run.rows[r] : run.rows[r][c] \in Seq(Chars)
<1>1. run.rows \in Sheets
  BY DetectionAssumption DEF Sheets
<1>2. DOMAIN run.rows = 1..Len(run.rows) /\ Len(run.rows) \in Nat
  BY <1>1, LenProperties DEF Sheets
<1>3. ASSUME NEW r \in DOMAIN run.rows
      PROVE  /\ run.rows[r] \in Seq(Seq(Chars))
             /\ DOMAIN run.rows[r] = 1..Len(run.rows[r]) /\ Len(run.rows[r]) \in Nat
             /\ \A c \in DOMAIN run.rows[r] : run.rows[r][c] \in Seq(Chars)
  <2>1. run.rows[r] \in Seq(Seq(Chars))
    BY <1>1, <1>2, ElementOfSeq DEF Sheets
  <2>2. DOMAIN run.rows[r] = 1..Len(run.rows[r]) /\ Len(run.rows[r]) \in Nat
    BY <2>1, LenProperties
  <2>3. ASSUME NEW c \in DOMAIN run.rows[r]
        PROVE  run.rows[r][c] \in Seq(Chars)
    BY <2>1, <2>2, ElementOfSeq
  <2> QED BY <2>1, <2>2, <2>3
<1>4. QED
  BY <1>1, <1>2, <1>3

\* Candidates takes the columns from left to right.
LEMMA CandidatesUnfolds ==
  ASSUME NEW r, IsFiniteSet(DOMAIN run.rows[r]),
         \A s \in SUBSET DOMAIN run.rows[r] : s # {} => Max(s) \in s
  PROVE  \E iter :
           /\ iter[{}] = <<>>
           /\ \A s \in SUBSET DOMAIN run.rows[r] :
                s # {} => iter[s] = IF IsCandidate(r, Max(s)) THEN Append(iter[s \ {Max(s)}], Max(s))
                                    ELSE iter[s \ {Max(s)}]
           /\ Candidates(r) = iter[DOMAIN run.rows[r]]
<1> DEFINE D == DOMAIN run.rows[r]
           T == Seq(D)
           With(c, cs) == IF IsCandidate(r, c) THEN Append(cs, c) ELSE cs
           ch == [s \in SUBSET D |-> Max(s)]
           g == [c \in D |-> [cs \in T |-> With(c, cs)]]
           last == CHOOSE iter : iter = [s \in SUBSET D |->
                     IF s = {} THEN <<>> ELSE With(Max(s), iter[s \ {Max(s)}])]
<1>1. \E iter : iter = [s \in SUBSET D |->
        IF s = {} THEN <<>> ELSE With(Max(s), iter[s \ {Max(s)}])]
  <2>1. /\ IsFiniteSet(D) /\ <<>> \in T
        /\ \A s \in SUBSET D : s # {} => ch[s] \in s
    BY EmptySeq
  <2>2. ASSUME NEW c \in D, NEW cs \in T
        PROVE  With(c, cs) \in T
    BY AppendProperties
  <2>3. g \in [D -> [T -> T]]
    <3> HIDE DEF D, T, With
    <3> QED BY <2>2
  <2>4. PICK iter \in [SUBSET D -> T] : IsFold(iter, D, <<>>, ch, g)
    <3>1. Foldable(D, T, <<>>, ch, g)
      <4> HIDE DEF D, T, ch, g
      <4> QED BY <2>1, <2>3 DEF Foldable
    <3> HIDE DEF D, T, ch, g
    <3> QED BY <3>1, FoldExists
  <2>5. iter = [s \in SUBSET D |-> IF s = {} THEN <<>> ELSE With(Max(s), iter[s \ {Max(s)}])]
    <3>1. ASSUME NEW s \in SUBSET D, s # {}
          PROVE  g[ch[s]][iter[s \ {ch[s]}]] = With(Max(s), iter[s \ {Max(s)}])
      <4>1. Max(s) \in D /\ iter[s \ {Max(s)}] \in T /\ ch[s] = Max(s)
        BY <3>1
      <4> HIDE DEF D, T, With
      <4> QED BY <4>1
    <3>2. iter = [s \in SUBSET D |-> IF s = {} THEN <<>> ELSE g[ch[s]][iter[s \ {ch[s]}]]]
      BY <2>4 DEF IsFold
    <3> HIDE DEF D, T, With, ch, g
    <3> QED BY <3>1, <3>2
  <2> HIDE DEF D, T, With, ch, g
  <2> QED BY <2>5
<1>2. last = [s \in SUBSET D |-> IF s = {} THEN <<>> ELSE With(Max(s), last[s \ {Max(s)}])]
  <2> HIDE DEF D, With
  <2> QED BY <1>1
<1>3. Candidates(r) = last[D]
  <2>1. DOMAIN [i \in D |-> i] = D
    OBVIOUS
  <2>2. \A s \in SUBSET D : s # {} => [i \in D |-> i][Max(s)] = Max(s)
    OBVIOUS
  <2> QED BY <2>1, <2>2, ZenonT(60) DEF Candidates, FoldLeftDomain, FoldLeft, MapThenFoldSet
<1>4. QED
  <2> HIDE DEF D, last
  <2>1. /\ last[{}] = <<>>
        /\ \A s \in SUBSET D : s # {} => last[s] = With(Max(s), last[s \ {Max(s)}])
    <3> HIDE DEF With
    <3> QED BY <1>2
  <2> QED BY <1>3, <2>1 DEF D

\* Each candidate is a column that was chosen, and comes once.
Distinct(cs) == \A i, j \in DOMAIN cs : cs[i] = cs[j] => i = j

\* The candidates of a row are different columns of it.
LEMMA CandidatesType ==
  ASSUME run \in Requests, NEW r \in DOMAIN run.rows
  PROVE  /\ Candidates(r) \in Seq(DOMAIN run.rows[r])
         /\ Distinct(Candidates(r))
<1> DEFINE D == DOMAIN run.rows[r]
<1>1. IsFiniteSet(D) /\ \A s \in SUBSET D : s # {} => Max(s) \in s
  <2>1. D = 1..Len(run.rows[r]) /\ Len(run.rows[r]) \in Nat
    BY RunType
  <2>2. IsFiniteSet(1..Len(run.rows[r]))
    BY <2>1, FS_Interval
  <2> HIDE DEF D
  <2> QED BY <2>1, <2>2, MaxExists
<1>2. PICK iter :
        /\ iter[{}] = <<>>
        /\ \A s \in SUBSET D :
             s # {} => iter[s] = IF IsCandidate(r, Max(s)) THEN Append(iter[s \ {Max(s)}], Max(s))
                                 ELSE iter[s \ {Max(s)}]
        /\ Candidates(r) = iter[D]
  BY <1>1, CandidatesUnfolds
<1> DEFINE Fine(s) == iter[s] \in Seq(s) /\ Distinct(iter[s])
           P == {s \in SUBSET D : Fine(s)}
<1>3. ASSUME NEW s \in SUBSET D, \A c \in s : s \ {c} \in P
      PROVE  s \in P
  <2>1. CASE s = {}
    <3> DEFINE none == iter[s]
    <3>1. none = <<>>
      BY <1>2, <2>1
    <3> HIDE DEF none
    <3>2. none \in Seq(s) /\ DOMAIN none = {}
      BY <3>1
    <3>3. Distinct(none)
      BY <3>2 DEF Distinct
    <3> QED BY <3>2, <3>3 DEF none
  <2>2. CASE s # {}
    <3> DEFINE m == Max(s)
               t == s \ {m}
               cs == iter[t]
    <3>1. m \in s
      BY <1>1, <2>2
    <3>2. cs \in Seq(t) /\ Distinct(cs)
      BY <1>3, <3>1
    <3>3. iter[s] = IF IsCandidate(r, m) THEN Append(cs, m) ELSE cs
      BY <1>2, <2>2
    <3>4. t \subseteq s /\ m \notin t
      OBVIOUS
    <3> HIDE DEF m, t, cs
    <3>5. cs \in Seq(s)
      BY <3>2, <3>4, SeqMonotonic
    <3>6. CASE ~IsCandidate(r, m)
      BY <3>2, <3>3, <3>5, <3>6
    <3>7. CASE IsCandidate(r, m)
      <4>1. iter[s] = Append(cs, m)
        BY <3>3, <3>7
      <4>2. /\ Append(cs, m) \in Seq(s) /\ Len(Append(cs, m)) = Len(cs) + 1 /\ Len(cs) \in Nat
            /\ \A i \in 1..Len(cs) : Append(cs, m)[i] = cs[i]
            /\ Append(cs, m)[Len(cs) + 1] = m
        BY <3>1, <3>5, AppendProperties, LenProperties
      <4>3. /\ \A i \in 1..Len(cs) : cs[i] \in t
            /\ DOMAIN cs = 1..Len(cs)
        BY <3>2, ElementOfSeq, LenProperties
      <4>4. DOMAIN Append(cs, m) = 1..(Len(cs) + 1)
        BY <4>2, LenProperties
      <4> DEFINE new == Append(cs, m)
      <4> HIDE DEF new
      <4>5. ASSUME NEW i \in 1..(Len(cs) + 1), NEW j \in 1..(Len(cs) + 1), new[i] = new[j]
            PROVE  i = j
        <5>1. \A k \in 1..(Len(cs) + 1) : k # Len(cs) + 1 => k \in 1..Len(cs) /\ new[k] = cs[k]
          BY <4>2 DEF new
        <5>2. new[Len(cs) + 1] = m
          BY <4>2 DEF new
        <5>3. i # Len(cs) + 1 => new[i] \in t
          BY <4>3, <5>1
        <5>4. j # Len(cs) + 1 => new[j] \in t
          BY <4>3, <5>1
        <5>5. CASE i = Len(cs) + 1 \/ j = Len(cs) + 1
          BY <3>4, <4>5, <5>2, <5>3, <5>4, <5>5
        <5>6. CASE i # Len(cs) + 1 /\ j # Len(cs) + 1
          BY <3>2, <4>3, <4>5, <5>1, <5>6 DEF Distinct
        <5> QED BY <5>5, <5>6
      <4>6. Distinct(new)
        BY <4>4, <4>5 DEF Distinct, new
      <4> QED BY <4>1, <4>2, <4>6 DEF new
    <3> QED BY <3>6, <3>7
  <2> QED BY <2>1, <2>2
<1>4. SUBSET D \subseteq P
  <2>1. \A s \in SUBSET D : (\A c \in s : s \ {c} \in P) => s \in P
    BY <1>3
  <2> HIDE DEF P, D
  <2> QED BY ONLY <1>1, <2>1, SetInduction
<1>5. Fine(D)
  <2>1. D \in SUBSET D
    OBVIOUS
  <2> HIDE DEF D, Fine
  <2> QED BY <1>4, <2>1
<1>6. QED
  BY <1>2, <1>5

\* The units of the sheet.
UnitsIn(r) ==
  {u \in [row : {r}, cells : Seq(DOMAIN run.rows[r])] : u.cells # <<>> /\ Distinct(u.cells)}
AllUnits == UNION {UnitsIn(r) : r \in DOMAIN run.rows}

\* A sequence of one element.
LEMMA OneLong ==
  ASSUME NEW S, NEW e \in S
  PROVE  <<e>> \in Seq(S) /\ DOMAIN <<e>> = {1} /\ <<e>>[1] = e /\ <<e>> # <<>>
OBVIOUS

\* The units of a row are made of its columns and share none.
LEMMA UnitsOfRow ==
  ASSUME run \in Requests, NEW r \in DOMAIN run.rows
  PROVE  /\ UnitsOf(r) \in Seq(UnitsIn(r))
         /\ \A u, v \in ToSet(UnitsOf(r)) :
              ToSet(u.cells) \intersect ToSet(v.cells) # {} => u = v
<1> DEFINE cs == Candidates(r)
<1>1. cs \in Seq(DOMAIN run.rows[r]) /\ Distinct(cs) /\ Len(cs) \in Nat
      /\ DOMAIN cs = 1..Len(cs)
  BY CandidatesType, LenProperties
<1>2. CASE run.kind = "docx"
  <2> DEFINE unit(i) == [row |-> r, cells |-> <<cs[i]>>]
  <2>1. UnitsOf(r) = [i \in DOMAIN cs |-> unit(i)]
    BY <1>2 DEF UnitsOf
  <2>2. ASSUME NEW i \in DOMAIN cs
        PROVE  unit(i) \in UnitsIn(r) /\ ToSet(unit(i).cells) = {cs[i]}
    <3>1. cs[i] \in DOMAIN run.rows[r]
      BY <1>1, ElementOfSeq
    <3> DEFINE one == <<cs[i]>>
    <3>2. one \in Seq(DOMAIN run.rows[r]) /\ DOMAIN one = {1} /\ one[1] = cs[i] /\ one # <<>>
      BY <3>1, OneLong
    <3> HIDE DEF one, cs
    <3>3. [row |-> r, cells |-> one] \in UnitsIn(r)
      BY <3>2 DEF UnitsIn, Distinct
    <3>4. ToSet(one) = {cs[i]}
      BY <3>2 DEF ToSet
    <3> QED BY <3>3, <3>4 DEF one
  <2>3. UnitsOf(r) \in Seq(UnitsIn(r))
    <3> HIDE DEF unit, cs
    <3> QED BY <1>1, <2>1, <2>2
  <2>4. ASSUME NEW u \in ToSet(UnitsOf(r)), NEW v \in ToSet(UnitsOf(r)),
               ToSet(u.cells) \intersect ToSet(v.cells) # {}
        PROVE  u = v
    <3>1. PICK i \in DOMAIN cs : u = unit(i)
      BY <2>1 DEF ToSet
    <3>2. PICK j \in DOMAIN cs : v = unit(j)
      BY <2>1 DEF ToSet
    <3>3. cs[i] = cs[j]
      <4> HIDE DEF unit, cs
      <4> QED BY <2>2, <2>4, <3>1, <3>2
    <3> QED BY <3>1, <3>2, <3>3
  <2> QED BY <2>3, <2>4
<1>3. CASE run.kind # "docx" /\ cs = <<>>
  <2>1. UnitsOf(r) = <<>>
    BY <1>3 DEF UnitsOf
  <2> QED BY <2>1, EmptySeq DEF ToSet
<1>4. CASE run.kind # "docx" /\ cs # <<>>
  <2> DEFINE unit == [row |-> r, cells |-> cs]
             one == <<unit>>
  <2>1. UnitsOf(r) = one
    BY <1>4 DEF UnitsOf
  <2>2. unit \in UnitsIn(r)
    BY <1>1, <1>4 DEF UnitsIn
  <2> HIDE DEF unit
  <2>3. one \in Seq(UnitsIn(r)) /\ DOMAIN one = {1} /\ one[1] = unit
    BY <2>2
  <2> HIDE DEF one
  <2> QED BY <2>1, <2>3 DEF ToSet
<1>5. QED
  BY <1>2, <1>3, <1>4

-----------------------------------------------------------------------------
(* The joined text and the way back *)

\* What the i-th cell adds to the joined text.
Added(u, i) == IF i = 1 THEN Value(u, i) ELSE <<Delim>> \o Value(u, i)

\* What a cell adds to the joined text: its characters, after a delimiter unless
\* it is the first.
LEMMA ValueType ==
  ASSUME run \in Requests, NEW u \in AllUnits
  PROVE  /\ u.row \in DOMAIN run.rows /\ Len(u.cells) \in Nat /\ DOMAIN u.cells = 1..Len(u.cells)
         /\ \A i \in DOMAIN u.cells :
              /\ u.cells[i] \in DOMAIN run.rows[u.row]
              /\ Value(u, i) \in Seq(Chars) /\ Len(Value(u, i)) \in Nat
              /\ Added(u, i) \in Seq(Chars)
              /\ Len(Added(u, i)) = Len(Value(u, i)) + (IF i = 1 THEN 0 ELSE 1)
              /\ \A j \in 1..Len(Value(u, i)) :
                   Added(u, i)[j + (IF i = 1 THEN 0 ELSE 1)] = Value(u, i)[j]
<1>1. PICK r \in DOMAIN run.rows : u \in UnitsIn(r)
  BY DEF AllUnits
<1>2. u.row = r /\ u.cells \in Seq(DOMAIN run.rows[r])
  BY <1>1 DEF UnitsIn
<1>3. Len(u.cells) \in Nat /\ DOMAIN u.cells = 1..Len(u.cells)
  BY <1>2, LenProperties
<1>4. ASSUME NEW i \in DOMAIN u.cells
      PROVE  /\ u.cells[i] \in DOMAIN run.rows[u.row]
             /\ Value(u, i) \in Seq(Chars) /\ Len(Value(u, i)) \in Nat
             /\ Added(u, i) \in Seq(Chars)
             /\ Len(Added(u, i)) = Len(Value(u, i)) + (IF i = 1 THEN 0 ELSE 1)
             /\ \A j \in 1..Len(Value(u, i)) :
                  Added(u, i)[j + (IF i = 1 THEN 0 ELSE 1)] = Value(u, i)[j]
  <2>1. u.cells[i] \in DOMAIN run.rows[u.row]
    BY <1>2, <1>3, ElementOfSeq
  <2>2. Value(u, i) \in Seq(Chars)
    BY <1>2, <2>1, RunType DEF Value
  <2>3. Len(Value(u, i)) \in Nat
    BY <2>2, LenProperties
  <2> DEFINE v == Value(u, i)
             one == <<Delim>>
  <2>4. one \in Seq(Chars) /\ Len(one) = 1
    BY OneLong DEF Chars
  <2>5. v \in Seq(Chars) /\ Len(v) \in Nat
    BY <2>2, <2>3
  <2> HIDE DEF v, one
  <2>6. /\ one \o v \in Seq(Chars) /\ Len(one \o v) = 1 + Len(v)
        /\ \A j \in 1..(1 + Len(v)) : (one \o v)[j] = IF j <= 1 THEN one[j] ELSE v[j - 1]
    <3>1. /\ one \o v \in Seq(Chars) /\ Len(one \o v) = Len(one) + Len(v)
          /\ \A j \in 1..Len(one) + Len(v) :
               (one \o v)[j] = IF j <= Len(one) THEN one[j] ELSE v[j - Len(one)]
      BY <2>4, <2>5, ConcatProperties
    <3> QED BY <2>4, <3>1
  <2>7. Added(u, i) = IF i = 1 THEN v ELSE one \o v
    BY DEF Added, v, one
  <2>8. \A j \in 1..Len(v) : (one \o v)[j + 1] = v[j]
    <3>1. TAKE j \in 1..Len(v)
    <3>2. \A k \in 1..(1 + Len(v)) : k = j + 1 => (one \o v)[k] = v[j]
      <4>1. TAKE k \in 1..(1 + Len(v))
      <4>2. HAVE k = j + 1
      <4>3. ~(k <= 1) /\ k - 1 = j
        BY <4>2
      <4> QED BY <2>6, <4>3
    <3>3. j + 1 \in 1..(1 + Len(v))
      BY <2>5
    <3> QED BY <3>2, <3>3
  <2>9. CASE i = 1
    <3>1. \A j \in 1..Len(v) : j + 0 = j
      BY <2>5
    <3> QED BY <2>1, <2>5, <2>7, <2>9, <3>1 DEF v
  <2>10. CASE i # 1
    <3>1. Len(one \o v) = Len(v) + 1
      BY <2>5, <2>6
    <3> QED BY <2>1, <2>5, <2>6, <2>7, <2>8, <2>10, <3>1 DEF v
  <2> QED BY <2>9, <2>10
<1>5. QED
  BY <1>2, <1>3, <1>4

\* The text of one cell more is joined at the end.
LEMMA JoinedGrows ==
  ASSUME run \in Requests, NEW u \in AllUnits, NEW n \in Nat, n + 1 \in DOMAIN u.cells
  PROVE  /\ JoinedUpTo(u, n) \in Seq(Chars)
         /\ JoinedUpTo(u, n + 1) = JoinedUpTo(u, n) \o Added(u, n + 1)
<1> DEFINE s == [i \in 1..n |-> Added(u, i)]
           t == [i \in 1..(n + 1) |-> Added(u, i)]
           e == Added(u, n + 1)
<1>1. JoinedUpTo(u, n) = FlattenSeq(s) /\ JoinedUpTo(u, n + 1) = FlattenSeq(t)
  BY DEF JoinedUpTo, Added
<1>2. \A i \in 1..(n + 1) : i \in DOMAIN u.cells
  BY ValueType
<1>3. \A i \in 1..(n + 1) : Added(u, i) \in Seq(Chars)
  BY <1>2, ValueType
<1>4. s \in Seq(Seq(Chars)) /\ Len(s) = n /\ t \in Seq(Seq(Chars)) /\ Len(t) = n + 1
  BY <1>3
<1>5. e \in Seq(Chars)
  BY <1>3
<1>6. \A i \in 1..n : s[i] = t[i]
  OBVIOUS
<1>7. t[n + 1] = e
  OBVIOUS
<1> HIDE DEF s, t, e
<1>8. /\ Append(s, e) \in Seq(Seq(Chars)) /\ Len(Append(s, e)) = n + 1
      /\ \A i \in 1..n : Append(s, e)[i] = s[i]
      /\ Append(s, e)[n + 1] = e
  BY <1>4, <1>5, AppendProperties
<1>9. t = Append(s, e)
  <2>1. \A i \in 1..(n + 1) : t[i] = Append(s, e)[i]
    <3>1. \A i \in 1..(n + 1) : i \in 1..n \/ i = n + 1
      OBVIOUS
    <3> QED BY <1>6, <1>7, <1>8, <3>1
  <2> QED BY <1>4, <1>8, <2>1, SeqEqual
<1>10. FlattenSeq(t) = FlattenSeq(s) \o e
  BY <1>4, <1>5, <1>9, FlattenAppend
<1>11. FlattenSeq(s) \in Seq(Chars)
  BY <1>4, FlattenType
<1>12. QED
  BY <1>1, <1>10, <1>11 DEF e

\* What is joined later leaves what was joined before where it is.
LEMMA JoinedKept ==
  ASSUME run \in Requests, NEW u \in AllUnits, NEW n \in 1..Len(u.cells)
  PROVE  /\ Text(u) \in Seq(Chars) /\ JoinedUpTo(u, n) \in Seq(Chars)
         /\ Len(JoinedUpTo(u, n)) <= Len(Text(u))
         /\ \A j \in 1..Len(JoinedUpTo(u, n)) : Text(u)[j] = JoinedUpTo(u, n)[j]
<1> DEFINE J(m) == JoinedUpTo(u, m)
           Fine(m) == /\ J(m) \in Seq(Chars) /\ J(n) \in Seq(Chars) /\ Len(J(n)) <= Len(J(m))
                      /\ \A j \in 1..Len(J(n)) : J(m)[j] = J(n)[j]
           P == {k \in Nat : n + k \in 1..Len(u.cells) => Fine(n + k)}
<1>1. Len(u.cells) \in Nat /\ DOMAIN u.cells = 1..Len(u.cells)
  BY ValueType
<1>2. J(n) \in Seq(Chars)
  <2>1. n - 1 \in Nat /\ (n - 1) + 1 = n
    BY <1>1
  <2>2. J(n - 1) \in Seq(Chars) /\ J((n - 1) + 1) = J(n - 1) \o Added(u, (n - 1) + 1)
    <3> HIDE DEF J
    <3>1. (n - 1) + 1 \in DOMAIN u.cells
      BY <1>1, <2>1
    <3>2. \A m \in Nat : m + 1 \in DOMAIN u.cells =>
            /\ JoinedUpTo(u, m) \in Seq(Chars)
            /\ JoinedUpTo(u, m + 1) = JoinedUpTo(u, m) \o Added(u, m + 1)
      BY JoinedGrows
    <3> QED BY <2>1, <3>1, <3>2 DEF J
  <2>3. J(n) = J(n - 1) \o Added(u, n)
    BY <2>1, <2>2
  <2>4. Added(u, n) \in Seq(Chars)
    BY <1>1, ValueType
  <2> HIDE DEF J
  <2> QED BY <2>2, <2>3, <2>4, ConcatProperties
<1>3. 0 \in P
  <2>1. n + 0 = n /\ Len(J(n)) \in Nat
    BY <1>2, LenProperties
  <2>2. Fine(n)
    BY <1>2, <2>1
  <2> HIDE DEF Fine
  <2> QED BY <2>1, <2>2
<1>4. ASSUME NEW k \in Nat, k \in P
      PROVE  k + 1 \in P
  <2>1. SUFFICES ASSUME n + (k + 1) \in 1..Len(u.cells)
                 PROVE  Fine(n + (k + 1))
    OBVIOUS
  <2> DEFINE m == n + k
             e == Added(u, m + 1)
  <2>2. n + (k + 1) = m + 1 /\ m \in Nat /\ m \in 1..Len(u.cells)
    BY <1>1, <2>1
  <2>3. Fine(m)
    BY <1>4, <2>2
  <2>4. J(m + 1) = J(m) \o e
    BY <1>1, <2>1, <2>2, JoinedGrows
  <2>5. e \in Seq(Chars)
    BY <1>1, <2>1, <2>2, ValueType
  <2> HIDE DEF m, e, J
  <2>6. /\ J(m) \o e \in Seq(Chars) /\ Len(J(m) \o e) = Len(J(m)) + Len(e)
        /\ Len(J(m)) \in Nat /\ Len(e) \in Nat /\ Len(J(n)) \in Nat
        /\ \A j \in 1..Len(J(m)) + Len(e) :
             (J(m) \o e)[j] = IF j <= Len(J(m)) THEN J(m)[j] ELSE e[j - Len(J(m))]
    BY <2>3, <2>5, ConcatProperties, LenProperties
  <2>7. Len(J(n)) <= Len(J(m + 1))
    BY <2>3, <2>4, <2>6
  <2>8. ASSUME NEW j \in 1..Len(J(n))
        PROVE  J(m + 1)[j] = J(n)[j]
    <3>1. j \in 1..Len(J(m)) + Len(e) /\ j <= Len(J(m))
      BY <2>3, <2>6
    <3>2. (J(m) \o e)[j] = J(m)[j]
      BY <2>6, <3>1
    <3> QED BY <2>3, <2>4, <3>2
  <2>9. Fine(m + 1)
    BY <2>3, <2>4, <2>6, <2>7, <2>8
  <2> QED BY <2>2, <2>9
<1>5. Nat \subseteq P
  <2> HIDE DEF P
  <2> QED BY <1>3, <1>4, NumberInduction
<1>6. Fine(Len(u.cells))
  <2> DEFINE k == Len(u.cells) - n
  <2>1. k \in Nat /\ n + k = Len(u.cells) /\ n + k \in 1..Len(u.cells)
    BY <1>1
  <2> HIDE DEF k, Fine
  <2>2. k \in P
    BY <1>5, <2>1
  <2> QED BY <2>1, <2>2
<1>7. QED
  BY <1>6 DEF Text

\* The cell's characters are where Offset says.
LEMMA Placed ==
  ASSUME run \in Requests, NEW u \in AllUnits, NEW i \in DOMAIN u.cells
  PROVE  /\ Text(u) \in Seq(Chars) /\ Len(Text(u)) \in Nat
         /\ Offset(u, i) \in Nat /\ Offset(u, i) + Len(Value(u, i)) <= Len(Text(u))
         /\ \A j \in 1..Len(Value(u, i)) : Text(u)[Offset(u, i) + j] = Value(u, i)[j]
<1> DEFINE J == JoinedUpTo(u, i - 1)
           K == JoinedUpTo(u, i)
           v == Value(u, i)
           e == Added(u, i)
           d == IF i = 1 THEN 0 ELSE 1
           T == Text(u)
<1>1. Len(u.cells) \in Nat /\ i \in 1..Len(u.cells) /\ i - 1 \in Nat /\ (i - 1) + 1 = i
  BY ValueType
<1>2. /\ v \in Seq(Chars) /\ Len(v) \in Nat /\ e \in Seq(Chars) /\ Len(e) = Len(v) + d
      /\ \A j \in 1..Len(v) : e[j + d] = v[j]
  BY ValueType
<1>3. J \in Seq(Chars) /\ K = J \o e
  <2>1. \A m \in Nat : m + 1 \in DOMAIN u.cells =>
            /\ JoinedUpTo(u, m) \in Seq(Chars)
            /\ JoinedUpTo(u, m + 1) = JoinedUpTo(u, m) \o Added(u, m + 1)
    BY JoinedGrows
  <2>2. (i - 1) + 1 \in DOMAIN u.cells
    BY <1>1
  <2>3. JoinedUpTo(u, i - 1) \in Seq(Chars)
        /\ JoinedUpTo(u, (i - 1) + 1) = JoinedUpTo(u, i - 1) \o Added(u, (i - 1) + 1)
    BY <1>1, <2>1, <2>2
  <2> QED BY <1>1, <2>3
<1>4. T \in Seq(Chars) /\ Len(K) <= Len(T) /\ \A j \in 1..Len(K) : T[j] = K[j]
  BY <1>1, JoinedKept
<1>5. d \in {0, 1} /\ Offset(u, i) = Len(K) - Len(v)
  BY DEF Offset
<1> HIDE DEF J, K, v, e, d, T
<1>6. /\ Len(K) = Len(J) + Len(e) /\ Len(J) \in Nat /\ Len(T) \in Nat
      /\ \A j \in 1..Len(J) + Len(e) : K[j] = IF j <= Len(J) THEN J[j] ELSE e[j - Len(J)]
  <2>1. J \in Seq(Chars) /\ e \in Seq(Chars) /\ T \in Seq(Chars)
    BY <1>2, <1>3, <1>4
  <2>2. Len(J) \in Nat /\ Len(T) \in Nat
    BY ONLY <2>1, LenProperties
  <2>3. /\ Len(J \o e) = Len(J) + Len(e)
        /\ \A j \in 1..Len(J) + Len(e) : (J \o e)[j] = IF j <= Len(J) THEN J[j] ELSE e[j - Len(J)]
    BY ONLY <2>1, ConcatProperties
  <2>4. K = J \o e
    BY <1>3
  <2> QED BY ONLY <2>2, <2>3, <2>4
<1>7. Offset(u, i) = Len(J) + d
  BY <1>2, <1>5, <1>6
<1>8. ASSUME NEW j \in 1..Len(v)
      PROVE  T[Offset(u, i) + j] = v[j]
  <2> DEFINE k == Len(J) + d + j
  <2>1. /\ k \in 1..Len(K) /\ k \in 1..Len(J) + Len(e) /\ ~(k <= Len(J)) /\ k - Len(J) = j + d
        /\ k = Offset(u, i) + j
    BY <1>2, <1>5, <1>6, <1>7
  <2> HIDE DEF k
  <2>2. T[k] = K[k]
    BY <1>4, <2>1
  <2>3. K[k] = e[j + d]
    BY <1>6, <2>1
  <2> QED BY <1>2, <2>1, <2>2, <2>3
<1>9. Offset(u, i) \in Nat /\ Offset(u, i) + Len(v) <= Len(T)
  BY <1>2, <1>4, <1>5, <1>6, <1>7
<1>10. QED
  BY <1>4, <1>6, <1>8, <1>9 DEF v, T

\* A hit of the joined text, seen from the i-th cell.
Local(u, i, x) == [x EXCEPT !.start = @ - Offset(u, i), !.end = @ - Offset(u, i)]
Inside(u, hits, i) ==
  {x \in hits : x.start > Offset(u, i) /\ x.end - 1 <= Offset(u, i) + Len(Value(u, i))}

\* The hits of a cell are those inside it, in its own positions.
LEMMA SplitIs ==
  ASSUME NEW u, NEW hits, NEW i
  PROVE  Split(u, hits, i) = {Local(u, i, x) : x \in Inside(u, hits, i)}
BY DEF Split, Local, Inside

\* A hit inside a cell lies within the cell's characters and covers the same
\* ones there (_detect_entities_for_xlsx_row, _detect_entities_for_csv_rows).
LEMMA LocalType ==
  ASSUME run \in Requests, NEW u \in AllUnits, NEW i \in DOMAIN u.cells,
         NEW hits \in SUBSET HitsIn(Len(Text(u))), NEW x \in Inside(u, hits, i)
  PROVE  /\ Local(u, i, x) \in HitsIn(Len(Value(u, i)))
         /\ Local(u, i, x).start = x.start - Offset(u, i)
         /\ Local(u, i, x).end = x.end - Offset(u, i)
         /\ Local(u, i, x).type = x.type
         /\ Cut(Value(u, i), Local(u, i, x)) = Cut(Text(u), x)
<1> DEFINE o == Offset(u, i)
           v == Value(u, i)
           T == Text(u)
           y == Local(u, i, x)
<1>1. /\ T \in Seq(Chars) /\ Len(T) \in Nat /\ o \in Nat /\ o + Len(v) <= Len(T)
      /\ \A j \in 1..Len(v) : T[o + j] = v[j]
  BY Placed
<1>2. v \in Seq(Chars) /\ Len(v) \in Nat
  BY ValueType
<1>3. x \in HitsIn(Len(T)) /\ x.start > o /\ x.end - 1 <= o + Len(v)
  BY DEF Inside
<1>4. y = [x EXCEPT !.start = @ - o, !.end = @ - o]
  BY DEF Local
<1> HIDE DEF o, v, T, y
<1>5. /\ x \in [start : Nat, end : Nat, type : Types, score : Nat, by : Nat]
      /\ 1 <= x.start /\ x.start < x.end
      /\ x.start \in Nat /\ x.end \in Nat
  BY <1>3 DEF HitsIn
<1>6. y.start = x.start - o /\ y.end = x.end - o /\ y.type = x.type
  BY <1>4, <1>5
<1>7. /\ x.start - o \in Nat /\ x.end - o \in Nat /\ 1 <= x.start - o /\ x.start - o < x.end - o
      /\ x.end - o <= Len(v) + 1
  BY <1>1, <1>2, <1>3, <1>5
<1>8. y \in [start : Nat, end : Nat, type : Types, score : Nat, by : Nat]
  BY <1>4, <1>5, <1>7
<1>9. y \in HitsIn(Len(v))
  BY <1>6, <1>7, <1>8 DEF HitsIn
<1>10. Cut(v, y) = Cut(T, x)
  <2> DEFINE a == SubSeq(v, x.start - o, x.end - o - 1)
             b == SubSeq(T, x.start, x.end - 1)
  <2>1. Cut(v, y) = a /\ Cut(T, x) = b
    BY <1>6 DEF Cut
  <2>2. /\ \A j \in (x.start - o)..(x.end - o - 1) : v[j] \in Chars
        /\ \A j \in x.start..(x.end - 1) : T[j] \in Chars
    <3>1. \A j \in (x.start - o)..(x.end - o - 1) : j \in 1..Len(v)
      BY <1>2, <1>7
    <3>2. \A j \in x.start..(x.end - 1) : j \in 1..Len(T)
      BY <1>1, <1>2, <1>3, <1>5
    <3> QED BY <1>1, <1>2, <3>1, <3>2, ElementOfSeq
  <2> DEFINE l == x.end - x.start
  <2>3. /\ a \in Seq(Chars) /\ Len(a) = l
        /\ \A j \in 1..l : a[j] = v[(x.start - o) + j - 1]
    <3> DEFINE m == x.start - o
               n == x.end - o - 1
    <3>1. m \in Int /\ n \in Int /\ m <= n /\ n - m + 1 = l
      <4>1. o \in Nat /\ x.start \in Nat /\ x.end \in Nat /\ x.start < x.end
        BY <1>1, <1>5
      <4> QED BY ONLY <4>1
    <3>2. /\ SubSeq(v, m, n) \in Seq(Chars)
          /\ Len(SubSeq(v, m, n)) = IF m <= n THEN n - m + 1 ELSE 0
          /\ \A j \in 1..n - m + 1 : SubSeq(v, m, n)[j] = v[m + j - 1]
      <4>1. \A j \in m..n : v[j] \in Chars
        BY <2>2
      <4> HIDE DEF m, n, a, b, l
      <4> QED BY <3>1, <4>1, SubSeqProperties
    <3>3. a = SubSeq(v, m, n)
      OBVIOUS
    <3> HIDE DEF a, b, l, n
    <3> QED BY <3>1, <3>2, <3>3
  <2>4. /\ b \in Seq(Chars) /\ Len(b) = l
        /\ \A j \in 1..l : b[j] = T[x.start + j - 1]
    <3> DEFINE n == x.end - 1
    <3>1. n \in Int /\ x.start <= n /\ n - x.start + 1 = l
      BY <1>5
    <3>2. /\ SubSeq(T, x.start, n) \in Seq(Chars)
          /\ Len(SubSeq(T, x.start, n)) = IF x.start <= n THEN n - x.start + 1 ELSE 0
          /\ \A j \in 1..n - x.start + 1 : SubSeq(T, x.start, n)[j] = T[x.start + j - 1]
      <4>1. \A j \in x.start..n : T[j] \in Chars
        BY <2>2
      <4>2. x.start \in Int
        BY <1>5
      <4> HIDE DEF n, a, b, l
      <4> QED BY <3>1, <4>1, <4>2, SubSeqProperties
    <3>3. b = SubSeq(T, x.start, n)
      OBVIOUS
    <3> HIDE DEF a, b, l, n
    <3> QED BY <3>1, <3>2, <3>3
  <2>5. ASSUME NEW j \in 1..l
        PROVE  a[j] = b[j]
    <3> DEFINE k == (x.start - o) + j - 1
    <3>1. k \in 1..Len(v) /\ o + k = x.start + j - 1
      <4> DEFINE start == x.start
                 end == x.end
                 n == Len(v)
      <4>1. /\ start \in Nat /\ end \in Nat /\ o \in Nat /\ n \in Nat /\ j \in Nat
            /\ 1 <= j /\ j <= end - start /\ 1 <= start - o /\ end - o <= n + 1
        BY <1>1, <1>2, <1>5, <1>7
      <4>2. k = (start - o) + j - 1
        OBVIOUS
      <4> HIDE DEF start, end, n, k
      <4>3. k \in 1..n /\ o + k = start + j - 1
        BY ONLY <4>1, <4>2
      <4> QED BY <4>3 DEF start, n
    <3>2. a[j] = v[k] /\ b[j] = T[x.start + j - 1]
      <4> HIDE DEF a, b, l
      <4> QED BY <2>3, <2>4
    <3> HIDE DEF a, b, l, k
    <3> QED BY <1>1, <3>1, <3>2
  <2> HIDE DEF a, b, l
  <2> QED BY <2>1, <2>3, <2>4, <2>5, SeqEqual
<1>11. QED
  BY <1>6, <1>9, <1>10 DEF o, v, T, y

\* What is left for a cell is found in its own characters, and apart.
LEMMA SplitFinds ==
  ASSUME run \in Requests, NEW u \in AllUnits, NEW i \in DOMAIN u.cells,
         NEW hits \in Findings(Len(Text(u))), Apart(hits)
  PROVE  Split(u, hits, i) \in Findings(Len(Value(u, i))) /\ Apart(Split(u, hits, i))
<1> DEFINE S == Inside(u, hits, i)
           T == Split(u, hits, i)
           f == [x \in S |-> Local(u, i, x)]
<1>0. hits \in SUBSET HitsIn(Len(Text(u))) /\ S \subseteq hits /\ IsFiniteSet(hits)
  BY DEF Findings, Inside
<1>1. \A x \in S : Local(u, i, x) \in HitsIn(Len(Value(u, i)))
  BY <1>0, LocalType
<1>2. IsFiniteSet(T)
  <2>1. f \in [S -> T] /\ \A t \in T : \E x \in S : f[x] = t
    BY SplitIs
  <2>2. IsFiniteSet(S)
    BY <1>0, FS_Subset
  <2> HIDE DEF f, S, T
  <2> QED BY <2>1, <2>2, ImageFinite
<1>3. ASSUME NEW x \in S, NEW y \in S, Overlap(Local(u, i, x), Local(u, i, y))
      PROVE  x = y
  <2>1. /\ x \in HitsIn(Len(Text(u))) /\ y \in HitsIn(Len(Text(u))) /\ Offset(u, i) \in Nat
    BY <1>0, Placed
  <2>2. /\ Local(u, i, x).start = x.start - Offset(u, i)
        /\ Local(u, i, x).end = x.end - Offset(u, i)
        /\ Local(u, i, y).start = y.start - Offset(u, i)
        /\ Local(u, i, y).end = y.end - Offset(u, i)
    BY <1>0, LocalType
  <2>3. x.start \in Nat /\ x.end \in Nat /\ y.start \in Nat /\ y.end \in Nat
    BY <2>1 DEF HitsIn
  <2>4. x.start < y.end /\ y.start < x.end
    <3>1. x.start - Offset(u, i) < y.end - Offset(u, i) /\ y.start - Offset(u, i) < x.end - Offset(u, i)
      BY <1>3, <2>2 DEF Overlap
    <3> QED BY <2>1, <2>3, <3>1
  <2> QED BY <1>0, <2>4 DEF Apart, Overlap
<1>4. Apart(T)
  BY <1>3, SplitIs DEF Apart
<1>5. T \subseteq HitsIn(Len(Value(u, i)))
  BY <1>1, SplitIs
<1>6. QED
  BY <1>2, <1>4, <1>5 DEF Findings

-----------------------------------------------------------------------------
(* Pieces *)

Pieces == [type : Types, text : Seq(Chars)]
TextsOf(pieces) == [i \in DOMAIN pieces |-> pieces[i].text]

\* What the pieces of a cell restore to is text.
LEMMA TextsType ==
  ASSUME NEW p \in Seq(Pieces)
  PROVE  /\ TextsOf(p) \in Seq(Seq(Chars)) /\ Len(TextsOf(p)) = Len(p) /\ Len(p) \in Nat
         /\ \A i \in 1..Len(p) : p[i] \in Pieces /\ TextsOf(p)[i] = p[i].text
         /\ TextOf(p) = FlattenSeq(TextsOf(p))
         /\ TextOf(p) \in Seq(Chars)
<1>1. Len(p) \in Nat /\ DOMAIN p = 1..Len(p) /\ \A i \in 1..Len(p) : p[i] \in Pieces
  BY LenProperties, ElementOfSeq
<1>2. \A i \in 1..Len(p) : TextsOf(p)[i] = p[i].text /\ p[i].text \in Seq(Chars)
  BY <1>1 DEF TextsOf, Pieces
<1>3. TextsOf(p) \in Seq(Seq(Chars)) /\ Len(TextsOf(p)) = Len(p)
  <2> DEFINE q == TextsOf(p)
  <2>1. q = [i \in 1..Len(p) |-> q[i]]
    BY <1>1 DEF TextsOf
  <2>2. \A i \in 1..Len(p) : q[i] \in Seq(Chars)
    BY <1>2
  <2> HIDE DEF q
  <2>3. q \in Seq(Seq(Chars)) /\ Len(q) = Len(p)
    BY <1>1, <2>1, <2>2
  <2> QED BY <2>3 DEF q
<1>4. TextOf(p) = FlattenSeq(TextsOf(p))
  BY DEF TextOf, TextsOf
<1>5. QED
  BY <1>1, <1>2, <1>3, <1>4, FlattenType

\* Restoring a concatenation restores its parts.
LEMMA RestoreConcat ==
  ASSUME NEW p \in Seq(Pieces), NEW q \in Seq(Pieces)
  PROVE  TextOf(p \o q) = TextOf(p) \o TextOf(q)
<1> DEFINE a == TextsOf(p)
           b == TextsOf(q)
           c == TextsOf(p \o q)
<1>1. /\ p \o q \in Seq(Pieces) /\ Len(p \o q) = Len(p) + Len(q)
      /\ \A i \in 1..Len(p) + Len(q) : (p \o q)[i] = IF i <= Len(p) THEN p[i] ELSE q[i - Len(p)]
  BY ConcatProperties
<1>2. /\ a \in Seq(Seq(Chars)) /\ Len(a) = Len(p) /\ Len(p) \in Nat
      /\ \A i \in 1..Len(p) : a[i] = p[i].text
  BY TextsType
<1>3. /\ b \in Seq(Seq(Chars)) /\ Len(b) = Len(q) /\ Len(q) \in Nat
      /\ \A i \in 1..Len(q) : b[i] = q[i].text
  BY TextsType
<1>4. /\ c \in Seq(Seq(Chars)) /\ Len(c) = Len(p) + Len(q)
      /\ \A i \in 1..Len(p) + Len(q) : c[i] = (p \o q)[i].text
  BY <1>1, TextsType
<1>5. /\ TextOf(p \o q) = FlattenSeq(c) /\ TextOf(p) = FlattenSeq(a)
      /\ TextOf(q) = FlattenSeq(b)
  BY <1>1, TextsType
<1> HIDE DEF a, b, c
<1>6. /\ a \o b \in Seq(Seq(Chars)) /\ Len(a \o b) = Len(p) + Len(q)
      /\ \A i \in 1..Len(p) + Len(q) : (a \o b)[i] = IF i <= Len(p) THEN a[i] ELSE b[i - Len(p)]
  <2>1. /\ a \o b \in Seq(Seq(Chars)) /\ Len(a \o b) = Len(a) + Len(b)
        /\ \A i \in 1..Len(a) + Len(b) : (a \o b)[i] = IF i <= Len(a) THEN a[i] ELSE b[i - Len(a)]
    <3>1. a \in Seq(Seq(Chars)) /\ b \in Seq(Seq(Chars))
      BY <1>2, <1>3
    <3> QED BY ONLY <3>1, ConcatProperties
  <2> QED BY <1>2, <1>3, <2>1
<1>7. ASSUME NEW i \in 1..Len(p) + Len(q)
      PROVE  c[i] = (a \o b)[i]
  <2>1. CASE i <= Len(p)
    <3>1. i \in 1..Len(p)
      BY <2>1, <1>2
    <3> QED BY <1>1, <1>2, <1>4, <1>6, <2>1, <3>1
  <2>2. CASE ~(i <= Len(p))
    <3>1. i - Len(p) \in 1..Len(q)
      BY <2>2, <1>2, <1>3
    <3> QED BY <1>1, <1>3, <1>4, <1>6, <2>2, <3>1
  <2> QED BY <2>1, <2>2
<1>8. c = a \o b
  BY <1>4, <1>6, <1>7, SeqEqual
<1>9. QED
  BY <1>2, <1>3, <1>5, <1>8, FlattenConcat

\* A piece restores to its own text.
LEMMA RestoreOne ==
  ASSUME NEW piece \in Pieces
  PROVE  TextOf(<<piece>>) = piece.text
<1> DEFINE p == <<piece>>
           q == TextsOf(p)
           e == piece.text
           one == <<e>>
<1>1. p \in Seq(Pieces) /\ Len(p) = 1 /\ p[1] = piece
  BY OneLong
<1>2. e \in Seq(Chars)
  BY DEF Pieces
<1> HIDE DEF p, e
<1>3. q \in Seq(Seq(Chars)) /\ Len(q) = 1 /\ q[1] = piece.text /\ TextOf(p) = FlattenSeq(q)
  BY <1>1, TextsType
<1>4. one \in Seq(Seq(Chars)) /\ Len(one) = 1 /\ one[1] = e
  BY <1>2, OneLong
<1> HIDE DEF q
<1>5. q = one
  <2> HIDE DEF one
  <2>1. \A i \in 1..Len(q) : q[i] = one[i]
    BY <1>3, <1>4 DEF e
  <2> QED BY <1>3, <1>4, <2>1, SeqEqual
<1>6. FlattenSeq(Append(<<>>, e)) = FlattenSeq(<<>>) \o e
  <2>1. <<>> \in Seq(Seq(Chars))
    BY EmptySeq
  <2> QED BY <1>2, <2>1, FlattenAppend
<1>7. Append(<<>>, e) = one
  OBVIOUS
<1>8. <<>> \o e = e
  BY <1>2, ConcatEmptySeq
<1>9. QED
  BY <1>3, <1>5, <1>6, <1>7, <1>8, FlattenEmpty DEF p, e

\* A cell nothing was replaced in is one piece for each character.
LEMMA PlainType ==
  ASSUME NEW v \in Seq(Chars)
  PROVE  PlainText(v) \in Seq(Pieces) /\ Len(PlainText(v)) = Len(v) /\ Len(v) \in Nat
         /\ \A i \in 1..Len(v) : PlainText(v)[i] = [type |-> Plain, text |-> <<v[i]>>]
<1>1. Len(v) \in Nat /\ DOMAIN v = 1..Len(v) /\ \A i \in 1..Len(v) : v[i] \in Chars
  BY LenProperties, ElementOfSeq
<1>2. \A i \in 1..Len(v) : [type |-> Plain, text |-> <<v[i]>>] \in Pieces
  <2>1. Plain \in Types
    BY DetectionAssumption
  <2>2. \A i \in 1..Len(v) : <<v[i]>> \in Seq(Chars)
    BY <1>1, OneLong
  <2> QED BY <2>1, <2>2 DEF Pieces
<1>3. PlainText(v) = [i \in 1..Len(v) |-> [type |-> Plain, text |-> <<v[i]>>]]
  BY <1>1 DEF PlainText
<1>4. QED
  BY <1>1, <1>2, <1>3

\* Untouched characters are restored as they were.
LEMMA RestorePlain ==
  ASSUME NEW v \in Seq(Chars), NEW a \in 1..(Len(v) + 1), NEW b \in 0..Len(v), a <= b + 1
  PROVE  /\ SubSeq(PlainText(v), a, b) \in Seq(Pieces)
         /\ Len(SubSeq(PlainText(v), a, b)) = b - a + 1
         /\ SubSeq(v, a, b) \in Seq(Chars)
         /\ TextOf(SubSeq(PlainText(v), a, b)) = SubSeq(v, a, b)
<1> DEFINE p == SubSeq(PlainText(v), a, b)
           w == SubSeq(v, a, b)
           q == TextsOf(p)
           l == b - a + 1
<1>1. Len(v) \in Nat /\ a \in Int /\ b \in Int /\ l \in Nat /\ (a <= b => l = b - a + 1)
      /\ (~(a <= b) => l = 0)
  BY LenProperties
<1>2. \A i \in a..b : i \in 1..Len(v)
  BY <1>1
<1>3. p \in Seq(Pieces) /\ Len(p) = l /\ \A i \in 1..l : p[i] = PlainText(v)[a + i - 1]
  <2>1. \A i \in a..b : PlainText(v)[i] \in Pieces
    BY <1>2, PlainType, ElementOfSeq
  <2>2. /\ SubSeq(PlainText(v), a, b) \in Seq(Pieces)
        /\ Len(SubSeq(PlainText(v), a, b)) = IF a <= b THEN b - a + 1 ELSE 0
        /\ \A i \in 1..b - a + 1 : SubSeq(PlainText(v), a, b)[i] = PlainText(v)[a + i - 1]
    BY <1>1, <2>1, SubSeqProperties
  <2> QED BY <1>1, <2>2
<1>4. w \in Seq(Chars) /\ Len(w) = l /\ \A i \in 1..l : w[i] = v[a + i - 1]
  <2>1. \A i \in a..b : v[i] \in Chars
    BY <1>2, ElementOfSeq
  <2>2. /\ SubSeq(v, a, b) \in Seq(Chars)
        /\ Len(SubSeq(v, a, b)) = IF a <= b THEN b - a + 1 ELSE 0
        /\ \A i \in 1..b - a + 1 : SubSeq(v, a, b)[i] = v[a + i - 1]
    BY <1>1, <2>1, SubSeqProperties
  <2> QED BY <1>1, <2>2
<1>5. ASSUME NEW i \in 1..l
      PROVE  p[i].text = <<w[i]>>
  <2>1. a + i - 1 \in 1..Len(v)
    BY <1>1
  <2>2. PlainText(v)[a + i - 1] = [type |-> Plain, text |-> <<v[a + i - 1]>>]
    <3> DEFINE k == a + i - 1
    <3>1. k \in 1..Len(v)
      BY <2>1
    <3> HIDE DEF k
    <3>2. PlainText(v)[k] = [type |-> Plain, text |-> <<v[k]>>]
      BY <3>1, PlainType
    <3> QED BY <3>2 DEF k
  <2> HIDE DEF p, w, l
  <2> QED BY <1>3, <1>4, <2>2
<1> HIDE DEF p, w, l
<1>6. q \in Seq(Seq(Chars)) /\ Len(q) = l /\ (\A i \in 1..l : q[i] = p[i].text)
      /\ TextOf(p) = FlattenSeq(q)
  BY <1>3, TextsType
<1>7. q = [i \in 1..Len(w) |-> <<w[i]>>]
  <2> DEFINE each == [i \in 1..Len(w) |-> <<w[i]>>]
  <2>1. \A i \in 1..l : w[i] \in Chars
    BY <1>4, ElementOfSeq
  <2>2. \A i \in 1..l : <<w[i]>> \in Seq(Chars)
    BY <2>1, OneLong
  <2>3. each \in Seq(Seq(Chars)) /\ Len(each) = l /\ \A i \in 1..l : each[i] = <<w[i]>>
    BY <1>1, <1>4, <2>2
  <2> HIDE DEF each, q
  <2>4. \A i \in 1..l : q[i] = each[i]
    BY <1>5, <1>6, <2>3
  <2>5. q = each
    BY <1>6, <2>3, <2>4, SeqEqual
  <2> QED BY <2>5 DEF each
<1>8. TextOf(p) = w
  BY <1>4, <1>6, <1>7, FlattenSingles
<1>9. QED
  BY <1>3, <1>4, <1>8 DEF p, w, l

-----------------------------------------------------------------------------
(* ReplaceEntities *)

\* The token that stands for a hit.
Shown(v, x) == [type |-> x.type, text |-> Cut(v, x)]

\* The token of a hit restores to the characters of the hit.
LEMMA ShownType ==
  ASSUME NEW v \in Seq(Chars), NEW x \in HitsIn(Len(v))
  PROVE  /\ Shown(v, x) \in Pieces /\ <<Shown(v, x)>> \in Seq(Pieces)
         /\ TextOf(<<Shown(v, x)>>) = SubSeq(v, x.start, x.end - 1)
         /\ x.start \in 1..Len(v) /\ x.end \in 2..Len(v) + 1 /\ x.start < x.end /\ Len(v) \in Nat
<1>1. /\ x.start \in 1..Len(v) /\ x.end \in 2..Len(v) + 1 /\ x.start < x.end /\ Len(v) \in Nat
      /\ x.type \in Types
  BY LenProperties DEF HitsIn
<1>2. Cut(v, x) \in Seq(Chars)
  <2>1. \A i \in x.start..(x.end - 1) : v[i] \in Chars
    <3>1. \A i \in x.start..(x.end - 1) : i \in 1..Len(v)
      BY <1>1
    <3> QED BY <3>1, ElementOfSeq
  <2>2. x.start \in Int /\ x.end - 1 \in Int
    BY <1>1
  <2>3. SubSeq(v, x.start, x.end - 1) \in Seq(Chars)
    BY <2>1, <2>2, SubSeqProperties
  <2> QED BY <2>3 DEF Cut
<1>3. Shown(v, x) \in Pieces
  BY <1>1, <1>2 DEF Shown, Pieces
<1>4. <<Shown(v, x)>> \in Seq(Pieces)
  BY <1>3, OneLong
<1>5. TextOf(<<Shown(v, x)>>) = Shown(v, x).text
  BY <1>3, RestoreOne
<1>6. QED
  BY <1>1, <1>3, <1>4, <1>5 DEF Shown, Cut

\* The part of a concatenation that is its second half, or before it.
LEMMA Halves ==
  ASSUME NEW S, NEW a \in Seq(S), NEW b \in Seq(S), NEW m \in 0..Len(a)
  PROVE  /\ SubSeq(a \o b, Len(a) + 1, Len(a \o b)) = b
         /\ SubSeq(a \o b, 1, m) = SubSeq(a, 1, m)
<1> DEFINE c == a \o b
           la == Len(a)
           lb == Len(b)
<1>1. /\ c \in Seq(S) /\ Len(c) = la + lb /\ la \in Nat /\ lb \in Nat
      /\ \A i \in 1..la + lb : c[i] = IF i <= la THEN a[i] ELSE b[i - la]
      /\ \A i \in 1..la + lb : c[i] \in S
      /\ \A i \in 1..la : a[i] \in S
  <2>1. /\ c \in Seq(S) /\ Len(c) = la + lb
        /\ \A i \in 1..la + lb : c[i] = IF i <= la THEN a[i] ELSE b[i - la]
    BY ConcatProperties
  <2> HIDE DEF c
  <2> QED BY <2>1, LenProperties, ElementOfSeq
<1> HIDE DEF c
<1>2. SubSeq(c, la + 1, Len(c)) = b
  <2> DEFINE d == SubSeq(c, la + 1, la + lb)
  <2>1. /\ d \in Seq(S) /\ Len(d) = (IF la + 1 <= la + lb THEN la + lb - (la + 1) + 1 ELSE 0)
        /\ \A i \in 1..la + lb - (la + 1) + 1 : d[i] = c[la + 1 + i - 1]
    <3>1. \A i \in (la + 1)..(la + lb) : c[i] \in S
      BY <1>1
    <3>2. la + 1 \in Int /\ la + lb \in Int
      BY <1>1
    <3> QED BY <3>1, <3>2, SubSeqProperties
  <2> HIDE DEF d, la, lb
  <2>2. Len(d) = lb
    BY <1>1, <2>1
  <2>3. ASSUME NEW i \in 1..lb
        PROVE  d[i] = b[i]
    <3>1. i \in 1..la + lb - (la + 1) + 1 /\ la + 1 + i - 1 = la + i
      BY <1>1
    <3>2. d[i] = c[la + i]
      BY <2>1, <3>1
    <3>3. la + i \in 1..la + lb /\ ~(la + i <= la) /\ (la + i) - la = i
      BY <1>1
    <3> QED BY <1>1, <3>2, <3>3
  <2>4. d = b
    BY <2>1, <2>2, <2>3, SeqEqual DEF lb
  <2> QED BY <1>1, <2>4 DEF d
<1>3. SubSeq(c, 1, m) = SubSeq(a, 1, m)
  <2> DEFINE d == SubSeq(c, 1, m)
             e == SubSeq(a, 1, m)
  <2>1. m \in Nat /\ m <= la /\ 1 \in Int /\ m \in Int /\ m - 1 + 1 = m
    BY <1>1
  <2>2. /\ d \in Seq(S) /\ Len(d) = (IF 1 <= m THEN m - 1 + 1 ELSE 0)
        /\ \A i \in 1..m - 1 + 1 : d[i] = c[1 + i - 1]
    <3>1. \A i \in 1..m : c[i] \in S
      BY <1>1, <2>1
    <3> HIDE DEF la, lb
    <3> QED BY <2>1, <3>1, SubSeqProperties
  <2>3. /\ e \in Seq(S) /\ Len(e) = (IF 1 <= m THEN m - 1 + 1 ELSE 0)
        /\ \A i \in 1..m - 1 + 1 : e[i] = a[1 + i - 1]
    <3>1. \A i \in 1..m : a[i] \in S
      BY <1>1, <2>1
    <3> HIDE DEF la, lb
    <3> QED BY <2>1, <3>1, SubSeqProperties
  <2> HIDE DEF d, e
  <2>4. Len(d) = m /\ Len(e) = m
    BY <2>1, <2>2, <2>3
  <2>5. ASSUME NEW i \in 1..m
        PROVE  d[i] = e[i]
    <3>1. i \in 1..m - 1 + 1 /\ 1 + i - 1 = i /\ i \in 1..la + lb /\ i <= la
      BY <1>1, <2>1
    <3> QED BY <1>1, <2>2, <2>3, <3>1
  <2>6. d = e
    BY <2>2, <2>3, <2>4, <2>5, SeqEqual
  <2> QED BY <2>6 DEF d, e
<1>4. QED
  BY <1>2, <1>3 DEF c

\* A concatenation holds what its two parts hold.
LEMMA ToSetConcat ==
  ASSUME NEW S, NEW a \in Seq(S), NEW b \in Seq(S)
  PROVE  ToSet(a \o b) = ToSet(a) \union ToSet(b)
<1> DEFINE c == a \o b
           la == Len(a)
           lb == Len(b)
<1>1. /\ Len(c) = la + lb /\ la \in Nat /\ lb \in Nat
      /\ \A i \in 1..la + lb : c[i] = IF i <= la THEN a[i] ELSE b[i - la]
      /\ DOMAIN c = 1..(la + lb) /\ DOMAIN a = 1..la /\ DOMAIN b = 1..lb
  <2>1. /\ c \in Seq(S) /\ Len(c) = la + lb
        /\ \A i \in 1..la + lb : c[i] = IF i <= la THEN a[i] ELSE b[i - la]
    BY ConcatProperties
  <2> HIDE DEF c
  <2> QED BY <2>1, LenProperties
<1> HIDE DEF c, la, lb
<1>2. \A i \in 1..la : i \in 1..(la + lb) /\ c[i] = a[i]
  BY <1>1
<1>3. \A i \in 1..lb : la + i \in 1..(la + lb) /\ c[la + i] = b[i]
  <2>1. TAKE i \in 1..lb
  <2> DEFINE k == la + i
  <2>2. k \in 1..(la + lb) /\ ~(k <= la) /\ k - la = i
    BY <1>1
  <2> HIDE DEF k
  <2>3. c[k] = b[k - la]
    BY <1>1, <2>2
  <2> QED BY <2>2, <2>3 DEF k
<1>4. \A i \in 1..(la + lb) : i \in 1..la \/ (i - la \in 1..lb /\ c[i] = b[i - la])
  BY <1>1
<1>5. ToSet(c) = {c[i] : i \in 1..(la + lb)} /\ ToSet(a) = {a[i] : i \in 1..la}
      /\ ToSet(b) = {b[i] : i \in 1..lb}
  BY <1>1 DEF ToSet
<1>6. ToSet(c) = ToSet(a) \union ToSet(b)
  BY <1>2, <1>3, <1>4, <1>5
<1> QED BY <1>6 DEF c

\* From k on, p stands for v and shows the tokens T; before it is v.
Continues(v, k, p, T) ==
  \E Q \in Seq(Pieces) :
    /\ p = SubSeq(PlainText(v), 1, k - 1) \o Q
    /\ TextOf(Q) = SubSeq(v, k, Len(v))
    /\ T \subseteq ToSet(Q)

\* Splicing in a hit to the left of what was already replaced.
LEMMA SpliceStep ==
  ASSUME NEW v \in Seq(Chars), NEW x \in HitsIn(Len(v)), NEW k \in 1..Len(v) + 1, k <= x.start,
         NEW p, NEW T, Continues(v, x.end, p, T)
  PROVE  Continues(v, k, Splice(v, x, p), T \union {Shown(v, x)})
<1>r. PICK R \in Seq(Pieces) :
        /\ p = SubSeq(PlainText(v), 1, x.end - 1) \o R
        /\ TextOf(R) = SubSeq(v, x.end, Len(v))
        /\ T \subseteq ToSet(R)
  BY DEF Continues
<1> DEFINE n == Len(v)
           plain == PlainText(v)
           one == <<Shown(v, x)>>
           before == SubSeq(plain, k, x.start - 1)
           Q == before \o (one \o R)
<1>1. /\ one \in Seq(Pieces) /\ TextOf(one) = SubSeq(v, x.start, x.end - 1)
      /\ x.start \in 1..n /\ x.end \in 2..n + 1 /\ x.start < x.end /\ n \in Nat
  BY ShownType
<1>2. plain \in Seq(Pieces) /\ Len(plain) = n
  BY PlainType
<1>3. /\ x.start - 1 \in 0..n /\ x.end - 1 \in 0..n /\ k - 1 \in 0..n /\ k <= (x.start - 1) + 1
      /\ 1 \in 1..n + 1 /\ 1 <= (x.start - 1) + 1 /\ 1 <= (x.end - 1) + 1 /\ 1 <= (k - 1) + 1
      /\ k \in 1..n + 1 /\ k - 1 \in (1 - 1)..(x.start - 1) /\ x.start - 1 \in (k - 1)..n
      /\ x.start - 1 \in 0..(x.end - 1) /\ (k - 1) + 1 = k /\ (x.end - 1) - 1 + 1 = x.end - 1
      /\ n \in (x.end - 1)..n /\ x.end - 1 \in (1 - 1)..n /\ (x.end - 1) + 1 = x.end
      /\ x.end - 1 \in (x.start - 1)..n /\ x.start \in 1..n + 1 /\ n \in (x.start - 1)..n
      /\ (x.start - 1) + 1 = x.start /\ k - 1 \in (1 - 1)..n /\ x.end \in Int /\ n \in Int
  <2> DEFINE Fit(N, a, b, c) ==
        /\ a - 1 \in 0..N /\ b - 1 \in 0..N /\ c - 1 \in 0..N /\ c <= (a - 1) + 1
        /\ 1 \in 1..N + 1 /\ 1 <= (a - 1) + 1 /\ 1 <= (b - 1) + 1 /\ 1 <= (c - 1) + 1
        /\ c \in 1..N + 1 /\ c - 1 \in (1 - 1)..(a - 1) /\ a - 1 \in (c - 1)..N
        /\ a - 1 \in 0..(b - 1) /\ (c - 1) + 1 = c /\ (b - 1) - 1 + 1 = b - 1
        /\ N \in (b - 1)..N /\ b - 1 \in (1 - 1)..N /\ (b - 1) + 1 = b
        /\ b - 1 \in (a - 1)..N /\ a \in 1..N + 1 /\ N \in (a - 1)..N
        /\ (a - 1) + 1 = a /\ c - 1 \in (1 - 1)..N /\ b \in Int /\ N \in Int
  <2>1. \A N \in Nat : \A a \in 1..N, b \in 2..N + 1, c \in 1..N + 1 :
          a < b /\ c <= a => Fit(N, a, b, c)
    OBVIOUS
  <2>2. k \in 1..n + 1 /\ k <= x.start
    OBVIOUS
  <2>3. Fit(n, x.start, x.end, k)
    <3> HIDE DEF n, Fit
    <3> QED BY <1>1, <2>1, <2>2
  <2> HIDE DEF n
  <2> QED BY <2>3
<1>0. p = SubSeq(plain, 1, x.end - 1) \o R /\ TextOf(R) = SubSeq(v, x.end, n)
  BY <1>r
<1> HIDE DEF plain, n, one
<1>4. /\ before \in Seq(Pieces) /\ TextOf(before) = SubSeq(v, k, x.start - 1)
      /\ SubSeq(plain, 1, x.end - 1) \in Seq(Pieces)
      /\ Len(SubSeq(plain, 1, x.end - 1)) = x.end - 1
      /\ SubSeq(plain, 1, k - 1) \in Seq(Pieces)
      /\ SubSeq(v, k, x.start - 1) \in Seq(Chars)
  <2>1. \A a \in 1..n + 1, b \in 0..n : a <= b + 1 =>
          /\ SubSeq(plain, a, b) \in Seq(Pieces)
          /\ Len(SubSeq(plain, a, b)) = b - a + 1
          /\ SubSeq(v, a, b) \in Seq(Chars)
          /\ TextOf(SubSeq(plain, a, b)) = SubSeq(v, a, b)
    BY RestorePlain DEF plain, n
  <2>2. before \in Seq(Pieces) /\ TextOf(before) = SubSeq(v, k, x.start - 1)
        /\ SubSeq(v, k, x.start - 1) \in Seq(Chars)
    BY <1>3, <2>1
  <2>3. SubSeq(plain, 1, x.end - 1) \in Seq(Pieces)
        /\ Len(SubSeq(plain, 1, x.end - 1)) = x.end - 1
    <3>1. Len(SubSeq(plain, 1, x.end - 1)) = (x.end - 1) - 1 + 1
          /\ SubSeq(plain, 1, x.end - 1) \in Seq(Pieces)
      BY <1>3, <2>1
    <3> QED BY <1>3, <3>1
  <2>4. SubSeq(plain, 1, k - 1) \in Seq(Pieces)
    BY <1>3, <2>1
  <2> QED BY <2>2, <2>3, <2>4
<1>5. /\ SubSeq(p, x.end, Len(p)) = R
      /\ SubSeq(p, 1, x.start - 1) = SubSeq(plain, 1, x.start - 1)
  <2> DEFINE a == SubSeq(plain, 1, x.end - 1)
  <2>1. a \in Seq(Pieces) /\ Len(a) = x.end - 1 /\ p = a \o R /\ Len(a) + 1 = x.end
    BY <1>0, <1>3, <1>4
  <2>2. SubSeq(a, 1, x.start - 1) = SubSeq(plain, 1, x.start - 1)
    <3>1. SubSeq(plain, 1, x.end - 1) \o SubSeq(plain, x.end, n) = plain
      <4>1. SubSeq(plain, 1, x.end - 1) \o SubSeq(plain, (x.end - 1) + 1, n) = SubSeq(plain, 1, n)
        <5>1. 1 \in 1..Len(plain) + 1 /\ x.end - 1 \in (1 - 1)..Len(plain) /\ n \in (x.end - 1)..Len(plain)
          BY <1>2, <1>3
        <5> QED BY <1>2, <5>1, ConcatAdjacentSubSeq
      <4>2. SubSeq(plain, 1, n) = plain
        BY <1>2, SubSeqFull
      <4>3. (x.end - 1) + 1 = x.end
        BY <1>1
      <4> QED BY <4>1, <4>2, <4>3
    <3> DEFINE b == SubSeq(plain, x.end, n)
    <3>2. b \in Seq(Pieces)
      <4>1. \A i \in x.end..n : plain[i] \in Pieces
        <5>1. \A i \in x.end..n : i \in 1..Len(plain)
          BY <1>1, <1>2
        <5> QED BY <1>2, <5>1, ElementOfSeq
      <4>2. x.end \in Int /\ n \in Int
        BY <1>1
      <4> QED BY <4>1, <4>2, SubSeqProperties
    <3> HIDE DEF a, b
    <3>3. SubSeq(a \o b, 1, x.start - 1) = SubSeq(a, 1, x.start - 1)
      <4>1. x.start - 1 \in 0..Len(a)
        BY <1>3, <2>1
      <4> QED BY <2>1, <3>2, <4>1, Halves
    <3> QED BY <3>1, <3>3 DEF a, b
  <2> HIDE DEF a
  <2>3. SubSeq(a \o R, Len(a) + 1, Len(a \o R)) = R
    <3>1. 0 \in 0..Len(a)
      BY <1>3, <2>1
    <3> QED BY <2>1, <3>1, Halves
  <2>4. SubSeq(a \o R, 1, x.start - 1) = SubSeq(a, 1, x.start - 1)
    <3>1. x.start - 1 \in 0..Len(a)
      BY <1>3, <2>1
    <3> QED BY <2>1, <3>1, Halves
  <2> QED BY <2>1, <2>2, <2>3, <2>4
<1>6. SubSeq(plain, 1, x.start - 1) = SubSeq(plain, 1, k - 1) \o before
  <2>1. 1 \in 1..Len(plain) + 1 /\ k - 1 \in (1 - 1)..Len(plain) /\ x.start - 1 \in (k - 1)..Len(plain)
    BY <1>1, <1>2, <1>3
  <2>2. SubSeq(plain, 1, k - 1) \o SubSeq(plain, (k - 1) + 1, x.start - 1) = SubSeq(plain, 1, x.start - 1)
    BY <1>2, <2>1, ConcatAdjacentSubSeq
  <2> QED BY <1>3, <2>2
<1>7. /\ one \o R \in Seq(Pieces) /\ Q \in Seq(Pieces)
      /\ Splice(v, x, p) = SubSeq(plain, 1, k - 1) \o Q
  <2>1. one \o R \in Seq(Pieces)
    BY <1>1, ConcatProperties
  <2> DEFINE start == SubSeq(plain, 1, k - 1)
  <2>2. Splice(v, x, p) = ((start \o before) \o one) \o R
    BY <1>5, <1>6 DEF Splice, Shown, one
  <2>3. start \in Seq(Pieces) /\ before \in Seq(Pieces) /\ start \o before \in Seq(Pieces)
        /\ before \o (one \o R) \in Seq(Pieces)
    BY <1>4, <2>1, ConcatProperties
  <2> HIDE DEF start, before
  <2>6. one \in Seq(Pieces)
    BY <1>1
  <2>7. \A a, b, c \in Seq(Pieces) : Regroups(a, b, c)
    BY ONLY Associative
  <2>4. ((start \o before) \o one) \o R = (start \o before) \o (one \o R)
    <3> DEFINE d == start \o before
    <3>1. d \in Seq(Pieces) /\ one \in Seq(Pieces) /\ R \in Seq(Pieces)
      BY <1>1, <2>3, <2>6
    <3> HIDE DEF d
    <3>2. Regroups(d, one, R)
      BY ONLY <3>1, <2>7
    <3> QED BY <3>2 DEF d, Regroups
  <2>5. (start \o before) \o (one \o R) = start \o (before \o (one \o R))
    <3> DEFINE e == one \o R
    <3>1. e \in Seq(Pieces)
      BY <2>1
    <3> HIDE DEF e
    <3>2. Regroups(start, before, e)
      <4>1. start \in Seq(Pieces) /\ before \in Seq(Pieces) /\ e \in Seq(Pieces)
        BY <2>3, <3>1
      <4> QED BY ONLY <4>1, <2>7
    <3> QED BY <3>2 DEF e, Regroups
  <2> QED BY <2>1, <2>2, <2>3, <2>4, <2>5 DEF start
<1>8. TextOf(Q) = SubSeq(v, k, n)
  <2>1. TextOf(Q) = SubSeq(v, k, x.start - 1) \o (SubSeq(v, x.start, x.end - 1) \o SubSeq(v, x.end, n))
    <3>1. TextOf(one \o R) = SubSeq(v, x.start, x.end - 1) \o SubSeq(v, x.end, n)
      BY <1>0, <1>1, RestoreConcat
    <3>2. TextOf(Q) = TextOf(before) \o TextOf(one \o R)
      BY <1>4, <1>7, RestoreConcat
    <3> HIDE DEF before, Q
    <3> QED BY <1>4, <3>1, <3>2
  <2>2. SubSeq(v, x.start, x.end - 1) \o SubSeq(v, x.end, n) = SubSeq(v, x.start, n)
    <3>1. /\ x.start \in 1..Len(v) + 1 /\ x.end - 1 \in (x.start - 1)..Len(v)
          /\ n \in (x.end - 1)..Len(v) /\ (x.end - 1) + 1 = x.end
      BY <1>3 DEF n
    <3>2. SubSeq(v, x.start, x.end - 1) \o SubSeq(v, (x.end - 1) + 1, n) = SubSeq(v, x.start, n)
      BY <3>1, ConcatAdjacentSubSeq
    <3> QED BY <3>1, <3>2
  <2>3. SubSeq(v, k, x.start - 1) \o SubSeq(v, x.start, n) = SubSeq(v, k, n)
    <3>1. /\ k \in 1..Len(v) + 1 /\ x.start - 1 \in (k - 1)..Len(v)
          /\ n \in (x.start - 1)..Len(v) /\ (x.start - 1) + 1 = x.start
      BY <1>3 DEF n
    <3>2. SubSeq(v, k, x.start - 1) \o SubSeq(v, (x.start - 1) + 1, n) = SubSeq(v, k, n)
      BY <3>1, ConcatAdjacentSubSeq
    <3> QED BY <3>1, <3>2
  <2> QED BY <2>1, <2>2, <2>3
<1>9. ToSet(R) \union {Shown(v, x)} \subseteq ToSet(Q)
  <2>1. \A a, b \in Seq(Pieces) : ToSet(a \o b) = ToSet(a) \union ToSet(b)
    BY ToSetConcat, Zenon
  <2>2. ToSet(one) = {Shown(v, x)}
    <3>1. DOMAIN one = {1} /\ one[1] = Shown(v, x)
      BY OneLong DEF one
    <3> QED BY <3>1 DEF ToSet
  <2>3. ToSet(Q) = ToSet(before) \union ToSet(one \o R)
    BY <1>4, <1>7, <2>1
  <2> HIDE DEF Q, before
  <2> QED BY <1>1, <2>1, <2>2, <2>3
<1>10. QED
  <2> HIDE DEF Q
  <2>1. T \union {Shown(v, x)} \subseteq ToSet(Q)
    BY <1>r, <1>9
  <2>2. /\ Q \in Seq(Pieces) /\ Splice(v, x, p) = SubSeq(PlainText(v), 1, k - 1) \o Q
        /\ TextOf(Q) = SubSeq(v, k, Len(v))
    BY <1>7, <1>8 DEF plain, n
  <2> QED BY <2>1, <2>2 DEF Continues

\* What is left of the hits in s is still v.
Replaced(v, s, p) ==
  /\ p \in Seq(Pieces)
  /\ \A k \in 1..Len(v) + 1 :
       (\A x \in s : k <= x.start) => Continues(v, k, p, {Shown(v, x) : x \in s})

Fits(p, x) == p \in Seq(Pieces) /\ x.start - 1 <= Len(p)

\* A splice makes pieces of pieces.
LEMMA SpliceType ==
  ASSUME NEW v \in Seq(Chars), NEW x \in HitsIn(Len(v)), NEW p, Fits(p, x)
  PROVE  Splice(v, x, p) \in Seq(Pieces)
<1> DEFINE a == SubSeq(p, 1, x.start - 1)
           b == SubSeq(p, x.end, Len(p))
           one == <<Shown(v, x)>>
<1>1. /\ x.start \in 1..Len(v) /\ x.end \in 2..Len(v) + 1 /\ Len(v) \in Nat
      /\ one \in Seq(Pieces)
  BY ShownType
<1>2. p \in Seq(Pieces) /\ Len(p) \in Nat /\ x.start - 1 <= Len(p) /\ \A i \in 1..Len(p) : p[i] \in Pieces
  BY LenProperties, ElementOfSeq DEF Fits
<1>3. a \in Seq(Pieces)
  <2>1. \A i \in 1..(x.start - 1) : p[i] \in Pieces
    BY <1>1, <1>2
  <2>2. 1 \in Int /\ x.start - 1 \in Int
    BY <1>1
  <2> QED BY <2>1, <2>2, SubSeqProperties
<1>4. b \in Seq(Pieces)
  <2>1. \A i \in x.end..Len(p) : p[i] \in Pieces
    BY <1>1, <1>2
  <2>2. x.end \in Int /\ Len(p) \in Int
    BY <1>1, <1>2
  <2> QED BY <2>1, <2>2, SubSeqProperties
<1>5. Splice(v, x, p) = (a \o one) \o b
  BY DEF Splice, Shown
<1>6. a \o one \in Seq(Pieces)
  <2> HIDE DEF a, one
  <2> QED BY <1>1, <1>3, ConcatProperties
<1>7. (a \o one) \o b \in Seq(Pieces)
  <2> HIDE DEF a, b, one
  <2> QED BY <1>4, <1>6, ConcatProperties
<1>8. QED
  BY <1>5, <1>7

\* The untouched cell is what replacing no hit gives.
LEMMA PlainReplaced ==
  ASSUME NEW v \in Seq(Chars)
  PROVE  Replaced(v, {}, PlainText(v))
<1> DEFINE plain == PlainText(v)
           n == Len(v)
<1>1. plain \in Seq(Pieces) /\ Len(plain) = n /\ n \in Nat
  BY PlainType
<1>2. ASSUME NEW k \in 1..n + 1
      PROVE  Continues(v, k, plain, {Shown(v, x) : x \in {}})
  <2>1. /\ k \in 1..n + 1 /\ n \in 0..n /\ k <= n + 1 /\ 1 \in 1..n + 1
        /\ k - 1 \in (1 - 1)..n /\ n \in (k - 1)..n /\ (k - 1) + 1 = k
    BY <1>1
  <2>2. SubSeq(plain, k, n) \in Seq(Pieces) /\ TextOf(SubSeq(plain, k, n)) = SubSeq(v, k, n)
    BY <2>1, RestorePlain
  <2>3. SubSeq(plain, 1, k - 1) \o SubSeq(plain, k, n) = plain
    <3> HIDE DEF plain, n
    <3>1. SubSeq(plain, 1, k - 1) \o SubSeq(plain, (k - 1) + 1, n) = SubSeq(plain, 1, n)
      <4>1. 1 \in 1..Len(plain) + 1 /\ k - 1 \in (1 - 1)..Len(plain) /\ n \in (k - 1)..Len(plain)
        BY <1>1, <2>1
      <4> QED BY <1>1, <4>1, ConcatAdjacentSubSeq
    <3>2. SubSeq(plain, 1, n) = plain
      BY <1>1, SubSeqFull
    <3> QED BY <2>1, <3>1, <3>2
  <2>4. {Shown(v, x) : x \in {}} = {}
    OBVIOUS
  <2> QED BY <2>2, <2>3, <2>4 DEF Continues
<1>3. QED
  BY <1>1, <1>2 DEF Replaced

\* The hit to the left of the ones replaced so far can be spliced in.
LEMMA ReplacedFits ==
  ASSUME NEW v \in Seq(Chars), NEW x \in HitsIn(Len(v)), NEW t, \A y \in t : x.end <= y.start,
         NEW p, Replaced(v, t, p)
  PROVE  /\ Fits(p, x)
         /\ Replaced(v, t \union {x}, Splice(v, x, p))
<1> DEFINE n == Len(v)
           plain == PlainText(v)
<1>1. /\ x.start \in 1..n /\ x.end \in 2..n + 1 /\ x.start < x.end /\ n \in Nat
      /\ x.end \in 1..n + 1 /\ x.end - 1 \in 0..n /\ x.end - 1 \in Nat
  <2>1. x.start \in 1..n /\ x.end \in 2..n + 1 /\ x.start < x.end /\ n \in Nat
    BY ShownType
  <2> HIDE DEF n
  <2> QED BY <2>1
<1> DEFINE T == {Shown(v, y) : y \in t}
<1>2. Continues(v, x.end, p, T)
  <2>1. \A y \in t : x.end <= y.start
    OBVIOUS
  <2> QED BY <1>1, <2>1 DEF Replaced
<1>r. PICK R \in Seq(Pieces) : p = SubSeq(plain, 1, x.end - 1) \o R
  BY <1>2 DEF Continues
<1>3. Fits(p, x)
  <2> DEFINE a == SubSeq(plain, 1, x.end - 1)
  <2>1. a \in Seq(Pieces) /\ Len(a) = (x.end - 1) - 1 + 1
    <3>1. 1 \in 1..n + 1 /\ 1 <= (x.end - 1) + 1
      BY <1>1
    <3> QED BY <1>1, <3>1, RestorePlain
  <2> HIDE DEF a, plain, n
  <2>2. Len(a \o R) = Len(a) + Len(R) /\ Len(R) \in Nat /\ a \o R \in Seq(Pieces)
    BY <2>1, ConcatProperties, LenProperties
  <2>3. Len(a) = x.end - 1
    BY <1>1, <2>1
  <2>4. p = a \o R
    BY <1>r DEF a
  <2>5. x.start - 1 <= Len(p)
    <3>1. Len(p) = Len(a) + Len(R)
      BY <2>2, <2>4
    <3>2. x.start < x.end /\ x.start \in Nat /\ x.end - 1 \in Nat /\ x.end \in Nat
      BY <1>1
    <3> QED BY ONLY <2>2, <2>3, <3>1, <3>2
  <2> QED BY <2>2, <2>4, <2>5 DEF Fits
<1>4. Splice(v, x, p) \in Seq(Pieces)
  BY <1>3, SpliceType
<1>5. ASSUME NEW k \in 1..n + 1, \A y \in t \union {x} : k <= y.start
      PROVE  Continues(v, k, Splice(v, x, p), {Shown(v, y) : y \in t \union {x}})
  <2>1. k <= x.start /\ k \in 1..Len(v) + 1
    BY <1>5
  <2> HIDE DEF T
  <2>2. Continues(v, k, Splice(v, x, p), T \union {Shown(v, x)})
    BY <1>2, <2>1, SpliceStep
  <2>3. {Shown(v, y) : y \in t \union {x}} = T \union {Shown(v, x)}
    BY DEF T
  <2> QED BY <2>2, <2>3
<1>6. QED
  BY <1>3, <1>4, <1>5 DEF Replaced

\* Replacing hits from right to left, each splice has its characters still in
\* place (replace_entities).
LEMMA Replacing ==
  ASSUME NEW v \in Seq(Chars), NEW hits \in Findings(Len(v)), Apart(hits), NEW iter,
         iter[{}] = PlainText(v),
         \A s \in SUBSET hits : s # {} /\ Fits(iter[s \ {Leftmost(s)}], Leftmost(s)) =>
           iter[s] = Splice(v, Leftmost(s), iter[s \ {Leftmost(s)}])
  PROVE  \A s \in SUBSET hits :
           /\ Replaced(v, s, iter[s])
           /\ s # {} => Fits(iter[s \ {Leftmost(s)}], Leftmost(s))
<1> DEFINE P == {s \in SUBSET hits : Replaced(v, s, iter[s])}
<1>1. IsFiniteSet(hits) /\ hits \in SUBSET HitsIn(Len(v))
  BY DEF Findings
<1>2. ASSUME NEW s \in SUBSET hits, s # {}, s \ {Leftmost(s)} \in P
      PROVE  /\ Fits(iter[s \ {Leftmost(s)}], Leftmost(s))
             /\ Replaced(v, s, iter[s])
  <2> DEFINE x == Leftmost(s)
             t == s \ {x}
  <2>1. x \in s /\ \A y \in s : x.start <= y.start
    BY <1>2, LeftmostExists, FindingsLess
  <2>2. ASSUME NEW y \in t
        PROVE  x.end <= y.start
    <3>1. x \in HitsIn(Len(v)) /\ y \in HitsIn(Len(v)) /\ x # y /\ x.start <= y.start /\ ~Overlap(x, y)
      BY <1>1, <2>1 DEF Apart
    <3> HIDE DEF x
    <3>2. /\ x.start \in Nat /\ x.end \in Nat /\ y.start \in Nat /\ y.end \in Nat
          /\ x.start < x.end /\ y.start < y.end
      BY <3>1 DEF HitsIn
    <3> QED BY <3>1, <3>2 DEF Overlap
  <2>3. x \in HitsIn(Len(v)) /\ Replaced(v, t, iter[t])
    BY <1>1, <1>2, <2>1
  <2>4. s = t \union {x}
    BY <2>1
  <2> HIDE DEF x, t
  <2>5. Fits(iter[t], x) /\ Replaced(v, t \union {x}, Splice(v, x, iter[t]))
    BY <2>2, <2>3, ReplacedFits
  <2>6. iter[s] = Splice(v, x, iter[t])
    BY <1>2, <2>5 DEF x, t
  <2> QED BY <2>4, <2>5, <2>6 DEF x, t
<1>3. ASSUME NEW s \in SUBSET hits, \A x \in s : s \ {x} \in P
      PROVE  s \in P
  <2>1. CASE s = {}
    BY <2>1, PlainReplaced
  <2>2. CASE s # {}
    <3>1. Leftmost(s) \in s
      BY <2>2, LeftmostExists, FindingsLess
    <3>2. Replaced(v, s, iter[s])
      <4> HIDE DEF P
      <4> QED BY <1>2, <1>3, <2>2, <3>1
    <3> QED BY <3>2
  <2> QED BY <2>1, <2>2
<1>4. SUBSET hits \subseteq P
  <2>1. \A s \in SUBSET hits : (\A x \in s : s \ {x} \in P) => s \in P
    BY <1>3
  <2> HIDE DEF P
  <2> QED BY ONLY <1>1, <2>1, SetInduction
<1>5. QED
  <2>1. ASSUME NEW s \in SUBSET hits
        PROVE  Replaced(v, s, iter[s]) /\ (s # {} => Fits(iter[s \ {Leftmost(s)}], Leftmost(s)))
    <3>1. s \in P /\ s \ {Leftmost(s)} \in P
      <4> HIDE DEF P
      <4> QED BY <1>4
    <3>2. Replaced(v, s, iter[s])
      BY <3>1
    <3> HIDE DEF P
    <3> QED BY <1>2, <3>1, <3>2
  <2> QED BY <2>1

\* ReplaceEntities takes the hits from right to left.
LEMMA ReplaceUnfolds ==
  ASSUME NEW v \in Seq(Chars), NEW hits \in Findings(Len(v)), Apart(hits)
  PROVE  \E iter :
           /\ iter[{}] = PlainText(v)
           /\ \A s \in SUBSET hits :
                s # {} => iter[s] = Splice(v, Leftmost(s), iter[s \ {Leftmost(s)}])
           /\ ReplaceEntities(v, hits) = iter[hits]
<1> DEFINE T == Seq(Pieces)
           base == PlainText(v)
           With(x, p) == IF Fits(p, x) THEN Splice(v, x, p) ELSE <<>>
           ch == [s \in SUBSET hits |-> Leftmost(s)]
           g == [x \in hits |-> [p \in T |-> With(x, p)]]
           last == CHOOSE iter : iter = [s \in SUBSET hits |->
                     IF s = {} THEN base ELSE Splice(v, Leftmost(s), iter[s \ {Leftmost(s)}])]
<1>1. IsFiniteSet(hits) /\ \A s \in SUBSET hits : s # {} => Leftmost(s) \in s
  BY LeftmostExists, FindingsLess DEF Findings
<1>2. PICK iter \in [SUBSET hits -> T] : IsFold(iter, hits, base, ch, g)
  <2>1. base \in T /\ \A s \in SUBSET hits : s # {} => ch[s] \in s
    BY <1>1, PlainType
  <2>2. ASSUME NEW x \in hits, NEW p \in T
        PROVE  With(x, p) \in T
    <3>1. x \in HitsIn(Len(v)) /\ <<>> \in T
      BY EmptySeq DEF Findings
    <3>2. Fits(p, x) => Splice(v, x, p) \in T
      BY <3>1, SpliceType
    <3> QED BY <3>1, <3>2
  <2>3. g \in [hits -> [T -> T]]
    <3> HIDE DEF T, With
    <3> QED BY <2>2
  <2>4. Foldable(hits, T, base, ch, g)
    <3> HIDE DEF T, base, ch, g
    <3> QED BY <1>1, <2>1, <2>3 DEF Foldable
  <2> HIDE DEF T, base, ch, g
  <2> QED BY <2>4, FoldExists
<1>3. /\ iter[{}] = base
      /\ \A s \in SUBSET hits : s # {} =>
           iter[s] = With(Leftmost(s), iter[s \ {Leftmost(s)}])
      /\ iter = [s \in SUBSET hits |-> iter[s]]
  <2>1. iter = [s \in SUBSET hits |-> IF s = {} THEN base ELSE g[ch[s]][iter[s \ {ch[s]}]]]
    BY <1>2 DEF IsFold
  <2>2. ASSUME NEW s \in SUBSET hits, s # {}
        PROVE  g[ch[s]][iter[s \ {ch[s]}]] = With(Leftmost(s), iter[s \ {Leftmost(s)}])
    <3>1. Leftmost(s) \in hits /\ iter[s \ {Leftmost(s)}] \in T /\ ch[s] = Leftmost(s)
      BY <1>1, <2>2
    <3> HIDE DEF T, With
    <3> QED BY <3>1
  <2> HIDE DEF T, With, base, ch, g
  <2> QED BY <2>1, <2>2
<1>4. \A s \in SUBSET hits : s # {} => Fits(iter[s \ {Leftmost(s)}], Leftmost(s))
  <2>1. /\ iter[{}] = PlainText(v)
        /\ \A s \in SUBSET hits : s # {} /\ Fits(iter[s \ {Leftmost(s)}], Leftmost(s)) =>
             iter[s] = Splice(v, Leftmost(s), iter[s \ {Leftmost(s)}])
    BY <1>3
  <2> QED BY <2>1, Replacing
<1>5. iter = [s \in SUBSET hits |->
                IF s = {} THEN base ELSE Splice(v, Leftmost(s), iter[s \ {Leftmost(s)}])]
  <2>1. \A s \in SUBSET hits :
          iter[s] = IF s = {} THEN base ELSE Splice(v, Leftmost(s), iter[s \ {Leftmost(s)}])
    BY <1>3, <1>4
  <2> HIDE DEF base, T
  <2> QED BY <1>3, <2>1
<1>6. last = [s \in SUBSET hits |->
                IF s = {} THEN base ELSE Splice(v, Leftmost(s), last[s \ {Leftmost(s)}])]
  <2> HIDE DEF base
  <2> QED BY <1>5
<1>7. ReplaceEntities(v, hits) = last[hits]
  BY DEF ReplaceEntities, MapThenFoldSet
<1>8. QED
  <2> HIDE DEF last
  <2>1. /\ last[{}] = PlainText(v)
        /\ \A s \in SUBSET hits :
             s # {} => last[s] = Splice(v, Leftmost(s), last[s \ {Leftmost(s)}])
    BY <1>6
  <2> QED BY <1>7, <2>1

\* The tokens of a cell restore it, and every hit has its own.
LEMMA ReplaceRestores ==
  ASSUME NEW v \in Seq(Chars), NEW hits \in Findings(Len(v)), Apart(hits)
  PROVE  /\ ReplaceEntities(v, hits) \in Seq(Pieces)
         /\ TextOf(ReplaceEntities(v, hits)) = v
         /\ \A x \in hits : Shown(v, x) \in ToSet(ReplaceEntities(v, hits))
<1> DEFINE p == ReplaceEntities(v, hits)
           plain == PlainText(v)
<1>1. PICK iter :
        /\ iter[{}] = PlainText(v)
        /\ \A s \in SUBSET hits :
             s # {} => iter[s] = Splice(v, Leftmost(s), iter[s \ {Leftmost(s)}])
        /\ p = iter[hits]
  BY ReplaceUnfolds
<1>2. Replaced(v, hits, p)
  <2>1. \A s \in SUBSET hits : Replaced(v, s, iter[s])
    BY <1>1, Replacing
  <2>2. Replaced(v, hits, iter[hits])
    BY <2>1
  <2> HIDE DEF p
  <2> QED BY <1>1, <2>2
<1> HIDE DEF p
<1>3. 1 \in 1..Len(v) + 1 /\ \A x \in hits : 1 <= x.start
  <2>1. Len(v) \in Nat /\ hits \in SUBSET HitsIn(Len(v))
    BY LenProperties DEF Findings
  <2> QED BY <2>1 DEF HitsIn
<1>4. PICK Q \in Seq(Pieces) :
        /\ p = SubSeq(plain, 1, 1 - 1) \o Q
        /\ TextOf(Q) = SubSeq(v, 1, Len(v))
        /\ {Shown(v, x) : x \in hits} \subseteq ToSet(Q)
  BY <1>2, <1>3 DEF Replaced, Continues
<1>5. SubSeq(plain, 1, 1 - 1) = <<>>
  BY SubSeqEmpty
<1>6. p = Q
  BY <1>4, <1>5, ConcatEmptySeq
<1>7. SubSeq(v, 1, Len(v)) = v
  BY SubSeqFull
<1>8. QED
  BY <1>4, <1>6, <1>7 DEF p

\* An untouched cell restores to itself.
LEMMA PlainRestores ==
  ASSUME NEW v \in Seq(Chars)
  PROVE  PlainText(v) \in Seq(Pieces) /\ TextOf(PlainText(v)) = v
<1>1. Len(v) \in Nat /\ Len(PlainText(v)) = Len(v) /\ PlainText(v) \in Seq(Pieces)
  BY PlainType
<1>2. 1 \in 1..Len(v) + 1 /\ Len(v) \in 0..Len(v) /\ 1 <= Len(v) + 1
  BY <1>1
<1>3. TextOf(SubSeq(PlainText(v), 1, Len(v))) = SubSeq(v, 1, Len(v))
  BY <1>2, RestorePlain
<1>4. SubSeq(PlainText(v), 1, Len(v)) = PlainText(v) /\ SubSeq(v, 1, Len(v)) = v
  <2>1. SubSeq(PlainText(v), 1, Len(PlainText(v))) = PlainText(v)
    BY <1>1, SubSeqFull
  <2>2. SubSeq(v, 1, Len(v)) = v
    BY SubSeqFull
  <2> QED BY <1>1, <2>1, <2>2
<1>5. QED
  BY <1>1, <1>3, <1>4

-----------------------------------------------------------------------------
(* The invariant *)

\* The sheet keeps its shape, and the analyser's answers and the caches theirs.
Shape ==
  /\ run \in Requests /\ row \in 1..(Len(run.rows) + 1)
  /\ phase \in {"scan", "detect", "apply", "written", "failed"}
  /\ DOMAIN out = DOMAIN run.rows
  /\ \A r \in DOMAIN out : DOMAIN out[r] = DOMAIN run.rows[r]

\* Every unit of a scanned row waits or was looked at.
Waiting ==
  /\ pending \in Seq(AllUnits)
  /\ \A u \in DOMAIN found \union ToSet(pending) :
       u.row \in DOMAIN run.rows /\ u.row < row /\ u \in ToSet(UnitsOf(u.row))
  /\ \A r \in DOMAIN run.rows :
       r < row => ToSet(UnitsOf(r)) \subseteq DOMAIN found \union ToSet(pending)
  /\ todo \subseteq DOMAIN pending
  /\ phase = "detect" => todo # {}
  /\ phase = "apply" => todo = {}
  /\ phase \in {"detect", "apply"} => \A i \in DOMAIN pending \ todo : pending[i] \in DOMAIN found
  /\ phase = "written" => row > Len(run.rows) /\ pending = <<>>

\* What the analyser said is about words it may report, and it was worth asking.
HeardIn(h) ==
  \A key \in DOMAIN h :
    key \in Langs \X Seq(Chars) /\ ShouldRunNer(key[2]) /\ h[key] \subseteq MayReport(key[2])
ToldBy(h, key) == IF key \in DOMAIN h THEN h[key] ELSE {}

\* The templates kept are what the analyser said, the hits kept are the answer
\* that the text gets when it is asked alone.
MaskedIn(text, lang) == MaskSpans(text, Certain(text, lang))
TemplatesOf(h) == {[key |-> k, value |-> h[k]] : k \in DOMAIN h}
Alone(h, key) == Detected(key[2], key[1], ToldBy(h, <<key[1], MaskedIn(key[2], key[1])>>))
AskedOnce(h) ==
  {key \in Langs \X Seq(Chars) :
     LET masked == MaskedIn(key[2], key[1]) IN ShouldRunNer(masked) => <<key[1], masked>> \in DOMAIN h}
CellsOf(h) == {[key |-> k, value |-> Alone(h, k)] : k \in AskedOnce(h)}
Cached ==
  /\ templates \in Seq(TemplatesOf(heard)) /\ Len(templates) <= MaxEntries
  /\ cells \in Seq(CellsOf(heard)) /\ Len(cells) <= MaxEntries

Answered ==
  \A u \in DOMAIN found :
    /\ ShouldRunNer(MaskedText(u)) => Asked(u) \in DOMAIN heard
    /\ found[u] = Detected(Text(u), LangOf(u), ToldBy(heard, Asked(u)))

\* The tokens of a unit are in the sheet when its batch is done.
Hidden ==
  \A u \in DOMAIN found \ ToSet(pending) : \A i \in DOMAIN u.cells :
    out[u.row][u.cells[i]] = ReplaceEntities(Value(u, i), Split(u, found[u], i))

Restored ==
  \A r \in DOMAIN run.rows : \A c \in DOMAIN run.rows[r] :
    out[r][c] \in Seq(Pieces) /\ TextOf(out[r][c]) = run.rows[r][c]

\* Every token is registered, under a value that is normalised as the key says.
KeysRight(known) == \A key \in DOMAIN known : Normalized(known[key], key.type) = key.value
Known ==
  /\ \A p \in Places(out) : KeyAt(out, p) \in DOMAIN registry
  /\ KeysRight(registry)

IInv ==
  Shape /\ Waiting /\ HeardIn(heard) /\ Cached /\ Answered /\ Hidden /\ Restored /\ Known

-----------------------------------------------------------------------------
(* The registry *)

\* Of some places in a sheet one is before all others.
LEMMA FirstExists ==
  ASSUME NEW H, H # {}, \A p \in H : p[1] \in Nat /\ p[2] \in Nat /\ p[3] \in Nat
  PROVE  \E p \in H : \A q \in H : ~Before(q, p)
<1>1. PICK a \in {p[1] : p \in H} : \A b \in {p[1] : p \in H} : a <= b
  <2> DEFINE S == {p[1] : p \in H}
  <2>1. S \subseteq Nat /\ S # {}
    OBVIOUS
  <2> HIDE DEF S
  <2>2. \E a \in S : \A b \in S : a <= b
    BY <2>1, LeastExists
  <2> QED BY <2>2 DEF S
<1> DEFINE row1 == {p \in H : p[1] = a}
<1>2. PICK c \in {p[2] : p \in row1} : \A b \in {p[2] : p \in row1} : c <= b
  <2> DEFINE S == {p[2] : p \in row1}
  <2>1. S \subseteq Nat /\ S # {}
    BY <1>1
  <2> HIDE DEF S
  <2>2. \E x \in S : \A b \in S : x <= b
    BY <2>1, LeastExists
  <2> QED BY <2>2 DEF S
<1> DEFINE cell1 == {p \in row1 : p[2] = c}
<1>3. PICK i \in {p[3] : p \in cell1} : \A b \in {p[3] : p \in cell1} : i <= b
  <2> DEFINE S == {p[3] : p \in cell1}
  <2>1. S \subseteq Nat /\ S # {}
    BY <1>2
  <2> HIDE DEF S
  <2>2. \E x \in S : \A b \in S : x <= b
    BY <2>1, LeastExists
  <2> QED BY <2>2 DEF S
<1>4. PICK p \in H : p[1] = a /\ p[2] = c /\ p[3] = i
  BY <1>3
<1>5. ASSUME NEW q \in H
      PROVE  ~Before(q, p)
  <2>1. a <= q[1] /\ (q[1] = a => c <= q[2]) /\ (q[1] = a /\ q[2] = c => i <= q[3])
    BY <1>1, <1>2, <1>3
  <2>2. a \in Nat /\ c \in Nat /\ i \in Nat /\ q[1] \in Nat /\ q[2] \in Nat /\ q[3] \in Nat
    BY <1>4
  <2> QED BY <1>4, <2>1, <2>2 DEF Before
<1>6. QED
  BY <1>5

\* Registering keeps what is known and adds the tokens that are new, each under
\* its own key (get_or_create_token).
LEMMA RegisterKnows ==
  ASSUME NEW known, KeysRight(known), NEW sheet,
         \A p \in Places(sheet) : p[1] \in Nat /\ p[2] \in Nat /\ p[3] \in Nat
  PROVE  /\ \A p \in Places(sheet) : KeyAt(sheet, p) \in DOMAIN Register(known, sheet)
         /\ KeysRight(Register(known, sheet))
<1> DEFINE new == Register(known, sheet)
<1>1. /\ DOMAIN new = DOMAIN known \union {KeyAt(sheet, p) : p \in Places(sheet)}
      /\ \A key \in DOMAIN new :
           new[key] = IF key \in DOMAIN known THEN known[key] ELSE TextAt(sheet, FirstPlace(sheet, key))
  BY DEF Register
<1> HIDE DEF new
<1>2. ASSUME NEW key \in DOMAIN new
      PROVE  Normalized(new[key], key.type) = key.value
  <2>1. CASE key \in DOMAIN known
    BY <1>1, <2>1 DEF KeysRight
  <2>2. CASE key \notin DOMAIN known
    <3> DEFINE H == Holders(sheet, key)
    <3>1. H # {} /\ \A p \in H : p[1] \in Nat /\ p[2] \in Nat /\ p[3] \in Nat
      BY <1>1, <2>2 DEF Holders
    <3>2. FirstPlace(sheet, key) \in H
      <4> HIDE DEF H
      <4>1. \E p \in H : \A q \in H : ~Before(q, p)
        BY <3>1, FirstExists
      <4> QED BY <4>1 DEF FirstPlace, H
    <3>3. KeyAt(sheet, FirstPlace(sheet, key)) = key
      BY <3>2 DEF Holders
    <3>4. new[key] = TextAt(sheet, FirstPlace(sheet, key))
      BY <1>1, <2>2
    <3> QED BY <3>3, <3>4 DEF KeyAt, MappingKey
  <2> QED BY <2>1, <2>2
<1>3. QED
  BY <1>1, <1>2 DEF KeysRight, new

\* So does a step that registers the tokens of the sheet.
LEMMA RegisteredStep ==
  ASSUME Known, Shape', Restored', registry' = Register(registry, out')
  PROVE  Known'
<1>1. /\ run' \in Requests /\ DOMAIN out' = DOMAIN run' .rows
      /\ \A r \in DOMAIN out' : DOMAIN out'[r] = DOMAIN run' .rows[r]
      /\ \A r \in DOMAIN run' .rows : \A c \in DOMAIN run' .rows[r] : out'[r][c] \in Seq(Pieces)
  BY DEF Shape, Restored
<1>2. /\ \A r \in DOMAIN run' .rows : r \in Nat
      /\ \A r \in DOMAIN run' .rows : \A c \in DOMAIN run' .rows[r] : c \in Nat
  <2>1. run' .rows \in Seq(Seq(Seq(Chars)))
    BY <1>1, DetectionAssumption
  <2> DEFINE rows == run' .rows
  <2> HIDE DEF rows
  <2>2. rows \in Seq(Seq(Seq(Chars)))
    BY <2>1 DEF rows
  <2>3. DOMAIN rows = 1..Len(rows) /\ Len(rows) \in Nat
        /\ \A r \in 1..Len(rows) : rows[r] \in Seq(Seq(Chars))
    BY <2>2, LenProperties, ElementOfSeq
  <2>4. \A r \in DOMAIN rows : DOMAIN rows[r] = 1..Len(rows[r]) /\ Len(rows[r]) \in Nat
    BY <2>3, LenProperties
  <2> QED BY <2>3, <2>4 DEF rows
<1>3. ASSUME NEW p \in Places(out')
      PROVE  p[1] \in Nat /\ p[2] \in Nat /\ p[3] \in Nat
  <2>1. \E r \in DOMAIN out' : \E c \in DOMAIN out'[r] : \E i \in DOMAIN out'[r][c] : p = <<r, c, i>>
    BY DEF Places
  <2>a. PICK r \in DOMAIN out' : \E c \in DOMAIN out'[r] : \E i \in DOMAIN out'[r][c] : p = <<r, c, i>>
    BY <2>1
  <2>b. PICK c \in DOMAIN out'[r] : \E i \in DOMAIN out'[r][c] : p = <<r, c, i>>
    BY <2>a
  <2>c. PICK i \in DOMAIN out'[r][c] : p = <<r, c, i>>
    BY <2>b
  <2>2. out'[r][c] \in Seq(Pieces) /\ r \in Nat /\ c \in Nat
    BY <1>1, <1>2
  <2>3. i \in Nat
    BY <2>2, LenProperties
  <2> QED BY <2>c, <2>2, <2>3
<1>4. KeysRight(registry)
  BY DEF Known
<1>5. QED
  BY <1>3, <1>4, RegisterKnows DEF Known

-----------------------------------------------------------------------------
(* Caches and answers *)

\* A cache that evicts its oldest entry before it stores never holds more than
\* its limit (_cell_cache_max_entries, _ner_template_cache_max_entries).
LEMMA StoredType ==
  ASSUME NEW S, NEW cache \in Seq(S), Len(cache) <= MaxEntries, NEW key, NEW value,
         [key |-> key, value |-> value] \in S
  PROVE  Stored(cache, key, value) \in Seq(S) /\ Len(Stored(cache, key, value)) <= MaxEntries
<1> DEFINE e == [key |-> key, value |-> value]
           longer == Append(cache, e)
<1>1. longer \in Seq(S) /\ Len(longer) = Len(cache) + 1 /\ Len(cache) \in Nat
  <2>1. e \in S
    OBVIOUS
  <2> HIDE DEF e
  <2> QED BY <2>1, AppendProperties, LenProperties
<1>2. Stored(cache, key, value) = IF Len(longer) > MaxEntries THEN Tail(longer) ELSE longer
  BY DEF Stored
<1>3. MaxEntries \in Nat
  BY DetectionAssumption
<1> HIDE DEF longer
<1>4. CASE Len(longer) > MaxEntries
  <2>1. longer # <<>>
    BY <1>1, EmptySeq
  <2>2. Tail(longer) \in Seq(S) /\ Len(Tail(longer)) = Len(longer) - 1
    BY <1>1, <2>1, HeadTailProperties
  <2> QED BY <1>1, <1>2, <1>3, <1>4, <2>2
<1>5. CASE ~(Len(longer) > MaxEntries)
  BY <1>1, <1>2, <1>3, <1>5
<1>6. QED
  BY <1>4, <1>5

\* What a cache answers is one of its entries.
LEMMA LookupIn ==
  ASSUME NEW S, NEW cache \in Seq(S), NEW key, NEW value \in Lookup(cache, key)
  PROVE  \E e \in S : e.key = key /\ e.value = value
<1>1. PICK e \in ToSet(cache) : e.key = key /\ e.value = value
  BY DEF Lookup
<1>2. PICK i \in DOMAIN cache : e = cache[i]
  BY <1>1 DEF ToSet
<1>3. e \in S
  BY <1>2, ElementOfSeq, LenProperties
<1>4. QED
  BY <1>1, <1>3

\* The analyser's answers are only added to.
Learns(h, g) ==
  /\ \A key \in DOMAIN h : key \in DOMAIN g /\ g[key] = h[key]
  /\ \A key \in DOMAIN g \ DOMAIN h : ShouldRunNer(key[2])

\* What the analyser has said of a text it goes on saying.
LEMMA ToldStays ==
  ASSUME NEW h, NEW g, Learns(h, g), NEW lang, NEW masked,
         ShouldRunNer(masked) => <<lang, masked>> \in DOMAIN h
  PROVE  /\ ToldBy(g, <<lang, masked>>) = ToldBy(h, <<lang, masked>>)
         /\ ShouldRunNer(masked) => <<lang, masked>> \in DOMAIN g
<1> DEFINE key == <<lang, masked>>
<1>1. key[2] = masked
  OBVIOUS
<1> HIDE DEF key
<1>2. key \notin DOMAIN h => key \notin DOMAIN g
  BY <1>1 DEF Learns, key
<1>3. QED
  BY <1>2 DEF Learns, ToldBy, key

\* A cache entry that was right stays right as the analyser is asked for more.
LEMMA CachesStay ==
  ASSUME NEW h, NEW g, Learns(h, g)
  PROVE  TemplatesOf(h) \subseteq TemplatesOf(g) /\ CellsOf(h) \subseteq CellsOf(g)
<1>1. TemplatesOf(h) \subseteq TemplatesOf(g)
  BY DEF TemplatesOf, Learns
<1>2. ASSUME NEW k \in AskedOnce(h)
      PROVE  k \in AskedOnce(g) /\ Alone(g, k) = Alone(h, k)
  <2> DEFINE masked == MaskedIn(k[2], k[1])
  <2>1. k \in Langs \X Seq(Chars) /\ (ShouldRunNer(masked) => <<k[1], masked>> \in DOMAIN h)
    BY DEF AskedOnce
  <2>2. /\ ToldBy(g, <<k[1], masked>>) = ToldBy(h, <<k[1], masked>>)
        /\ ShouldRunNer(masked) => <<k[1], masked>> \in DOMAIN g
    <3> HIDE DEF masked
    <3> QED BY <2>1, ToldStays
  <2> QED BY <2>1, <2>2 DEF AskedOnce, Alone
<1>3. QED
  BY <1>1, <1>2 DEF CellsOf

\* The analyser is asked, or its answer is the one it gave.
LEMMA RememberLearns ==
  ASSUME HeardIn(heard), NEW key \in Langs \X Seq(Chars), ShouldRunNer(key[2]),
         NEW report \in Reports(key), Remember(key, report)
  PROVE  HeardIn(heard') /\ Learns(heard, heard') /\ key \in DOMAIN heard' /\ heard'[key] = report
<1>1. heard' = [k \in DOMAIN heard \union {key} |-> IF k = key THEN report ELSE heard[k]]
  BY DEF Remember
<1>2. key \in DOMAIN heard => report = heard[key]
  BY DEF Reports
<1>3. report \subseteq MayReport(key[2])
  BY DEF Reports, HeardIn
<1>4. DOMAIN heard' = DOMAIN heard \union {key} /\ heard'[key] = report
      /\ \A k \in DOMAIN heard : heard'[k] = heard[k]
  BY <1>1, <1>2
<1>5. Learns(heard, heard')
  BY <1>4 DEF Learns
<1>6. HeardIn(heard')
  BY <1>3, <1>4 DEF HeardIn
<1>7. QED
  BY <1>4, <1>5, <1>6

\* The engine takes one of the units that wait.
LEMMA ForemostExists ==
  ASSUME NEW n \in Nat, DOMAIN pending = 1..n, todo \subseteq DOMAIN pending, todo # {}
  PROVE  Foremost \in todo
<1> DEFINE first(k) == run.kind = "csv" => LangOf(pending[k]) = LangOf(pending[1])
           T == {k \in todo : first(k)}
<1>1. \A i, j : Sooner(i, j) <=> (first(i) /\ ~first(j)) \/ ((first(i) <=> first(j)) /\ i < j)
  BY DEF Sooner
<1>2. todo \subseteq Nat /\ T \subseteq Nat
  OBVIOUS
<1>3. \E i \in todo : \A j \in todo \ {i} : Sooner(i, j)
  <2>1. CASE T # {}
    <3>1. PICK i \in T : \A j \in T : i <= j
      <4> HIDE DEF T
      <4> QED BY <1>2, <2>1, LeastExists
    <3>2. ASSUME NEW j \in todo \ {i}
          PROVE  Sooner(i, j)
      <4>1. first(i) /\ i \in Nat /\ j \in Nat /\ i # j
        BY <1>2
      <4>2. first(j) => i <= j
        BY <3>1
      <4> HIDE DEF first
      <4> QED BY <1>1, <4>1, <4>2
    <3> QED BY <3>2
  <2>2. CASE T = {}
    <3>1. PICK i \in todo : \A j \in todo : i <= j
      <4> HIDE DEF T
      <4> QED BY <1>2, LeastExists
    <3>2. ASSUME NEW j \in todo \ {i}
          PROVE  Sooner(i, j)
      <4>1. ~first(i) /\ ~first(j) /\ i \in Nat /\ j \in Nat /\ i # j /\ i <= j
        BY <1>2, <2>2, <3>1
      <4> HIDE DEF first
      <4> QED BY <1>1, <4>1
    <3> QED BY <3>2
  <2> QED BY <2>1, <2>2
<1>4. QED
  BY <1>3 DEF Foremost

\* The request never changes, and what is made of it does not.
LEMMA SameRun ==
  ASSUME run' = run
  PROVE  /\ \A u : Text(u)' = Text(u) /\ LangOf(u)' = LangOf(u)
         /\ \A u : MaskedText(u)' = MaskedText(u) /\ Asked(u)' = Asked(u)
         /\ \A u, i : Value(u, i)' = Value(u, i)
         /\ \A u, hits, i : Split(u, hits, i)' = Split(u, hits, i)
         /\ \A r : UnitsOf(r)' = UnitsOf(r)
         /\ AllUnits' = AllUnits
<1>1. \A u, i : Value(u, i)' = Value(u, i)
  BY DEF Value
<1>2. \A u, i : JoinedUpTo(u, i)' = JoinedUpTo(u, i)
  BY DEF JoinedUpTo, Value
<1>3. \A u : Text(u)' = Text(u)
  BY DEF Text, JoinedUpTo, Value
<1>4. \A u : LangOf(u)' = LangOf(u)
  BY DEF LangOf, Text, JoinedUpTo, Value
<1>5. \A u : MaskedText(u)' = MaskedText(u)
  BY <1>3, <1>4 DEF MaskedText
<1>6. \A u : Asked(u)' = Asked(u)
  BY <1>4, <1>5 DEF Asked
<1>7. \A u, hits, i : Split(u, hits, i)' = Split(u, hits, i)
  BY DEF Split, Offset, JoinedUpTo, Value
<1>8. \A r, c : IsCandidate(r, c)' = IsCandidate(r, c)
  BY DEF IsCandidate
<1>9. \A r : Candidates(r)' = Candidates(r)
  BY DEF Candidates, IsCandidate, FoldLeftDomain, FoldLeft, MapThenFoldSet
<1>10. \A r : UnitsOf(r)' = UnitsOf(r)
  BY <1>9 DEF UnitsOf
<1>11. AllUnits' = AllUnits
  BY DEF AllUnits, UnitsIn
<1>12. QED
  BY <1>1, <1>3, <1>4, <1>5, <1>6, <1>7, <1>10, <1>11

\* What is asked of the analyser for a unit has the length of its text.
LEMMA UnitAsks ==
  ASSUME run \in Requests, NEW u \in AllUnits
  PROVE  /\ Text(u) \in Seq(Chars) /\ Len(Text(u)) \in Nat /\ LangOf(u) \in Langs
         /\ MaskedText(u) = MaskedIn(Text(u), LangOf(u)) /\ MaskedText(u) \in Seq(Chars)
         /\ Asked(u) = <<LangOf(u), Asked(u)[2]>> /\ Asked(u) \in Langs \X Seq(Chars)
         /\ Asked(u)[2] = IF run.kind = "csv" THEN Canonical(MaskedText(u)) ELSE MaskedText(u)
         /\ Len(Asked(u)[2]) = Len(Text(u))
         /\ ShouldRunNer(Asked(u)[2]) <=> ShouldRunNer(MaskedText(u))
<1>1. Text(u) \in Seq(Chars) /\ Len(Text(u)) \in Nat
  <2>1. u.cells # <<>> /\ Len(u.cells) \in Nat /\ \E r : u.cells \in Seq(DOMAIN run.rows[r])
    BY ValueType DEF AllUnits, UnitsIn
  <2>2. 1 \in 1..Len(u.cells)
    BY <2>1, EmptySeq
  <2> QED BY <2>2, JoinedKept, LenProperties
<1>2. LangOf(u) \in Langs
  <2>1. run.lang \in Langs \union {"auto"}
    BY DetectionAssumption
  <2> QED BY <2>1 DEF LangOf, ResolveLanguage, Langs
<1>3. MaskedText(u) = MaskedIn(Text(u), LangOf(u))
  BY DEF MaskedText, MaskedIn
<1>4. /\ MaskedText(u) \in Seq(Chars) /\ Len(MaskedText(u)) = Len(Text(u))
      /\ Canonical(MaskedText(u)) \in Seq(Chars) /\ Len(Canonical(MaskedText(u))) = Len(Text(u))
  BY <1>1, MaskType DEF MaskedText
<1>5. ShouldRunNer(Canonical(MaskedText(u))) <=> ShouldRunNer(MaskedText(u))
  BY <1>4, CanonicalAsks
<1> DEFINE m == IF run.kind = "csv" THEN Canonical(MaskedText(u)) ELSE MaskedText(u)
<1>6. Asked(u) = <<LangOf(u), m>>
  BY DEF Asked
<1>7. m \in Seq(Chars) /\ Len(m) = Len(Text(u)) /\ (ShouldRunNer(m) <=> ShouldRunNer(MaskedText(u)))
  BY <1>4, <1>5
<1> HIDE DEF m
<1>8. Asked(u)[2] = m /\ Asked(u) \in Langs \X Seq(Chars)
  BY <1>2, <1>6, <1>7
<1>9. QED
  BY <1>1, <1>2, <1>3, <1>4, <1>6, <1>7, <1>8 DEF m

\* The analyser's answers for a unit lie within the unit's text.
LEMMA ToldFits ==
  ASSUME run \in Requests, NEW u \in AllUnits, NEW h, HeardIn(h)
  PROVE  ToldBy(h, Asked(u)) \in Findings(Len(Text(u)))
<1>1. CASE Asked(u) \in DOMAIN h
  <2>1. ToldBy(h, Asked(u)) = h[Asked(u)] /\ h[Asked(u)] \in SUBSET MayReport(Asked(u)[2])
    BY <1>1 DEF ToldBy, HeardIn
  <2>2. Asked(u)[2] \in Seq(Chars) /\ Len(Asked(u)[2]) = Len(Text(u))
    BY UnitAsks
  <2> QED BY <2>1, <2>2, ReportsFound
<1>2. CASE Asked(u) \notin DOMAIN h
  BY <1>2, NoFindings DEF ToldBy
<1>3. QED
  BY <1>1, <1>2

\* What is found of a unit lies within its text and apart.
LEMMA FoundFits ==
  ASSUME Shape, HeardIn(heard), Answered, NEW u \in DOMAIN found, u \in AllUnits
  PROVE  found[u] \in Findings(Len(Text(u))) /\ Apart(found[u])
<1>1. run \in Requests /\ Text(u) \in Seq(Chars)
  BY UnitAsks DEF Shape
<1>2. ToldBy(heard, Asked(u)) \in Findings(Len(Text(u)))
  BY <1>1, ToldFits
<1>3. found[u] = Detected(Text(u), LangOf(u), ToldBy(heard, Asked(u)))
  BY DEF Answered
<1> DEFINE report == ToldBy(heard, Asked(u))
           cover == AllRules(Text(u), LangOf(u)) \union report
<1>4. AllRules(Text(u), LangOf(u)) \union report \subseteq cover
  OBVIOUS
<1> HIDE DEF cover, report
<1>5. QED
  BY <1>1, <1>2, <1>3, <1>4, DetectedSettles DEF report

\* A unit of a row is one of the units of the sheet.
LEMMA UnitOfRow ==
  ASSUME run \in Requests, NEW u, u.row \in DOMAIN run.rows, u \in ToSet(UnitsOf(u.row))
  PROVE  u \in AllUnits
<1>1. UnitsOf(u.row) \in Seq(UnitsIn(u.row))
  BY UnitsOfRow
<1>2. PICK i \in DOMAIN UnitsOf(u.row) : u = UnitsOf(u.row)[i]
  BY DEF ToSet
<1>3. u \in UnitsIn(u.row)
  BY <1>1, <1>2, ElementOfSeq, LenProperties
<1>4. QED
  BY <1>3 DEF AllUnits

-----------------------------------------------------------------------------
(* The engine's steps *)

\* The unit the engine takes waits for it and is one of the sheet's.
LEMMA TakenUnit ==
  ASSUME Shape, Waiting, phase = "detect"
  PROVE  /\ Foremost \in todo /\ Foremost \in DOMAIN pending
         /\ pending[Foremost] \in AllUnits /\ pending[Foremost] \in ToSet(pending)
<1>1. pending \in Seq(AllUnits) /\ todo \subseteq DOMAIN pending /\ todo # {}
  BY DEF Waiting
<1>2. DOMAIN pending = 1..Len(pending) /\ Len(pending) \in Nat
  BY <1>1, LenProperties
<1>3. Foremost \in todo
  BY <1>1, <1>2, ForemostExists
<1>4. pending[Foremost] \in AllUnits
  BY <1>1, <1>2, <1>3, ElementOfSeq
<1>5. QED
  BY <1>1, <1>3, <1>4 DEF ToSet

\* The caches follow when nothing new is kept.
LEMMA CachedStays ==
  ASSUME Cached, Learns(heard, heard')
  PROVE  templates \in Seq(TemplatesOf(heard')) /\ cells \in Seq(CellsOf(heard'))
<1>1. TemplatesOf(heard) \subseteq TemplatesOf(heard') /\ CellsOf(heard) \subseteq CellsOf(heard')
  BY CachesStay
<1>2. templates \in Seq(TemplatesOf(heard)) /\ cells \in Seq(CellsOf(heard))
  BY DEF Cached
<1>3. templates \in Seq(TemplatesOf(heard'))
  BY <1>1, <1>2, SeqMonotonic
<1>4. cells \in Seq(CellsOf(heard'))
  BY <1>1, <1>2, SeqMonotonic
<1>5. QED
  BY <1>3, <1>4

\* Asking nothing, nothing new is heard.
LEMMA NothingLearned == Learns(heard, heard)
BY DEF Learns

\* What a step of the engine does, whichever way it comes by its answer.
Told(unit, hits) ==
  /\ Take(unit, hits) /\ UNCHANGED <<run, row, pending, out, registry>>
  /\ HeardIn(heard') /\ Learns(heard, heard') /\ Cached'
  /\ hits = Detected(Text(unit), LangOf(unit), ToldBy(heard', Asked(unit)))
  /\ ShouldRunNer(MaskedText(unit)) => Asked(unit) \in DOMAIN heard'

\* A step of detect_many gives for its unit what detecting it alone gives: the
\* template cache and the cell cache answer what the analyser would.
LEMMA DetectRowTells ==
  ASSUME IInv, DetectRow
  PROVE  \E hits : Told(pending[Foremost], hits)
<1> DEFINE unit == pending[Foremost]
           text == Text(unit)
           lang == LangOf(unit)
           masked == MaskSpans(text, Certain(text, lang))
           canon == Canonical(masked)
           key == TemplateKey(masked, lang)
           known == Lookup(templates, key)
<1>1. /\ phase = "detect" /\ run.kind = "csv" /\ Shape /\ Waiting /\ HeardIn(heard) /\ Cached
      /\ UNCHANGED <<run, row, pending, out, registry, cells>>
  BY DEF DetectRow, IInv
<1>2. \/ /\ ~ShouldRunNer(masked)
         /\ Take(unit, Detected(text, lang, {})) /\ UNCHANGED <<templates, heard>>
      \/ /\ ShouldRunNer(masked) /\ known # {}
         /\ \E report \in known : Take(unit, Detected(text, lang, report))
         /\ UNCHANGED <<templates, heard>>
      \/ /\ ShouldRunNer(masked) /\ known = {}
         /\ \E report \in Reports(<<lang, canon>>) :
              /\ Remember(<<lang, canon>>, report)
              /\ templates' = Stored(templates, key, report)
              /\ Take(unit, Detected(text, lang, report))
  BY DEF DetectRow
<1>3. unit \in AllUnits
  BY <1>1, TakenUnit
<1>4. /\ Asked(unit) = <<lang, canon>> /\ key = <<lang, canon>> /\ masked = MaskedText(unit)
      /\ <<lang, canon>> \in Langs \X Seq(Chars) /\ <<lang, canon>>[2] = canon
      /\ ShouldRunNer(canon) <=> ShouldRunNer(masked)
  <2>1. masked = MaskedText(unit) /\ key = <<lang, canon>>
    BY DEF MaskedText, TemplateKey
  <2>2. Asked(unit) = <<lang, canon>>
    BY <1>1, <2>1 DEF Asked
  <2>3. Asked(unit) \in Langs \X Seq(Chars) /\ (ShouldRunNer(Asked(unit)[2]) <=> ShouldRunNer(masked))
    BY <1>1, <1>3, <2>1, UnitAsks DEF Shape
  <2>4. <<lang, canon>>[2] = canon
    OBVIOUS
  <2> HIDE DEF masked, canon, key, lang
  <2> QED BY <2>1, <2>2, <2>3, <2>4
<1> HIDE DEF unit, text, lang, masked, canon, key, known
<1>5. CASE UNCHANGED <<templates, heard>>
  <2>1. HeardIn(heard') /\ Learns(heard, heard')
    BY <1>1, <1>5, NothingLearned
  <2>2. Cached'
    BY <1>1, <1>5 DEF Cached
  <2>3. CASE ~ShouldRunNer(masked) /\ Take(unit, Detected(text, lang, {}))
    <3>1. Asked(unit) \notin DOMAIN heard
      BY <1>1, <1>4, <2>3 DEF HeardIn
    <3>2. ToldBy(heard', Asked(unit)) = {}
      BY <1>5, <3>1 DEF ToldBy
    <3>3. Told(unit, Detected(text, lang, {}))
      BY <1>1, <1>4, <2>1, <2>2, <2>3, <3>2 DEF Told, text, lang
    <3> QED BY <3>3 DEF unit
  <2>4. ASSUME NEW report \in known, Take(unit, Detected(text, lang, report))
        PROVE  \E hits : Told(unit, hits)
    <3>1. PICK e \in TemplatesOf(heard) : e.key = key /\ e.value = report
      BY <1>1, LookupIn DEF known, Cached
    <3>2. key \in DOMAIN heard /\ report = heard[key]
      BY <3>1 DEF TemplatesOf
    <3>3. Asked(unit) \in DOMAIN heard' /\ ToldBy(heard', Asked(unit)) = report
      BY <1>4, <1>5, <3>2 DEF ToldBy
    <3>4. Told(unit, Detected(text, lang, report))
      BY <1>1, <1>4, <2>1, <2>2, <2>4, <3>3 DEF Told, text, lang
    <3> QED BY <3>4
  <2>5. CASE \E report \in known : Take(unit, Detected(text, lang, report))
    BY <2>4, <2>5 DEF unit
  <2>6. CASE ~(\E report \in known : Take(unit, Detected(text, lang, report)))
             /\ ShouldRunNer(masked)
    <3>1. PICK report \in Reports(<<lang, canon>>) :
            /\ Remember(<<lang, canon>>, report)
            /\ templates' = Stored(templates, key, report)
            /\ Take(unit, Detected(text, lang, report))
      BY <1>2, <2>6
    <3>2. key \in DOMAIN heard' /\ heard'[key] = report
      BY <1>1, <1>4, <2>6, <3>1, RememberLearns
    <3>3. Told(unit, Detected(text, lang, report))
      BY <1>1, <1>4, <2>1, <2>2, <3>1, <3>2 DEF Told, ToldBy, text, lang
    <3> QED BY <3>3 DEF unit
  <2> QED BY <1>2, <2>3, <2>5, <2>6 DEF unit
<1>6. CASE ShouldRunNer(masked) /\ \E report \in Reports(<<lang, canon>>) :
              /\ Remember(<<lang, canon>>, report)
              /\ templates' = Stored(templates, key, report)
              /\ Take(unit, Detected(text, lang, report))
  <2>1. PICK report \in Reports(<<lang, canon>>) :
          /\ Remember(<<lang, canon>>, report)
          /\ templates' = Stored(templates, key, report)
          /\ Take(unit, Detected(text, lang, report))
    BY <1>6
  <2>2. HeardIn(heard') /\ Learns(heard, heard') /\ key \in DOMAIN heard' /\ heard'[key] = report
    BY <1>1, <1>4, <1>6, <2>1, RememberLearns
  <2>3. [key |-> key, value |-> report] \in TemplatesOf(heard')
    BY <2>2 DEF TemplatesOf
  <2>4. templates \in Seq(TemplatesOf(heard')) /\ cells \in Seq(CellsOf(heard'))
    BY <1>1, <2>2, CachedStays
  <2>5. Len(templates) <= MaxEntries /\ Len(cells) <= MaxEntries
    BY <1>1 DEF Cached
  <2>6. templates' \in Seq(TemplatesOf(heard')) /\ Len(templates') <= MaxEntries
    BY <2>1, <2>3, <2>4, <2>5, StoredType
  <2>7. cells' = cells
    BY <1>1
  <2>8. Cached'
    BY <2>4, <2>5, <2>6, <2>7 DEF Cached
  <2>9. Told(unit, Detected(text, lang, report))
    BY <1>1, <1>4, <2>1, <2>2, <2>8 DEF Told, ToldBy, text, lang
  <2> QED BY <2>9 DEF unit
<1>7. QED
  BY <1>2, <1>5, <1>6 DEF unit

\* A step of detect_in_cell gives for its unit what detecting it alone gives.
LEMMA DetectInCellTells ==
  ASSUME IInv, DetectInCell
  PROVE  \E hits : Told(pending[Foremost], hits)
<1> DEFINE unit == pending[Foremost]
           text == Text(unit)
           lang == LangOf(unit)
           masked == MaskSpans(text, Certain(text, lang))
           short == Len(text) <= MaxLen
           known == IF short THEN Lookup(cells, <<lang, text>>) ELSE {}
           Answer(hits) ==
             /\ Take(unit, hits)
             /\ cells' = IF short THEN Stored(cells, <<lang, text>>, hits) ELSE cells
<1>1. /\ phase = "detect" /\ run.kind # "csv" /\ Shape /\ Waiting /\ HeardIn(heard) /\ Cached
      /\ UNCHANGED <<run, row, pending, out, registry, templates>>
  BY DEF DetectInCell, IInv
<1>2. \/ /\ known # {}
         /\ \E hits \in known : Take(unit, hits)
         /\ UNCHANGED <<cells, heard>>
      \/ /\ known = {} /\ ~ShouldRunNer(masked)
         /\ Answer(Certain(text, lang)) /\ UNCHANGED heard
      \/ /\ known = {} /\ ShouldRunNer(masked)
         /\ \E report \in Reports(<<lang, masked>>) :
              /\ Remember(<<lang, masked>>, report)
              /\ Answer(Detected(text, lang, report))
  BY DEF DetectInCell
<1>3. unit \in AllUnits
  BY <1>1, TakenUnit
<1>4. /\ Asked(unit) = <<lang, masked>> /\ masked = MaskedText(unit) /\ masked = MaskedIn(text, lang)
      /\ <<lang, masked>> \in Langs \X Seq(Chars) /\ <<lang, masked>>[2] = masked
      /\ <<lang, text>> \in Langs \X Seq(Chars)
      /\ text \in Seq(Chars)
  <2>1. masked = MaskedText(unit) /\ masked = MaskedIn(text, lang)
    BY DEF MaskedText, MaskedIn
  <2>2. Asked(unit) = <<lang, masked>>
    BY <1>1, <2>1 DEF Asked
  <2>3. Asked(unit) \in Langs \X Seq(Chars) /\ text \in Seq(Chars) /\ lang \in Langs
    BY <1>1, <1>3, UnitAsks DEF Shape
  <2>4. <<lang, masked>>[2] = masked
    OBVIOUS
  <2> HIDE DEF masked, text, lang
  <2> QED BY <2>1, <2>2, <2>3, <2>4
<1> HIDE DEF unit, text, lang, masked, known
\* An answer that is kept, if it is, for the text it was given to.
<1>5. ASSUME NEW hits, Answer(hits), Learns(heard, heard'), HeardIn(heard'),
             hits = Detected(text, lang, ToldBy(heard', <<lang, masked>>)),
             ShouldRunNer(masked) => <<lang, masked>> \in DOMAIN heard'
      PROVE  Told(unit, hits)
  <2> DEFINE k == <<lang, text>>
  <2>1. k \in AskedOnce(heard') /\ Alone(heard', k) = hits
    <3>1. k \in Langs \X Seq(Chars) /\ k[1] = lang /\ k[2] = text
      BY <1>4
    <3> HIDE DEF k
    <3> QED BY <1>4, <1>5, <3>1 DEF AskedOnce, Alone
  <2>2. [key |-> k, value |-> hits] \in CellsOf(heard')
    BY <2>1 DEF CellsOf
  <2>3. templates \in Seq(TemplatesOf(heard')) /\ cells \in Seq(CellsOf(heard'))
    BY <1>1, <1>5, CachedStays
  <2>4. Len(templates) <= MaxEntries /\ Len(cells) <= MaxEntries
    BY <1>1 DEF Cached
  <2>5. cells' \in Seq(CellsOf(heard')) /\ Len(cells') <= MaxEntries
    <3>1. Stored(cells, k, hits) \in Seq(CellsOf(heard')) /\ Len(Stored(cells, k, hits)) <= MaxEntries
      BY <2>2, <2>3, <2>4, StoredType
    <3> QED BY <1>5, <2>3, <2>4, <3>1
  <2>6. Cached'
    BY <1>1, <2>3, <2>4, <2>5 DEF Cached
  <2> QED BY <1>1, <1>4, <1>5, <2>6 DEF Told, text, lang
<1>6. CASE known # {} /\ (\E hits \in known : Take(unit, hits)) /\ UNCHANGED <<cells, heard>>
  <2>1. PICK hits \in known : Take(unit, hits)
    BY <1>6
  <2>2. HeardIn(heard') /\ Learns(heard, heard') /\ Cached'
    BY <1>1, <1>6, NothingLearned DEF Cached
  <2>3. PICK e \in CellsOf(heard) : e.key = <<lang, text>> /\ e.value = hits
    <3>1. cells \in Seq(CellsOf(heard)) /\ hits \in Lookup(cells, <<lang, text>>)
      BY <1>1, <1>6 DEF Cached, known
    <3> QED BY <3>1, LookupIn
  <2>4. PICK k \in AskedOnce(heard) : e = [key |-> k, value |-> Alone(heard, k)]
    BY <2>3 DEF CellsOf
  <2>5. k = <<lang, text>> /\ hits = Alone(heard, k)
    BY <2>3, <2>4
  <2>6. k[1] = lang /\ k[2] = text
    BY <2>5
  <2>7. /\ hits = Detected(text, lang, ToldBy(heard, <<lang, masked>>))
        /\ ShouldRunNer(masked) => <<lang, masked>> \in DOMAIN heard
    BY <1>4, <2>5, <2>6 DEF AskedOnce, Alone
  <2>8. Told(unit, hits)
    BY <1>1, <1>4, <1>6, <2>1, <2>2, <2>7 DEF Told, text, lang
  <2> QED BY <2>8 DEF unit
<1>7. CASE ~ShouldRunNer(masked) /\ Answer(Certain(text, lang)) /\ UNCHANGED heard
  <2>1. HeardIn(heard') /\ Learns(heard, heard')
    BY <1>1, <1>7, NothingLearned
  <2>2. <<lang, masked>> \notin DOMAIN heard
    BY <1>1, <1>4, <1>7 DEF HeardIn
  <2>3. ToldBy(heard', <<lang, masked>>) = {}
    BY <1>7, <2>2 DEF ToldBy
  <2>4. Certain(text, lang) = Detected(text, lang, ToldBy(heard', <<lang, masked>>))
    BY <1>4, <2>3, DetectedNothing
  <2>5. Told(unit, Certain(text, lang))
    BY <1>5, <1>7, <2>1, <2>4
  <2> QED BY <2>5 DEF unit
<1>8. CASE ShouldRunNer(masked) /\ \E report \in Reports(<<lang, masked>>) :
              /\ Remember(<<lang, masked>>, report)
              /\ Answer(Detected(text, lang, report))
  <2>1. PICK report \in Reports(<<lang, masked>>) :
          /\ Remember(<<lang, masked>>, report)
          /\ Answer(Detected(text, lang, report))
    BY <1>8
  <2>2. /\ HeardIn(heard') /\ Learns(heard, heard')
        /\ <<lang, masked>> \in DOMAIN heard' /\ heard'[<<lang, masked>>] = report
    BY <1>1, <1>4, <1>8, <2>1, RememberLearns
  <2>3. ToldBy(heard', <<lang, masked>>) = report
    BY <2>2 DEF ToldBy
  <2>4. Told(unit, Detected(text, lang, report))
    BY <1>5, <2>1, <2>2, <2>3
  <2> QED BY <2>4 DEF unit
<1>9. QED
  BY <1>2, <1>6, <1>7, <1>8 DEF unit

\* A unit told of keeps the invariant.
LEMMA ToldStep ==
  ASSUME IInv, phase = "detect", NEW hits, Told(pending[Foremost], hits)
  PROVE  IInv'
<1> DEFINE unit == pending[Foremost]
<1>1. /\ Shape /\ Waiting /\ HeardIn(heard) /\ Cached /\ Answered /\ Hidden /\ Restored /\ Known
      /\ UNCHANGED <<run, row, pending, out, registry>>
  BY DEF IInv, Told
<1>2. /\ unit \in AllUnits /\ unit \in ToSet(pending) /\ Foremost \in todo
      /\ Foremost \in DOMAIN pending
  BY <1>1, TakenUnit
<1>3. /\ found' = [u \in DOMAIN found \union {unit} |-> IF u = unit THEN hits ELSE found[u]]
      /\ todo' = todo \ {Foremost}
      /\ phase' = IF todo' = {} THEN "apply" ELSE "detect"
  BY DEF Told, Take
<1>4. /\ HeardIn(heard') /\ Learns(heard, heard') /\ Cached'
      /\ hits = Detected(Text(unit), LangOf(unit), ToldBy(heard', Asked(unit)))
      /\ ShouldRunNer(MaskedText(unit)) => Asked(unit) \in DOMAIN heard'
  BY DEF Told
<1>5. /\ DOMAIN found' = DOMAIN found \union {unit} /\ found'[unit] = hits
      /\ \A u \in DOMAIN found : u # unit => found'[u] = found[u]
  <2> HIDE DEF unit
  <2> QED BY <1>3
<1>6. run \in Requests
  BY <1>1 DEF Shape
<1>7. Shape'
  BY <1>1, <1>3 DEF Shape
<1>8. Waiting'
  <2>1. /\ pending' \in Seq(AllUnits)' /\ AllUnits' = AllUnits
        /\ \A r : UnitsOf(r)' = UnitsOf(r)
    BY <1>1, SameRun DEF Waiting
  <2>2. DOMAIN found' \union ToSet(pending') = DOMAIN found \union ToSet(pending)
    BY <1>1, <1>2, <1>5
  <2>3. \A i \in DOMAIN pending' \ todo' : pending'[i] \in DOMAIN found'
    <3>1. \A i \in DOMAIN pending \ todo : pending[i] \in DOMAIN found
      BY <1>1 DEF Waiting
    <3>2. TAKE i \in DOMAIN pending' \ todo'
    <3>3. i \in DOMAIN pending \ todo \/ i = Foremost
      BY <1>1, <1>3
    <3> QED BY <1>1, <1>5, <3>1, <3>3
  <2>4. todo' \subseteq DOMAIN pending'
    BY <1>1, <1>3 DEF Waiting
  <2>5. phase' = "detect" => todo' # {}
    BY <1>3
  <2>6. phase' = "apply" => todo' = {}
    BY <1>3
  <2>7. phase' # "written"
    BY <1>3
  <2>8. \A u \in DOMAIN found' \union ToSet(pending') :
          u.row \in DOMAIN run' .rows /\ u.row < row' /\ u \in ToSet(UnitsOf(u.row)')
    BY <1>1, <2>1, <2>2 DEF Waiting
  <2>9. \A r \in DOMAIN run' .rows :
          r < row' => ToSet(UnitsOf(r)') \subseteq DOMAIN found' \union ToSet(pending')
    BY <1>1, <2>1, <2>2 DEF Waiting
  <2> QED BY <2>1, <2>3, <2>4, <2>5, <2>6, <2>7, <2>8, <2>9 DEF Waiting
<1>9. Answered'
  <2>1. ASSUME NEW u \in DOMAIN found'
        PROVE  /\ ShouldRunNer(MaskedText(u)) => Asked(u) \in DOMAIN heard'
               /\ found'[u] = Detected(Text(u), LangOf(u), ToldBy(heard', Asked(u)))
    <3>1. CASE u = unit
      BY <1>4, <1>5, <3>1
    <3>2. CASE u # unit
      <4>1. u \in DOMAIN found /\ found'[u] = found[u]
        BY <1>5, <3>2
      <4>2. u.row \in DOMAIN run.rows /\ u \in ToSet(UnitsOf(u.row))
        BY <1>1, <4>1 DEF Waiting
      <4>3. u \in AllUnits
        BY <1>6, <4>2, UnitOfRow
      <4>4. /\ ShouldRunNer(MaskedText(u)) => Asked(u) \in DOMAIN heard
            /\ found[u] = Detected(Text(u), LangOf(u), ToldBy(heard, Asked(u)))
        BY <1>1, <4>1 DEF Answered
      <4> DEFINE l == LangOf(u)
                 m == Asked(u)[2]
      <4>5. Asked(u) = <<l, m>> /\ (ShouldRunNer(m) <=> ShouldRunNer(MaskedText(u)))
        BY <1>6, <4>3, UnitAsks
      <4> HIDE DEF l, m
      <4>6. ToldBy(heard', <<l, m>>) = ToldBy(heard, <<l, m>>)
            /\ (ShouldRunNer(m) => <<l, m>> \in DOMAIN heard')
        BY <1>4, <4>4, <4>5, ToldStays
      <4> QED BY <4>1, <4>4, <4>5, <4>6
    <3> QED BY <3>1, <3>2
  <2>2. \A u : /\ Text(u)' = Text(u) /\ LangOf(u)' = LangOf(u)
               /\ MaskedText(u)' = MaskedText(u) /\ Asked(u)' = Asked(u)
    BY <1>1, SameRun
  <2> QED BY <2>1, <2>2 DEF Answered
<1>10. Hidden'
  <2>1. \A u, i : Value(u, i)' = Value(u, i)
    BY <1>1, SameRun
  <2>2. \A u, h, i : Split(u, h, i)' = Split(u, h, i)
    BY <1>1, SameRun
  <2>3. ASSUME NEW u \in DOMAIN found' \ ToSet(pending'), NEW i \in DOMAIN u.cells
        PROVE  out'[u.row][u.cells[i]] = ReplaceEntities(Value(u, i), Split(u, found'[u], i))
    <3>1. u \in DOMAIN found \ ToSet(pending) /\ found'[u] = found[u]
      BY <1>1, <1>2, <1>5
    <3> QED BY <1>1, <3>1 DEF Hidden
  <2>4. \A u \in DOMAIN found' \ ToSet(pending') : \A i \in DOMAIN u.cells :
          out'[u.row][u.cells[i]] = ReplaceEntities(Value(u, i)', Split(u, found'[u], i))
    BY <2>1, <2>3
  <2>5. \A u, i : Split(u, found[u], i)' = Split(u, found'[u], i)
    BY <1>1 DEF Split, Offset, JoinedUpTo, Value
  <2> QED BY <2>4, <2>5 DEF Hidden
<1>11. Restored' /\ Known'
  BY <1>1 DEF Restored, Known
<1>12. QED
  BY <1>4, <1>7, <1>8, <1>9, <1>10, <1>11 DEF IInv

-----------------------------------------------------------------------------
(* The handler's steps *)

\* Scanning a row keeps the invariant: the hidden columns restore to themselves
\* and the units that wait are new.
LEMMA ScanRowStep ==
  ASSUME IInv, ScanRow
  PROVE  IInv'
<1>1. /\ Shape /\ Waiting /\ HeardIn(heard) /\ Cached /\ Answered /\ Hidden /\ Restored /\ Known
      /\ phase = "scan" /\ row <= Len(run.rows)
      /\ UNCHANGED <<run, todo, found, phase, templates, cells, heard>>
      /\ pending' = pending \o UnitsOf(row) /\ row' = row + 1
  BY DEF IInv, ScanRow
<1>2. out' = [out EXCEPT ![row] = [c \in DOMAIN @ |->
        IF run.kind \in RowKinds /\ Selected(row, c) /\ ~IsBlank(run.rows[row][c])
        THEN <<[type |-> Column, text |-> run.rows[row][c]]>> ELSE @[c]]]
  BY DEF ScanRow
<1>3. /\ run \in Requests /\ row \in DOMAIN run.rows /\ row \in Nat
      /\ row + 1 \in 1..(Len(run.rows) + 1) /\ \A r \in DOMAIN run.rows : r \in Nat
  BY <1>1, RunType DEF Shape
<1>4. /\ DOMAIN out' = DOMAIN out /\ \A r \in DOMAIN out : r # row => out'[r] = out[r]
      /\ DOMAIN out'[row] = DOMAIN out[row]
      /\ \A c \in DOMAIN out[row] :
           \/ out'[row][c] = out[row][c]
           \/ out'[row][c] = <<[type |-> Column, text |-> run.rows[row][c]]>>
  BY <1>1, <1>2, <1>3 DEF Shape
<1>5. Shape'
  BY <1>1, <1>3, <1>4 DEF Shape
<1>6. UnitsOf(row) \in Seq(AllUnits) /\ \A u \in ToSet(UnitsOf(row)) : u.row = row
  <2>1. UnitsOf(row) \in Seq(UnitsIn(row))
    BY <1>3, UnitsOfRow
  <2>2. UnitsIn(row) \subseteq AllUnits
    BY <1>3 DEF AllUnits
  <2>3. UnitsOf(row) \in Seq(AllUnits)
    BY <2>1, <2>2, SeqMonotonic
  <2>4. ASSUME NEW u \in ToSet(UnitsOf(row))
        PROVE  u.row = row
    <3>1. PICK i \in DOMAIN UnitsOf(row) : u = UnitsOf(row)[i]
      BY DEF ToSet
    <3>2. u \in UnitsIn(row)
      BY <2>1, <3>1, ElementOfSeq, LenProperties
    <3> QED BY <3>2 DEF UnitsIn
  <2> QED BY <2>3, <2>4
<1>7. /\ pending' \in Seq(AllUnits)
      /\ ToSet(pending') = ToSet(pending) \union ToSet(UnitsOf(row))
      /\ DOMAIN pending \subseteq DOMAIN pending'
  <2>1. pending \in Seq(AllUnits)
    BY <1>1 DEF Waiting
  <2> DEFINE a == pending
             b == UnitsOf(row)
  <2>2. a \in Seq(AllUnits) /\ b \in Seq(AllUnits) /\ pending' = a \o b
    BY <1>1, <1>6, <2>1
  <2> HIDE DEF a, b
  <2>3. a \o b \in Seq(AllUnits) /\ Len(a \o b) = Len(a) + Len(b)
    BY <2>2, ConcatProperties
  <2>4. ToSet(a \o b) = ToSet(a) \union ToSet(b)
    BY <2>2, ToSetConcat
  <2>5. DOMAIN a \subseteq DOMAIN (a \o b)
    BY <2>2, <2>3, LenProperties
  <2> QED BY <2>2, <2>3, <2>4, <2>5 DEF a, b
<1>8. Waiting'
  <2>1. AllUnits' = AllUnits /\ \A r : UnitsOf(r)' = UnitsOf(r)
    BY <1>1, SameRun
  <2>2. ASSUME NEW u \in DOMAIN found \union ToSet(pending')
        PROVE  u.row \in DOMAIN run.rows /\ u.row < row + 1 /\ u \in ToSet(UnitsOf(u.row))
    <3>1. CASE u \in DOMAIN found \union ToSet(pending)
      <4>1. u.row \in DOMAIN run.rows /\ u.row < row /\ u \in ToSet(UnitsOf(u.row))
        BY <1>1, <3>1 DEF Waiting
      <4>2. u.row \in Nat
        BY <1>3, <4>1
      <4> QED BY <1>3, <4>1, <4>2
    <3>2. CASE u \in ToSet(UnitsOf(row))
      <4>1. u.row = row
        BY <1>6, <3>2
      <4> QED BY <1>3, <3>2, <4>1
    <3> QED BY <1>7, <3>1, <3>2
  <2>3. ASSUME NEW r \in DOMAIN run.rows, r < row + 1
        PROVE  ToSet(UnitsOf(r)) \subseteq DOMAIN found \union ToSet(pending')
    <3>1. r < row \/ r = row
      BY <1>3, <2>3
    <3>2. CASE r < row
      <4>1. ToSet(UnitsOf(r)) \subseteq DOMAIN found \union ToSet(pending)
        BY <1>1, <3>2 DEF Waiting
      <4> QED BY <1>7, <4>1
    <3>3. CASE r = row
      BY <1>7, <3>3
    <3> QED BY <3>1, <3>2, <3>3
  <2>4. todo' \subseteq DOMAIN pending' /\ phase' = "scan"
    BY <1>1, <1>7 DEF Waiting
  <2>5. \A u \in DOMAIN found' \union ToSet(pending') :
          u.row \in DOMAIN run' .rows /\ u.row < row' /\ u \in ToSet(UnitsOf(u.row)')
    BY <1>1, <2>1, <2>2
  <2>6. \A r \in DOMAIN run' .rows :
          r < row' => ToSet(UnitsOf(r)') \subseteq DOMAIN found' \union ToSet(pending')
    BY <1>1, <2>1, <2>3
  <2> QED BY <1>7, <2>1, <2>4, <2>5, <2>6 DEF Waiting
<1>9. Answered'
  <2>1. \A u : /\ Text(u)' = Text(u) /\ LangOf(u)' = LangOf(u)
               /\ MaskedText(u)' = MaskedText(u) /\ Asked(u)' = Asked(u)
    BY <1>1, SameRun
  <2> QED BY <1>1, <2>1 DEF Answered
<1>10. Hidden'
  <2>1. \A u, i : Value(u, i)' = Value(u, i)
    BY <1>1, SameRun
  <2>2. \A u, i : Split(u, found[u], i)' = Split(u, found[u], i)
    BY <1>1 DEF Split, Offset, JoinedUpTo, Value
  <2>3. ASSUME NEW u \in DOMAIN found \ ToSet(pending'), NEW i \in DOMAIN u.cells
        PROVE  out'[u.row][u.cells[i]] = ReplaceEntities(Value(u, i), Split(u, found[u], i))
    <3>1. u \in DOMAIN found \ ToSet(pending)
      BY <1>7
    <3>2. u.row \in DOMAIN run.rows /\ u.row < row
      BY <1>1, <3>1 DEF Waiting
    <3>3. u.row # row
      BY <1>3, <3>2
    <3>4. out'[u.row] = out[u.row]
      BY <1>1, <1>4, <3>2, <3>3 DEF Shape
    <3> QED BY <1>1, <3>1, <3>4 DEF Hidden
  <2>4. DOMAIN found' = DOMAIN found
    BY <1>1
  <2> QED BY <2>1, <2>2, <2>3, <2>4 DEF Hidden
<1>11. Restored'
  <2>1. ASSUME NEW r \in DOMAIN run.rows, NEW c \in DOMAIN run.rows[r]
        PROVE  out'[r][c] \in Seq(Pieces) /\ TextOf(out'[r][c]) = run.rows[r][c]
    <3>1. /\ out[r][c] \in Seq(Pieces) /\ TextOf(out[r][c]) = run.rows[r][c]
          /\ r \in DOMAIN out /\ c \in DOMAIN out[r]
      BY <1>1 DEF Restored, Shape
    <3>2. CASE out'[r][c] = out[r][c]
      BY <3>1, <3>2
    <3>3. CASE out'[r][c] # out[r][c]
      <4> DEFINE piece == [type |-> Column, text |-> run.rows[r][c]]
      <4>1. r = row /\ out'[r][c] = <<piece>>
        BY <1>4, <3>1, <3>3
      <4>2. piece \in Pieces /\ piece.text = run.rows[r][c]
        <5>1. run.rows[r][c] \in Seq(Chars)
          BY <1>3, RunType
        <5>2. Column \in Types
          BY DetectionAssumption
        <5> QED BY <5>1, <5>2 DEF Pieces
      <4> HIDE DEF piece
      <4>3. <<piece>> \in Seq(Pieces) /\ TextOf(<<piece>>) = piece.text
        BY <4>2, OneLong, RestoreOne
      <4> QED BY <4>1, <4>2, <4>3
    <3> QED BY <3>2, <3>3
  <2> QED BY <1>1, <2>1 DEF Restored
<1>12. (HeardIn(heard) /\ Cached)'
  BY <1>1 DEF Cached, HeardIn
<1>13. Known'
  <2>1. registry' = Register(registry, out')
    BY DEF ScanRow
  <2> QED BY <1>1, <1>5, <1>11, <2>1, RegisteredStep
<1>14. QED
  BY <1>5, <1>8, <1>9, <1>10, <1>11, <1>12, <1>13 DEF IInv

\* What was found stays what detecting alone gives while nothing is detected.
LEMMA AnsweredStays ==
  ASSUME Answered, HeardIn(heard), Cached, UNCHANGED <<run, found, templates, cells, heard>>
  PROVE  Answered' /\ HeardIn(heard)' /\ Cached'
<1>1. \A u : /\ Text(u)' = Text(u) /\ LangOf(u)' = LangOf(u)
             /\ MaskedText(u)' = MaskedText(u) /\ Asked(u)' = Asked(u)
  BY SameRun
<1>2. Answered'
  BY <1>1 DEF Answered
<1>3. (HeardIn(heard) /\ Cached)'
  BY DEF Cached, HeardIn
<1>4. QED
  BY <1>2, <1>3

\* The cells of looked-at units stay as they are while none is written.
LEMMA HiddenStays ==
  ASSUME Hidden, UNCHANGED <<run, found, pending, out>>
  PROVE  Hidden'
<1>1. \A u, i : Value(u, i)' = Value(u, i)
  BY SameRun
<1>2. \A u, i : Split(u, found[u], i)' = Split(u, found[u], i)
  BY DEF Split, Offset, JoinedUpTo, Value
<1>3. QED
  BY <1>1, <1>2 DEF Hidden

\* Handing the rows to the engine keeps the invariant.
LEMMA BatchStep ==
  ASSUME IInv, Batch
  PROVE  IInv'
<1>1. /\ Shape /\ Waiting /\ HeardIn(heard) /\ Cached /\ Answered /\ Hidden /\ Restored /\ Known
      /\ pending # <<>> /\ todo' = DOMAIN pending /\ phase' = "detect"
      /\ UNCHANGED <<run, row, pending, found, out, registry, templates, cells, heard>>
  BY DEF IInv, Batch
<1>2. DOMAIN pending # {}
  <2>1. pending \in Seq(AllUnits)
    BY <1>1 DEF Waiting
  <2>2. Len(pending) \in Nat /\ Len(pending) # 0 /\ DOMAIN pending = 1..Len(pending)
    BY <1>1, <2>1, EmptySeq, LenProperties
  <2>3. 1 \in DOMAIN pending
    BY <2>2
  <2> QED BY <2>3
<1>3. Waiting'
  <2>1. AllUnits' = AllUnits /\ \A r : UnitsOf(r)' = UnitsOf(r)
    BY <1>1, SameRun
  <2> QED BY <1>1, <1>2, <2>1 DEF Waiting
<1>4. Shape' /\ Restored' /\ Known'
  BY <1>1 DEF Shape, Restored, Known
<1>5. QED
  BY <1>1, <1>3, <1>4, AnsweredStays, HiddenStays DEF IInv

\* Writing the file, or giving up, keeps the invariant.
LEMMA EndStep ==
  ASSUME IInv, DetectFails \/ Write
  PROVE  IInv'
<1>1. /\ Shape /\ Waiting /\ HeardIn(heard) /\ Cached /\ Answered /\ Hidden /\ Restored /\ Known
      /\ \/ phase' = "failed"
         \/ phase' = "written" /\ row > Len(run.rows) /\ pending = <<>>
      /\ UNCHANGED <<run, row, pending, todo, found, out, registry, templates, cells, heard>>
  BY DEF IInv, DetectFails, Write
<1>2. Waiting'
  <2>1. AllUnits' = AllUnits /\ \A r : UnitsOf(r)' = UnitsOf(r)
    BY <1>1, SameRun
  <2> QED BY <1>1, <2>1 DEF Waiting
<1>3. Shape' /\ Restored' /\ Known'
  BY <1>1 DEF Shape, Restored, Known
<1>4. QED
  BY <1>1, <1>2, <1>3, AnsweredStays, HiddenStays DEF IInv

\* A stutter keeps the invariant.
LEMMA StutterStep ==
  ASSUME IInv, UNCHANGED vars
  PROVE  IInv'
<1>1. /\ Shape /\ Waiting /\ HeardIn(heard) /\ Cached /\ Answered /\ Hidden /\ Restored /\ Known
      /\ UNCHANGED <<run, row, pending, todo, found, out, registry, phase, templates, cells, heard>>
  BY DEF IInv, vars
<1>2. Waiting'
  <2>1. AllUnits' = AllUnits /\ \A r : UnitsOf(r)' = UnitsOf(r)
    BY <1>1, SameRun
  <2> QED BY <1>1, <2>1 DEF Waiting
<1>3. Shape' /\ Restored' /\ Known'
  BY <1>1 DEF Shape, Restored, Known
<1>4. QED
  BY <1>1, <1>2, <1>3, AnsweredStays, HiddenStays DEF IInv

\* The waiting unit that holds a cell is the only one there is.
LEMMA OneHolder ==
  ASSUME Shape, Waiting, NEW u \in DOMAIN found \union ToSet(pending), NEW i \in DOMAIN u.cells,
         NEW v \in DOMAIN found \union ToSet(pending), v.row = u.row, u.cells[i] \in ToSet(v.cells)
  PROVE  v = u
<1>1. /\ u.row \in DOMAIN run.rows /\ u \in ToSet(UnitsOf(u.row)) /\ v \in ToSet(UnitsOf(u.row))
      /\ run \in Requests
  BY DEF Shape, Waiting
<1>2. u.cells[i] \in ToSet(u.cells)
  BY DEF ToSet
<1>3. \A a, b \in ToSet(UnitsOf(u.row)) : ToSet(a.cells) \intersect ToSet(b.cells) # {} => a = b
  BY <1>1, UnitsOfRow
<1>4. QED
  BY <1>1, <1>2, <1>3

\* Replacing the hits of the batch keeps the invariant: each cell gets the hits
\* of its own unit and restores to what it held.
LEMMA ApplyStep ==
  ASSUME IInv, Apply
  PROVE  IInv'
<1> DEFINE Holding(r, c) == {u \in ToSet(pending) : u.row = r /\ c \in ToSet(u.cells)}
           holder(r, c) == CHOOSE v \in Holding(r, c) : TRUE
           place(r, c) == CHOOSE k \in DOMAIN holder(r, c).cells : holder(r, c).cells[k] = c
           spliced(r, c) ==
             ReplaceEntities(run.rows[r][c], Split(holder(r, c), found[holder(r, c)], place(r, c)))
<1>1. /\ Shape /\ Waiting /\ HeardIn(heard) /\ Cached /\ Answered /\ Hidden /\ Restored /\ Known
      /\ phase = "apply" /\ phase' = "scan" /\ pending' = <<>>
      /\ UNCHANGED <<run, row, todo, found, templates, cells, heard>>
  BY DEF IInv, Apply
<1>2. out' = [r \in DOMAIN out |-> [c \in DOMAIN out[r] |->
                IF Holding(r, c) = {} THEN out[r][c] ELSE spliced(r, c)]]
  BY DEF Apply
<1>3. run \in Requests /\ todo = {} /\ ToSet(pending) \subseteq DOMAIN found
  BY <1>1 DEF Shape, Waiting, ToSet
<1>4. ASSUME NEW u \in ToSet(pending)
      PROVE  u \in DOMAIN found /\ u \in AllUnits /\ u.row \in DOMAIN run.rows /\ Distinct(u.cells)
             /\ \A i \in DOMAIN u.cells : u.cells[i] \in DOMAIN run.rows[u.row]
  <2>1. u \in DOMAIN found /\ u.row \in DOMAIN run.rows /\ u \in ToSet(UnitsOf(u.row))
    BY <1>1, <1>3 DEF Waiting
  <2>2. u \in AllUnits
    BY <1>3, <2>1, UnitOfRow
  <2>3. Distinct(u.cells)
    BY <2>2 DEF AllUnits, UnitsIn
  <2>4. \A i \in DOMAIN u.cells : u.cells[i] \in DOMAIN run.rows[u.row]
    BY <1>3, <2>2, ValueType
  <2> QED BY <2>1, <2>2, <2>3, <2>4
<1>5. ASSUME NEW r \in DOMAIN run.rows, NEW c \in DOMAIN run.rows[r], Holding(r, c) # {}
      PROVE  /\ holder(r, c) \in ToSet(pending) /\ holder(r, c).row = r
             /\ place(r, c) \in DOMAIN holder(r, c).cells /\ holder(r, c).cells[place(r, c)] = c
  <2>1. holder(r, c) \in Holding(r, c)
    BY <1>5
  <2>2. \E k \in DOMAIN holder(r, c).cells : holder(r, c).cells[k] = c
    BY <2>1 DEF ToSet
  <2> HIDE DEF holder
  <2> QED BY <2>1, <2>2
<1>6. ASSUME NEW r \in DOMAIN run.rows, NEW c \in DOMAIN run.rows[r], Holding(r, c) # {}
      PROVE  spliced(r, c) \in Seq(Pieces) /\ TextOf(spliced(r, c)) = run.rows[r][c]
  <2> DEFINE u == holder(r, c)
             i == place(r, c)
             hits == Split(u, found[u], i)
  <2>1. u \in ToSet(pending) /\ u.row = r /\ i \in DOMAIN u.cells /\ u.cells[i] = c
    BY <1>5, <1>6
  <2> HIDE DEF u, i, Holding, holder, place
  <2>2. u \in DOMAIN found /\ u \in AllUnits
    BY <1>4, <2>1
  <2>3. found[u] \in Findings(Len(Text(u))) /\ Apart(found[u])
    BY <1>1, <2>2, FoundFits
  <2>4. hits \in Findings(Len(Value(u, i))) /\ Apart(hits)
    BY <1>3, <2>1, <2>2, <2>3, SplitFinds
  <2>5. Value(u, i) = run.rows[r][c]
    BY <2>1 DEF Value
  <2>6. run.rows[r][c] \in Seq(Chars)
    BY <1>3, RunType
  <2> HIDE DEF hits
  <2>7. /\ ReplaceEntities(run.rows[r][c], hits) \in Seq(Pieces)
        /\ TextOf(ReplaceEntities(run.rows[r][c], hits)) = run.rows[r][c]
    BY <2>4, <2>5, <2>6, ReplaceRestores
  <2> QED BY <2>7 DEF hits, u, i
<1> HIDE DEF holder, place, spliced
<1>7. /\ DOMAIN out' = DOMAIN out /\ \A r \in DOMAIN out : DOMAIN out'[r] = DOMAIN out[r]
      /\ \A r \in DOMAIN run.rows : \A c \in DOMAIN run.rows[r] :
           out'[r][c] = IF Holding(r, c) = {} THEN out[r][c] ELSE spliced(r, c)
  <2>1. DOMAIN out = DOMAIN run.rows /\ \A r \in DOMAIN out : DOMAIN out[r] = DOMAIN run.rows[r]
    BY <1>1 DEF Shape
  <2> HIDE DEF Holding
  <2> QED BY <1>2, <2>1
<1>8. Shape'
  BY <1>1, <1>7 DEF Shape
<1>9. Waiting'
  <2>1. AllUnits' = AllUnits /\ \A r : UnitsOf(r)' = UnitsOf(r)
    BY <1>1, SameRun
  <2>2. ToSet(pending') = {} /\ pending' \in Seq(AllUnits)
    BY <1>1, EmptySeq DEF ToSet
  <2>3. DOMAIN found \union ToSet(pending) = DOMAIN found' \union ToSet(pending')
    BY <1>1, <1>3, <2>2
  <2>4. todo' \subseteq DOMAIN pending' /\ phase' = "scan"
    BY <1>1, <1>3
  <2>5. \A u \in DOMAIN found' \union ToSet(pending') :
          u.row \in DOMAIN run' .rows /\ u.row < row' /\ u \in ToSet(UnitsOf(u.row)')
    BY <1>1, <2>1, <2>3 DEF Waiting
  <2>6. \A r \in DOMAIN run' .rows :
          r < row' => ToSet(UnitsOf(r)') \subseteq DOMAIN found' \union ToSet(pending')
    BY <1>1, <2>1, <2>3 DEF Waiting
  <2> QED BY <2>1, <2>2, <2>4, <2>5, <2>6 DEF Waiting
<1>10. ASSUME NEW u \in DOMAIN found, NEW i \in DOMAIN u.cells
       PROVE  out'[u.row][u.cells[i]] = ReplaceEntities(Value(u, i), Split(u, found[u], i))
  <2> DEFINE r == u.row
             c == u.cells[i]
  <2>1. u.row \in DOMAIN run.rows /\ u \in ToSet(UnitsOf(u.row))
    BY <1>1 DEF Waiting
  <2>2. u \in AllUnits
    BY <1>3, <2>1, UnitOfRow
  <2>3. c \in DOMAIN run.rows[r] /\ Distinct(u.cells)
    BY <1>3, <2>2, ValueType DEF AllUnits, UnitsIn
  <2>4. \A v \in Holding(r, c) : v = u
    BY <1>1, OneHolder
  <2>5. CASE u \in ToSet(pending)
    <3>1. u \in Holding(r, c)
      BY <2>5 DEF ToSet
    <3>2. holder(r, c) \in Holding(r, c)
      BY <3>1 DEF holder
    <3>3. holder(r, c) = u
      BY <2>4, <3>2
    <3>4. place(r, c) = i
      <4>1. place(r, c) \in DOMAIN u.cells /\ u.cells[place(r, c)] = c
        <5> HIDE DEF Holding
        <5> QED BY <1>5, <2>1, <2>3, <3>1, <3>3
      <4> QED BY <2>3, <4>1 DEF Distinct
    <3>5. out'[r][c] = spliced(r, c)
      <4> HIDE DEF Holding, r, c
      <4> QED BY <1>7, <2>1, <2>3, <3>1 DEF r
    <3> QED BY <3>3, <3>4, <3>5 DEF spliced, Value
  <2>6. CASE u \notin ToSet(pending)
    <3>1. Holding(r, c) = {}
      BY <2>4, <2>6
    <3>2. out'[r][c] = out[r][c]
      <4> HIDE DEF Holding, r, c
      <4> QED BY <1>7, <2>1, <2>3, <3>1 DEF r
    <3> QED BY <1>1, <2>6, <3>2 DEF Hidden
  <2> QED BY <2>5, <2>6
<1>11. Hidden'
  <2>1. \A u, i : Value(u, i)' = Value(u, i)
    BY <1>1, SameRun
  <2>2. \A u, i : Split(u, found[u], i)' = Split(u, found[u], i)
    BY <1>1 DEF Split, Offset, JoinedUpTo, Value
  <2>3. DOMAIN found' = DOMAIN found
    BY <1>1
  <2> QED BY <1>10, <2>1, <2>2, <2>3 DEF Hidden
<1>12. Restored'
  <2>1. ASSUME NEW r \in DOMAIN run.rows, NEW c \in DOMAIN run.rows[r]
        PROVE  out'[r][c] \in Seq(Pieces) /\ TextOf(out'[r][c]) = run.rows[r][c]
    <3>1. out[r][c] \in Seq(Pieces) /\ TextOf(out[r][c]) = run.rows[r][c]
      BY <1>1 DEF Restored
    <3> HIDE DEF Holding
    <3> QED BY <1>6, <1>7, <3>1
  <2> QED BY <1>1, <2>1 DEF Restored
<1>13. Answered' /\ HeardIn(heard)' /\ Cached'
  BY <1>1, AnsweredStays
<1>14. Known'
  <2>1. registry' = Register(registry, out')
    BY DEF Apply
  <2> QED BY <1>1, <1>8, <1>12, <2>1, RegisteredStep
<1>15. QED
  BY <1>8, <1>9, <1>11, <1>12, <1>13, <1>14 DEF IInv

-----------------------------------------------------------------------------
(* The theorems *)

\* A run starts in the invariant.
LEMMA InitIInv ==
  ASSUME Init
  PROVE  IInv
<1>1. /\ run \in Requests /\ row = 1 /\ pending = <<>> /\ todo = {} /\ found = <<>>
      /\ out = [r \in DOMAIN run.rows |-> [c \in DOMAIN run.rows[r] |-> PlainText(run.rows[r][c])]]
      /\ phase = "scan" /\ templates = <<>> /\ cells = <<>> /\ heard = <<>>
  BY DEF Init
<1>2. /\ Len(run.rows) \in Nat /\ DOMAIN run.rows = 1..Len(run.rows)
      /\ \A r \in DOMAIN run.rows : \A c \in DOMAIN run.rows[r] : run.rows[r][c] \in Seq(Chars)
  BY <1>1, RunType
<1>3. Shape
  BY <1>1, <1>2 DEF Shape
<1>4. DOMAIN found = {} /\ DOMAIN heard = {} /\ ToSet(pending) = {}
  BY <1>1, EmptySeq DEF ToSet
<1>5. Waiting
  <2>1. pending \in Seq(AllUnits)
    BY <1>1, EmptySeq
  <2>2. \A r \in DOMAIN run.rows : ~(r < row)
    BY <1>1, <1>2
  <2> QED BY <1>1, <1>4, <2>1, <2>2 DEF Waiting
<1>6. HeardIn(heard) /\ Answered /\ Hidden
  BY <1>4 DEF HeardIn, Answered, Hidden
<1>7. Cached
  <2>1. Len(<<>>) = 0 /\ MaxEntries \in Nat
    BY EmptySeq, DetectionAssumption
  <2> QED BY <1>1, <2>1, EmptySeq DEF Cached
<1>8. Restored
  BY <1>1, <1>2, PlainRestores DEF Restored
<1>9. Known
  <2>1. Places(out) = {}
    <3>1. ASSUME NEW r \in DOMAIN run.rows, NEW c \in DOMAIN run.rows[r]
          PROVE  \A i \in DOMAIN out[r][c] : out[r][c][i].type = Plain
      BY <1>1, <3>1 DEF PlainText
    <3>2. DOMAIN out = DOMAIN run.rows /\ \A r \in DOMAIN out : DOMAIN out[r] = DOMAIN run.rows[r]
      BY <1>3 DEF Shape
    <3> QED BY <3>1, <3>2 DEF Places
  <2>2. DOMAIN registry = {}
    BY EmptySeq DEF Init
  <2> QED BY <2>1, <2>2 DEF Known, KeysRight
<1>10. QED
  BY <1>3, <1>5, <1>6, <1>7, <1>8, <1>9 DEF IInv

\* Every step keeps the invariant.
LEMMA NextIInv ==
  ASSUME IInv, [Next]_vars
  PROVE  IInv'
<1>1. CASE ScanRow
  BY <1>1, ScanRowStep
<1>2. CASE Batch
  BY <1>2, BatchStep
<1>3. CASE DetectRow
  <2>1. phase = "detect" /\ \E hits : Told(pending[Foremost], hits)
    BY <1>3, DetectRowTells DEF DetectRow
  <2> QED BY <2>1, ToldStep
<1>4. CASE DetectInCell
  <2>1. phase = "detect" /\ \E hits : Told(pending[Foremost], hits)
    BY <1>4, DetectInCellTells DEF DetectInCell
  <2> QED BY <2>1, ToldStep
<1>5. CASE DetectFails \/ Write
  BY <1>5, EndStep
<1>6. CASE Apply
  BY <1>6, ApplyStep
<1>7. CASE UNCHANGED vars
  BY <1>7, StutterStep
<1>8. QED
  BY <1>1, <1>2, <1>3, <1>4, <1>5, <1>6, <1>7 DEF Next

\* The invariant holds throughout a run.
LEMMA Inductive == Spec => []IInv
<1>1. IInv /\ [Next]_vars => IInv'
  BY NextIInv
<1>2. QED
  BY <1>1, InitIInv, PTL DEF Spec

\* A unit that was looked at, and what was found of it.
LEMMA FoundUnit ==
  ASSUME IInv, NEW u \in DOMAIN found
  PROVE  /\ run \in Requests /\ u \in AllUnits /\ u.row \in DOMAIN run.rows
         /\ Text(u) \in Seq(Chars) /\ Len(Text(u)) \in Nat
         /\ ReportFor(u) = ToldBy(heard, Asked(u))
         /\ ReportFor(u) \in Findings(Len(Text(u)))
         /\ found[u] = Detected(Text(u), LangOf(u), ReportFor(u))
         /\ found[u] \in Findings(Len(Text(u))) /\ Apart(found[u])
<1>1. /\ Shape /\ Waiting /\ HeardIn(heard) /\ Answered
      /\ run \in Requests /\ u.row \in DOMAIN run.rows /\ u \in ToSet(UnitsOf(u.row))
  BY DEF IInv, Shape, Waiting
<1>2. u \in AllUnits
  BY <1>1, UnitOfRow
<1>3. ReportFor(u) = ToldBy(heard, Asked(u))
  BY DEF ReportFor, ToldBy
<1>4. ReportFor(u) \in Findings(Len(Text(u)))
  BY <1>1, <1>2, <1>3, ToldFits
<1>5. found[u] = Detected(Text(u), LangOf(u), ReportFor(u))
  BY <1>1, <1>3 DEF Answered
<1>6. QED
  BY <1>1, <1>2, <1>3, <1>4, <1>5, FoundFits, UnitAsks

\* The types, a hit within its text, and the limit of the caches
\* (_cell_cache_max_entries, _ner_template_cache_max_entries).
THEOREM TypeCorrect == Spec => []TypeOK
<1>1. IInv => TypeOK
  <2>1. SUFFICES ASSUME IInv
                 PROVE  TypeOK
    OBVIOUS
  <2>2. Shape /\ Waiting /\ Cached
    BY <2>1 DEF IInv
  <2>3. ASSUME NEW u \in DOMAIN found, NEW x \in found[u]
        PROVE  1 <= x.start /\ x.start < x.end /\ x.end <= Len(Text(u)) + 1
    <3>1. x \in HitsIn(Len(Text(u)))
      BY <2>1, FoundUnit DEF Findings
    <3> QED BY <3>1 DEF HitsIn
  <2> QED BY <2>2, <2>3 DEF TypeOK, Shape, Waiting, Cached
<1>2. QED
  BY <1>1, Inductive, PTL

\* What is found in a row depends on nothing but the row and the analyser
\* (detect_many, _get_or_analyze_ner_templates, _detect_in_cell_cached).
THEOREM FoundAlone == Spec => []AsIfAlone
<1>1. IInv => AsIfAlone
  <2>1. SUFFICES ASSUME IInv
                 PROVE  AsIfAlone
    OBVIOUS
  <2>2. Shape /\ Waiting /\ Answered
    BY <2>1 DEF IInv
  <2>3. \A u \in DOMAIN found :
          /\ ShouldRunNer(MaskedText(u)) => Asked(u) \in DOMAIN heard
          /\ found[u] = Detected(Text(u), LangOf(u), ReportFor(u))
    BY <2>1, <2>2, FoundUnit DEF Answered
  <2>4. ASSUME phase = "written", NEW r \in DOMAIN run.rows
        PROVE  ToSet(UnitsOf(r)) \subseteq DOMAIN found
    <3>1. ToSet(pending) = {} /\ row > Len(run.rows)
      BY <2>2, <2>4, EmptySeq DEF Waiting, ToSet
    <3>2. r < row
      BY <2>2, <3>1, RunType DEF Shape
    <3> QED BY <2>2, <3>1, <3>2 DEF Waiting
  <2> QED BY <2>3, <2>4 DEF AsIfAlone
<1>2. QED
  BY <1>1, Inductive, PTL

\* What a rule found in a cell is a token of the written file, unless the
\* analyser was as sure of something that overlaps it (demo_rules.py).
THEOREM RulesPrevail == Spec => []RulesWin
<1>1. IInv => RulesWin
  <2>1. SUFFICES ASSUME IInv, phase = "written", NEW u \in DOMAIN found, NEW i \in DOMAIN u.cells,
                        NEW x \in Certain(Text(u), LangOf(u)), Split(u, {x}, i) # {},
                        \A y \in ReportFor(u) : Overlap(x, y) => y.score < Sure
                 PROVE  [type |-> x.type, text |-> Cut(Text(u), x)] \in ToSet(out[u.row][u.cells[i]])
    BY DEF RulesWin
  <2>2. /\ run \in Requests /\ u \in AllUnits /\ Text(u) \in Seq(Chars)
        /\ ReportFor(u) \in Findings(Len(Text(u)))
        /\ found[u] = Detected(Text(u), LangOf(u), ReportFor(u))
        /\ found[u] \in Findings(Len(Text(u))) /\ Apart(found[u])
    BY <2>1, FoundUnit
  <2>3. x \in found[u]
    <3> DEFINE report == ReportFor(u)
               cover == AllRules(Text(u), LangOf(u)) \union report
    <3>1. AllRules(Text(u), LangOf(u)) \union report \subseteq cover
      OBVIOUS
    <3> HIDE DEF cover, report
    <3>2. \A z \in Certain(Text(u), LangOf(u)) :
            (\A y \in report : Overlap(z, y) => y.score < Sure) =>
              z \in Detected(Text(u), LangOf(u), report)
      BY <2>2, <3>1, DetectedSettles DEF report
    <3> QED BY <2>1, <2>2, <3>2 DEF report
  <2>4. x \in Inside(u, {x}, i)
    BY <2>1, SplitIs DEF Inside
  <2>5. x \in Inside(u, found[u], i)
    BY <2>3, <2>4 DEF Inside
  <2> DEFINE v == Value(u, i)
             y == Local(u, i, x)
             hits == Split(u, found[u], i)
  <2>6. y.type = x.type /\ Cut(v, y) = Cut(Text(u), x)
    <3>1. found[u] \in SUBSET HitsIn(Len(Text(u)))
      BY <2>2 DEF Findings
    <3> QED BY <2>2, <2>5, <3>1, LocalType
  <2>7. y \in hits
    BY <2>5, SplitIs
  <2>8. hits \in Findings(Len(v)) /\ Apart(hits) /\ v \in Seq(Chars)
    BY <2>2, SplitFinds, ValueType
  <2>9. out[u.row][u.cells[i]] = ReplaceEntities(v, hits)
    <3>1. Hidden /\ ToSet(pending) = {}
      BY <2>1, EmptySeq DEF IInv, Waiting, ToSet
    <3> QED BY <3>1 DEF Hidden
  <2> HIDE DEF v, y, hits
  <2>10. Shown(v, y) \in ToSet(ReplaceEntities(v, hits))
    BY <2>7, <2>8, ReplaceRestores
  <2>11. Shown(v, y) = [type |-> x.type, text |-> Cut(Text(u), x)]
    BY <2>6 DEF Shown
  <2> QED BY <2>9, <2>10, <2>11
<1>2. QED
  BY <1>1, Inductive, PTL

\* Of overlapping hits one is hidden that is as good as those given up for it
\* (_merge_entities, _resolve_overlaps, extract_entities).
THEOREM ClustersKept == Spec => []EveryClusterKept
<1>1. IInv => EveryClusterKept
  <2>1. SUFFICES ASSUME IInv, NEW u \in DOMAIN found
                 PROVE  \A x \in AllRules(Text(u), LangOf(u)) \union ReportFor(u) :
                          \E y \in found[u] :
                            y.score >= x.score
                            /\ Linked(x, y, AllRules(Text(u), LangOf(u)) \union ReportFor(u))
    <3> DEFINE hits(v) ==
          (UNION {Hits(rule, Text(v), Sure, 1) : rule \in DemoRules})
          \union (UNION {Hits(SpecsFor(LangOf(v))[k], Text(v), Sure, 2) : k \in DOMAIN SpecsFor(LangOf(v))})
          \union ReportFor(v)
    <3>1. EveryClusterKept = (phase = "apply" => \A v \in DOMAIN found :
            \A x \in hits(v) : \E y \in found[v] : y.score >= x.score /\ Linked(x, y, hits(v)))
      BY DEF EveryClusterKept
    <3>2. \A v : hits(v) = AllRules(Text(v), LangOf(v)) \union ReportFor(v)
      <4>1. TAKE v
      <4> DEFINE demo == UNION {Hits(rule, Text(v), Sure, 1) : rule \in DemoRules}
                 specs == UNION {Hits(SpecsFor(LangOf(v))[k], Text(v), Sure, 2) :
                                   k \in DOMAIN SpecsFor(LangOf(v))}
      <4>2. AllDemo(Text(v)) = demo
        BY DEF AllDemo
      <4>3. AllRegex(Text(v), LangOf(v)) = specs
        BY DEF AllRegex
      <4>4. hits(v) = demo \union specs \union ReportFor(v)
        OBVIOUS
      <4> HIDE DEF demo, specs, hits
      <4>5. AllRules(Text(v), LangOf(v)) = AllDemo(Text(v)) \union AllRegex(Text(v), LangOf(v))
        BY DEF AllRules
      <4> QED BY <4>2, <4>3, <4>4, <4>5
    <3> HIDE DEF hits
    <3> QED BY <3>1, <3>2
  <2>2. /\ Text(u) \in Seq(Chars) /\ ReportFor(u) \in Findings(Len(Text(u)))
        /\ found[u] = Detected(Text(u), LangOf(u), ReportFor(u))
    BY <2>1, FoundUnit
  <2> DEFINE report == ReportFor(u)
             cover == AllRules(Text(u), LangOf(u)) \union report
  <2>3. cover \subseteq cover
    OBVIOUS
  <2>4. \A x \in AllRules(Text(u), LangOf(u)) \union report :
          \E y \in Detected(Text(u), LangOf(u), report) : y.score >= x.score /\ Linked(x, y, cover)
    <3>1. AllRules(Text(u), LangOf(u)) \union report \subseteq cover
      OBVIOUS
    <3> HIDE DEF cover, report
    <3> QED BY <2>2, <3>1, DetectedSettles DEF report
  <2> QED BY <2>2, <2>4
<1>2. QED
  BY <1>1, Inductive, PTL

\* The pieces of a written file make up its cells, and each token comes back as
\* a value of its type that is normalised as the cell's own is
\* (replace_entities after the split, get_or_create_token, restore_tokens).
THEOREM SheetRestored == Spec => []RestoresSheet
<1>1. IInv => RestoresSheet
  <2> SUFFICES ASSUME IInv, NEW r \in DOMAIN out, NEW c \in DOMAIN out[r]
               PROVE  /\ TextOf(out[r][c]) = run.rows[r][c]
                      /\ \A i \in DOMAIN out[r][c] :
                           LET piece == out[r][c][i]
                           IN piece.type # Plain =>
                                Normalized(Original(c, piece), piece.type) = Normalized(piece.text, piece.type)
    BY DEF RestoresSheet
  <2>1. TextOf(out[r][c]) = run.rows[r][c]
    BY DEF IInv, Shape, Restored
  <2>2. ASSUME NEW i \in DOMAIN out[r][c], out[r][c][i].type # Plain
        PROVE  Normalized(Original(c, out[r][c][i]), out[r][c][i].type)
                 = Normalized(out[r][c][i].text, out[r][c][i].type)
    <3> DEFINE piece == out[r][c][i]
               key == MappingKey(piece.type, c, piece.text)
               p == <<r, c, i>>
    <3>1. p \in Places(out)
      BY <2>2 DEF Places
    <3>2. KeyAt(out, p) = key
      BY DEF KeyAt, TextAt
    <3>3. key \in DOMAIN registry /\ Normalized(registry[key], key.type) = key.value
      <4> HIDE DEF key, p
      <4> QED BY <3>1, <3>2 DEF IInv, Known, KeysRight
    <3>4. key.type = piece.type /\ key.value = Normalized(piece.text, piece.type)
      BY DEF MappingKey
    <3>5. Original(c, piece) = registry[key]
      BY <2>2 DEF Original
    <3> QED BY <3>3, <3>4, <3>5
  <2> QED BY <2>1, <2>2
<1>2. QED
  BY <1>1, Inductive, PTL
=============================================================================
