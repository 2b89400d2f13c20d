--------------------------- MODULE TokenStoreProofs ---------------------------
(***************************************************************************)
(* What the registry operators guarantee, for every choice of namespaces,  *)
(* values and normalisation.                                               *)
(***************************************************************************)
EXTENDS TokenStore, TLAPS

\* The texts of two namespaces' tokens differ.
PrefixesInjective ==
  \A m, n \in Namespaces : PrefixOf[m] = PrefixOf[n] => m = n

LEMMA KeyOfType ==
  ASSUME NEW item \in Items
  PROVE  KeyOf(item) \in Keys /\ KeyOf(item)[1] = item.ns
BY StoreAssumption DEF KeyOf, Keys, Items

\* An emptied registry is a registry, and consistent.
LEMMA EmptyStoreOK ==
  ASSUME NEW era \in Nat
  PROVE  EmptyStore(era) \in Stores /\ StoreOK(EmptyStore(era))
<1>1. EmptyStore(era) \in Stores
  BY DEF EmptyStore, Stores
<1>2. Registered(EmptyStore(era)) = {}
  BY DEF EmptyStore, Registered
<1>3. QED
  BY <1>1, <1>2 DEF StoreOK, NumbersDistinct, NumbersCounted, OriginalsMatch, LookUpBacked

LEMMA RegisterType ==
  ASSUME NEW g \in Stores, NEW k \in Keys, NEW n \in Nat, NEW val \in Values, NEW f \in Sources
  PROVE  Register(g, k, n, val, f) \in Stores
<1>1. /\ g.cnt \in [Namespaces -> Nat] /\ g.num \in [Keys -> Nat]
      /\ g.orig \in [Keys -> Values \union {NoValue}]
      /\ g.rev \in [Readable -> Values \union {NoValue}]
      /\ g.src \in [Keys -> SUBSET Sources] /\ g.era \in Nat
  BY DEF Stores
<1>2. /\ [g.cnt EXCEPT ![k[1]] = n] \in [Namespaces -> Nat]
      /\ [g.num EXCEPT ![k] = n] \in [Keys -> Nat]
      /\ [g.orig EXCEPT ![k] = val] \in [Keys -> Values \union {NoValue}]
      /\ [g.src EXCEPT ![k] = {f}] \in [Keys -> SUBSET Sources]
  BY <1>1
<1>3. [t \in Readable |-> IF t = TokenText(k[1], n) THEN val ELSE g.rev[t]]
        \in [Readable -> Values \union {NoValue}]
  BY <1>1
<1>4. QED
  BY <1>1, <1>2, <1>3 DEF Register, Stores

\* What makes a registry consistent does not depend on the source files.
LEMMA SameCoreOK ==
  ASSUME NEW g, NEW h, SameCore(g, h), StoreOK(g)
  PROVE  StoreOK(h)
<1>1. Registered(h) = Registered(g)
  BY DEF SameCore, Registered
<1>2. QED
  BY <1>1 DEF SameCore, StoreOK, NumbersDistinct, NumbersCounted, OriginalsMatch, LookUpBacked

\* A registry whose source files are replaced.
LEMMA SourcesReplaced ==
  ASSUME NEW g \in Stores, NEW src \in [Keys -> SUBSET Sources]
  PROVE  /\ [g EXCEPT !.src = src] \in Stores /\ SameCore(g, [g EXCEPT !.src = src])
         /\ [g EXCEPT !.src = src].src = src
<1>1. [g EXCEPT !.src = src] \in Stores
  BY DEF Stores
<1>2. QED
  BY <1>1 DEF Stores, SameCore

\* Noting a source file changes nothing else.
LEMMA NotedKeeps ==
  ASSUME NEW g \in Stores, NEW k \in Keys, NEW f \in Sources
  PROVE  /\ Noted(g, k, f) \in Stores /\ SameCore(g, Noted(g, k, f))
         /\ \A l \in Keys : g.src[l] \subseteq Noted(g, k, f).src[l]
<1> DEFINE src == [g.src EXCEPT ![k] = @ \union {f}]
<1>1. /\ g.src \in [Keys -> SUBSET Sources] /\ src \in [Keys -> SUBSET Sources]
      /\ \A l \in Keys : g.src[l] \subseteq src[l]
  BY DEF Stores
<1>2. Noted(g, k, f) = [g EXCEPT !.src = src]
  BY DEF Noted
<1> HIDE DEF src
<1>3. QED
  BY <1>1, <1>2, SourcesReplaced

\* Loading an exported state again brings back all of it but the source
\* files, of which the mappings in it keep those noted since.
LEMMA RolledBackKeeps ==
  ASSUME NEW u \in Stores, NEW g \in Stores
  PROVE  /\ RolledBack(u, g) \in Stores /\ SameCore(u, RolledBack(u, g))
         /\ \A l \in Keys :
              RolledBack(u, g).src[l] = IF u.num[l] = 0 THEN {} ELSE g.src[l]
<1> DEFINE src == [k \in Keys |-> IF u.num[k] = 0 THEN {} ELSE g.src[k]]
<1>1. src \in [Keys -> SUBSET Sources]
  BY DEF Stores
<1>2. RolledBack(u, g) = [u EXCEPT !.src = src]
  BY DEF RolledBack
<1>3. \A l \in Keys : src[l] = IF u.num[l] = 0 THEN {} ELSE g.src[l]
  OBVIOUS
<1> HIDE DEF src
<1>4. QED
  BY <1>1, <1>2, <1>3, SourcesReplaced

LEMMA MintType ==
  ASSUME NEW g \in Stores, NEW item \in Items, NEW f \in Sources
  PROVE  Mint(g, item, f) \in Stores
<1>1. KeyOf(item) \in Keys /\ item.ns \in Namespaces /\ item.val \in Values
  BY KeyOfType DEF Items
<1>2. g.cnt[item.ns] + 1 \in Nat
  BY <1>1 DEF Stores
<1>3. QED
  BY <1>1, <1>2, RegisterType, NotedKeeps DEF Mint

\* get_or_create_token never touches the token or the original of an existing
\* mapping, forgets none of its source files and leaves its own value with a
\* mapping.
LEMMA MintKeeps ==
  ASSUME NEW g \in Stores, NEW item \in Items, NEW f \in Sources
  PROVE  /\ \A k \in Keys : g.num[k] # 0 =>
              /\ Mint(g, item, f).num[k] = g.num[k] /\ Mint(g, item, f).orig[k] = g.orig[k]
              /\ g.src[k] \subseteq Mint(g, item, f).src[k]
         /\ Mint(g, item, f).num[KeyOf(item)] # 0
         /\ Mint(g, item, f).era = g.era
<1>1. KeyOf(item) \in Keys /\ item.ns \in Namespaces /\ item.val \in Values
  BY KeyOfType DEF Items
<1>2. g.cnt[item.ns] + 1 \in Nat /\ g.cnt[item.ns] + 1 # 0
  BY <1>1 DEF Stores
<1>3. CASE g.num[KeyOf(item)] # 0
  <2>1. Mint(g, item, f) = Noted(g, KeyOf(item), f)
    BY <1>3 DEF Mint
  <2>2. QED
    BY <1>1, <1>3, <2>1, NotedKeeps DEF SameCore
<1>4. CASE g.num[KeyOf(item)] = 0
  BY <1>1, <1>2, <1>4 DEF Mint, Register, Stores
<1>5. QED
  BY <1>3, <1>4

\* A new number differs from every number its counter gave out before.
LEMMA MintOK ==
  ASSUME NEW g \in Stores, NEW item \in Items, NEW f \in Sources, StoreOK(g)
  PROVE  StoreOK(Mint(g, item, f))
<1> DEFINE k == KeyOf(item)
           h == Mint(g, item, f)
           text == TokenText(k[1], g.cnt[k[1]] + 1)
<1>1. k \in Keys /\ k[1] = item.ns /\ k[1] \in Namespaces /\ item.val \in Values
  BY KeyOfType DEF Items
<1>2. CASE g.num[k] # 0
  <2>1. h = Noted(g, k, f)
    BY <1>2 DEF Mint
  <2>2. SameCore(g, h)
    BY <1>1, <2>1, NotedKeeps
  <2>3. QED
    BY <2>2, SameCoreOK
<1>3. CASE g.num[k] = 0
  <2>0. g.cnt[k[1]] + 1 \in Nat
    BY <1>1 DEF Stores
  <2>1. /\ h.num = [g.num EXCEPT ![k] = g.cnt[k[1]] + 1]
        /\ h.cnt = [g.cnt EXCEPT ![k[1]] = @ + 1]
        /\ h.orig = [g.orig EXCEPT ![k] = item.val]
        /\ h.rev = [t \in Readable |-> IF t = text THEN item.val ELSE g.rev[t]]
    BY <1>1, <1>3 DEF Mint, Register
  <2>2. \A l \in Keys : l # k => h.num[l] = g.num[l] /\ h.orig[l] = g.orig[l]
    BY <2>1 DEF Stores
  <2>3. h.num[k] = g.cnt[k[1]] + 1 /\ h.orig[k] = item.val
    BY <1>1, <2>1 DEF Stores
  <2>4. \A n \in Namespaces : h.cnt[n] >= g.cnt[n]
    BY <1>1, <2>1 DEF Stores
  <2>5. h.cnt[k[1]] = g.cnt[k[1]] + 1
    BY <1>1, <2>1 DEF Stores
  <2>6. \A l \in Registered(h) : l # k => l \in Registered(g)
    BY <2>2 DEF Registered
  <2>7. \A l \in Registered(g) : g.num[l] <= g.cnt[l[1]]
    BY DEF StoreOK, NumbersCounted
  <2>8. /\ g.cnt \in [Namespaces -> Nat] /\ g.num \in [Keys -> Nat]
        /\ \A l \in Keys : l[1] \in Namespaces
    BY DEF Stores, Keys
  <2>9. NumbersCounted(h)
    <3> SUFFICES ASSUME NEW l \in Registered(h)
                 PROVE  h.num[l] <= h.cnt[l[1]]
      BY DEF NumbersCounted
    <3>1. CASE l = k
      BY <3>1, <2>3, <2>5, <2>8, <1>1
    <3>2. CASE l # k
      <4>1. l \in Registered(g) /\ l \in Keys
        BY <3>2, <2>6 DEF Registered
      <4>2. g.num[l] <= g.cnt[l[1]] /\ h.num[l] = g.num[l]
        BY <4>1, <3>2, <2>2, <2>7
      <4>3. h.cnt[l[1]] >= g.cnt[l[1]] /\ h.cnt[l[1]] \in Nat
        BY <4>1, <2>4, <2>8, MintType DEF Stores
      <4>4. QED
        BY <4>1, <4>2, <4>3, <2>8
    <3>3. QED
      BY <3>1, <3>2
  <2>10. NumbersDistinct(h)
    <3> SUFFICES ASSUME NEW a \in Registered(h), NEW b \in Registered(h),
                        a[1] = b[1], h.num[a] = h.num[b]
                 PROVE  a = b
      BY DEF NumbersDistinct
    <3>0. a \in Keys /\ b \in Keys
      BY DEF Registered
    <3>1. CASE a # k /\ b # k
      <4>1. a \in Registered(g) /\ b \in Registered(g) /\ g.num[a] = g.num[b]
        BY <3>0, <3>1, <2>2, <2>6
      <4>2. QED
        BY <4>1 DEF StoreOK, NumbersDistinct
    <3>2. CASE a = k /\ b # k
      <4>1. b \in Registered(g) /\ g.num[b] = g.cnt[k[1]] + 1
        BY <3>0, <3>2, <2>2, <2>3, <2>6
      <4>2. QED
        BY <4>1, <3>0, <3>2, <2>7, <2>8
    <3>3. CASE a # k /\ b = k
      <4>1. a \in Registered(g) /\ g.num[a] = g.cnt[k[1]] + 1
        BY <3>0, <3>3, <2>2, <2>3, <2>6
      <4>2. QED
        BY <4>1, <3>0, <3>3, <2>7, <2>8
    <3>4. QED
      BY <3>1, <3>2, <3>3
  <2>11. OriginalsMatch(h)
    <3> SUFFICES ASSUME NEW l \in Registered(h)
                 PROVE  /\ h.orig[l] \in Values
                        /\ KeyOf([ns |-> l[1], val |-> h.orig[l]]) = l
      BY DEF OriginalsMatch
    <3>1. CASE l = k
      BY <3>1, <2>3, <1>1 DEF KeyOf
    <3>2. CASE l # k
      <4>1. l \in Registered(g) /\ h.orig[l] = g.orig[l]
        BY <3>2, <2>2, <2>6 DEF Registered
      <4>2. QED
        BY <4>1 DEF StoreOK, OriginalsMatch
    <3>3. QED
      BY <3>1, <3>2
  <2>12. LookUpBacked(h)
    <3> SUFFICES ASSUME NEW a \in Registered(h), h.num[a] <= MaxNumber
                 PROVE  \E l \in Registered(h) :
                          /\ TokenText(l[1], h.num[l]) = TokenText(a[1], h.num[a])
                          /\ h.rev[TokenText(a[1], h.num[a])] = h.orig[l]
      BY DEF LookUpBacked
    <3> DEFINE here == TokenText(a[1], h.num[a])
    <3>0. a \in Keys /\ h.num[a] \in 1..MaxNumber /\ here \in Readable
      <4>1. a \in Keys /\ h.num[a] \in Nat /\ h.num[a] # 0
        BY MintType DEF Registered, Stores
      <4>2. h.num[a] \in 1..MaxNumber
        BY <4>1, StoreAssumption
      <4>3. QED
        BY <4>1, <4>2, StoreAssumption DEF TokenText, Readable, Keys
    <3>1. k \in Registered(h)
      BY <1>1, <2>3, <2>8 DEF Registered
    <3>2. CASE here = text
      BY <3>0, <3>1, <3>2, <2>1, <2>3
    <3>3. CASE here # text
      <4>1. a # k
        BY <3>3, <2>3
      <4>2. a \in Registered(g) /\ h.num[a] = g.num[a]
        BY <4>1, <2>2, <2>6, <3>0
      <4>3. PICK l \in Registered(g) :
              /\ TokenText(l[1], g.num[l]) = here
              /\ g.rev[here] = g.orig[l]
        BY <4>2 DEF StoreOK, LookUpBacked
      <4>4. l \in Keys /\ l # k /\ l \in Registered(h)
        BY <1>3, <2>2 DEF Registered
      <4>5. h.rev[here] = g.rev[here]
        BY <3>0, <3>3, <2>1
      <4>6. QED
        BY <4>3, <4>4, <4>5, <2>2
    <3>4. QED
      BY <3>2, <3>3
  <2>13. QED
    BY <2>9, <2>10, <2>11, <2>12 DEF StoreOK
<1>4. QED
  BY <1>2, <1>3

\* With prefixes that tell namespaces apart the reverse lookup of a readable
\* token gives the original of its own mapping.
LEMMA LookUpRight ==
  ASSUME NEW g \in Stores, StoreOK(g), PrefixesInjective, NEW k \in Registered(g),
         g.num[k] <= MaxNumber
  PROVE  g.rev[TokenText(k[1], g.num[k])] = g.orig[k]
<1>1. PICK l \in Registered(g) :
        /\ TokenText(l[1], g.num[l]) = TokenText(k[1], g.num[k])
        /\ g.rev[TokenText(k[1], g.num[k])] = g.orig[l]
  BY DEF StoreOK, LookUpBacked
<1>2. PrefixOf[l[1]] = PrefixOf[k[1]] /\ g.num[l] = g.num[k]
  BY <1>1 DEF TokenText
<1>3. l[1] = k[1]
  BY <1>2 DEF PrefixesInjective, Registered, Keys
<1>4. l = k
  BY <1>2, <1>3 DEF StoreOK, NumbersDistinct
<1>5. QED
  BY <1>1, <1>4

\* Restoring a token the registry backs gives a value that normalises like
\* the one it stands for.
LEMMA RestorePieceRight ==
  ASSUME NEW g \in Stores, StoreOK(g), PrefixesInjective,
         NEW piece \in Pieces, Backs(g, piece),
         RestorePiece(g, piece).got # NoValue
  PROVE  Norm[piece.ns][RestorePiece(g, piece).got] = Norm[piece.ns][piece.val]
<1>1. CASE piece.num = 0
  BY <1>1 DEF RestorePiece
<1>2. CASE piece.num # 0
  <2> DEFINE k == KeyOf([ns |-> piece.ns, val |-> piece.val])
  <2>1. k \in Keys /\ k = <<piece.ns, Norm[piece.ns][piece.val]>>
    BY StoreAssumption DEF KeyOf, Keys, Pieces
  <2>2. g.num[k] = piece.num /\ k[1] = piece.ns
    BY <1>2, <2>1 DEF Backs, k
  <2>6. k \in Registered(g)
    BY <1>2, <2>1, <2>2 DEF Registered
  <2> HIDE DEF k
  <2>3. RestorePiece(g, piece).got = g.orig[k]
    BY <1>2, <2>2, <2>6, LookUpRight, StoreAssumption DEF RestorePiece, Recognised
  <2>4. KeyOf([ns |-> k[1], val |-> g.orig[k]]) = k
    BY <2>6 DEF StoreOK, OriginalsMatch
  <2>5. QED
    BY <2>1, <2>2, <2>3, <2>4 DEF KeyOf
<1>3. QED
  BY <1>1, <1>2
=============================================================================
