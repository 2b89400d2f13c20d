------------------------------ MODULE TokenStore ------------------------------
(***************************************************************************)
(* The token registry of a workspace (tokenizer/generator.py) as a value   *)
(* and the operators on it.                                                *)
(*                                                                         *)
(* A namespace is one token counter: an entity type (counter key           *)
(* "PERSON"), or a user-selected column (counter key "COL:<PREFIX>").      *)
(* PrefixOf gives the text a namespace puts in its tokens: it need not be  *)
(* injective, because a column called "Email" writes [EMAIL_00001], like   *)
(* the e-mail entity type does.  Norm is normalize_entity_value: a         *)
(* registry key is a namespace and a normalised value.                     *)
(***************************************************************************)
EXTENDS Integers

CONSTANTS
  Namespaces,  \* token counters: entity types and columns
  Prefixes,    \* prefix texts
  PrefixOf,    \* [Namespaces -> Prefixes]
  Values,      \* original values, as written in a document
  Norms,       \* normalised values
  Norm,        \* [Namespaces -> [Values -> Norms]]
  Sources,     \* names of the files values came from (source_file)
  NoValue,     \* "no value"
  MaxNumber    \* largest number the token patterns match (99999 in the code)

ASSUME StoreAssumption ==
  /\ PrefixOf \in [Namespaces -> Prefixes]
  /\ Norm \in [Namespaces -> [Values -> Norms]]
  /\ NoValue \notin Values
  /\ MaxNumber \in Nat

Keys == Namespaces \X Norms

\* One occurrence of a value in a document, as the detector reports it.
Items == [ns : Namespaces, val : Values]

(***************************************************************************)
(* A piece of an anonymised document: a token (num > 0, its text is        *)
(* PrefixOf[ns] and num) or, with num = 0, the value left in place.  val   *)
(* records what the piece stands for; for a token it is a ghost, which no  *)
(* operator reads to decide anything.                                      *)
(***************************************************************************)
Pieces == [ns : Namespaces, num : Nat, val : Values]

\* The visible text of a token.
TokenText(ns, num) == <<PrefixOf[ns], num>>

\* The texts the token patterns match have exactly five digits.
Readable == Prefixes \X (1..MaxNumber)

(***************************************************************************)
(* cnt    the counters;                                                    *)
(* num    the number minted for a key, 0 if none;                          *)
(* orig   the original value kept for a key, the first one seen;           *)
(* rev    get_reverse_lookup: the code builds it when it needs it from the *)
(*        mappings in the order they were registered, a later one replaces *)
(*        an earlier one with the same token; as no mapping changes its    *)
(*        token or original, Mint can keep it up to date;                  *)
(* src    the source_files of a mapping, the one part of it that changes;  *)
(* era    a ghost: how often this registry was emptied on purpose.         *)
(***************************************************************************)
Stores ==
  [cnt : [Namespaces -> Nat], num : [Keys -> Nat],
   orig : [Keys -> Values \union {NoValue}],
   rev : [Readable -> Values \union {NoValue}],
   src : [Keys -> SUBSET Sources], era : Nat]

\* Defective: the counters restart one too low.
EmptyStoreOffByOne(era) ==
  [cnt  |-> [n \in Namespaces |-> -1], num |-> [k \in Keys |-> 0],
   orig |-> [k \in Keys |-> NoValue], rev |-> [t \in Readable |-> NoValue],
   src |-> [k \in Keys |-> {}], era |-> era]

\* load_state({}, {}): nothing registered, every counter at zero.
EmptyStore(era) ==
  [cnt  |-> [n \in Namespaces |-> 0], num |-> [k \in Keys |-> 0],
   orig |-> [k \in Keys |-> NoValue], rev |-> [t \in Readable |-> NoValue],
   src |-> [k \in Keys |-> {}], era |-> era]

KeyOf(item) == <<item.ns, Norm[item.ns][item.val]>>

Registered(g) == {k \in Keys : g.num[k] # 0}

\* Token number n and the original val, found in file f, enter the registry
\* under key k.
Register(g, k, n, val, f) ==
  [cnt  |-> [g.cnt EXCEPT ![k[1]] = n], num |-> [g.num EXCEPT ![k] = n],
   orig |-> [g.orig EXCEPT ![k] = val],
   rev  |-> [t \in Readable |-> IF t = TokenText(k[1], n) THEN val ELSE g.rev[t]],
   src  |-> [g.src EXCEPT ![k] = {f}],
   era  |-> g.era]

\* An existing mapping notes one more source file, in place.
Noted(g, k, f) == [g EXCEPT !.src[k] = @ \union {f}]

\* Defective: the counter never gets past one.
MintStuckCounter(g, item, f) ==
  IF g.num[KeyOf(item)] # 0 THEN Noted(g, KeyOf(item), f)
  ELSE Register(g, KeyOf(item), 1, item.val, f)

\* Defective: an existing mapping is not looked for.
MintAlways(g, item, f) ==
  Register(g, KeyOf(item), g.cnt[item.ns] + 1, item.val, f)

(***************************************************************************)
(* get_or_create_token and get_or_create_column_token: an existing mapping *)
(* keeps its token and notes the source file, else the namespace's counter *)
(* advances and the new number and the value as written are registered.    *)
(***************************************************************************)
Mint(g, item, f) ==
  IF g.num[KeyOf(item)] # 0 THEN Noted(g, KeyOf(item), f)
  ELSE Register(g, KeyOf(item), g.cnt[item.ns] + 1, item.val, f)

\* Defective: only the counters of the exported state are loaded again.
RolledBackHalf(undo, g) == [g EXCEPT !.cnt = undo.cnt]

(***************************************************************************)
(* load_state of what export_state gave earlier.  Both copy the dict and   *)
(* share the mappings in it, so a mapping that was there before comes back *)
(* with the source files noted since.                                      *)
(***************************************************************************)
RolledBack(undo, g) ==
  [undo EXCEPT !.src = [k \in Keys |-> IF undo.num[k] = 0 THEN {} ELSE g.src[k]]]

\* Two registries that agree on all but the source files of their mappings.
SameCore(g, h) ==
  g.cnt = h.cnt /\ g.num = h.num /\ g.orig = h.orig /\ g.rev = h.rev /\ g.era = h.era

\* get_all_mappings: the texts the registry knows.
KnownTexts(g) == {TokenText(k[1], g.num[k]) : k \in Registered(g)}

\* The token patterns match exactly five digits: a larger number is not seen.
Recognised(piece) == piece.num \in 1..MaxNumber

SeenTexts(body) ==
  {TokenText(body[i].ns, body[i].num) :
     i \in {j \in DOMAIN body : Recognised(body[j])}}

\* applied_tokens: the token texts a run put into its output.
AppliedTexts(body) ==
  {TokenText(body[i].ns, body[i].num) : i \in {j \in DOMAIN body : body[j].num # 0}}

(***************************************************************************)
(* restore_tokens on one piece: a token the patterns see and the registry  *)
(* knows becomes its original, anything else stays as it is.  want is the  *)
(* ghost of the piece, got what the restored document says (NoValue: the   *)
(* token is still there).                                                  *)
(***************************************************************************)
RestorePiece(g, piece) ==
  [ns   |-> piece.ns,
   want |-> piece.val,
   got  |-> IF piece.num = 0 THEN piece.val
            ELSE IF Recognised(piece)
                    /\ TokenText(piece.ns, piece.num) \in KnownTexts(g)
                 THEN g.rev[TokenText(piece.ns, piece.num)]
                 ELSE NoValue]

-----------------------------------------------------------------------------
\* Each number of a namespace was handed out by its counter, once.
NumbersDistinct(g) ==
  \A k, l \in Registered(g) : k[1] = l[1] /\ g.num[k] = g.num[l] => k = l

NumbersCounted(g) ==
  \A k \in Registered(g) : g.num[k] <= g.cnt[k[1]]

\* The original kept for a key normalises to that key.
OriginalsMatch(g) ==
  \A k \in Registered(g) : g.orig[k] \in Values /\ KeyOf([ns |-> k[1], val |-> g.orig[k]]) = k

\* What the reverse lookup gives for a token is the original of a mapping
\* with that token.
LookUpBacked(g) ==
  \A k \in Registered(g) : g.num[k] <= MaxNumber =>
    \E l \in Registered(g) :
      /\ TokenText(l[1], g.num[l]) = TokenText(k[1], g.num[k])
      /\ g.rev[TokenText(k[1], g.num[k])] = g.orig[l]

StoreOK(g) ==
  NumbersDistinct(g) /\ NumbersCounted(g) /\ OriginalsMatch(g) /\ LookUpBacked(g)

\* The registry maps the token of this piece back to what it stands for.
Backs(g, piece) ==
  piece.num # 0 =>
    g.num[KeyOf([ns |-> piece.ns, val |-> piece.val])] = piece.num
=============================================================================
