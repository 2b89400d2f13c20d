------------------------------ MODULE Detection ------------------------------
(***************************************************************************)
(* How a handler hides what it finds: one run of the CSV, XLSX or DOCX     *)
(* handler over a small sheet with a detection engine of its own.          *)
(* detection/engine.py resolves the overlapping hits of three sources and  *)
(* keeps two first-in first-out caches; the handlers join the cells of a   *)
(* row, split the hits back, and splice tokens into the cells.             *)
(*                                                                         *)
(* A text is a sequence of characters, a rule finds a fixed word.  The     *)
(* analyser is external: what it reports for a text in a language is any   *)
(* choice among the words it may take for a name, the same each time.      *)
(* Positions count from 1 and `end' is the first one past the hit.         *)
(*                                                                         *)
(* Left out: the score threshold (rules and analyser report what passes),  *)
(* rules that score less than the rest,                                    *)
(* speed mode, several worksheets, formulas, token numbers (TokenStore),   *)
(* columns that share a prefix.                                            *)
(***************************************************************************)
EXTENDS Naturals, SequencesExt

CONSTANTS
  Letters, HebrewLetters, Digits, Zero, Blank, Delim, At,  \* characters
  Mark,         \* a token that is in the sheet already, one of another workspace
  Lower,        \* the small letter of each character
  DemoRules,    \* [word, type]: the workspace's own rules
  RegexRules, HebrewRules,   \* sequences of them, most specific first
  NerWords,     \* [word, type, score]: what the analyser may report
  Types, Person, HePerson, Email, Phone, Column, Plain,  \* types of hits and pieces, some of them
  Sure,         \* the score of a rule's match, the highest there is
  Requests,     \* what the handler may be run on
  BatchRows,    \* rows of a CSV file detected together
  MinLen,       \* shorter cells of a sheet are not looked at
  MaxEntries,   \* entries either cache holds
  MaxLen        \* longer texts are not cached

Langs == {"en", "he"}
Chars == Letters \union HebrewLetters \union Digits \union {Zero, Blank, Delim, At, Mark}
RowKinds == {"csv", "xlsx"}
Rules == [word : Seq(Chars) \ {<<>>}, type : Types]  \* empty matches are skipped

ASSUME DetectionAssumption ==
  /\ \A r \in Requests :
       /\ r.kind \in RowKinds \union {"docx"} /\ r.lang \in Langs \union {"auto"}
       /\ r.rows \in Seq(Seq(Seq(Chars)))
       /\ r.columns \subseteq Nat /\ r.detect \in BOOLEAN
  /\ DemoRules \subseteq Rules /\ IsFiniteSet(DemoRules)
  /\ RegexRules \in Seq(Rules) /\ HebrewRules \in Seq(Rules)
  /\ Sure \in Nat /\ IsFiniteSet(NerWords)
  /\ NerWords \subseteq [word : Seq(Chars) \ {<<>>}, type : Types, score : 1..Sure]
  /\ {Person, HePerson, Email, Phone, Column, Plain} \subseteq Types
  /\ Lower \in [Chars -> Chars]
  /\ Blank \notin Digits \union {Zero}
  /\ BatchRows \in Nat \ {0} /\ MaxEntries \in Nat \ {0} /\ MaxLen \in Nat

VARIABLES
  run,        \* the request
  row,        \* the next row to scan
  pending,    \* scanned rows that wait for detection: [row, cells]
  todo,       \* the indices of pending that the engine has still to take
  found,      \* the hits of each [row, cells] looked at so far
  out,        \* the sheet: sequences of pieces
  registry,   \* the value first seen of each key (TokenGenerator._registry)
  phase,      \* "scan", "detect", "apply", "written" or "failed"
  templates,  \* _ner_template_cache: sequence of [key, value]
  cells,      \* _cell_detection_cache: sequence of [key, value]
  heard       \* what the analyser reported for each language and text

vars == <<run, row, pending, todo, found, out, registry, phase, templates, cells, heard>>

-----------------------------------------------------------------------------
\* Hits, and the two ways their overlaps are resolved.

Occurrences(word, text) ==
  {i \in 1..(Len(text) + 1 - Len(word)) : SubSeq(text, i, i + Len(word) - 1) = word}

\* by orders the hits of equal start and score as the stable sort finds them.
Hits(rule, text, score, by) ==
  {[start |-> i, end |-> i + Len(rule.word), type |-> rule.type, score |-> score, by |-> by]
     : i \in Occurrences(rule.word, text)}

Overlap(x, y) == x.start < y.end /\ y.start < x.end
Length(x) == x.end - x.start
Cut(text, hit) == SubSeq(text, hit.start, hit.end - 1)

Earlier(x, y) ==
  \/ x.start < y.start
  \/ x.start = y.start /\ x.score > y.score
  \/ x.start = y.start /\ x.score = y.score /\ x.by < y.by
  \/ x.start = y.start /\ x.score = y.score /\ x.by = y.by /\ x.end < y.end

Latest(hits) == CHOOSE x \in hits : \A y \in hits : ~Earlier(x, y)

\* A hit that overlaps the last one kept (none before it reaches as far) replaces
\* it, where it weighs more, or is dropped.
Keep(hit, kept, weight) ==
  LET over == {y \in kept : hit.start < y.end}
  IN IF \A y \in over : weight[hit] > weight[y] THEN (kept \ over) \union {hit} ELSE kept

\* From left to right: the latest is the last that is looked at.
Resolved(hits, weight) ==
  MapThenFoldSet(LAMBDA x, kept : Keep(x, kept, weight), {}, LAMBDA x : x, Latest, hits)

\* Defective: the first of two overlapping hits is kept whatever it scores.
MergeFirst(hits) == Resolved(hits, [x \in hits |-> 0])

\* Defective: both hits of an overlap are dropped.
MergeForgets(hits) == {x \in hits : \A y \in hits \ {x} : ~Overlap(x, y)}

Merge(hits) == Resolved(hits, [x \in hits |-> x.score])

\* Their scores are all the same: the longer hit is kept.
DemoHits(text) ==
  LET hits == UNION {Hits(rule, text, Sure, 1) : rule \in DemoRules}
  IN Resolved(hits, [x \in hits |-> Length(x)])

SpecsFor(lang) == IF lang = "he" THEN HebrewRules \o RegexRules ELSE RegexRules

\* A later rule finds nothing where an earlier one did.
RegexHits(text, lang) ==
  LET Taking(taken, rule) ==
        taken \union {x \in Hits(rule, text, Sure, 2) : \A y \in taken : ~Overlap(x, y)}
  IN FoldLeft(Taking, {}, SpecsFor(lang))

Certain(text, lang) == Merge(DemoHits(text) \union RegexHits(text, lang))

-----------------------------------------------------------------------------
\* The engine.

ResolveLanguage(text, lang) ==
  IF lang # "auto" THEN lang
  ELSE IF ToSet(text) \intersect HebrewLetters # {} THEN "he" ELSE "en"

MaskSpans(text, hits) ==
  [i \in DOMAIN text |-> IF \E x \in hits : i \in x.start..(x.end - 1) THEN Blank ELSE text[i]]

ShouldRunNer(masked) == \E i \in DOMAIN masked : masked[i] # Blank

Canonical(masked) == [i \in DOMAIN masked |-> IF masked[i] \in Digits THEN Zero ELSE masked[i]]

\* External: any of the words that may pass for names, the same each time.
MayReport(text) == UNION {Hits(n, text, n.score, 3) : n \in NerWords}
Reports(key) == IF key \in DOMAIN heard THEN {heard[key]} ELSE SUBSET MayReport(key[2])
Remember(key, report) == heard' = [k \in DOMAIN heard \union {key} |-> IF k = key THEN report ELSE heard[k]]

Promoted(hit, text) ==
  IF hit.type = Person /\ ToSet(Cut(text, hit)) \intersect HebrewLetters # {}
  THEN [hit EXCEPT !.type = HePerson] ELSE hit

\* What detect and detect_many answer, given what the analyser reported.
Detected(text, lang, report) ==
  Merge(Certain(text, lang) \union {Promoted(x, text) : x \in report})

Lookup(cache, key) == {e.value : e \in {f \in ToSet(cache) : f.key = key}}

\* Defective: nothing is evicted.
StoredForever(cache, key, value) == Append(cache, [key |-> key, value |-> value])

Stored(cache, key, value) ==
  LET longer == Append(cache, [key |-> key, value |-> value])
  IN IF Len(longer) > MaxEntries THEN Tail(longer) ELSE longer

\* Defective: the same text in another language takes its templates.
TemplateKeyNoLanguage(masked, lang) == <<"en", Canonical(masked)>>

TemplateKey(masked, lang) == <<lang, Canonical(masked)>>

-----------------------------------------------------------------------------
\* The handlers.  A unit is what is analysed at once: some cells of one row.

Stripped(value) ==
  LET solid == {i \in DOMAIN value : value[i] # Blank}
  IN IF solid = {} THEN <<>> ELSE SubSeq(value, Min(solid), Max(solid))

\* Tiny texts are looked at for an address only.
HasSense(value) ==
  LET text == ToSet(Stripped(value)) IN
    /\ Mark \notin text
    /\ IF Len(Stripped(value)) < MinLen THEN At \in text
       ELSE text \intersect (Letters \union HebrewLetters \union Digits \union {Zero}) # {}
IsNumber(value) == ToSet(value) \subseteq Digits
IsBlank(value) == ToSet(value) \subseteq {Blank}

Selected(r, c) == r > 1 /\ c \in run.columns

IsCandidate(r, c) ==
  LET value == run.rows[r][c] IN
    /\ ~IsBlank(value)
    /\ run.kind \in RowKinds =>
         run.detect /\ c \notin run.columns /\ HasSense(value)
    /\ run.kind = "csv" => ~IsNumber(value)
Candidates(r) ==
  FoldLeftDomain(LAMBDA cs, c : IF IsCandidate(r, c) THEN Append(cs, c) ELSE cs, <<>>, run.rows[r])

UnitsOf(r) ==
  IF run.kind = "docx" THEN [i \in DOMAIN Candidates(r) |-> [row |-> r, cells |-> <<Candidates(r)[i]>>]]
  ELSE IF Candidates(r) = <<>> THEN <<>> ELSE <<[row |-> r, cells |-> Candidates(r)]>>

Value(unit, i) == run.rows[unit.row][unit.cells[i]]
JoinedUpTo(unit, n) ==
  FlattenSeq([i \in 1..n |-> IF i = 1 THEN Value(unit, i) ELSE <<Delim>> \o Value(unit, i)])
Text(unit) == JoinedUpTo(unit, Len(unit.cells))
LangOf(unit) == ResolveLanguage(Text(unit), run.lang)

\* Where the i-th cell's characters begin in the joined text, less one.
Offset(unit, i) == Len(JoinedUpTo(unit, i)) - Len(Value(unit, i))

\* A hit that crosses cells belongs to none.
Split(unit, hits, i) ==
  LET from == Offset(unit, i)
      inside == {x \in hits : x.start > from /\ x.end - 1 <= from + Len(Value(unit, i))}
  IN {[x EXCEPT !.start = @ - from, !.end = @ - from] : x \in inside}
PlainText(value) == [i \in DOMAIN value |-> [type |-> Plain, text |-> <<value[i]>>]]

Splice(value, x, pieces) ==
  SubSeq(pieces, 1, x.start - 1) \o <<[type |-> x.type, text |-> Cut(value, x)]>>
    \o SubSeq(pieces, x.end, Len(pieces))

\* Defective: from left to right, the offsets shift.
ReplaceLeftToRight(value, hits) ==
  MapThenFoldSet(LAMBDA x, pieces : Splice(value, x, pieces), PlainText(value), LAMBDA x : x,
                 LAMBDA S : CHOOSE x \in S : \A y \in S : x.start >= y.start, hits)

\* replace_entities: right to left, so that the offsets stay valid.
Leftmost(hits) == CHOOSE x \in hits : \A y \in hits : x.start <= y.start
ReplaceEntities(value, hits) ==
  MapThenFoldSet(LAMBDA x, pieces : Splice(value, x, pieces), PlainText(value), LAMBDA x : x,
                 Leftmost, hits)

-----------------------------------------------------------------------------
\* The registry: a value and its variants share a token, that of the first.

Normalized(value, type) ==
  LET text == Stripped(value)
      lower == [i \in DOMAIN text |-> Lower[text[i]]]
      Collapse(kept, x) == IF x = Blank /\ kept # <<>> /\ Last(kept) = Blank THEN kept ELSE Append(kept, x)
  IN IF type = Phone THEN SelectSeq(text, LAMBDA x : x \in Digits \union {Zero})
     ELSE IF type = Email THEN lower
     ELSE FoldLeft(Collapse, <<>>, lower)

\* Each selected column has a prefix, which is part of its keys.
MappingKey(type, c, value) ==
  [type |-> type, column |-> IF type = Column THEN c ELSE 0, value |-> Normalized(value, type)]

\* Where the sheet has a token: row, cell, piece.
Places(sheet) ==
  UNION {UNION {{<<r, c, i>> : i \in {k \in DOMAIN sheet[r][c] : sheet[r][c][k].type # Plain}}
                 : c \in DOMAIN sheet[r]} : r \in DOMAIN sheet}
TextAt(sheet, p) == sheet[p[1]][p[2]][p[3]].text
KeyAt(sheet, p) == MappingKey(sheet[p[1]][p[2]][p[3]].type, p[2], TextAt(sheet, p))

Before(p, q) ==
  \/ p[1] < q[1]
  \/ p[1] = q[1] /\ (p[2] < q[2] \/ (p[2] = q[2] /\ p[3] < q[3]))
Holders(sheet, key) == {p \in Places(sheet) : KeyAt(sheet, p) = key}
FirstPlace(sheet, key) == CHOOSE p \in Holders(sheet, key) : \A q \in Holders(sheet, key) : ~Before(q, p)

\* Defective: a later variant takes the place of the first.
RegisterLatest(known, sheet) ==
  [key \in DOMAIN known \union {KeyAt(sheet, p) : p \in Places(sheet)} |->
     IF Holders(sheet, key) = {} THEN known[key]
     ELSE TextAt(sheet, CHOOSE p \in Holders(sheet, key) : \A q \in Holders(sheet, key) : ~Before(p, q))]

\* get_or_create_token for the tokens that are new in the sheet, from left to
\* right, cell after cell.
Register(known, sheet) ==
  [key \in DOMAIN known \union {KeyAt(sheet, p) : p \in Places(sheet)} |->
     IF key \in DOMAIN known THEN known[key] ELSE TextAt(sheet, FirstPlace(sheet, key))]

\* restore_tokens, for a piece of a cell in column c and for a cell.
Original(c, piece) ==
  IF piece.type = Plain THEN piece.text ELSE registry[MappingKey(piece.type, c, piece.text)]
RestoreTokens(c, pieces) == FlattenSeq([i \in DOMAIN pieces |-> Original(c, pieces[i])])

-----------------------------------------------------------------------------
\* Batches.

\* detect_many takes the texts of one language after the other.
Sooner(i, j) ==
  LET first(k) == run.kind = "csv" => LangOf(pending[k]) = LangOf(pending[1])
  IN (first(i) /\ ~first(j)) \/ (first(i) = first(j) /\ i < j)
Foremost == CHOOSE i \in todo : \A j \in todo \ {i} : Sooner(i, j)

Full(units) == Len(units) >= IF run.kind = "csv" THEN BatchRows ELSE 1

-----------------------------------------------------------------------------
Init ==
  /\ run \in Requests
  /\ row = 1 /\ pending = <<>> /\ todo = {} /\ found = <<>>
  /\ out = [r \in DOMAIN run.rows |-> [c \in DOMAIN run.rows[r] |-> PlainText(run.rows[r][c])]]
  /\ registry = <<>> /\ phase = "scan"
  /\ templates = <<>> /\ cells = <<>> /\ heard = <<>>

\* One row: its selected columns become tokens, its other cells wait.
ScanRow ==
  /\ phase = "scan" /\ row <= Len(run.rows) /\ ~Full(pending)
  /\ out' = [out EXCEPT ![row] = [c \in DOMAIN @ |->
       IF run.kind \in RowKinds /\ Selected(row, c) /\ ~IsBlank(run.rows[row][c])
       THEN <<[type |-> Column, text |-> run.rows[row][c]]>> ELSE @[c]]]
  /\ registry' = Register(registry, out')
  /\ pending' = pending \o UnitsOf(row)
  /\ row' = row + 1
  /\ UNCHANGED <<run, todo, found, phase, templates, cells, heard>>

\* A full batch, or what is left after the last row.
Batch ==
  /\ phase = "scan" /\ pending # <<>>
  /\ Full(pending) \/ row > Len(run.rows)
  /\ todo' = DOMAIN pending
  /\ phase' = "detect"
  /\ UNCHANGED <<run, row, pending, found, out, registry, templates, cells, heard>>

\* The answer for the unit the engine took.
Take(unit, hits) ==
  /\ found' = [u \in DOMAIN found \union {unit} |-> IF u = unit THEN hits ELSE found[u]]
  /\ todo' = todo \ {Foremost}
  /\ phase' = IF todo' = {} THEN "apply" ELSE "detect"

\* detect_many, one text: templates are kept for its canonical form.
DetectRow ==
  /\ phase = "detect" /\ run.kind = "csv"
  /\ LET unit == pending[Foremost]
         text == Text(unit)
         lang == LangOf(unit)
         masked == MaskSpans(text, Certain(text, lang))
         key == TemplateKey(masked, lang)
         known == Lookup(templates, key)
     IN \/ /\ ~ShouldRunNer(masked)
           /\ Take(unit, Detected(text, lang, {})) /\ UNCHANGED <<templates, heard>>
        \/ /\ ShouldRunNer(masked) /\ known # {}
           /\ \E report \in known : Take(unit, Detected(text, lang, report))
           /\ UNCHANGED <<templates, heard>>
        \/ /\ ShouldRunNer(masked) /\ known = {}
           /\ \E report \in Reports(<<lang, Canonical(masked)>>) :
                /\ Remember(<<lang, Canonical(masked)>>, report)
                /\ templates' = Stored(templates, key, report)
                /\ Take(unit, Detected(text, lang, report))
  /\ UNCHANGED <<run, row, pending, out, registry, cells>>

\* detect_in_cell: a short text's hits are kept.
DetectInCell ==
  /\ phase = "detect" /\ run.kind # "csv"
  /\ LET unit == pending[Foremost]
         text == Text(unit)
         lang == LangOf(unit)
         masked == MaskSpans(text, Certain(text, lang))
         known == IF Len(text) <= MaxLen THEN Lookup(cells, <<lang, text>>) ELSE {}
         Answer(hits) ==
           /\ Take(unit, hits)
           /\ cells' = IF Len(text) <= MaxLen THEN Stored(cells, <<lang, text>>, hits) ELSE cells
     IN \/ /\ known # {}
           /\ \E hits \in known : Take(unit, hits)
           /\ UNCHANGED <<cells, heard>>
        \/ /\ known = {} /\ ~ShouldRunNer(masked)
           /\ Answer(Certain(text, lang)) /\ UNCHANGED heard
        \/ /\ known = {} /\ ShouldRunNer(masked)
           /\ \E report \in Reports(<<lang, masked>>) :
                /\ Remember(<<lang, masked>>, report)
                /\ Answer(Detected(text, lang, report))
  /\ UNCHANGED <<run, row, pending, out, registry, templates>>

\* The analyser raises: the handler does, and writes nothing.
DetectFails ==
  /\ phase = "detect"
  /\ phase' = "failed"
  /\ UNCHANGED <<run, row, pending, todo, found, out, registry, templates, cells, heard>>

\* The hits of a batch are split into the cells and replaced.
Apply ==
  /\ phase = "apply"
  /\ LET Holding(r, c) == {u \in ToSet(pending) : u.row = r /\ c \in ToSet(u.cells)}
     IN out' = [r \in DOMAIN out |-> [c \in DOMAIN out[r] |->
          IF Holding(r, c) = {} THEN out[r][c]
          ELSE LET u == CHOOSE v \in Holding(r, c) : TRUE
                   i == CHOOSE k \in DOMAIN u.cells : u.cells[k] = c
               IN ReplaceEntities(run.rows[r][c], Split(u, found[u], i))]]
  /\ registry' = Register(registry, out')
  /\ pending' = <<>>
  /\ phase' = "scan"
  /\ UNCHANGED <<run, row, todo, found, templates, cells, heard>>

Write ==
  /\ phase = "scan" /\ row > Len(run.rows) /\ pending = <<>>
  /\ phase' = "written"
  /\ UNCHANGED <<run, row, pending, todo, found, out, registry, templates, cells, heard>>

Next == ScanRow \/ Batch \/ DetectRow \/ DetectInCell \/ DetectFails \/ Apply \/ Write

Spec == Init /\ [][Next]_vars

-----------------------------------------------------------------------------
\* Types, one hit of a text never past its end, and the caches' limit
\* (_cell_cache_max_entries, _ner_template_cache_max_entries).
TypeOK ==
  /\ run \in Requests /\ row \in 1..(Len(run.rows) + 1)
  /\ phase \in {"scan", "detect", "apply", "written", "failed"}
  /\ DOMAIN out = DOMAIN run.rows
  /\ todo \subseteq DOMAIN pending
  /\ phase = "apply" => \A u \in DOMAIN found : \A x \in found[u] :
       1 <= x.start /\ x.start < x.end /\ x.end <= Len(Text(u)) + 1
  /\ Len(templates) <= MaxEntries /\ Len(cells) <= MaxEntries

\* What the analyser had to say of a unit, asked of it alone.
MaskedText(unit) == MaskSpans(Text(unit), Certain(Text(unit), LangOf(unit)))
Asked(unit) ==
  <<LangOf(unit), IF run.kind = "csv" THEN Canonical(MaskedText(unit)) ELSE MaskedText(unit)>>
ReportFor(unit) == IF Asked(unit) \in DOMAIN heard THEN heard[Asked(unit)] ELSE {}

\* What is found in a row does not depend on the rows before it, on their
\* languages, on the batches or on what the caches still hold, and no row of a
\* written file was left out (detect_many, _get_or_analyze_ner_templates,
\* _detect_in_cell_cached, the last batch of CsvHandler.anonymize).
AsIfAlone ==
  /\ phase = "apply" =>
     \A u \in DOMAIN found :
       /\ ShouldRunNer(MaskedText(u)) => Asked(u) \in DOMAIN heard
       /\ found[u] = Detected(Text(u), LangOf(u), ReportFor(u))
  /\ phase = "written" =>
       \A r \in DOMAIN run.rows : ToSet(UnitsOf(r)) \subseteq DOMAIN found

\* demo_rules.py: "Matches always win over probabilistic NER when they
\* overlap": what a rule found in a cell is a token of the written file, as it
\* is, unless the analyser was as sure of something that overlaps it.
RulesWin ==
  phase = "written" =>
    \A u \in DOMAIN found : \A i \in DOMAIN u.cells :
      \A x \in Certain(Text(u), LangOf(u)) :
        LET local == Split(u, {x}, i) IN
          (local # {} /\ \A y \in ReportFor(u) : Overlap(x, y) => y.score < Sure) =>
            \E piece \in ToSet(out[u.row][u.cells[i]]) :
              piece = [type |-> x.type, text |-> Cut(Text(u), x)]

\* Every position from one hit to the other is inside some hit.
Linked(x, y, hits) ==
  \A p \in (x.end..y.start) \union (y.end..x.start) : \E h \in hits : h.start < p /\ p < h.end

\* Where sources report overlapping hits, one of the group at least is
\* hidden, and none is given up but for one as good or better that it is
\* linked to by overlaps (_merge_entities, _resolve_overlaps, extract_entities).
EveryClusterKept ==
  phase = "apply" => \A u \in DOMAIN found :
    LET text == Text(u)
        lang == LangOf(u)
        hits == (UNION {Hits(rule, text, Sure, 1) : rule \in DemoRules})
                \union (UNION {Hits(SpecsFor(lang)[k], text, Sure, 2) : k \in DOMAIN SpecsFor(lang)})
                \union ReportFor(u)
    IN \A x \in hits : \E y \in found[u] : y.score >= x.score /\ Linked(x, y, hits)

\* Nothing of a written file is lost, doubled or misplaced: the pieces of a cell
\* make up what it held, and every token comes back as a value of its type that
\* is normalised as the cell's own is (replace_entities splices right to left
\* over hits that must not overlap, after the split; restore_tokens looks up
\* the value first registered, be it another spelling).
TextOf(pieces) == FlattenSeq([i \in DOMAIN pieces |-> pieces[i].text])
RestoresSheet ==
  phase = "written" =>
    \A r \in DOMAIN out : \A c \in DOMAIN out[r] :
      /\ TextOf(out[r][c]) = run.rows[r][c]
      /\ \A i \in DOMAIN out[r][c] :
           LET piece == out[r][c][i]
           IN piece.type # Plain =>
                Normalized(Original(c, piece), piece.type) = Normalized(piece.text, piece.type)

\* A cell that spells its entities as the sheet first does is given back as it
\* was, in whatever order batches, languages and columns were worked through
\* (get_or_create_token and get_or_create_column_token keep the first value).
FirstSpelled ==
  phase = "written" =>
    \A r \in DOMAIN out : \A c \in DOMAIN out[r] :
      (\A p \in Places(out) :
         (p[1] = r /\ p[2] = c) => TextAt(out, FirstPlace(out, KeyAt(out, p))) = TextAt(out, p)) =>
        RestoreTokens(c, out[r][c]) = run.rows[r][c]

=============================================================================
