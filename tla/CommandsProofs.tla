---------------------------- MODULE CommandsProofs ----------------------------
(***************************************************************************)
(* Theorems about commands of any number of actors on one workspace, for   *)
(* any values, limit and bounds.                                           *)
(***************************************************************************)
EXTENDS Commands, FiniteSetTheorems, SequenceTheorems, TLAPS

\* The records of a vault agree with its mappings.
Consistent(v) ==
  \A k \in DOMAIN v.records :
    /\ v.records[k][2] \in DOMAIN v.mapping
    /\ v.mapping[v.records[k][2]] = v.records[k][1]

\* So do those of every vault that was loaded, or is about to be saved.
AllConsistent ==
  /\ Consistent(vault)
  /\ \A a \in Actors : Consistent(actors[a].base) /\ Consistent(actors[a].image)

\* What the token of a text stands for.
Holds(v, t) == t.token \in DOMAIN v.mapping /\ v.mapping[t.token] = t.value
Means(v, t) == t.era <= v.era /\ (t.era = v.era => Holds(v, t))

\* w is v with more mappings, or with none of them.
Follows(w, v) ==
  \/ w.era = v.era + 1
  \/ w.era = v.era /\ \A n \in DOMAIN v.mapping : n \in DOMAIN w.mapping /\ w.mapping[n] = v.mapping[n]

\* What each actor holds follows what it loaded, whatever the others did.
FollowsBase ==
  \A a \in Actors :
    /\ At(a, "save") => Follows(actors[a].image, actors[a].base)
    /\ At(a, "save") /\ actors[a].cmd = "shield" =>
         actors[a].text.era = actors[a].image.era /\ Holds(actors[a].image, actors[a].text)
    /\ At(a, "wipe") => actors[a].cmd = "restore"

\* While saves did not cross: the texts handed out, and those about to be.
AllMean ==
  ~overlapped =>
    /\ \A t \in texts : t.kept => Means(vault, t)
    /\ \A a \in Actors : actors[a].cmd = "shield" /\ actors[a].at \in {"reportRead", "reportAppend", "done"}
         => Means(vault, actors[a].text)

\* A restore works on a text that was handed out, and on the vault it loaded.
Waiting == {"credit", "creditWrite", "creditReplace", "load"}
RestoresLoaded ==
  \A a \in Actors :
    /\ actors[a].cmd = "restore" => actors[a].text \in texts
    /\ actors[a].got # NoText =>
         /\ actors[a].cmd = "restore" /\ actors[a].at \notin Waiting
         /\ actors[a].got = actors[a].base.mapping[actors[a].text.token]
BaseMeans ==
  ~overlapped => \A a \in Actors :
    /\ actors[a].cmd = "restore" /\ actors[a].at \notin Waiting
    /\ actors[a].text.kept
    => Means(actors[a].base, actors[a].text)

\* All actors are threads of one process.
OneProcessOnly == \A a, b \in Actors : ProcessOf(a) = ProcessOf(b)

\* The credits that were given are those counted, and whoever counts holds the
\* lock and has read the count as it is.
CountedUnderLock ==
  /\ granted = usage /\ usage <= Limit
  /\ \A a \in Actors :
       At(a, "creditWrite") \/ At(a, "creditReplace") =>
         /\ holder[ProcessOf(a)] = a
         /\ actors[a].count = usage /\ usage < Limit
  /\ \A a \in Actors : At(a, "creditReplace") => usageTmp = actors[a].count + 1

\* Every row follows the line before it.
AllLinked == ~forked => \A k \in DOMAIN report : IsRow(report[k]) => Linked(report, k)

\* The next append to a line without an end is lost.
RowNumbers(lines) == {k \in DOMAIN lines : IsRow(lines[k])}
EnoughRows == Cardinality(RowNumbers(report)) + cuts >= rows + (IF cutOff THEN 1 ELSE 0)

-----------------------------------------------------------------------------
\* TokenOf, Mapped: the token of a value stands for it in what is saved, and
\* what the mappings had they keep.
LEMMA TokenMapped ==
  ASSUME NEW mapping \in Seq(Values), NEW value \in Values
  PROVE  /\ Mapped(mapping, value) \in Seq(Values)
         /\ TokenOf(mapping, value) \in DOMAIN Mapped(mapping, value)
         /\ Mapped(mapping, value)[TokenOf(mapping, value)] = value
         /\ \A n \in DOMAIN mapping : /\ n \in DOMAIN Mapped(mapping, value)
                                      /\ Mapped(mapping, value)[n] = mapping[n]
<1>1. CASE value \in Range(mapping)
  <2>1. PICK n \in DOMAIN mapping : mapping[n] = value
    BY <1>1 DEF Range
  <2>2. /\ TokenOf(mapping, value) \in DOMAIN mapping
        /\ mapping[TokenOf(mapping, value)] = value
    BY <1>1, <2>1 DEF TokenOf
  <2> QED BY <1>1, <2>2 DEF Mapped
<1>2. CASE value \notin Range(mapping)
  <2>1. /\ Len(mapping) \in Nat
        /\ DOMAIN mapping = 1..Len(mapping)
    BY LenProperties
  <2>2. /\ Append(mapping, value) \in Seq(Values)
        /\ Len(Append(mapping, value)) = Len(mapping) + 1
        /\ \A i \in 1..Len(mapping) : Append(mapping, value)[i] = mapping[i]
        /\ Append(mapping, value)[Len(mapping) + 1] = value
    BY AppendProperties
  <2>3. DOMAIN Append(mapping, value) = 1..(Len(mapping) + 1)
    BY <2>2, LenProperties
  <2> QED BY <1>2, <2>1, <2>2, <2>3 DEF Mapped, TokenOf
<1> QED BY <1>1, <1>2

LEMMA VaultFields ==
  ASSUME NEW v \in Vaults
  PROVE  /\ v.mapping \in Seq(Values) /\ v.records \in Seq(Values \X (Nat \ {0}))
         /\ v.selfDestruct \in BOOLEAN /\ v.era \in Nat
BY DEF Vaults

\* Shielded: a vault with one more record, of the value's token.
LEMMA ShieldedVault ==
  ASSUME NEW v \in Vaults, NEW value \in Values
  PROVE  /\ Shielded(v, value) \in Vaults
         /\ Shielded(v, value).era = v.era
         /\ Shielded(v, value).mapping = Mapped(v.mapping, value)
         /\ Shielded(v, value).records = Append(v.records, <<value, TokenOf(v.mapping, value)>>)
<1>1. /\ Mapped(v.mapping, value) \in Seq(Values)
      /\ TokenOf(v.mapping, value) \in DOMAIN Mapped(v.mapping, value)
  BY VaultFields, TokenMapped
<1>2. TokenOf(v.mapping, value) \in Nat \ {0}
  BY <1>1, LenProperties
<1>3. Append(v.records, <<value, TokenOf(v.mapping, value)>>) \in Seq(Values \X (Nat \ {0}))
  BY <1>2, VaultFields, AppendProperties
<1> QED BY <1>1, <1>3 DEF Shielded, Vaults

LEMMA WipedVault ==
  ASSUME NEW v \in Vaults
  PROVE  /\ Wiped(v) \in Vaults /\ Wiped(v).era = v.era + 1
         /\ Wiped(v).mapping = <<>> /\ Wiped(v).records = <<>>
<1> DEFINE none == <<>>
<1>1. none \in Seq(Values) /\ none \in Seq(Values \X (Nat \ {0}))
  BY EmptySeq
<1> DEFINE w == [v EXCEPT !.mapping = none, !.records = none, !.era = @ + 1]
<1>2. Wiped(v) = w
  BY DEF Wiped
<1> HIDE DEF none
<1>3. v.selfDestruct \in BOOLEAN /\ v.era + 1 \in Nat
  BY VaultFields
<1>4. w.era = v.era + 1 /\ w.mapping = none /\ w.records = none
  BY DEF Vaults
<1>5. w \in Vaults
  BY <1>1, <1>3 DEF Vaults
<1> QED BY <1>2, <1>4, <1>5 DEF none

LEMMA NewVaultType == NewVault \in Vaults
BY EmptySeq DEF NewVault, Vaults

LEMMA IdleType == Idle \in Doings
BY NewVaultType DEF Idle, Doings, Points

\* LastRow: the number of the last line.
Lines == Seq([row : Nat, prev : Nat])
LEMMA LastRowType ==
  ASSUME NEW lines \in Lines
  PROVE  LastRow(lines) \in Nat
<1>1. CASE lines = <<>>
  BY <1>1 DEF LastRow
<1>2. CASE lines # <<>>
  <2>1. Len(lines) \in 1..Len(lines)
    BY <1>2, EmptySeq DEF Lines
  <2>2. lines[Len(lines)] \in [row : Nat, prev : Nat]
    BY <2>1, ElementOfSeq DEF Lines
  <2> QED BY <1>2, <2>2 DEF LastRow
<1> QED BY <1>1, <1>2

-----------------------------------------------------------------------------
\* What each actor does has its type.
LEMMA DoingsStep ==
  ASSUME TypeOK, Next
  PROVE  /\ actors' \in [Actors -> Doings]
         /\ \A a \in Actors : actors'[a].cmd \in {"shield", "restore"} => actors'[a].text \in Texts
<1>1. PICK a \in Actors :
        \/ BeginShield(a) \/ BeginRestore(a) \/ BeginGovern(a) \/ BeginPurge(a)
        \/ Steps(a) \/ CutReport(a) \/ Stops(a)
  BY DEF Next
<1> DEFINE Right(d) == d \in Doings /\ (d.cmd \in {"shield", "restore"} => d.text \in Texts)
<1>2. Right(Idle)
  BY IdleType DEF Idle
<1>3. Right(actors[a]) /\ actors \in [Actors -> Doings]
  BY DEF TypeOK
<1>4. SUFFICES \E d : Right(d) /\ actors' = [actors EXCEPT ![a] = d]
  BY <1>3 DEF TypeOK
<1>5. ASSUME NEW cmd \in {"shield", "restore"}, NEW at \in Points, NEW text \in Texts, Begin(a, cmd, at, text)
      PROVE  \E d : Right(d) /\ actors' = [actors EXCEPT ![a] = d]
  BY <1>5, IdleType DEF Begin, Doings, Idle
<1>6. ASSUME NEW cmd \in {"govern", "purge"}, Begin(a, cmd, "load", NoText)
      PROVE  \E d : Right(d) /\ actors' = [actors EXCEPT ![a] = d]
  BY <1>6, IdleType DEF Begin, Doings, Idle, Points
<1>7. ASSUME NEW at \in Points, GoTo(a, at)
      PROVE  \E d : Right(d) /\ actors' = [actors EXCEPT ![a] = d]
  <2>1. Right([actors[a] EXCEPT !.at = at])
    BY <1>3, <1>7 DEF Doings
  <2> QED BY <2>1, <1>7, <1>3 DEF GoTo
<1>8. ASSUME Ends(a)
      PROVE  \E d : Right(d) /\ actors' = [actors EXCEPT ![a] = d]
  BY <1>8, <1>2 DEF Ends
<1>9. ASSUME NEW image \in Vaults, NEW text \in Texts \union {NoText}, NEW got \in Values \union {NoText},
             actors[a].cmd \in {"shield", "restore"} => text \in Texts, WillSave(a, image, text, got)
      PROVE  \E d : Right(d) /\ actors' = [actors EXCEPT ![a] = d]
  <2>1. Right([actors[a] EXCEPT !.at = "save", !.image = image, !.text = text, !.got = got])
    BY <1>3, <1>9, ZenonT(40) DEF Doings, Points
  <2> QED BY <2>1, <1>9, <1>3 DEF WillSave
<1>10. actors[a].base \in Vaults /\ actors[a].image \in Vaults
  BY <1>3 DEF Doings
<1>11. CASE BeginShield(a)
  <2>1. PICK v \in Values : Begin(a, "shield", "load", [value |-> v, token |-> 0, era |-> 0, kept |-> FALSE])
    BY <1>11 DEF BeginShield
  <2>2. [value |-> v, token |-> 0, era |-> 0, kept |-> FALSE] \in Texts
    BY DEF Texts
  <2> QED BY <2>1, <2>2, <1>5 DEF Points
<1>12. CASE BeginRestore(a)
  BY <1>12, <1>5 DEF BeginRestore, TypeOK, Points
<1>13. CASE BeginGovern(a) \/ BeginPurge(a)
  BY <1>13, <1>6 DEF BeginGovern, BeginPurge
<1>14. CASE CountCredit(a)
  <2>1. Right([actors[a] EXCEPT !.at = "creditWrite", !.count = usage])
    BY <1>3 DEF Doings, Points, TypeOK
  <2> QED BY <2>1, <1>14, <1>8, <1>3 DEF CountCredit
<1>15. CASE WriteUsage(a) \/ ReplaceUsage(a)
  BY <1>15, <1>7, <1>8 DEF WriteUsage, ReplaceUsage, Points
<1>16. CASE Load(a)
  <2>1. Right([actors[a] EXCEPT !.at = "work", !.base = vault])
    BY <1>3 DEF Doings, Points, TypeOK
  <2> QED BY <2>1, <1>16, <1>3 DEF Load
<1>17. CASE Shield(a)
  <2> DEFINE v == actors[a].base
             value == actors[a].text.value
             text == [value |-> value, token |-> TokenOf(v.mapping, value), era |-> v.era, kept |-> FALSE]
  <2>1. value \in Values
    BY <1>17, <1>3 DEF Shield, Works, Texts
  <2>2. TokenOf(v.mapping, value) \in Nat
    BY <2>1, <1>10, VaultFields, TokenMapped, LenProperties
  <2>3. text \in Texts /\ Shielded(v, value) \in Vaults
    BY <2>1, <2>2, <1>10, VaultFields, ShieldedVault DEF Texts
  <2>4. WillSave(a, Shielded(v, value), text, NoText) \/ Ends(a)
    BY <1>17 DEF Shield
  <2> HIDE DEF text, v, value
  <2> QED BY <2>3, <2>4, <1>8, <1>9
<1>18. CASE Restore(a)
  <2> DEFINE v == actors[a].base
             text == actors[a].text
  <2>1. text \in Texts
    BY <1>18, <1>3 DEF Restore, Works
  <2>2. \/ text.token \in DOMAIN v.mapping /\ WillSave(a, v, text, v.mapping[text.token])
        \/ Ends(a)
    BY <1>18 DEF Restore, Restorable
  <2>3. text.token \in DOMAIN v.mapping => v.mapping[text.token] \in Values
    BY <1>10, VaultFields, LenProperties, ElementOfSeq
  <2> HIDE DEF text, v
  <2> QED BY <2>1, <2>2, <2>3, <1>10, <1>8, <1>9 DEF v
<1>19. CASE Govern(a)
  <2>1. PICK b \in BOOLEAN : WillSave(a, [actors[a].base EXCEPT !.selfDestruct = b], NoText, NoText)
    BY <1>19 DEF Govern
  <2>2. [actors[a].base EXCEPT !.selfDestruct = b] \in Vaults /\ actors[a].cmd = "govern"
    BY <1>10, <1>19 DEF Vaults, Govern, Works
  <2> QED BY <2>1, <2>2, <1>9
<1>20. CASE Purge(a)
  BY <1>20, <1>9, <1>10, WipedVault DEF Purge, Works
<1>21. CASE Save(a)
  <2>1. \E at \in {"reportRead", "wipe", "done"} : GoTo(a, at)
    BY <1>21 DEF Save
  <2> QED BY <2>1, <1>7 DEF Points
<1>22. CASE Wipe(a) \/ AppendReport(a)
  BY <1>22, <1>7 DEF Wipe, AppendReport, Points
<1>23. CASE ReadReport(a)
  <2>1. LastRow(report) \in Nat
    BY LastRowType DEF TypeOK, Lines
  <2>2. Right([actors[a] EXCEPT !.at = "reportAppend", !.prev = LastRow(report)])
    BY <1>3, <2>1 DEF Doings, Points
  <2> QED BY <2>2, <1>23, <1>3 DEF ReadReport
<1>24. CASE CutReport(a) \/ Return(a) \/ Stops(a)
  BY <1>24, <1>8 DEF CutReport, Return, Stops
<1> QED
  BY <1>1, <1>11, <1>12, <1>13, <1>14, <1>15, <1>16, <1>17, <1>18, <1>19, <1>20, <1>21, <1>22, <1>23, <1>24 DEF Steps

\* The vault and the texts.
LEMMA SavedTypeStep ==
  ASSUME TypeOK, Next
  PROVE  vault' \in Vaults /\ texts' \subseteq Texts /\ overlapped' \in BOOLEAN
<1> USE DEF saved
<1>1. PICK a \in Actors :
        \/ BeginShield(a) \/ BeginRestore(a) \/ BeginGovern(a) \/ BeginPurge(a)
        \/ Steps(a) \/ CutReport(a) \/ Stops(a)
  BY DEF Next
<1>2. /\ actors[a] \in Doings
      /\ actors[a].cmd \in {"shield", "restore"} => actors[a].text \in Texts
      /\ vault \in Vaults /\ texts \subseteq Texts /\ overlapped \in BOOLEAN
  BY DEF TypeOK
<1>3. actors[a].base \in Vaults /\ actors[a].image \in Vaults
  BY <1>2 DEF Doings
<1>4. CASE Shield(a)
  <2> DEFINE v == actors[a].base
             value == actors[a].text.value
             text == [value |-> value, token |-> TokenOf(v.mapping, value), era |-> v.era, kept |-> FALSE]
  <2>1. value \in Values
    BY <1>4, <1>2 DEF Shield, Works, Texts
  <2>2. TokenOf(v.mapping, value) \in Nat
    BY <2>1, <1>3, VaultFields, TokenMapped, LenProperties
  <2>3. text \in Texts
    BY <2>1, <2>2, <1>3, VaultFields DEF Texts
  <2>4. texts' = texts \/ texts' = texts \union {text}
    BY <1>4 DEF Shield
  <2>5. UNCHANGED <<vault, overlapped>>
    BY <1>4 DEF Shield
  <2> HIDE DEF text
  <2> QED BY <2>3, <2>4, <2>5, <1>2
<1>5. CASE Save(a)
  BY <1>5, <1>2, <1>3 DEF Save
<1>6. CASE Wipe(a)
  BY <1>6, <1>2, <1>3, WipedVault DEF Wipe
<1>7. CASE Return(a)
  <2>1. CASE actors[a].cmd = "shield"
    <3>1. [actors[a].text EXCEPT !.kept = TRUE] \in Texts
      BY <2>1, <1>2 DEF Texts
    <3> QED BY <2>1, <3>1, <1>7, <1>2 DEF Return
  <2> QED BY <2>1, <1>7, <1>2 DEF Return
<1>8. \/ UNCHANGED <<vault, texts, overlapped>>
      \/ Shield(a) \/ Save(a) \/ Wipe(a) \/ Return(a)
  BY <1>1 DEF Steps, BeginShield, BeginRestore, BeginGovern, BeginPurge, Begin, CountCredit, WriteUsage,
       ReplaceUsage, Load, Restore, Govern, Purge, ReadReport, AppendReport, CutReport, Stops
<1> QED BY <1>2, <1>4, <1>5, <1>6, <1>7, <1>8

\* The count of restores and its lock.
LEMMA QuotaTypeStep ==
  ASSUME TypeOK, Next
  PROVE  /\ usage' \in Nat /\ usageTmp' \in Nat \union {NoFile} /\ granted' \in Nat
         /\ holder' \in [Processes -> Actors \union {Nobody}]
<1> USE DEF quota
<1>1. PICK a \in Actors :
        \/ BeginShield(a) \/ BeginRestore(a) \/ BeginGovern(a) \/ BeginPurge(a)
        \/ Steps(a) \/ CutReport(a) \/ Stops(a)
  BY DEF Next
<1>2. /\ usage \in Nat /\ usageTmp \in Nat \union {NoFile} /\ granted \in Nat
      /\ holder \in [Processes -> Actors \union {Nobody}] /\ actors[a] \in Doings
  BY DEF TypeOK
<1>3. actors[a].count \in Nat
  BY <1>2 DEF Doings
<1>4. Released(a) \in [Processes -> Actors \union {Nobody}]
  BY <1>2 DEF Released
<1>5. CASE CountCredit(a)
  BY <1>5, <1>2 DEF CountCredit
<1>6. CASE WriteUsage(a)
  BY <1>6, <1>2, <1>3 DEF WriteUsage
<1>7. CASE ReplaceUsage(a)
  BY <1>7, <1>2, <1>4 DEF ReplaceUsage
<1>8. CASE Stops(a)
  BY <1>8, <1>2, <1>4 DEF Stops
<1>9. \/ UNCHANGED <<usage, usageTmp, granted, holder>>
      \/ CountCredit(a) \/ WriteUsage(a) \/ ReplaceUsage(a) \/ Stops(a)
  BY <1>1 DEF Steps, BeginShield, BeginRestore, BeginGovern, BeginPurge, Begin, Load, Shield, Restore, Govern,
       Purge, Save, Wipe, ReadReport, AppendReport, CutReport, Return
<1> QED BY <1>2, <1>5, <1>6, <1>7, <1>8, <1>9

\* Appended: at most one row more, whole, and numbered by its line.
LEMMA AppendedLines ==
  ASSUME TypeOK, NEW prev \in Nat
  PROVE  /\ Appended(prev) \in Lines
         /\ Append(report, Junk) \in Lines
<1>1. report \in Lines
  BY DEF TypeOK, Lines
<1>2. Len(report) \in Nat
  BY <1>1, LenProperties DEF Lines
<1>3. ASSUME NEW line \in [row : Nat, prev : Nat]
      PROVE  Append(report, line) \in Lines
  BY <1>1, AppendProperties DEF Lines
<1>4. Junk \in [row : Nat, prev : Nat] /\ [row |-> Len(report) + 1, prev |-> prev] \in [row : Nat, prev : Nat]
  BY <1>2 DEF Junk
<1> QED BY <1>1, <1>3, <1>4 DEF Appended

\* The report.
LEMMA ReportTypeStep ==
  ASSUME TypeOK, Next
  PROVE  /\ report' \in Lines /\ rows' \in Nat /\ cutOff' \in BOOLEAN /\ forked' \in BOOLEAN
         /\ cuts' \in 0..MaxCuts /\ begun' \in 0..MaxCommands
<1> USE CommandsAssumption DEF reports
<1>1. PICK a \in Actors :
        \/ BeginShield(a) \/ BeginRestore(a) \/ BeginGovern(a) \/ BeginPurge(a)
        \/ Steps(a) \/ CutReport(a) \/ Stops(a)
  BY DEF Next
<1>2. /\ report \in Lines /\ rows \in Nat /\ cutOff \in BOOLEAN /\ forked \in BOOLEAN
      /\ cuts \in 0..MaxCuts /\ begun \in 0..MaxCommands /\ actors[a] \in Doings
  BY DEF TypeOK, Lines
<1>3. actors[a].prev \in Nat
  BY <1>2 DEF Doings
<1>4. CASE AppendReport(a)
  <2>1. forked' \in BOOLEAN /\ cutOff' \in BOOLEAN
    BY <1>4, <1>2, Zenon DEF AppendReport
  <2>2. report' = Appended(actors[a].prev) /\ rows' = rows + 1 /\ UNCHANGED <<cuts, begun>>
    BY <1>4 DEF AppendReport
  <2>3. report' \in Lines
    BY <2>2, <1>3, AppendedLines
  <2> QED BY <2>1, <2>2, <2>3, <1>2
<1>5. CASE CutReport(a)
  BY <1>5, <1>2, <1>3, AppendedLines DEF CutReport
<1>6. ASSUME NEW cmd, NEW at, NEW text, Begin(a, cmd, at, text)
      PROVE  UNCHANGED <<report, rows, cutOff, forked, cuts>> /\ begun' \in 0..MaxCommands
  BY <1>6, <1>2 DEF Begin
<1>7. CASE BeginShield(a) \/ BeginRestore(a) \/ BeginGovern(a) \/ BeginPurge(a)
  BY <1>2, <1>6, <1>7 DEF BeginShield, BeginRestore, BeginGovern, BeginPurge
<1>8. \/ UNCHANGED <<report, rows, cutOff, forked, cuts, begun>>
      \/ BeginShield(a) \/ BeginRestore(a) \/ BeginGovern(a) \/ BeginPurge(a) \/ AppendReport(a) \/ CutReport(a)
  BY <1>1 DEF Steps, CountCredit, WriteUsage, ReplaceUsage, Load, Shield, Restore, Govern, Purge, Save, Wipe,
       ReadReport, Return, Stops
<1> QED BY <1>2, <1>4, <1>5, <1>7, <1>8

\* Every variable has its type, and a command that shields or restores its text.
THEOREM TypeCorrect == Spec => []TypeOK
<1>1. Init => TypeOK
  <2> SUFFICES ASSUME Init PROVE TypeOK
    OBVIOUS
  <2>1. report \in Seq([row : Nat, prev : Nat])
    BY EmptySeq DEF Init
  <2>2. /\ actors \in [Actors -> Doings]
        /\ \A a \in Actors : actors[a].cmd \in {"shield", "restore"} => actors[a].text \in Texts
    BY IdleType DEF Init, Idle
  <2>3. begun \in 0..MaxCommands /\ cuts \in 0..MaxCuts
    BY CommandsAssumption DEF Init
  <2>4. holder \in [Processes -> Actors \union {Nobody}]
    BY DEF Init
  <2> QED BY <2>1, <2>2, <2>3, <2>4, NewVaultType DEF Init, TypeOK
<1>2. TypeOK /\ [Next]_vars => TypeOK'
  <2>1. ASSUME TypeOK, Next PROVE TypeOK'
    BY <2>1, DoingsStep, SavedTypeStep, QuotaTypeStep, ReportTypeStep DEF TypeOK, Lines
  <2>2. ASSUME TypeOK, UNCHANGED vars PROVE TypeOK'
    BY <2>2 DEF TypeOK, vars
  <2> QED BY <2>1, <2>2
<1> QED BY <1>1, <1>2, PTL DEF Spec

-----------------------------------------------------------------------------
\* What GoTo, Ends, WillSave and Begin leave of what the actors do.
Others(a) == \A b \in Actors \ {a} : actors'[b] = actors[b]

LEMMA Goes ==
  ASSUME TypeOK, NEW a \in Actors, NEW at, GoTo(a, at)
  PROVE  /\ Others(a) /\ actors'[a].at = at
         /\ actors'[a].cmd = actors[a].cmd /\ actors'[a].text = actors[a].text
         /\ actors'[a].base = actors[a].base /\ actors'[a].image = actors[a].image
         /\ actors'[a].got = actors[a].got /\ actors'[a].count = actors[a].count
         /\ actors'[a].prev = actors[a].prev
<1>1. actors \in [Actors -> Doings]
  BY DEF TypeOK
<1> QED BY <1>1 DEF GoTo, Others, Doings

LEMMA EndsIdle ==
  ASSUME TypeOK, NEW a \in Actors, Ends(a)
  PROVE  Others(a) /\ actors'[a] = Idle
<1>1. actors \in [Actors -> Doings]
  BY DEF TypeOK
<1> QED BY <1>1 DEF Ends, Others

LEMMA Saves ==
  ASSUME TypeOK, NEW a \in Actors, NEW image, NEW text, NEW got, WillSave(a, image, text, got)
  PROVE  /\ Others(a) /\ actors'[a].at = "save"
         /\ actors'[a].image = image /\ actors'[a].text = text /\ actors'[a].got = got
         /\ actors'[a].cmd = actors[a].cmd /\ actors'[a].base = actors[a].base
<1>1. actors \in [Actors -> Doings]
  BY DEF TypeOK
<1> QED BY <1>1 DEF WillSave, Others, Doings

LEMMA Begins ==
  ASSUME TypeOK, NEW a \in Actors, BeginShield(a) \/ BeginRestore(a) \/ BeginGovern(a) \/ BeginPurge(a)
  PROVE  /\ Others(a)
         /\ \E cmd, at, text :
              /\ actors'[a] = [Idle EXCEPT !.cmd = cmd, !.at = at, !.text = text]
              /\ at \in {"load", "credit"}
              /\ cmd # "restore" \/ text \in texts
         /\ UNCHANGED <<vault, overlapped, texts, usage, usageTmp, holder, granted,
                        report, cutOff, cuts, rows, forked>>
<1>1. actors \in [Actors -> Doings]
  BY DEF TypeOK
<1>2. ASSUME NEW cmd, NEW at, NEW text, Begin(a, cmd, at, text),
             at \in {"load", "credit"}, cmd # "restore" \/ text \in texts
      PROVE  /\ Others(a)
             /\ \E c, p, t :
                  /\ actors'[a] = [Idle EXCEPT !.cmd = c, !.at = p, !.text = t]
                  /\ p \in {"load", "credit"}
                  /\ c # "restore" \/ t \in texts
             /\ UNCHANGED <<vault, overlapped, texts, usage, usageTmp, holder, granted,
                            report, cutOff, cuts, rows, forked>>
  BY <1>1, <1>2 DEF Begin, Others, saved, quota, reports
<1>3. CASE BeginShield(a)
  BY <1>3, <1>2 DEF BeginShield
<1>4. CASE BeginRestore(a)
  BY <1>4, <1>2 DEF BeginRestore
<1>5. CASE BeginGovern(a) \/ BeginPurge(a)
  BY <1>5, <1>2 DEF BeginGovern, BeginPurge
<1> QED BY <1>3, <1>4, <1>5

\* Load and ReadReport.
LEMMA Reads ==
  ASSUME TypeOK, NEW a \in Actors
  PROVE  /\ Load(a) => /\ Others(a) /\ actors'[a].at = "work" /\ actors'[a].base = vault
                       /\ actors'[a].image = actors[a].image /\ actors'[a].got = actors[a].got
                       /\ actors'[a].cmd = actors[a].cmd /\ actors'[a].text = actors[a].text
         /\ ReadReport(a) => /\ Others(a) /\ actors'[a].at = "reportAppend" /\ actors'[a].base = actors[a].base
                             /\ actors'[a].image = actors[a].image /\ actors'[a].got = actors[a].got
                             /\ actors'[a].cmd = actors[a].cmd /\ actors'[a].text = actors[a].text
<1>1. actors \in [Actors -> Doings]
  BY DEF TypeOK
<1> QED BY <1>1 DEF Load, ReadReport, Others, Doings

\* CountCredit: the actor waits, or has read the count under the lock.
LEMMA Counts ==
  ASSUME TypeOK, NEW a \in Actors, CountCredit(a)
  PROVE  \/ Ends(a) /\ UNCHANGED holder
         \/ /\ Others(a) /\ actors'[a].at = "creditWrite" /\ actors'[a].count = usage
            /\ actors'[a].base = actors[a].base /\ actors'[a].image = actors[a].image
            /\ actors'[a].cmd = actors[a].cmd /\ actors'[a].text = actors[a].text
            /\ actors'[a].got = actors[a].got
            /\ ~(usage >= Limit) /\ holder' = [holder EXCEPT ![ProcessOf(a)] = a]
<1>1. actors \in [Actors -> Doings]
  BY DEF TypeOK
<1> QED BY <1>1 DEF CountCredit, Others, Doings

-----------------------------------------------------------------------------
\* Shielded, Wiped and the setting of Govern keep the records consistent.
LEMMA ShieldedConsistent ==
  ASSUME NEW v \in Vaults, Consistent(v), NEW value \in Values
  PROVE  Consistent(Shielded(v, value))
<1> DEFINE w == Shielded(v, value)
           token == TokenOf(v.mapping, value)
<1>1. w.mapping = Mapped(v.mapping, value) /\ w.records = Append(v.records, <<value, token>>)
  BY ShieldedVault
<1>2. /\ token \in DOMAIN w.mapping /\ w.mapping[token] = value
      /\ \A n \in DOMAIN v.mapping : n \in DOMAIN w.mapping /\ w.mapping[n] = v.mapping[n]
  BY <1>1, VaultFields, TokenMapped
<1>3. token \in Nat \ {0}
  BY <1>2, ShieldedVault, VaultFields, LenProperties
<1>4. /\ Len(v.records) \in Nat /\ DOMAIN v.records = 1..Len(v.records)
      /\ DOMAIN w.records = 1..(Len(v.records) + 1)
      /\ \A k \in 1..Len(v.records) : w.records[k] = v.records[k]
      /\ w.records[Len(v.records) + 1] = <<value, token>>
  BY <1>1, <1>3, VaultFields, LenProperties, AppendProperties
<1> HIDE DEF w, token
<1>5. ASSUME NEW k \in DOMAIN w.records
      PROVE  w.records[k][2] \in DOMAIN w.mapping /\ w.mapping[w.records[k][2]] = w.records[k][1]
  <2>1. CASE k \in DOMAIN v.records
    BY <2>1, <1>2, <1>4 DEF Consistent
  <2>2. CASE k = Len(v.records) + 1
    BY <2>2, <1>2, <1>4
  <2> QED BY <2>1, <2>2, <1>4, <1>5
<1> QED BY <1>5 DEF Consistent, w

LEMMA WipedConsistent ==
  ASSUME NEW v \in Vaults
  PROVE  Consistent(Wiped(v))
<1>1. DOMAIN Wiped(v).records = {}
  <2>1. Wiped(v).records = <<>>
    BY WipedVault
  <2> QED BY <2>1
<1> QED BY <1>1 DEF Consistent

\* All vaults that are saved, loaded and worked on are consistent.
LEMMA ConsistentStep ==
  ASSUME TypeOK, AllConsistent, Next
  PROVE  AllConsistent'
<1>1. PICK a \in Actors :
        \/ BeginShield(a) \/ BeginRestore(a) \/ BeginGovern(a) \/ BeginPurge(a)
        \/ Steps(a) \/ CutReport(a) \/ Stops(a)
  BY DEF Next
<1>2. actors \in [Actors -> Doings] /\ vault \in Vaults
  BY DEF TypeOK
<1>3. /\ actors[a].base \in Vaults /\ actors[a].image \in Vaults
      /\ Consistent(actors[a].base) /\ Consistent(actors[a].image) /\ Consistent(vault)
  BY <1>2 DEF Doings, AllConsistent
<1>4. Consistent(Idle.base) /\ Consistent(Idle.image)
  <2>1. DOMAIN NewVault.records = {}
    BY DEF NewVault
  <2> QED BY <2>1 DEF Consistent, Idle
<1>5. SUFFICES /\ Others(a) /\ Consistent(vault')
               /\ Consistent(actors'[a].base) /\ Consistent(actors'[a].image)
  <2>1. ASSUME Others(a), Consistent(vault'), Consistent(actors'[a].base), Consistent(actors'[a].image)
        PROVE  AllConsistent'
    <3>1. ASSUME NEW b \in Actors
          PROVE  Consistent(actors'[b].base) /\ Consistent(actors'[b].image)
      <4>1. CASE b = a
        BY <2>1, <4>1
      <4>2. CASE b # a
        <5>1. actors'[b] = actors[b]
          BY <2>1, <4>2 DEF Others
        <5> QED BY <5>1 DEF AllConsistent
      <4> QED BY <4>1, <4>2
    <3> QED BY <2>1, <3>1 DEF AllConsistent, Consistent
  <2> QED BY <2>1
<1>6. CASE BeginShield(a) \/ BeginRestore(a) \/ BeginGovern(a) \/ BeginPurge(a)
  <2>1. PICK cmd, at, text : /\ actors'[a] = [Idle EXCEPT !.cmd = cmd, !.at = at, !.text = text]
                             /\ at \in {"load", "credit"}
                             /\ cmd # "restore" \/ text \in texts
    BY <1>6, Begins
  <2>2. actors'[a].base = Idle.base /\ actors'[a].image = Idle.image
    BY <2>1 DEF Idle
  <2> QED BY <2>2, <1>3, <1>4, <1>6, Begins
<1>7. CASE CountCredit(a)
  BY <1>7, <1>3, <1>4, Counts, EndsIdle DEF CountCredit, saved
<1>8. CASE WriteUsage(a) \/ ReplaceUsage(a)
  BY <1>8, <1>3, <1>4, Goes, EndsIdle DEF WriteUsage, ReplaceUsage, saved
<1>9. CASE Load(a)
  BY <1>9, <1>3, Reads DEF Load, saved
<1>10. CASE Shield(a)
  <2> DEFINE v == actors[a].base
             value == actors[a].text.value
             text == [value |-> value, token |-> TokenOf(v.mapping, value), era |-> v.era, kept |-> FALSE]
  <2>1. value \in Values
    BY <1>10 DEF Shield, Works, Texts, TypeOK
  <2>2. WillSave(a, Shielded(v, value), text, NoText) \/ Ends(a)
    BY <1>10 DEF Shield
  <2>3. UNCHANGED vault
    BY <1>10 DEF Shield, saved
  <2>4. Consistent(Shielded(v, value))
    BY <2>1, <1>3, ShieldedConsistent
  <2> HIDE DEF text, value
  <2> QED BY <2>2, <2>3, <2>4, <1>3, <1>4, Saves, EndsIdle
<1>11. CASE Restore(a)
  BY <1>11, <1>3, <1>4, Saves, EndsIdle DEF Restore, saved
<1>12. CASE Govern(a)
  <2>1. PICK b \in BOOLEAN : WillSave(a, [actors[a].base EXCEPT !.selfDestruct = b], NoText, NoText)
    BY <1>12 DEF Govern
  <2> DEFINE w == [actors[a].base EXCEPT !.selfDestruct = b]
  <2>2. w.mapping = actors[a].base.mapping /\ w.records = actors[a].base.records
    BY <1>3 DEF Vaults
  <2> HIDE DEF w
  <2>3. Consistent(w)
    BY <2>2, <1>3 DEF Consistent
  <2> QED BY <2>1, <2>3, <1>3, <1>12, Saves DEF Govern, saved, w
<1>13. CASE Purge(a)
  BY <1>13, <1>3, Saves, WipedConsistent DEF Purge, saved
<1>14. CASE Save(a)
  <2>1. vault' = actors[a].image /\ \E at : GoTo(a, at)
    BY <1>14 DEF Save
  <2> QED BY <2>1, <1>3, Goes
<1>15. CASE Wipe(a)
  BY <1>15, <1>3, Goes, WipedConsistent DEF Wipe
<1>16. CASE ReadReport(a)
  BY <1>16, <1>3, Reads DEF ReadReport, saved
<1>17. CASE AppendReport(a)
  BY <1>17, <1>3, Goes DEF AppendReport, saved
<1>18. CASE CutReport(a) \/ Return(a) \/ Stops(a)
  BY <1>18, <1>3, <1>4, EndsIdle DEF CutReport, Return, Stops, saved
<1> QED
  BY <1>1, <1>6, <1>7, <1>8, <1>9, <1>10, <1>11, <1>12, <1>13, <1>14, <1>15, <1>16, <1>17, <1>18 DEF Steps

\* The records of a saved vault agree with its mappings, also where saves
\* crossed: what a command saves agrees with itself.
THEOREM RecordsAgree == Spec => []VaultConsistent
<1>1. Init => AllConsistent
  <2> SUFFICES ASSUME Init PROVE AllConsistent
    OBVIOUS
  <2>1. DOMAIN NewVault.records = {}
    BY DEF NewVault
  <2>2. Consistent(NewVault)
    BY <2>1 DEF Consistent
  <2> QED BY <2>2 DEF Init, AllConsistent, Idle
<1>2. TypeOK /\ AllConsistent /\ [Next]_vars => AllConsistent'
  <2>1. ASSUME AllConsistent, UNCHANGED vars PROVE AllConsistent'
    BY <2>1 DEF AllConsistent, Consistent, vars
  <2> QED BY <2>1, ConsistentStep
<1>3. AllConsistent => VaultConsistent
  BY DEF AllConsistent, Consistent, VaultConsistent
<1> QED BY <1>1, <1>2, <1>3, TypeCorrect, PTL DEF Spec

-----------------------------------------------------------------------------
\* What a token stands for it stands for in every vault that follows.
LEMMA MeansStays ==
  ASSUME NEW v \in Vaults, NEW w \in Vaults, NEW t \in Texts, Means(v, t), Follows(w, v)
  PROVE  Means(w, t)
<1>1. v.era \in Nat /\ w.era \in Nat /\ t.era \in Nat
  BY DEF Vaults, Texts
<1>2. CASE w.era = v.era + 1
  BY <1>1, <1>2 DEF Means
<1>3. CASE w.era = v.era /\ \A n \in DOMAIN v.mapping : n \in DOMAIN w.mapping /\ w.mapping[n] = v.mapping[n]
  BY <1>1, <1>3 DEF Means, Holds
<1> QED BY <1>2, <1>3 DEF Follows

\* What a command is about to save follows what it loaded.
LEMMA FollowsStep ==
  ASSUME TypeOK, FollowsBase, Next
  PROVE  FollowsBase'
<1> DEFINE Following(d) ==
             /\ d.at = "save" => Follows(d.image, d.base)
             /\ d.at = "save" /\ d.cmd = "shield" => d.text.era = d.image.era /\ Holds(d.image, d.text)
             /\ d.at = "wipe" => d.cmd = "restore"
<1>1. PICK a \in Actors :
        \/ BeginShield(a) \/ BeginRestore(a) \/ BeginGovern(a) \/ BeginPurge(a)
        \/ Steps(a) \/ CutReport(a) \/ Stops(a)
  BY DEF Next
<1>2. actors \in [Actors -> Doings]
  BY DEF TypeOK
<1>3. actors[a].base \in Vaults /\ actors[a].image \in Vaults
  BY <1>2 DEF Doings
<1>4. SUFFICES Others(a) /\ Following(actors'[a])
  BY DEF FollowsBase, Follows, Holds, Others, At
<1>5. ASSUME actors'[a] = Idle PROVE Following(actors'[a])
  BY <1>5 DEF Idle
<1>6. CASE BeginShield(a) \/ BeginRestore(a) \/ BeginGovern(a) \/ BeginPurge(a)
  <2>1. PICK cmd, at, text : /\ actors'[a] = [Idle EXCEPT !.cmd = cmd, !.at = at, !.text = text]
                             /\ at \in {"load", "credit"}
                             /\ cmd # "restore" \/ text \in texts
    BY <1>6, Begins
  <2>2. actors'[a].at \notin {"save", "wipe"}
    BY <2>1 DEF Idle
  <2> QED BY <2>2, <1>6, Begins
<1>7. CASE CountCredit(a)
  BY <1>7, <1>5, Counts, EndsIdle
<1>8. CASE WriteUsage(a) \/ ReplaceUsage(a)
  <2>1. Ends(a) \/ \E at \in {"creditReplace", "load"} : GoTo(a, at)
    BY <1>8 DEF WriteUsage, ReplaceUsage
  <2> QED BY <2>1, <1>5, Goes, EndsIdle
<1>9. CASE Load(a) \/ ReadReport(a)
  BY <1>9, Reads
<1>10. CASE Shield(a)
  <2> DEFINE v == actors[a].base
             value == actors[a].text.value
             token == TokenOf(v.mapping, value)
             text == [value |-> value, token |-> token, era |-> v.era, kept |-> FALSE]
             w == Shielded(v, value)
  <2>1. value \in Values
    BY <1>10 DEF Shield, Works, Texts, TypeOK
  <2>2. WillSave(a, w, text, NoText) \/ Ends(a)
    BY <1>10 DEF Shield
  <2>3. w.era = v.era /\ w.mapping = Mapped(v.mapping, value)
    BY <2>1, <1>3, ShieldedVault
  <2>4. /\ token \in DOMAIN w.mapping /\ w.mapping[token] = value
        /\ \A n \in DOMAIN v.mapping : n \in DOMAIN w.mapping /\ w.mapping[n] = v.mapping[n]
    <3>1. v.mapping \in Seq(Values)
      BY <1>3, VaultFields
    <3> HIDE DEF v, value, w
    <3> QED BY <2>1, <2>3, <3>1, TokenMapped
  <2>5. text.era = w.era /\ text.token = token /\ text.value = value
    BY <2>3
  <2> HIDE DEF text, value, w, token
  <2>6. Follows(w, v) /\ Holds(w, text)
    BY <2>3, <2>4, <2>5 DEF Follows, Holds
  <2>7. CASE WillSave(a, w, text, NoText)
    <3>1. /\ Others(a) /\ actors'[a].image = w /\ actors'[a].text = text /\ actors'[a].base = v
          /\ actors'[a].at = "save"
      BY <2>7, Saves
    <3> QED BY <3>1, <2>5, <2>6
  <2>8. CASE Ends(a)
    BY <2>8, <1>5, EndsIdle
  <2> QED BY <2>2, <2>7, <2>8
<1>11. CASE Restore(a)
  <2>1. actors[a].cmd = "restore" /\ Follows(actors[a].base, actors[a].base)
    BY <1>11 DEF Restore, Works, Follows
  <2>2. Ends(a) \/ \E text, got : WillSave(a, actors[a].base, text, got)
    BY <1>11 DEF Restore
  <2> QED BY <2>1, <2>2, <1>5, Saves, EndsIdle
<1>12. CASE Govern(a)
  <2>1. PICK b \in BOOLEAN : WillSave(a, [actors[a].base EXCEPT !.selfDestruct = b], NoText, NoText)
    BY <1>12 DEF Govern
  <2> DEFINE w == [actors[a].base EXCEPT !.selfDestruct = b]
  <2>2. w.mapping = actors[a].base.mapping /\ w.era = actors[a].base.era
    BY <1>3 DEF Vaults
  <2> HIDE DEF w
  <2>3. actors[a].cmd = "govern" /\ Follows(w, actors[a].base)
    BY <2>2, <1>12 DEF Follows, Govern, Works
  <2> QED BY <2>1, <2>3, Saves DEF w
<1>13. CASE Purge(a)
  <2>1. actors[a].cmd = "purge" /\ Follows(Wiped(actors[a].base), actors[a].base)
    BY <1>13, <1>3, WipedVault DEF Follows, Purge, Works
  <2> QED BY <2>1, <1>13, Saves DEF Purge
<1>14. CASE Save(a) \/ Wipe(a) \/ AppendReport(a)
  <2>1. \/ \E at \in {"reportRead", "done"} : GoTo(a, at)
        \/ actors[a].cmd = "restore" /\ GoTo(a, "wipe")
    BY <1>14 DEF Save, Wipe, AppendReport
  <2> QED BY <2>1, Goes
<1>15. CASE CutReport(a) \/ Return(a) \/ Stops(a)
  BY <1>15, <1>5, EndsIdle DEF CutReport, Return, Stops
<1> QED
  BY <1>1, <1>6, <1>7, <1>8, <1>9, <1>10, <1>11, <1>12, <1>13, <1>14, <1>15 DEF Steps

\* The texts keep their meaning.
LEMMA MeansStep ==
  ASSUME TypeOK, TypeOK', FollowsBase, AllMean, Next
  PROVE  AllMean'
<1> DEFINE Reports(d) == d.cmd = "shield" /\ d.at \in {"reportRead", "reportAppend", "done"}
<1>1. SUFFICES ASSUME ~overlapped' PROVE /\ \A t \in texts' : t.kept => Means(vault', t)
                                         /\ \A b \in Actors : Reports(actors'[b]) => Means(vault', actors'[b].text)
  BY DEF AllMean, Means, Holds
<1>2. PICK a \in Actors :
        \/ BeginShield(a) \/ BeginRestore(a) \/ BeginGovern(a) \/ BeginPurge(a)
        \/ Steps(a) \/ CutReport(a) \/ Stops(a)
  BY DEF Next
<1>3. /\ actors \in [Actors -> Doings] /\ vault \in Vaults /\ vault' \in Vaults /\ texts \subseteq Texts
      /\ \A b \in Actors : Reports(actors[b]) => actors[b].text \in Texts
  BY DEF TypeOK
<1>4. actors[a].base \in Vaults /\ actors[a].image \in Vaults
  BY <1>3 DEF Doings
<1>5. /\ ~overlapped /\ Follows(vault', vault)
      /\ Save(a) => /\ vault = actors[a].base
                    /\ actors[a].cmd = "shield" => Means(vault', actors[a].text)
  <2>1. CASE Save(a)
    <3>1. ~overlapped /\ vault = actors[a].base /\ vault' = actors[a].image /\ At(a, "save")
      BY <2>1, <1>1 DEF Save
    <3>2. actors[a].image.era \in Nat
      BY <1>4, VaultFields
    <3> QED BY <3>1, <3>2 DEF FollowsBase, Means
  <2>2. CASE Wipe(a)
    <3>1. ~overlapped /\ vault = actors[a].image /\ vault' = Wiped(actors[a].image) /\ ~At(a, "save")
      BY <2>2, <1>1 DEF Wipe, At
    <3> QED BY <3>1, <1>4, WipedVault DEF Follows, Save
  <2>3. CASE UNCHANGED <<vault, overlapped>> /\ ~Save(a)
    BY <2>3, <1>1 DEF Follows
  <2>4. Save(a) \/ Wipe(a) \/ UNCHANGED <<vault, overlapped>>
    BY <1>2 DEF Steps, BeginShield, BeginRestore, BeginGovern, BeginPurge, Begin, CountCredit, WriteUsage,
         ReplaceUsage, Load, Shield, Restore, Govern, Purge, ReadReport, AppendReport, CutReport, Return, Stops, saved
  <2> QED BY <2>1, <2>2, <2>3, <2>4
<1>6. /\ \A t \in texts : t.kept => Means(vault', t)
      /\ \A b \in Actors : Reports(actors[b]) => Means(vault', actors[b].text)
  BY <1>3, <1>5, MeansStays DEF AllMean
<1> DEFINE NewTexts == \A t \in texts' : t.kept => t \in texts \/ Means(vault', t)
<1>7. SUFFICES NewTexts /\ Others(a) /\ (Reports(actors'[a]) => Means(vault', actors'[a].text))
  BY <1>6 DEF Others
<1>8. ASSUME actors'[a] = Idle PROVE ~Reports(actors'[a])
  BY <1>8 DEF Idle
<1>9. CASE BeginShield(a) \/ BeginRestore(a) \/ BeginGovern(a) \/ BeginPurge(a)
  <2>1. PICK cmd, at, text : /\ actors'[a] = [Idle EXCEPT !.cmd = cmd, !.at = at, !.text = text]
                             /\ at \in {"load", "credit"}
                             /\ cmd # "restore" \/ text \in texts
    BY <1>9, Begins
  <2>2. ~Reports(actors'[a])
    BY <2>1 DEF Idle
  <2> QED BY <2>2, <1>9, Begins
<1>10. CASE CountCredit(a)
  BY <1>10, <1>8, Counts, EndsIdle DEF CountCredit
<1>11. CASE WriteUsage(a) \/ ReplaceUsage(a)
  <2>1. Ends(a) \/ \E at \in {"creditReplace", "load"} : GoTo(a, at)
    BY <1>11 DEF WriteUsage, ReplaceUsage
  <2>2. texts' = texts
    BY <1>11 DEF WriteUsage, ReplaceUsage
  <2> QED BY <2>1, <2>2, <1>8, Goes, EndsIdle
<1>12. CASE Load(a)
  BY <1>12, Reads DEF Load
<1>13. CASE Shield(a)
  <2>1. Ends(a) \/ \E image, text, got : WillSave(a, image, text, got)
    BY <1>13 DEF Shield
  <2>2. NewTexts
    BY <1>13 DEF Shield
  <2> QED BY <2>1, <2>2, <1>8, Saves, EndsIdle
<1>14. CASE Restore(a) \/ Govern(a) \/ Purge(a)
  <2>1. Ends(a) \/ \E image, text, got : WillSave(a, image, text, got)
    BY <1>14 DEF Restore, Govern, Purge
  <2>2. texts' = texts
    BY <1>14 DEF Restore, Govern, Purge
  <2> QED BY <2>1, <2>2, <1>8, Saves, EndsIdle
<1>15. CASE Save(a)
  <2>1. (\E at : GoTo(a, at)) /\ texts' = texts
    BY <1>15 DEF Save
  <2> QED BY <2>1, <1>5, <1>15, Goes
<1>16. CASE Wipe(a) \/ AppendReport(a)
  <2>1. CASE Wipe(a)
    <3>1. GoTo(a, "reportRead") /\ texts' = texts /\ actors[a].cmd = "restore"
      BY <2>1 DEF Wipe, FollowsBase
    <3> QED BY <3>1, Goes
  <2>2. CASE AppendReport(a)
    BY <2>2, <1>6, Goes DEF AppendReport, At
  <2> QED BY <1>16, <2>1, <2>2
<1>17. CASE ReadReport(a)
  BY <1>17, <1>6, Reads DEF ReadReport, At
<1>18. CASE Return(a)
  <2>1. NewTexts
    <3>1. CASE actors[a].cmd = "shield"
      <4> DEFINE old == actors[a].text
                 new == [old EXCEPT !.kept = TRUE]
      <4>1. old \in Texts /\ Means(vault', old)
        BY <1>18, <3>1, <1>6 DEF Return, At, TypeOK
      <4>2. new.era = old.era /\ new.token = old.token /\ new.value = old.value
        BY <4>1 DEF Texts
      <4> HIDE DEF new
      <4>3. Means(vault', new)
        BY <4>1, <4>2 DEF Means, Holds
      <4> QED BY <4>3, <3>1, <1>18 DEF Return, new
    <3>2. CASE actors[a].cmd # "shield"
      BY <3>2, <1>18 DEF Return
    <3> QED BY <3>1, <3>2
  <2> QED BY <2>1, <1>18, <1>8, EndsIdle DEF Return
<1>19. CASE CutReport(a) \/ Stops(a)
  BY <1>19, <1>8, EndsIdle DEF CutReport, Stops
<1> QED
  BY <1>2, <1>9, <1>10, <1>11, <1>12, <1>13, <1>14, <1>15, <1>16, <1>17, <1>18, <1>19 DEF Steps

LEMMA MeansCorrect == Spec => [](TypeOK /\ FollowsBase /\ AllMean)
<1>1. Init => FollowsBase /\ AllMean
  BY DEF Init, FollowsBase, AllMean, At, Idle
<1>2. TypeOK /\ TypeOK' /\ FollowsBase /\ AllMean /\ [Next]_vars => FollowsBase' /\ AllMean'
  <2>1. ASSUME FollowsBase, AllMean, UNCHANGED vars PROVE FollowsBase' /\ AllMean'
    BY <2>1 DEF FollowsBase, Follows, AllMean, Means, Holds, At, vars
  <2> QED BY <2>1, FollowsStep, MeansStep
<1> QED BY <1>1, <1>2, TypeCorrect, PTL DEF Spec

\* While no save replaced a vault that its command had not loaded, the text of
\* every shield that returned keeps its meaning until the mappings are wiped.
THEOREM TextsKept == Spec => []KeptUntilWiped
<1>1. TypeOK /\ AllMean => KeptUntilWiped
  BY DEF AllMean, KeptUntilWiped, Means, Holds
<1> QED BY <1>1, MeansCorrect, PTL

-----------------------------------------------------------------------------
\* What a restore works on.
LEMMA LoadedStep ==
  ASSUME TypeOK, AllMean, RestoresLoaded, BaseMeans, Next
  PROVE  RestoresLoaded' /\ BaseMeans'
<1> DEFINE Loaded(d) ==
             /\ d.cmd = "restore" => d.text \in texts'
             /\ d.got # NoText => /\ d.cmd = "restore" /\ d.at \notin Waiting
                                  /\ d.got = d.base.mapping[d.text.token]
           Based(d) ==
             ~overlapped' /\ d.cmd = "restore" /\ d.at \notin Waiting /\ d.text.kept => Means(d.base, d.text)
           Known(d) == Loaded(d) /\ Based(d)
<1>1. PICK a \in Actors :
        \/ BeginShield(a) \/ BeginRestore(a) \/ BeginGovern(a) \/ BeginPurge(a)
        \/ Steps(a) \/ CutReport(a) \/ Stops(a)
  BY DEF Next
<1>2. texts \subseteq texts' /\ (~overlapped' => ~overlapped)
  <2>1. texts \subseteq texts'
    BY <1>1 DEF Steps, BeginShield, BeginRestore, BeginGovern, BeginPurge, Begin, CountCredit, WriteUsage,
         ReplaceUsage, Load, Shield, Restore, Govern, Purge, Save, Wipe, ReadReport, AppendReport, CutReport,
         Return, Stops
  <2>2. Save(a) \/ Wipe(a) \/ UNCHANGED overlapped
    BY <1>1 DEF Steps, BeginShield, BeginRestore, BeginGovern, BeginPurge, Begin, CountCredit, WriteUsage,
         ReplaceUsage, Load, Shield, Restore, Govern, Purge, ReadReport, AppendReport, CutReport, Return,
         Stops, saved
  <2>3. Save(a) \/ Wipe(a) => (~overlapped' => ~overlapped)
    BY DEF Save, Wipe
  <2> QED BY <2>1, <2>2, <2>3
<1>3. \A b \in Actors : Known(actors[b])
  BY <1>2 DEF RestoresLoaded, BaseMeans
<1>4. SUFFICES Others(a) /\ Known(actors'[a])
  <2>1. \A b \in Actors : Known(actors'[b])
    BY <1>3, <1>4 DEF Others
  <2>2. RestoresLoaded'
    BY <2>1 DEF RestoresLoaded
  <2>3. BaseMeans'
    BY <2>1 DEF BaseMeans, Means, Holds
  <2> QED BY <2>2, <2>3
<1>5. ASSUME actors'[a] = Idle PROVE Known(actors'[a])
  BY <1>5 DEF Idle
<1>6. ASSUME NEW at, GoTo(a, at), at \notin Waiting, actors[a].at \notin Waiting
      PROVE  Others(a) /\ Known(actors'[a])
  BY <1>3, <1>6, Goes DEF Waiting
<1>7. ASSUME NEW image, NEW text, NEW got, WillSave(a, image, text, got), actors[a].at = "work",
             got = NoText, actors[a].cmd # "restore"
      PROVE  Others(a) /\ Known(actors'[a])
  BY <1>7, Saves DEF Waiting
<1>8. CASE BeginShield(a) \/ BeginRestore(a) \/ BeginGovern(a) \/ BeginPurge(a)
  <2>1. PICK cmd, at, text : /\ actors'[a] = [Idle EXCEPT !.cmd = cmd, !.at = at, !.text = text]
                             /\ at \in {"load", "credit"}
                             /\ cmd # "restore" \/ text \in texts
    BY <1>8, Begins
  <2>2. /\ actors'[a].cmd = cmd /\ actors'[a].at = at /\ actors'[a].text = text
        /\ actors'[a].got = NoText
    BY <2>1 DEF Idle
  <2> QED BY <2>1, <2>2, <1>2, <1>8, Begins DEF Waiting
<1>9. CASE CountCredit(a)
  <2>1. actors[a].at \in Waiting
    BY <1>9 DEF CountCredit, At, Waiting
  <2> QED BY <2>1, <1>3, <1>9, <1>5, Counts, EndsIdle DEF Waiting
<1>10. CASE WriteUsage(a) \/ ReplaceUsage(a)
  <2>1. actors[a].at \in Waiting \ {"load"}
    BY <1>10 DEF WriteUsage, ReplaceUsage, At, Waiting
  <2>2. actors[a].got = NoText /\ (Ends(a) \/ \E at \in Waiting : GoTo(a, at))
    BY <2>1, <1>3, <1>10 DEF WriteUsage, ReplaceUsage, Waiting
  <2> QED BY <2>2, <1>3, <1>5, Goes, EndsIdle
<1>11. CASE Load(a)
  <2>1. actors[a].at \in Waiting /\ UNCHANGED <<texts, overlapped>>
    BY <1>11 DEF Load, At, Waiting, saved
  <2>2. /\ Others(a) /\ actors'[a].base = vault /\ actors'[a].cmd = actors[a].cmd
        /\ actors'[a].text = actors[a].text /\ actors'[a].got = actors[a].got
    BY <1>11, Reads
  <2>3. actors[a].got = NoText
    BY <2>1, <1>3
  <2>4. Based(actors'[a])
    BY <2>1, <2>2, <1>3 DEF AllMean
  <2> QED BY <2>1, <2>2, <2>3, <2>4, <1>3
<1>12. CASE Shield(a)
  <2>1. Ends(a) \/ \E image, text : WillSave(a, image, text, NoText)
    BY <1>12 DEF Shield
  <2>2. actors[a].at = "work" /\ actors[a].cmd # "restore"
    BY <1>12 DEF Shield, Works, At
  <2> QED BY <2>1, <2>2, <1>5, <1>7, EndsIdle
<1>13. CASE Restore(a)
  <2>1. \/ Ends(a)
        \/ WillSave(a, actors[a].base, actors[a].text, actors[a].base.mapping[actors[a].text.token])
    BY <1>13 DEF Restore
  <2>2. actors[a].cmd = "restore" /\ actors[a].at \notin Waiting /\ "save" \notin Waiting
    BY <1>13 DEF Restore, Works, At, Waiting
  <2> QED BY <2>1, <2>2, <1>3, <1>5, Saves, EndsIdle
<1>14. CASE Govern(a) \/ Purge(a)
  <2>1. \E image : WillSave(a, image, NoText, NoText)
    BY <1>14 DEF Govern, Purge
  <2>2. actors[a].at = "work" /\ actors[a].cmd # "restore"
    BY <1>14 DEF Govern, Purge, Works, At
  <2> QED BY <2>1, <2>2, <1>7
<1>15. CASE Save(a) \/ Wipe(a) \/ AppendReport(a)
  <2>1. \E at \in {"reportRead", "wipe", "done"} : GoTo(a, at)
    BY <1>15 DEF Save, Wipe, AppendReport
  <2>2. actors[a].at \notin Waiting /\ {"reportRead", "wipe", "done"} \intersect Waiting = {}
    BY <1>15 DEF Save, Wipe, AppendReport, At, Waiting
  <2> QED BY <2>1, <2>2, <1>6
<1>16. CASE ReadReport(a)
  <2>1. actors[a].at \notin Waiting
    BY <1>16 DEF ReadReport, At, Waiting
  <2> QED BY <2>1, <1>3, <1>16, Reads DEF Waiting
<1>17. CASE CutReport(a) \/ Return(a) \/ Stops(a)
  BY <1>17, <1>5, EndsIdle DEF CutReport, Return, Stops
<1> QED
  BY <1>1, <1>8, <1>9, <1>10, <1>11, <1>12, <1>13, <1>14, <1>15, <1>16, <1>17 DEF Steps

\* While no save replaced a vault that its command had not loaded, a restore
\* gives back the value that was shielded: only crossed saves can break what
\* operation_lock is for, as they do in the run lost_update.
THEOREM RestoresUnlessCrossed == Spec => [](~overlapped => RestoresTheValue)
<1>1. Init => RestoresLoaded /\ BaseMeans
  BY DEF Init, RestoresLoaded, BaseMeans, Idle
<1>2. TypeOK /\ AllMean /\ RestoresLoaded /\ BaseMeans /\ [Next]_vars => RestoresLoaded' /\ BaseMeans'
  <2>1. ASSUME RestoresLoaded, BaseMeans, UNCHANGED vars PROVE RestoresLoaded' /\ BaseMeans'
    BY <2>1 DEF RestoresLoaded, BaseMeans, Means, Holds, vars
  <2> QED BY <2>1, LoadedStep
<1>3. RestoresLoaded /\ BaseMeans => (~overlapped => RestoresTheValue)
  BY DEF RestoresLoaded, BaseMeans, Means, Holds, RestoresTheValue
<1> QED BY <1>1, <1>2, <1>3, MeansCorrect, PTL DEF Spec

-----------------------------------------------------------------------------
\* The credits of one process.
LEMMA CountedStep ==
  ASSUME OneProcessOnly, TypeOK, TypeOK', CountedUnderLock, Next
  PROVE  CountedUnderLock'
<1> DEFINE Counting(d) == d.at \in {"creditWrite", "creditReplace"}
<1>1. PICK a \in Actors :
        \/ BeginShield(a) \/ BeginRestore(a) \/ BeginGovern(a) \/ BeginPurge(a)
        \/ Steps(a) \/ CutReport(a) \/ Stops(a)
  BY DEF Next
<1>2. \A b \in Actors : ProcessOf(b) = ProcessOf(a)
  BY DEF OneProcessOnly
<1>3. /\ actors \in [Actors -> Doings] /\ usage \in Nat /\ Limit \in Nat /\ Nobody \notin Actors
      /\ holder \in [Processes -> Actors \union {Nobody}] /\ ProcessOf(a) \in Processes
  BY CommandsAssumption DEF TypeOK, Processes
<1>4. \A b \in Actors : Counting(actors[b]) => holder[ProcessOf(a)] = b /\ actors[b].count = usage /\ usage < Limit
  BY <1>2 DEF CountedUnderLock, At
<1>5. \A b \in Actors : b # a /\ Counting(actors[b]) => holder[ProcessOf(a)] # a
  BY <1>4
<1>6. CASE UNCHANGED <<usage, usageTmp, granted, holder>> /\ Others(a) /\ ~Counting(actors'[a])
  BY <1>6 DEF CountedUnderLock, Others, At
<1>7. CASE CountCredit(a)
  <2>1. holder[ProcessOf(a)] = Nobody /\ UNCHANGED <<usage, usageTmp, granted>>
    BY <1>7 DEF CountCredit
  <2>2. \A b \in Actors : ~Counting(actors[b])
    BY <2>1, <1>3, <1>4
  <2>3. CASE Ends(a) /\ UNCHANGED holder
    <3>1. ~Counting(actors'[a])
      BY <2>3, EndsIdle DEF Idle
    <3> QED BY <3>1, <2>1, <2>3, <1>6, EndsIdle
  <2>4. CASE /\ Others(a) /\ actors'[a].at = "creditWrite" /\ actors'[a].count = usage
             /\ ~(usage >= Limit) /\ holder' = [holder EXCEPT ![ProcessOf(a)] = a]
    <3>1. holder'[ProcessOf(a)] = a /\ usage < Limit
      BY <2>4, <1>3
    <3>2. \A b \in Actors : Counting(actors'[b]) => b = a
      BY <2>2, <2>4 DEF Others
    <3> QED BY <3>1, <3>2, <2>1, <2>4 DEF CountedUnderLock, At
  <2> QED BY <2>3, <2>4, <1>7, Counts
<1>8. CASE WriteUsage(a)
  <2>1. /\ usageTmp' = actors[a].count + 1 /\ UNCHANGED <<usage, granted, holder>>
        /\ Counting(actors[a]) /\ GoTo(a, "creditReplace")
    BY <1>8 DEF WriteUsage, At
  <2>2. Others(a) /\ actors'[a].at = "creditReplace" /\ actors'[a].count = actors[a].count
    BY <2>1, Goes
  <2>3. \A b \in Actors \ {a} : ~Counting(actors'[b])
    BY <2>1, <2>2, <1>4 DEF Others
  <2>4. \A b \in Actors : At(b, "creditWrite")' \/ At(b, "creditReplace")' => b = a
    BY <2>3 DEF At
  <2>5. holder[ProcessOf(a)] = a /\ actors[a].count = usage /\ usage < Limit
    BY <2>1, <1>4
  <2> QED BY <2>1, <2>2, <2>4, <2>5 DEF CountedUnderLock
<1>9. CASE ReplaceUsage(a)
  <2>1. /\ At(a, "creditReplace") /\ Counting(actors[a]) /\ holder' = Released(a)
        /\ \/ Ends(a) /\ UNCHANGED <<usage, granted>>
           \/ usage' = usageTmp /\ granted' = granted + 1 /\ GoTo(a, "load")
    BY <1>9 DEF ReplaceUsage, At
  <2>2. Others(a) /\ ~Counting(actors'[a])
    BY <2>1, Goes, EndsIdle DEF Idle
  <2>3. \A b \in Actors : ~Counting(actors'[b])
    BY <2>1, <2>2, <1>4 DEF Others
  <2>4. usageTmp = usage + 1 /\ usage < Limit
    BY <2>1, <1>4 DEF CountedUnderLock
  <2>5. granted' = usage' /\ usage' <= Limit
    BY <2>1, <2>4, <1>3 DEF CountedUnderLock
  <2> QED BY <2>3, <2>5 DEF CountedUnderLock, At
<1>10. CASE Stops(a)
  <2>1. Ends(a) /\ holder' = Released(a) /\ UNCHANGED <<usage, usageTmp, granted>>
    BY <1>10 DEF Stops
  <2>2. Others(a) /\ ~Counting(actors'[a])
    BY <2>1, EndsIdle DEF Idle
  <2>3. \A b \in Actors : Counting(actors'[b]) => b # a /\ Counting(actors[b]) /\ actors'[b] = actors[b]
    BY <2>2 DEF Others
  <2>4. \A b \in Actors : Counting(actors'[b]) => holder'[ProcessOf(a)] = b
    BY <2>1, <2>3, <1>3, <1>4 DEF Released
  <2>5. \A b \in Actors : Counting(actors'[b]) => holder'[ProcessOf(b)] = b
    BY <2>4, <1>2
  <2> QED BY <2>1, <2>3, <2>5, <1>4 DEF CountedUnderLock, At
<1>11. CASE BeginShield(a) \/ BeginRestore(a) \/ BeginGovern(a) \/ BeginPurge(a)
  <2>1. PICK cmd, at, text : /\ actors'[a] = [Idle EXCEPT !.cmd = cmd, !.at = at, !.text = text]
                             /\ at \in {"load", "credit"}
                             /\ cmd # "restore" \/ text \in texts
    BY <1>11, Begins
  <2>2. ~Counting(actors'[a])
    BY <2>1 DEF Idle
  <2> QED BY <2>2, <1>6, <1>11, Begins
<1>12. CASE Load(a) \/ ReadReport(a)
  <2>1. UNCHANGED <<usage, usageTmp, granted, holder>>
    BY <1>12 DEF Load, ReadReport, quota
  <2> QED BY <2>1, <1>6, <1>12, Reads
<1>13. CASE Shield(a) \/ Restore(a) \/ Govern(a) \/ Purge(a)
  <2>1. UNCHANGED <<usage, usageTmp, granted, holder>>
    BY <1>13 DEF Shield, Restore, Govern, Purge, quota
  <2>2. Ends(a) \/ \E image, text, got : WillSave(a, image, text, got)
    BY <1>13 DEF Shield, Restore, Govern, Purge
  <2>3. Others(a) /\ ~Counting(actors'[a])
    BY <2>2, Saves, EndsIdle DEF Idle
  <2> QED BY <2>1, <2>3, <1>6
<1>14. CASE Save(a) \/ Wipe(a) \/ AppendReport(a)
  <2>1. UNCHANGED <<usage, usageTmp, granted, holder>> /\ \E at \in {"reportRead", "wipe", "done"} : GoTo(a, at)
    BY <1>14 DEF Save, Wipe, AppendReport, quota
  <2> QED BY <2>1, <1>6, Goes
<1>15. CASE CutReport(a) \/ Return(a)
  <2>1. UNCHANGED <<usage, usageTmp, granted, holder>> /\ Ends(a)
    BY <1>15 DEF CutReport, Return, quota
  <2>2. Others(a) /\ ~Counting(actors'[a])
    BY <2>1, EndsIdle DEF Idle
  <2> QED BY <2>1, <2>2, <1>6
<1> QED BY <1>1, <1>7, <1>8, <1>9, <1>10, <1>11, <1>12, <1>13, <1>14, <1>15 DEF Steps

\* Where all actors are threads of one process, the daily limit holds however
\* they interleave and wherever they stop.
THEOREM QuotaHolds == ASSUME OneProcessOnly PROVE Spec => []QuotaKept
<1>1. Init => CountedUnderLock
  BY CommandsAssumption DEF Init, CountedUnderLock, At, Idle
<1>2. TypeOK /\ TypeOK' /\ CountedUnderLock /\ [Next]_vars => CountedUnderLock'
  <2>1. ASSUME CountedUnderLock, UNCHANGED vars PROVE CountedUnderLock'
    BY <2>1 DEF CountedUnderLock, At, vars
  <2> QED BY <2>1, CountedStep
<1>3. CountedUnderLock => QuotaKept
  BY DEF CountedUnderLock, QuotaKept
<1> QED BY <1>1, <1>2, <1>3, TypeCorrect, PTL DEF Spec

-----------------------------------------------------------------------------
\* What an append makes of the lines.
LEMMA AppendsLine ==
  ASSUME NEW lines \in Lines, NEW line \in [row : Nat, prev : Nat]
  PROVE  /\ Len(lines) \in Nat /\ DOMAIN lines = 1..Len(lines)
         /\ DOMAIN Append(lines, line) = 1..(Len(lines) + 1)
         /\ \A k \in 1..Len(lines) : Append(lines, line)[k] = lines[k]
         /\ Append(lines, line)[Len(lines) + 1] = line
BY AppendProperties, LenProperties DEF Lines

\* The lines change only by an append, which ends them.
LEMMA ReportSteps ==
  ASSUME TypeOK, Next
  PROVE  \/ UNCHANGED <<report, cutOff, cuts, rows, forked>>
         \/ /\ report' = IF cutOff THEN report ELSE Append(report, Junk)
            /\ cutOff' = TRUE /\ cuts' = cuts + 1 /\ UNCHANGED <<rows, forked>>
         \/ \E prev \in Nat :
              /\ report' = Appended(prev) /\ cutOff' = FALSE /\ rows' = rows + 1 /\ UNCHANGED cuts
              /\ ~forked' => ~forked /\ prev = LastRow(report)
<1>1. PICK a \in Actors :
        \/ BeginShield(a) \/ BeginRestore(a) \/ BeginGovern(a) \/ BeginPurge(a)
        \/ Steps(a) \/ CutReport(a) \/ Stops(a)
  BY DEF Next
<1>2. actors[a].prev \in Nat
  BY DEF TypeOK, Doings
<1>3. CASE AppendReport(a)
  <2>1. /\ report' = Appended(actors[a].prev) /\ cutOff' = FALSE /\ rows' = rows + 1 /\ UNCHANGED cuts
        /\ ~forked' => ~forked /\ actors[a].prev = LastRow(report)
    BY <1>3, Zenon DEF AppendReport
  <2> QED BY <2>1, <1>2
<1>4. CASE CutReport(a)
  BY <1>4 DEF CutReport
<1>5. UNCHANGED <<report, cutOff, cuts, rows, forked>> \/ AppendReport(a) \/ CutReport(a)
  BY <1>1 DEF Steps, BeginShield, BeginRestore, BeginGovern, BeginPurge, Begin, CountCredit, WriteUsage,
       ReplaceUsage, Load, Shield, Restore, Govern, Purge, Save, Wipe, ReadReport, Return, Stops, reports
<1> QED BY <1>3, <1>4, <1>5

\* A row that refers to the last line is linked, and the others stay so.
LEMMA LinkedStep ==
  ASSUME TypeOK, AllLinked, Next
  PROVE  AllLinked'
<1>1. report \in Lines /\ Junk \in [row : Nat, prev : Nat]
  BY DEF TypeOK, Lines, Junk
<1>2. ASSUME NEW line \in [row : Nat, prev : Nat], report' = Append(report, line),
             ~forked, IsRow(line) => line.prev = LastRow(report)
      PROVE  AllLinked'
  <2>1. /\ Len(report) \in Nat /\ DOMAIN report = 1..Len(report)
        /\ DOMAIN report' = 1..(Len(report) + 1)
        /\ \A k \in 1..Len(report) : report'[k] = report[k]
        /\ report'[Len(report) + 1] = line
    BY <1>1, <1>2, AppendsLine
  <2>2. LastRow(report) = (IF Len(report) + 1 = 1 THEN 0 ELSE report'[(Len(report) + 1) - 1].row)
    <3>1. CASE report = <<>>
      BY <3>1, <2>1 DEF LastRow
    <3>2. CASE report # <<>>
      <4>1. Len(report) # 0
        BY <3>2, <1>1, EmptySeq DEF Lines
      <4> QED BY <4>1, <3>2, <2>1 DEF LastRow
    <3> QED BY <3>1, <3>2
  <2>3. ASSUME NEW k \in DOMAIN report', IsRow(report'[k]) PROVE Linked(report', k)
    <3>1. CASE k = Len(report) + 1
      BY <3>1, <2>1, <2>2, <2>3, <1>2 DEF Linked
    <3>2. CASE k \in DOMAIN report
      <4>1. Linked(report, k)
        BY <3>2, <2>1, <2>3, <1>2 DEF AllLinked
      <4> QED BY <4>1, <3>2, <2>1 DEF Linked
    <3> QED BY <3>1, <3>2, <2>1, <2>3
  <2> QED BY <2>3 DEF AllLinked
<1>3. CASE UNCHANGED <<report, forked>>
  BY <1>3 DEF AllLinked, Linked
<1>4. CASE report' = (IF cutOff THEN report ELSE Append(report, Junk)) /\ UNCHANGED forked
  <2>1. CASE forked
    BY <2>1, <1>4 DEF AllLinked
  <2>2. CASE ~forked
    <3>1. ~IsRow(Junk)
      BY DEF IsRow
    <3> QED BY <3>1, <2>2, <1>1, <1>2, <1>3, <1>4
  <2> QED BY <2>1, <2>2
<1>5. ASSUME NEW prev \in Nat, report' = Appended(prev), ~forked' => ~forked /\ prev = LastRow(report)
      PROVE  AllLinked'
  <2>1. CASE forked'
    BY <2>1 DEF AllLinked
  <2>2. CASE ~forked'
    <3>1. ~forked /\ prev = LastRow(report)
      BY <2>2, <1>5
    <3> DEFINE line == [row |-> Len(report) + 1, prev |-> prev]
    <3>2. line \in [row : Nat, prev : Nat] /\ line.prev = LastRow(report)
      BY <3>1, <1>1, LenProperties DEF Lines
    <3>3. CASE cutOff
      BY <3>3, <3>1, <2>2, <1>5 DEF Appended, AllLinked, Linked
    <3>4. CASE ~cutOff
      <4>1. report' = Append(report, line)
        BY <3>4, <1>5 DEF Appended
      <4> HIDE DEF line
      <4> QED BY <4>1, <3>1, <3>2, <1>2
    <3> QED BY <3>3, <3>4
  <2> QED BY <2>1, <2>2
<1> QED BY <1>3, <1>4, <1>5, ReportSteps

\* What append_sanitization_report writes, read_sanitization_reports verifies,
\* behind junk too, unless two appends followed the same row.
THEOREM ChainHolds == Spec => []ChainVerified
<1>1. Init => AllLinked
  BY DEF Init, AllLinked
<1>2. TypeOK /\ AllLinked /\ [Next]_vars => AllLinked'
  <2>1. ASSUME AllLinked, UNCHANGED vars PROVE AllLinked'
    BY <2>1 DEF AllLinked, Linked, vars
  <2> QED BY <2>1, LinkedStep
<1>3. TypeOK /\ AllLinked => ChainVerified
  <2> SUFFICES ASSUME TypeOK, AllLinked, ~forked, NEW k \in DOMAIN report, IsRow(report[k])
               PROVE  Verified(report, k)
    BY DEF ChainVerified
  <2>1. Len(report) \in Nat /\ DOMAIN report = 1..Len(report)
    BY LenProperties DEF TypeOK
  <2>2. ASSUME NEW j \in 1..k, \A i \in j..k : IsRow(report[i]) PROVE Linked(report, j)
    BY <2>1, <2>2 DEF AllLinked
  <2> QED BY <2>2 DEF Verified
<1> QED BY <1>1, <1>2, <1>3, TypeCorrect, PTL DEF Spec

\* One row more is counted, and junk is not.
LEMMA RowsCounted ==
  ASSUME NEW lines \in Lines, NEW line \in [row : Nat, prev : Nat]
  PROVE  /\ Cardinality(RowNumbers(lines)) \in Nat
         /\ Cardinality(RowNumbers(Append(lines, line)))
              = Cardinality(RowNumbers(lines)) + (IF IsRow(line) THEN 1 ELSE 0)
<1>1. /\ Len(lines) \in Nat /\ DOMAIN lines = 1..Len(lines)
      /\ DOMAIN Append(lines, line) = 1..(Len(lines) + 1)
      /\ \A k \in 1..Len(lines) : Append(lines, line)[k] = lines[k]
      /\ Append(lines, line)[Len(lines) + 1] = line
  BY AppendsLine
<1>2. IsFiniteSet(RowNumbers(lines))
  <2>1. IsFiniteSet(1..Len(lines))
    BY <1>1, FS_Interval
  <2>2. RowNumbers(lines) \subseteq 1..Len(lines)
    BY <1>1 DEF RowNumbers
  <2> QED BY <2>1, <2>2, FS_Subset
<1>3. Len(lines) + 1 \notin RowNumbers(lines)
  BY <1>1 DEF RowNumbers
<1>4. RowNumbers(Append(lines, line)) =
        IF IsRow(line) THEN RowNumbers(lines) \union {Len(lines) + 1} ELSE RowNumbers(lines)
  BY <1>1 DEF RowNumbers
<1>5. Cardinality(RowNumbers(lines)) \in Nat
  BY <1>2, FS_CardinalityType
<1>6. Cardinality(RowNumbers(lines) \union {Len(lines) + 1}) = Cardinality(RowNumbers(lines)) + 1
  BY <1>2, <1>3, FS_AddElement
<1> QED BY <1>4, <1>5, <1>6

LEMMA RowsStep ==
  ASSUME TypeOK, EnoughRows, Next
  PROVE  EnoughRows'
<1>1. report \in Lines /\ Junk \in [row : Nat, prev : Nat] /\ ~IsRow(Junk) /\ rows \in Nat /\ cuts \in Nat
  BY CommandsAssumption DEF TypeOK, Lines, Junk, IsRow
<1>2. /\ Cardinality(RowNumbers(report)) \in Nat
      /\ Cardinality(RowNumbers(Append(report, Junk))) = Cardinality(RowNumbers(report))
  BY <1>1, RowsCounted
<1>3. CASE UNCHANGED <<report, cutOff, cuts, rows, forked>>
  BY <1>3 DEF EnoughRows, RowNumbers
<1>4. CASE /\ report' = IF cutOff THEN report ELSE Append(report, Junk)
           /\ cutOff' = TRUE /\ cuts' = cuts + 1 /\ UNCHANGED <<rows, forked>>
  <2>1. Cardinality(RowNumbers(report')) = Cardinality(RowNumbers(report))
    BY <1>2, <1>4
  <2>2. Cardinality(RowNumbers(report)) + cuts >= rows
    BY <1>1, <1>2 DEF EnoughRows
  <2>3. Cardinality(RowNumbers(report')) + cuts' >= rows' + 1
    BY <2>1, <2>2, <1>1, <1>2, <1>4
  <2> QED BY <2>3, <1>4 DEF EnoughRows, RowNumbers
<1>5. ASSUME NEW prev \in Nat, report' = Appended(prev), cutOff' = FALSE, rows' = rows + 1, UNCHANGED cuts
      PROVE  EnoughRows'
  <2> DEFINE line == [row |-> Len(report) + 1, prev |-> prev]
  <2>1. line \in [row : Nat, prev : Nat] /\ IsRow(line)
    BY <1>1, LenProperties DEF Lines, IsRow, Junk
  <2> HIDE DEF line
  <2>2. Cardinality(RowNumbers(Append(report, line))) = Cardinality(RowNumbers(report)) + 1
    BY <2>1, <1>1, RowsCounted
  <2>3. CASE cutOff
    <3>1. report' = report /\ Cardinality(RowNumbers(report)) + cuts >= rows + 1
      BY <2>3, <1>5 DEF Appended, EnoughRows
    <3> QED BY <3>1, <1>5 DEF EnoughRows, RowNumbers
  <2>4. CASE ~cutOff
    <3>1. report' = Append(report, line) /\ Cardinality(RowNumbers(report)) + cuts >= rows
      BY <2>4, <1>1, <1>5 DEF Appended, EnoughRows, line
    <3>2. Cardinality(RowNumbers(report')) + cuts' >= rows'
      BY <3>1, <2>2, <1>1, <1>2, <1>5
    <3> QED BY <3>2, <1>1, <1>5 DEF EnoughRows, RowNumbers
  <2> QED BY <2>3, <2>4
<1> QED BY <1>3, <1>4, <1>5, ReportSteps

\* An append that is cut off costs at most one row besides its own.
THEOREM RowsHeld == Spec => []RowsKept
<1>1. Init => EnoughRows
  <2> SUFFICES ASSUME Init PROVE EnoughRows
    OBVIOUS
  <2>1. RowNumbers(report) = {}
    BY DEF Init, RowNumbers
  <2> QED BY <2>1, FS_EmptySet, SMTT(30) DEF Init, EnoughRows
<1>2. TypeOK /\ EnoughRows /\ [Next]_vars => EnoughRows'
  <2>1. ASSUME EnoughRows, UNCHANGED vars PROVE EnoughRows'
    BY <2>1 DEF EnoughRows, RowNumbers, vars
  <2> QED BY <2>1, RowsStep
<1>3. TypeOK /\ EnoughRows => RowsKept
  <2> SUFFICES ASSUME TypeOK, EnoughRows PROVE RowsKept
    OBVIOUS
  <2>1. Cardinality(RowNumbers(report)) \in Nat
    <3>1. Junk \in [row : Nat, prev : Nat]
      BY DEF Junk
    <3> QED BY <3>1, RowsCounted DEF TypeOK, Lines
  <2> QED BY <2>1, CommandsAssumption DEF EnoughRows, RowsKept, RowNumbers, TypeOK
<1> QED BY <1>1, <1>2, <1>3, TypeCorrect, PTL DEF Spec
=============================================================================
