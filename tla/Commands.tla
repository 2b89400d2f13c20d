------------------------------- MODULE Commands -------------------------------
(***************************************************************************)
(* Commands of several actors on one workspace: the command line, the IPC  *)
(* server and the UIs each load the workspace anew for a command, change   *)
(* what they loaded, and save it.  The shield and the restore of a text    *)
(* are those of clipboard/operations.py; a restore first takes a credit of *)
(* the free tier (licensing.py); both end with a row in the sanitisation   *)
(* report.  Between two steps of one actor the others go on.               *)
(*                                                                         *)
(* A text holds one value, and a token is its number.  What refuses a      *)
(* command before it changed anything is left to Stops.                    *)
(***************************************************************************)
EXTENDS ReportChain, FiniteSets, Functions

CONSTANTS
  Actors, ProcessOf(_),  \* who runs commands, and in which process
  Values,                \* what texts are about
  Limit,                 \* FREE_RESTORE_DAILY_LIMIT
  MaxCommands,           \* bound: commands begun
  MaxCuts,               \* bound: appends to the report that are cut off
  NoText, NoFile, Nobody

ASSUME CommandsAssumption ==
  /\ Limit \in Nat /\ MaxCommands \in Nat /\ MaxCuts \in Nat
  /\ Nobody \notin Actors

VARIABLES
  vault,     \* the saved vault
  usage,     \* the restores counted in license_usage.json, today
  usageTmp,  \* license_usage.tmp, one name for all processes
  holder,    \* of each process: the actor that holds _USAGE_LOCK
  report,    \* the lines of the report
  cutOff,    \* the last line has no end
  actors,    \* what each actor does
  texts,     \* the shielded texts that were handed out
  begun, cuts,
  \* Ghosts: restores that got a credit, rows appended to the end, whether a save
  \* replaced a vault other than the one its command loaded, and whether a row
  \* does not refer to the one before it.
  granted, rows, overlapped, forked

vars == <<vault, usage, usageTmp, holder, report, cutOff, actors, texts, begun, cuts,
          granted, rows, overlapped, forked>>
quota == <<usage, usageTmp, holder, granted>>
reports == <<report, cutOff, cuts, rows, forked>>
saved == <<vault, overlapped>>

Processes == {ProcessOf(a) : a \in Actors}

\* Token n of the vault stands for mapping[n]; the counter is the length.  era
\* is a ghost: how often the mappings were wiped, and the numbers started anew.
Vaults == [mapping : Seq(Values), records : Seq(Values \X (Nat \ {0})),
           selfDestruct : BOOLEAN, era : Nat]
NewVault == [mapping |-> <<>>, records |-> <<>>, selfDestruct |-> FALSE, era |-> 0]

\* Defective: the records of the wiped mappings are kept.
WipedMappings(v) == [v EXCEPT !.mapping = <<>>, !.era = @ + 1]

\* The mappings and records of purge and self-destruction.
Wiped(v) == [v EXCEPT !.mapping = <<>>, !.records = <<>>, !.era = @ + 1]

\* kept, a ghost as well: the shield that made the text has returned.
Texts == [value : Values, token : Nat, era : Nat, kept : BOOLEAN]

Idle == [cmd |-> "none", at |-> "idle", base |-> NewVault, image |-> NewVault,
         text |-> NoText, got |-> NoText, count |-> 0, prev |-> 0]

-----------------------------------------------------------------------------
\* Defective: a value is given the last number when there is none.
TokenAgain(mapping, value) ==
  IF value \in Range(mapping)
  THEN CHOOSE n \in DOMAIN mapping : mapping[n] = value
  ELSE IF mapping = <<>> THEN 1 ELSE Len(mapping)

\* The token of a value, minted when there is none.
TokenOf(mapping, value) ==
  IF value \in Range(mapping)
  THEN CHOOSE n \in DOMAIN mapping : mapping[n] = value
  ELSE Len(mapping) + 1
Mapped(mapping, value) ==
  IF value \in Range(mapping) THEN mapping ELSE Append(mapping, value)

\* Defective: the record is made before the token.
ShieldedLate(v, value) ==
  [v EXCEPT !.mapping = Mapped(@, value),
            !.records = Append(@, <<value, IF value \in Range(v.mapping)
                                            THEN TokenOf(v.mapping, value) ELSE 0>>)]

\* _shield_text up to persist: the vault to be saved.
Shielded(v, value) ==
  [v EXCEPT !.mapping = Mapped(@, value),
            !.records = Append(@, <<value, TokenOf(v.mapping, value)>>)]

\* The output of the latest shield of the same text must come out again.
Replays(v, value) ==
  \A k \in DOMAIN v.records :
    /\ v.records[k][1] = value
    /\ \A j \in (k + 1)..Len(v.records) : v.records[j][1] # value
    => v.records[k][2] = TokenOf(v.mapping, value)

\* _expected_clipboard_tokens: those of the latest shield, of whatever text.
Expected(v) == IF v.records = <<>> THEN {} ELSE {v.records[Len(v.records)][2]}

\* detect_token_anomalies finds nothing: the token is known, no expected one is
\* missing.
Restorable(v, text) == text.token \in DOMAIN v.mapping /\ Expected(v) \subseteq {text.token}

-----------------------------------------------------------------------------
Init ==
  /\ vault = NewVault /\ texts = {}
  /\ usage = 0 /\ usageTmp = NoFile /\ holder = [p \in Processes |-> Nobody]
  /\ report = <<>> /\ cutOff = FALSE
  /\ actors = [a \in Actors |-> Idle]
  /\ begun = 0 /\ cuts = 0
  /\ granted = 0 /\ rows = 0 /\ overlapped = FALSE /\ forked = FALSE

At(a, at) == actors[a].at = at
GoTo(a, at) == actors' = [actors EXCEPT ![a].at = at]
Ends(a) == actors' = [actors EXCEPT ![a] = Idle]

Begin(a, cmd, at, text) ==
  /\ At(a, "idle") /\ begun < MaxCommands
  /\ begun' = begun + 1
  /\ actors' = [actors EXCEPT ![a] = [Idle EXCEPT !.cmd = cmd, !.at = at, !.text = text]]
  /\ UNCHANGED <<saved, quota, reports, texts>>

BeginShield(a) ==
  \E v \in Values : Begin(a, "shield", "load", [value |-> v, token |-> 0, era |-> 0, kept |-> FALSE])
\* A restore costs a credit, but on the pro tier.
BeginRestore(a) == \E t \in texts, at \in {"credit", "load"} : Begin(a, "restore", at, t)
BeginGovern(a) == Begin(a, "govern", "load", NoText)
\* purge_workspace, its backup left out.
BeginPurge(a) == Begin(a, "purge", "load", NoText)

-----------------------------------------------------------------------------
\* Defective: the count is read before the lock is taken.
CountUnlocked(a) ==
  /\ At(a, "credit")
  /\ IF usage >= Limit
     THEN Ends(a) /\ UNCHANGED holder
     ELSE /\ actors' = [actors EXCEPT ![a].at = "creditWrite", ![a].count = usage]
          /\ UNCHANGED holder
  /\ UNCHANGED <<saved, usage, usageTmp, granted, reports, texts, begun>>

\* _consume_free_restore_credit, under the lock of the process: the count is
\* read, written to a temporary file, and renamed.
CountCredit(a) ==
  /\ At(a, "credit") /\ holder[ProcessOf(a)] = Nobody
  /\ IF usage >= Limit
     THEN Ends(a) /\ UNCHANGED holder
     ELSE /\ actors' = [actors EXCEPT ![a].at = "creditWrite", ![a].count = usage]
          /\ holder' = [holder EXCEPT ![ProcessOf(a)] = a]
  /\ UNCHANGED <<saved, usage, usageTmp, granted, reports, texts, begun>>

Released(a) == [p \in Processes |-> IF holder[p] = a THEN Nobody ELSE holder[p]]

WriteUsage(a) ==
  /\ At(a, "creditWrite")
  /\ usageTmp' = actors[a].count + 1
  /\ GoTo(a, "creditReplace")
  /\ UNCHANGED <<saved, usage, holder, granted, reports, texts, begun>>

\* os.replace fails where another process has renamed the file already.
ReplaceUsage(a) ==
  /\ At(a, "creditReplace")
  /\ IF usageTmp = NoFile
     THEN Ends(a) /\ UNCHANGED <<usage, granted>>
     ELSE usage' = usageTmp /\ granted' = granted + 1 /\ GoTo(a, "load")
  /\ usageTmp' = NoFile
  /\ holder' = Released(a)
  /\ UNCHANGED <<saved, reports, texts, begun>>

-----------------------------------------------------------------------------
\* get_active_workspace: the lock of the operation belongs to what it returns.
Load(a) ==
  /\ At(a, "load")
  /\ actors' = [actors EXCEPT ![a].at = "work", ![a].base = vault]
  /\ UNCHANGED <<saved, quota, reports, texts, begun>>

Works(a, cmd) == At(a, "work") /\ actors[a].cmd = cmd
WillSave(a, image, text, got) ==
  actors' = [actors EXCEPT ![a].at = "save", ![a].image = image, ![a].text = text, ![a].got = got]

\* _shield_text until it saves.  shield_clipboard writes the text to the
\* clipboard first.
Shield(a) ==
  /\ Works(a, "shield")
  /\ LET v == actors[a].base
         value == actors[a].text.value
         text == [value |-> value, token |-> TokenOf(v.mapping, value), era |-> v.era, kept |-> FALSE]
     IN  IF Replays(v, value)
         THEN /\ WillSave(a, Shielded(v, value), text, NoText)
              /\ texts' = texts \/ texts' = texts \union {text}
         ELSE Ends(a) /\ UNCHANGED texts
  /\ UNCHANGED <<saved, quota, reports, begun>>

\* _restore_text until it saves.
Restore(a) ==
  /\ Works(a, "restore")
  /\ LET v == actors[a].base
         text == actors[a].text
     IN  IF Restorable(v, text)
         THEN WillSave(a, v, text, v.mapping[text.token])
         ELSE Ends(a)
  /\ UNCHANGED <<saved, quota, reports, texts, begun>>

Govern(a) ==
  /\ Works(a, "govern")
  /\ \E b \in BOOLEAN :
       WillSave(a, [actors[a].base EXCEPT !.selfDestruct = b], NoText, NoText)
  /\ UNCHANGED <<saved, quota, reports, texts, begun>>

Purge(a) ==
  /\ Works(a, "purge")
  /\ WillSave(a, Wiped(actors[a].base), NoText, NoText)
  /\ UNCHANGED <<saved, quota, reports, texts, begun>>

\* persist: the whole of what was loaded and changed.
Save(a) ==
  /\ At(a, "save")
  /\ vault' = actors[a].image
  /\ overlapped' = (overlapped \/ vault # actors[a].base)
  /\ GoTo(a, CASE actors[a].cmd = "shield" -> "reportRead"
               [] actors[a].cmd = "restore" /\ vault'.selfDestruct -> "wipe"
               [] actors[a].cmd = "restore" /\ ~vault'.selfDestruct -> "reportRead"
               [] OTHER -> "done")
  /\ UNCHANGED <<quota, reports, texts, begun>>

\* The self-destruction after a restore: a second save.
Wipe(a) ==
  /\ At(a, "wipe")
  /\ vault' = Wiped(actors[a].image)
  /\ overlapped' = (overlapped \/ vault # actors[a].image)
  /\ GoTo(a, "reportRead")
  /\ UNCHANGED <<quota, reports, texts, begun>>

-----------------------------------------------------------------------------
\* append_sanitization_report: the last row is looked for, then a line appended.
ReadReport(a) ==
  /\ At(a, "reportRead")
  /\ actors' = [actors EXCEPT ![a].at = "reportAppend",
                              ![a].prev = LastRow(report)]
  /\ UNCHANGED <<saved, quota, reports, texts, begun>>

\* The file with one more row.  Behind a line without an end it is no row.
Appended(prev) ==
  IF cutOff THEN report
  ELSE Append(report, [row |-> Len(report) + 1, prev |-> prev])

\* Defective: the lines known when the last row was read are written back.
AppendReportOver(a) ==
  /\ At(a, "reportAppend")
  /\ report' = Append(SubSeq(report, 1, actors[a].prev),
                      [row |-> actors[a].prev + 1, prev |-> actors[a].prev])
  /\ cutOff' = FALSE
  /\ rows' = rows + 1
  /\ forked' = (forked \/ LastRow(report) # actors[a].prev)
  /\ GoTo(a, "done")
  /\ UNCHANGED <<saved, quota, cuts, texts, begun>>

AppendReport(a) ==
  /\ At(a, "reportAppend")
  /\ report' = Appended(actors[a].prev)
  /\ cutOff' = FALSE
  /\ rows' = rows + 1
  /\ forked' = (forked \/ LastRow(report) # actors[a].prev)
  /\ GoTo(a, "done")
  /\ UNCHANGED <<saved, quota, cuts, texts, begun>>

\* The process dies in the middle of the line.
CutReport(a) ==
  /\ At(a, "reportAppend") /\ cuts < MaxCuts
  /\ report' = IF cutOff THEN report ELSE Append(report, Junk)
  /\ cutOff' = TRUE
  /\ cuts' = cuts + 1
  /\ Ends(a)
  /\ UNCHANGED <<saved, quota, rows, forked, texts, begun>>

\* The answer, with the shielded text where the caller gave it.
Return(a) ==
  /\ At(a, "done")
  /\ texts' = IF actors[a].cmd = "shield" THEN texts \union {[actors[a].text EXCEPT !.kept = TRUE]} ELSE texts
  /\ Ends(a)
  /\ UNCHANGED <<saved, quota, reports, begun>>

\* Defective: the lock stays with a command that raised.
StopsLocked(a) ==
  /\ ~At(a, "idle") /\ ~At(a, "done")
  /\ Ends(a) /\ UNCHANGED <<saved, quota, reports, texts, begun>>

\* A check refuses the command, an exception ends it, or its process dies.
Stops(a) ==
  /\ ~At(a, "idle") /\ ~At(a, "done")
  /\ Ends(a)
  /\ holder' = Released(a)
  /\ UNCHANGED <<saved, usage, usageTmp, granted, reports, texts, begun>>

Steps(a) ==
  \/ CountCredit(a) \/ WriteUsage(a) \/ ReplaceUsage(a)
  \/ Load(a) \/ Shield(a) \/ Restore(a) \/ Govern(a) \/ Purge(a) \/ Save(a) \/ Wipe(a)
  \/ ReadReport(a) \/ AppendReport(a) \/ Return(a)

Next ==
  \E a \in Actors :
    \/ BeginShield(a) \/ BeginRestore(a) \/ BeginGovern(a) \/ BeginPurge(a)
    \/ Steps(a) \/ CutReport(a) \/ Stops(a)

\* The threads of running processes are scheduled; nobody has to begin anything.
Spec == Init /\ [][Next]_vars /\ \A a \in Actors : WF_vars(Steps(a))

-----------------------------------------------------------------------------
Points == {"idle", "credit", "creditWrite", "creditReplace", "load", "work", "save", "wipe",
           "reportRead", "reportAppend", "done"}
Doings ==
  [cmd : {"none", "shield", "restore", "govern", "purge"}, at : Points, base : Vaults, image : Vaults,
   text : Texts \union {NoText}, got : Values \union {NoText}, count : Nat, prev : Nat]

\* Every variable has its type, and who shields or restores has a text.
TypeOK ==
  /\ vault \in Vaults /\ texts \subseteq Texts
  /\ usage \in Nat /\ usageTmp \in Nat \union {NoFile} /\ granted \in Nat
  /\ holder \in [Processes -> Actors \union {Nobody}]
  /\ report \in Seq([row : Nat, prev : Nat]) /\ rows \in Nat
  /\ cutOff \in BOOLEAN /\ overlapped \in BOOLEAN /\ forked \in BOOLEAN
  /\ begun \in 0..MaxCommands /\ cuts \in 0..MaxCuts
  /\ actors \in [Actors -> Doings]
  /\ \A a \in Actors : actors[a].cmd \in {"shield", "restore"} => actors[a].text \in Texts

\* Where all actors share a process, no more restores get a credit than the
\* limit allows, whatever they interleave and wherever they stop.
QuotaKept == granted <= Limit

\* The records of a saved vault agree with its mappings: the token that a shield
\* recorded stands for the value it replaced, also where saves crossed.
VaultConsistent ==
  \A k \in DOMAIN vault.records :
    LET r == vault.records[k] IN r[2] \in DOMAIN vault.mapping /\ vault.mapping[r[2]] = r[1]

\* While no save replaced a vault that its command had not loaded, the text of
\* every shield that returned keeps its meaning until the mappings are wiped,
\* whatever other commands began, failed or died in between.
KeptUntilWiped ==
  ~overlapped =>
    \A t \in texts : t.kept /\ t.era = vault.era =>
      t.token \in DOMAIN vault.mapping /\ vault.mapping[t.token] = t.value

\* A restore gives back the value that was shielded, if the mappings were not
\* wiped in between: what operation_lock is for, which "serialize[s] workspace
\* operations to avoid concurrent state corruption" (workspace/manager.py).
RestoresTheValue ==
  \A a \in Actors :
    LET t == actors[a].text
    IN  actors[a].got # NoText /\ t.kept /\ t.era = actors[a].base.era => actors[a].got = t.value

\* An append that is cut off costs at most one row besides its own.
RowsKept == Cardinality({k \in DOMAIN report : IsRow(report[k])}) + cuts >= rows

\* What append_sanitization_report writes, read_sanitization_reports verifies,
\* behind junk too, unless two appends followed the same row.
ChainVerified ==
  ~forked => \A k \in DOMAIN report : IsRow(report[k]) => Verified(report, k)

\* Every command ends: the lock of the usage file is always released.
CommandsEnd == \A a \in Actors : ~At(a, "idle") ~> At(a, "idle")
=============================================================================
