----------------------------- MODULE FilePipeline -----------------------------
(***************************************************************************)
(* One workspace used by one process at a time: the vault on disk, the     *)
(* context the process loaded from it (token generator and vault data),    *)
(* and the two file pipelines, pipeline/anonymize.py and                   *)
(* pipeline/restore.py, step by step, with a failure after every step, a   *)
(* vault write that raises before or after the new file is in place, and   *)
(* a process that may end at any moment.                                   *)
(*                                                                         *)
(* Texts stand for file contents and for their SHA-256; a mode is what a   *)
(* run's options make it detect.  The model leaves out the statistics      *)
(* counters, audit log, report and TTL (the workspace is within its TTL).  *)
(***************************************************************************)
EXTENDS TokenStore, Sequences

CONSTANTS
  Paths,      \* documents; anonymised and restored copies are named after them
  FileName,   \* [Paths -> Sources], input_path.name: what a mapping notes
  Texts,      \* contents an input may have: sequences of Items
  Requests,   \* what a run may be asked: content, namespaces to detect, override
  Models,     \* hashes of the detection stack
  NoModel, NoFile, NoOut, NoJob,
  MaxRecs,    \* bound: file records in the vault
  MaxEra      \* bound: how often the registry is emptied

ASSUME PipelineAssumption ==
  /\ FileName \in [Paths -> Sources]
  /\ Texts \subseteq Seq(Items)
  /\ Requests \subseteq [text : Texts, mode : SUBSET Namespaces, force : BOOLEAN]
  /\ NoModel \notin Models
  /\ NoFile \notin [body : Seq(Pieces), ok : BOOLEAN, era : Nat]
  /\ NoOut \notin Seq(Pieces)
  /\ MaxRecs \in Nat /\ MaxEra \in Nat

VARIABLES
  open,      \* a process has the workspace loaded
  gen,       \* its TokenGenerator
  mem,       \* the rest of its VaultData
  disk,      \* vault.enc: [gen, mem]
  diverged,  \* a ghost: a vault write raised and left disk and memory apart
  anon,      \* the anonymised file of each path
  restored,  \* the paths whose restored file is there
  pc, job,   \* the operation in progress and its local variables
  engine     \* the installed detection stack's hash

vars == <<open, gen, mem, disk, diverged, anon, restored, pc, job, engine>>
files == <<anon, restored>>
context == <<open, gen, mem>>

-----------------------------------------------------------------------------
\* FileRecord: out stands for file_hash_after and applied_tokens.
Records ==
  [path : Paths, text : Texts, out : Seq(Pieces), model : Models, override : BOOLEAN]
VaultRest == [recs : Seq(Records), lock : Models \union {NoModel}, destruct : BOOLEAN]
Images == [gen : Stores, mem : VaultRest]

\* ok and era are ghosts: the run that wrote the file returned, and the
\* registry's era at that time.
AnonFiles == [body : Seq(Pieces), ok : BOOLEAN, era : Nat]
RestoredPieces == [ns : Namespaces, want : Values, got : Values \union {NoValue}]
\* vouched is a ghost: the source was ok and of the current era.
RestoredFiles == [body : Seq(RestoredPieces), vouched : BOOLEAN]

AnonJobs ==
  [path : Paths, text : Texts, mode : SUBSET Namespaces, force : BOOLEAN, todo : Seq(Items),
   body : Seq(Pieces), want : Seq(Pieces) \union {NoOut}, undo : Images]
RestoreJobs == [path : Paths, back : RestoredFiles]

AnonSteps == {"mint", "written"}
RestoreSteps == {"scan", "rename", "count", "wipe"}

BlankRest == [recs |-> <<>>, lock |-> NoModel, destruct |-> FALSE]

\* WorkspaceContext.persist exports the generator into the vault data first.
Image == [gen |-> gen, mem |-> mem]

\* The records are searched newest first: the one hit, or none.
Newest(S) == {i \in S : \A j \in S : j <= i}

\* _find_previous_record: same path and same content.
PreviousRecord(p, text) ==
  Newest({i \in DOMAIN mem.recs : mem.recs[i].path = p /\ mem.recs[i].text = text})

\* _expected_tokens_for_input: the newest record that wrote this file.
ExpectedTexts(rest, p) ==
  UNION {AppliedTexts(rest.recs[i].out) :
           i \in Newest({j \in DOMAIN rest.recs : rest.recs[j].path = p})}

Idle == pc = "idle"

\* The operation ends: its locals go.
Return == pc' = "idle" /\ job' = NoJob

-----------------------------------------------------------------------------
Init ==
  /\ open = FALSE /\ gen = EmptyStore(0) /\ mem = BlankRest
  /\ disk = [gen |-> EmptyStore(0), mem |-> BlankRest]
  /\ diverged = FALSE
  /\ anon = [p \in Paths |-> NoFile]
  /\ restored = {}
  /\ pc = "idle" /\ job = NoJob
  /\ engine \in Models

\* get_active_workspace: vault data from disk, generator state from it.
Open ==
  /\ ~open
  /\ open' = TRUE /\ gen' = disk.gen /\ mem' = disk.mem /\ diverged' = FALSE
  /\ UNCHANGED <<disk, files, pc, job, engine>>

\* The process ends: normally when idle, killed at any other step.
Exit ==
  /\ open
  /\ open' = FALSE /\ gen' = EmptyStore(0) /\ mem' = BlankRest
  /\ Return
  /\ UNCHANGED <<disk, diverged, files, engine>>

-----------------------------------------------------------------------------
(* AnonymizePipeline.run *)

\* The model lock and the previous run's model are checked, then the state
\* to roll back to is captured.
BeginAnonymize(p, text, mode, force) ==
  LET prev == PreviousRecord(p, text)
  IN  /\ open /\ Idle /\ Len(mem.recs) < MaxRecs
      /\ ~force => /\ mem.lock \in {NoModel, engine}
                   /\ \A i \in prev : mem.recs[i].model = engine
      /\ job' = [path |-> p, text |-> text, mode |-> mode, force |-> force,
                 todo |-> text, body |-> <<>>,
                 want |-> IF prev = {} THEN NoOut
                          ELSE mem.recs[CHOOSE i \in prev : TRUE].out,
                 undo |-> Image]
      /\ pc' = "mint"
      /\ UNCHANGED <<context, disk, diverged, files, engine>>

\* One turn of the handler's loop: the next item, in document order.
MintNext ==
  LET item == Head(job.todo)
      hit  == item.ns \in job.mode
      g    == IF hit THEN Mint(gen, item, FileName[job.path]) ELSE gen
  IN  /\ pc = "mint" /\ job.todo # <<>>
      /\ gen' = g
      /\ job' = [job EXCEPT
           !.todo = Tail(@),
           !.body = Append(@, [ns |-> item.ns, val |-> item.val,
                               num |-> IF hit THEN g.num[KeyOf(item)] ELSE 0])]
      /\ UNCHANGED <<open, mem, disk, diverged, files, pc, engine>>

\* load_state of the counters and mappings captured at the start.
RollBack == gen' = RolledBack(job.undo.gen, gen)

\* The anonymised file as this run writes it; ok once the run returns.
Output(ok) == [body |-> job.body, ok |-> ok, era |-> gen.era]

\* output_path.write_text: an earlier anonymised file of this path is gone.
WriteOutput ==
  /\ pc = "mint" /\ job.todo = <<>>
  /\ anon' = [anon EXCEPT ![job.path] = Output(FALSE)]
  /\ pc' = "written"
  /\ UNCHANGED <<context, disk, diverged, restored, job, engine>>

\* Defective: the generator keeps what the failed run minted.
HandlerFailsNoRollback ==
  /\ pc \in {"mint", "written"}
  /\ Return
  /\ UNCHANGED <<context, disk, diverged, files, engine>>

\* An exception out of the handler, before or after it wrote the output:
\* the generator is rolled back, the output stays where it is.
HandlerFails ==
  /\ pc \in {"mint", "written"}
  /\ RollBack
  /\ Return
  /\ UNCHANGED <<open, mem, disk, diverged, files, engine>>

\* No earlier output to match, the same output again, or an override.
ReplayHolds == job.force \/ job.want \in {NoOut, job.body}

\* Same input, different output, no override: _rollback_run.
ReplayMismatch ==
  /\ pc = "written" /\ ~ReplayHolds
  /\ RollBack
  /\ anon' = [anon EXCEPT ![job.path] = NoFile]
  /\ Return
  /\ UNCHANGED <<open, mem, disk, diverged, restored, engine>>

\* The vault data once the run's record and model hash are in it.
Committed ==
  [recs |-> Append(mem.recs, [path |-> job.path, text |-> job.text, out |-> job.body,
                              model |-> engine, override |-> job.force]),
   lock |-> engine, destruct |-> mem.destruct]

\* Defective: no replay check.
AnonymizeSavedNoReplay ==
  /\ pc = "written"
  /\ mem' = Committed
  /\ disk' = [gen |-> gen, mem |-> Committed] /\ diverged' = FALSE
  /\ anon' = [anon EXCEPT ![job.path] = Output(TRUE)]
  /\ Return
  /\ UNCHANGED <<open, gen, restored, engine>>

\* The record and the model lock enter the vault data, persist writes it.
AnonymizeSaved ==
  /\ pc = "written" /\ ReplayHolds
  /\ mem' = Committed
  /\ disk' = [gen |-> gen, mem |-> Committed] /\ diverged' = FALSE
  /\ anon' = [anon EXCEPT ![job.path] = Output(TRUE)]
  /\ Return
  /\ UNCHANGED <<open, gen, restored, engine>>

\* Defective: the rollback forgets the model lock.
AnonymizeSaveFailsKeepLock(landed) ==
  /\ pc = "written" /\ ReplayHolds
  /\ disk' = IF landed THEN [gen |-> gen, mem |-> Committed] ELSE disk
  /\ diverged' = (landed \/ diverged)
  /\ RollBack /\ mem' = [job.undo.mem EXCEPT !.lock = engine]
  /\ anon' = [anon EXCEPT ![job.path] = NoFile]
  /\ Return
  /\ UNCHANGED <<open, restored, engine>>

\* persist raised.  With landed the exception came after the rename inside
\* atomic_write (chmod or the directory's fsync), so the disk has the new vault.
AnonymizeSaveFails(landed) ==
  /\ pc = "written" /\ ReplayHolds
  /\ disk' = IF landed THEN [gen |-> gen, mem |-> Committed] ELSE disk
  /\ diverged' = (landed \/ diverged)
  /\ RollBack /\ mem' = job.undo.mem
  /\ anon' = [anon EXCEPT ![job.path] = NoFile]
  /\ Return
  /\ UNCHANGED <<open, restored, engine>>

-----------------------------------------------------------------------------
(* RestorePipeline.run *)

\* detect_token_anomalies with this vault raises no flag: every token seen is
\* known, and no token of the newest run on this file is missing.
NoAnomaly(image, p) ==
  LET seen == SeenTexts(anon[p].body)
  IN  seen \subseteq KnownTexts(image.gen) /\ ExpectedTexts(image.mem, p) \subseteq seen

\* The text is checked, then restored into a temporary file.
BeginRestore(p) ==
  /\ open /\ Idle /\ anon[p] # NoFile
  /\ Registered(gen) # {}
  /\ NoAnomaly(Image, p)
  /\ mem.destruct => gen.era < MaxEra
  /\ job' = [path |-> p,
             back |-> [body    |-> [i \in DOMAIN anon[p].body |->
                                      RestorePiece(gen, anon[p].body[i])],
                       vouched |-> anon[p].ok /\ anon[p].era = gen.era]]
  /\ pc' = "scan"
  /\ UNCHANGED <<context, disk, diverged, files, engine>>

\* The handler, the remaining-token scan or the rename raised: the temporary
\* file goes, abort_count is saved if the vault can be written.
RestoreFails(landed) ==
  /\ pc \in {"scan", "rename"}
  /\ disk' = IF landed THEN Image ELSE disk
  /\ diverged' = (diverged /\ ~landed)
  /\ Return
  /\ UNCHANGED <<context, files, engine>>

\* An older restored file is removed before the rename.
RestoreUnlink ==
  /\ pc = "scan" /\ job.path \in restored
  /\ restored' = restored \ {job.path}
  /\ pc' = "rename"
  /\ UNCHANGED <<context, disk, diverged, anon, job, engine>>

RestoreRename ==
  /\ pc \in {"scan", "rename"} /\ job.path \notin restored
  /\ restored' = restored \union {job.path}
  /\ pc' = "count"
  /\ UNCHANGED <<context, disk, diverged, anon, job, engine>>

\* restore_count is saved; under self-destruct the registry and the records
\* are then dropped and a second save follows.
RestoreSaved ==
  /\ pc = "count"
  /\ disk' = Image /\ diverged' = FALSE
  /\ IF mem.destruct
     THEN /\ gen' = EmptyStore(gen.era + 1)
          /\ mem' = [mem EXCEPT !.recs = <<>>]
          /\ pc' = "wipe" /\ job' = job
     ELSE UNCHANGED <<gen, mem>> /\ Return
  /\ UNCHANGED <<open, files, engine>>

\* The restored file is there, the caller gets an exception.
RestoreSaveFails(landed) ==
  /\ pc = "count"
  /\ disk' = IF landed THEN Image ELSE disk
  /\ diverged' = (diverged /\ ~landed)
  /\ Return
  /\ UNCHANGED <<context, files, engine>>

WipeSaved ==
  /\ pc = "wipe"
  /\ disk' = Image /\ diverged' = FALSE
  /\ Return
  /\ UNCHANGED <<context, files, engine>>

\* The second save raised: memory stays empty.
WipeFails(landed) ==
  /\ pc = "wipe"
  /\ disk' = IF landed THEN Image ELSE disk
  /\ diverged' = ~landed
  /\ Return
  /\ UNCHANGED <<context, files, engine>>

-----------------------------------------------------------------------------
(* Governance, each call in a process of its own *)

SetSelfDestruct(b) ==
  /\ ~open /\ disk.mem.destruct # b
  /\ disk' = [disk EXCEPT !.mem.destruct = b]
  /\ UNCHANGED <<context, diverged, files, pc, job, engine>>

\* purge_workspace: the model locks survive.
Purge ==
  /\ ~open /\ disk.gen.era < MaxEra
  /\ disk' = [gen |-> EmptyStore(disk.gen.era + 1), mem |-> [disk.mem EXCEPT !.recs = <<>>]]
  /\ UNCHANGED <<context, diverged, files, pc, job, engine>>

\* Another detection stack is installed.
UpgradeEngine ==
  /\ ~open
  /\ engine' \in Models \ {engine}
  /\ UNCHANGED <<context, disk, diverged, files, pc, job>>

-----------------------------------------------------------------------------
Next ==
  \/ Open \/ Exit
  \/ \E p \in Paths, r \in Requests : BeginAnonymize(p, r.text, r.mode, r.force)
  \/ MintNext \/ WriteOutput \/ HandlerFails \/ ReplayMismatch
  \/ AnonymizeSaved
  \/ \E landed \in BOOLEAN : AnonymizeSaveFails(landed)
  \/ \E p \in Paths : BeginRestore(p)
  \/ \E landed \in BOOLEAN : RestoreFails(landed)
  \/ RestoreUnlink \/ RestoreRename \/ RestoreSaved
  \/ \E landed \in BOOLEAN : RestoreSaveFails(landed)
  \/ WipeSaved
  \/ \E landed \in BOOLEAN : WipeFails(landed)
  \/ \E b \in BOOLEAN : SetSelfDestruct(b)
  \/ Purge
  \/ UpgradeEngine

Spec == Init /\ [][Next]_vars
-----------------------------------------------------------------------------
TypeOK ==
  /\ open \in BOOLEAN
  /\ gen \in Stores /\ mem \in VaultRest /\ disk \in Images
  /\ diverged \in BOOLEAN
  /\ anon \in [Paths -> AnonFiles \union {NoFile}]
  /\ restored \subseteq Paths
  /\ \/ pc = "idle"
     \/ pc \in AnonSteps /\ job \in AnonJobs
     \/ pc \in RestoreSteps /\ job \in RestoreJobs
  /\ engine \in Models

\* Two values of one counter never carry the same token, in memory, in the
\* state kept for a rollback and on disk, whatever failed before
\* (TokenGenerator; the reverse lookup would merge two persons).
TokensDistinct ==
  /\ StoreOK(gen) /\ StoreOK(disk.gen)
  /\ pc \in AnonSteps => StoreOK(job.undo.gen)

\* The checks of a restore from this vault let the file pass, and every token
\* in it is the one its own value is registered under.
RestorableFrom(image, p) ==
  /\ NoAnomaly(image, p)
  /\ \A i \in DOMAIN anon[p].body : Backs(image.gen, anon[p].body[i])

\* The token patterns match every token of the file.
Legible(p) ==
  \A i \in DOMAIN anon[p].body : anon[p].body[i].num <= MaxNumber

\* A file whose run returned, the registry not emptied since, can be restored
\* from the vault on disk and from the loaded context.
StaysRestorable(p) ==
  /\ anon[p].era = disk.gen.era => RestorableFrom(disk, p)
  /\ open /\ anon[p].era = gen.era => RestorableFrom(Image, p)

\* Such a file stays restorable until the registry is emptied on purpose, with
\* crashes, failed saves and rollbacks of later runs in between, when its
\* token numbers have five digits (anonymize.py, restore.py).
CommittedRestorable ==
  \A p \in Paths :
    anon[p] # NoFile /\ anon[p].ok /\ Legible(p) => StaysRestorable(p)

\* HANDOFF.md: every anonymization can be perfectly undone.  The same without
\* the condition on the numbers.
EveryRunUndoable ==
  \A p \in Paths : anon[p] # NoFile /\ anon[p].ok => StaysRestorable(p)

\* The restored file job.back is in place.
Delivered == pc \in {"count", "wipe"}

\* Restoring such a file never writes somebody else's value for one of its
\* tokens.
NeverWrongValue ==
  Delivered /\ job.back.vouched =>
    \A i \in DOMAIN job.back.body :
      LET r == job.back.body[i]
      IN  r.got # NoValue =>
            Norm[r.ns][r.got] = Norm[r.ns][r.want]

\* A process that is between operations holds what the vault holds, unless a
\* write was reported failed after it took place or the final save of a
\* self-destruct failed: every failure path rolls back.  The source files of
\* a mapping are the exception: memory knows all of the vault's, and keeps
\* those a failed run noted (anonymize.py, generator.py).
MemoryMatchesDisk ==
  open /\ Idle /\ ~diverged =>
    /\ disk.mem = mem /\ SameCore(disk.gen, gen)
    /\ \A k \in Keys : disk.gen.src[k] \subseteq gen.src[k]

\* Replay (compared by file_hash_after): of two runs on the same file and
\* content the later one wrote the same output or is marked as an override.
ReplayStable ==
  \A i, j \in DOMAIN disk.mem.recs :
    LET a == disk.mem.recs[i]  b == disk.mem.recs[j]
    IN  i < j /\ a.path = b.path /\ a.text = b.text /\ ~b.override
          => \E k \in i..(j - 1) :
               disk.mem.recs[k].path = b.path /\ disk.mem.recs[k].text = b.text
               /\ disk.mem.recs[k].out = b.out

\* Detection is version locked: when consecutive records were made by
\* different detection stacks the later one is marked as an override.
ModelSwitchesMarked ==
  \A i \in 2..Len(disk.mem.recs) :
    disk.mem.recs[i].model # disk.mem.recs[i - 1].model => disk.mem.recs[i].override

\* Every value a restore writes is the one the token was made for.
ZeroIncorrectRestores ==
  Delivered =>
    \A i \in DOMAIN job.back.body :
      LET r == job.back.body[i]
      IN  r.got # NoValue =>
            Norm[r.ns][r.got] = Norm[r.ns][r.want]
=============================================================================
