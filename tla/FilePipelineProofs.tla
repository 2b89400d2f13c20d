-------------------------- MODULE FilePipelineProofs --------------------------
(***************************************************************************)
(* Type correctness and safety of the file pipelines, for every set of     *)
(* documents, texts, requests, models, namespaces and values.              *)
(***************************************************************************)
EXTENDS FilePipeline, TokenStoreProofs, SequenceTheorems, WellFoundedInduction

-----------------------------------------------------------------------------
(* Types *)

LEMMA ImageType == TypeOK => Image \in Images
BY DEF TypeOK, Image, Images

LEMMA RestorePieceType ==
  ASSUME NEW g \in Stores, NEW piece \in Pieces
  PROVE  RestorePiece(g, piece) \in RestoredPieces
<1>1. Recognised(piece) => TokenText(piece.ns, piece.num) \in Readable
  BY StoreAssumption DEF Recognised, TokenText, Readable, Pieces
<1>2. QED
  BY <1>1 DEF RestorePiece, RestoredPieces, Pieces, Stores

LEMMA CommittedType ==
  ASSUME TypeOK, pc \in AnonSteps
  PROVE  Committed \in VaultRest
<1>1. job \in AnonJobs
  BY DEF TypeOK, AnonSteps, RestoreSteps
<1> DEFINE rec == [path |-> job.path, text |-> job.text, out |-> job.body,
                   model |-> engine, override |-> job.force]
<1>2. rec \in Records
  BY <1>1 DEF Records, AnonJobs, TypeOK
<1> HIDE DEF rec
<1>3. Append(mem.recs, rec) \in Seq(Records)
  BY <1>2, AppendProperties DEF TypeOK, VaultRest
<1>4. QED
  BY <1>3 DEF Committed, rec, VaultRest, TypeOK

LEMMA DropRecordsType ==
  ASSUME NEW rest \in VaultRest
  PROVE  [rest EXCEPT !.recs = <<>>] \in VaultRest
<1>1. <<>> \in Seq(Records)
  BY EmptySeq
<1>2. [rest EXCEPT !.recs = <<>>]
        = [recs |-> <<>>, lock |-> rest.lock, destruct |-> rest.destruct]
  BY DEF VaultRest
<1>3. QED
  BY <1>1, <1>2 DEF VaultRest

LEMMA BeginAnonymizeType ==
  ASSUME TypeOK, NEW p \in Paths, NEW r \in Requests,
         BeginAnonymize(p, r.text, r.mode, r.force)
  PROVE  TypeOK'
<1> DEFINE prev == PreviousRecord(p, r.text)
           want == IF prev = {} THEN NoOut ELSE mem.recs[CHOOSE i \in prev : TRUE].out
<1>1. r.text \in Texts /\ r.text \in Seq(Items) /\ r.mode \in SUBSET Namespaces
      /\ r.force \in BOOLEAN
  BY PipelineAssumption
<1>2. prev \subseteq DOMAIN mem.recs
  BY DEF PreviousRecord, Newest
<1>3. want \in Seq(Pieces) \union {NoOut}
  <2>1. CASE prev = {}
    BY <2>1
  <2>2. CASE prev # {}
    <3>1. PICK i \in DOMAIN mem.recs : i = CHOOSE j \in prev : TRUE
      BY <1>2, <2>2
    <3>2. mem.recs[i] \in Records
      BY ElementOfSeq DEF TypeOK, VaultRest
    <3>3. QED
      BY <2>2, <3>1, <3>2 DEF Records
  <2>3. QED
    BY <2>1, <2>2
<1>4. <<>> \in Seq(Pieces)
  OBVIOUS
<1>5. job' = [path |-> p, text |-> r.text, mode |-> r.mode, force |-> r.force,
              todo |-> r.text, body |-> <<>>, want |-> want, undo |-> Image]
  BY DEF BeginAnonymize
<1> HIDE DEF want
<1>6. job' \in AnonJobs
  BY <1>1, <1>3, <1>4, <1>5, ImageType DEF AnonJobs
<1>7. QED
  BY <1>6 DEF BeginAnonymize, TypeOK, context, files, AnonSteps

LEMMA MintNextType ==
  ASSUME TypeOK, MintNext
  PROVE  TypeOK'
<1> DEFINE item == Head(job.todo)
           hit == item.ns \in job.mode
           g == IF hit THEN Mint(gen, item, FileName[job.path]) ELSE gen
           piece == [ns |-> item.ns, val |-> item.val,
                     num |-> IF hit THEN g.num[KeyOf(item)] ELSE 0]
<1>1. pc = "mint" /\ job \in AnonJobs /\ job.todo \in Seq(Items) /\ job.todo # <<>>
  BY DEF TypeOK, MintNext, AnonSteps, RestoreSteps, AnonJobs
<1>2. item \in Items /\ Tail(job.todo) \in Seq(Items)
  BY <1>1, HeadTailProperties
<1>0. FileName[job.path] \in Sources
  BY <1>1, PipelineAssumption DEF AnonJobs
<1>3. g \in Stores
  BY <1>0, <1>2, MintType DEF TypeOK
<1>4. piece \in Pieces
  <2>1. g.num[KeyOf(item)] \in Nat
    BY <1>2, <1>3, KeyOfType DEF Stores
  <2>2. QED
    BY <1>2, <2>1 DEF Pieces, Items
<1>5. /\ gen' = g
      /\ job' = [job EXCEPT !.todo = Tail(@), !.body = Append(@, piece)]
  BY DEF MintNext
<1> HIDE DEF g, piece
<1>6. job' = [path |-> job.path, text |-> job.text, mode |-> job.mode,
              force |-> job.force, todo |-> Tail(job.todo),
              body |-> Append(job.body, piece), want |-> job.want, undo |-> job.undo]
  BY <1>1, <1>5 DEF AnonJobs
<1>7. Append(job.body, piece) \in Seq(Pieces)
  BY <1>1, <1>4, AppendProperties DEF AnonJobs
<1>8. job' \in AnonJobs
  BY <1>1, <1>2, <1>6, <1>7 DEF AnonJobs
<1>9. QED
  BY <1>1, <1>3, <1>5, <1>8 DEF MintNext, TypeOK, files, AnonSteps

\* The steps that end an anonymisation.
LEMMA AnonymizeEndType ==
  ASSUME TypeOK,
         \/ HandlerFails \/ ReplayMismatch \/ AnonymizeSaved
         \/ \E landed \in BOOLEAN : AnonymizeSaveFails(landed)
  PROVE  TypeOK'
<1>1. pc \in AnonSteps
  BY DEF HandlerFails, ReplayMismatch, AnonymizeSaved, AnonymizeSaveFails, AnonSteps
<1>2. /\ job.path \in Paths /\ job.undo.gen \in Stores /\ job.undo.mem \in VaultRest
      /\ job.body \in Seq(Pieces)
  BY <1>1 DEF TypeOK, AnonSteps, RestoreSteps, AnonJobs, Images
<1>3. Committed \in VaultRest /\ [gen |-> gen, mem |-> Committed] \in Images
  BY <1>1, CommittedType DEF Images, TypeOK
<1>9. RollBack => gen' \in Stores
  BY <1>2, RolledBackKeeps DEF RollBack, TypeOK
<1>4. CASE HandlerFails
  BY <1>2, <1>4, <1>9 DEF HandlerFails, Return, TypeOK, files
<1>5. CASE ReplayMismatch
  BY <1>2, <1>5, <1>9 DEF ReplayMismatch, Return, TypeOK
<1>6. CASE AnonymizeSaved
  <2>1. Output(TRUE) \in AnonFiles
    BY <1>2 DEF Output, AnonFiles, TypeOK, Stores
  <2>2. QED
    BY <1>2, <1>3, <1>6, <2>1 DEF AnonymizeSaved, Return, TypeOK
<1>7. ASSUME NEW landed \in BOOLEAN, AnonymizeSaveFails(landed)
      PROVE  TypeOK'
  BY <1>2, <1>3, <1>7, <1>9 DEF AnonymizeSaveFails, Return, TypeOK
<1>8. QED
  BY <1>4, <1>5, <1>6, <1>7

LEMMA WriteOutputType ==
  ASSUME TypeOK, WriteOutput
  PROVE  TypeOK'
<1>1. job \in AnonJobs
  BY DEF TypeOK, WriteOutput, AnonSteps, RestoreSteps
<1>2. Output(FALSE) \in AnonFiles
  BY <1>1 DEF Output, AnonFiles, AnonJobs, TypeOK, Stores
<1>3. QED
  BY <1>1, <1>2 DEF WriteOutput, TypeOK, context, AnonJobs, AnonSteps

LEMMA BeginRestoreType ==
  ASSUME TypeOK, NEW p \in Paths, BeginRestore(p)
  PROVE  TypeOK'
<1> DEFINE file == anon[p]
           body == [i \in DOMAIN file.body |-> RestorePiece(gen, file.body[i])]
<1>1. file \in AnonFiles /\ file.body \in Seq(Pieces)
  BY DEF BeginRestore, TypeOK, AnonFiles
<1>2. \A i \in DOMAIN file.body : RestorePiece(gen, file.body[i]) \in RestoredPieces
  BY <1>1, ElementOfSeq, RestorePieceType DEF TypeOK
<1>3. body \in Seq(RestoredPieces)
  <2>1. Len(file.body) \in Nat /\ DOMAIN file.body = 1..Len(file.body)
    BY <1>1, LenProperties
  <2>2. body \in [1..Len(file.body) -> RestoredPieces]
    BY <1>2, <2>1
  <2>3. QED
    BY <2>1, <2>2, SeqDef
<1>4. job' = [path |-> p,
              back |-> [body |-> body, vouched |-> file.ok /\ file.era = gen.era]]
  BY DEF BeginRestore
<1> HIDE DEF body
<1>5. job' \in RestoreJobs
  BY <1>3, <1>4 DEF RestoreJobs, RestoredFiles
<1>6. QED
  BY <1>5 DEF BeginRestore, TypeOK, context, files, RestoreSteps

\* The later steps of a restore.
LEMMA RestoreEndType ==
  ASSUME TypeOK,
         \/ \E landed \in BOOLEAN : RestoreFails(landed)
         \/ RestoreUnlink \/ RestoreRename \/ RestoreSaved
         \/ \E landed \in BOOLEAN : RestoreSaveFails(landed)
         \/ WipeSaved
         \/ \E landed \in BOOLEAN : WipeFails(landed)
  PROVE  TypeOK'
<1>1. pc \in RestoreSteps
  BY DEF RestoreFails, RestoreUnlink, RestoreRename, RestoreSaved, RestoreSaveFails,
         WipeSaved, WipeFails, RestoreSteps
<1>2. job \in RestoreJobs /\ job.path \in Paths /\ Image \in Images
  BY <1>1, ImageType DEF TypeOK, AnonSteps, RestoreSteps, RestoreJobs
<1>3. ASSUME NEW landed \in BOOLEAN,
             RestoreFails(landed) \/ RestoreSaveFails(landed) \/ WipeFails(landed)
      PROVE  TypeOK'
  BY <1>2, <1>3 DEF RestoreFails, RestoreSaveFails, WipeFails, Return, TypeOK, context, files
<1>4. CASE RestoreUnlink \/ RestoreRename
  BY <1>2, <1>4 DEF RestoreUnlink, RestoreRename, TypeOK, context, RestoreSteps
<1>5. CASE WipeSaved
  BY <1>2, <1>5 DEF WipeSaved, Return, TypeOK, context, files
<1>6. CASE RestoreSaved
  <2>1. CASE mem.destruct
    <3>0. gen.era + 1 \in Nat
      BY DEF TypeOK, Stores
    <3>1. EmptyStore(gen.era + 1) \in Stores
      BY <3>0, EmptyStoreOK
    <3>2. [mem EXCEPT !.recs = <<>>] \in VaultRest
      BY DropRecordsType DEF TypeOK
    <3>3. QED
      BY <1>2, <1>6, <2>1, <3>1, <3>2 DEF RestoreSaved, TypeOK, files, RestoreSteps
  <2>2. CASE ~mem.destruct
    BY <1>2, <1>6, <2>2 DEF RestoreSaved, Return, TypeOK, files
  <2>3. QED
    BY <2>1, <2>2
<1>7. QED
  BY <1>3, <1>4, <1>5, <1>6

\* Loading, leaving and governing the workspace.
LEMMA WorkspaceType ==
  ASSUME TypeOK,
         \/ Open \/ Exit
         \/ \E b \in BOOLEAN : SetSelfDestruct(b)
         \/ Purge \/ UpgradeEngine
  PROVE  TypeOK'
<1>1. disk.gen \in Stores /\ disk.mem \in VaultRest
  BY DEF TypeOK, Images
<1>2. EmptyStore(0) \in Stores /\ EmptyStore(disk.gen.era + 1) \in Stores
  <2>1. 0 \in Nat /\ disk.gen.era + 1 \in Nat
    BY <1>1 DEF Stores
  <2>2. QED
    BY <2>1, EmptyStoreOK
<1>3. BlankRest \in VaultRest
  BY DEF BlankRest, VaultRest
<1>4. CASE Open
  BY <1>1, <1>4 DEF Open, TypeOK, files
<1>5. CASE Exit
  BY <1>2, <1>3, <1>5 DEF Exit, Return, TypeOK, files
<1>6. ASSUME NEW b \in BOOLEAN, SetSelfDestruct(b)
      PROVE  TypeOK'
  <2>1. disk' \in Images
    <3>1. disk' = [gen |-> disk.gen, mem |-> [recs |-> disk.mem.recs,
                     lock |-> disk.mem.lock, destruct |-> b]]
      BY <1>6 DEF SetSelfDestruct, TypeOK, Images, VaultRest
    <3>2. QED
      BY <1>1, <3>1 DEF Images, VaultRest
  <2>2. QED
    BY <1>6, <2>1 DEF SetSelfDestruct, TypeOK, context, files
<1>7. CASE Purge
  <2>1. [disk.mem EXCEPT !.recs = <<>>] \in VaultRest
    BY <1>1, DropRecordsType
  <2>2. disk' \in Images
    BY <1>2, <1>7, <2>1 DEF Purge, Images
  <2>3. QED
    BY <1>7, <2>2 DEF Purge, TypeOK, context, files
<1>8. CASE UpgradeEngine
  BY <1>8 DEF UpgradeEngine, TypeOK, context, files
<1>9. QED
  BY <1>4, <1>5, <1>6, <1>7, <1>8

\* Every variable keeps its type: whatever is loaded, rolled back, saved or
\* wiped is a registry and vault data.
THEOREM TypeCorrect == Spec => []TypeOK
<1>1. Init => TypeOK
  <2> SUFFICES ASSUME Init
               PROVE  TypeOK
    OBVIOUS
  <2>1. EmptyStore(0) \in Stores /\ BlankRest \in VaultRest
    BY EmptyStoreOK, EmptySeq DEF BlankRest, VaultRest
  <2>2. QED
    BY <2>1 DEF Init, TypeOK, Images
<1>2. TypeOK /\ [Next]_vars => TypeOK'
  <2> SUFFICES ASSUME TypeOK, [Next]_vars
               PROVE  TypeOK'
    OBVIOUS
  <2>1. CASE UNCHANGED vars
    BY <2>1 DEF TypeOK, vars
  <2>2. CASE Next
    BY <2>2, WorkspaceType, BeginAnonymizeType, MintNextType, WriteOutputType,
       AnonymizeEndType, BeginRestoreType, RestoreEndType DEF Next
  <2>3. QED
    BY <2>1, <2>2
<1>3. QED
  BY <1>1, <1>2, PTL DEF Spec

-----------------------------------------------------------------------------
(* Tokens stay distinct *)

LEMMA DistinctStep ==
  ASSUME TypeOK, TokensDistinct, Next
  PROVE  TokensDistinct'
<1>1. /\ gen \in Stores /\ StoreOK(gen)
      /\ disk.gen \in Stores /\ StoreOK(disk.gen)
      /\ pc \in AnonSteps => StoreOK(job.undo.gen)
  BY DEF TypeOK, Images, TokensDistinct
<1>2. \A era \in Nat : StoreOK(EmptyStore(era))
  BY EmptyStoreOK
<1>3. gen.era + 1 \in Nat /\ disk.gen.era + 1 \in Nat /\ Image.gen = gen
  BY <1>1 DEF Stores, Image
<1>0. ASSUME pc \in AnonSteps, RollBack
      PROVE  StoreOK(gen')
  <2>1. job.undo.gen \in Stores
    BY <1>0 DEF TypeOK, AnonSteps, RestoreSteps, AnonJobs, Images
  <2>2. QED
    BY <1>0, <1>1, <2>1, RolledBackKeeps, SameCoreOK DEF RollBack
<1>4. CASE Open
  BY <1>1, <1>4 DEF Open, TokensDistinct
<1>5. CASE Exit
  BY <1>1, <1>2, <1>5 DEF Exit, Return, TokensDistinct, AnonSteps
<1>6. ASSUME NEW p \in Paths, NEW r \in Requests,
             BeginAnonymize(p, r.text, r.mode, r.force)
      PROVE  TokensDistinct'
  <2>1. job'.undo = Image
    BY <1>6 DEF BeginAnonymize
  <2>2. QED
    BY <1>1, <1>3, <1>6, <2>1 DEF BeginAnonymize, context, TokensDistinct
<1>7. CASE MintNext
  <2>1. job \in AnonJobs /\ pc = "mint"
    BY <1>7 DEF MintNext, TypeOK, AnonSteps, RestoreSteps
  <2>2. Head(job.todo) \in Items
    BY <1>7, <2>1, HeadTailProperties DEF MintNext, AnonJobs
  <2>6. FileName[job.path] \in Sources
    BY <2>1, PipelineAssumption DEF AnonJobs
  <2>3. StoreOK(gen')
    BY <1>1, <1>7, <2>2, <2>6, MintOK DEF MintNext
  <2>4. job'.undo = job.undo
    BY <1>7, <2>1 DEF MintNext, AnonJobs
  <2>5. QED
    BY <1>1, <1>7, <2>1, <2>3, <2>4 DEF MintNext, TokensDistinct, AnonSteps
<1>8. CASE WriteOutput
  BY <1>1, <1>8 DEF WriteOutput, context, TokensDistinct, AnonSteps
<1>9. CASE HandlerFails \/ ReplayMismatch
  BY <1>0, <1>1, <1>9 DEF HandlerFails, ReplayMismatch, Return, TokensDistinct, AnonSteps
<1>10. CASE AnonymizeSaved
  BY <1>1, <1>10 DEF AnonymizeSaved, Return, TokensDistinct, AnonSteps
<1>11. ASSUME NEW landed \in BOOLEAN, AnonymizeSaveFails(landed)
       PROVE  TokensDistinct'
  BY <1>0, <1>1, <1>11 DEF AnonymizeSaveFails, Return, TokensDistinct, AnonSteps
<1>12. ASSUME NEW p \in Paths, BeginRestore(p)
       PROVE  TokensDistinct'
  BY <1>1, <1>12 DEF BeginRestore, context, TokensDistinct, AnonSteps
<1>13. ASSUME NEW landed \in BOOLEAN,
              RestoreFails(landed) \/ RestoreSaveFails(landed) \/ WipeFails(landed)
       PROVE  TokensDistinct'
  BY <1>1, <1>3, <1>13
     DEF RestoreFails, RestoreSaveFails, WipeFails, Return, context, TokensDistinct, AnonSteps
<1>14. CASE RestoreUnlink \/ RestoreRename \/ WipeSaved
  BY <1>1, <1>3, <1>14
     DEF RestoreUnlink, RestoreRename, WipeSaved, Return, context, TokensDistinct, AnonSteps
<1>15. CASE RestoreSaved
  BY <1>1, <1>2, <1>3, <1>15 DEF RestoreSaved, Return, TokensDistinct, AnonSteps
<1>16. ASSUME NEW b \in BOOLEAN, SetSelfDestruct(b)
       PROVE  TokensDistinct'
  <2>1. disk'.gen = disk.gen
    BY <1>16 DEF SetSelfDestruct, TypeOK, Images
  <2>2. QED
    BY <1>1, <1>16, <2>1 DEF SetSelfDestruct, context, TokensDistinct
<1>17. CASE Purge
  BY <1>1, <1>2, <1>3, <1>17 DEF Purge, context, TokensDistinct
<1>18. CASE UpgradeEngine
  BY <1>1, <1>18 DEF UpgradeEngine, context, TokensDistinct
<1>19. QED
  BY <1>4, <1>5, <1>6, <1>7, <1>8, <1>9, <1>10, <1>11, <1>12, <1>13, <1>14, <1>15,
     <1>16, <1>17, <1>18 DEF Next

\* In memory, in the snapshot a run rolls back to and on disk two values of
\* one counter never share a token, after any sequence of runs, failures,
\* rollbacks, crashes, restores and purges.
THEOREM Distinct == Spec => []TokensDistinct
<1>1. Init => TokensDistinct
  BY EmptyStoreOK DEF Init, TokensDistinct, AnonSteps
<1>2. TypeOK /\ TokensDistinct /\ [Next]_vars => TokensDistinct'
  BY DistinctStep DEF vars, TokensDistinct
<1>3. QED
  BY <1>1, <1>2, TypeCorrect, PTL DEF Spec

-----------------------------------------------------------------------------
(* Memory and disk *)

\* What the vault says and what memory says are the same but for the source
\* files, of which memory may know more.
Matches(image, now) ==
  /\ image.mem = now.mem /\ SameCore(image.gen, now.gen)
  /\ \A k \in Keys : image.gen.src[k] \subseteq now.gen.src[k]

\* Only a mapping has source files.
SourcesOwned(g) == \A k \in Keys : g.num[k] = 0 => g.src[k] = {}

\* The mappings a run found at its start keep their source files.
SourcesGrow(u, g) == \A k \in Keys : u.num[k] # 0 => g.num[k] # 0 /\ u.src[k] \subseteq g.src[k]

\* MemoryMatchesDisk between the steps of an operation: while a run can
\* still roll back, the disk holds what it would roll back to; until a
\* restore saves, the disk holds what is in memory.
SavedState ==
  /\ pc # "idle" => open
  /\ SourcesOwned(gen) /\ SourcesOwned(disk.gen)
  /\ pc \in AnonSteps =>
       /\ mem = job.undo.mem /\ SourcesGrow(job.undo.gen, gen)
       /\ SourcesOwned(job.undo.gen)
       /\ ~diverged => Matches(disk, job.undo)
  /\ open /\ ~diverged /\ pc \in {"idle", "scan", "rename", "count"} => Matches(disk, Image)

LEMMA MintSources ==
  ASSUME NEW g \in Stores, NEW item \in Items, NEW f \in Sources, SourcesOwned(g)
  PROVE  SourcesOwned(Mint(g, item, f)) /\ SourcesGrow(g, Mint(g, item, f))
<1>1. KeyOf(item) \in Keys /\ item.ns \in Namespaces /\ item.val \in Values
  BY KeyOfType DEF Items
<1>2. SourcesGrow(g, Mint(g, item, f))
  BY MintKeeps DEF SourcesGrow
<1>3. CASE g.num[KeyOf(item)] # 0
  <2>1. Mint(g, item, f) = Noted(g, KeyOf(item), f)
    BY <1>3 DEF Mint
  <2>2. Noted(g, KeyOf(item), f).num = g.num
    BY <1>1, NotedKeeps DEF SameCore
  <2>3. \A k \in Keys : k # KeyOf(item) => Noted(g, KeyOf(item), f).src[k] = g.src[k]
    BY <1>1 DEF Noted, Stores
  <2>4. QED
    BY <1>2, <1>3, <2>1, <2>2, <2>3 DEF SourcesOwned
<1>4. CASE g.num[KeyOf(item)] = 0
  <2>1. g.cnt[item.ns] + 1 \in Nat /\ g.cnt[item.ns] + 1 # 0
    BY <1>1 DEF Stores
  <2>2. /\ Mint(g, item, f).num = [g.num EXCEPT ![KeyOf(item)] = g.cnt[item.ns] + 1]
        /\ Mint(g, item, f).src = [g.src EXCEPT ![KeyOf(item)] = {f}]
    BY <1>4 DEF Mint, Register
  <2>3. QED
    BY <1>1, <1>2, <2>1, <2>2 DEF SourcesOwned, Stores
<1>5. QED
  BY <1>3, <1>4

\* A rollback gives memory back what the snapshot matched.
LEMMA RollBackMatches ==
  ASSUME TypeOK, SavedState, pc \in AnonSteps, RollBack
  PROVE  /\ gen' \in Stores /\ SameCore(job.undo.gen, gen') /\ SourcesOwned(gen')
         /\ ~diverged => \A k \in Keys : disk.gen.src[k] \subseteq gen'.src[k]
<1>1. job.undo.gen \in Stores /\ gen \in Stores /\ disk.gen \in Stores
  BY DEF TypeOK, AnonSteps, RestoreSteps, AnonJobs, Images
<1>2. /\ gen' \in Stores /\ SameCore(job.undo.gen, gen')
      /\ \A k \in Keys : gen'.src[k] = IF job.undo.gen.num[k] = 0 THEN {} ELSE gen.src[k]
  BY <1>1, RolledBackKeeps DEF RollBack
<1>3. SourcesOwned(gen')
  BY <1>2 DEF SourcesOwned, SameCore
<1>4. ASSUME ~diverged, NEW k \in Keys
      PROVE  disk.gen.src[k] \subseteq gen'.src[k]
  <2>1. /\ disk.gen.src[k] \subseteq job.undo.gen.src[k]
        /\ disk.gen.num = job.undo.gen.num
    BY <1>4 DEF SavedState, Matches, SameCore
  <2>2. CASE job.undo.gen.num[k] = 0
    BY <1>2, <2>1, <2>2 DEF SavedState, SourcesOwned
  <2>3. CASE job.undo.gen.num[k] # 0
    BY <1>2, <2>1, <2>3 DEF SavedState, SourcesGrow
  <2>4. QED
    BY <2>2, <2>3
<1>5. QED
  BY <1>2, <1>3, <1>4

LEMMA EmptyOwned == \A era : SourcesOwned(EmptyStore(era))
BY DEF EmptyStore, SourcesOwned

LEMMA MatchesItself == \A i : Matches(i, i)
BY DEF Matches, SameCore

LEMMA SavedStep ==
  ASSUME TypeOK, SavedState, Next
  PROVE  SavedState'
<1>1. disk.gen \in Stores /\ gen \in Stores
  BY DEF TypeOK, Images
<1>2. Image.gen = gen /\ Image.mem = mem
  BY DEF Image
<1>3. CASE Open
  <2>1. Matches(disk', Image')
    BY <1>3 DEF Open, Image, Matches, SameCore
  <2>2. QED
    BY <1>3, <2>1 DEF Open, SavedState, AnonSteps
<1>17. CASE Exit
  BY <1>17, EmptyOwned DEF Exit, Return, SavedState, AnonSteps
<1>4. ASSUME NEW p \in Paths, NEW r \in Requests,
             BeginAnonymize(p, r.text, r.mode, r.force)
      PROVE  SavedState'
  <2>1. job'.undo = Image /\ pc = "idle" /\ pc' = "mint"
    BY <1>4 DEF BeginAnonymize, Idle
  <2>2. UNCHANGED <<open, gen, mem, disk, diverged>> /\ open
    BY <1>4 DEF BeginAnonymize, context
  <2>3. SourcesGrow(gen, gen)
    BY DEF SourcesGrow
  <2>4. QED
    BY <1>2, <2>1, <2>2, <2>3 DEF SavedState, AnonSteps
<1>5. CASE MintNext
  <2>1. job'.undo = job.undo /\ pc = "mint" /\ job \in AnonJobs
    BY <1>5 DEF MintNext, TypeOK, AnonSteps, RestoreSteps, AnonJobs
  <2>2. Head(job.todo) \in Items /\ FileName[job.path] \in Sources
    BY <1>5, <2>1, HeadTailProperties, PipelineAssumption DEF MintNext, AnonJobs
  <2>3. SourcesOwned(gen') /\ SourcesGrow(gen, gen')
    BY <1>1, <1>5, <2>2, MintSources DEF MintNext, SavedState, SourcesGrow
  <2>4. SourcesGrow(job.undo.gen, gen')
    BY <2>1, <2>3 DEF SavedState, SourcesGrow, AnonSteps
  <2>5. UNCHANGED <<open, mem, disk, diverged, pc>>
    BY <1>5 DEF MintNext
  <2>6. QED
    BY <2>1, <2>3, <2>4, <2>5 DEF SavedState, AnonSteps
<1>6. CASE WriteOutput
  BY <1>6 DEF WriteOutput, context, SavedState, AnonSteps
<1>7. CASE HandlerFails \/ ReplayMismatch
  <2>1. pc \in AnonSteps /\ RollBack /\ UNCHANGED <<open, mem, disk, diverged>> /\ pc' = "idle"
    BY <1>7 DEF HandlerFails, ReplayMismatch, Return, AnonSteps
  <2>2. /\ SameCore(job.undo.gen, gen') /\ SourcesOwned(gen')
        /\ ~diverged => \A k \in Keys : disk.gen.src[k] \subseteq gen'.src[k]
    BY <2>1, RollBackMatches
  <2>3. ~diverged => Matches(disk, [gen |-> gen', mem |-> mem'])
    BY <2>1, <2>2 DEF SavedState, Matches, SameCore
  <2>4. Image' = [gen |-> gen', mem |-> mem']
    BY DEF Image
  <2>5. QED
    BY <2>1, <2>2, <2>3, <2>4 DEF SavedState, AnonSteps
<1>8. CASE AnonymizeSaved
  <2>1. disk' = Image' /\ pc' = "idle" /\ UNCHANGED <<open, gen>> /\ disk'.gen = gen
    BY <1>8 DEF AnonymizeSaved, Return, Image
  <2>2. QED
    BY <2>1, <1>8, MatchesItself DEF SavedState, AnonymizeSaved, AnonSteps
<1>9. ASSUME NEW landed \in BOOLEAN, AnonymizeSaveFails(landed)
      PROVE  SavedState'
  <2>1. /\ pc \in AnonSteps /\ RollBack /\ mem' = job.undo.mem /\ UNCHANGED open
        /\ pc' = "idle" /\ diverged' = (landed \/ diverged)
        /\ disk'.gen = gen \/ disk' = disk
        /\ ~landed => disk' = disk
    BY <1>9 DEF AnonymizeSaveFails, Return, AnonSteps
  <2>2. /\ SameCore(job.undo.gen, gen') /\ SourcesOwned(gen')
        /\ ~diverged => \A k \in Keys : disk.gen.src[k] \subseteq gen'.src[k]
    BY <2>1, RollBackMatches
  <2>3. ~diverged' => Matches(disk', [gen |-> gen', mem |-> mem'])
    BY <2>1, <2>2 DEF SavedState, Matches, SameCore
  <2>4. Image' = [gen |-> gen', mem |-> mem']
    BY DEF Image
  <2>6. SourcesOwned(disk'.gen) /\ pc' \notin AnonSteps
    BY <2>1 DEF SavedState, AnonSteps
  <2>5. QED
    BY <2>1, <2>2, <2>3, <2>4, <2>6 DEF SavedState
<1>10. ASSUME NEW p \in Paths, BeginRestore(p)
       PROVE  SavedState'
  <2>1. /\ open' = open /\ gen' = gen /\ mem' = mem /\ disk' = disk /\ diverged' = diverged
        /\ pc = "idle" /\ pc' = "scan"
    BY <1>10 DEF BeginRestore, context, Idle
  <2>2. Image' = Image
    BY <2>1 DEF Image
  <2>4. open' /\ ~diverged' => Matches(disk', Image')
    BY <2>1, <2>2 DEF SavedState
  <2>5. SourcesOwned(gen') /\ SourcesOwned(disk'.gen) /\ open'
    BY <1>10, <2>1 DEF SavedState, BeginRestore
  <2>3. QED
    BY <2>1, <2>4, <2>5 DEF SavedState, AnonSteps
<1>11. ASSUME NEW landed \in BOOLEAN,
              RestoreFails(landed) \/ RestoreSaveFails(landed) \/ WipeFails(landed)
       PROVE  SavedState'
  <2>1. /\ pc \notin AnonSteps /\ pc' = "idle" /\ UNCHANGED <<open, gen, mem>> /\ open
        /\ disk' = IF landed THEN Image ELSE disk
        /\ pc = "wipe" => diverged' = ~landed
        /\ pc # "wipe" => diverged' = (diverged /\ ~landed) /\ pc \in {"scan", "rename", "count"}
    BY <1>11 DEF RestoreFails, RestoreSaveFails, WipeFails, Return, context, AnonSteps, SavedState
  <2>2. Image' = Image
    BY <2>1 DEF Image
  <2>3. ~diverged' => Matches(disk', Image')
    BY <2>1, <2>2, MatchesItself DEF SavedState
  <2>4. QED
    BY <1>2, <2>1, <2>3 DEF SavedState, AnonSteps
<1>12. CASE RestoreUnlink \/ RestoreRename
  <2>1. /\ UNCHANGED <<open, gen, mem, disk, diverged>> /\ pc \in {"scan", "rename"}
        /\ pc' \in {"rename", "count"}
    BY <1>12 DEF RestoreUnlink, RestoreRename, context
  <2>2. Image' = Image
    BY <2>1 DEF Image
  <2>3. QED
    BY <2>1, <2>2 DEF SavedState, AnonSteps
<1>18. CASE WipeSaved
  <2>1. disk' = Image' /\ pc' = "idle" /\ UNCHANGED <<open, gen>> /\ disk'.gen = gen
    BY <1>18 DEF WipeSaved, Return, Image, context
  <2>2. QED
    BY <1>18, <2>1, MatchesItself DEF SavedState, AnonSteps, WipeSaved
<1>13. CASE RestoreSaved
  <2>5. open /\ pc = "count"
    BY <1>13 DEF RestoreSaved, SavedState
  <2>1. /\ disk' = Image /\ pc' \in {"wipe", "idle"} /\ UNCHANGED open /\ open
        /\ \/ gen' = gen /\ mem' = mem
           \/ pc' = "wipe" /\ gen' = EmptyStore(gen.era + 1)
    BY <1>13, <2>5 DEF RestoreSaved, Return
  <2>2. pc' = "idle" => disk' = Image' /\ gen' = gen
    BY <2>1 DEF Image
  <2>3. SourcesOwned(gen') /\ SourcesOwned(disk'.gen)
    BY <1>2, <2>1, EmptyOwned DEF SavedState
  <2>4. QED
    BY <2>1, <2>2, <2>3, MatchesItself DEF SavedState, AnonSteps
<1>14. ASSUME NEW b \in BOOLEAN, SetSelfDestruct(b)
       PROVE  SavedState'
  <2>1. disk'.gen = disk.gen
    BY <1>14 DEF SetSelfDestruct, TypeOK, Images
  <2>2. QED
    BY <1>14, <2>1 DEF SetSelfDestruct, context, SavedState, AnonSteps
<1>15. CASE Purge \/ UpgradeEngine
  BY <1>15, EmptyOwned DEF Purge, UpgradeEngine, context, SavedState, AnonSteps
<1>16. QED
  BY <1>3, <1>4, <1>5, <1>6, <1>7, <1>8, <1>9, <1>10, <1>11, <1>12, <1>13, <1>14,
     <1>15, <1>17, <1>18 DEF Next

\* Every failure path of anonymize and restore leaves the process with what
\* the vault holds, except after a write reported failed that had taken place,
\* or a failed final save of a self-destruct.  The names of source files that
\* a failed run noted in older mappings are all it leaves behind.
THEOREM MemoryDisk == Spec => []MemoryMatchesDisk
<1>1. Init => SavedState
  BY EmptyOwned, MatchesItself DEF Init, SavedState, AnonSteps, Image
<1>2. TypeOK /\ SavedState /\ [Next]_vars => SavedState'
  <2>1. ASSUME SavedState, UNCHANGED vars
        PROVE  SavedState'
    <3>1. Image' = Image
      BY <2>1 DEF vars, Image
    <3>2. QED
      BY <2>1, <3>1 DEF vars, SavedState
  <2>2. QED
    BY <2>1, SavedStep
<1>3. SavedState => MemoryMatchesDisk
  BY DEF SavedState, MemoryMatchesDisk, Idle, Matches, Image
<1>4. QED
  BY <1>1, <1>2, <1>3, TypeCorrect, PTL DEF Spec

-----------------------------------------------------------------------------
(* Committed files stay restorable *)

BodyBacked(g, body) == \A i \in DOMAIN body : Backs(g, body[i])

\* The file of a run that returned.
Kept(p) == anon[p] # NoFile /\ anon[p].ok

\* CommittedRestorable between the steps of an operation: the registry backs
\* what a run has written so far, the snapshot it may roll back to still
\* backs every kept file, and no kept file is newer than the vault.
Backing ==
  /\ pc # "idle" => open
  /\ open => disk.gen.era <= gen.era
  /\ \A p \in Paths : Kept(p) =>
       /\ anon[p].era <= disk.gen.era
       /\ anon[p].era = disk.gen.era => BodyBacked(disk.gen, anon[p].body)
       /\ open /\ anon[p].era = gen.era => BodyBacked(gen, anon[p].body)
       /\ pc \in AnonSteps /\ anon[p].era = gen.era => BodyBacked(job.undo.gen, anon[p].body)
  /\ pc \in AnonSteps => job.undo.gen.era = gen.era /\ BodyBacked(gen, job.body)

\* A mapping that backs a piece survives every later registration.
LEMMA MintBacks ==
  ASSUME NEW g \in Stores, NEW item \in Items, NEW f \in Sources,
         NEW piece \in Pieces, Backs(g, piece)
  PROVE  Backs(Mint(g, item, f), piece)
<1> SUFFICES ASSUME piece.num # 0
             PROVE  Mint(g, item, f).num[KeyOf([ns |-> piece.ns, val |-> piece.val])] = piece.num
  BY DEF Backs
<1> DEFINE k == KeyOf([ns |-> piece.ns, val |-> piece.val])
<1>1. k \in Keys
  BY KeyOfType DEF Pieces, Items
<1>2. g.num[k] = piece.num
  BY DEF Backs
<1> HIDE DEF k
<1>3. Mint(g, item, f).num[k] = piece.num
  BY <1>1, <1>2, MintKeeps
<1>4. QED
  BY <1>3 DEF k

LEMMA MintBodyBacked ==
  ASSUME NEW g \in Stores, NEW item \in Items, NEW f \in Sources,
         NEW body \in Seq(Pieces), BodyBacked(g, body)
  PROVE  BodyBacked(Mint(g, item, f), body)
BY MintBacks, ElementOfSeq, LenProperties DEF BodyBacked

LEMMA BackingMint ==
  ASSUME TypeOK, Backing, MintNext
  PROVE  Backing'
<1> DEFINE item == Head(job.todo)
           hit == item.ns \in job.mode
           g == IF hit THEN Mint(gen, item, FileName[job.path]) ELSE gen
           piece == [ns |-> item.ns, val |-> item.val,
                     num |-> IF hit THEN g.num[KeyOf(item)] ELSE 0]
<1>1. pc = "mint" /\ job \in AnonJobs /\ gen \in Stores /\ job.body \in Seq(Pieces)
  BY DEF TypeOK, MintNext, AnonSteps, RestoreSteps, AnonJobs
<1>2. item \in Items /\ FileName[job.path] \in Sources
  BY <1>1, HeadTailProperties, PipelineAssumption DEF MintNext, AnonJobs
<1>3. /\ gen' = g
      /\ job' = [job EXCEPT !.todo = Tail(@), !.body = Append(@, piece)]
      /\ UNCHANGED <<open, disk, anon, pc>>
  BY DEF MintNext, files
<1>4. g.era = gen.era
  BY <1>1, <1>2, MintKeeps
<1>5. \A body \in Seq(Pieces) : BodyBacked(gen, body) => BodyBacked(g, body)
  BY <1>1, <1>2, MintBodyBacked
<1>6. Backs(g, piece)
  <2>1. CASE ~hit
    BY <2>1 DEF Backs
  <2>2. CASE hit
    <3>1. KeyOf([ns |-> piece.ns, val |-> piece.val]) = KeyOf(item)
      BY DEF KeyOf
    <3>2. QED
      BY <2>2, <3>1 DEF Backs
  <2>3. QED
    BY <2>1, <2>2
<1>7. piece \in Pieces
  <2>1. g \in Stores
    BY <1>1, <1>2, MintType
  <2>2. g.num[KeyOf(item)] \in Nat
    BY <1>2, <2>1, KeyOfType DEF Stores
  <2>3. QED
    BY <1>2, <2>2 DEF Pieces, Items
<1> HIDE DEF g, piece
<1>8. job'.undo = job.undo /\ job'.body = Append(job.body, piece)
  BY <1>1, <1>3 DEF AnonJobs
<1>9. BodyBacked(g, job'.body)
  <2>1. BodyBacked(g, job.body)
    BY <1>1, <1>5 DEF Backing, AnonSteps
  <2>2. /\ Len(Append(job.body, piece)) = Len(job.body) + 1
        /\ \A i \in 1..Len(job.body) : Append(job.body, piece)[i] = job.body[i]
        /\ Append(job.body, piece)[Len(job.body) + 1] = piece
        /\ DOMAIN Append(job.body, piece) = 1..(Len(job.body) + 1)
        /\ DOMAIN job.body = 1..Len(job.body) /\ Len(job.body) \in Nat
    BY <1>1, <1>7, AppendProperties, LenProperties
  <2>3. QED
    BY <1>6, <1>8, <2>1, <2>2 DEF BodyBacked
<1>10. \A p \in Paths : Kept(p) => anon[p].body \in Seq(Pieces)
  BY DEF TypeOK, Kept, AnonFiles
<1>11. QED
  BY <1>1, <1>3, <1>4, <1>5, <1>8, <1>9, <1>10 DEF Backing, Kept, AnonSteps

\* The steps of an anonymisation after the last registration.
LEMMA BackingAnonymize ==
  ASSUME TypeOK, Backing,
         \/ WriteOutput \/ HandlerFails \/ ReplayMismatch \/ AnonymizeSaved
         \/ \E landed \in BOOLEAN : AnonymizeSaveFails(landed)
  PROVE  Backing'
<1>1. pc \in AnonSteps /\ open
  BY DEF WriteOutput, HandlerFails, ReplayMismatch, AnonymizeSaved, AnonymizeSaveFails,
         AnonSteps, Backing
<1>2. /\ job.path \in Paths /\ job.undo.gen \in Stores /\ gen \in Stores
      /\ disk.gen \in Stores /\ anon \in [Paths -> AnonFiles \union {NoFile}]
  BY <1>1 DEF TypeOK, AnonSteps, RestoreSteps, AnonJobs, Images
<1>3. gen.era \in Nat /\ disk.gen.era \in Nat /\ job.undo.gen.era = gen.era
      /\ disk.gen.era <= gen.era
  BY <1>1, <1>2 DEF Stores, Backing
<1>0. RollBack => gen'.era = gen.era /\ gen'.num = job.undo.gen.num
  BY <1>2, <1>3, RolledBackKeeps DEF RollBack, SameCore
<1>12. ASSUME RollBack
       PROVE  \A body : BodyBacked(job.undo.gen, body) => BodyBacked(gen', body)
  BY <1>0, <1>12 DEF BodyBacked, Backs
<1>4. ~Output(FALSE).ok
  BY DEF Output
<1>5. BodyBacked(gen, job.body)
  BY <1>1 DEF Backing
<1>6. \A p \in Paths : Kept(p) => anon[p].era \in Nat
  BY <1>2 DEF Kept, AnonFiles
<1>7. CASE WriteOutput
  <2>1. \A p \in Paths : Kept(p)' => Kept(p) /\ anon'[p] = anon[p]
    BY <1>2, <1>4, <1>7 DEF WriteOutput, Kept
  <2>2. QED
    BY <1>1, <1>7, <2>1 DEF WriteOutput, context, Backing, AnonSteps
<1>8. CASE HandlerFails \/ ReplayMismatch
  <2>1. \A p \in Paths : Kept(p)' => Kept(p) /\ anon'[p] = anon[p]
    BY <1>2, <1>8 DEF HandlerFails, ReplayMismatch, files, Kept
  <2>2. RollBack /\ UNCHANGED <<open, disk>> /\ pc' = "idle"
    BY <1>8 DEF HandlerFails, ReplayMismatch, Return
  <2>3. QED
    BY <1>0, <1>1, <1>3, <1>12, <2>1, <2>2 DEF Backing, AnonSteps
<1>9. CASE AnonymizeSaved
  <2>1. \A p \in Paths : Kept(p)' =>
          \/ anon'[p].era = gen.era /\ anon'[p].body = job.body
          \/ Kept(p) /\ anon'[p] = anon[p]
    BY <1>2, <1>9 DEF AnonymizeSaved, Kept, Output
  <2>2. disk'.gen = gen /\ gen' = gen /\ open' = open /\ pc' = "idle"
    BY <1>9 DEF AnonymizeSaved, Return
  <2>3. ASSUME NEW p \in Paths, Kept(p)'
        PROVE  /\ anon'[p].era <= gen.era
               /\ anon'[p].era = gen.era => BodyBacked(gen, anon'[p].body)
    <3>1. CASE anon'[p].era = gen.era /\ anon'[p].body = job.body
      BY <1>3, <1>5, <3>1
    <3>2. CASE Kept(p) /\ anon'[p] = anon[p]
      BY <1>1, <1>3, <1>6, <3>2 DEF Backing
    <3>3. QED
      BY <2>1, <2>3, <3>1, <3>2
  <2>4. QED
    BY <1>1, <1>3, <2>2, <2>3 DEF Backing, AnonSteps
<1>10. ASSUME NEW landed \in BOOLEAN, AnonymizeSaveFails(landed)
       PROVE  Backing'
  <2>1. \A p \in Paths : Kept(p)' => Kept(p) /\ anon'[p] = anon[p]
    BY <1>2, <1>10 DEF AnonymizeSaveFails, Kept
  <2>2. /\ disk'.gen = gen \/ disk' = disk
        /\ RollBack /\ open' = open /\ pc' = "idle"
    BY <1>10 DEF AnonymizeSaveFails, Return
  <2>3. QED
    BY <1>0, <1>1, <1>3, <1>6, <1>12, <2>1, <2>2 DEF Backing, AnonSteps
<1>11. QED
  BY <1>7, <1>8, <1>9, <1>10

LEMMA BackingStep ==
  ASSUME TypeOK, Backing, Next
  PROVE  Backing'
<1>1. /\ gen \in Stores /\ disk.gen \in Stores
      /\ gen.era \in Nat /\ disk.gen.era \in Nat
  BY DEF TypeOK, Images, Stores
<1>2. \A era \in Nat : EmptyStore(era).era = era
  BY DEF EmptyStore
<1>3. \A p \in Paths : Kept(p) => anon[p].era \in Nat
  BY DEF TypeOK, Kept, AnonFiles
<1>4. Image.gen = gen
  BY DEF Image
<1>5. CASE Open
  BY <1>1, <1>5 DEF Open, files, Backing, Kept, AnonSteps
<1>6. CASE Exit
  BY <1>1, <1>6 DEF Exit, Return, files, Backing, Kept, AnonSteps
<1>7. ASSUME NEW p \in Paths, NEW r \in Requests,
             BeginAnonymize(p, r.text, r.mode, r.force)
      PROVE  Backing'
  <2>1. job'.undo.gen = gen /\ job'.body = <<>>
    BY <1>4, <1>7 DEF BeginAnonymize
  <2>2. BodyBacked(gen, <<>>)
    BY DEF BodyBacked
  <2>3. QED
    BY <1>7, <2>1, <2>2 DEF BeginAnonymize, context, files, Backing, Kept, AnonSteps
<1>8. CASE MintNext
  BY <1>8, BackingMint
<1>9. CASE \/ WriteOutput \/ HandlerFails \/ ReplayMismatch \/ AnonymizeSaved
           \/ \E landed \in BOOLEAN : AnonymizeSaveFails(landed)
  BY <1>9, BackingAnonymize
<1>10. ASSUME NEW p \in Paths, BeginRestore(p)
       PROVE  Backing'
  BY <1>10 DEF BeginRestore, context, files, Backing, Kept, AnonSteps
<1>11. ASSUME NEW landed \in BOOLEAN,
              RestoreFails(landed) \/ RestoreSaveFails(landed) \/ WipeFails(landed)
       PROVE  Backing'
  BY <1>1, <1>3, <1>4, <1>11
     DEF RestoreFails, RestoreSaveFails, WipeFails, Return, context, files, Backing,
         Kept, AnonSteps
<1>12. CASE RestoreUnlink \/ RestoreRename
  BY <1>12 DEF RestoreUnlink, RestoreRename, context, Backing, Kept, AnonSteps
<1>13. CASE WipeSaved
  BY <1>1, <1>3, <1>4, <1>13 DEF WipeSaved, Return, context, files, Backing, Kept, AnonSteps
<1>14. CASE RestoreSaved
  <2>1. open /\ open' /\ UNCHANGED anon /\ disk'.gen = gen /\ pc' \notin AnonSteps
    BY <1>4, <1>14 DEF RestoreSaved, Return, files, Backing, AnonSteps
  <2>2. gen' = gen \/ gen' = EmptyStore(gen.era + 1)
    BY <1>14 DEF RestoreSaved
  <2>3. gen' = gen \/ gen'.era = gen.era + 1
    BY <1>1, <1>2, <2>2
  <2>4. \A p \in Paths : Kept(p)' => Kept(p) /\ anon'[p] = anon[p]
    BY <2>1 DEF Kept
  <2>5. QED
    BY <1>1, <1>3, <2>1, <2>3, <2>4 DEF Backing
<1>15. ASSUME NEW b \in BOOLEAN, SetSelfDestruct(b)
       PROVE  Backing'
  <2>1. disk'.gen = disk.gen
    BY <1>15 DEF SetSelfDestruct, TypeOK, Images
  <2>2. QED
    BY <1>15, <2>1 DEF SetSelfDestruct, context, files, Backing, Kept, AnonSteps
<1>16. CASE Purge
  <2>1. disk'.gen.era = disk.gen.era + 1
    BY <1>1, <1>2, <1>16 DEF Purge
  <2>2. QED
    BY <1>1, <1>3, <1>16, <2>1 DEF Purge, context, files, Backing, Kept, AnonSteps
<1>17. CASE UpgradeEngine
  BY <1>17 DEF UpgradeEngine, context, files, Backing, Kept, AnonSteps
<1>18. QED
  BY <1>5, <1>6, <1>7, <1>8, <1>9, <1>10, <1>11, <1>12, <1>13, <1>14, <1>15, <1>16,
     <1>17 DEF Next

LEMMA BackingAlways == Spec => []Backing
<1>1. Init => Backing
  BY DEF Init, Backing, Kept, AnonSteps
<1>2. TypeOK /\ Backing /\ [Next]_vars => Backing'
  BY BackingStep DEF vars, Backing, Kept
<1>3. QED
  BY <1>1, <1>2, TypeCorrect, PTL DEF Spec

\* The newest of these records on a path recorded this output.
LastRecord(recs, p, body) ==
  \E i \in DOMAIN recs :
    /\ recs[i].path = p /\ recs[i].out = body
    /\ \A j \in DOMAIN recs : recs[j].path = p => j <= i

\* What a restore expects in a kept file is what its run wrote.
Recorded ==
  \A p \in Paths : Kept(p) =>
    /\ anon[p].era = disk.gen.era => LastRecord(disk.mem.recs, p, anon[p].body)
    /\ open /\ anon[p].era = gen.era => LastRecord(mem.recs, p, anon[p].body)

LEMMA CommittedLast ==
  ASSUME TypeOK, pc \in AnonSteps
  PROVE  /\ LastRecord(Committed.recs, job.path, job.body)
         /\ \A p \in Paths : \A body : p # job.path /\ LastRecord(mem.recs, p, body)
              => LastRecord(Committed.recs, p, body)
<1> DEFINE recs == mem.recs
           rec == [path |-> job.path, text |-> job.text, out |-> job.body,
                   model |-> engine, override |-> job.force]
           n == Len(recs)
           new == Committed.recs
<1>1. job \in AnonJobs /\ recs \in Seq(Records) /\ engine \in Models
  BY DEF TypeOK, AnonSteps, RestoreSteps, VaultRest
<1>2. rec \in Records /\ rec.path = job.path /\ rec.out = job.body
  BY <1>1 DEF Records, AnonJobs
<1>3. new = Append(recs, rec)
  BY DEF Committed
<1> HIDE DEF rec, new
<1>4. /\ n \in Nat /\ DOMAIN recs = 1..n /\ DOMAIN new = 1..(n + 1)
      /\ \A i \in 1..n : new[i] = recs[i]
      /\ new[n + 1] = rec
  BY <1>1, <1>2, <1>3, LenProperties, AppendProperties
<1> HIDE DEF n, recs
<1>5. LastRecord(new, job.path, job.body)
  <2>1. n + 1 \in DOMAIN new /\ new[n + 1].path = job.path /\ new[n + 1].out = job.body
    BY <1>2, <1>4
  <2>2. \A j \in DOMAIN new : j <= n + 1
    BY <1>4
  <2>3. QED
    BY <2>1, <2>2 DEF LastRecord
<1>6. ASSUME NEW p \in Paths, NEW body, p # job.path, LastRecord(recs, p, body)
      PROVE  LastRecord(new, p, body)
  <2>1. PICK i \in DOMAIN recs :
          /\ recs[i].path = p /\ recs[i].out = body
          /\ \A j \in DOMAIN recs : recs[j].path = p => j <= i
    BY <1>6 DEF LastRecord
  <2>2. i \in DOMAIN new /\ new[i].path = p /\ new[i].out = body
    BY <1>4, <2>1
  <2>3. ASSUME NEW j \in DOMAIN new, new[j].path = p
        PROVE  j <= i
    <3>1. j # n + 1
      BY <1>2, <1>4, <1>6, <2>3
    <3>2. j \in 1..n
      BY <1>4, <2>3, <3>1
    <3>3. QED
      BY <1>4, <2>1, <2>3, <3>2
  <2>4. QED
    BY <2>2, <2>3 DEF LastRecord
<1>7. QED
  BY <1>5, <1>6 DEF new, recs

LEMMA RecordedStep ==
  ASSUME TypeOK, SavedState, Backing, Recorded, Next
  PROVE  Recorded'
<1>1. /\ gen \in Stores /\ disk.gen \in Stores /\ gen.era \in Nat /\ disk.gen.era \in Nat
      /\ anon \in [Paths -> AnonFiles \union {NoFile}]
  BY DEF TypeOK, Images, Stores
<1>2. \A p \in Paths : Kept(p) => anon[p].era \in Nat /\ anon[p].era <= disk.gen.era
  BY DEF TypeOK, Kept, AnonFiles, Backing
<1>3. \A era \in Nat : EmptyStore(era).era = era
  BY DEF EmptyStore
<1>4. Image.gen = gen /\ Image.mem = mem
  BY DEF Image
<1>5. open => disk.gen.era <= gen.era
  BY DEF Backing
<1>6. pc # "idle" => open
  BY DEF SavedState
\* A step that keeps the kept files' records of memory and disk together with
\* the eras they belong to.
<1>7. ASSUME \A p \in Paths : Kept(p)' => Kept(p) /\ anon'[p] = anon[p],
             \/ disk'.gen.era = disk.gen.era /\ disk'.mem.recs = disk.mem.recs
             \/ open /\ disk'.gen.era = gen.era /\ disk'.mem.recs = mem.recs,
             open' => \/ open /\ gen'.era = gen.era /\ mem'.recs = mem.recs
                      \/ gen'.era = disk.gen.era /\ mem'.recs = disk.mem.recs
                      \/ open /\ gen'.era = gen.era + 1
      PROVE  Recorded'
  <2> SUFFICES ASSUME NEW p \in Paths, Kept(p)'
               PROVE  /\ anon'[p].era = disk'.gen.era =>
                           LastRecord(disk'.mem.recs, p, anon'[p].body)
                      /\ open' /\ anon'[p].era = gen'.era =>
                           LastRecord(mem'.recs, p, anon'[p].body)
    BY DEF Recorded, LastRecord
  <2>1. Kept(p) /\ anon'[p] = anon[p]
    BY <1>7
  <2>2. anon[p].era \in Nat /\ anon[p].era <= disk.gen.era
    BY <1>2, <2>1
  <2>3. ASSUME anon'[p].era = disk'.gen.era
        PROVE  LastRecord(disk'.mem.recs, p, anon'[p].body)
    BY <1>7, <2>1, <2>3 DEF Recorded
  <2>4. ASSUME open', anon'[p].era = gen'.era
        PROVE  LastRecord(mem'.recs, p, anon'[p].body)
    <3>1. CASE open /\ gen'.era = gen.era + 1
      BY <1>1, <1>5, <2>1, <2>2, <2>4, <3>1
    <3>2. CASE open /\ gen'.era = gen.era /\ mem'.recs = mem.recs
      BY <2>1, <2>4, <3>2 DEF Recorded
    <3>3. CASE gen'.era = disk.gen.era /\ mem'.recs = disk.mem.recs
      BY <2>1, <2>4, <3>3 DEF Recorded
    <3>4. QED
      BY <1>7, <2>4, <3>1, <3>2, <3>3
  <2>5. QED
    BY <2>3, <2>4
<1>8. UNCHANGED anon => \A p \in Paths : Kept(p)' => Kept(p) /\ anon'[p] = anon[p]
  BY DEF Kept
<1>9. pc \in AnonSteps =>
        /\ job.path \in Paths /\ mem = job.undo.mem /\ job.undo.gen.era = gen.era
        /\ job.undo.gen \in Stores
  BY DEF TypeOK, AnonSteps, RestoreSteps, AnonJobs, Images, SavedState, Backing
<1>10. pc \in AnonSteps /\ RollBack => gen'.era = gen.era
  BY <1>1, <1>9, RolledBackKeeps DEF RollBack, SameCore
<1>11. CASE Open \/ Exit
  BY <1>7, <1>8, <1>11 DEF Open, Exit, Return, files
<1>12. ASSUME NEW p \in Paths, NEW r \in Requests, BeginAnonymize(p, r.text, r.mode, r.force)
       PROVE  Recorded'
  BY <1>7, <1>8, <1>12 DEF BeginAnonymize, context, files
<1>13. CASE MintNext
  <2>1. job \in AnonJobs /\ pc = "mint"
    BY <1>13 DEF MintNext, TypeOK, AnonSteps, RestoreSteps
  <2>2. Head(job.todo) \in Items /\ FileName[job.path] \in Sources
    BY <1>13, <2>1, HeadTailProperties, PipelineAssumption DEF MintNext, AnonJobs
  <2>3. gen'.era = gen.era
    BY <1>1, <1>13, <2>2, MintKeeps DEF MintNext
  <2>4. UNCHANGED <<open, mem, disk, anon>> /\ open
    BY <1>6, <1>13, <2>1 DEF MintNext, files
  <2>5. QED
    BY <1>7, <1>8, <2>3, <2>4
<1>14. CASE WriteOutput
  <2>1. \A p \in Paths : Kept(p)' => Kept(p) /\ anon'[p] = anon[p]
    BY <1>1, <1>9, <1>14 DEF WriteOutput, Kept, Output, AnonSteps
  <2>2. UNCHANGED <<open, gen, mem, disk>> /\ open
    BY <1>6, <1>14 DEF WriteOutput, context
  <2>3. QED
    BY <1>7, <2>1, <2>2
<1>15. CASE HandlerFails \/ ReplayMismatch
  <2>1. \A p \in Paths : Kept(p)' => Kept(p) /\ anon'[p] = anon[p]
    BY <1>1, <1>9, <1>15 DEF HandlerFails, ReplayMismatch, files, Kept, AnonSteps
  <2>2. pc \in AnonSteps /\ RollBack /\ UNCHANGED <<open, mem, disk>> /\ open
    BY <1>6, <1>15 DEF HandlerFails, ReplayMismatch, AnonSteps
  <2>3. QED
    BY <1>7, <1>10, <2>1, <2>2
<1>16. CASE AnonymizeSaved
  <2>1. /\ pc \in AnonSteps /\ open /\ open' /\ gen' = gen /\ mem' = Committed
        /\ disk'.gen = gen /\ disk'.mem = Committed
    BY <1>6, <1>16 DEF AnonymizeSaved, AnonSteps
  <2> SUFFICES ASSUME NEW p \in Paths, Kept(p)', anon'[p].era = gen.era
               PROVE  LastRecord(Committed.recs, p, anon'[p].body)
    BY <2>1 DEF Recorded, LastRecord
  <2>2. CASE p = job.path
    <3>1. anon'[p].body = job.body
      BY <1>1, <1>16, <2>2 DEF AnonymizeSaved, Output
    <3>2. QED
      BY <2>1, <2>2, <3>1, CommittedLast
  <2>3. CASE p # job.path
    <3>1. Kept(p) /\ anon'[p] = anon[p]
      BY <1>1, <1>16, <2>3 DEF AnonymizeSaved, Kept
    <3>2. LastRecord(mem.recs, p, anon[p].body)
      BY <2>1, <3>1 DEF Recorded
    <3>3. QED
      BY <2>1, <2>3, <3>1, <3>2, CommittedLast
  <2>4. QED
    BY <2>2, <2>3
<1>17. ASSUME NEW landed \in BOOLEAN, AnonymizeSaveFails(landed)
       PROVE  Recorded'
  <2>7. pc \in AnonSteps /\ open
    BY <1>6, <1>17 DEF AnonymizeSaveFails, AnonSteps
  <2>8. open' /\ RollBack /\ mem' = mem
    BY <1>9, <1>17, <2>7 DEF AnonymizeSaveFails
  <2>9. disk' = disk \/ (disk'.gen = gen /\ disk'.mem = Committed)
    BY <1>17 DEF AnonymizeSaveFails
  <2>1. /\ pc \in AnonSteps /\ open /\ open' /\ RollBack /\ mem' = mem
        /\ disk' = disk \/ (disk'.gen = gen /\ disk'.mem = Committed)
    BY <2>7, <2>8, <2>9
  <2>2. \A p \in Paths : Kept(p)' => Kept(p) /\ anon'[p] = anon[p] /\ p # job.path
    BY <1>1, <1>17 DEF AnonymizeSaveFails, Kept
  <2>3. gen'.era = gen.era
    BY <1>10, <2>1
  <2>4. CASE disk' = disk
    BY <1>7, <2>1, <2>2, <2>3, <2>4
  <2>5. CASE disk'.gen = gen /\ disk'.mem = Committed
    <3> SUFFICES ASSUME NEW p \in Paths, Kept(p)', anon'[p].era = gen.era
                 PROVE  /\ LastRecord(Committed.recs, p, anon'[p].body)
                        /\ LastRecord(mem.recs, p, anon'[p].body)
      BY <2>1, <2>3, <2>5 DEF Recorded, LastRecord
    <3>1. LastRecord(mem.recs, p, anon[p].body)
      BY <2>1, <2>2 DEF Recorded
    <3>2. QED
      BY <2>1, <2>2, <3>1, CommittedLast
  <2>6. QED
    BY <2>1, <2>4, <2>5
<1>18. ASSUME NEW p \in Paths, BeginRestore(p)
       PROVE  Recorded'
  BY <1>7, <1>8, <1>18 DEF BeginRestore, context, files
<1>19. ASSUME NEW landed \in BOOLEAN,
              RestoreFails(landed) \/ RestoreSaveFails(landed) \/ WipeFails(landed)
       PROVE  Recorded'
  <2>1. /\ UNCHANGED <<open, gen, mem, anon>> /\ open
        /\ disk' = Image \/ disk' = disk
    BY <1>6, <1>19 DEF RestoreFails, RestoreSaveFails, WipeFails, context, files
  <2>2. QED
    BY <1>4, <1>7, <1>8, <2>1
<1>20. CASE RestoreUnlink \/ RestoreRename \/ WipeSaved
  <2>1. /\ UNCHANGED <<open, gen, mem, anon>> /\ open
        /\ disk' = Image \/ disk' = disk
    BY <1>6, <1>20 DEF RestoreUnlink, RestoreRename, WipeSaved, context, files
  <2>2. QED
    BY <1>4, <1>7, <1>8, <2>1
<1>21. CASE RestoreSaved
  <2>1. /\ UNCHANGED <<open, anon>> /\ open /\ disk' = Image
        /\ \/ gen' = gen /\ mem' = mem
           \/ gen' = EmptyStore(gen.era + 1)
    BY <1>6, <1>21 DEF RestoreSaved, files
  <2>2. gen.era + 1 \in Nat
    BY <1>1
  <2>3. (gen' = gen /\ mem' = mem) \/ gen'.era = gen.era + 1
    BY <1>3, <2>1, <2>2
  <2>4. QED
    BY <1>4, <1>7, <1>8, <2>1, <2>3
<1>22. ASSUME NEW b \in BOOLEAN, SetSelfDestruct(b)
       PROVE  Recorded'
  <2>1. disk'.gen = disk.gen /\ disk'.mem.recs = disk.mem.recs
    BY <1>22 DEF SetSelfDestruct, TypeOK, Images, VaultRest
  <2>2. UNCHANGED <<open, gen, mem, anon>>
    BY <1>22 DEF SetSelfDestruct, context, files
  <2>3. QED
    BY <1>7, <1>8, <2>1, <2>2
<1>23. CASE Purge
  <2>1. disk'.gen.era = disk.gen.era + 1 /\ ~open /\ UNCHANGED <<open, anon>>
    BY <1>1, <1>3, <1>23 DEF Purge, context, files
  <2>2. ASSUME NEW p \in Paths, Kept(p)'
        PROVE  anon'[p].era # disk'.gen.era
    BY <1>1, <1>2, <1>8, <2>1, <2>2
  <2>3. QED
    BY <2>1, <2>2 DEF Recorded
<1>24. CASE UpgradeEngine
  BY <1>7, <1>8, <1>24 DEF UpgradeEngine, context, files
<1>25. QED
  BY <1>11, <1>12, <1>13, <1>14, <1>15, <1>16, <1>17, <1>18, <1>19, <1>20, <1>21, <1>22,
     <1>23, <1>24 DEF Next

\* A restore from a vault that backs the file's tokens and whose newest
\* record on it is of this output passes its checks.
LEMMA RestorableIf ==
  ASSUME TypeOK, NEW p \in Paths, Kept(p), Legible(p), NEW image \in Images,
         BodyBacked(image.gen, anon[p].body),
         LastRecord(image.mem.recs, p, anon[p].body)
  PROVE  RestorableFrom(image, p)
<1> DEFINE body == anon[p].body
           recs == image.mem.recs
           g == image.gen
<1>1. body \in Seq(Pieces) /\ recs \in Seq(Records) /\ g \in Stores
  BY DEF TypeOK, Kept, AnonFiles, Images, VaultRest
<1>2. \A i \in DOMAIN body : body[i] \in Pieces /\ body[i].num \in Nat
  <2>1. ASSUME NEW i \in DOMAIN body
        PROVE  body[i] \in Pieces
    BY <1>1, LenProperties, ElementOfSeq
  <2>2. QED
    BY <2>1 DEF Pieces
<1>3. SeenTexts(body) \subseteq KnownTexts(g)
  <2> SUFFICES ASSUME NEW i \in DOMAIN body, Recognised(body[i])
               PROVE  TokenText(body[i].ns, body[i].num) \in KnownTexts(g)
    BY DEF SeenTexts
  <2> DEFINE k == KeyOf([ns |-> body[i].ns, val |-> body[i].val])
  <2>1. body[i].num # 0
    BY StoreAssumption DEF Recognised
  <2>2. g.num[k] = body[i].num
    BY <2>1 DEF BodyBacked, Backs
  <2>3. k \in Keys /\ k[1] = body[i].ns
    BY <1>2, KeyOfType DEF Pieces, Items
  <2> HIDE DEF k
  <2>4. k \in Registered(g) /\ TokenText(k[1], g.num[k]) = TokenText(body[i].ns, body[i].num)
    BY <2>1, <2>2, <2>3 DEF Registered
  <2>5. QED
    BY <2>4 DEF KnownTexts
<1>4. AppliedTexts(body) \subseteq SeenTexts(body)
  <2> SUFFICES ASSUME NEW i \in DOMAIN body, body[i].num # 0
               PROVE  Recognised(body[i])
    BY DEF AppliedTexts, SeenTexts
  <2>1. body[i].num <= MaxNumber /\ body[i].num \in Nat
    BY <1>2 DEF Legible
  <2>2. QED
    BY <2>1, StoreAssumption DEF Recognised
<1>5. ExpectedTexts(image.mem, p) \subseteq AppliedTexts(body)
  <2>1. PICK i \in DOMAIN recs :
          /\ recs[i].path = p /\ recs[i].out = body
          /\ \A j \in DOMAIN recs : recs[j].path = p => j <= i
    BY DEF LastRecord
  <2> DEFINE S == {j \in DOMAIN recs : recs[j].path = p}
  <2>2. ASSUME NEW m \in Newest(S)
        PROVE  m = i
    <3>1. m \in S /\ i \in S /\ i <= m
      BY <2>1, <2>2 DEF Newest
    <3>2. DOMAIN recs = 1..Len(recs) /\ Len(recs) \in Nat
      BY <1>1, LenProperties
    <3>3. m <= i /\ m \in Nat /\ i \in Nat
      BY <2>1, <3>1, <3>2
    <3>4. QED
      BY <3>1, <3>3
  <2>3. \A m \in Newest(S) : AppliedTexts(recs[m].out) = AppliedTexts(body)
    BY <2>1, <2>2
  <2>4. QED
    BY <2>3 DEF ExpectedTexts
<1>6. \A i \in DOMAIN body : Backs(g, body[i])
  BY DEF BodyBacked
<1>7. QED
  BY <1>3, <1>4, <1>5, <1>6 DEF RestorableFrom, NoAnomaly

\* A file whose run returned stays restorable: later runs, their failures
\* and rollbacks, failed saves, kills and reloads never take from the vault a
\* mapping that one of its tokens needs, nor the record that tells which
\* tokens to expect; only a purge or a self-destruct does.  The token numbers
\* have to be within the five digits the patterns match: SixDigits.cfg shows
\* what happens beyond.
THEOREM Restorable == Spec => []CommittedRestorable
<1>1. Init => Recorded /\ SavedState
  BY EmptyOwned, MatchesItself DEF Init, Recorded, Kept, SavedState, AnonSteps, Image
<1>2. TypeOK /\ Backing /\ SavedState /\ Recorded /\ [Next]_vars => Recorded' /\ SavedState'
  <2>1. ASSUME SavedState, Recorded, UNCHANGED vars
        PROVE  Recorded' /\ SavedState'
    <3>1. Image' = Image
      BY <2>1 DEF vars, Image
    <3>2. QED
      BY <2>1, <3>1 DEF vars, SavedState, Recorded, Kept
  <2>2. QED
    BY <2>1, SavedStep, RecordedStep
<1>3. TypeOK /\ Backing /\ Recorded => CommittedRestorable
  <2> SUFFICES ASSUME TypeOK, Backing, Recorded, NEW p \in Paths, Kept(p), Legible(p)
               PROVE  StaysRestorable(p)
    BY DEF CommittedRestorable, Kept
  <2>1. disk \in Images /\ Image \in Images /\ Image.gen = gen /\ Image.mem = mem
    BY ImageType DEF TypeOK, Image
  <2>2. anon[p].era = disk.gen.era => RestorableFrom(disk, p)
    BY <2>1, RestorableIf DEF Backing, Recorded
  <2>3. open /\ anon[p].era = gen.era => RestorableFrom(Image, p)
    BY <2>1, RestorableIf DEF Backing, Recorded
  <2>4. QED
    BY <2>2, <2>3 DEF StaysRestorable
<1>4. QED
  BY <1>1, <1>2, <1>3, TypeCorrect, BackingAlways, PTL DEF Spec

-----------------------------------------------------------------------------
(* Restores never write a wrong value *)

\* NeverWrongValue from the moment the text is restored.
RightBack ==
  pc \in RestoreSteps /\ job.back.vouched =>
    \A i \in DOMAIN job.back.body :
      LET r == job.back.body[i]
      IN  r.got # NoValue =>
            Norm[r.ns][r.got] = Norm[r.ns][r.want]

LEMMA BeginRestoreRight ==
  ASSUME PrefixesInjective, TypeOK, TokensDistinct, Backing,
         NEW p \in Paths, BeginRestore(p)
  PROVE  RightBack'
<1> DEFINE file == anon[p]
           body == [i \in DOMAIN file.body |-> RestorePiece(gen, file.body[i])]
<1>1. file \in AnonFiles /\ file.body \in Seq(Pieces) /\ open
  BY DEF BeginRestore, TypeOK, AnonFiles
<1>2. job'.back = [body |-> body, vouched |-> file.ok /\ file.era = gen.era]
  BY DEF BeginRestore
<1>3. ASSUME file.ok, file.era = gen.era, NEW i \in DOMAIN file.body,
             body[i].got # NoValue
      PROVE  Norm[body[i].ns][body[i].got] = Norm[body[i].ns][body[i].want]
  <2>1. Kept(p)
    BY <1>3 DEF BeginRestore, Kept
  <2>2. Backs(gen, file.body[i])
    BY <1>1, <1>3, <2>1 DEF Backing, BodyBacked
  <2>3. file.body[i] \in Pieces
    BY <1>1, ElementOfSeq, LenProperties
  <2>4. /\ body[i] = RestorePiece(gen, file.body[i])
        /\ body[i].ns = file.body[i].ns /\ body[i].want = file.body[i].val
    BY DEF RestorePiece
  <2>6. gen \in Stores /\ StoreOK(gen)
    BY DEF TokensDistinct, TypeOK
  <2>7. RestorePiece(gen, file.body[i]).got # NoValue
    BY <1>3, <2>4
  <2>8. Norm[file.body[i].ns][RestorePiece(gen, file.body[i]).got]
          = Norm[file.body[i].ns][file.body[i].val]
    BY <2>2, <2>3, <2>6, <2>7, RestorePieceRight
  <2>5. QED
    BY <2>4, <2>8
<1>4. DOMAIN body = DOMAIN file.body
  OBVIOUS
<1>5. job'.back.body = body /\ (job'.back.vouched => file.ok /\ file.era = gen.era)
  <2>1. job'.back.vouched <=> file.ok /\ file.era = gen.era
    <3>1. [body |-> body, vouched |-> file.ok /\ file.era = gen.era].vouched
            <=> file.ok /\ file.era = gen.era
      BY Zenon
    <3>2. QED
      BY <1>2, <3>1, Zenon
  <2>2. job'.back.body = body
    BY <1>2
  <2>3. QED
    BY <2>1, <2>2, Zenon
<1> HIDE DEF body
<1>6. QED
  BY <1>3, <1>4, <1>5 DEF RightBack

LEMMA RightStep ==
  ASSUME PrefixesInjective, TypeOK, TokensDistinct, Backing, RightBack, Next
  PROVE  RightBack'
<1>1. ASSUME NEW p \in Paths, BeginRestore(p)
      PROVE  RightBack'
  BY <1>1, BeginRestoreRight
<1>2. CASE RestoreUnlink \/ RestoreRename
  BY <1>2 DEF RestoreUnlink, RestoreRename, RightBack, RestoreSteps
<1>3. CASE RestoreSaved
  BY <1>3 DEF RestoreSaved, Return, RightBack, RestoreSteps
<1>4. ASSUME ~\E p \in Paths : BeginRestore(p),
             ~(RestoreUnlink \/ RestoreRename \/ RestoreSaved)
      PROVE  pc' \notin RestoreSteps \/ (pc' = pc /\ job' = job)
  BY <1>4 DEF Next, Open, Exit, BeginAnonymize, MintNext, WriteOutput, HandlerFails,
     ReplayMismatch, AnonymizeSaved, AnonymizeSaveFails, RestoreFails, RestoreSaveFails,
     WipeSaved, WipeFails, SetSelfDestruct, Purge, UpgradeEngine, Return, RestoreSteps
<1>5. CASE pc' \notin RestoreSteps
  BY <1>5 DEF RightBack
<1>6. CASE pc' = pc /\ job' = job
  BY <1>6 DEF RightBack
<1>7. QED
  BY <1>1, <1>2, <1>3, <1>4, <1>5, <1>6

\* When the namespaces' prefixes differ, restoring a file whose run returned,
\* under the registry that run used, never puts another value for a token.
\* ColumnCollision.cfg shows that the condition on the prefixes is needed.
THEOREM NeverWrong ==
  ASSUME PrefixesInjective
  PROVE  Spec => []NeverWrongValue
<1>1. Init => Backing /\ RightBack
  BY DEF Init, Backing, RightBack, Kept, AnonSteps, RestoreSteps
<1>2. TypeOK /\ Backing /\ [Next]_vars => Backing'
  BY BackingStep DEF vars, Backing, Kept
<1>3. TypeOK /\ TokensDistinct /\ Backing /\ RightBack /\ [Next]_vars => RightBack'
  BY RightStep DEF vars, RightBack
<1>4. RightBack => NeverWrongValue
  BY DEF RightBack, NeverWrongValue, Delivered, RestoreSteps
<1>5. QED
  BY <1>1, <1>2, <1>3, <1>4, TypeCorrect, Distinct, PTL DEF Spec

-----------------------------------------------------------------------------
(* Detection is version locked, and runs replay *)

\* ModelSwitchesMarked and ReplayStable of any vault data, and what the model
\* lock is there for.
SwitchesMarked(recs) ==
  \A i \in 2..Len(recs) : recs[i].model # recs[i - 1].model => recs[i].override
Same(a, b) == a.path = b.path /\ a.text = b.text
Replayed(recs) ==
  \A i, j \in DOMAIN recs :
    i < j /\ Same(recs[i], recs[j]) /\ ~recs[j].override =>
      \E k \in i..(j - 1) : Same(recs[k], recs[j]) /\ recs[k].out = recs[j].out
LockedToLast(rest) == rest.recs # <<>> => rest.lock = rest.recs[Len(rest.recs)].model
Governed(rest) == SwitchesMarked(rest.recs) /\ Replayed(rest.recs) /\ LockedToLast(rest)

\* What the checks at the beginning of a run leave true until it saves.
Checked ==
  pc \in AnonSteps =>
    /\ ~job.force => mem.lock \in {NoModel, engine}
    /\ \A i \in DOMAIN mem.recs : Same(mem.recs[i], job) =>
         \E k \in i..Len(mem.recs) : Same(mem.recs[k], job) /\ job.want = mem.recs[k].out
RunsGoverned == Governed(mem) /\ Governed(disk.mem) /\ Checked

\* The least of a set of numbers, and from it the newest of a set of indices.
Below == OpToRel(<, Nat)

LEMMA LeastExists ==
  ASSUME NEW S, S \subseteq Nat, S # {}
  PROVE  \E x \in S : \A y \in S : x <= y
<1>1. IsWellFoundedOn(Below, Nat)
  BY NatLessThanWellFounded DEF Below
<1>2. \A x, y \in Nat : x < y => <<x, y>> \in Below
  BY DEF Below, OpToRel
<1>3. PICK x \in S : \A y \in S : <<y, x>> \notin Below
  BY <1>1, WFMin
<1>4. ASSUME NEW y \in S
      PROVE  x <= y
  <2>1. x \in Nat /\ y \in Nat /\ ~(y < x)
    BY <1>2, <1>3
  <2>2. QED
    BY <2>1
<1>5. QED
  BY <1>4

LEMMA NewestExists ==
  ASSUME NEW n \in Nat, NEW S, S \subseteq 1..n, S # {}
  PROVE  Newest(S) # {}
<1> DEFINE T == {n - i : i \in S}
<1>1. T \subseteq Nat /\ T # {}
  <2>1. \A i \in S : i \in 1..n /\ n - i \in Nat
    OBVIOUS
  <2>2. QED
    BY <2>1
<1> HIDE DEF T
<1>2. PICK x \in T : \A y \in T : x <= y
  BY <1>1, LeastExists
<1>3. PICK i \in S : x = n - i
  BY DEF T
<1>4. \A j \in S : n - j \in T
  BY DEF T
<1>5. ASSUME NEW j \in S
      PROVE  j <= i
  <2>1. x <= n - j /\ i \in Nat /\ j \in Nat
    BY <1>2, <1>4
  <2>2. QED
    BY <1>3, <2>1
<1>6. i \in Newest(S)
  BY <1>5 DEF Newest
<1>7. QED
  BY <1>6

LEMMA BlankGoverned ==
  ASSUME NEW rest, rest.recs = <<>>
  PROVE  Governed(rest)
<1>1. Len(rest.recs) = 0 /\ DOMAIN rest.recs = {}
  OBVIOUS
<1>2. QED
  BY <1>1 DEF Governed, SwitchesMarked, Replayed, LockedToLast

\* The record that a run adds.
LEMMA CommittedGoverned ==
  ASSUME TypeOK, Governed(mem), Checked, pc \in AnonSteps, ReplayHolds
  PROVE  Governed(Committed)
<1> DEFINE recs == mem.recs
           rec == [path |-> job.path, text |-> job.text, out |-> job.body,
                   model |-> engine, override |-> job.force]
           n == Len(recs)
           new == Committed.recs
<1>1. job \in AnonJobs /\ recs \in Seq(Records) /\ engine \in Models
  BY DEF TypeOK, AnonSteps, RestoreSteps, VaultRest
<1>2. rec \in Records
  BY <1>1 DEF Records, AnonJobs
<1>3. /\ rec.path = job.path /\ rec.text = job.text /\ rec.out = job.body /\ rec.model = engine
      /\ rec.override = job.force
  OBVIOUS
<1>4. Committed.recs = Append(recs, rec) /\ Committed.lock = engine
  BY DEF Committed
<1> HIDE DEF rec
<1>5. /\ n \in Nat /\ DOMAIN recs = 1..n /\ DOMAIN new = 1..(n + 1) /\ Len(new) = n + 1
      /\ \A i \in 1..n : new[i] = recs[i] /\ recs[i] \in Records
      /\ new[n + 1] = rec
  BY <1>1, <1>2, <1>4, LenProperties, AppendProperties, ElementOfSeq
<1> HIDE DEF n, new, recs
<1>6. SwitchesMarked(new)
  <2> SUFFICES ASSUME NEW i \in 2..(n + 1), new[i].model # new[i - 1].model
               PROVE  new[i].override
    BY <1>5 DEF SwitchesMarked
  <2>1. CASE i \in 2..n
    <3>1. i \in 1..n /\ i - 1 \in 1..n
      BY <1>5, <2>1
    <3>2. QED
      BY <1>5, <2>1, <3>1 DEF Governed, SwitchesMarked, recs, n
  <2>2. CASE i = n + 1
    <3>1. n \in 1..n /\ i - 1 = n
      BY <1>5, <2>2
    <3>2. rec.model # recs[n].model /\ recs[n].model \in Models
      BY <1>5, <2>2, <3>1 DEF Records
    <3>3. recs # <<>>
      <4>1. DOMAIN recs # {}
        BY <1>5, <3>1
      <4>2. QED
        BY <4>1
    <3>4. mem.lock = recs[n].model
      BY <3>3 DEF Governed, LockedToLast, recs, n
    <3>5. mem.lock \notin {NoModel, engine}
      BY <1>3, <3>2, <3>4, PipelineAssumption
    <3>6. job.force
      BY <3>5 DEF Checked
    <3>7. QED
      BY <1>3, <1>5, <2>2, <3>6, Zenon
  <2>3. QED
    BY <1>5, <2>1, <2>2
<1>7. Replayed(new)
  <2> SUFFICES ASSUME NEW i \in 1..(n + 1), NEW j \in 1..(n + 1), i < j,
                      Same(new[i], new[j]), ~new[j].override
               PROVE  \E k \in i..(j - 1) : Same(new[k], new[j]) /\ new[k].out = new[j].out
    BY <1>5 DEF Replayed
  <2>1. i \in 1..n /\ new[i] = recs[i]
    BY <1>5
  <2>2. CASE j \in 1..n
    <3>1. new[j] = recs[j]
      BY <1>5, <2>2
    <3>2. PICK k \in i..(j - 1) : Same(recs[k], recs[j]) /\ recs[k].out = recs[j].out
      BY <1>5, <2>1, <2>2, <3>1 DEF Governed, Replayed, recs
    <3>3. k \in 1..n
      BY <1>5, <2>1, <2>2
    <3>4. QED
      BY <1>5, <3>1, <3>2, <3>3
  <2>3. CASE j = n + 1
    <3>1. Same(recs[i], job)
      BY <1>3, <1>5, <2>1, <2>3 DEF Same
    <3>2. PICK k \in i..n : Same(recs[k], job) /\ job.want = recs[k].out
      BY <1>5, <2>1, <3>1 DEF Checked, recs, n
    <3>3. k \in 1..n /\ k \in i..(j - 1)
      BY <1>5, <2>1, <2>3
    <3>4. job.want # NoOut
      BY <1>5, <3>2, <3>3, PipelineAssumption DEF Records
    <3>5. ~job.force
      BY <1>3, <1>5, <2>3, Zenon
    <3>6. job.want = job.body
      BY <3>4, <3>5 DEF ReplayHolds
    <3>7. Same(new[k], new[j]) /\ new[k].out = new[j].out
      BY <1>3, <1>5, <2>3, <3>2, <3>3, <3>6 DEF Same
    <3>8. QED
      BY <3>3, <3>7
  <2>4. QED
    BY <1>5, <2>2, <2>3
<1>8. LockedToLast(Committed)
  BY <1>3, <1>4, <1>5 DEF LockedToLast, new
<1>9. QED
  BY <1>6, <1>7, <1>8 DEF Governed, new

LEMMA BeginChecked ==
  ASSUME TypeOK, NEW p \in Paths, NEW r \in Requests, BeginAnonymize(p, r.text, r.mode, r.force)
  PROVE  Checked'
<1> DEFINE S == {i \in DOMAIN mem.recs : mem.recs[i].path = p /\ mem.recs[i].text = r.text}
           prev == PreviousRecord(p, r.text)
           want == IF prev = {} THEN NoOut ELSE mem.recs[CHOOSE i \in prev : TRUE].out
           n == Len(mem.recs)
<1>1. n \in Nat /\ DOMAIN mem.recs = 1..n
  BY LenProperties DEF TypeOK, VaultRest
<1>2. prev = Newest(S)
  BY DEF PreviousRecord
<1>3. /\ job'.path = p /\ job'.text = r.text /\ job'.force = r.force /\ job'.want = want
      /\ UNCHANGED <<mem, engine>>
  BY DEF BeginAnonymize, context
<1>4. ~r.force => mem.lock \in {NoModel, engine}
  BY DEF BeginAnonymize
<1>5. ~job'.force => mem'.lock \in {NoModel, engine'}
  BY <1>3, <1>4, Zenon
<1> HIDE DEF want, prev, S
<1>6. ASSUME NEW i \in DOMAIN mem.recs, mem.recs[i].path = p, mem.recs[i].text = r.text
      PROVE  \E k \in i..n : mem.recs[k].path = p /\ mem.recs[k].text = r.text /\ want = mem.recs[k].out
  <2>1. i \in S /\ S \subseteq 1..n
    BY <1>1, <1>6 DEF S
  <2>2. prev # {}
    BY <1>1, <1>2, <2>1, NewestExists
  <2>3. PICK k \in prev : k = CHOOSE j \in prev : TRUE
    BY <2>2
  <2>4. want = mem.recs[k].out
    BY <2>2, <2>3 DEF want
  <2>5. k \in S /\ i <= k
    BY <1>2, <2>1 DEF Newest
  <2>6. k \in i..n
    BY <1>1, <2>1, <2>5
  <2>7. QED
    BY <2>4, <2>5, <2>6 DEF S
<1>7. \A i \in DOMAIN mem'.recs : Same(mem'.recs[i], job') =>
        \E k \in i..Len(mem'.recs) : Same(mem'.recs[k], job') /\ job'.want = mem'.recs[k].out
  BY <1>3, <1>6 DEF Same
<1>8. QED
  BY <1>5, <1>7 DEF Checked, Same

LEMMA GovernedStep ==
  ASSUME TypeOK, SavedState, RunsGoverned, Next
  PROVE  RunsGoverned'
<1>1. Governed(mem) /\ Governed(disk.mem) /\ Checked /\ (pc \in AnonSteps => Governed(job.undo.mem))
  BY DEF RunsGoverned, SavedState
<1>2. Image.mem = mem
  BY DEF Image
<1>3. ASSUME mem' \in {mem, disk.mem} \/ (pc \in AnonSteps /\ mem' = job.undo.mem),
             disk'.mem \in {mem, disk.mem}, Checked'
      PROVE  RunsGoverned'
  <2>1. Governed(mem') /\ Governed(disk'.mem)
    BY <1>1, <1>3
  <2>2. QED
    BY <1>3, <2>1 DEF RunsGoverned, Governed, SwitchesMarked, Replayed, LockedToLast, Same
<1>4. ASSUME pc' \notin AnonSteps
      PROVE  Checked'
  BY <1>4 DEF Checked
<1>5. CASE Open
  BY <1>3, <1>4, <1>5 DEF Open, SavedState, AnonSteps
<1>6. CASE Exit
  <2>1. mem'.recs = <<>> /\ disk' = disk /\ pc' \notin AnonSteps
    BY <1>6 DEF Exit, BlankRest, Return, AnonSteps
  <2>2. Governed(mem') /\ Governed(disk'.mem) /\ Checked'
    BY <1>1, <1>4, <2>1, BlankGoverned
  <2>3. QED
    BY <2>2 DEF RunsGoverned, Governed, SwitchesMarked, Replayed, LockedToLast, Same
<1>7. ASSUME NEW p \in Paths, NEW r \in Requests, BeginAnonymize(p, r.text, r.mode, r.force)
      PROVE  RunsGoverned'
  <2>1. UNCHANGED <<mem, disk>>
    BY <1>7 DEF BeginAnonymize, context
  <2>2. QED
    BY <1>3, <1>7, <2>1, BeginChecked
<1>8. CASE MintNext
  <2>1. pc = "mint" /\ job \in AnonJobs
    BY <1>8 DEF MintNext, TypeOK, AnonSteps, RestoreSteps
  <2>2. /\ job'.path = job.path /\ job'.text = job.text /\ job'.want = job.want
        /\ job'.force = job.force /\ UNCHANGED <<mem, disk, pc, engine>>
    BY <1>8, <2>1 DEF MintNext, AnonJobs
  <2>3. Checked'
    BY <1>1, <2>1, <2>2 DEF Checked, Same, AnonSteps
  <2>4. QED
    BY <1>3, <2>2, <2>3
<1>9. CASE WriteOutput
  BY <1>1, <1>3, <1>9 DEF WriteOutput, context, Checked, Same, AnonSteps
<1>10. CASE HandlerFails \/ ReplayMismatch
  BY <1>3, <1>4, <1>10 DEF HandlerFails, ReplayMismatch, Return, AnonSteps
<1>11. CASE AnonymizeSaved
  <2>1. mem' = Committed /\ disk'.mem = Committed /\ pc' \notin AnonSteps
    BY <1>11 DEF AnonymizeSaved, Return, AnonSteps
  <2>2. Governed(Committed)
    BY <1>1, <1>11, CommittedGoverned DEF AnonymizeSaved, AnonSteps
  <2>3. Governed(mem') /\ Governed(disk'.mem) /\ Checked'
    BY <1>4, <2>1, <2>2
  <2>4. QED
    BY <2>3 DEF RunsGoverned, Governed, SwitchesMarked, Replayed, LockedToLast, Same
<1>12. ASSUME NEW landed \in BOOLEAN, AnonymizeSaveFails(landed)
       PROVE  RunsGoverned'
  <2>1. /\ mem' = job.undo.mem /\ pc' \notin AnonSteps /\ pc \in AnonSteps
        /\ disk'.mem = Committed \/ disk' = disk
    BY <1>12 DEF AnonymizeSaveFails, Return, AnonSteps
  <2>2. Governed(Committed)
    BY <1>1, <1>12, CommittedGoverned DEF AnonymizeSaveFails, AnonSteps
  <2>3. Governed(mem') /\ Governed(disk'.mem) /\ Checked'
    BY <1>1, <1>4, <2>1, <2>2
  <2>4. QED
    BY <2>3 DEF RunsGoverned, Governed, SwitchesMarked, Replayed, LockedToLast, Same
<1>13. ASSUME NEW p \in Paths, BeginRestore(p)
       PROVE  RunsGoverned'
  BY <1>3, <1>4, <1>13 DEF BeginRestore, context, AnonSteps
<1>14. ASSUME NEW landed \in BOOLEAN,
              RestoreFails(landed) \/ RestoreSaveFails(landed) \/ WipeFails(landed)
       PROVE  RunsGoverned'
  BY <1>2, <1>3, <1>4, <1>14 DEF RestoreFails, RestoreSaveFails, WipeFails, Return, context, AnonSteps
<1>15. CASE RestoreUnlink \/ RestoreRename \/ WipeSaved
  BY <1>2, <1>3, <1>4, <1>15 DEF RestoreUnlink, RestoreRename, WipeSaved, Return, context, AnonSteps
<1>16. CASE RestoreSaved
  <2>1. disk'.mem = mem /\ pc' \notin AnonSteps
    BY <1>2, <1>16 DEF RestoreSaved, Return, AnonSteps
  <2>2. mem' = mem \/ mem'.recs = <<>>
    BY <1>16 DEF RestoreSaved, TypeOK, VaultRest
  <2>3. Governed(mem') /\ Governed(disk'.mem) /\ Checked'
    BY <1>1, <1>4, <2>1, <2>2, BlankGoverned
  <2>4. QED
    BY <2>3 DEF RunsGoverned, Governed, SwitchesMarked, Replayed, LockedToLast, Same
<1>17. ASSUME NEW b \in BOOLEAN, SetSelfDestruct(b)
       PROVE  RunsGoverned'
  <2>1. /\ disk'.mem.recs = disk.mem.recs /\ disk'.mem.lock = disk.mem.lock /\ UNCHANGED mem
        /\ pc' \notin AnonSteps
    BY <1>17 DEF SetSelfDestruct, TypeOK, Images, VaultRest, context, SavedState, AnonSteps
  <2>2. Governed(mem') /\ Governed(disk'.mem) /\ Checked'
    BY <1>1, <1>4, <2>1 DEF Governed, LockedToLast
  <2>3. QED
    BY <2>2 DEF RunsGoverned, Governed, SwitchesMarked, Replayed, LockedToLast, Same
<1>18. CASE Purge
  <2>1. disk'.mem.recs = <<>> /\ UNCHANGED mem /\ pc' \notin AnonSteps
    BY <1>18 DEF Purge, TypeOK, Images, VaultRest, context, SavedState, AnonSteps
  <2>2. Governed(mem') /\ Governed(disk'.mem) /\ Checked'
    BY <1>1, <1>4, <2>1, BlankGoverned
  <2>3. QED
    BY <2>2 DEF RunsGoverned, Governed, SwitchesMarked, Replayed, LockedToLast, Same
<1>19. CASE UpgradeEngine
  BY <1>3, <1>4, <1>19 DEF UpgradeEngine, context, SavedState, AnonSteps
<1>20. QED
  BY <1>5, <1>6, <1>7, <1>8, <1>9, <1>10, <1>11, <1>12, <1>13, <1>14, <1>15, <1>16,
     <1>17, <1>18, <1>19 DEF Next

LEMMA GovernedAlways == Spec => []RunsGoverned
<1>1. Init => RunsGoverned /\ SavedState
  <2> SUFFICES ASSUME Init
               PROVE  RunsGoverned /\ SavedState
    OBVIOUS
  <2>1. mem.recs = <<>> /\ disk.mem.recs = <<>> /\ pc \notin AnonSteps
    BY DEF Init, BlankRest, AnonSteps
  <2>2. Governed(mem) /\ Governed(disk.mem) /\ Checked
    BY <2>1, BlankGoverned DEF Checked
  <2>4. SavedState
    BY EmptyOwned, MatchesItself DEF Init, SavedState, AnonSteps, Image
  <2>3. QED
    BY <2>2, <2>4 DEF RunsGoverned
<1>2. TypeOK /\ SavedState /\ RunsGoverned /\ [Next]_vars => SavedState' /\ RunsGoverned'
  <2>1. ASSUME SavedState, RunsGoverned, UNCHANGED vars
        PROVE  SavedState' /\ RunsGoverned'
    <3>1. Image' = Image
      BY <2>1 DEF vars, Image
    <3>2. QED
      BY <2>1, <3>1 DEF vars, SavedState, RunsGoverned, Governed, SwitchesMarked, Replayed,
                        LockedToLast, Checked, Same
  <2>2. QED
    BY <2>1, SavedStep, GovernedStep
<1>3. QED
  BY <1>1, <1>2, TypeCorrect, PTL DEF Spec

\* A run with another detection stack than the run before it is an override:
\* the lock names the stack of the last record, whatever was rolled back,
\* loaded, wiped or upgraded since.
THEOREM SwitchesAreMarked == Spec => []ModelSwitchesMarked
<1>1. RunsGoverned => ModelSwitchesMarked
  BY DEF RunsGoverned, Governed, SwitchesMarked, ModelSwitchesMarked
<1>2. QED
  BY <1>1, GovernedAlways, PTL

\* A run that is no override wrote what an earlier run on the same document
\* and content wrote.
THEOREM RunsReplay == Spec => []ReplayStable
<1>1. RunsGoverned => ReplayStable
  BY DEF RunsGoverned, Governed, Replayed, Same, ReplayStable
<1>2. QED
  BY <1>1, GovernedAlways, PTL
=============================================================================
