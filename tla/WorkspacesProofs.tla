---------------------------- MODULE WorkspacesProofs ----------------------------
(***************************************************************************)
(* Theorems about the workspace commands, for any names and mappings, any  *)
(* number of workspaces, backups and faults.                               *)
(***************************************************************************)
EXTENDS Workspaces, TLAPS

Making == {"key", "metaOpen", "metaWrite"}
Saving == {"save", "rename"}
Deleting == {"delKey", "delVault", "delMeta"}
Aside == {"idle", "next"}

\* The points of each command.
Course ==
  /\ job.at = "idle" => job.cmd = "none"
  /\ job.at \in Making => job.cmd = "create"
  /\ job.at \in Saving => job.cmd \in {"create", "use", "restore", "wipe", "purge"}
  /\ job.at \in {"copyOpen", "copy"} => job.cmd \in {"close", "purge"}
  /\ job.at = "load" => job.cmd \in {"use", "exportKey", "purge", "recover", "importKey"}
  /\ job.at = "replace" => job.cmd = "recover"
  /\ job.at = "store" => job.cmd = "importKey"
  /\ job.at \in Deleting => job.cmd \in {"delete", "cleanup"}
  /\ job.at = "next" => job.cmd = "cleanup"

\* What a command works on stays what it was when the command began.
Subject ==
  /\ job.at \notin Aside => job.name \in Names /\ job.id \in Ids
  /\ job.at \notin Aside \union Making => meta[job.name] = job.id
  /\ job.at \in {"key", "metaOpen"} => meta[job.name] = Absent
  /\ job.at = "metaWrite" => meta[job.name] = Broken
  /\ job.cmd = "cleanup" =>
       /\ \A n \in job.todo : meta[n] \in Ids
       /\ job.at # "next" => job.name \notin job.todo

\* An id belongs to one name, and one that is being made to nothing yet.
Old == {i \in 1..lastId : job.at \in Making => i # job.id}
Unique == \A m, n \in Names : meta[m] = meta[n] /\ meta[m] \in Ids => m = n
Used ==
  /\ job.at \in Making => job.id \in 1..lastId
  /\ \A n \in Names : /\ meta[n] \in Ids => meta[n] \in Old
                      /\ meta[n] \notin Ids => vault[n] = NoFile
                      /\ vault[n] \in Files => vault[n].by \in Old
  /\ \A i \in Ids, t \in Stamps :
       /\ backups[i][t] # NoFile => i \in Old
       /\ backups[i][t] \in Files => backups[i][t].by \in Old
  /\ exported \subseteq Old /\ refused \subseteq Old
  /\ job.file \in Files => job.file.by \in Old

\* What was read, and is to be written, at each point.
Reading ==
  /\ job.at \in {"copyOpen", "copy"} => vault[job.name] # NoFile
  /\ job.at = "copy" => job.stamp \in Stamps
  /\ job.at = "replace" => \E i \in Ids, t \in Stamps : job.file = backups[i][t] /\ job.file # NoFile
  /\ job.at = "store" => job.id \in exported
  /\ job.cmd = "create" /\ job.at # "key" => job.id \in keychain
Writing ==
  /\ job.at \in Saving =>
       /\ job.id \in keychain
       /\ job.cmd = "create" => vault[job.name] = NoFile /\ job.items = {}
       /\ job.cmd \notin {"create", "wipe"} => Decrypts(vault[job.name], job.id)
       /\ job.cmd \in {"use", "restore"} => vault[job.name].items \subseteq job.items
       /\ job.cmd \in {"restore", "wipe"} => job.destructs
       /\ job.cmd = "wipe" =>
            /\ job.items = {}
            /\ \/ vault[job.name] = Torn
               \/ Decrypts(vault[job.name], job.id) /\ vault[job.name].destructs
  /\ job.at = "rename" => job.file \in {Torn, Content}
  /\ job.cmd = "create" => job.items = {}
  /\ job.cmd = "purge" /\ job.at \in {"load", "save", "rename"} =>
       job.stamp \in Stamps /\ backups[job.id][job.stamp] = vault[job.name]
Erasing ==
  /\ job.at \in {"delVault", "delMeta"} =>
       (job.id \notin keychain \/ job.id \in refused) /\ job.id \in excused
  /\ job.at = "delMeta" => vault[job.name] = NoFile

\* A cleanup has only what could not be opened before it.
Spared ==
  job.cmd = "cleanup" =>
    /\ \A n \in job.todo \ job.misread : ~Loads(n)
    /\ job.at = "delKey" /\ job.name \notin job.misread => ~Loads(job.name)

\* A key in the keychain is that of a name, of a creation or of no backup, or it
\* was to be deleted and is not.
Held ==
  \A i \in keychain \ (exported \union refused) :
    \/ \E n \in Names : meta[n] = i
    \/ job.at \in Making /\ job.id = i
    \/ \A t \in Stamps : backups[i][t] = NoFile

\* The inductive invariant: the parts need each other.
Sound ==
  /\ TypeOK /\ Course /\ Subject /\ Unique /\ Used /\ Reading /\ Writing /\ Erasing
  /\ Spared /\ Held /\ Recoverable

-----------------------------------------------------------------------------
LEMMA IdleJob == Idle \in Jobs
  BY DEF Idle, Jobs, Commands, Points

LEMMA MovedJob ==
  ASSUME NEW j \in Jobs, NEW at \in Points
  PROVE  [j EXCEPT !.at = at] \in Jobs
  BY DEF Jobs

\* The steps with a choice in them, by their effect on the job.
LEMMA TemporaryStep ==
  ASSUME TypeOK, Subject, SaveTemporary
  PROVE  /\ job' \in Jobs /\ job.at = "save" /\ job'.at = "rename"
         /\ job'.cmd = job.cmd /\ job'.name = job.name /\ job'.id = job.id
         /\ job'.items = job.items /\ job'.destructs = job.destructs
         /\ job'.stamp = job.stamp
         /\ job'.todo = job.todo /\ job'.misread = job.misread
         /\ job'.file \in {Torn, Content}
         /\ faults' \in 0..MaxFaults
         /\ UNCHANGED <<meta, keychain, vault, backups, exported, lastId, refused, excused, expired>>
<1> USE BoundsAssumption DEF TypeOK
<1>1. /\ job \in Jobs /\ job.at = "save" /\ job.id \in Ids /\ job.items \subseteq Items
      /\ job.destructs \in BOOLEAN
  BY DEF SaveTemporary, Subject, Jobs, Aside, Making
<1>2. Content \in Files
  BY <1>1 DEF Content, Files
<1>3. PICK f \in {Torn, Content} :
        job' = [job EXCEPT !.at = "rename", !.file = f]
  BY DEF SaveTemporary
<1>4. f \in Files \union {NoFile, Torn} /\ "rename" \in Points
  BY <1>2 DEF Points
<1>5. /\ job' \in Jobs /\ job'.at = "rename"
      /\ job'.cmd = job.cmd /\ job'.name = job.name /\ job'.id = job.id
      /\ job'.items = job.items /\ job'.destructs = job.destructs
      /\ job'.stamp = job.stamp
      /\ job'.todo = job.todo /\ job'.misread = job.misread /\ job'.file = f
  BY <1>1, <1>3, <1>4 DEF Jobs
<1>6. faults' \in 0..MaxFaults
  BY DEF SaveTemporary, Fault
<1>7. UNCHANGED <<meta, keychain, vault, backups, exported, lastId, refused, excused, expired>>
  BY DEF SaveTemporary, disk
<1> QED
  BY <1>1, <1>3, <1>5, <1>6, <1>7

\* What an operation leaves in the vault, from its load.
LEMMA UseStep ==
  ASSUME TypeOK, UseLoaded
  PROVE  /\ job' \in Jobs /\ job.cmd = "use" /\ job.at = "load" /\ Loads(job.name)
         /\ job'.cmd = "use" /\ job'.at = "save" /\ job'.name = job.name /\ job'.id = job.id
         /\ vault[job.name].items \subseteq job'.items
         /\ job'.file = job.file /\ job'.stamp = job.stamp
         /\ job'.todo = job.todo /\ job'.misread = job.misread
         /\ UNCHANGED <<meta, keychain, vault, backups, exported, lastId, refused, excused,
                        expired, faults>>
<1>1. job \in Jobs /\ job.cmd = "use" /\ job.at = "load" /\ Loads(job.name)
  BY DEF TypeOK, UseLoaded, Loaded, Running
<1>2. vault[job.name].items \subseteq Items /\ vault[job.name].destructs \in BOOLEAN
  BY <1>1 DEF Loads, Decrypts, Files
<1>3. PICK items \in SUBSET Items, destructs \in BOOLEAN :
        vault[job.name].items \subseteq items /\ SaveAs("use", items, destructs)
  BY <1>2 DEF UseLoaded
<1>4. job' = [job EXCEPT !.cmd = "use", !.at = "save", !.items = items, !.destructs = destructs]
  BY <1>3 DEF SaveAs
<1>5. "use" \in Commands /\ "save" \in Points
  BY DEF Commands, Points
<1>6. /\ job' \in Jobs
      /\ job'.cmd = "use" /\ job'.at = "save" /\ job'.name = job.name /\ job'.id = job.id
      /\ job'.items = items /\ job'.file = job.file /\ job'.stamp = job.stamp
      /\ job'.todo = job.todo /\ job'.misread = job.misread
  BY <1>1, <1>4, <1>5 DEF Jobs
<1> QED
  BY <1>1, <1>3, <1>6 DEF SaveAs, disk

\* The restore that destroys the workspace, from its load and after its first save.
LEMMA RestoreStep ==
  ASSUME TypeOK, RestoreLoaded
  PROVE  /\ job' \in Jobs /\ job.cmd = "use" /\ job.at = "load" /\ Loads(job.name)
         /\ job'.cmd = "restore" /\ job'.at = "save" /\ job'.name = job.name /\ job'.id = job.id
         /\ job'.items = vault[job.name].items /\ job'.destructs
         /\ job'.file = job.file /\ job'.stamp = job.stamp
         /\ job'.todo = job.todo /\ job'.misread = job.misread
         /\ UNCHANGED <<meta, keychain, vault, backups, exported, lastId, refused, excused,
                        expired, faults>>
<1>1. job \in Jobs /\ job.cmd = "use" /\ job.at = "load" /\ Loads(job.name)
  BY DEF TypeOK, RestoreLoaded, Loaded, Running
<1>2. vault[job.name].items \subseteq Items
  BY <1>1 DEF Loads, Decrypts, Files
<1>3. job' = [job EXCEPT !.cmd = "restore", !.at = "save", !.items = vault[job.name].items,
                         !.destructs = TRUE]
  BY DEF RestoreLoaded, SaveAs
<1>4. "restore" \in Commands /\ "save" \in Points
  BY DEF Commands, Points
<1>5. /\ job' \in Jobs
      /\ job'.cmd = "restore" /\ job'.at = "save" /\ job'.name = job.name /\ job'.id = job.id
      /\ job'.items = vault[job.name].items /\ job'.destructs
      /\ job'.file = job.file /\ job'.stamp = job.stamp
      /\ job'.todo = job.todo /\ job'.misread = job.misread
  BY <1>1, <1>2, <1>3, <1>4 DEF Jobs
<1> QED
  BY <1>1, <1>5 DEF RestoreLoaded, SaveAs, disk

LEMMA RestoredStep ==
  ASSUME TypeOK, RestoreRename
  PROVE  /\ job' \in Jobs /\ job.cmd = "restore" /\ job.at = "rename"
         /\ job'.cmd = "wipe" /\ job'.at = "save" /\ job'.name = job.name /\ job'.id = job.id
         /\ job'.items = {} /\ job'.destructs = job.destructs
         /\ job'.file = job.file /\ job'.stamp = job.stamp
         /\ job'.todo = job.todo /\ job'.misread = job.misread
         /\ vault' = [vault EXCEPT ![job.name] = job.file]
         /\ excused' = IF job.file = Torn THEN excused \union {job.id} ELSE excused
         /\ UNCHANGED <<meta, keychain, backups, exported, lastId, refused, expired, faults>>
<1>1. job \in Jobs /\ "wipe" \in Commands /\ "save" \in Points
  BY DEF TypeOK, Commands, Points
<1>2. job' = [job EXCEPT !.cmd = "wipe", !.at = "save", !.items = {}]
  BY DEF RestoreRename
<1>3. /\ job' \in Jobs
      /\ job'.cmd = "wipe" /\ job'.at = "save" /\ job'.name = job.name /\ job'.id = job.id
      /\ job'.items = {} /\ job'.destructs = job.destructs
      /\ job'.file = job.file /\ job'.stamp = job.stamp
      /\ job'.todo = job.todo /\ job'.misread = job.misread
  BY <1>1, <1>2 DEF Jobs
<1> QED
  BY <1>3 DEF RestoreRename, Rename

LEMMA CleanupNextStep ==
  ASSUME TypeOK, Subject, CleanupNext
  PROVE  /\ job' \in Jobs
         /\ \/ job' = Idle
            \/ /\ job'.at = "delKey" /\ job'.cmd = "cleanup" /\ job'.misread = job.misread
               /\ job'.name \in job.todo /\ job'.todo = job.todo \ {job'.name}
               /\ job'.id = meta[job'.name] /\ job'.file = job.file
               /\ job'.stamp = job.stamp /\ job'.items = job.items /\ job'.destructs = job.destructs
         /\ job.cmd = "cleanup" /\ job.at = "next"
         /\ UNCHANGED <<meta, keychain, vault, backups, exported, lastId, refused, excused, expired, faults>>
<1>1. job \in Jobs /\ job.cmd = "cleanup" /\ job.at = "next" /\ job.todo \subseteq Names
  BY DEF TypeOK, CleanupNext, Running, Jobs
<1>2. UNCHANGED <<meta, keychain, vault, backups, exported, lastId, refused, excused, expired, faults>>
  BY DEF CleanupNext, disk
<1>3. CASE job.todo = {} /\ Done
  BY <1>1, <1>2, <1>3, IdleJob DEF Done
<1>4. CASE \E n \in job.todo :
             job' = [job EXCEPT !.name = n, !.id = meta[n], !.todo = @ \ {n}, !.at = "delKey"]
  <2>1. PICK n \in job.todo :
             job' = [job EXCEPT !.name = n, !.id = meta[n], !.todo = @ \ {n}, !.at = "delKey"]
    BY <1>4
  <2>2. meta[n] \in Ids /\ n \in Names /\ job.todo \ {n} \subseteq Names /\ "delKey" \in Points
    BY <1>1 DEF Subject, Points
  <2>3. /\ job' \in Jobs
        /\ job'.at = "delKey" /\ job'.cmd = "cleanup" /\ job'.misread = job.misread
        /\ job'.name = n /\ job'.todo = job.todo \ {n}
        /\ job'.id = meta[n] /\ job'.file = job.file
        /\ job'.stamp = job.stamp /\ job'.items = job.items /\ job'.destructs = job.destructs
    BY <1>1, <2>1, <2>2 DEF Jobs
  <2> QED
    BY <1>1, <1>2, <2>3
<1> QED
  BY <1>3, <1>4 DEF CleanupNext

LEMMA CopyStep ==
  ASSUME TypeOK, Copy
  PROVE  /\ job' \in Jobs /\ job.at = "copy"
         /\ backups' = [backups EXCEPT ![job.id][job.stamp] = vault[job.name]]
         /\ \/ job.cmd # "purge" /\ job' = Idle
            \/ /\ job.cmd = "purge" /\ job'.at = "load"
               /\ job'.cmd = job.cmd /\ job'.name = job.name /\ job'.id = job.id
               /\ job'.items = job.items /\ job'.destructs = job.destructs /\ job'.stamp = job.stamp /\ job'.file = job.file
               /\ job'.todo = job.todo /\ job'.misread = job.misread
         /\ UNCHANGED <<meta, keychain, vault, exported, lastId, refused, excused, expired, faults>>
<1>1. job \in Jobs /\ job.at = "copy" /\ "load" \in Points
  BY DEF TypeOK, Copy, Points
<1>2. CASE job.cmd # "purge" /\ Done
  BY <1>1, <1>2, IdleJob DEF Copy, Done
<1>3. CASE job.cmd = "purge" /\ GoTo("load")
  <2>1. job' = [job EXCEPT !.at = "load"]
    BY <1>3 DEF GoTo
  <2>2. /\ job' \in Jobs /\ job'.at = "load"
        /\ job'.cmd = job.cmd /\ job'.name = job.name /\ job'.id = job.id
        /\ job'.items = job.items /\ job'.destructs = job.destructs /\ job'.stamp = job.stamp /\ job'.file = job.file
        /\ job'.todo = job.todo /\ job'.misread = job.misread
    BY <1>1, <2>1 DEF Jobs
  <2> QED
    BY <1>1, <1>3, <2>2 DEF Copy
<1> QED
  BY <1>2, <1>3 DEF Copy

-----------------------------------------------------------------------------
\* Every part is kept by every step: the steps that need an argument of their own
\* first, then those that follow from the parts at once.
\* Every step keeps the types.
LEMMA TypeOKStep ==
  ASSUME Sound, Next
  PROVE  TypeOK'
<1>1. CASE StoreKey
  <2>1. job' \in Jobs
    BY <1>1, MovedJob DEF Sound, TypeOK, StoreKey, GoTo, Points
  <2>2. job.id \in Ids
    BY <1>1 DEF Sound, Subject, StoreKey, Running, Aside
  <2> QED
    BY <1>1, <2>1, <2>2 DEF Sound, TypeOK, StoreKey
<1>2. CASE ImportKey
  <2>1. job' \in Jobs
    BY <1>2, MovedJob DEF Sound, TypeOK, ImportKey, GoTo, Points
  <2>2. job.id \in Ids
    BY <1>2 DEF Sound, Subject, ImportKey, Running, Aside
  <2> QED
    BY <1>2, <2>1, <2>2 DEF Sound, TypeOK, ImportKey
<1>3. ASSUME NEW n \in Names, BeginCreate(n) PROVE TypeOK'
  <2>1. lastId + 1 \in Ids /\ lastId' \in 0..MaxId
      BY <1>3, BoundsAssumption DEF Sound, TypeOK, BeginCreate, Ids
  <2>2. job' \in Jobs
      BY <1>3, <2>1, IdleJob DEF BeginCreate, Jobs, Points, Commands
  <2> QED
    BY <1>3, <2>1, <2>2 DEF Sound, TypeOK, BeginCreate
<1>4. ASSUME NEW n \in Names, BeginRecover(n) PROVE TypeOK'
  <2>1. meta[n] \in Ids /\ "recover" \in Commands /\ "replace" \in Points
      BY <1>4 DEF BeginRecover, Known, Commands, Points
  <2>2. PICK i \in Ids, t \in Stamps :
         job' = [Idle EXCEPT !.cmd = "recover", !.name = n, !.id = meta[n],
                             !.at = "replace", !.file = backups[i][t]]
      BY <1>4 DEF BeginRecover
  <2>3. backups[i][t] \in Files \union {NoFile, Torn}
      BY DEF Sound, TypeOK
  <2>4. job' \in Jobs
      BY <2>1, <2>2, <2>3, IdleJob DEF Jobs
  <2> QED
    BY <1>4, <2>1, <2>2, <2>3, <2>4 DEF Sound, TypeOK, BeginRecover, disk
<1>5. CASE UseLoaded
  BY <1>5, UseStep DEF Sound, TypeOK
<1>6. CASE RestoreLoaded
  BY <1>6, RestoreStep DEF Sound, TypeOK
<1>7. CASE RestoreRename
  <2>1. job.name \in Names /\ job.id \in Ids /\ job.file \in Files \union {NoFile, Torn}
    BY <1>7, RestoredStep DEF Sound, TypeOK, Subject, Aside, Jobs
  <2>2. vault' \in [Names -> Files \union {NoFile, Torn}] /\ excused' \subseteq Ids
    BY <1>7, <2>1, RestoredStep DEF Sound, TypeOK
  <2> QED
    BY <1>7, <2>2, RestoredStep DEF Sound, TypeOK
<1>8. CASE DeleteKey
  <2>1. job' \in Jobs /\ UNCHANGED <<meta, vault, backups, exported, expired, lastId>>
    BY <1>8, MovedJob DEF Sound, TypeOK, DeleteKey, GoTo, Points
  <2>2. job.id \in Ids
    BY <1>8 DEF Sound, Subject, DeleteKey, Aside
  <2>3. /\ keychain' \subseteq Ids /\ refused' \subseteq Ids /\ excused' \subseteq Ids
        /\ faults' \in 0..MaxFaults
    BY <1>8, <2>2, BoundsAssumption DEF Sound, TypeOK, DeleteKey, Fault
  <2> QED
    BY <2>1, <2>3 DEF Sound, TypeOK
<1>9. CASE Expire
  <2>1. \A i \in 1..lastId : i \in Ids
    BY BoundsAssumption DEF Sound, TypeOK, Ids
  <2>2. expired' \subseteq Ids
    BY <1>9, <2>1 DEF Sound, TypeOK, Expire
  <2> QED
    BY <1>9, <2>2 DEF Sound, TypeOK, Expire, disk
<1>10. CASE CopyOpen
  <2>1. PICK t \in Stamps : /\ backups' = [backups EXCEPT ![job.id][t] = Torn]
                            /\ job' = [job EXCEPT !.at = "copy", !.stamp = t]
      BY <1>10 DEF CopyOpen
  <2>2. job' \in Jobs
      BY <2>1 DEF Sound, TypeOK, Jobs, Points
  <2>3. backups' \in [Ids -> [Stamps -> Files \union {NoFile, Torn}]]
      BY <2>1 DEF Sound, TypeOK
  <2> QED
    BY <1>10, <2>1, <2>2, <2>3 DEF Sound, TypeOK, CopyOpen
<1>11. CASE Copy
  <2>1. job.name \in Names /\ vault[job.name] \in Files \union {NoFile, Torn}
      BY <1>11, CopyStep DEF Sound, TypeOK, Subject, Aside
  <2>2. backups' \in [Ids -> [Stamps -> Files \union {NoFile, Torn}]]
      BY <1>11, <2>1, CopyStep DEF Sound, TypeOK
  <2> QED
    BY <1>11, <2>1, <2>2, CopyStep DEF Sound, TypeOK
<1>12. CASE DeleteMetadata
  <2>1. job' \in Jobs
      BY <1>12, IdleJob, MovedJob DEF Sound, TypeOK, DeleteMetadata, GoTo, Done, Points
  <2>2. meta' \in [Names -> Ids \union {Absent, Broken}]
      BY <1>12 DEF Sound, TypeOK, DeleteMetadata
  <2> QED
    BY <1>12, <2>1, <2>2 DEF Sound, TypeOK, DeleteMetadata
<1>13. CASE BeginCleanup
  <2>1. PICK misread \in SUBSET {n \in Names : Known(n) /\ Status(n) = "active"} :
         job' = [Idle EXCEPT !.cmd = "cleanup", !.at = "next", !.misread = misread,
                   !.todo = misread \union
                              {n \in Names : Known(n) /\ Status(n) = "expired_or_corrupted"}]
      BY <1>13 DEF BeginCleanup
  <2>2. job' \in Jobs
      BY <2>1, IdleJob DEF Jobs, Points, Commands
  <2>3. faults' \in 0..MaxFaults
      BY <1>13, BoundsAssumption DEF Sound, TypeOK, BeginCleanup, Fault
  <2> QED
    BY <1>13, <2>1, <2>2, <2>3 DEF Sound, TypeOK, BeginCleanup, disk
<1>14. CASE CleanupSkip
  <2>1. job' \in Jobs
      BY <1>14, MovedJob DEF Sound, TypeOK, CleanupSkip, GoTo, Points
  <2>2. faults' \in 0..MaxFaults
      BY <1>14, BoundsAssumption DEF Sound, TypeOK, CleanupSkip, Fault
  <2> QED
    BY <1>14, <2>1, <2>2 DEF Sound, TypeOK, CleanupSkip, disk
<1>15. CASE Interrupted
  <2>1. job' \in Jobs
      BY <1>15, IdleJob DEF Interrupted, Done
  <2>2. faults' \in 0..MaxFaults
      BY <1>15, BoundsAssumption DEF Sound, TypeOK, Interrupted, Fault
  <2>3. excused' \subseteq Ids
      <3>1. job.cmd = "create" => job.id \in Ids
        BY <1>15 DEF Sound, TypeOK, Subject, Course, Jobs, Points, Aside, Interrupted
      <3> QED
        BY <1>15, <3>1 DEF Sound, TypeOK, Interrupted
  <2> QED
    BY <1>15, <2>1, <2>2, <2>3 DEF Sound, TypeOK, Interrupted
<1> USE BoundsAssumption, MarksAssumption DEF Sound, TypeOK, Course, Subject,
     Unique, Used, Reading, Writing, Old, Decrypts, Files, Commands, Points,
     Jobs, Making, Saving, Deleting, Aside, Ids, Stamps
<1>16. ASSUME NEW n \in Names, BeginUse(n) PROVE TypeOK'
  BY <1>16, ZenonT(40) DEF BeginUse, Begin, Idle, disk, Known
<1>17. ASSUME NEW n \in Names, BeginExportKey(n) PROVE TypeOK'
  BY <1>17, ZenonT(40) DEF BeginExportKey, Begin, Idle, disk, Known
<1>18. ASSUME NEW n \in Names, BeginClose(n) PROVE TypeOK'
  BY <1>18, ZenonT(40) DEF BeginClose, Begin, Idle, disk, Known
<1>19. ASSUME NEW n \in Names, BeginPurge(n) PROVE TypeOK'
  BY <1>19, ZenonT(40) DEF BeginPurge, Begin, Idle, disk, Known
<1>20. ASSUME NEW n \in Names, BeginDelete(n) PROVE TypeOK'
  BY <1>20, ZenonT(40) DEF BeginDelete, Begin, Idle, disk, Known
<1>21. ASSUME NEW n \in Names, NEW force \in BOOLEAN, BeginImportKey(n, force) PROVE TypeOK'
  BY <1>21, ZenonT(40) DEF BeginImportKey, Begin, Idle, disk, Known, Accepts
<1>22. CASE OpenMetadata
  BY <1>22 DEF OpenMetadata, GoTo, Running
<1>23. CASE WriteMetadata
  BY <1>23 DEF WriteMetadata, GoTo, Running
<1>24. CASE SaveTemporary
  BY <1>24, TemporaryStep, ZenonT(40) DEF Idle
<1>25. CASE SaveRename
  BY <1>25 DEF SaveRename, Rename, Done, Idle
<1>26. CASE LoadFailed
  BY <1>26 DEF LoadFailed, Done, Idle, disk, Loads
<1>27. CASE ExportKeyLoaded
  BY <1>27 DEF ExportKeyLoaded, Done, Idle, Loaded, Running, Loads
<1>28. CASE PurgeLoaded
  BY <1>28 DEF PurgeLoaded, Loaded, Running, Loads, SaveAs, disk
<1>29. CASE ReplaceVault
  BY <1>29 DEF ReplaceVault, GoTo, Running
<1>30. CASE RecoverLoaded
  BY <1>30 DEF RecoverLoaded, Done, Idle, disk, Loaded, Running, Loads
<1>31. CASE ImportKeyLoaded
  BY <1>31 DEF ImportKeyLoaded, Done, Idle, disk, Loaded, Running, Loads
<1>32. CASE DeleteVault
  BY <1>32 DEF DeleteVault, GoTo
<1>33. CASE CleanupNext
  BY <1>33, CleanupNextStep, ZenonT(40) DEF Idle
<1> HIDE DEF TypeOK, Sound
<1> QED
  BY <1>1, <1>2, <1>3, <1>4, <1>5, <1>6, <1>7, <1>8, <1>9, <1>10, <1>11, <1>12,
       <1>13, <1>14, <1>15, <1>16, <1>17, <1>18, <1>19, <1>20, <1>21, <1>22,
       <1>23, <1>24, <1>25, <1>26, <1>27, <1>28, <1>29, <1>30, <1>31, <1>32,
       <1>33
       DEF Next

\* ... each command on its course,
LEMMA CourseStep ==
  ASSUME Sound, Next
  PROVE  Course'
<1>1. CASE Copy
  <2>1. CASE job' = Idle
    BY <2>1 DEF Course, Idle, Making, Saving, Deleting
  <2>2. CASE job.cmd = "purge" /\ job'.cmd = job.cmd /\ job'.at = "load"
    BY <2>2 DEF Course, Making, Saving, Deleting
  <2> QED
    BY <1>1, <2>1, <2>2, CopyStep DEF Sound
<1> USE BoundsAssumption, MarksAssumption DEF Sound, TypeOK, Course, Commands,
     Points, Jobs, Making, Saving, Deleting, Aside, Ids, Stamps
<1>2. ASSUME NEW n \in Names, BeginCreate(n) PROVE Course'
  BY <1>2 DEF BeginCreate, Idle
<1>3. ASSUME NEW n \in Names, BeginUse(n) PROVE Course'
  BY <1>3 DEF BeginUse, Begin, Idle, disk, Known
<1>4. ASSUME NEW n \in Names, BeginExportKey(n) PROVE Course'
  BY <1>4 DEF BeginExportKey, Begin, Idle, disk, Known
<1>5. ASSUME NEW n \in Names, BeginClose(n) PROVE Course'
  BY <1>5 DEF BeginClose, Begin, Idle, disk, Known
<1>6. ASSUME NEW n \in Names, BeginPurge(n) PROVE Course'
  BY <1>6 DEF BeginPurge, Begin, Idle, disk, Known
<1>7. ASSUME NEW n \in Names, BeginRecover(n) PROVE Course'
  BY <1>7 DEF BeginRecover, Idle, disk, Known
<1>8. ASSUME NEW n \in Names, BeginDelete(n) PROVE Course'
  BY <1>8 DEF BeginDelete, Begin, Idle, disk, Known
<1>9. ASSUME NEW n \in Names, NEW force \in BOOLEAN, BeginImportKey(n, force) PROVE Course'
  BY <1>9 DEF BeginImportKey, Begin, Idle, disk, Known, Accepts
<1>10. CASE StoreKey
  BY <1>10 DEF StoreKey, GoTo, Running
<1>11. CASE OpenMetadata
  BY <1>11 DEF OpenMetadata, GoTo, Running
<1>12. CASE WriteMetadata
  BY <1>12 DEF WriteMetadata, GoTo, Running
<1>13. CASE SaveTemporary
  BY <1>13, TemporaryStep DEF Idle
<1>14. CASE SaveRename
  BY <1>14 DEF SaveRename, Rename, Done, Idle
<1>15. CASE LoadFailed
  BY <1>15 DEF LoadFailed, Done, Idle, disk, Loads, Decrypts
<1>16. CASE UseLoaded
  BY <1>16, UseStep
<1>17. CASE ExportKeyLoaded
  BY <1>17 DEF ExportKeyLoaded, Done, Idle, Loaded, Running, Loads, Decrypts
<1>18. CASE CopyOpen
  BY <1>18 DEF CopyOpen, Taken
<1>19. CASE PurgeLoaded
  BY <1>19 DEF PurgeLoaded, Loaded, Running, Loads, Decrypts, SaveAs, disk
<1>20. CASE ReplaceVault
  BY <1>20 DEF ReplaceVault, GoTo, Running, Decrypts
<1>21. CASE RecoverLoaded
  BY <1>21 DEF RecoverLoaded, Done, Idle, disk, Loaded, Running, Loads,
       Decrypts
<1>22. CASE ImportKey
  BY <1>22 DEF ImportKey, GoTo, Running
<1>23. CASE ImportKeyLoaded
  BY <1>23 DEF ImportKeyLoaded, Done, Idle, disk, Loaded, Running, Loads,
       Decrypts
<1>24. CASE DeleteKey
  BY <1>24 DEF DeleteKey, GoTo, Fault
<1>25. CASE DeleteVault
  BY <1>25 DEF DeleteVault, GoTo
<1>26. CASE DeleteMetadata
  BY <1>26 DEF DeleteMetadata, GoTo, Done, Idle
<1>27. CASE BeginCleanup
  BY <1>27 DEF BeginCleanup, Fault, Idle, disk, Known, Status, Loads, Decrypts
<1>28. CASE CleanupNext
  BY <1>28, CleanupNextStep DEF Idle
<1>29. CASE CleanupSkip
  BY <1>29 DEF CleanupSkip, GoTo, Fault, disk
<1>30. CASE Interrupted
  BY <1>30 DEF Interrupted, Done, Idle, Fault
<1>31. CASE Expire
  BY <1>31 DEF Expire, disk
<1>32. CASE RestoreLoaded
  BY <1>32, RestoreStep
<1>33. CASE RestoreRename
  BY <1>33, RestoredStep
<1> HIDE DEF Course, Sound
<1> QED
  BY <1>1, <1>2, <1>3, <1>4, <1>5, <1>6, <1>7, <1>8, <1>9, <1>10, <1>11, <1>12,
       <1>13, <1>14, <1>15, <1>16, <1>17, <1>18, <1>19, <1>20, <1>21, <1>22,
       <1>23, <1>24, <1>25, <1>26, <1>27, <1>28, <1>29, <1>30, <1>31, <1>32,
       <1>33
       DEF Next

\* ... a command's workspace what it was when the command began,
LEMMA SubjectStep ==
  ASSUME Sound, Next
  PROVE  Subject'
<1> USE BoundsAssumption, MarksAssumption DEF Sound, TypeOK, Course, Unique,
     Used, Subject, Commands, Points, Jobs, Making, Saving, Deleting, Aside,
     Ids, Stamps
<1>1. ASSUME NEW n \in Names, BeginCreate(n) PROVE Subject'
  BY <1>1 DEF BeginCreate, Idle
<1>2. ASSUME NEW n \in Names, BeginUse(n) PROVE Subject'
  BY <1>2 DEF BeginUse, Begin, Idle, disk, Known
<1>3. ASSUME NEW n \in Names, BeginExportKey(n) PROVE Subject'
  BY <1>3 DEF BeginExportKey, Begin, Idle, disk, Known
<1>4. ASSUME NEW n \in Names, BeginClose(n) PROVE Subject'
  BY <1>4 DEF BeginClose, Begin, Idle, disk, Known
<1>5. ASSUME NEW n \in Names, BeginPurge(n) PROVE Subject'
  BY <1>5 DEF BeginPurge, Begin, Idle, disk, Known
<1>6. ASSUME NEW n \in Names, BeginRecover(n) PROVE Subject'
  BY <1>6 DEF BeginRecover, Idle, disk, Known
<1>7. ASSUME NEW n \in Names, BeginDelete(n) PROVE Subject'
  BY <1>7 DEF BeginDelete, Begin, Idle, disk, Known
<1>8. ASSUME NEW n \in Names, NEW force \in BOOLEAN, BeginImportKey(n, force) PROVE Subject'
  BY <1>8 DEF BeginImportKey, Begin, Idle, disk, Known, Accepts
<1>9. CASE StoreKey
  BY <1>9 DEF StoreKey, GoTo, Running
<1>10. CASE OpenMetadata
  BY <1>10 DEF OpenMetadata, GoTo, Running
<1>11. CASE WriteMetadata
  BY <1>11 DEF WriteMetadata, GoTo, Running
<1>12. CASE SaveTemporary
  BY <1>12, TemporaryStep DEF Idle
<1>13. CASE SaveRename
  BY <1>13 DEF SaveRename, Rename, Done, Idle
<1>14. CASE LoadFailed
  BY <1>14 DEF LoadFailed, Done, Idle, disk, Loads, Decrypts
<1>15. CASE UseLoaded
  BY <1>15, UseStep
<1>16. CASE ExportKeyLoaded
  BY <1>16 DEF ExportKeyLoaded, Done, Idle, Loaded, Running, Loads, Decrypts
<1>17. CASE CopyOpen
  BY <1>17 DEF CopyOpen, Taken
<1>18. CASE Copy
  BY <1>18, CopyStep DEF Idle
<1>19. CASE PurgeLoaded
  BY <1>19 DEF PurgeLoaded, Loaded, Running, Loads, Decrypts, SaveAs, disk
<1>20. CASE ReplaceVault
  BY <1>20 DEF ReplaceVault, GoTo, Running, Decrypts
<1>21. CASE RecoverLoaded
  BY <1>21 DEF RecoverLoaded, Done, Idle, disk, Loaded, Running, Loads,
       Decrypts
<1>22. CASE ImportKey
  BY <1>22 DEF ImportKey, GoTo, Running
<1>23. CASE ImportKeyLoaded
  BY <1>23 DEF ImportKeyLoaded, Done, Idle, disk, Loaded, Running, Loads,
       Decrypts
<1>24. CASE DeleteKey
  BY <1>24 DEF DeleteKey, GoTo, Fault
<1>25. CASE DeleteVault
  BY <1>25 DEF DeleteVault, GoTo
<1>26. CASE DeleteMetadata
  BY <1>26 DEF DeleteMetadata, GoTo, Done, Idle
<1>27. CASE BeginCleanup
  BY <1>27 DEF BeginCleanup, Fault, Idle, disk, Known, Status, Loads, Decrypts
<1>28. CASE CleanupNext
  BY <1>28, CleanupNextStep DEF Idle
<1>29. CASE CleanupSkip
  BY <1>29 DEF CleanupSkip, GoTo, Fault, disk
<1>30. CASE Interrupted
  BY <1>30 DEF Interrupted, Done, Idle, Fault
<1>31. CASE Expire
  BY <1>31 DEF Expire, disk
<1>32. CASE RestoreLoaded
  BY <1>32, RestoreStep
<1>33. CASE RestoreRename
  BY <1>33, RestoredStep
<1> HIDE DEF Subject, Sound
<1> QED
  BY <1>1, <1>2, <1>3, <1>4, <1>5, <1>6, <1>7, <1>8, <1>9, <1>10, <1>11, <1>12,
       <1>13, <1>14, <1>15, <1>16, <1>17, <1>18, <1>19, <1>20, <1>21, <1>22,
       <1>23, <1>24, <1>25, <1>26, <1>27, <1>28, <1>29, <1>30, <1>31, <1>32,
       <1>33
       DEF Next

\* ... an id with one name,
LEMMA UniqueStep ==
  ASSUME Sound, Next
  PROVE  Unique'
<1> USE BoundsAssumption, MarksAssumption DEF Sound, TypeOK, Course, Subject,
     Used, Unique, Old, Commands, Points, Jobs, Making, Saving, Deleting,
     Aside, Ids, Stamps
<1>1. ASSUME NEW n \in Names, BeginCreate(n) PROVE Unique'
  BY <1>1 DEF BeginCreate, Idle
<1>2. ASSUME NEW n \in Names, BeginUse(n) PROVE Unique'
  BY <1>2 DEF BeginUse, Begin, Idle, disk, Known
<1>3. ASSUME NEW n \in Names, BeginExportKey(n) PROVE Unique'
  BY <1>3 DEF BeginExportKey, Begin, Idle, disk, Known
<1>4. ASSUME NEW n \in Names, BeginClose(n) PROVE Unique'
  BY <1>4 DEF BeginClose, Begin, Idle, disk, Known
<1>5. ASSUME NEW n \in Names, BeginPurge(n) PROVE Unique'
  BY <1>5 DEF BeginPurge, Begin, Idle, disk, Known
<1>6. ASSUME NEW n \in Names, BeginRecover(n) PROVE Unique'
  BY <1>6 DEF BeginRecover, Idle, disk, Known
<1>7. ASSUME NEW n \in Names, BeginDelete(n) PROVE Unique'
  BY <1>7 DEF BeginDelete, Begin, Idle, disk, Known
<1>8. ASSUME NEW n \in Names, NEW force \in BOOLEAN, BeginImportKey(n, force) PROVE Unique'
  BY <1>8 DEF BeginImportKey, Begin, Idle, disk, Known, Accepts
<1>9. CASE StoreKey
  BY <1>9 DEF StoreKey, GoTo, Running
<1>10. CASE OpenMetadata
  BY <1>10 DEF OpenMetadata, GoTo, Running
<1>11. CASE WriteMetadata
  BY <1>11 DEF WriteMetadata, GoTo, Running
<1>12. CASE SaveTemporary
  BY <1>12, TemporaryStep DEF Idle
<1>13. CASE SaveRename
  BY <1>13 DEF SaveRename, Rename, Done, Idle
<1>14. CASE LoadFailed
  BY <1>14 DEF LoadFailed, Done, Idle, disk, Loads, Decrypts
<1>15. CASE UseLoaded
  BY <1>15, UseStep
<1>16. CASE ExportKeyLoaded
  BY <1>16 DEF ExportKeyLoaded, Done, Idle, Loaded, Running, Loads, Decrypts
<1>17. CASE CopyOpen
  BY <1>17 DEF CopyOpen, Taken
<1>18. CASE Copy
  BY <1>18, CopyStep DEF Idle
<1>19. CASE PurgeLoaded
  BY <1>19 DEF PurgeLoaded, Loaded, Running, Loads, Decrypts, SaveAs, disk
<1>20. CASE ReplaceVault
  BY <1>20 DEF ReplaceVault, GoTo, Running, Decrypts
<1>21. CASE RecoverLoaded
  BY <1>21 DEF RecoverLoaded, Done, Idle, disk, Loaded, Running, Loads,
       Decrypts
<1>22. CASE ImportKey
  BY <1>22 DEF ImportKey, GoTo, Running
<1>23. CASE ImportKeyLoaded
  BY <1>23 DEF ImportKeyLoaded, Done, Idle, disk, Loaded, Running, Loads,
       Decrypts
<1>24. CASE DeleteKey
  BY <1>24 DEF DeleteKey, GoTo, Fault
<1>25. CASE DeleteVault
  BY <1>25 DEF DeleteVault, GoTo
<1>26. CASE DeleteMetadata
  BY <1>26 DEF DeleteMetadata, GoTo, Done, Idle
<1>27. CASE BeginCleanup
  BY <1>27 DEF BeginCleanup, Fault, Idle, disk, Known, Status, Loads, Decrypts
<1>28. CASE CleanupNext
  BY <1>28, CleanupNextStep DEF Idle
<1>29. CASE CleanupSkip
  BY <1>29 DEF CleanupSkip, GoTo, Fault, disk
<1>30. CASE Interrupted
  BY <1>30 DEF Interrupted, Done, Idle, Fault
<1>31. CASE Expire
  BY <1>31 DEF Expire, disk
<1>32. CASE RestoreLoaded
  BY <1>32, RestoreStep
<1>33. CASE RestoreRename
  BY <1>33, RestoredStep
<1> HIDE DEF Unique, Sound
<1> QED
  BY <1>1, <1>2, <1>3, <1>4, <1>5, <1>6, <1>7, <1>8, <1>9, <1>10, <1>11, <1>12,
       <1>13, <1>14, <1>15, <1>16, <1>17, <1>18, <1>19, <1>20, <1>21, <1>22,
       <1>23, <1>24, <1>25, <1>26, <1>27, <1>28, <1>29, <1>30, <1>31, <1>32,
       <1>33
       DEF Next

\* ... every id in use one of those given out,
LEMMA UsedStep ==
  ASSUME Sound, Next
  PROVE  Used'
<1>1. CASE CopyOpen
  <2>1. /\ job.at \notin Making /\ job.at \notin Aside /\ job'.at \notin Making
        /\ job'.file = job.file
        /\ UNCHANGED <<meta, vault, exported, refused, lastId>>
    BY <1>1 DEF CopyOpen, Making, Aside, Sound, TypeOK, Jobs
  <2>2. Old' = Old /\ job.id \in Old
    BY <2>1 DEF Old, Sound, Subject, Used
  <2>3. \A i \in Ids, t \in Stamps :
          backups'[i][t] = backups[i][t] \/ (i = job.id /\ backups'[i][t] = Torn)
    BY <1>1 DEF Sound, TypeOK, CopyOpen
  <2> QED
    BY <2>1, <2>2, <2>3, MarksAssumption DEF Sound, Used
<1>2. CASE UseLoaded
  <2>1. Old' = Old /\ job'.at \notin Making
    BY <1>2, UseStep DEF Sound, Old, Making
  <2> QED
    BY <1>2, <2>1, UseStep DEF Sound, Used
<1>3. CASE RestoreLoaded
  <2>1. Old' = Old /\ job'.at \notin Making
    BY <1>3, RestoreStep DEF Sound, Old, Making
  <2> QED
    BY <1>3, <2>1, RestoreStep DEF Sound, Used
<1>4. CASE RestoreRename
  <2>1. Old' = Old /\ job'.at \notin Making
    BY <1>4, RestoredStep DEF Sound, Old, Making
  <2>2. job.name \in Names /\ meta[job.name] = job.id /\ job.id \in Ids
    BY <1>4, RestoredStep DEF Sound, Subject, Aside, Making
  <2>3. \A n \in Names :
          /\ n # job.name => vault'[n] = vault[n]
          /\ n = job.name => vault'[n] = job.file
    BY <1>4, RestoredStep DEF Sound, TypeOK
  <2> QED
    BY <1>4, <2>1, <2>2, <2>3, RestoredStep DEF Sound, Used
<1>5. CASE SaveTemporary
  <2>1. /\ job.at \notin Making /\ job'.at \notin Making
        /\ UNCHANGED <<meta, vault, backups, exported, refused, lastId>>
    BY <1>5, TemporaryStep DEF Sound, Making
  <2>2. Old' = Old
    BY <2>1 DEF Old
  <2>3. job'.file \in Files => job'.file.by = job.id
    BY <1>5, TemporaryStep, MarksAssumption DEF Sound, Content
  <2>4. job.id \in Old
    BY <1>5, TemporaryStep DEF Sound, Used, Subject, Making, Aside
  <2> QED
    BY <2>1, <2>2, <2>3, <2>4 DEF Sound, Used
<1>6. CASE ExportKeyLoaded
  <2>1. /\ job.at = "load" /\ job' = Idle /\ exported' = exported \union {job.id}
        /\ UNCHANGED <<meta, vault, backups, refused, lastId>>
    BY <1>6 DEF ExportKeyLoaded, Loaded, Running, Done
  <2>2. Old' = Old /\ job'.at \notin Making /\ job'.file \notin Files
    BY <2>1, MarksAssumption DEF Old, Making, Idle
  <2>3. job.id \in Old
    BY <2>1 DEF Sound, Used, Subject, Making, Aside
  <2> QED
    BY <2>1, <2>2, <2>3 DEF Sound, Used
<1>7. CASE Copy
  <2>1. /\ job.at \notin Making /\ job'.at \notin Making
        /\ UNCHANGED <<meta, vault, exported, refused, lastId>>
    BY <1>7, CopyStep DEF Sound, Making, Idle
  <2>2. Old' = Old
    BY <2>1 DEF Old
  <2>3. job'.file \in Files => job'.file = job.file
    BY <1>7, CopyStep, MarksAssumption DEF Sound, Idle
  <2>4. job.name \in Names /\ job.id \in Old /\ (vault[job.name] \in Files => vault[job.name].by \in Old)
    BY <1>7, CopyStep DEF Sound, Used, Subject, Making, Aside
  <2>5. \A i \in Ids, t \in Stamps :
          backups'[i][t] = backups[i][t] \/ (i = job.id /\ backups'[i][t] = vault[job.name])
    BY <1>7, CopyStep DEF Sound, TypeOK
  <2> QED
    BY <2>1, <2>2, <2>3, <2>4, <2>5 DEF Sound, Used
<1>8. CASE DeleteMetadata
  <2>1. /\ job.at = "delMeta" /\ job'.at \notin Making /\ job'.file \in {NoFile, job.file}
        /\ UNCHANGED <<vault, backups, exported, refused, lastId>>
        /\ meta' = [meta EXCEPT ![job.name] = Absent]
    BY <1>8 DEF Sound, TypeOK, DeleteMetadata, GoTo, Done, Idle, Making, Jobs
  <2>2. Old' = Old
    BY <2>1 DEF Old, Making
  <2>3. vault[job.name] = NoFile /\ Absent \notin Ids /\ NoFile \notin Files
    BY <2>1, MarksAssumption DEF Sound, Erasing
  <2>4. \A n \in Names : meta'[n] = IF n = job.name THEN Absent ELSE meta[n]
    BY <2>1 DEF Sound, TypeOK
  <2> QED
    BY <2>1, <2>2, <2>3, <2>4 DEF Sound, Used, Making
<1>9. CASE CleanupNext
  <2>1. /\ job.at \notin Making /\ job'.at \notin Making
        /\ UNCHANGED <<meta, vault, backups, exported, refused, lastId>>
    BY <1>9, CleanupNextStep DEF Sound, Making, Idle
  <2>2. Old' = Old
    BY <2>1 DEF Old
  <2>3. job'.file \in Files => job'.file = job.file
    BY <1>9, CleanupNextStep, MarksAssumption DEF Sound, Idle
  <2> QED
    BY <2>1, <2>2, <2>3 DEF Sound, Used
<1> USE BoundsAssumption, MarksAssumption DEF Sound, TypeOK, Course, Subject,
     Unique, Used, Old, Commands, Points, Jobs, Making, Saving, Deleting,
     Aside, Ids, Stamps
<1>10. ASSUME NEW n \in Names, BeginCreate(n) PROVE Used'
  BY <1>10 DEF BeginCreate, Idle
<1>11. ASSUME NEW n \in Names, BeginUse(n) PROVE Used'
  BY <1>11 DEF BeginUse, Begin, Idle, disk, Known
<1>12. ASSUME NEW n \in Names, BeginExportKey(n) PROVE Used'
  BY <1>12 DEF BeginExportKey, Begin, Idle, disk, Known
<1>13. ASSUME NEW n \in Names, BeginClose(n) PROVE Used'
  BY <1>13 DEF BeginClose, Begin, Idle, disk, Known
<1>14. ASSUME NEW n \in Names, BeginPurge(n) PROVE Used'
  BY <1>14 DEF BeginPurge, Begin, Idle, disk, Known
<1>15. ASSUME NEW n \in Names, BeginRecover(n) PROVE Used'
  BY <1>15 DEF BeginRecover, Idle, disk, Known
<1>16. ASSUME NEW n \in Names, BeginDelete(n) PROVE Used'
  BY <1>16 DEF BeginDelete, Begin, Idle, disk, Known
<1>17. ASSUME NEW n \in Names, NEW force \in BOOLEAN, BeginImportKey(n, force) PROVE Used'
  BY <1>17 DEF BeginImportKey, Begin, Idle, disk, Known, Accepts
<1>18. CASE StoreKey
  BY <1>18 DEF StoreKey, GoTo, Running
<1>19. CASE OpenMetadata
  BY <1>19 DEF OpenMetadata, GoTo, Running
<1>20. CASE WriteMetadata
  BY <1>20 DEF WriteMetadata, GoTo, Running
<1>21. CASE SaveRename
  BY <1>21 DEF SaveRename, Rename, Done, Idle
<1>22. CASE LoadFailed
  BY <1>22 DEF LoadFailed, Done, Idle, disk, Loads, Decrypts
<1>23. CASE PurgeLoaded
  BY <1>23 DEF PurgeLoaded, Loaded, Running, Loads, Decrypts, SaveAs, disk
<1>24. CASE ReplaceVault
  BY <1>24 DEF ReplaceVault, GoTo, Running, Decrypts
<1>25. CASE RecoverLoaded
  BY <1>25 DEF RecoverLoaded, Done, Idle, disk, Loaded, Running, Loads,
       Decrypts
<1>26. CASE ImportKey
  BY <1>26 DEF ImportKey, GoTo, Running
<1>27. CASE ImportKeyLoaded
  BY <1>27 DEF ImportKeyLoaded, Done, Idle, disk, Loaded, Running, Loads,
       Decrypts
<1>28. CASE DeleteKey
  BY <1>28 DEF DeleteKey, GoTo, Fault
<1>29. CASE DeleteVault
  BY <1>29 DEF DeleteVault, GoTo
<1>30. CASE BeginCleanup
  BY <1>30 DEF BeginCleanup, Fault, Idle, disk, Known, Status, Loads, Decrypts
<1>31. CASE CleanupSkip
  BY <1>31 DEF CleanupSkip, GoTo, Fault, disk
<1>32. CASE Interrupted
  BY <1>32 DEF Interrupted, Done, Idle, Fault
<1>33. CASE Expire
  BY <1>33 DEF Expire, disk
<1> HIDE DEF Used, Sound
<1> QED
  BY <1>1, <1>2, <1>3, <1>4, <1>5, <1>6, <1>7, <1>8, <1>9, <1>10, <1>11, <1>12,
       <1>13, <1>14, <1>15, <1>16, <1>17, <1>18, <1>19, <1>20, <1>21, <1>22,
       <1>23, <1>24, <1>25, <1>26, <1>27, <1>28, <1>29, <1>30, <1>31, <1>32,
       <1>33
       DEF Next

\* ... what was read at hand until it is written,
LEMMA ReadingStep ==
  ASSUME Sound, Next
  PROVE  Reading'
<1>1. CASE CopyOpen
  <2>1. /\ job'.at = "copy" /\ job'.stamp \in Stamps /\ job'.name = job.name
        /\ job.at = "copyOpen" /\ job.cmd # "create" /\ job'.cmd = job.cmd
        /\ vault' = vault /\ vault[job.name] # NoFile
    BY <1>1 DEF CopyOpen, Sound, TypeOK, Jobs, Course, Reading
  <2> QED
    BY <2>1 DEF Reading
<1>2. CASE Copy
  <2>1. job'.at \in {"idle", "load"} /\ job'.cmd # "create"
    BY <1>2, CopyStep DEF Sound, Course, Idle
  <2> QED
    BY <2>1 DEF Reading
<1> USE BoundsAssumption, MarksAssumption DEF Sound, TypeOK, Course, Subject,
     Unique, Used, Writing, Reading, Old, Commands, Points, Jobs, Making,
     Saving, Deleting, Aside, Ids, Stamps
<1>3. ASSUME NEW n \in Names, BeginCreate(n) PROVE Reading'
  BY <1>3 DEF BeginCreate, Idle
<1>4. ASSUME NEW n \in Names, BeginUse(n) PROVE Reading'
  BY <1>4 DEF BeginUse, Begin, Idle, disk, Known
<1>5. ASSUME NEW n \in Names, BeginExportKey(n) PROVE Reading'
  BY <1>5 DEF BeginExportKey, Begin, Idle, disk, Known
<1>6. ASSUME NEW n \in Names, BeginClose(n) PROVE Reading'
  BY <1>6 DEF BeginClose, Begin, Idle, disk, Known
<1>7. ASSUME NEW n \in Names, BeginPurge(n) PROVE Reading'
  BY <1>7 DEF BeginPurge, Begin, Idle, disk, Known
<1>8. ASSUME NEW n \in Names, BeginRecover(n) PROVE Reading'
  BY <1>8 DEF BeginRecover, Idle, disk, Known
<1>9. ASSUME NEW n \in Names, BeginDelete(n) PROVE Reading'
  BY <1>9 DEF BeginDelete, Begin, Idle, disk, Known
<1>10. ASSUME NEW n \in Names, NEW force \in BOOLEAN, BeginImportKey(n, force) PROVE Reading'
  BY <1>10 DEF BeginImportKey, Begin, Idle, disk, Known, Accepts
<1>11. CASE StoreKey
  BY <1>11 DEF StoreKey, GoTo, Running
<1>12. CASE OpenMetadata
  BY <1>12 DEF OpenMetadata, GoTo, Running
<1>13. CASE WriteMetadata
  BY <1>13 DEF WriteMetadata, GoTo, Running
<1>14. CASE SaveTemporary
  BY <1>14, TemporaryStep DEF Idle
<1>15. CASE SaveRename
  BY <1>15 DEF SaveRename, Rename, Done, Idle
<1>16. CASE LoadFailed
  BY <1>16 DEF LoadFailed, Done, Idle, disk, Loads, Decrypts
<1>17. CASE UseLoaded
  BY <1>17, UseStep
<1>18. CASE ExportKeyLoaded
  BY <1>18 DEF ExportKeyLoaded, Done, Idle, Loaded, Running, Loads, Decrypts
<1>19. CASE PurgeLoaded
  BY <1>19 DEF PurgeLoaded, Loaded, Running, Loads, Decrypts, SaveAs, disk
<1>20. CASE ReplaceVault
  BY <1>20 DEF ReplaceVault, GoTo, Running, Decrypts
<1>21. CASE RecoverLoaded
  BY <1>21 DEF RecoverLoaded, Done, Idle, disk, Loaded, Running, Loads,
       Decrypts
<1>22. CASE ImportKey
  BY <1>22 DEF ImportKey, GoTo, Running
<1>23. CASE ImportKeyLoaded
  BY <1>23 DEF ImportKeyLoaded, Done, Idle, disk, Loaded, Running, Loads,
       Decrypts
<1>24. CASE DeleteKey
  BY <1>24 DEF DeleteKey, GoTo, Fault
<1>25. CASE DeleteVault
  BY <1>25 DEF DeleteVault, GoTo
<1>26. CASE DeleteMetadata
  BY <1>26 DEF DeleteMetadata, GoTo, Done, Idle
<1>27. CASE BeginCleanup
  BY <1>27 DEF BeginCleanup, Fault, Idle, disk, Known, Status, Loads, Decrypts
<1>28. CASE CleanupNext
  BY <1>28, CleanupNextStep DEF Idle
<1>29. CASE CleanupSkip
  BY <1>29 DEF CleanupSkip, GoTo, Fault, disk
<1>30. CASE Interrupted
  BY <1>30 DEF Interrupted, Done, Idle, Fault
<1>31. CASE Expire
  BY <1>31 DEF Expire, disk
<1>32. CASE RestoreLoaded
  BY <1>32, RestoreStep
<1>33. CASE RestoreRename
  BY <1>33, RestoredStep
<1> HIDE DEF Reading, Sound
<1> QED
  BY <1>1, <1>2, <1>3, <1>4, <1>5, <1>6, <1>7, <1>8, <1>9, <1>10, <1>11, <1>12,
       <1>13, <1>14, <1>15, <1>16, <1>17, <1>18, <1>19, <1>20, <1>21, <1>22,
       <1>23, <1>24, <1>25, <1>26, <1>27, <1>28, <1>29, <1>30, <1>31, <1>32,
       <1>33
       DEF Next

\* ... what is written a successor of what was read,
LEMMA WritingStep ==
  ASSUME Sound, Next
  PROVE  Writing'
<1>1. CASE SaveTemporary
  <2>1. Content' = Content
    BY <1>1, TemporaryStep DEF Sound, Content
  <2>2. job'.file \in {Torn, Content'} /\ job.at = "save" /\ job'.at = "rename"
    BY <1>1, <2>1, TemporaryStep DEF Sound
  <2> QED
    BY <1>1, <2>2, TemporaryStep DEF Sound, Writing, Saving, Decrypts
<1>2. CASE UseLoaded
  <2>1. job.id \in keychain /\ Decrypts(vault[job.name], job.id)
    BY <1>2, UseStep DEF Loads, Sound, Subject, Aside, Making
  <2> QED
    BY <1>2, <2>1, UseStep DEF Sound, Writing, Saving, Decrypts
<1>3. CASE RestoreLoaded
  <2>1. job.id \in keychain /\ Decrypts(vault[job.name], job.id)
    BY <1>3, RestoreStep DEF Loads, Sound, Subject, Aside, Making
  <2> QED
    BY <1>3, <2>1, RestoreStep DEF Sound, Writing, Saving, Decrypts
<1>4. CASE RestoreRename
  <2>1. /\ job.name \in Names /\ job.id \in Ids /\ job.id \in keychain
        /\ job.destructs /\ job.file \in {Torn, Content}
        /\ job.items \subseteq Items /\ job.destructs \in BOOLEAN
    BY <1>4, RestoredStep DEF Sound, TypeOK, Jobs, Subject, Writing, Saving, Aside
  <2>2. vault'[job.name] = job.file
    BY <1>4, <2>1, RestoredStep DEF Sound, TypeOK
  <2>3. job.file # Torn => Decrypts(job.file, job.id) /\ job.file.destructs
    <3>1. Content \in Files /\ Content.by = job.id /\ Content.destructs
      BY <2>1 DEF Files, Content
    <3> QED
      BY <2>1, <3>1 DEF Decrypts
  <2>4. \/ vault'[job.name] = Torn
        \/ Decrypts(vault'[job.name], job.id) /\ vault'[job.name].destructs
    BY <2>1, <2>2, <2>3
  <2>5. /\ job'.at = "save" /\ job'.cmd = "wipe" /\ job'.name = job.name /\ job'.id = job.id
        /\ job'.items = {} /\ job'.destructs /\ job'.id \in keychain'
    BY <1>4, <2>1, RestoredStep DEF Sound
  <2> QED
    BY <2>4, <2>5 DEF Writing, Saving, Decrypts
<1>5. CASE Expire
  <2>1. UNCHANGED <<job, keychain, vault, backups>>
    BY <1>5 DEF Expire, disk
  <2> QED
    BY <2>1 DEF Sound, Writing, Content, Decrypts
<1> USE BoundsAssumption, MarksAssumption DEF Sound, TypeOK, Course, Subject,
     Unique, Used, Reading, Recoverable, Writing, Old, Decrypts, Commands,
     Points, Jobs, Making, Saving, Deleting, Aside, Ids, Stamps
<1>6. ASSUME NEW n \in Names, BeginCreate(n) PROVE Writing'
  BY <1>6 DEF BeginCreate, Idle
<1>7. ASSUME NEW n \in Names, BeginUse(n) PROVE Writing'
  BY <1>7 DEF BeginUse, Begin, Idle, disk, Known
<1>8. ASSUME NEW n \in Names, BeginExportKey(n) PROVE Writing'
  BY <1>8 DEF BeginExportKey, Begin, Idle, disk, Known
<1>9. ASSUME NEW n \in Names, BeginClose(n) PROVE Writing'
  BY <1>9 DEF BeginClose, Begin, Idle, disk, Known
<1>10. ASSUME NEW n \in Names, BeginPurge(n) PROVE Writing'
  BY <1>10 DEF BeginPurge, Begin, Idle, disk, Known
<1>11. ASSUME NEW n \in Names, BeginRecover(n) PROVE Writing'
  BY <1>11 DEF BeginRecover, Idle, disk, Known
<1>12. ASSUME NEW n \in Names, BeginDelete(n) PROVE Writing'
  BY <1>12 DEF BeginDelete, Begin, Idle, disk, Known
<1>13. ASSUME NEW n \in Names, NEW force \in BOOLEAN, BeginImportKey(n, force) PROVE Writing'
  BY <1>13 DEF BeginImportKey, Begin, Idle, disk, Known, Accepts
<1>14. CASE StoreKey
  BY <1>14 DEF StoreKey, GoTo, Running
<1>15. CASE OpenMetadata
  BY <1>15 DEF OpenMetadata, GoTo, Running
<1>16. CASE WriteMetadata
  BY <1>16 DEF WriteMetadata, GoTo, Running
<1>17. CASE SaveRename
  BY <1>17 DEF SaveRename, Rename, Done, Idle
<1>18. CASE LoadFailed
  BY <1>18 DEF LoadFailed, Done, Idle, disk, Loads
<1>19. CASE ExportKeyLoaded
  BY <1>19 DEF ExportKeyLoaded, Done, Idle, Loaded, Running, Loads
<1>20. CASE CopyOpen
  BY <1>20 DEF CopyOpen, Taken
<1>21. CASE Copy
  BY <1>21, CopyStep DEF Idle
<1>22. CASE PurgeLoaded
  BY <1>22 DEF PurgeLoaded, Loaded, Running, Loads, SaveAs, disk
<1>23. CASE ReplaceVault
  BY <1>23 DEF ReplaceVault, GoTo, Running
<1>24. CASE RecoverLoaded
  BY <1>24 DEF RecoverLoaded, Done, Idle, disk, Loaded, Running, Loads
<1>25. CASE ImportKey
  BY <1>25 DEF ImportKey, GoTo, Running
<1>26. CASE ImportKeyLoaded
  BY <1>26 DEF ImportKeyLoaded, Done, Idle, disk, Loaded, Running, Loads
<1>27. CASE DeleteKey
  BY <1>27 DEF DeleteKey, GoTo, Fault
<1>28. CASE DeleteVault
  BY <1>28 DEF DeleteVault, GoTo
<1>29. CASE DeleteMetadata
  BY <1>29 DEF DeleteMetadata, GoTo, Done, Idle
<1>30. CASE BeginCleanup
  BY <1>30 DEF BeginCleanup, Fault, Idle, disk, Known, Status, Loads
<1>31. CASE CleanupNext
  BY <1>31, CleanupNextStep DEF Idle
<1>32. CASE CleanupSkip
  BY <1>32 DEF CleanupSkip, GoTo, Fault, disk
<1>33. CASE Interrupted
  BY <1>33 DEF Interrupted, Done, Idle, Fault
<1> HIDE DEF Writing, Sound
<1> QED
  BY <1>1, <1>2, <1>3, <1>4, <1>5, <1>6, <1>7, <1>8, <1>9, <1>10, <1>11, <1>12,
       <1>13, <1>14, <1>15, <1>16, <1>17, <1>18, <1>19, <1>20, <1>21, <1>22,
       <1>23, <1>24, <1>25, <1>26, <1>27, <1>28, <1>29, <1>30, <1>31, <1>32,
       <1>33
       DEF Next

\* ... a deletion's key gone before its files,
LEMMA ErasingStep ==
  ASSUME Sound, Next
  PROVE  Erasing'
<1> USE BoundsAssumption, MarksAssumption DEF Sound, TypeOK, Course, Subject,
     Erasing, Commands, Points, Jobs, Making, Saving, Deleting, Aside, Ids,
     Stamps
<1>1. ASSUME NEW n \in Names, BeginCreate(n) PROVE Erasing'
  BY <1>1 DEF BeginCreate, Idle
<1>2. ASSUME NEW n \in Names, BeginUse(n) PROVE Erasing'
  BY <1>2 DEF BeginUse, Begin, Idle, disk, Known
<1>3. ASSUME NEW n \in Names, BeginExportKey(n) PROVE Erasing'
  BY <1>3 DEF BeginExportKey, Begin, Idle, disk, Known
<1>4. ASSUME NEW n \in Names, BeginClose(n) PROVE Erasing'
  BY <1>4 DEF BeginClose, Begin, Idle, disk, Known
<1>5. ASSUME NEW n \in Names, BeginPurge(n) PROVE Erasing'
  BY <1>5 DEF BeginPurge, Begin, Idle, disk, Known
<1>6. ASSUME NEW n \in Names, BeginRecover(n) PROVE Erasing'
  BY <1>6 DEF BeginRecover, Idle, disk, Known
<1>7. ASSUME NEW n \in Names, BeginDelete(n) PROVE Erasing'
  BY <1>7 DEF BeginDelete, Begin, Idle, disk, Known
<1>8. ASSUME NEW n \in Names, NEW force \in BOOLEAN, BeginImportKey(n, force) PROVE Erasing'
  BY <1>8 DEF BeginImportKey, Begin, Idle, disk, Known, Accepts
<1>9. CASE StoreKey
  BY <1>9 DEF StoreKey, GoTo, Running
<1>10. CASE OpenMetadata
  BY <1>10 DEF OpenMetadata, GoTo, Running
<1>11. CASE WriteMetadata
  BY <1>11 DEF WriteMetadata, GoTo, Running
<1>12. CASE SaveTemporary
  BY <1>12, TemporaryStep DEF Idle
<1>13. CASE SaveRename
  BY <1>13 DEF SaveRename, Rename, Done, Idle
<1>14. CASE LoadFailed
  BY <1>14 DEF LoadFailed, Done, Idle, disk, Loads, Decrypts
<1>15. CASE UseLoaded
  BY <1>15, UseStep
<1>16. CASE ExportKeyLoaded
  BY <1>16 DEF ExportKeyLoaded, Done, Idle, Loaded, Running, Loads, Decrypts
<1>17. CASE CopyOpen
  BY <1>17 DEF CopyOpen, Taken
<1>18. CASE Copy
  BY <1>18, CopyStep DEF Idle
<1>19. CASE PurgeLoaded
  BY <1>19 DEF PurgeLoaded, Loaded, Running, Loads, Decrypts, SaveAs, disk
<1>20. CASE ReplaceVault
  BY <1>20 DEF ReplaceVault, GoTo, Running, Decrypts
<1>21. CASE RecoverLoaded
  BY <1>21 DEF RecoverLoaded, Done, Idle, disk, Loaded, Running, Loads,
       Decrypts
<1>22. CASE ImportKey
  BY <1>22 DEF ImportKey, GoTo, Running
<1>23. CASE ImportKeyLoaded
  BY <1>23 DEF ImportKeyLoaded, Done, Idle, disk, Loaded, Running, Loads,
       Decrypts
<1>24. CASE DeleteKey
  BY <1>24 DEF DeleteKey, GoTo, Fault
<1>25. CASE DeleteVault
  BY <1>25 DEF DeleteVault, GoTo
<1>26. CASE DeleteMetadata
  BY <1>26 DEF DeleteMetadata, GoTo, Done, Idle
<1>27. CASE BeginCleanup
  BY <1>27 DEF BeginCleanup, Fault, Idle, disk, Known, Status, Loads, Decrypts
<1>28. CASE CleanupNext
  BY <1>28, CleanupNextStep DEF Idle
<1>29. CASE CleanupSkip
  BY <1>29 DEF CleanupSkip, GoTo, Fault, disk
<1>30. CASE Interrupted
  BY <1>30 DEF Interrupted, Done, Idle, Fault
<1>31. CASE Expire
  BY <1>31 DEF Expire, disk
<1>32. CASE RestoreLoaded
  BY <1>32, RestoreStep
<1>33. CASE RestoreRename
  BY <1>33, RestoredStep
<1> HIDE DEF Erasing, Sound
<1> QED
  BY <1>1, <1>2, <1>3, <1>4, <1>5, <1>6, <1>7, <1>8, <1>9, <1>10, <1>11, <1>12,
       <1>13, <1>14, <1>15, <1>16, <1>17, <1>18, <1>19, <1>20, <1>21, <1>22,
       <1>23, <1>24, <1>25, <1>26, <1>27, <1>28, <1>29, <1>30, <1>31, <1>32,
       <1>33
       DEF Next

\* ... a cleanup to what could not be opened,
LEMMA SparedStep ==
  ASSUME Sound, Next
  PROVE  Spared'
<1>1. CASE Copy
  <2>1. job'.cmd # "cleanup"
    BY <1>1, CopyStep DEF Sound, Course, Idle
  <2> QED
    BY <2>1 DEF Spared
<1>2. CASE DeleteMetadata
  <2>1. /\ job.at = "delMeta" /\ meta' = [meta EXCEPT ![job.name] = Absent]
        /\ UNCHANGED <<keychain, vault, expired>>
        /\ \/ job' = Idle
           \/ /\ job'.at = "next" /\ job'.cmd = job.cmd
              /\ job'.todo = job.todo /\ job'.misread = job.misread
    BY <1>2 DEF Sound, TypeOK, Jobs, DeleteMetadata, GoTo, Done
  <2>2. job.cmd = "cleanup" => job.name \notin job.todo /\ job.todo \subseteq Names
    BY <2>1 DEF Sound, TypeOK, Jobs, Subject
  <2>3. \A n \in Names \ {job.name} : Loads(n)' = Loads(n)
    BY <2>1 DEF Sound, TypeOK, Loads, Decrypts
  <2> QED
    BY <2>1, <2>2, <2>3 DEF Sound, Spared, Idle
<1> USE BoundsAssumption, MarksAssumption DEF Sound, TypeOK, Course, Subject,
     Unique, Spared, Loads, Decrypts, Commands, Points, Jobs, Making, Saving,
     Deleting, Aside, Ids, Stamps
<1>3. ASSUME NEW n \in Names, BeginCreate(n) PROVE Spared'
  BY <1>3 DEF BeginCreate, Idle
<1>4. ASSUME NEW n \in Names, BeginUse(n) PROVE Spared'
  BY <1>4 DEF BeginUse, Begin, Idle, disk, Known
<1>5. ASSUME NEW n \in Names, BeginExportKey(n) PROVE Spared'
  BY <1>5 DEF BeginExportKey, Begin, Idle, disk, Known
<1>6. ASSUME NEW n \in Names, BeginClose(n) PROVE Spared'
  BY <1>6 DEF BeginClose, Begin, Idle, disk, Known
<1>7. ASSUME NEW n \in Names, BeginPurge(n) PROVE Spared'
  BY <1>7 DEF BeginPurge, Begin, Idle, disk, Known
<1>8. ASSUME NEW n \in Names, BeginRecover(n) PROVE Spared'
  BY <1>8 DEF BeginRecover, Idle, disk, Known
<1>9. ASSUME NEW n \in Names, BeginDelete(n) PROVE Spared'
  BY <1>9 DEF BeginDelete, Begin, Idle, disk, Known
<1>10. ASSUME NEW n \in Names, NEW force \in BOOLEAN, BeginImportKey(n, force) PROVE Spared'
  BY <1>10 DEF BeginImportKey, Begin, Idle, disk, Known, Accepts
<1>11. CASE StoreKey
  BY <1>11 DEF StoreKey, GoTo, Running
<1>12. CASE OpenMetadata
  BY <1>12 DEF OpenMetadata, GoTo, Running
<1>13. CASE WriteMetadata
  BY <1>13 DEF WriteMetadata, GoTo, Running
<1>14. CASE SaveTemporary
  BY <1>14, TemporaryStep DEF Idle
<1>15. CASE SaveRename
  BY <1>15 DEF SaveRename, Rename, Done, Idle
<1>16. CASE LoadFailed
  BY <1>16 DEF LoadFailed, Done, Idle, disk
<1>17. CASE UseLoaded
  BY <1>17, UseStep
<1>18. CASE ExportKeyLoaded
  BY <1>18 DEF ExportKeyLoaded, Done, Idle, Loaded, Running
<1>19. CASE CopyOpen
  BY <1>19 DEF CopyOpen, Taken
<1>20. CASE PurgeLoaded
  BY <1>20 DEF PurgeLoaded, Loaded, Running, SaveAs, disk
<1>21. CASE ReplaceVault
  BY <1>21 DEF ReplaceVault, GoTo, Running
<1>22. CASE RecoverLoaded
  BY <1>22 DEF RecoverLoaded, Done, Idle, disk, Loaded, Running
<1>23. CASE ImportKey
  BY <1>23 DEF ImportKey, GoTo, Running
<1>24. CASE ImportKeyLoaded
  BY <1>24 DEF ImportKeyLoaded, Done, Idle, disk, Loaded, Running
<1>25. CASE DeleteKey
  BY <1>25 DEF DeleteKey, GoTo, Fault
<1>26. CASE DeleteVault
  BY <1>26 DEF DeleteVault, GoTo
<1>27. CASE BeginCleanup
  BY <1>27 DEF BeginCleanup, Fault, Idle, disk, Known, Status
<1>28. CASE CleanupNext
  BY <1>28, CleanupNextStep DEF Idle
<1>29. CASE CleanupSkip
  BY <1>29 DEF CleanupSkip, GoTo, Fault, disk
<1>30. CASE Interrupted
  BY <1>30 DEF Interrupted, Done, Idle, Fault
<1>31. CASE Expire
  BY <1>31 DEF Expire, disk
<1>32. CASE RestoreLoaded
  BY <1>32, RestoreStep
<1>33. CASE RestoreRename
  BY <1>33, RestoredStep
<1> HIDE DEF Spared, Sound
<1> QED
  BY <1>1, <1>2, <1>3, <1>4, <1>5, <1>6, <1>7, <1>8, <1>9, <1>10, <1>11, <1>12,
       <1>13, <1>14, <1>15, <1>16, <1>17, <1>18, <1>19, <1>20, <1>21, <1>22,
       <1>23, <1>24, <1>25, <1>26, <1>27, <1>28, <1>29, <1>30, <1>31, <1>32,
       <1>33
       DEF Next

LEMMA HeldKept ==
  ASSUME Held, job.at \notin Making, UNCHANGED <<meta, keychain, backups, exported, refused>>
  PROVE  Held'
  BY DEF Held

\* ... a key with a name, or with no backup,
LEMMA HeldStep ==
  ASSUME Sound, Next
  PROVE  Held'
<1>1. ASSUME NEW n \in Names, BeginClose(n) PROVE Held'
  <2>1. job.at \notin Making /\ UNCHANGED <<meta, keychain, backups, exported, refused>>
    BY <1>1 DEF BeginClose, Begin, Idle, Making, disk
  <2> QED
    BY <2>1, HeldKept DEF Sound
<1>2. ASSUME NEW n \in Names, BeginPurge(n) PROVE Held'
  <2>1. job.at \notin Making /\ UNCHANGED <<meta, keychain, backups, exported, refused>>
    BY <1>2 DEF BeginPurge, Begin, Idle, Making, disk
  <2> QED
    BY <2>1, HeldKept DEF Sound
<1>3. ASSUME NEW n \in Names, NEW force \in BOOLEAN, BeginImportKey(n, force) PROVE Held'
  <2>1. job.at \notin Making /\ UNCHANGED <<meta, keychain, backups, exported, refused>>
    BY <1>3 DEF BeginImportKey, Begin, Idle, Making, disk
  <2> QED
    BY <2>1, HeldKept DEF Sound
<1>4. CASE SaveRename
  <2>1. job.at \notin Making /\ UNCHANGED <<meta, keychain, backups, exported, refused>>
    BY <1>4 DEF SaveRename, Rename, Making
  <2> QED
    BY <2>1, HeldKept DEF Sound
<1>5. CASE LoadFailed
  <2>1. job.at \notin Making /\ UNCHANGED <<meta, keychain, backups, exported, refused>>
    BY <1>5 DEF LoadFailed, Making, disk
  <2> QED
    BY <2>1, HeldKept DEF Sound
<1>6. CASE PurgeLoaded
  <2>1. job.at \notin Making /\ UNCHANGED <<meta, keychain, backups, exported, refused>>
    BY <1>6 DEF PurgeLoaded, Loaded, Running, SaveAs, Making, disk
  <2> QED
    BY <2>1, HeldKept DEF Sound
<1>7. CASE ReplaceVault
  <2>1. job.at \notin Making /\ UNCHANGED <<meta, keychain, backups, exported, refused>>
    BY <1>7 DEF ReplaceVault, Running, Making
  <2> QED
    BY <2>1, HeldKept DEF Sound
<1>8. CASE RecoverLoaded
  <2>1. job.at \notin Making /\ UNCHANGED <<meta, keychain, backups, exported, refused>>
    BY <1>8 DEF RecoverLoaded, Loaded, Running, Making, disk
  <2> QED
    BY <2>1, HeldKept DEF Sound
<1>9. CASE ImportKeyLoaded
  <2>1. job.at \notin Making /\ UNCHANGED <<meta, keychain, backups, exported, refused>>
    BY <1>9 DEF ImportKeyLoaded, Loaded, Running, Making, disk
  <2> QED
    BY <2>1, HeldKept DEF Sound
<1>10. CASE BeginCleanup
  <2>1. job.at \notin Making /\ UNCHANGED <<meta, keychain, backups, exported, refused>>
    BY <1>10 DEF BeginCleanup, Idle, Making, disk
  <2> QED
    BY <2>1, HeldKept DEF Sound
<1>11. CASE CleanupSkip
  <2>1. job.at \notin Making /\ UNCHANGED <<meta, keychain, backups, exported, refused>>
    BY <1>11 DEF Sound, Course, CleanupSkip, Making, disk
  <2> QED
    BY <2>1, HeldKept DEF Sound
<1>12. CASE ExportKeyLoaded
  <2>1. /\ job.at \notin Making /\ UNCHANGED <<meta, keychain, backups, refused>>
        /\ exported \subseteq exported'
    BY <1>12 DEF ExportKeyLoaded, Loaded, Running, Making
  <2> QED
    BY <2>1 DEF Sound, Held
<1>13. CASE ImportKey
  <2>1. /\ job.at \notin Making /\ UNCHANGED <<meta, backups, exported, refused>>
        /\ keychain' = keychain \union {job.id} /\ job.id \in exported
    BY <1>13 DEF ImportKey, Running, Making, Sound, Reading
  <2> QED
    BY <2>1 DEF Sound, Held
<1>14. CASE DeleteMetadata
  <2>1. /\ job.at \notin Making /\ UNCHANGED <<keychain, backups, exported, refused>>
        /\ meta' = [meta EXCEPT ![job.name] = Absent]
        /\ job.name \in Names /\ meta[job.name] = job.id
        /\ job.id \notin keychain \/ job.id \in refused
    BY <1>14 DEF DeleteMetadata, Making, Aside, Sound, Subject, Erasing
  <2>2. \A n \in Names : n # job.name => meta'[n] = meta[n]
    BY <2>1 DEF Sound, TypeOK
  <2> QED
    BY <2>1, <2>2 DEF Sound, Held
<1>15. CASE Expire
  <2>1. UNCHANGED <<meta, keychain, backups, exported, refused, job>>
    BY <1>15 DEF Expire, disk
  <2> QED
    BY <2>1 DEF Sound, Held
<1>16. ASSUME NEW n \in Names, BeginUse(n) PROVE Held'
  <2>1. job.at \notin Making /\ UNCHANGED <<meta, keychain, backups, exported, refused>>
    BY <1>16 DEF BeginUse, Begin, Idle, Making, disk
  <2> QED
    BY <2>1, HeldKept DEF Sound
<1>17. ASSUME NEW n \in Names, BeginExportKey(n) PROVE Held'
  <2>1. job.at \notin Making /\ UNCHANGED <<meta, keychain, backups, exported, refused>>
    BY <1>17 DEF BeginExportKey, Begin, Idle, Making, disk
  <2> QED
    BY <2>1, HeldKept DEF Sound
<1>18. ASSUME NEW n \in Names, BeginDelete(n) PROVE Held'
  <2>1. job.at \notin Making /\ UNCHANGED <<meta, keychain, backups, exported, refused>>
    BY <1>18 DEF BeginDelete, Begin, Idle, Making, disk
  <2> QED
    BY <2>1, HeldKept DEF Sound
<1>19. CASE UseLoaded
  <2>1. job.at \notin Making /\ UNCHANGED <<meta, keychain, backups, exported, refused>>
    BY <1>19, UseStep DEF Sound, Making
  <2> QED
    BY <2>1, HeldKept DEF Sound
<1>20. CASE DeleteVault
  <2>1. job.at \notin Making /\ UNCHANGED <<meta, keychain, backups, exported, refused>>
    BY <1>20 DEF DeleteVault, Making
  <2> QED
    BY <2>1, HeldKept DEF Sound
<1>21. CASE RestoreLoaded
  <2>1. job.at \notin Making /\ UNCHANGED <<meta, keychain, backups, exported, refused>>
    BY <1>21, RestoreStep DEF Sound, Making
  <2> QED
    BY <2>1, HeldKept DEF Sound
<1>22. CASE RestoreRename
  <2>1. job.at \notin Making /\ UNCHANGED <<meta, keychain, backups, exported, refused>>
    BY <1>22, RestoredStep DEF Sound, Making
  <2> QED
    BY <2>1, HeldKept DEF Sound
<1>23. CASE DeleteKey
  <2>1. /\ job.at \notin Making /\ UNCHANGED <<meta, backups, exported>>
        /\ keychain' \ refused' \subseteq keychain \ refused
    BY <1>23 DEF DeleteKey, Making
  <2> QED
    BY <2>1 DEF Sound, Held
<1>24. CASE Interrupted
  <2>1. UNCHANGED <<meta, keychain, backups, exported, refused>>
    BY <1>24 DEF Interrupted
  <2>2. job.at \in Making => \A t \in Stamps : backups[job.id][t] = NoFile
    BY DEF Sound, Used, Subject, Old, Aside, Making
  <2> QED
    BY <2>1, <2>2 DEF Sound, Held
<1>25. ASSUME NEW n \in Names, BeginRecover(n) PROVE Held'
  <2>1. job.at \notin Making /\ UNCHANGED <<meta, keychain, backups, exported, refused>>
    BY <1>25 DEF BeginRecover, Idle, Making, disk
  <2> QED
    BY <2>1 DEF Sound, Held
<1>26. CASE StoreKey
  <2>1. /\ job.at \in Making /\ job'.at \in Making /\ job'.id = job.id
        /\ keychain' = keychain \union {job.id}
        /\ UNCHANGED <<meta, backups, exported, refused>>
    BY <1>26 DEF Sound, TypeOK, Jobs, StoreKey, Running, GoTo, Making
  <2> QED
    BY <2>1 DEF Sound, Held
<1>27. CASE OpenMetadata
  <2>1. /\ job.at \in Making /\ job'.at \in Making /\ job'.id = job.id
        /\ meta[job.name] = Absent /\ meta' = [meta EXCEPT ![job.name] = Broken]
        /\ UNCHANGED <<keychain, backups, exported, refused>>
    BY <1>27 DEF Sound, TypeOK, Jobs, Subject, OpenMetadata, Running, GoTo, Making
  <2>2. \A n \in Names, i \in Ids : meta[n] = i => meta'[n] = i
    BY <2>1, MarksAssumption DEF Sound, TypeOK
  <2> QED
    BY <2>1, <2>2 DEF Sound, TypeOK, Held
<1>28. CASE SaveTemporary
  <2>1. job.at \notin Making /\ UNCHANGED <<meta, keychain, backups, exported, refused>>
    BY <1>28, TemporaryStep DEF Sound, Making
  <2> QED
    BY <2>1 DEF Sound, Held
<1>29. CASE CopyOpen
  <2>1. /\ job.at \notin Making /\ UNCHANGED <<meta, keychain, exported, refused>>
        /\ job.name \in Names /\ meta[job.name] = job.id
        /\ \A i \in Ids \ {job.id} : backups'[i] = backups[i]
    BY <1>29 DEF Sound, TypeOK, Subject, Making, Aside, CopyOpen
  <2> QED
    BY <2>1 DEF Sound, TypeOK, Held
<1>30. CASE Copy
  <2>1. /\ job.at \notin Making /\ UNCHANGED <<meta, keychain, exported, refused>>
        /\ job.name \in Names /\ meta[job.name] = job.id
        /\ \A i \in Ids \ {job.id} : backups'[i] = backups[i]
    BY <1>30, CopyStep DEF Sound, TypeOK, Subject, Making, Aside
  <2> QED
    BY <2>1 DEF Sound, TypeOK, Held
<1>31. CASE CleanupNext
  <2>1. job.at \notin Making /\ UNCHANGED <<meta, keychain, backups, exported, refused>>
    BY <1>31, CleanupNextStep DEF Sound, Making
  <2> QED
    BY <2>1 DEF Sound, Held
<1> USE BoundsAssumption, MarksAssumption DEF Sound, TypeOK, Course, Subject,
     Unique, Used, Erasing, Reading, Held, Old, Commands, Points, Jobs,
     Making, Saving, Deleting, Aside, Ids, Stamps
<1>32. ASSUME NEW n \in Names, BeginCreate(n) PROVE Held'
  BY <1>32 DEF BeginCreate, Idle
<1>33. CASE WriteMetadata
  BY <1>33, SMTT(30) DEF WriteMetadata, GoTo, Running
<1> HIDE DEF Held, Sound
<1> QED
  BY <1>1, <1>2, <1>3, <1>4, <1>5, <1>6, <1>7, <1>8, <1>9, <1>10, <1>11, <1>12,
       <1>13, <1>14, <1>15, <1>16, <1>17, <1>18, <1>19, <1>20, <1>21, <1>22,
       <1>23, <1>24, <1>25, <1>26, <1>27, <1>28, <1>29, <1>30, <1>31, <1>32,
       <1>33
       DEF Next

\* ... and a workspace with its key and a vault of that key.
LEMMA RecoverableStep ==
  ASSUME Sound, Next
  PROVE  Recoverable'
<1>1. CASE SaveRename \/ RestoreRename
  <2>1. /\ job.at = "rename" /\ UNCHANGED <<meta, keychain>>
        /\ vault' = [vault EXCEPT ![job.name] = job.file]
        /\ excused \subseteq excused' /\ (job.file = Torn => job.id \in excused')
    BY <1>1 DEF SaveRename, RestoreRename, Rename
  <2>2. /\ job.name \in Names /\ job.id \in Ids /\ meta[job.name] = job.id /\ job.id \in keychain
        /\ job.file \in {Torn, Content}
        /\ job.items \subseteq Items /\ job.destructs \in BOOLEAN
    BY <2>1 DEF Sound, TypeOK, Jobs, Subject, Writing, Aside, Making, Saving
  <2>3. job.file # Torn => Decrypts(job.file, job.id)
    BY <2>2 DEF Decrypts, Files, Content
  <2>4. ASSUME NEW n \in Names, meta'[n] \in Ids \ excused'
        PROVE  meta'[n] \in keychain' /\ Decrypts(vault'[n], meta'[n])
    <3>1. CASE n = job.name
      BY <2>1, <2>2, <2>3, <2>4, <3>1 DEF Sound, TypeOK
    <3>2. CASE n # job.name
      BY <2>1, <2>2, <2>4, <3>2 DEF Sound, TypeOK, Recoverable
    <3> QED
      BY <3>1, <3>2
  <2> QED
    BY <2>4 DEF Recoverable
<1> USE BoundsAssumption, MarksAssumption DEF Sound, TypeOK, Course, Subject,
     Unique, Used, Reading, Writing, Erasing, Recoverable, Old, Decrypts,
     Commands, Points, Jobs, Making, Saving, Deleting, Aside, Ids, Stamps
<1>2. ASSUME NEW n \in Names, BeginCreate(n) PROVE Recoverable'
  BY <1>2 DEF BeginCreate, Idle
<1>3. ASSUME NEW n \in Names, BeginUse(n) PROVE Recoverable'
  BY <1>3 DEF BeginUse, Begin, Idle, disk, Known
<1>4. ASSUME NEW n \in Names, BeginExportKey(n) PROVE Recoverable'
  BY <1>4 DEF BeginExportKey, Begin, Idle, disk, Known
<1>5. ASSUME NEW n \in Names, BeginClose(n) PROVE Recoverable'
  BY <1>5 DEF BeginClose, Begin, Idle, disk, Known
<1>6. ASSUME NEW n \in Names, BeginPurge(n) PROVE Recoverable'
  BY <1>6 DEF BeginPurge, Begin, Idle, disk, Known
<1>7. ASSUME NEW n \in Names, BeginRecover(n) PROVE Recoverable'
  BY <1>7 DEF BeginRecover, Idle, disk, Known
<1>8. ASSUME NEW n \in Names, BeginDelete(n) PROVE Recoverable'
  BY <1>8 DEF BeginDelete, Begin, Idle, disk, Known
<1>9. ASSUME NEW n \in Names, NEW force \in BOOLEAN, BeginImportKey(n, force) PROVE Recoverable'
  BY <1>9 DEF BeginImportKey, Begin, Idle, disk, Known, Accepts
<1>10. CASE StoreKey
  BY <1>10 DEF StoreKey, GoTo, Running
<1>11. CASE OpenMetadata
  BY <1>11 DEF OpenMetadata, GoTo, Running
<1>12. CASE WriteMetadata
  BY <1>12 DEF WriteMetadata, GoTo, Running
<1>13. CASE SaveTemporary
  BY <1>13, TemporaryStep DEF Idle
<1>14. CASE LoadFailed
  BY <1>14 DEF LoadFailed, Done, Idle, disk, Loads
<1>15. CASE UseLoaded
  BY <1>15, UseStep
<1>16. CASE ExportKeyLoaded
  BY <1>16 DEF ExportKeyLoaded, Done, Idle, Loaded, Running, Loads
<1>17. CASE CopyOpen
  BY <1>17 DEF CopyOpen, Taken
<1>18. CASE Copy
  BY <1>18, CopyStep DEF Idle
<1>19. CASE PurgeLoaded
  BY <1>19 DEF PurgeLoaded, Loaded, Running, Loads, SaveAs, disk
<1>20. CASE ReplaceVault
  BY <1>20 DEF ReplaceVault, GoTo, Running
<1>21. CASE RecoverLoaded
  BY <1>21 DEF RecoverLoaded, Done, Idle, disk, Loaded, Running, Loads
<1>22. CASE ImportKey
  BY <1>22 DEF ImportKey, GoTo, Running
<1>23. CASE ImportKeyLoaded
  BY <1>23 DEF ImportKeyLoaded, Done, Idle, disk, Loaded, Running, Loads
<1>24. CASE DeleteKey
  BY <1>24 DEF DeleteKey, GoTo, Fault
<1>25. CASE DeleteVault
  BY <1>25 DEF DeleteVault, GoTo
<1>26. CASE DeleteMetadata
  BY <1>26 DEF DeleteMetadata, GoTo, Done, Idle
<1>27. CASE BeginCleanup
  BY <1>27 DEF BeginCleanup, Fault, Idle, disk, Known, Status, Loads
<1>28. CASE CleanupNext
  BY <1>28, CleanupNextStep DEF Idle
<1>29. CASE CleanupSkip
  BY <1>29 DEF CleanupSkip, GoTo, Fault, disk
<1>30. CASE Interrupted
  BY <1>30 DEF Interrupted, Done, Idle, Fault
<1>31. CASE Expire
  BY <1>31 DEF Expire, disk
<1>32. CASE RestoreLoaded
  BY <1>32, RestoreStep
<1> HIDE DEF Recoverable, Sound
<1> QED
  BY <1>1, <1>2, <1>3, <1>4, <1>5, <1>6, <1>7, <1>8, <1>9, <1>10, <1>11, <1>12,
       <1>13, <1>14, <1>15, <1>16, <1>17, <1>18, <1>19, <1>20, <1>21, <1>22,
       <1>23, <1>24, <1>25, <1>26, <1>27, <1>28, <1>29, <1>30, <1>31, <1>32
       DEF Next

-----------------------------------------------------------------------------
LEMMA SoundInit == Init => Sound
<1> SUFFICES ASSUME Init PROVE Sound
  OBVIOUS
<1> USE BoundsAssumption, MarksAssumption DEF Init, Ids, Stamps
<1>1. /\ job = Idle /\ Idle.at = "idle" /\ Idle.cmd = "none" /\ Idle.file = NoFile
      /\ \A n \in Names : meta[n] = Absent /\ vault[n] = NoFile /\ Absent \notin Ids
      /\ \A i \in Ids, t \in Stamps : backups[i][t] = NoFile
      /\ NoFile \notin Files
  BY DEF Idle
<1>2. TypeOK
  BY <1>1, IdleJob DEF TypeOK
<1>3. Course /\ Subject /\ Unique /\ Used
  BY <1>1 DEF Course, Subject, Unique, Used, Old, Making, Saving, Deleting, Aside
<1>4. Reading /\ Writing /\ Erasing /\ Spared /\ Held /\ Recoverable
  BY <1>1 DEF Reading, Writing, Erasing, Spared, Held, Recoverable, Saving
<1> QED
  BY <1>2, <1>3, <1>4 DEF Sound

LEMMA SoundStep == Sound /\ [Next]_vars => Sound'
<1> SUFFICES ASSUME Sound, [Next]_vars PROVE Sound'
  OBVIOUS
<1>1. CASE Next
  BY <1>1, TypeOKStep, CourseStep, SubjectStep, UniqueStep, UsedStep, ReadingStep, WritingStep,
     ErasingStep, SparedStep, HeldStep, RecoverableStep DEF Sound
<1>2. CASE UNCHANGED vars
  <2> USE <1>2 DEF Sound, vars
  <2>1. TypeOK' /\ Course' /\ Subject' /\ Unique'
    BY DEF TypeOK, Course, Subject, Unique
  <2>2. Used' /\ Reading' /\ Writing' /\ Erasing'
    BY DEF Used, Old, Reading, Writing, Content, Erasing, Decrypts
  <2>3. Spared' /\ Held' /\ Recoverable'
    BY DEF Spared, Loads, Decrypts, Held, Recoverable
  <2> QED
    BY <2>1, <2>2, <2>3
<1> QED
  BY <1>1, <1>2

\* The parts hold in every state the commands reach.
THEOREM AlwaysSound == Spec => []Sound
  BY SoundInit, SoundStep, PTL DEF Spec

\* Every variable has its type.
THEOREM Typed == Spec => []TypeOK
<1>1. Sound => TypeOK
  BY DEF Sound
<1> QED
  BY <1>1, AlwaysSound, PTL

\* However commands were interrupted, a workspace that its metadata names keeps its key
\* and a vault that this key decrypts, the cases of excused excepted.
THEOREM NeverUnrecoverable == Spec => []Recoverable
<1>1. Sound => Recoverable
  BY DEF Sound
<1> QED
  BY <1>1, AlwaysSound, PTL

\* After a deletion the keychain holds no key that decrypts a backup left behind, unless
\* that key was exported.
THEOREM DeletedForGood == Spec => []NothingLeftToRead
<1>1. Sound => NothingLeftToRead
  BY DEF Sound, Held, Course, NothingLeftToRead
<1> QED
  BY <1>1, AlwaysSound, PTL

\* The steps that touch the keychain, and those that touch a vault.
LEMMA KeySteps == Next /\ keychain' # keychain => StoreKey \/ ImportKey \/ DeleteKey
  BY DEF Next, BeginCreate, BeginUse, BeginExportKey, BeginClose, BeginPurge,
     BeginRecover, BeginDelete, BeginImportKey, Begin, OpenMetadata, WriteMetadata, SaveTemporary,
     SaveRename, RestoreRename, Rename, LoadFailed, UseLoaded, RestoreLoaded, SaveAs, ExportKeyLoaded, CopyOpen, Copy, PurgeLoaded,
     ReplaceVault, RecoverLoaded, ImportKeyLoaded, DeleteVault, DeleteMetadata, BeginCleanup,
     CleanupNext, CleanupSkip, Interrupted, Expire, disk

LEMMA VaultSteps == Next /\ vault' # vault =>
  SaveRename \/ RestoreRename \/ ReplaceVault \/ DeleteVault
  BY DEF Next, BeginCreate, BeginUse, BeginExportKey, BeginClose, BeginPurge,
     BeginRecover, BeginDelete, BeginImportKey, Begin, StoreKey, OpenMetadata, WriteMetadata,
     SaveTemporary, LoadFailed, UseLoaded, RestoreLoaded, SaveAs, ExportKeyLoaded, CopyOpen, Copy, PurgeLoaded,
     RecoverLoaded, ImportKey, ImportKeyLoaded, DeleteKey, DeleteMetadata, BeginCleanup,
     CleanupNext, CleanupSkip, Interrupted, Expire, disk

\* cleanup_expired takes the key of no workspace that still loads, unless the listing
\* failed to read its vault.
THEOREM CleanupSpares == Spec => CleanupSparesActive
<1>1. Sound /\ [Next]_vars =>
        [job.cmd = "cleanup" /\ keychain' # keychain /\ job.name \notin job.misread
           => ~Loads(job.name)]_vars
  <2> SUFFICES ASSUME Sound, Next, job.cmd = "cleanup", keychain' # keychain,
                      job.name \notin job.misread
               PROVE  ~Loads(job.name)
    BY DEF vars
  <2>1. DeleteKey
    BY KeySteps DEF StoreKey, ImportKey, Running
  <2> QED
    BY <2>1 DEF Sound, Spared, DeleteKey
<1> QED
  BY <1>1, AlwaysSound, PTL DEF Spec, CleanupSparesActive

\* purge_workspace empties a vault only after the backup has all that it held.
THEOREM PurgesBackedUp == Spec => PurgeBackedUp
<1>1. Sound /\ [Next]_vars =>
        [job.cmd = "purge" /\ vault' # vault
           => backups[job.id][job.stamp] = vault[job.name]]_vars
  <2> SUFFICES ASSUME Sound, Next, job.cmd = "purge", vault' # vault
               PROVE  backups[job.id][job.stamp] = vault[job.name]
    BY DEF vars
  <2>1. SaveRename
    BY VaultSteps DEF RestoreRename, ReplaceVault, DeleteVault, Running, Sound, Course, Deleting
  <2> QED
    BY <2>1 DEF Sound, Writing, SaveRename, Rename
<1> QED
  BY <1>1, AlwaysSound, PTL DEF Spec, PurgeBackedUp

-----------------------------------------------------------------------------
\* A step that touches one name, or one backup, in the terms of WorkspaceLife.
LEMMA OneEntry ==
  ASSUME NEW n \in Names, NEW v, Entry(n)' = v, \A m \in Names \ {n} : Entry(m)' = Entry(m)
  PROVE  Entries' = [Entries EXCEPT ![n] = v]
  BY DEF Entries

LEMMA SameEntries ==
  ASSUME \A m \in Names : Entry(m)' = Entry(m)
  PROVE  Entries' = Entries
  BY DEF Entries

LEMMA OneCopy ==
  ASSUME TypeOK, NEW i \in Ids, NEW t \in Stamps, NEW c, c # NoFile,
         backups' = [backups EXCEPT ![i][t] = c]
  PROVE  \E left \in {Copies} \union {Copies \ {d} : d \in Copies} : Copies' = left \union {c}
<1>1. \A j \in Ids, u \in Stamps :
        backups'[j][u] = IF j = i /\ u = t THEN c ELSE backups[j][u]
  BY DEF TypeOK
<1>2. CASE \E j \in Ids, u \in Stamps : (j # i \/ u # t) /\ backups[j][u] = backups[i][t]
  <2>1. Copies' = Copies \union {c}
    BY <1>1, <1>2 DEF Copies
  <2> QED
    BY <2>1
<1>3. CASE ~ \E j \in Ids, u \in Stamps : (j # i \/ u # t) /\ backups[j][u] = backups[i][t]
  <2>1. Copies' = (Copies \ {backups[i][t]}) \union {c}
    BY <1>1, <1>3 DEF Copies
  <2>2. CASE backups[i][t] = NoFile
    <3>1. Copies \ {backups[i][t]} = Copies
      BY <2>2 DEF Copies
    <3> QED
      BY <2>1, <3>1
  <2>3. CASE backups[i][t] # NoFile
    <3>1. backups[i][t] \in Copies
      BY <2>3 DEF Copies
    <3> QED
      BY <2>1, <3>1
  <2> QED
    BY <2>2, <2>3
<1> QED
  BY <1>2, <1>3

LEMMA LifeBegins == Init => Life!LifeInit
<1> SUFFICES ASSUME Init PROVE Life!LifeInit
  OBVIOUS
<1>1. Entries = [n \in Names |-> Life!Nobody]
  BY MarksAssumption DEF Init, Entries, Entry, Life!Nobody
<1>2. Copies = {}
  BY DEF Init, Copies
<1> QED
  BY <1>1, <1>2 DEF Init, Life!LifeInit

\* The command's workspace, where it has one.
LEMMA WorksOn ==
  ASSUME Sound, job.at \notin Aside \union Making
  PROVE  \E n \in Names :
           /\ n = job.name /\ job.id \in Ids /\ meta[n] = job.id
           /\ \A m \in Names \ {n} : meta[m] # job.id
           /\ Entries[n] = [id |-> job.id, locked |-> job.id \notin keychain, file |-> vault[n]]
           /\ Entries[n].id = job.id /\ Entries[n].file = vault[n]
           /\ Entries[n].locked <=> job.id \notin keychain
           /\ Life!Exists(n)
<1>1. PICK n \in Names : n = job.name /\ meta[n] = job.id /\ job.id \in Ids /\ job.id # 0
  BY DEF Sound, Subject, Ids
<1>2. \A m \in Names \ {n} : meta[m] # job.id
  BY <1>1 DEF Sound, Unique
<1>3. Entries[n] = [id |-> job.id, locked |-> job.id \notin keychain, file |-> vault[n]]
  BY <1>1 DEF Entries, Entry
<1>4. Entries[n].id = job.id /\ Entries[n].file = vault[n]
  BY <1>3
<1>5. Entries[n].locked <=> job.id \notin keychain
  <2>1. CASE job.id \in keychain
    <3>1. Entries[n] = [id |-> job.id, locked |-> FALSE, file |-> vault[n]]
      BY <1>3, <2>1
    <3> QED
      BY <2>1, <3>1
  <2>2. CASE job.id \notin keychain
    <3>1. Entries[n] = [id |-> job.id, locked |-> TRUE, file |-> vault[n]]
      BY <1>3, <2>2
    <3> QED
      BY <2>2, <3>1
  <2> QED
    BY <2>1, <2>2
<1>6. Life!Exists(n)
  BY <1>1, <1>4 DEF Life!Exists
<1> QED
  BY <1>1, <1>2, <1>3, <1>4, <1>5, <1>6

LEMMA CreateStep == Sound /\ WriteMetadata => Life!LifeNext
<1> SUFFICES ASSUME Sound, WriteMetadata PROVE Life!LifeNext
  OBVIOUS
<1>0. PICK n : n = job.name
  OBVIOUS
<1>1. /\ job.at = "metaWrite" /\ n \in Names /\ job.id \in Ids /\ meta[n] \notin Ids
      /\ job.id \notin Old /\ job.id \in keychain /\ vault[n] = NoFile
      /\ meta' = [meta EXCEPT ![n] = job.id]
      /\ UNCHANGED <<keychain, vault, backups, exported, refused>>
  BY <1>0, MarksAssumption DEF Sound, WriteMetadata, Running, Subject, Aside, Course, Making, Old,
     Reading, Used
<1>2. Entries' = [Entries EXCEPT ![n] = [id |-> job.id, locked |-> FALSE, file |-> NoFile]]
  <2>1. Entry(n)' = [id |-> job.id, locked |-> FALSE, file |-> NoFile]
    BY <1>1 DEF Entry, Sound, TypeOK
  <2>2. \A m \in Names \ {n} : Entry(m)' = Entry(m)
    BY <1>1 DEF Entry, Sound, TypeOK
  <2> QED
    BY <1>1, <2>1, <2>2, OneEntry
<1>3. job.id \in Ids \ (exported \union refused) /\ ~Life!Exists(n)
  BY <1>1 DEF Sound, Used, Life!Exists, Entries, Entry
<1>4. \A m \in Names : Entries[m].id # job.id
  BY <1>1 DEF Sound, Used, Entries, Entry, Ids
<1>5. \A c \in Copies \ {Torn} : c.by # job.id
  BY <1>1 DEF Sound, Used, TypeOK, Copies
<1>6. Copies' = Copies /\ exported' = exported /\ refused' = refused
  BY <1>1 DEF Copies
<1>7. Life!Create(n)
  BY <1>2, <1>3, <1>4, <1>5, <1>6 DEF Life!Create
<1> QED
  BY <1>1, <1>7 DEF Life!LifeNext

LEMMA SaveStep == Sound /\ Rename => Life!LifeNext
<1> SUFFICES ASSUME Sound, Rename PROVE Life!LifeNext
  OBVIOUS
<1>1. /\ job.at = "rename" /\ vault' = [vault EXCEPT ![job.name] = job.file]
      /\ UNCHANGED <<meta, keychain, backups, exported, refused>> /\ job.at \notin Aside \union Making
  BY DEF Rename, Aside, Making
<1>0. PICK n \in Names :
        /\ n = job.name /\ job.id \in Ids /\ meta[n] = job.id
        /\ \A m \in Names \ {n} : meta[m] # job.id
        /\ Entries[n] = [id |-> job.id, locked |-> job.id \notin keychain, file |-> vault[n]]
        /\ Entries[n].id = job.id /\ Entries[n].file = vault[n]
        /\ Entries[n].locked <=> job.id \notin keychain
        /\ Life!Exists(n)
  BY <1>1, WorksOn
<1>2. /\ job.id \in keychain /\ job.items \subseteq Items
      /\ job.file \in {Torn, Content}
      /\ job.destructs \in BOOLEAN
      /\ job.cmd \in {"create", "use", "restore", "wipe", "purge"}
  BY <1>1 DEF Sound, TypeOK, Jobs, Writing, Course, Saving
<1>3. Entries' = [Entries EXCEPT ![n].file = job.file]
  <2>1. Entry(n)' = [Entries[n] EXCEPT !.file = job.file]
    BY <1>1, <1>0 DEF Entry, Sound, TypeOK
  <2>2. \A m \in Names \ {n} : Entry(m)' = Entry(m)
    BY <1>0, <1>1 DEF Entry, Sound, TypeOK
  <2> QED
    BY <1>1, <1>0, <2>1, <2>2, OneEntry
<1>4. Copies' = Copies /\ exported' = exported /\ refused' = refused
  BY <1>1 DEF Copies
<1>5. CASE job.file = Torn
  <2>1. Life!Damage(n)
    BY <1>1, <1>2, <1>3, <1>4, <1>5, <1>0 DEF Life!Damage
  <2> QED
    BY <1>1, <2>1, <1>0 DEF Life!LifeNext
<1>6. CASE job.file # Torn
  <2>1. /\ job.file = [by |-> Entries[n].id, items |-> job.items, destructs |-> job.destructs]
        /\ job.file = Life!Contents(n, job.items, job.destructs)
    BY <1>2, <1>6, <1>0 DEF Content, Life!Contents
  <2>2. CASE job.cmd = "create"
    <3>1. ~Entries[n].locked /\ Entries[n].file = NoFile /\ job.items = {}
      BY <1>0, <1>1, <1>2, <2>2 DEF Sound, Writing, Saving
    <3>2. Life!Save(n)
      BY <1>2, <1>3, <1>4, <2>1, <3>1, <1>0 DEF Life!Save
    <3> QED
      BY <3>2, <1>0 DEF Life!LifeNext
  <2>3. CASE job.cmd \in {"use", "restore", "purge"}
    <3>1. Decrypts(vault[n], job.id)
      BY <1>0, <1>1, <2>3 DEF Sound, Writing, Saving
    <3>2. Life!Opens(n)
      BY <1>1, <1>2, <3>1, <1>0 DEF Life!Opens, Life!Files, Files, Decrypts
    <3>3. Entries[n].file.items \subseteq job.items \/ Entries[n].file \in Copies
      <4>1. CASE job.cmd \in {"use", "restore"}
        BY <1>1, <4>1, <1>0 DEF Sound, Writing, Saving
      <4>2. CASE job.cmd = "purge"
        BY <1>1, <3>1, <4>2, <1>0, MarksAssumption DEF Sound, Writing, Saving, Copies, Decrypts
      <4> QED
        BY <2>3, <4>1, <4>2
    <3>4. Life!Save(n)
      BY <1>2, <1>3, <1>4, <2>1, <3>2, <3>3, <1>0 DEF Life!Save
    <3> QED
      BY <3>4, <1>0 DEF Life!LifeNext
  <2>4. CASE job.cmd = "wipe"
    <3>1. /\ job.items = {} /\ job.destructs = TRUE
          /\ \/ vault[n] = Torn
             \/ Decrypts(vault[n], job.id) /\ vault[n].destructs
      BY <1>0, <1>1, <1>2, <2>4 DEF Sound, Writing, Saving
    <3>2. (Life!Opens(n) /\ Entries[n].file.destructs) \/ Entries[n].file = Torn
      BY <1>2, <3>1, <1>0 DEF Life!Opens, Life!Files, Files, Decrypts
    <3>3. job.file = Life!Contents(n, {}, TRUE) /\ ~Entries[n].locked
      BY <1>0, <1>2, <2>1, <3>1 DEF Life!Contents
    <3>4. Life!Wipe(n)
      BY <1>3, <1>4, <3>2, <3>3, <1>0 DEF Life!Wipe
    <3> QED
      BY <3>4, <1>0 DEF Life!LifeNext
  <2> QED
    BY <1>2, <2>2, <2>3, <2>4
<1> QED
  BY <1>5, <1>6

LEMMA SnapshotStep == Sound /\ (CopyOpen \/ Copy) => Life!LifeNext
<1> SUFFICES ASSUME Sound, CopyOpen \/ Copy PROVE Life!LifeNext
  OBVIOUS
<1>1. /\ job.at \in {"copyOpen", "copy"} /\ job.at \notin Aside \union Making
      /\ vault[job.name] # NoFile
      /\ UNCHANGED <<meta, keychain, vault, exported, refused>>
  BY DEF CopyOpen, Copy, Sound, Reading, Aside, Making
<1>0. PICK n \in Names :
        /\ n = job.name /\ job.id \in Ids /\ meta[n] = job.id
        /\ \A m \in Names \ {n} : meta[m] # job.id
        /\ Entries[n] = [id |-> job.id, locked |-> job.id \notin keychain, file |-> vault[n]]
        /\ Entries[n].id = job.id /\ Entries[n].file = vault[n]
        /\ Entries[n].locked <=> job.id \notin keychain
        /\ Life!Exists(n)
  BY <1>1, WorksOn
<1>2. PICK t \in Stamps, c \in {vault[n], Torn} :
        backups' = [backups EXCEPT ![job.id][t] = c]
  BY <1>0, <1>1 DEF CopyOpen, Copy, Sound, Reading
<1>3. c # NoFile
  BY <1>0, <1>1, MarksAssumption
<1>4. \E left \in {Copies} \union {Copies \ {d} : d \in Copies} : Copies' = left \union {c}
  BY <1>1, <1>2, <1>3, <1>0, OneCopy DEF Sound
<1>5. Entries' = Entries
  BY <1>1, SameEntries DEF Entry
<1>6. Life!Snapshot(n)
  BY <1>1, <1>3, <1>4, <1>5, <1>0 DEF Life!Snapshot
<1> QED
  BY <1>1, <1>6, <1>0 DEF Life!LifeNext

LEMMA RecoverStep == Sound /\ ReplaceVault => Life!LifeNext
<1> SUFFICES ASSUME Sound, ReplaceVault PROVE Life!LifeNext
  OBVIOUS
<1>1. /\ job.at = "replace" /\ job.at \notin Aside \union Making
      /\ vault' = [vault EXCEPT ![job.name] = job.file]
      /\ UNCHANGED <<meta, keychain, backups, exported, refused>>
  BY DEF ReplaceVault, Running, Aside, Making
<1>0. PICK n \in Names :
        /\ n = job.name /\ job.id \in Ids /\ meta[n] = job.id
        /\ \A m \in Names \ {n} : meta[m] # job.id
        /\ Entries[n] = [id |-> job.id, locked |-> job.id \notin keychain, file |-> vault[n]]
        /\ Entries[n].id = job.id /\ Entries[n].file = vault[n]
        /\ Entries[n].locked <=> job.id \notin keychain
        /\ Life!Exists(n)
  BY <1>1, WorksOn
<1>2. job.file \in Copies
  BY <1>1 DEF Sound, Reading, Copies
<1>3. Entries' = [Entries EXCEPT ![n].file = job.file]
  <2>1. Entry(n)' = [Entries[n] EXCEPT !.file = job.file]
    BY <1>1, <1>0 DEF Entry, Sound, TypeOK
  <2>2. \A m \in Names \ {n} : Entry(m)' = Entry(m)
    BY <1>0, <1>1 DEF Entry, Sound, TypeOK
  <2> QED
    BY <1>1, <1>0, <2>1, <2>2, OneEntry
<1>4. Copies' = Copies /\ exported' = exported /\ refused' = refused
  BY <1>1 DEF Copies
<1>5. Life!Recover(n)
  BY <1>1, <1>2, <1>3, <1>4, <1>0 DEF Life!Recover
<1> QED
  BY <1>1, <1>5, <1>0 DEF Life!LifeNext

LEMMA ExportStep == Sound /\ ExportKeyLoaded => Life!LifeNext
<1> SUFFICES ASSUME Sound, ExportKeyLoaded PROVE Life!LifeNext
  OBVIOUS
<1>1. /\ job.at = "load" /\ job.at \notin Aside \union Making /\ Loads(job.name)
      /\ exported' = exported \union {job.id}
      /\ UNCHANGED <<meta, keychain, vault, backups, refused>>
  BY DEF ExportKeyLoaded, Loaded, Running, Aside, Making
<1>0. PICK n \in Names :
        /\ n = job.name /\ job.id \in Ids /\ meta[n] = job.id
        /\ \A m \in Names \ {n} : meta[m] # job.id
        /\ Entries[n] = [id |-> job.id, locked |-> job.id \notin keychain, file |-> vault[n]]
        /\ Entries[n].id = job.id /\ Entries[n].file = vault[n]
        /\ Entries[n].locked <=> job.id \notin keychain
        /\ Life!Exists(n)
  BY <1>1, WorksOn
<1>2. Entries' = Entries /\ Copies' = Copies
  BY <1>1, SameEntries DEF Entry, Copies
<1>3. Life!Opens(n)
  BY <1>1, <1>0 DEF Loads, Decrypts, Life!Opens, Life!Files, Files
<1>4. Life!Export(n)
  BY <1>1, <1>2, <1>3, <1>0 DEF Life!Export
<1> QED
  BY <1>1, <1>4, <1>0 DEF Life!LifeNext

LEMMA KeyStep == Sound /\ (ImportKey \/ DeleteKey) => Life!LifeNext
<1> SUFFICES ASSUME Sound, ImportKey \/ DeleteKey PROVE Life!LifeNext
  OBVIOUS
<1>1. /\ job.at \notin Aside \union Making
      /\ UNCHANGED <<meta, vault, backups, exported>>
  BY DEF ImportKey, DeleteKey, Running, Aside, Making
<1>0. PICK n \in Names :
        /\ n = job.name /\ job.id \in Ids /\ meta[n] = job.id
        /\ \A m \in Names \ {n} : meta[m] # job.id
        /\ Entries[n] = [id |-> job.id, locked |-> job.id \notin keychain, file |-> vault[n]]
        /\ Entries[n].id = job.id /\ Entries[n].file = vault[n]
        /\ Entries[n].locked <=> job.id \notin keychain
        /\ Life!Exists(n)
  BY <1>1, WorksOn
<1>2. ASSUME keychain' \in {keychain \union {job.id}, keychain \ {job.id}}
      PROVE  Entries' = [Entries EXCEPT ![n].locked = job.id \notin keychain']
  <2>1. Entry(n)' = [Entries[n] EXCEPT !.locked = job.id \notin keychain']
    BY <1>1, <1>0 DEF Entry
  <2>2. \A m \in Names \ {n} : Entry(m)' = Entry(m)
    BY <1>1, <1>0, <1>2 DEF Entry
  <2> QED
    BY <1>1, <1>0, <2>1, <2>2, OneEntry
<1>3. Copies' = Copies /\ exported' = exported
  BY <1>1 DEF Copies
<1>4. CASE ImportKey
  <2>1. (job.id \notin keychain') = FALSE /\ job.id \in exported /\ refused' = refused
    BY <1>4 DEF ImportKey, Running, Sound, Reading
  <2>2. Entries' = [Entries EXCEPT ![n].locked = FALSE]
    BY <1>2, <1>4, <2>1 DEF ImportKey
  <2>3. Life!Unlock(n)
    BY <1>3, <2>1, <2>2, <1>0 DEF Life!Unlock
  <2> QED
    BY <2>3, <1>0 DEF Life!LifeNext
<1>5. CASE DeleteKey /\ keychain' = keychain \ {job.id} /\ refused' = refused \ {job.id}
  <2>1. (job.id \notin keychain') = TRUE
    BY <1>5
  <2>2. Entries' = [Entries EXCEPT ![n].locked = TRUE]
    BY <1>2, <1>5, <2>1
  <2>3. Life!Erase(n)
    BY <1>3, <1>5, <2>2, <1>0 DEF Life!Erase
  <2> QED
    BY <2>3, <1>0 DEF Life!LifeNext
<1>6. CASE DeleteKey /\ UNCHANGED keychain /\ refused' = refused \union {job.id}
  <2>1. Entries' = Entries
    BY <1>1, <1>6, SameEntries DEF Entry
  <2>2. Life!Erase(n)
    BY <1>3, <1>6, <2>1, <1>0 DEF Life!Erase
  <2> QED
    BY <2>2, <1>0 DEF Life!LifeNext
<1> QED
  BY <1>4, <1>5, <1>6 DEF DeleteKey

LEMMA DropStep == Sound /\ DeleteVault => Life!LifeNext
<1> SUFFICES ASSUME Sound, DeleteVault PROVE Life!LifeNext
  OBVIOUS
<1>1. /\ job.at = "delVault" /\ job.at \notin Aside \union Making
      /\ job.id \notin keychain \/ job.id \in refused
      /\ vault' = [vault EXCEPT ![job.name] = NoFile]
      /\ UNCHANGED <<meta, keychain, backups, exported, refused>>
  BY DEF DeleteVault, Sound, Erasing, Aside, Making
<1>0. PICK n \in Names :
        /\ n = job.name /\ job.id \in Ids /\ meta[n] = job.id
        /\ \A m \in Names \ {n} : meta[m] # job.id
        /\ Entries[n] = [id |-> job.id, locked |-> job.id \notin keychain, file |-> vault[n]]
        /\ Entries[n].id = job.id /\ Entries[n].file = vault[n]
        /\ Entries[n].locked <=> job.id \notin keychain
        /\ Life!Exists(n)
  BY <1>1, WorksOn
<1>2. Entries' = [Entries EXCEPT ![n].file = NoFile]
  <2>1. Entry(n)' = [Entries[n] EXCEPT !.file = NoFile]
    BY <1>1, <1>0 DEF Entry, Sound, TypeOK
  <2>2. \A m \in Names \ {n} : Entry(m)' = Entry(m)
    BY <1>0, <1>1 DEF Entry, Sound, TypeOK
  <2> QED
    BY <1>1, <1>0, <2>1, <2>2, OneEntry
<1>3. Copies' = Copies /\ exported' = exported /\ refused' = refused
  BY <1>1 DEF Copies
<1>4. Life!DropVault(n)
  BY <1>1, <1>2, <1>3, <1>0 DEF Life!DropVault, Life!Erased
<1> QED
  BY <1>1, <1>4, <1>0 DEF Life!LifeNext

LEMMA ForgetStep == Sound /\ DeleteMetadata => Life!LifeNext
<1> SUFFICES ASSUME Sound, DeleteMetadata PROVE Life!LifeNext
  OBVIOUS
<1>1. /\ job.at = "delMeta" /\ job.at \notin Aside \union Making
      /\ job.id \notin keychain \/ job.id \in refused
      /\ vault[job.name] = NoFile
      /\ meta' = [meta EXCEPT ![job.name] = Absent]
      /\ UNCHANGED <<keychain, vault, backups, exported, refused>>
  BY DEF DeleteMetadata, Sound, Erasing, Aside, Making
<1>0. PICK n \in Names :
        /\ n = job.name /\ job.id \in Ids /\ meta[n] = job.id
        /\ \A m \in Names \ {n} : meta[m] # job.id
        /\ Entries[n] = [id |-> job.id, locked |-> job.id \notin keychain, file |-> vault[n]]
        /\ Entries[n].id = job.id /\ Entries[n].file = vault[n]
        /\ Entries[n].locked <=> job.id \notin keychain
        /\ Life!Exists(n)
  BY <1>1, WorksOn
<1>2. Entries' = [Entries EXCEPT ![n] = Life!Nobody]
  <2>1. Entry(n)' = Life!Nobody
    BY <1>1, <1>0, MarksAssumption DEF Entry, Sound, TypeOK, Life!Nobody
  <2>2. \A m \in Names \ {n} : Entry(m)' = Entry(m)
    BY <1>0, <1>1 DEF Entry, Sound, TypeOK
  <2> QED
    BY <1>1, <1>0, <2>1, <2>2, OneEntry
<1>3. Copies' = Copies /\ exported' = exported /\ refused' = refused
  BY <1>1 DEF Copies
<1>4. Life!Forget(n)
  BY <1>1, <1>2, <1>3, <1>0 DEF Life!Forget, Life!Erased
<1> QED
  BY <1>1, <1>4, <1>0 DEF Life!LifeNext

\* The other steps show nothing.
LEMMA HiddenStep ==
  Sound /\ Next => \/ WriteMetadata \/ Rename \/ CopyOpen \/ Copy \/ ReplaceVault
                   \/ ExportKeyLoaded \/ ImportKey \/ DeleteKey \/ DeleteVault \/ DeleteMetadata
                   \/ UNCHANGED Life!lifeVars
<1> SUFFICES ASSUME Sound, Next
             PROVE  \/ WriteMetadata \/ Rename \/ CopyOpen \/ Copy \/ ReplaceVault
                    \/ ExportKeyLoaded \/ ImportKey \/ DeleteKey \/ DeleteVault \/ DeleteMetadata
                    \/ UNCHANGED Life!lifeVars
  OBVIOUS
<1>1. ASSUME UNCHANGED <<vault, backups, exported, refused>>, \A m \in Names : Entry(m)' = Entry(m)
      PROVE  UNCHANGED Life!lifeVars
  BY <1>1, SameEntries DEF Life!lifeVars, Copies
<1>2. ASSUME UNCHANGED <<meta, keychain, vault, backups, exported, refused>>
      PROVE  UNCHANGED Life!lifeVars
  BY <1>1, <1>2 DEF Entry
<1>3. CASE StoreKey
  <2>1. /\ job.id \notin Old /\ keychain' = keychain \union {job.id}
        /\ UNCHANGED <<meta, vault, backups, exported, refused>>
    BY <1>3 DEF StoreKey, Running, Old, Making
  <2>2. \A m \in Names : Entry(m)' = Entry(m)
    BY <2>1 DEF Entry, Sound, Used
  <2> QED
    BY <1>1, <2>1, <2>2
<1>4. CASE OpenMetadata
  <2>1. /\ meta' = [meta EXCEPT ![job.name] = Broken] /\ meta[job.name] = Absent
        /\ UNCHANGED <<keychain, vault, backups, exported, refused>>
    BY <1>4 DEF OpenMetadata, Running, Sound, Subject
  <2>2. \A m \in Names : Entry(m)' = Entry(m)
    BY <2>1, MarksAssumption DEF Entry, Sound, TypeOK
  <2> QED
    BY <1>1, <2>1, <2>2
<1>5. \/ StoreKey \/ OpenMetadata \/ WriteMetadata \/ Rename \/ CopyOpen \/ Copy
      \/ ReplaceVault \/ ExportKeyLoaded \/ ImportKey \/ DeleteKey \/ DeleteVault
      \/ DeleteMetadata \/ UNCHANGED <<meta, keychain, vault, backups, exported, refused>>
  BY DEF Next, BeginCreate, BeginUse, BeginExportKey, BeginClose, BeginPurge, BeginRecover,
     BeginDelete, BeginImportKey, Begin, SaveTemporary, SaveRename, RestoreRename, LoadFailed,
     UseLoaded, RestoreLoaded, SaveAs,
     PurgeLoaded, RecoverLoaded, ImportKeyLoaded, BeginCleanup, CleanupNext, CleanupSkip,
     Interrupted, Expire, disk
<1> QED
  BY <1>2, <1>3, <1>4, <1>5

\* The commands, effect by effect and with all interruptions, do to a workspace only what
\* WorkspaceLife promises.
THEOREM Implements == Spec => KeepsItsPromises
<1>1. Sound /\ [Next]_vars => [Life!LifeNext]_(Life!lifeVars)
  <2>1. Sound /\ Next => Life!LifeNext \/ UNCHANGED Life!lifeVars
    BY HiddenStep, CreateStep, SaveStep, SnapshotStep, RecoverStep, ExportStep, KeyStep,
       DropStep, ForgetStep
  <2>2. UNCHANGED vars => UNCHANGED Life!lifeVars
    BY DEF vars, Life!lifeVars, Entries, Entry, Copies
  <2> QED
    BY <2>1, <2>2
<1> QED
  BY <1>1, LifeBegins, AlwaysSound, PTL DEF Spec, KeepsItsPromises, Life!LifeSpec
=============================================================================
