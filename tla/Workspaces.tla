------------------------------ MODULE Workspaces ------------------------------
(***************************************************************************)
(* The commands on workspaces (workspace/manager.py, cli.py), one at a     *)
(* time, as the sequence of their effects on the keychain and the disk.  A *)
(* command may stop after any of them: an exception it lets out, or the    *)
(* death of its process.                                                   *)
(*                                                                         *)
(* A workspace id stands for the master key made with it: they are stored, *)
(* exported and imported together.  Directories, file modes, manifests,    *)
(* audit entries and stray temporary files are left out: no command here   *)
(* decides by them.                                                        *)
(***************************************************************************)
EXTENDS Integers

CONSTANTS
  Names,         \* workspace names
  Items,         \* mappings
  MaxId,         \* bound: workspaces ever created
  MaxBackups,    \* bound: backups of one workspace
  MaxFaults,     \* bound: interruptions and short writes
  Ageing,        \* bound: ids whose ttl elapses
  Governed,      \* bound: ids whose policy the user changes
  Exportable,    \* bound: ids whose key the user exports
  Absent,        \* no metadata.json
  Broken,        \* a metadata.json that is no JSON: cut off while written
  NoFile,        \* no such file
  Torn           \* a file that no key decrypts

ASSUME BoundsAssumption == MaxId \in Nat /\ MaxBackups \in Nat /\ MaxFaults \in Nat

Ids == 1..MaxId
Stamps == 1..MaxBackups
\* A vault: the key it is encrypted with, its mappings, and whether a restore
\* empties it (self_destruct_on_restore).
Files == [by : Ids, items : SUBSET Items, destructs : BOOLEAN]

ASSUME MarksAssumption ==
  /\ Absent # Broken /\ {Absent, Broken} \intersect Ids = {}
  /\ NoFile # Torn /\ {NoFile, Torn} \intersect Files = {}

VARIABLES
  meta,      \* metadata.json of each name: the workspace_id in it
  keychain,  \* ids whose master key is in the keychain
  vault,     \* vault.enc of each name
  backups,   \* the vault-<second>.enc of each id, in the order of the seconds
  exported,  \* ids with a recovery key file
  expired,   \* ids whose ttl has elapsed since the created_at in their vault
  lastId,    \* ids are used once
  job,       \* the command that runs
  faults,    \* counts the faults
  refused,   \* ghost: ids whose key the keychain kept when last asked to delete it
  excused    \* ghost: ids that a deletion, an interrupted creation, a short
             \* write or an alien backup may have made unreadable

disk == <<meta, keychain, vault, backups, exported, lastId, refused, excused>>
vars == <<meta, keychain, vault, backups, exported, expired, lastId, job, faults, refused,
          excused>>

Commands == {"create", "use", "restore", "wipe", "close", "purge", "recover",
             "exportKey", "importKey", "delete", "cleanup"}
Idle == [cmd |-> "none", name |-> "none", id |-> 0, at |-> "idle", items |-> {},
         destructs |-> FALSE, file |-> NoFile, stamp |-> 0, todo |-> {}, misread |-> {}]

-----------------------------------------------------------------------------
\* Vault.load: a file that the key decrypts, of a workspace still alive.
Decrypts(file, id) == file \in Files /\ file.by = id
Loads(n) ==
  /\ meta[n] \in Ids /\ meta[n] \in keychain
  /\ Decrypts(vault[n], meta[n]) /\ meta[n] \notin expired

\* Defective: a workspace without mappings counts as expired.
StatusByMappings(n) ==
  CASE meta[n] \notin keychain -> "key_missing"
    [] meta[n] \in keychain /\ Loads(n) /\ vault[n].items # {} -> "active"
    [] OTHER -> "expired_or_corrupted"

\* What list_workspaces says of a name it does not skip.
Status(n) ==
  CASE meta[n] \notin keychain -> "key_missing"
    [] meta[n] \in keychain /\ Loads(n) -> "active"
    [] OTHER -> "expired_or_corrupted"

Running(cmd, at) == job.cmd = cmd /\ job.at = at
GoTo(at) == job' = [job EXCEPT !.at = at]
Begin(cmd, n, at) ==
  /\ job = Idle
  /\ job' = [Idle EXCEPT !.cmd = cmd, !.name = n, !.id = meta[n], !.at = at]
  /\ UNCHANGED <<disk, expired, faults>>
Done == job' = Idle
Fault == faults < MaxFaults /\ faults' = faults + 1

Init ==
  /\ meta = [n \in Names |-> Absent] /\ keychain = {}
  /\ vault = [n \in Names |-> NoFile]
  /\ backups = [i \in Ids |-> [t \in Stamps |-> NoFile]]
  /\ exported = {} /\ expired = {}
  /\ lastId = 0 /\ job = Idle /\ faults = 0 /\ refused = {} /\ excused = {}

-----------------------------------------------------------------------------
\* create_workspace, where get_or_create_workspace finds no metadata.
BeginCreate(n) ==
  /\ job = Idle /\ meta[n] = Absent /\ lastId < MaxId
  /\ lastId' = lastId + 1
  /\ job' = [Idle EXCEPT !.cmd = "create", !.name = n, !.id = lastId + 1, !.at = "key"]
  /\ UNCHANGED <<meta, keychain, vault, backups, exported, expired, refused, excused, faults>>

StoreKey ==
  /\ Running("create", "key")
  /\ keychain' = keychain \union {job.id}
  /\ GoTo("metaOpen")
  /\ UNCHANGED <<meta, vault, backups, exported, expired, lastId, refused, excused, faults>>

\* write_text cuts the file off, then writes.
OpenMetadata ==
  /\ Running("create", "metaOpen")
  /\ meta' = [meta EXCEPT ![job.name] = Broken]
  /\ GoTo("metaWrite")
  /\ UNCHANGED <<keychain, vault, backups, exported, expired, lastId, refused, excused, faults>>

\* Defective: the name is written in the place of the id.
WriteMetadataName ==
  /\ Running("create", "metaWrite")
  /\ meta' = [meta EXCEPT ![job.name] = job.name]
  /\ GoTo("save")
  /\ UNCHANGED <<keychain, vault, backups, exported, expired, lastId, refused, excused, faults>>

WriteMetadata ==
  /\ Running("create", "metaWrite")
  /\ meta' = [meta EXCEPT ![job.name] = job.id]
  /\ GoTo("save")
  /\ UNCHANGED <<keychain, vault, backups, exported, expired, lastId, refused, excused, faults>>

-----------------------------------------------------------------------------
\* What the save at hand puts into the vault.
Content == [by |-> job.id, items |-> job.items, destructs |-> job.destructs]

\* Defective: the vault itself is opened and written.
SaveInPlace ==
  /\ job.at = "save"
  /\ job' = [job EXCEPT !.at = "rename", !.file = Content]
  /\ vault' = [vault EXCEPT ![job.name] = Torn]
  /\ UNCHANGED <<meta, keychain, backups, exported, expired, lastId, refused, excused, faults>>

\* Vault.save and atomic_write: a temporary file, then its rename.  os.write may
\* write less than it was given, and is called once.
SaveTemporary ==
  /\ job.at = "save"
  /\ \/ /\ job' = [job EXCEPT !.at = "rename", !.file = Content]
        /\ UNCHANGED faults
     \/ /\ job' = [job EXCEPT !.at = "rename", !.file = Torn]
        /\ Fault
  /\ UNCHANGED <<disk, expired>>

Rename ==
  /\ job.at = "rename"
  /\ vault' = [vault EXCEPT ![job.name] = job.file]
  /\ excused' = IF job.file = Torn THEN excused \union {job.id} ELSE excused
  /\ UNCHANGED <<meta, keychain, backups, exported, expired, lastId, refused, faults>>

SaveRename == job.cmd # "restore" /\ Rename /\ Done

\* A restore in a workspace that destroys itself: once its count is saved, the
\* mappings in memory are emptied and saved, and no backup is made of them.
RestoreRename ==
  /\ job.cmd = "restore" /\ Rename
  /\ job' = [job EXCEPT !.cmd = "wipe", !.at = "save", !.items = {}]

-----------------------------------------------------------------------------
\* The commands that load the workspace first; metadata that cannot be read is
\* an error.
Known(n) == meta[n] \in Ids

\* A file or clipboard operation in the workspace.
BeginUse(n) == Known(n) /\ Begin("use", n, "load")
BeginExportKey(n) == Known(n) /\ meta[n] \in Exportable /\ Begin("exportKey", n, "load")

LoadFailed ==
  /\ job.at = "load" /\ ~Loads(job.name)
  /\ Done
  /\ UNCHANGED <<disk, expired, faults>>

Loaded(cmd) == Running(cmd, "load") /\ Loads(job.name)

\* Saves what was loaded, changed.
SaveAs(cmd, items, destructs) ==
  /\ job' = [job EXCEPT !.cmd = cmd, !.at = "save", !.items = items,
                        !.destructs = destructs]
  /\ UNCHANGED <<disk, expired, faults>>

\* What an operation leaves in the vault: a shield adds mappings and a restore
\* keeps them, unless the workspace destroys itself; set_self_destruct_on_restore
\* changes the policy.
UseLoaded ==
  /\ Loaded("use")
  /\ \/ \E new \in SUBSET Items :
          SaveAs("use", vault[job.name].items \union new, vault[job.name].destructs)
     \/ /\ job.id \in Governed
        /\ \E enabled \in BOOLEAN : SaveAs("use", vault[job.name].items, enabled)

RestoreLoaded ==
  /\ Loaded("use") /\ vault[job.name].destructs
  /\ SaveAs("restore", vault[job.name].items, TRUE)

\* The recovery key file, overwritten with --force only.
ExportKeyLoaded ==
  /\ Loaded("exportKey")
  /\ exported' = exported \union {job.id}
  /\ Done
  /\ UNCHANGED <<meta, keychain, vault, backups, expired, lastId, refused, excused, faults>>

-----------------------------------------------------------------------------
\* close_workspace: a copy named after the second, whatever the vault holds.
BeginClose(n) == Known(n) /\ vault[n] # NoFile /\ Begin("close", n, "copyOpen")
\* purge_workspace starts with all of close_workspace.
BeginPurge(n) == Known(n) /\ vault[n] # NoFile /\ Begin("purge", n, "copyOpen")

\* Defective: a purge goes on without the backup that another file's second took.
CopyOpenOnce ==
  /\ job.at = "copyOpen"
  /\ \E t \in Stamps :
       IF backups[job.id][t] = NoFile
       THEN /\ backups' = [backups EXCEPT ![job.id][t] = Torn]
            /\ job' = [job EXCEPT !.at = "copy", !.stamp = t]
       ELSE /\ job' = [job EXCEPT !.at = "load", !.stamp = t]
            /\ UNCHANGED backups
  /\ UNCHANGED <<meta, keychain, vault, exported, expired, lastId, refused, excused, faults>>

Taken == {t \in Stamps : backups[job.id][t] # NoFile}

\* In the second of the last backup, its file is written over.
CopyOpen ==
  /\ job.at = "copyOpen"
  /\ \E t \in Stamps :
       /\ \A u \in Taken : u <= t
       /\ t - 1 \in Taken \union {0}
       /\ backups' = [backups EXCEPT ![job.id][t] = Torn]
       /\ job' = [job EXCEPT !.at = "copy", !.stamp = t]
  /\ UNCHANGED <<meta, keychain, vault, exported, expired, lastId, refused, excused, faults>>

Copy ==
  /\ job.at = "copy"
  /\ backups' = [backups EXCEPT ![job.id][job.stamp] = vault[job.name]]
  /\ IF job.cmd = "purge" THEN GoTo("load") ELSE Done
  /\ UNCHANGED <<meta, keychain, vault, exported, expired, lastId, refused, excused, faults>>

\* The policy is kept.
PurgeLoaded == Loaded("purge") /\ SaveAs("purge", {}, vault[job.name].destructs)

-----------------------------------------------------------------------------
\* recover_workspace: the file given, of whatever workspace, takes the vault's
\* place before anything tries to decrypt it.
BeginRecover(n) ==
  /\ job = Idle /\ Known(n)
  /\ \E i \in Ids, t \in Stamps :
       /\ backups[i][t] # NoFile
       /\ job' = [Idle EXCEPT !.cmd = "recover", !.name = n, !.id = meta[n],
                              !.at = "replace", !.file = backups[i][t]]
  /\ UNCHANGED <<disk, expired, faults>>

ReplaceVault ==
  /\ Running("recover", "replace")
  /\ vault' = [vault EXCEPT ![job.name] = job.file]
  /\ excused' = IF Decrypts(job.file, job.id) THEN excused ELSE excused \union {job.id}
  /\ GoTo("load")
  /\ UNCHANGED <<meta, keychain, backups, exported, expired, lastId, refused, faults>>

RecoverLoaded == Loaded("recover") /\ Done /\ UNCHANGED <<disk, expired, faults>>

-----------------------------------------------------------------------------
\* import_encrypted_master_key: the payload of another workspace is refused.
Accepts(id, payload) == payload = id

\* workspace import-key, which refuses to replace a key without --force.
BeginImportKey(n, force) ==
  /\ Known(n)
  /\ \E payload \in exported : Accepts(meta[n], payload)
  /\ meta[n] \in keychain => force
  /\ Begin("importKey", n, "store")

ImportKey ==
  /\ Running("importKey", "store")
  /\ keychain' = keychain \union {job.id}
  /\ GoTo("load")
  /\ UNCHANGED <<meta, vault, backups, exported, expired, lastId, refused, excused, faults>>

ImportKeyLoaded == Loaded("importKey") /\ Done /\ UNCHANGED <<disk, expired, faults>>

-----------------------------------------------------------------------------
\* delete_workspace: key, vault, metadata.
BeginDelete(n) == Known(n) /\ Begin("delete", n, "delKey")

\* Defective: the vault file goes first, and the key stays.
DeleteVaultFirst ==
  /\ job.at = "delKey"
  /\ vault' = [vault EXCEPT ![job.name] = NoFile]
  /\ excused' = excused \union {job.id}
  /\ GoTo("delMeta")
  /\ UNCHANGED <<meta, keychain, backups, exported, expired, lastId, refused, faults>>

\* Defective: the key of a workspace that does not load is left alone.
DeleteKeyOfLoaded ==
  /\ job.at = "delKey"
  /\ keychain' = IF Loads(job.name) THEN keychain \ {job.id} ELSE keychain
  /\ excused' = excused \union {job.id}
  /\ GoTo("delVault")
  /\ UNCHANGED <<meta, vault, backups, exported, expired, lastId, refused, faults>>

\* The keychain removes the key or refuses to: delete_master_key takes every
\* PasswordDeleteError for a key already gone, and the deletion goes on.
DeleteKey ==
  /\ job.at = "delKey"
  /\ \/ /\ keychain' = keychain \ {job.id} /\ refused' = refused \ {job.id}
        /\ UNCHANGED faults
     \/ /\ job.id \in keychain /\ Fault
        /\ refused' = refused \union {job.id}
        /\ UNCHANGED keychain
  /\ excused' = excused \union {job.id}
  /\ GoTo("delVault")
  /\ UNCHANGED <<meta, vault, backups, exported, expired, lastId>>

DeleteVault ==
  /\ job.at = "delVault"
  /\ vault' = [vault EXCEPT ![job.name] = NoFile]
  /\ GoTo("delMeta")
  /\ UNCHANGED <<meta, keychain, backups, exported, expired, lastId, refused, excused, faults>>

\* A cleanup goes on with the next workspace.
DeleteMetadata ==
  /\ job.at = "delMeta"
  /\ meta' = [meta EXCEPT ![job.name] = Absent]
  /\ IF job.cmd = "cleanup" THEN GoTo("next") ELSE Done
  /\ UNCHANGED <<keychain, vault, backups, exported, expired, lastId, refused, excused, faults>>

-----------------------------------------------------------------------------
\* cleanup_expired: the listing, which broken metadata makes fail, then one
\* deletion after the other.  Any exception of a load counts: the listing takes a
\* vault file that could not be read this once for an expired one.
BeginCleanup ==
  /\ job = Idle
  /\ \A n \in Names : meta[n] # Broken
  /\ \E misread \in SUBSET {n \in Names : Known(n) /\ Status(n) = "active"} :
       /\ IF misread = {} THEN UNCHANGED faults ELSE Fault
       /\ job' = [Idle EXCEPT !.cmd = "cleanup", !.at = "next",
             !.misread = misread,
             !.todo = misread \union
                        {n \in Names : Known(n) /\ Status(n) = "expired_or_corrupted"}]
  /\ UNCHANGED <<disk, expired>>

CleanupNext ==
  /\ Running("cleanup", "next")
  /\ \/ \E n \in job.todo :
          job' = [job EXCEPT !.name = n, !.id = meta[n], !.todo = @ \ {n}, !.at = "delKey"]
     \/ job.todo = {} /\ Done
  /\ UNCHANGED <<disk, expired, faults>>

\* An exception of one deletion is passed over.
CleanupSkip ==
  /\ job.cmd = "cleanup" /\ job.at # "next" /\ Fault
  /\ GoTo("next")
  /\ UNCHANGED <<disk, expired>>

-----------------------------------------------------------------------------
\* The command's process dies, or an exception leaves the command.
Interrupted ==
  /\ job # Idle /\ Fault
  /\ excused' = IF job.cmd = "create" THEN excused \union {job.id} ELSE excused
  /\ Done
  /\ UNCHANGED <<meta, keychain, vault, backups, exported, expired, lastId, refused>>

\* The ttl elapses, during a command or between two.
Expire ==
  /\ \E i \in Ageing \intersect (1..lastId) : expired' = expired \union {i}
  /\ UNCHANGED <<disk, job, faults>>

Next ==
  \/ \E n \in Names :
       \/ BeginCreate(n) \/ BeginUse(n) \/ BeginExportKey(n)
       \/ BeginClose(n) \/ BeginPurge(n) \/ BeginRecover(n)
       \/ BeginDelete(n) \/ \E force \in BOOLEAN : BeginImportKey(n, force)
  \/ StoreKey \/ OpenMetadata \/ WriteMetadata
  \/ SaveTemporary \/ SaveRename \/ RestoreRename
  \/ LoadFailed \/ UseLoaded \/ RestoreLoaded \/ ExportKeyLoaded
  \/ CopyOpen \/ Copy \/ PurgeLoaded
  \/ ReplaceVault \/ RecoverLoaded \/ ImportKey \/ ImportKeyLoaded
  \/ DeleteKey \/ DeleteVault \/ DeleteMetadata
  \/ BeginCleanup \/ CleanupNext \/ CleanupSkip
  \/ Interrupted \/ Expire

Spec == Init /\ [][Next]_vars

-----------------------------------------------------------------------------
\* The refinement mapping: what a name stands for is in its metadata, and an
\* identity is locked when its key is not in the keychain.
Entry(n) == IF meta[n] \in Ids
  THEN [id |-> meta[n], locked |-> meta[n] \notin keychain, file |-> vault[n]]
  ELSE [id |-> 0, locked |-> TRUE, file |-> NoFile]
Entries == [n \in Names |-> Entry(n)]
Copies == {backups[i][t] : i \in Ids, t \in Stamps} \ {NoFile}

Life == INSTANCE WorkspaceLife WITH life <- Entries, copies <- Copies

\* The commands do to a workspace only what WorkspaceLife allows: whole saves of
\* what was read; mappings dropped by a purge that has backed them up, by the
\* self-destruction that the user switched on, or by the backup that the user
\* puts in their place; nothing of a deleted workspace removed before its key,
\* unless the keychain refused to delete that; and no key unlocks it again but
\* its own.
KeepsItsPromises == Life!LifeSpec

-----------------------------------------------------------------------------
Points == {"idle", "key", "metaOpen", "metaWrite", "save", "rename", "load",
           "copyOpen", "copy", "replace", "store", "delKey", "delVault", "delMeta", "next"}

Jobs == [cmd : Commands \union {"none"}, name : Names \union {"none"},
         id : Ids \union {0}, at : Points, items : SUBSET Items,
         destructs : BOOLEAN, file : Files \union {NoFile, Torn}, stamp : Stamps \union {0},
         todo : SUBSET Names, misread : SUBSET Names]

\* Every variable has its type.
TypeOK ==
  /\ meta \in [Names -> Ids \union {Absent, Broken}]
  /\ keychain \subseteq Ids /\ exported \subseteq Ids
  /\ refused \subseteq Ids /\ excused \subseteq Ids
  /\ vault \in [Names -> Files \union {NoFile, Torn}]
  /\ backups \in [Ids -> [Stamps -> Files \union {NoFile, Torn}]]
  /\ expired \subseteq Ids /\ lastId \in 0..MaxId /\ faults \in 0..MaxFaults
  /\ job \in Jobs

\* A workspace that its metadata names can be opened as soon as its creation is
\* over, whatever commands were interrupted since, until it expires: "never
\* silently unrecoverable" (PRD_HANDOFF_B.md).  Excepted are the cases of excused.
Recoverable ==
  \A n \in Names :
    /\ meta[n] \in Ids \ excused
    /\ ~(job.cmd = "create" /\ job.name = n)
    => meta[n] \in keychain /\ Decrypts(vault[n], meta[n])

\* Of a workspace whose metadata is gone nothing can be read, in the vault or in
\* a backup, unless its key was exported or the keychain refused to delete it:
\* the other ids of the keychain are those of workspaces that still have their
\* metadata or never had it.  (With the refusal, which delete_master_key hides,
\* key and backups do stay.)
NothingLeftToRead ==
  \A i \in Ids \ (exported \union refused) :
    /\ \A n \in Names : meta[n] # i
    /\ ~(job.cmd = "create" /\ job.id = i)
    /\ \E t \in Stamps : backups[i][t] # NoFile
    => i \notin keychain

\* Unless the listing could not read its vault, a cleanup takes the key of no
\* workspace that another command could open, whatever was interrupted, torn,
\* recovered or imported before it.
CleanupSparesActive ==
  [][ job.cmd = "cleanup" /\ keychain' # keychain /\ job.name \notin job.misread
        => ~Loads(job.name) ]_vars

\* A purge empties the vault only when the backup that it returns holds, under
\* the same key, all that the vault held: "a mandatory backup snapshot".
PurgeBackedUp ==
  [][ job.cmd = "purge" /\ vault' # vault
        => backups[job.id][job.stamp] = vault[job.name] ]_vars

=============================================================================
