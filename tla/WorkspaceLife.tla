----------------------------- MODULE WorkspaceLife -----------------------------
(***************************************************************************)
(* What a workspace promises its user (workspace/manager.py seen from      *)
(* outside): a name stands for an identity, the identity is locked or not, *)
(* and its vault holds one complete set of contents.  The contents change  *)
(* by whole saves of what was read before.  Mappings are lost by a purge   *)
(* that has backed them up, by the self-destruction the user switched on,  *)
(* and where the user puts a backup in their place.  A deletion locks the  *)
(* identity, or finds its key refused by the keychain, before it removes   *)
(* anything, and only an exported key unlocks an identity again.           *)
(* Workspaces.tla shows that the commands, step by step, with crashes      *)
(* between the steps, do nothing else.                                     *)
(***************************************************************************)
EXTENDS Integers

CONSTANTS
  Names, Ids,
  Items,          \* mappings
  NoFile, Torn    \* no vault file; one that no key decrypts

VARIABLES
  life,     \* what stands behind each name
  copies,   \* the backup files
  exported, \* identities whose key was exported
  refused   \* identities that the keychain would not lock

lifeVars == <<life, copies, exported, refused>>

Files == [by : Ids, items : SUBSET Items, destructs : BOOLEAN]
Nobody == [id |-> 0, locked |-> TRUE, file |-> NoFile]

LifeTypeOK ==
  /\ life \in [Names -> [id : Ids \union {0}, locked : BOOLEAN,
                         file : Files \union {NoFile, Torn}]]
  /\ copies \subseteq Files \union {Torn}
  /\ exported \subseteq Ids /\ refused \subseteq Ids

Exists(n) == life[n].id # 0
\* A load gives the contents: the expiry of a workspace is left out.
Opens(n) ==
  Exists(n) /\ ~life[n].locked /\ life[n].file \in Files /\ life[n].file.by = life[n].id

LifeInit == life = [n \in Names |-> Nobody] /\ copies = {} /\ exported = {} /\ refused = {}

Create(n) ==
  /\ ~Exists(n)
  /\ \E i \in Ids \ (exported \union refused) :
       /\ \A m \in Names : life[m].id # i
       /\ \A c \in copies \ {Torn} : c.by # i
       /\ life' = [life EXCEPT ![n] = [id |-> i, locked |-> FALSE, file |-> NoFile]]
  /\ UNCHANGED <<copies, exported, refused>>

Contents(n, items, destructs) ==
  [by |-> life[n].id, items |-> items, destructs |-> destructs]

\* All of the new contents, or none.  Mappings are dropped only where a backup
\* holds them.
Save(n) ==
  /\ Exists(n)
  /\ \E items \in SUBSET Items, destructs \in BOOLEAN :
       /\ \/ Opens(n) /\ (life[n].file.items \subseteq items \/ life[n].file \in copies)
          \/ ~life[n].locked /\ life[n].file = NoFile /\ items = {}
       /\ life' = [life EXCEPT ![n].file = Contents(n, items, destructs)]
  /\ UNCHANGED <<copies, exported, refused>>

\* The self-destruction after a restore, which was switched on in the vault.  The
\* save of the restore just before may have been the one that damaged the vault.
Wipe(n) ==
  /\ Exists(n) /\ ~life[n].locked
  /\ (Opens(n) /\ life[n].file.destructs) \/ life[n].file = Torn
  /\ life' = [life EXCEPT ![n].file = Contents(n, {}, TRUE)]
  /\ UNCHANGED <<copies, exported, refused>>

\* The disk was full: the one thing that damages a vault.
Damage(n) ==
  /\ Exists(n) /\ ~life[n].locked
  /\ life' = [life EXCEPT ![n].file = Torn]
  /\ UNCHANGED <<copies, exported, refused>>

Recover(n) ==
  /\ Exists(n)
  /\ \E c \in copies : life' = [life EXCEPT ![n].file = c]
  /\ UNCHANGED <<copies, exported, refused>>

\* A snapshot may take the place of one earlier one, and may be interrupted.
Snapshot(n) ==
  /\ Exists(n)
  /\ \E left \in {copies} \union {copies \ {c} : c \in copies},
        c \in {life[n].file, Torn} \ {NoFile} : copies' = left \union {c}
  /\ UNCHANGED <<life, exported, refused>>

Export(n) ==
  /\ Opens(n)
  /\ exported' = exported \union {life[n].id}
  /\ UNCHANGED <<life, copies, refused>>

Unlock(n) ==
  /\ Exists(n) /\ life[n].id \in exported
  /\ life' = [life EXCEPT ![n].locked = FALSE]
  /\ UNCHANGED <<copies, exported, refused>>

\* The key is removed, or stays because the keychain refuses.
Erase(n) ==
  /\ Exists(n)
  /\ \/ /\ life' = [life EXCEPT ![n].locked = TRUE]
        /\ refused' = refused \ {life[n].id}
     \/ /\ refused' = refused \union {life[n].id}
        /\ UNCHANGED life
  /\ UNCHANGED <<copies, exported>>

Erased(n) == life[n].locked \/ life[n].id \in refused

DropVault(n) ==
  /\ Exists(n) /\ Erased(n)
  /\ life' = [life EXCEPT ![n].file = NoFile]
  /\ UNCHANGED <<copies, exported, refused>>

Forget(n) ==
  /\ Exists(n) /\ Erased(n) /\ life[n].file = NoFile
  /\ life' = [life EXCEPT ![n] = Nobody]
  /\ UNCHANGED <<copies, exported, refused>>

LifeNext ==
  \E n \in Names : \/ Create(n) \/ Save(n) \/ Wipe(n) \/ Damage(n) \/ Recover(n)
                   \/ Snapshot(n) \/ Export(n) \/ Unlock(n) \/ Erase(n) \/ DropVault(n) \/ Forget(n)

LifeSpec == LifeInit /\ [][LifeNext]_lifeVars
=============================================================================
