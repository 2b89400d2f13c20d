---------------------------- MODULE EngineRequests ----------------------------
(***************************************************************************)
(* What the engine does with one request of the wrapper (ipc/server.py),   *)
(* as operators from the workspaces before it to the possible outcomes.    *)
(*                                                                         *)
(* A workspace is found by name or by its uuid.  Time is a counter, and a  *)
(* time stands for the uuid of the workspace created then and for the      *)
(* updated_at of the vault saved then: neither is ever used twice.  The    *)
(* contents of a vault are left out; its version tells them apart.         *)
(***************************************************************************)
EXTENDS Integers

CONSTANTS
  Names,     \* workspace names a user types
  MaxClock   \* bound: vault saves

ASSUME EngineAssumption == MaxClock \in Nat

\* A workspace identifier may be a uuid, and a uuid may become a name.
Ids == Names \union (1..MaxClock)
Times == 0..MaxClock

(***************************************************************************)
(* uuid = 0: no such workspace; version = 0 then, or of a vault that does  *)
(* not open.  unseen is a ghost: the vault holds a save the wrapper was    *)
(* never shown.                                                            *)
(***************************************************************************)
Workspaces == [uuid : Times, version : Times, unseen : BOOLEAN]
Absent == [uuid |-> 0, version |-> 0, unseen |-> FALSE]

Types == {"HELLO", "HEARTBEAT", "STATS_QUERY", "WORKSPACE_SWITCH",
          "TEXT_ANONYMIZE", "TEXT_RESTORE"}
Requests == [type : Types, id : Ids, version : Times]

\* The vault a text operation has loaded, and the workspace name it is saved
\* under.
Loads == [at : Ids, vault : Workspaces]

(***************************************************************************)
(* HARD_FAIL stands for ERROR too.  INVALID is an envelope that            *)
(* validateResponse rejects (another protocol version); LOST is none at    *)
(* all: roundTrip threw.  uuid is payload.workspace_id, 0 if missing.      *)
(* Ghosts: at, the workspace that answered, and blind, the text operation  *)
(* knew a version of it and loaded a save the wrapper was never shown.     *)
(***************************************************************************)
Statuses == {"SUCCESS", "VALIDATION_ERROR", "HARD_FAIL", "INVALID", "LOST"}
Replies == [status : Statuses, version : Times, uuid : Times,
            at : SUBSET Ids, blind : BOOLEAN]

Reply(status, version) ==
  [status |-> status, version |-> version, uuid |-> 0, at |-> {}, blind |-> FALSE]
Lost == Reply("LOST", 0)

Outcome(ws, now, reply) == [ws |-> ws, now |-> now, reply |-> reply]

-----------------------------------------------------------------------------
\* _resolve_workspace_name, on the workspaces that exist.
Found(ws, id) == {n \in Ids : ws[n].uuid # 0 /\ (n = id \/ ws[n].uuid = id)}

\* The ones whose vault opens.
Openable(ws, id) == {n \in Found(ws, id) : ws[n].version # 0}

Created(ws, now, id) ==
  [ws EXCEPT ![id] = [uuid |-> now, version |-> now, unseen |-> TRUE]]
Saved(ws, now, n) == [ws EXCEPT ![n].version = now, ![n].unseen = TRUE]

\* A vault is saved whole, whatever has been saved there since it was loaded.
\* Saved under a name that meanwhile stands for another workspace it does not
\* open with that one's key; under a deleted one it is a stray file.
Written(ws, now, l) ==
  IF ws[l.at].uuid = l.vault.uuid THEN Saved(ws, now, l.at)
  ELSE [ws EXCEPT ![l.at].version = 0]

\* The vault a request opens: an identifier that resolves to nothing becomes
\* the name of a new workspace where the dispatcher allows it.
Opened(ws, now, q, create) ==
  {[ws |-> ws, now |-> now, at |-> n] : n \in Openable(ws, q.id)} \union
  {[ws |-> Created(ws, now + 1, q.id), now |-> now + 1, at |-> q.id] :
     i \in {i \in {q.id} : create /\ Found(ws, i) = {}}}

\* _response_workspace_version: the vault's, if it can be loaded now.
KnownVersions(ws, q) == {q.version} \union {ws[n].version : n \in Openable(ws, q.id)}

\* Only a validation error's version can matter to the wrapper.
Rejected(ws, now, q) ==
  {Outcome(ws, now, [Reply("VALIDATION_ERROR", v) EXCEPT !.at = Found(ws, q.id)]) :
     v \in KnownVersions(ws, q)}
Failed(ws, now, s) == {Outcome(ws, now, Reply(s, 0))}

\* Licence refused, workspace expired or its key missing, a corrupt vault, a
\* failing detection stack, an engine of another version.  An error answer to
\* HELLO has no schema_hash, so it is not valid.
Refused(ws, now, q) ==
  Failed(ws, now, "INVALID") \union
  (IF q.type = "HELLO" THEN {} ELSE Failed(ws, now, "HARD_FAIL") \union Rejected(ws, now, q))

Accepted(ws, now, q) == {Outcome(ws, now, Reply("SUCCESS", q.version))}

InSync(o, q) == q.version \in {0, o.ws[o.at].version}

Stats(ws, now, q) ==
  {Outcome(ws, now, Reply("SUCCESS", ws[n].version)) :
     n \in {n \in Openable(ws, q.id) : q.version \in {0, ws[n].version}}}

SwitchTo(ws, now, q) ==
  {Outcome(o.ws, o.now,
     [Reply("SUCCESS", o.ws[o.at].version) EXCEPT !.uuid = o.ws[o.at].uuid, !.at = {o.at}]) :
     o \in Opened(ws, now, q, TRUE)}

(***************************************************************************)
(* The text operations.  First the vault is loaded and its version         *)
(* compared; the creation of a workspace survives a refusal.  Then comes   *)
(* the detection, and a save: what is saved is what was loaded.  A failure *)
(* after the save leaves the save.  (A restore that self-destructs saves   *)
(* twice; only the later save counts here.)                                *)
(***************************************************************************)
OpenedFor(ws, now, q) == Opened(ws, now, q, q.type = "TEXT_ANONYMIZE")

Loading(ws, now, q) ==
  {[ws |-> o.ws, now |-> o.now, load |-> [at |-> o.at, vault |-> o.ws[o.at]]] :
     o \in {o \in OpenedFor(ws, now, q) : o.now <= MaxClock /\ InSync(o, q)}}

\* The comparison fails.
Mismatch(ws, now, q) ==
  UNION {Rejected(o.ws, o.now, q) : o \in {o \in OpenedFor(ws, now, q) : ~InSync(o, q)}}

Transform(ws, now, q, l) ==
  LET saved == Written(ws, now + 1, l)
      reply ==
        [Reply("SUCCESS", now + 1) EXCEPT
           !.at = {l.at}, !.blind = q.version # 0 /\ l.vault.unseen]
  IN  {Outcome(saved, now + 1, reply)} \union Failed(saved, now + 1, "HARD_FAIL")

\* _dispatch and handle_request_dict, for a process that has loaded the vaults
\* in loaded (one, or none yet).
Outcomes(ws, now, q, loaded) ==
  {o \in Refused(ws, now, q) \union
         (CASE q.type \in {"HELLO", "HEARTBEAT"} -> Accepted(ws, now, q)
            [] q.type = "STATS_QUERY" -> Stats(ws, now, q)
            [] q.type = "WORKSPACE_SWITCH" -> SwitchTo(ws, now, q)
            [] OTHER -> IF loaded = {} THEN Mismatch(ws, now, q)
                        ELSE UNION {Transform(ws, now, q, l) : l \in loaded}) :
     o.now <= MaxClock}
=============================================================================
