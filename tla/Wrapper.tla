-------------------------------- MODULE Wrapper --------------------------------
(***************************************************************************)
(* The menu bar app: its state machine (WrapperStateMachine.swift), its    *)
(* controller (WrapperController.swift), the clipboard guard               *)
(* (ClipboardGuard.swift) and the menu actions (main.swift)                *)
(* talking to the engine in stdio mode, where every round trip starts an   *)
(* engine process and blocks the app's main thread.  Meanwhile other       *)
(* processes use the workspaces, the user copies text elsewhere, and a     *)
(* request the app gave up on may still be carried out.                    *)
(***************************************************************************)
EXTENDS EngineRequests

CONSTANTS
  Default,     \* MenuConstants.defaultWorkspace
  MaxMisses,   \* maxHeartbeatMisses
  NoCall, NoReply

ASSUME WrapperAssumption ==
  /\ Default \in Names
  /\ MaxMisses \in Nat \ {0, 1}
  /\ NoCall \notin Requests /\ NoReply \notin Replies

VARIABLES
  fsm,      \* WrapperStateMachine.state
  misses,   \* heartbeatMisses
  ctl,      \* the controller's workspaceID and workspaceVersion
  label,    \* the status subtitle
  pc,       \* where the main thread waits
  call,     \* the request it waits for
  reply,    \* what the round trip has brought
  held,     \* a text operation's reply while the heartbeat is probed
  clip,     \* the clipboard: text from elsewhere (or none), cleared by the
            \* guard, or the result of an operation
  ws, now,  \* the engine's workspaces and the time
  loaded,   \* the vault the engine process of this round trip has loaded, if any
  orphan,   \* a request abandoned by the app whose engine process lives on
  overran   \* a ghost: a text operation that ran blind was shown as done

vars == <<fsm, misses, ctl, label, pc, call, reply, held, clip, ws, now, loaded, orphan,
          overran>>
engine == <<ws, now, orphan>>

\* The engine process of an abandoned request.
Orphans == [call : Requests, loaded : SUBSET Loads]

-----------------------------------------------------------------------------
States == {"uninitialized", "engineHandshake", "ready", "busy", "hardFail", "shutdown"}

\* The transition table, for the events the app sends: nothing in it sends
\* handshakeFailed, explicitRecovery or shutdown.
Sources ==
  [appLaunch |-> {"uninitialized"},
   handshakeSucceeded |-> {"engineHandshake"},
   beginOperation |-> {"ready"},
   operationSucceeded |-> {"busy"},
   operationValidationError |-> {"busy"},
   operationFailed |-> {"busy"},
   protocolViolation |-> States]
Target ==
  [appLaunch |-> "engineHandshake",
   handshakeSucceeded |-> "ready",
   beginOperation |-> "busy",
   operationSucceeded |-> "ready",
   operationValidationError |-> "ready",
   operationFailed |-> "hardFail",
   protocolViolation |-> "hardFail"]

Accepts(state, event) == state \in Sources[event]
\* A transition that is not accepted throws and changes nothing.
After(state, event) == IF Accepts(state, event) THEN Target[event] ELSE state

(***************************************************************************)
(* handleOperationEnvelope for a reply r to a request for workspace id,    *)
(* with m missed heartbeats: the event it feeds to the state machine,      *)
(* whether it returns (the alternative is to throw), and the version it    *)
(* leaves.  Every validation error code of the engine is an expected one.  *)
(***************************************************************************)
Gate(id, m) == id = ctl.id /\ m < MaxMisses

EventOf(r, id, m) ==
  CASE r.status = "SUCCESS" /\ Gate(id, m) -> "operationSucceeded"
    [] r.status = "VALIDATION_ERROR" -> "operationValidationError"
    [] r.status = "HARD_FAIL" -> "operationFailed"
    [] OTHER -> "protocolViolation"

Returns(event) ==
  event \in {"operationSucceeded", "operationValidationError"} /\ Accepts(fsm, event)

\* Defective: a validation error's version is taken over as well.
VersionAfterAnyReturn(r, event) ==
  IF event \in {"operationSucceeded", "operationValidationError"} THEN r.version ELSE ctl.version

VersionAfter(r, event) == IF event = "operationSucceeded" THEN r.version ELSE ctl.version

\* The wrapper has been shown the workspace as it is now.
Shown(r) == [n \in Ids |-> IF n \in r.at /\ ws[n].version = r.version
                           THEN [ws[n] EXCEPT !.unseen = FALSE] ELSE ws[n]]

\* Round trip: a new engine process with the request.
Send(type, id, version, at) ==
  /\ call' = [type |-> type, id |-> id, version |-> version]
  /\ reply' = NoReply /\ loaded' = {}
  /\ pc' = at

\* Defective: the held reply survives its operation.
FinishHolding(text) ==
  /\ label' = text
  /\ pc' = "idle" /\ call' = NoCall /\ reply' = NoReply /\ loaded' = {} /\ held' = held

\* The handler ends and the main thread is free again.
Finish(text) ==
  /\ label' = text
  /\ pc' = "idle" /\ call' = NoCall /\ reply' = NoReply /\ loaded' = {} /\ held' = NoReply

Waiting == {"hello", "switch", "transform", "beat", "wakeBeat", "wakeStats", "wakeStatsIll"}
Answered(at) == pc = at /\ reply # NoReply
\* The probes: a SUCCESS answer of the right protocol.
Healthy == reply.status = "SUCCESS"

-----------------------------------------------------------------------------
Init ==
  /\ fsm = "uninitialized" /\ misses = 0
  /\ ctl = [id |-> Default, version |-> 0]
  /\ label = "none"
  /\ pc = "start" /\ call = NoCall /\ reply = NoReply /\ held = NoReply
  /\ clip = "user"
  /\ ws = [n \in Ids |-> Absent] /\ now = 0
  /\ loaded = {} /\ orphan = NoCall /\ overran = FALSE

\* applicationDidFinishLaunching, performStartupHandshake.
Launch ==
  /\ pc = "start"
  /\ fsm' = After(fsm, "appLaunch")
  /\ Send("HELLO", ctl.id, ctl.version, "hello")
  /\ UNCHANGED <<misses, ctl, label, held, clip, engine, overran>>

\* The rest of performStartupHandshake: the answer to HELLO is judged like the
\* answer to an operation; then the default workspace is opened.
HelloReturned ==
  /\ Answered("hello")
  /\ LET e == EventOf(reply, call.id, misses)
     IN  IF reply = Lost
         THEN UNCHANGED <<fsm, ctl>> /\ label' = "HARD_FAIL"
         ELSE /\ fsm' = After(fsm, e)
              /\ ctl' = [ctl EXCEPT !.version = VersionAfter(reply, e)]
              /\ label' = IF Returns(e) THEN "READY" ELSE "HARD_FAIL"
  /\ pc' = "opening" /\ call' = NoCall /\ reply' = NoReply /\ loaded' = {}
  /\ UNCHANGED <<misses, held, clip, engine, overran>>

-----------------------------------------------------------------------------
\* switchWorkspace, called at launch and from the menu.
MaySwitch(id) == pc = "idle" \/ (pc = "opening" /\ id = Default)

SwitchRefused(id) ==
  /\ MaySwitch(id)
  /\ ~Accepts(fsm, "beginOperation")
  /\ Finish("HARD_FAIL")
  /\ UNCHANGED <<fsm, misses, ctl, clip, engine, overran>>

Switch(id) ==
  /\ MaySwitch(id)
  /\ Accepts(fsm, "beginOperation") /\ fsm' = Target.beginOperation
  /\ Send("WORKSPACE_SWITCH", id, ctl.version, "switch")
  /\ UNCHANGED <<misses, ctl, label, held, clip, engine, overran>>

\* The Boolean that handleOperationEnvelope returns is dropped: the controller
\* moves to the workspace of a validation error as well.
SwitchDone ==
  LET e == EventOf(reply, call.id, misses) IN
  /\ Answered("switch") /\ reply # Lost /\ Returns(e)
  /\ fsm' = After(fsm, e)
  /\ ctl' = [id |-> IF reply.uuid # 0 THEN reply.uuid ELSE call.id,
             version |-> reply.version]
  /\ ws' = Shown(reply)
  /\ Finish("READY")
  /\ UNCHANGED <<misses, clip, now, orphan, overran>>

SwitchFailed ==
  LET e == EventOf(reply, call.id, misses) IN
  /\ Answered("switch") /\ (reply = Lost \/ ~Returns(e))
  /\ fsm' = IF reply = Lost THEN fsm ELSE After(fsm, e)
  /\ ctl' = IF reply = Lost THEN ctl ELSE [ctl EXCEPT !.version = VersionAfter(reply, e)]
  /\ Finish("HARD_FAIL")
  /\ UNCHANGED <<misses, clip, engine, overran>>

-----------------------------------------------------------------------------
\* runGuardedClipboardOperation with ClipboardGuard.anonymize or restore.
TextTypes == {"TEXT_ANONYMIZE", "TEXT_RESTORE"}

GuardRefused ==
  /\ pc = "idle" /\ ~Accepts(fsm, "beginOperation")
  /\ Finish("HARD_FAIL")
  /\ UNCHANGED <<fsm, misses, ctl, clip, engine, overran>>

\* An empty clipboard, or a clipboard that does not take the placeholder.
GuardThrows ==
  /\ pc = "idle" /\ Accepts(fsm, "beginOperation")
  /\ fsm' = Target.beginOperation
  /\ clip' = "cleared" \/ (clip = "user" /\ clip' = "user")
  /\ Finish("HARD_FAIL")
  /\ UNCHANGED <<misses, ctl, engine, overran>>

GuardSends(type) ==
  /\ pc = "idle" /\ Accepts(fsm, "beginOperation")
  /\ fsm' = Target.beginOperation
  /\ clip' = "cleared"
  /\ Send(type, ctl.id, ctl.version, "transform")
  /\ UNCHANGED <<misses, ctl, label, held, engine, overran>>

\* Defective: a failed round trip is reported like a handled validation error.
TransformThrowsHandled ==
  /\ Answered("transform") /\ reply.status \in {"LOST", "INVALID"}
  /\ Finish("READY")
  /\ UNCHANGED <<fsm, misses, ctl, clip, engine, overran>>

\* requestTextTransform: no answer, or an envelope that is not valid.
TransformThrows ==
  /\ Answered("transform") /\ reply.status \in {"LOST", "INVALID"}
  /\ Finish("HARD_FAIL")
  /\ UNCHANGED <<fsm, misses, ctl, clip, engine, overran>>

\* An answer other than SUCCESS goes through the controller.
TransformRejected ==
  LET e == EventOf(reply, call.id, misses) IN
  /\ Answered("transform") /\ reply.status \in {"VALIDATION_ERROR", "HARD_FAIL"}
  /\ fsm' = After(fsm, e)
  /\ ctl' = [ctl EXCEPT !.version = VersionAfter(reply, e)]
  /\ Finish(IF Returns(e) THEN "READY" ELSE "HARD_FAIL")
  /\ UNCHANGED <<misses, clip, engine, overran>>

\* The result is on the clipboard before the heartbeat and the gate are asked.
TransformWritten ==
  /\ Answered("transform") /\ Healthy
  /\ clip' = "result"
  /\ held' = reply
  /\ Send("HEARTBEAT", ctl.id, ctl.version, "beat")
  /\ UNCHANGED <<fsm, misses, ctl, label, engine, overran>>

TransformUnwritten ==
  /\ Answered("transform") /\ Healthy
  /\ clip' = "cleared"
  /\ Finish("HARD_FAIL")
  /\ UNCHANGED <<fsm, misses, ctl, engine, overran>>

\* A healthy heartbeat resets the misses, then the held reply is judged.
GuardJudged ==
  LET e == EventOf(held, ctl.id, 0) IN
  /\ Answered("beat") /\ Healthy
  /\ misses' = 0
  /\ fsm' = After(fsm, e)
  /\ ctl' = [ctl EXCEPT !.version = VersionAfter(held, e)]
  /\ ws' = IF Returns(e) THEN Shown(held) ELSE ws
  /\ overran' = (overran \/ (Returns(e) /\ held.blind))
  /\ Finish(IF Returns(e) THEN "READY" ELSE "HARD_FAIL")
  /\ UNCHANGED <<clip, now, orphan>>

\* Defective: a miss below the limit lets the session go on.
HeartbeatMissedSoft ==
  /\ Answered("beat") /\ ~Healthy
  /\ misses' = misses + 1
  /\ fsm' = After(fsm, "operationValidationError")
  /\ Finish("HARD_FAIL")
  /\ UNCHANGED <<ctl, clip, engine, overran>>

\* recordHeartbeat(success: false); then invalidHeartbeat is thrown.
HeartbeatMissed ==
  /\ Answered("beat") /\ ~Healthy
  /\ misses' = misses + 1
  /\ fsm' = IF misses' >= MaxMisses THEN After(fsm, "operationFailed") ELSE fsm
  /\ Finish("HARD_FAIL")
  /\ UNCHANGED <<ctl, clip, engine, overran>>

-----------------------------------------------------------------------------
\* handleWake: a heartbeat and a STATS_QUERY, whatever the first one says,
\* then handleSystemWake.
Wake ==
  /\ pc = "idle"
  /\ Send("HEARTBEAT", ctl.id, ctl.version, "wakeBeat")
  /\ UNCHANGED <<fsm, misses, ctl, label, held, clip, engine, overran>>

WakeHeartbeat ==
  /\ Answered("wakeBeat")
  /\ Send("STATS_QUERY", ctl.id, ctl.version,
          IF Healthy THEN "wakeStats" ELSE "wakeStatsIll")
  /\ UNCHANGED <<fsm, misses, ctl, label, held, clip, engine, overran>>

\* Defective: an operation given up before the wake counts as done.
WakeCompletes ==
  /\ Answered("wakeStats") \/ Answered("wakeStatsIll")
  /\ fsm = "busy" /\ fsm' = After(fsm, "operationSucceeded")
  /\ Finish("HARD_FAIL")
  /\ UNCHANGED <<misses, ctl, clip, engine, overran>>

WakeInterrupts ==
  /\ Answered("wakeStats") \/ Answered("wakeStatsIll")
  /\ fsm = "busy" /\ fsm' = After(fsm, "operationFailed")
  /\ Finish("HARD_FAIL")
  /\ UNCHANGED <<misses, ctl, clip, engine, overran>>

WakeIll ==
  /\ Answered("wakeStatsIll") \/ (Answered("wakeStats") /\ ~Healthy)
  /\ fsm # "busy" /\ fsm' = After(fsm, "protocolViolation")
  /\ Finish("HARD_FAIL")
  /\ UNCHANGED <<misses, ctl, clip, engine, overran>>

WakeHealthy ==
  /\ Answered("wakeStats") /\ Healthy
  /\ fsm # "busy" /\ fsm' = After(fsm, "handshakeSucceeded")
  /\ misses' = 0
  /\ Finish("READY")
  /\ UNCHANGED <<ctl, clip, engine, overran>>

-----------------------------------------------------------------------------
\* The engine process of a text operation loads the vault; a process carries
\* out its request and answers.
EngineLoads ==
  /\ pc = "transform" /\ reply = NoReply /\ loaded = {}
  /\ \E o \in Loading(ws, now, call) : ws' = o.ws /\ now' = o.now /\ loaded' = {o.load}
  /\ UNCHANGED <<fsm, misses, ctl, label, pc, call, reply, held, clip, orphan, overran>>

EngineAnswers ==
  /\ pc \in Waiting /\ reply = NoReply
  /\ \E o \in Outcomes(ws, now, call, loaded) : ws' = o.ws /\ now' = o.now /\ reply' = o.reply
  /\ loaded' = {}
  /\ UNCHANGED <<fsm, misses, ctl, label, pc, call, held, clip, orphan, overran>>

\* roundTrip throws: at its timeout, or because the process could not start,
\* failed, or gave an answer that could not be read.  Terminating the command
\* line need not end the engine process below it (one that saves matters).
MayLiveOn ==
  IF reply = NoReply /\ orphan = NoCall /\ call.type \in {"WORKSPACE_SWITCH"} \union TextTypes
  THEN {NoCall, [call |-> call, loaded |-> loaded]} ELSE {orphan}

RoundTripThrows ==
  /\ pc \in Waiting /\ reply # Lost
  /\ reply' = Lost /\ loaded' = {} /\ orphan' \in MayLiveOn
  /\ UNCHANGED <<fsm, misses, ctl, label, pc, call, held, clip, ws, now, overran>>

OrphanLoads ==
  /\ orphan # NoCall /\ orphan.loaded = {} /\ orphan.call.type \in TextTypes
  /\ \E o \in Loading(ws, now, orphan.call) :
       ws' = o.ws /\ now' = o.now /\ orphan' = [orphan EXCEPT !.loaded = {o.load}]
  /\ UNCHANGED <<fsm, misses, ctl, label, pc, call, reply, held, clip, loaded, overran>>

OrphanRuns ==
  /\ orphan # NoCall /\ orphan' = NoCall
  /\ \E o \in Outcomes(ws, now, orphan.call, orphan.loaded) : ws' = o.ws /\ now' = o.now
  /\ UNCHANGED <<fsm, misses, ctl, label, pc, call, reply, held, clip, loaded, overran>>

\* Another process creates, saves or deletes a workspace.
Others ==
  /\ now < MaxClock /\ now' = now + 1
  /\ \/ \E n \in Names : ws[n] = Absent /\ ws' = Created(ws, now', n)
     \/ \E n \in Ids : ws[n].version # 0 /\ ws' = Saved(ws, now', n)
     \/ \E n \in Ids : ws[n] # Absent /\ ws' = [ws EXCEPT ![n] = Absent]
  /\ UNCHANGED <<fsm, misses, ctl, label, pc, call, reply, held, clip, loaded, orphan, overran>>

UserCopies ==
  /\ clip' = "user"
  /\ UNCHANGED <<fsm, misses, ctl, label, pc, call, reply, held, loaded, engine, overran>>

\* The app quits, or is killed while it waits, and is started again.
Relaunch ==
  /\ pc # "start"
  /\ fsm' = "uninitialized" /\ misses' = 0
  /\ ctl' = [id |-> Default, version |-> 0]
  /\ label' = "none"
  /\ pc' = "start" /\ call' = NoCall /\ reply' = NoReply /\ loaded' = {} /\ held' = NoReply
  /\ orphan' \in IF pc \in Waiting THEN MayLiveOn ELSE {orphan}
  /\ UNCHANGED <<clip, ws, now, overran>>

\* The steps the main thread takes with what a round trip brought.
Continue ==
  \/ HelloReturned \/ SwitchDone \/ SwitchFailed
  \/ TransformThrows \/ TransformRejected \/ TransformWritten \/ TransformUnwritten
  \/ GuardJudged \/ HeartbeatMissed
  \/ WakeHeartbeat \/ WakeInterrupts \/ WakeIll \/ WakeHealthy

Next ==
  \/ Launch \/ Continue
  \/ \E id \in Names \union (1..now) : SwitchRefused(id) \/ Switch(id)
  \/ GuardRefused \/ GuardThrows \/ \E type \in TextTypes : GuardSends(type)
  \/ Wake
  \/ EngineLoads \/ EngineAnswers \/ RoundTripThrows \/ OrphanLoads \/ OrphanRuns
  \/ Others \/ UserCopies \/ Relaunch

Spec == Init /\ [][Next]_vars

-----------------------------------------------------------------------------
\* The variables hold what the Swift declarations and the engine allow.
TypeOK ==
  /\ fsm \in States /\ misses \in 0..MaxMisses
  /\ ctl \in [id : Ids, version : Times]
  /\ label \in {"none", "READY", "HARD_FAIL"}
  /\ pc \in Waiting \union {"start", "opening", "idle"}
  /\ call \in Requests \union {NoCall} /\ (pc \in Waiting <=> call # NoCall)
  /\ reply \in Replies \union {NoReply}
  /\ held \in Replies \union {NoReply} /\ (pc = "beat" <=> held # NoReply)
  /\ clip \in {"user", "cleared", "result"}
  /\ ws \in [Ids -> Workspaces] /\ now \in Times
  /\ loaded \in SUBSET Loads /\ (loaded # {} => pc = "transform" /\ reply = NoReply)
  /\ orphan \in Orphans \union {NoCall}
  /\ overran \in BOOLEAN

\* A menu action that ends with READY on the status item leaves a state
\* machine that takes the next one (a wake need not: see the README).
ReadyTaken ==
  [][pc' = "idle" /\ label' = "READY" /\ pc \notin {"idle", "wakeStats"} => fsm' = "ready"]_vars

\* A text operation shown as done that knew the vault's version had loaded a
\* vault with nothing in it, another process's save or an own one whose answer
\* was lost, that the wrapper had not been shown.  (What is saved between its
\* load and its own save it overwrites: see the README.)
NoBlindOperation == ~overran

\* The heartbeat limit is never reached: the first miss already ends the
\* operations of a session, as nothing returns the state machine to READY.
MissesEndSession == misses < MaxMisses

\* An operation given up and a hard failure are final: no late answer, probe
\* or wake makes the app ready again before it is relaunched.  An operation is
\* given up when its handler has ended and the state machine is still BUSY;
\* the wakes judge it while they wait for their probes.
GivenUp == fsm = "busy" /\ pc \in {"idle", "wakeBeat", "wakeStats", "wakeStatsIll"}

NoSilentRecovery == [][fsm = "hardFail" \/ GivenUp => fsm' # "ready"]_vars

\* docs/Cloakroom_Master_PRD.md:122: no success is shown without a verified
\* workspace; a switch shows READY only if the engine accepted it.
NoFalseSwitch ==
  [][pc = "switch" /\ pc' = "idle" /\ label' = "READY" => reply.status = "SUCCESS"]_vars

\* docs/Cloakroom_Master_PRD.md:169: the clipboard is cleared on the paths
\* that end in HARD_FAIL.
ClearedOnFailure ==
  [][pc = "beat" /\ pc' = "idle" /\ label' = "HARD_FAIL" => clip' # "result"]_vars
=============================================================================
