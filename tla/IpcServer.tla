------------------------------- MODULE IpcServer -------------------------------
(***************************************************************************)
(* The engine behind a UNIX socket (ipc/server.py, ipc/framing.py): server *)
(* processes that share one socket path, the connections of the apps that  *)
(* use them, and the requests, which all open one workspace.  A server     *)
(* accepts one connection at a time and serves it to its end.              *)
(*                                                                         *)
(* Of a request only what it does to the version of the workspace is kept: *)
(* vault_data.updated_at, which every answer carries and the next request  *)
(* is compared with.  An app takes it over from a SUCCESS                  *)
(* (WrapperController.swift) and from a workspace switch answered with a   *)
(* VALIDATION_ERROR, which it takes for done (main.swift); the classes of  *)
(* errors (VALIDATION_ERROR, HARD_FAIL, ERROR) do not differ otherwise.    *)
(***************************************************************************)
EXTENDS Integers, Sequences

CONSTANTS
  Servers, Apps, Conns,
  MaxStarts,    \* bound: starts of servers
  MaxRequests,  \* bound: frames sent
  MaxSaves,     \* bound: saves of the vault
  OthersFrom,   \* bound: the saves of the vault before other processes save it
  Null

ASSUME ServerAssumption ==
  /\ MaxStarts \in Nat /\ MaxRequests \in Nat /\ MaxSaves \in Nat
  /\ Null \notin Servers \union Apps \union Conns \union Nat

VARIABLES
  path,      \* the server whose socket file is at the path, dead or alive
  srv,       \* the server processes
  conns,     \* the connections
  known,     \* of each app: the version it took over last, none is 0
  version,   \* that of the vault, none is 0
  clock,     \* the time of the last save
  starts, requests,
  \* Ghosts: servers for which another one changed the path since they started,
  \* and apps that are told of no answer, or of an error, since the vault was
  \* saved.
  crossed, behind

vars == <<path, srv, conns, known, version, clock, starts, requests,
          crossed, behind>>
vault == <<version, clock>>
bounds == <<starts, requests>>

\* What IPCRequest.from_dict lets pass.
Types == {"HELLO", "STATS_QUERY", "WORKSPACE_SWITCH", "ANONYMIZE", "RESTORE",
          "WORKSPACE_CLOSE", "WORKSPACE_RECOVER", "VAULT_PURGE", "SHUTDOWN"}
\* What it does not: an envelope it refuses, the same with the type SHUTDOWN or
\* with one that is no string.
Envelopes == {"refused", "refusedShutdown", "noType"}
Kinds == Types \union Envelopes
\* What the loop sees of the type in the raw frame, and the app of its request.
RawTypes == {"other", "WORKSPACE_SWITCH", "SHUTDOWN", "noType"}

\* Defective: the type is kept as it came.
RawTypeKept(kind) == kind

RawType(kind) ==
  CASE kind \in {"SHUTDOWN", "refusedShutdown"} -> "SHUTDOWN"
    [] kind \in {"WORKSPACE_SWITCH", "noType"} -> kind
    [] OTHER -> "other"

Down == [at |-> "down", queue |-> <<>>, conn |-> Null,
         type |-> "none", tell |-> Null]
Free == [app |-> Null, srv |-> Null, open |-> FALSE, up |-> FALSE, wire |-> <<>>,
         reply |-> <<>>, waits |-> FALSE]

Init ==
  /\ path = Null /\ srv = [s \in Servers |-> Down] /\ conns = [c \in Conns |-> Free]
  /\ known = [a \in Apps |-> 0] /\ version = 0 /\ clock = 0
  /\ starts = 0 /\ requests = 0
  /\ crossed = {} /\ behind = {}

At(s, at) == srv[s].at = at
Others(s) == {t \in Servers \ {s} : ~At(t, "down")}
GoTo(s, at) == srv' = [srv EXCEPT ![s].at = at]
Serving == {"accept", "read", "build", "send"}
Serves(s) == srv[s].at \in Serving

\* The server's end is closed.  An app that has no answer to read sees it at once
\* and leaves, none the wiser of what was done; apps that know nothing miss nothing.
HungUp(conn) ==
  IF conn.reply = <<>> THEN Free
  ELSE [conn EXCEPT !.up = FALSE, !.srv = Null, !.wire = <<>>]
Unanswered(cs) ==
  {a \in Apps : known[a] # 0 /\ \E c \in cs : conns[c].app = a /\ conns[c].waits}

-----------------------------------------------------------------------------
\* A process that does not run is like any other.
Start(s) ==
  /\ At(s, "down") /\ starts < MaxStarts
  /\ s = CHOOSE t \in Servers : At(t, "down")
  /\ starts' = starts + 1
  /\ GoTo(s, "clean")
  /\ crossed' = crossed \ {s}
  /\ UNCHANGED <<path, conns, known, vault, requests, behind>>

\* _prepare_socket: whatever is at the path is removed, then the path bound.
Clean(s) ==
  /\ At(s, "clean")
  /\ path' = Null
  /\ crossed' = crossed \union Others(s)
  /\ GoTo(s, "bind")
  /\ UNCHANGED <<conns, known, vault, bounds, behind>>

\* Defective: the path is cleaned up again once it is bound.
BindThenClean(s) ==
  /\ At(s, "bind")
  /\ path' = Null
  /\ GoTo(s, IF path = Null THEN "accept" ELSE "close")
  /\ crossed' = crossed \union Others(s)
  /\ UNCHANGED <<conns, known, vault, bounds, behind>>

\* A path that another server bound first is an error.
Bind(s) ==
  /\ At(s, "bind")
  /\ IF path = Null
     THEN path' = s /\ GoTo(s, "accept") /\ crossed' = crossed \union Others(s)
     ELSE GoTo(s, "close") /\ UNCHANGED <<path, crossed>>
  /\ UNCHANGED <<conns, known, vault, bounds, behind>>

Accept(s) ==
  /\ At(s, "accept") /\ srv[s].queue # <<>>
  /\ srv' = [srv EXCEPT ![s].at = "read", ![s].conn = Head(srv[s].queue), ![s].queue = Tail(@)]
  /\ UNCHANGED <<path, conns, known, vault, bounds, crossed, behind>>

-----------------------------------------------------------------------------
Conn(s) == conns[srv[s].conn]

\* Defective: a framing error leaves the loop of the server.
DropLeaving(s) ==
  /\ srv' = [srv EXCEPT ![s] = [Down EXCEPT !.at = "close", !.queue = srv[s].queue]]
  /\ conns' = [conns EXCEPT ![srv[s].conn] = HungUp(@)]
  /\ behind' = behind \union Unanswered({srv[s].conn})

\* _serve_client returns: the connection is closed, the next one accepted.
Drop(s) ==
  /\ srv' = [srv EXCEPT ![s] = [Down EXCEPT !.at = "accept", !.queue = srv[s].queue]]
  /\ conns' = [conns EXCEPT ![srv[s].conn] = HungUp(@)]
  /\ behind' = behind \union Unanswered({srv[s].conn})

\* Defective: an empty read is taken for one that has to be repeated.
NoFrameRepeated(s) ==
  /\ At(s, "read")
  /\ Conn(s).wire # <<>>
  /\ Drop(s)
  /\ UNCHANGED <<path, known, vault, bounds, crossed>>

\* recv_frame blocks until there is a frame, good or bad, or the peer has closed.
NoFrame(s) ==
  /\ At(s, "read")
  /\ Conn(s).wire # <<>> \/ ~Conn(s).open
  /\ Drop(s)
  /\ UNCHANGED <<path, known, vault, bounds, crossed>>

-----------------------------------------------------------------------------
\* What a request makes of the version, and the one it tells an app to take over,
\* Null if none.
Done(v) == [version |-> v, failed |-> FALSE, tell |-> v]
Fails(v) == [version |-> v, failed |-> TRUE, tell |-> Null]

\* The vault a request loads, created where the dispatcher allows it.
Loaded(create) ==
  IF version # 0 THEN {version} ELSE IF create THEN {clock + 1} ELSE {}
\* _load_workspace compares the versions, if the request has one.
InSync(create, q) == {v \in Loaded(create) : q.version \in {0, v}}

\* Defective: the answer tells the version that was loaded.
SavedTellsLoaded(v) ==
  LET now == 1 + IF v > clock THEN v ELSE clock
  IN  {Fails(v), Fails(now), [version |-> now, failed |-> FALSE, tell |-> v]}

\* A save of what was loaded at v.  It may fail; so may what comes after it, the
\* row of the report or, where a restore saves its abort, all of the request.
Saved(v) ==
  LET now == 1 + IF v > clock THEN v ELSE clock
  IN  {Fails(v), Fails(now), Done(now)}

\* The dispatchers, by what they do to the version: those of no workspace, ...
Repeats(q) == {[version |-> version, failed |-> FALSE, tell |-> q.version]}
Switches == {Done(v) : v \in Loaded(TRUE)}
\* ... those that compare it, an anonymisation after it has created the workspace, ...
Reads(q) == {Done(v) : v \in InSync(FALSE, q)}
Restores(q) == UNION {Saved(v) : v \in InSync(FALSE, q)}
Shields(q) == {Fails(v) : v \in Loaded(TRUE)} \union UNION {Saved(v) : v \in InSync(TRUE, q)}
\* ... and those that do not: the vault in the place of the recovered one has a
\* version of its own, an earlier one.
Unchecked == {Done(v) : v \in Loaded(FALSE)}
Purges == UNION {Saved(v) : v \in Loaded(FALSE)}
Recovers == UNION {{Fails(v), Done(v)} : v \in 1..version}

\* _dispatch.
Outcomes(q) ==
  {Fails(version)} \union
  CASE q.kind \in {"HELLO", "SHUTDOWN"} -> Repeats(q)
    [] q.kind = "WORKSPACE_SWITCH" -> Switches
    [] q.kind = "STATS_QUERY" -> Reads(q)
    [] q.kind = "RESTORE" -> Restores(q)
    [] q.kind = "ANONYMIZE" -> Shields(q)
    [] q.kind = "WORKSPACE_CLOSE" -> Unchecked
    [] q.kind = "VAULT_PURGE" -> Purges
    [] q.kind = "WORKSPACE_RECOVER" -> Recovers

\* An app that has not left is told; a new version makes all others that know one,
\* or wait to be told one, fall behind.
Told(s) == {a \in Apps : a = Conn(s).app /\ Conn(s).open}
Informed == {a \in Apps : known[a] # 0 \/ \E c \in Conns : conns[c].app = a /\ conns[c].waits}

Answering(s, at, q, tell) ==
  /\ srv' = [srv EXCEPT ![s].at = at, ![s].type = RawType(q.kind), ![s].tell = tell]
  /\ conns' = [conns EXCEPT ![srv[s].conn].wire = <<>>]

\* handle_request_dict: an envelope that is refused is answered at once.  Apps that
\* knew the version fall behind a save; a SUCCESS tells of it, but those that only
\* repeat the request's version do not.
Work(s) ==
  /\ At(s, "read") /\ Conn(s).wire # <<>>
  /\ \E q \in [kind : Kinds, version : {Conn(s).wire[1]}] :
       \/ /\ q.kind \in Envelopes
          /\ Answering(s, "send", q, Null)
          /\ UNCHANGED <<vault, behind>>
       \/ /\ q.kind \in Types
          /\ \E o \in Outcomes(q) :
               /\ o.version <= MaxSaves
               /\ version' = o.version
               /\ clock' = IF o.version > clock THEN o.version ELSE clock
               /\ Answering(s, IF o.failed THEN "build" ELSE "send", q, o.tell)
               /\ behind' = (IF o.version # version THEN Informed ELSE behind)
                              \ (IF o.failed \/ q.kind \in {"HELLO", "SHUTDOWN"} THEN {} ELSE Told(s))
  /\ UNCHANGED <<path, known, bounds, crossed>>

\* build_error_response with the version that _response_workspace_version finds:
\* its listing raises, out of every handler, while another process writes a
\* metadata.json, and for a vault that does not load it repeats the request's.
\* That one, or one the app does not take over, leaves the app with what it knew.
Build(s) ==
  /\ At(s, "build")
  /\ \/ GoTo(s, "close") /\ UNCHANGED behind
     \/ GoTo(s, "send") /\ UNCHANGED behind
     \/ /\ srv[s].type = "WORKSPACE_SWITCH" /\ version # 0
        /\ srv' = [srv EXCEPT ![s].at = "send", ![s].tell = version]
        /\ behind' = behind \ Told(s)
  /\ UNCHANGED <<path, conns, known, vault, bounds, crossed>>

-----------------------------------------------------------------------------
\* send_frame fails where the peer has gone or the answer is too large.  After an
\* answer the type of the raw frame decides, whatever was answered; a type that is
\* no string raises out of the loop of the server.
Send(s) ==
  /\ At(s, "send")
  /\ \/ /\ Conn(s).open
        /\ conns' = [conns EXCEPT ![srv[s].conn].reply = <<srv[s].tell>>]
        /\ srv' = [srv EXCEPT ![s].at = IF srv[s].type \in {"SHUTDOWN", "noType"} THEN "close" ELSE "read",
                              ![s].type = "none", ![s].tell = Null]
        /\ UNCHANGED behind
     \/ Drop(s)
  /\ UNCHANGED <<path, known, vault, bounds, crossed>>

Closed(s) ==
  LET cs == {c \in Conns : conns[c].srv = s} IN
    /\ conns' = [c \in Conns |-> IF c \in cs THEN HungUp(conns[c]) ELSE conns[c]]
    /\ behind' = behind \union Unanswered({c \in cs : conns[c].reply = <<>>})

\* stop: the socket is closed, then whatever is at the path removed.
Close(s) ==
  /\ At(s, "close")
  /\ Closed(s)
  /\ srv' = [srv EXCEPT ![s] = [Down EXCEPT !.at = "unlink"]]
  /\ UNCHANGED <<path, known, vault, bounds, crossed>>

Unlink(s) ==
  /\ At(s, "unlink")
  /\ path' = Null
  /\ crossed' = crossed \union Others(s)
  /\ GoTo(s, "down")
  /\ UNCHANGED <<conns, known, vault, bounds, behind>>

Kill(s) ==
  /\ ~At(s, "down")
  /\ Closed(s)
  /\ srv' = [srv EXCEPT ![s] = Down]
  /\ UNCHANGED <<path, known, vault, bounds, crossed>>

ServerStep(s) ==
  \/ Clean(s) \/ Bind(s) \/ Accept(s) \/ NoFrame(s) \/ Work(s) \/ Build(s) \/ Send(s)
  \/ Close(s) \/ Unlink(s)

-----------------------------------------------------------------------------
\* The apps.  One connection at a time, one request on it after the other.  Free
\* connections do not differ: any one will do.  Nor do apps that know the same, and
\* none connects when the bound leaves it no request.
Alike(a) ==
  {b \in Apps : /\ known[b] = known[a] /\ (b \in behind) = (a \in behind)
                /\ \A d \in Conns : ~(conns[d].app = b /\ conns[d].open)}

Connect(a) ==
  /\ requests < MaxRequests
  /\ \E c \in Conns : conns[c] = Free
  /\ a \in Alike(a) /\ a = CHOOSE b \in Alike(a) : TRUE
  /\ path # Null /\ Serves(path)
  /\ LET c == CHOOSE d \in Conns : conns[d] = Free IN
       /\ conns' = [conns EXCEPT ![c] = [Free EXCEPT !.app = a, !.srv = path, !.open = TRUE, !.up = TRUE]]
       /\ srv' = [srv EXCEPT ![path].queue = Append(@, c)]
  /\ UNCHANGED <<path, known, vault, bounds, crossed, behind>>

Request(c) ==
  /\ conns[c].open /\ conns[c].up /\ ~conns[c].waits /\ requests < MaxRequests
  /\ requests' = requests + 1
  /\ conns' = [conns EXCEPT ![c].wire = <<known[conns[c].app]>>, ![c].waits = TRUE]
  /\ UNCHANGED <<path, srv, known, vault, starts, crossed, behind>>

\* handleOperationEnvelope: the version of a SUCCESS is taken over.
Receive(c) ==
  /\ conns[c].reply # <<>>
  /\ known' = IF conns[c].reply[1] = Null THEN known
               ELSE [known EXCEPT ![conns[c].app] = conns[c].reply[1]]
  /\ conns' = [conns EXCEPT ![c] = IF conns[c].up THEN [@ EXCEPT !.reply = <<>>, !.waits = FALSE] ELSE Free]
  /\ UNCHANGED <<path, srv, vault, bounds, crossed, behind>>

\* With an answer or, at its timeout, without.
Leave(c) ==
  /\ conns[c].open /\ conns[c].up
  /\ behind' = behind \union Unanswered({c})
  /\ conns' = [conns EXCEPT ![c] = [@ EXCEPT !.open = FALSE, !.app = Null, !.reply = <<>>, !.waits = FALSE]]
  /\ UNCHANGED <<path, srv, known, vault, bounds, crossed>>

\* Other processes save the vault.
OtherSaves ==
  /\ clock >= OthersFrom /\ clock < MaxSaves
  /\ clock' = clock + 1 /\ version' = clock + 1
  /\ behind' = Informed
  /\ UNCHANGED <<path, srv, conns, known, bounds, crossed>>

Next ==
  \/ \E s \in Servers : Start(s) \/ ServerStep(s) \/ Kill(s)
  \/ \E a \in Apps : Connect(a)
  \/ \E c \in Conns : Request(c) \/ Receive(c) \/ Leave(c)
  \/ OtherSaves

\* A server that runs goes on, and an app that does not wait for an answer takes
\* what has come and leaves: its round trip ends by closing the connection.
Spec ==
  /\ Init /\ [][Next]_vars
  /\ \A s \in Servers : WF_vars(ServerStep(s))
  /\ \A c \in Conns :
       WF_vars(Receive(c) \/ (~conns[c].waits /\ Leave(c)))

-----------------------------------------------------------------------------
ServerStates ==
  [at : Serving \union {"down", "clean", "bind", "close", "unlink"}, queue : Seq(Conns),
   conn : Conns \union {Null}, type : RawTypes \union {"none"}, tell : (0..MaxSaves) \union {Null}]
ConnStates ==
  [app : Apps \union {Null}, srv : Servers \union {Null}, open : BOOLEAN, up : BOOLEAN,
   wire : Seq(0..MaxSaves), reply : Seq((0..MaxSaves) \union {Null}), waits : BOOLEAN]

\* Every variable has its type, and who reads or answers has a connection.
TypeOK ==
  /\ path \in Servers \union {Null}
  /\ srv \in [Servers -> ServerStates] /\ conns \in [Conns -> ConnStates]
  /\ \A s \in Servers : srv[s].at \in {"read", "build", "send"} => srv[s].conn \in Conns
  /\ known \in [Apps -> 0..MaxSaves] /\ clock \in 0..MaxSaves /\ version \in 0..clock
  /\ crossed \subseteq Servers /\ behind \subseteq Apps
  /\ starts \in 0..MaxStarts /\ requests \in 0..MaxRequests

\* An app that waits for nothing knows the version of the vault, or none: its next
\* request is not refused for a change of its own, whatever failed before without a
\* save.  Excepted is one behind: since the last answer it took a version over from,
\* another actor saved, or its own request did and was answered with an error or
\* not at all.  (That app's requests are refused until a switch: see the README.)
KnowsTheVersion ==
  \A a \in Apps \ behind :
    (\A c \in Conns : conns[c].app = a => ~conns[c].waits) => known[a] \in {0, version}

\* What serves can be reached: a server's socket file stays at the path as long
\* as no other server process has touched it.
Reachable == \A s \in Servers : Serves(s) /\ s \notin crossed => path = s

\* A server ends for a SHUTDOWN, for a type that is no string, for an error
\* answer while the workspaces cannot be listed, or because another server has
\* bound the path: not for other frames, peers that have gone, answers too large
\* to send, or the socket file of a killed server.
EndsForCause ==
  [][\A s \in Servers :
       At(s, "close")' /\ ~At(s, "close") =>
         \/ At(s, "send") /\ srv[s].type \in {"SHUTDOWN", "noType"}
         \/ At(s, "build")
         \/ At(s, "bind") /\ s \in crossed]_vars

\* Again and again no app waits for an answer: as requests are bounded, each is
\* answered, unless the app leaves or its connection is closed.  Connections that
\* are idle, abandoned, broken or cut off hold nobody up.
Answered == []<>(\A c \in Conns : ~conns[c].waits)
=============================================================================
