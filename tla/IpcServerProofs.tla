---------------------------- MODULE IpcServerProofs ----------------------------
(***************************************************************************)
(* Theorems about any number of servers at one socket path, apps and       *)
(* connections.                                                            *)
(***************************************************************************)
EXTENDS IpcServer, SequenceTheorems, TLAPS

Busy(s) == srv[s].at \in {"read", "build", "send"}
Answers(s) == srv[s].at \in {"build", "send"}

\* A server that waits to bind the path when another has, knows of that one.
BindCrossed == \A s \in Servers : At(s, "bind") /\ path # Null => s \in crossed
\* The type of the raw frame is known while its request is answered.
TypeKnown == \A s \in Servers : Answers(s) => srv[s].type \in RawTypes

\* Who holds a connection: its app one end, a server in its queue or at work
\* the other; no app has two, and no two servers one.
Ends ==
  /\ \A c \in Conns : /\ conns[c].open <=> conns[c].app # Null
                      /\ conns[c].up <=> conns[c].srv # Null
  /\ \A c, d \in Conns : conns[c].app = conns[d].app /\ conns[c].app # Null => c = d
HeldBy(s) ==
  /\ Busy(s) => conns[srv[s].conn].srv = s
  /\ \A i \in DOMAIN srv[s].queue : conns[srv[s].queue[i]].srv = s
  /\ \A i, j \in DOMAIN srv[s].queue : srv[s].queue[i] = srv[s].queue[j] => i = j
  /\ Busy(s) => \A i \in DOMAIN srv[s].queue : srv[s].queue[i] # srv[s].conn
Held == \A s \in Servers : HeldBy(s)

\* What is on a connection: a request or its answer, where the app waits.
Carries(conn) ==
  /\ conn.reply # <<>> => conn.open /\ conn.waits /\ conn.wire = <<>>
  /\ conn.waits => conn.open
  /\ conn.wire # <<>> /\ conn.open => conn.waits
Carried == \A c \in Conns : Carries(conns[c])
Due(conn) == conn.reply = <<>> /\ conn.wire = <<>> /\ (conn.open => conn.waits)
InHand == \A s \in Servers : Answers(s) => Due(conns[srv[s].conn])

\* What an app that is not behind has sent, will be told, or knows.
Fits(a, told) == IF told = Null THEN known[a] \in {0, version} ELSE told \in {0, version}
UpToDate(a) ==
  /\ \A c \in Conns : conns[c].app = a =>
       /\ conns[c].wire # <<>> => conns[c].wire[1] \in {0, version} /\ known[a] \in {0, version}
       /\ conns[c].reply # <<>> => Fits(a, conns[c].reply[1])
  /\ \A s \in Servers : Answers(s) /\ conns[srv[s].conn].app = a => Fits(a, srv[s].tell)
  /\ (\A c \in Conns : conns[c].app = a => ~conns[c].waits) => known[a] \in {0, version}
Current == \A a \in Apps \ behind : UpToDate(a)

-----------------------------------------------------------------------------
(* Types *)

LEMMA FreeType ==
  /\ Free \in ConnStates /\ Free.app = Null /\ Free.srv = Null
  /\ ~Free.open /\ ~Free.up /\ ~Free.waits /\ Free.wire = <<>> /\ Free.reply = <<>>
<1>1. <<>> \in Seq(0..MaxSaves) /\ <<>> \in Seq((0..MaxSaves) \union {Null})
  BY EmptySeq
<1> QED BY <1>1 DEF Free, ConnStates

LEMMA DownType ==
  /\ Down \in ServerStates /\ Down.at = "down" /\ Down.queue = <<>>
  /\ Down.tell = Null /\ Down.type = "none"
<1>1. <<>> \in Seq(Conns)
  BY EmptySeq
<1> QED BY <1>1, ServerAssumption DEF Down, ServerStates

\* HungUp: the connection is free, but for an app that has an answer to read.
LEMMA HungUpType ==
  ASSUME NEW conn \in ConnStates
  PROVE  /\ HungUp(conn) \in ConnStates
         /\ conn.reply = <<>> => HungUp(conn) = Free
         /\ conn.reply # <<>> => /\ HungUp(conn).app = conn.app /\ (HungUp(conn).open <=> conn.open)
                                 /\ HungUp(conn).reply = conn.reply /\ (HungUp(conn).waits <=> conn.waits)
                                 /\ HungUp(conn).srv = Null /\ ~HungUp(conn).up /\ HungUp(conn).wire = <<>>
<1>1. CASE conn.reply = <<>>
  BY <1>1, FreeType DEF HungUp
<1>2. CASE conn.reply # <<>>
  <2> DEFINE none == <<>>
             h == [conn EXCEPT !.up = FALSE, !.srv = Null, !.wire = none]
  <2>1. none \in Seq(0..MaxSaves)
    BY EmptySeq
  <2>2. HungUp(conn) = h
    BY <1>2 DEF HungUp
  <2> HIDE DEF none
  <2>3. h \in ConnStates
    BY <2>1 DEF ConnStates
  <2>4. /\ h.app = conn.app /\ (h.open <=> conn.open)
        /\ h.reply = conn.reply /\ (h.waits <=> conn.waits)
        /\ h.srv = Null /\ ~h.up /\ h.wire = none
    BY DEF ConnStates
  <2> QED BY <1>2, <2>2, <2>3, <2>4 DEF none
<1> QED BY <1>1, <1>2

\* The outcomes of a request: it fails or ends at a version, new or not, and an
\* answer that is no failure tells that version, or repeats the one it came with.
Repeating == {"HELLO", "SHUTDOWN"}
Ending(v, q) == {o \in {Fails(v), Done(v)} : o = Fails(v) \/ q.kind \notin Repeating}
LEMMA OutcomeIs ==
  ASSUME TypeOK, NEW q, NEW o \in Outcomes(q), q.kind \in Types
  PROVE  \/ \E v \in Nat : (v = version \/ v # 0) /\ o \in Ending(v, q)
         \/ q.kind \in Repeating /\ o = [version |-> version, failed |-> FALSE, tell |-> q.version]
<1> DEFINE Closing(x) == \E v \in Nat : (v = version \/ v # 0) /\ x \in {Fails(v), Done(v)}
<1>1. clock \in Nat /\ version \in Nat
  BY ServerAssumption DEF TypeOK
<1>2. \A create \in BOOLEAN : \A v \in Loaded(create) : v \in Nat /\ (v = version \/ v # 0)
  BY <1>1 DEF Loaded
<1>3. \A create \in BOOLEAN : InSync(create, q) \subseteq Loaded(create)
  BY DEF InSync
<1>4. ASSUME NEW v \in Nat, v = version \/ v # 0, NEW x \in Saved(v)
      PROVE  Closing(x)
  <2> DEFINE now == 1 + IF v > clock THEN v ELSE clock
  <2>1. now \in Nat /\ now # 0
    BY <1>1
  <2>2. x \in {Fails(v), Fails(now), Done(now)}
    BY <1>4 DEF Saved
  <2> HIDE DEF now
  <2> QED BY <2>1, <2>2, <1>4
<1>5. \/ o = Fails(version)
      \/ q.kind \in Repeating /\ o \in Repeats(q)
      \/ /\ q.kind \notin Repeating
         /\ \/ o \in Switches \/ o \in Reads(q) \/ o \in Restores(q) \/ o \in Shields(q)
            \/ o \in Unchecked \/ o \in Purges \/ o \in Recovers
  BY DEF Outcomes, Types, Repeating
<1>6. CASE o = Fails(version)
  BY <1>1, <1>6 DEF Ending
<1>7. CASE q.kind \in Repeating /\ o \in Repeats(q)
  BY <1>7 DEF Repeats
<1>8. ASSUME q.kind \notin Repeating, Closing(o)
      PROVE  \E v \in Nat : (v = version \/ v # 0) /\ o \in Ending(v, q)
  BY <1>8 DEF Ending
<1>9. CASE o \in Switches \/ o \in Reads(q) \/ o \in Unchecked
  <2>1. \E create \in BOOLEAN : \E v \in Loaded(create) : o = Done(v)
    BY <1>3, <1>9 DEF Switches, Reads, Unchecked
  <2>2. Closing(o)
    BY <2>1, <1>2
  <2> QED BY <2>2, <1>5, <1>6, <1>7, <1>8
<1>10. CASE o \in Restores(q) \/ o \in Shields(q) \/ o \in Purges
  <2>1. \E create \in BOOLEAN : \E v \in Loaded(create) : o = Fails(v) \/ o \in Saved(v)
    BY <1>3, <1>10 DEF Restores, Shields, Purges
  <2>2. Closing(o)
    BY <2>1, <1>2, <1>4
  <2> QED BY <2>2, <1>5, <1>6, <1>7, <1>8
<1>11. CASE o \in Recovers
  <2>1. \E v \in 1..version : o \in {Fails(v), Done(v)}
    BY <1>11 DEF Recovers
  <2>2. Closing(o)
    BY <2>1, <1>1
  <2> QED BY <2>2, <1>5, <1>6, <1>7, <1>8
<1> QED BY <1>5, <1>6, <1>7, <1>9, <1>10, <1>11

\* What a worked request makes of the versions, and what it tells.
Reckons(s, at, told) ==
  \/ at = "send" /\ told \in {Null, Conn(s).wire[1]} /\ UNCHANGED <<version, clock, behind>>
  \/ \E v \in Nat :
       /\ v <= MaxSaves /\ (v = version \/ v # 0)
       /\ version' = v /\ clock' = IF v > clock THEN v ELSE clock
       /\ \/ at = "build" /\ told = Null /\ behind' = IF v # version THEN Informed ELSE behind
          \/ at = "send" /\ told = v /\ behind' = (IF v # version THEN Informed ELSE behind) \ Told(s)

\* What a request is worked on: the version it came with is that of the frame.
LEMMA WorkIs ==
  ASSUME TypeOK, NEW s \in Servers, Work(s)
  PROVE  \E q \in [kind : Kinds, version : {Conn(s).wire[1]}], at \in {"build", "send"},
            told \in (0..MaxSaves) \union {Null} :
           /\ Answering(s, at, q, told)
           /\ Reckons(s, at, told)
<1> DEFINE Qs == [kind : Kinds, version : {Conn(s).wire[1]}]
           Tells == (0..MaxSaves) \union {Null}
<1>0. clock \in Nat /\ version \in 0..clock /\ Conn(s).wire[1] \in 0..MaxSaves
  <2>1. Conn(s) \in ConnStates
    BY DEF Work, At, TypeOK, Conn
  <2>2. Conn(s).wire \in Seq(0..MaxSaves) /\ Conn(s).wire # <<>>
    BY <2>1 DEF ConnStates, Work
  <2>3. 1 \in 1..Len(Conn(s).wire)
    BY <2>2, EmptySeq
  <2> QED BY <2>2, <2>3, ElementOfSeq, ServerAssumption DEF TypeOK
<1>1. PICK q \in Qs :
       \/ /\ q.kind \in Envelopes
          /\ Answering(s, "send", q, Null)
          /\ UNCHANGED <<vault, behind>>
       \/ /\ q.kind \in Types
          /\ \E o \in Outcomes(q) :
               /\ o.version <= MaxSaves
               /\ version' = o.version
               /\ clock' = IF o.version > clock THEN o.version ELSE clock
               /\ Answering(s, IF o.failed THEN "build" ELSE "send", q, o.tell)
               /\ behind' = (IF o.version # version THEN Informed ELSE behind)
                              \ (IF o.failed \/ q.kind \in {"HELLO", "SHUTDOWN"} THEN {} ELSE Told(s))
  BY DEF Work
<1>2. q.version = Conn(s).wire[1]
  OBVIOUS
<1>3. SUFFICES \E at \in {"build", "send"}, told \in Tells : Answering(s, at, q, told) /\ Reckons(s, at, told)
  OBVIOUS
<1>4. CASE q.kind \in Envelopes /\ Answering(s, "send", q, Null) /\ UNCHANGED <<vault, behind>>
  <2>1. Reckons(s, "send", Null)
    BY <1>4 DEF vault, Reckons
  <2> QED BY <1>4, <2>1
<1>5. CASE q.kind \in Types
  <2>1. PICK o \in Outcomes(q) :
               /\ o.version <= MaxSaves
               /\ version' = o.version
               /\ clock' = IF o.version > clock THEN o.version ELSE clock
               /\ Answering(s, IF o.failed THEN "build" ELSE "send", q, o.tell)
               /\ behind' = (IF o.version # version THEN Informed ELSE behind)
                              \ (IF o.failed \/ q.kind \in Repeating THEN {} ELSE Told(s))
    BY <1>1, <1>5 DEF Types, Envelopes, Repeating
  <2>2. ASSUME NEW v \in Nat, v = version \/ v # 0, o = Fails(v)
        PROVE  Answering(s, "build", q, Null) /\ Reckons(s, "build", Null)
    <3>1. o.version = v /\ o.failed /\ o.tell = Null
      BY <2>2 DEF Fails
    <3>2. Answering(s, "build", q, Null)
      BY <2>1, <3>1
    <3>3. /\ v <= MaxSaves /\ version' = v /\ clock' = IF v > clock THEN v ELSE clock
          /\ behind' = IF v # version THEN Informed ELSE behind
      BY <2>1, <3>1
    <3> QED BY <2>2, <3>2, <3>3 DEF Reckons
  <2>3. ASSUME NEW v \in Nat, v = version \/ v # 0, o = Done(v), q.kind \notin Repeating
        PROVE  v \in Tells /\ Answering(s, "send", q, v) /\ Reckons(s, "send", v)
    <3>1. o.version = v /\ ~o.failed /\ o.tell = v
      BY <2>3 DEF Done
    <3>2. Answering(s, "send", q, v)
      BY <2>1, <3>1
    <3>3. /\ v <= MaxSaves /\ version' = v /\ clock' = IF v > clock THEN v ELSE clock
          /\ behind' = (IF v # version THEN Informed ELSE behind) \ Told(s)
      BY <2>1, <3>1, <2>3
    <3>4. v \in Tells
      BY <3>3, ServerAssumption
    <3> QED BY <2>3, <3>2, <3>3, <3>4 DEF Reckons
  <2>4. ASSUME q.kind \in Repeating, o = [version |-> version, failed |-> FALSE, tell |-> q.version]
        PROVE  Answering(s, "send", q, q.version) /\ Reckons(s, "send", q.version)
    <3>1. o.version = version /\ ~o.failed /\ o.tell = q.version
      BY <2>4
    <3>2. Answering(s, "send", q, q.version)
      BY <2>1, <3>1
    <3>3. version' = version /\ clock' = clock /\ behind' = behind
      BY <2>1, <2>4, <3>1, <1>0
    <3> QED BY <3>2, <3>3, <1>2 DEF Reckons
  <2>5. CASE q.kind \in Repeating /\ o = [version |-> version, failed |-> FALSE, tell |-> q.version]
    <3>1. q.version \in Tells
      BY <1>0, <1>2
    <3> QED BY <2>4, <2>5, <3>1
  <2>6. CASE \E v \in Nat : (v = version \/ v # 0) /\ o \in Ending(v, q)
    <3>1. PICK v \in Nat : (v = version \/ v # 0) /\ o \in Ending(v, q)
      BY <2>6
    <3>2. CASE o = Fails(v)
      BY <3>1, <3>2, <2>2
    <3>3. CASE o = Done(v) /\ q.kind \notin Repeating
      BY <3>1, <3>3, <2>3
    <3> QED BY <3>1, <3>2, <3>3 DEF Ending
  <2> QED BY <2>5, <2>6, <1>5, OutcomeIs
<1> QED BY <1>1, <1>4, <1>5


-----------------------------------------------------------------------------
(* What the actions make of the servers and the connections *)

Stay(s) == \A t \in Servers \ {s} : srv'[t] = srv[t]
Keep(c) == \A d \in Conns \ {c} : conns'[d] = conns[d]
HangsUp(cs) == \A c \in Conns : conns'[c] = IF c \in cs THEN HungUp(conns[c]) ELSE conns[c]
TypedServers == srv' \in [Servers -> ServerStates]
TypedConns == conns' \in [Conns -> ConnStates]

LEMMA Goes ==
  ASSUME TypeOK, NEW s \in Servers,
         NEW at \in Serving \union {"down", "clean", "bind", "close", "unlink"}, GoTo(s, at)
  PROVE  /\ TypedServers /\ Stay(s) /\ srv'[s].at = at /\ srv'[s].queue = srv[s].queue
         /\ srv'[s].conn = srv[s].conn /\ srv'[s].type = srv[s].type
         /\ srv'[s].tell = srv[s].tell
<1>1. srv \in [Servers -> ServerStates]
  BY DEF TypeOK
<1> QED BY <1>1 DEF GoTo, ServerStates, TypedServers, Stay

LEMMA Accepts ==
  ASSUME TypeOK, NEW s \in Servers, Accept(s)
  PROVE  /\ TypedServers /\ Stay(s) /\ srv'[s].at = "read"
         /\ srv'[s].conn = Head(srv[s].queue) /\ srv'[s].conn \in Conns
         /\ srv'[s].queue = Tail(srv[s].queue) /\ srv'[s].type = srv[s].type
         /\ srv'[s].tell = srv[s].tell
<1>1. srv \in [Servers -> ServerStates]
  BY DEF TypeOK
<1>2. srv[s].queue \in Seq(Conns) /\ srv[s].queue # <<>>
  BY <1>1 DEF ServerStates, Accept
<1>3. Head(srv[s].queue) \in Conns /\ Tail(srv[s].queue) \in Seq(Conns)
  BY <1>2, HeadTailProperties
<1> QED BY <1>1, <1>3, ZenonT(40) DEF Accept, ServerStates, Serving, TypedServers, Stay

LEMMA Drops ==
  ASSUME TypeOK, NEW s \in Servers, Busy(s), Drop(s)
  PROVE  /\ TypedServers /\ Stay(s) /\ srv'[s].at = "accept" /\ srv'[s].queue = srv[s].queue
         /\ srv'[s].tell = Null
         /\ srv[s].conn \in Conns /\ TypedConns /\ HangsUp({srv[s].conn})
         /\ behind' = behind \union Unanswered({srv[s].conn})
<1>1. srv \in [Servers -> ServerStates] /\ conns \in [Conns -> ConnStates] /\ srv[s].conn \in Conns
  BY DEF TypeOK, Busy
<1>2. HungUp(conns[srv[s].conn]) \in ConnStates
  BY <1>1, HungUpType
<1>3. TypedConns /\ HangsUp({srv[s].conn})
  BY <1>1, <1>2 DEF Drop, TypedConns, HangsUp
<1> DEFINE r == [Down EXCEPT !.at = "accept", !.queue = srv[s].queue]
<1>4. r \in ServerStates /\ r.at = "accept" /\ r.queue = srv[s].queue /\ r.tell = Null
  <2>1. srv[s].queue \in Seq(Conns)
    BY <1>1 DEF ServerStates
  <2> QED BY <2>1, DownType DEF ServerStates, Serving
<1> HIDE DEF r
<1>5. srv' = [srv EXCEPT ![s] = r]
  BY DEF Drop, r
<1>6. behind' = behind \union Unanswered({srv[s].conn})
  BY DEF Drop
<1> QED BY <1>1, <1>3, <1>4, <1>5, <1>6 DEF TypedServers, Stay

LEMMA AnsweringSets ==
  ASSUME TypeOK, NEW s \in Servers, At(s, "read"),
         NEW q, q.kind \in Kinds, q.version \in 0..MaxSaves,
         NEW at \in {"build", "send"}, NEW told \in (0..MaxSaves) \union {Null}, Answering(s, at, q, told)
  PROVE  /\ TypedServers /\ Stay(s) /\ srv'[s].at = at /\ srv'[s].queue = srv[s].queue
         /\ srv'[s].conn = srv[s].conn /\ srv'[s].type \in RawTypes /\ srv'[s].tell = told
         /\ srv[s].conn \in Conns /\ TypedConns /\ Keep(srv[s].conn)
         /\ conns'[srv[s].conn].wire = <<>>
         /\ conns'[srv[s].conn].app = Conn(s).app /\ conns'[srv[s].conn].srv = Conn(s).srv
         /\ (conns'[srv[s].conn].open <=> Conn(s).open) /\ (conns'[srv[s].conn].up <=> Conn(s).up)
         /\ (conns'[srv[s].conn].waits <=> Conn(s).waits) /\ conns'[srv[s].conn].reply = Conn(s).reply
<1>1. srv \in [Servers -> ServerStates] /\ conns \in [Conns -> ConnStates] /\ srv[s].conn \in Conns
  BY DEF TypeOK, At
<1>2. RawType(q.kind) \in RawTypes
  BY DEF RawType, RawTypes, Kinds
<1>4. /\ srv' = [srv EXCEPT ![s].at = at, ![s].type = RawType(q.kind), ![s].tell = told]
      /\ conns' = [conns EXCEPT ![srv[s].conn].wire = <<>>]
  BY DEF Answering
<1>5. /\ TypedServers /\ Stay(s) /\ srv'[s].at = at /\ srv'[s].queue = srv[s].queue
      /\ srv'[s].conn = srv[s].conn /\ srv'[s].type \in RawTypes /\ srv'[s].tell = told
  BY <1>1, <1>2, <1>4, ZenonT(40) DEF ServerStates, Serving, TypedServers, Stay
<1> DEFINE none == <<>>
<1>6. none \in Seq(0..MaxSaves)
  BY EmptySeq
<1>7. conns' = [conns EXCEPT ![srv[s].conn].wire = none]
  BY <1>4
<1> HIDE DEF none
<1> DEFINE c == srv[s].conn
<1>8. /\ TypedConns /\ Keep(c) /\ conns'[c].wire = none
      /\ conns'[c].app = conns[c].app /\ conns'[c].srv = conns[c].srv
      /\ (conns'[c].open <=> conns[c].open) /\ (conns'[c].up <=> conns[c].up)
      /\ (conns'[c].waits <=> conns[c].waits) /\ conns'[c].reply = conns[c].reply
  BY <1>1, <1>6, <1>7, ZenonT(40) DEF ConnStates, TypedConns, Keep
<1> QED BY <1>1, <1>5, <1>8 DEF Conn, none

LEMMA Builds ==
  ASSUME TypeOK, NEW s \in Servers, Build(s)
  PROVE  /\ TypedServers /\ Stay(s) /\ srv'[s].queue = srv[s].queue /\ srv'[s].conn = srv[s].conn
         /\ srv'[s].type = srv[s].type /\ UNCHANGED <<conns, version, clock>>
         /\ \/ srv'[s].at \in {"close", "send"} /\ srv'[s].tell = srv[s].tell /\ UNCHANGED behind
            \/ srv'[s].at = "send" /\ srv'[s].tell = version /\ behind' = behind \ Told(s)
<1>1. srv \in [Servers -> ServerStates] /\ version \in (0..MaxSaves) \union {Null}
  BY ServerAssumption DEF TypeOK
<1>3. UNCHANGED <<conns, version, clock>>
  BY DEF Build, vault
<1>4. CASE (GoTo(s, "close") \/ GoTo(s, "send")) /\ UNCHANGED behind
  BY <1>1, <1>3, <1>4 DEF GoTo, ServerStates, Serving, TypedServers, Stay
<1>5. CASE srv' = [srv EXCEPT ![s].at = "send", ![s].tell = version] /\ behind' = behind \ Told(s)
  <2>1. /\ TypedServers /\ Stay(s) /\ srv'[s].queue = srv[s].queue /\ srv'[s].conn = srv[s].conn
        /\ srv'[s].type = srv[s].type /\ srv'[s].at = "send" /\ srv'[s].tell = version
    BY <1>1, <1>5, ZenonT(40) DEF ServerStates, Serving, TypedServers, Stay
  <2> QED BY <1>3, <1>5, <2>1
<1> QED BY <1>4, <1>5 DEF Build

LEMMA Sends ==
  ASSUME TypeOK, NEW s \in Servers, At(s, "send"), Conn(s).open,
         conns' = [conns EXCEPT ![srv[s].conn].reply = <<srv[s].tell>>],
         srv' = [srv EXCEPT ![s].at = IF srv[s].type \in {"SHUTDOWN", "noType"} THEN "close" ELSE "read",
                            ![s].type = "none", ![s].tell = Null]
  PROVE  /\ TypedServers /\ Stay(s) /\ srv'[s].queue = srv[s].queue /\ srv'[s].conn = srv[s].conn
         /\ srv'[s].at \in {"read", "close"} /\ (srv'[s].at = "close" => srv[s].type \in {"SHUTDOWN", "noType"})
         /\ srv'[s].tell = Null
         /\ srv[s].conn \in Conns /\ TypedConns /\ Keep(srv[s].conn)
         /\ conns'[srv[s].conn].reply = <<srv[s].tell>>
         /\ conns'[srv[s].conn].app = Conn(s).app /\ conns'[srv[s].conn].srv = Conn(s).srv
         /\ (conns'[srv[s].conn].open <=> Conn(s).open) /\ (conns'[srv[s].conn].up <=> Conn(s).up)
         /\ (conns'[srv[s].conn].waits <=> Conn(s).waits) /\ conns'[srv[s].conn].wire = Conn(s).wire
<1>1. srv \in [Servers -> ServerStates] /\ conns \in [Conns -> ConnStates] /\ srv[s].conn \in Conns
  BY DEF TypeOK, At
<1>2. srv[s].tell \in (0..MaxSaves) \union {Null}
  BY <1>1, ServerAssumption DEF ServerStates
<1>3. /\ TypedServers /\ Stay(s) /\ srv'[s].queue = srv[s].queue /\ srv'[s].conn = srv[s].conn
      /\ srv'[s].at \in {"read", "close"} /\ (srv'[s].at = "close" => srv[s].type \in {"SHUTDOWN", "noType"})
      /\ srv'[s].tell = Null
  <2> DEFINE at == IF srv[s].type \in {"SHUTDOWN", "noType"} THEN "close" ELSE "read"
  <2>1. at \in {"read", "close"} /\ (at = "close" => srv[s].type \in {"SHUTDOWN", "noType"})
    OBVIOUS
  <2>2. srv' = [srv EXCEPT ![s].at = at, ![s].type = "none", ![s].tell = Null]
    OBVIOUS
  <2> HIDE DEF at
  <2> DEFINE r == [srv[s] EXCEPT !.at = at, !.type = "none", !.tell = Null]
  <2>3. srv[s] \in ServerStates
    BY <1>1
  <2>4. r \in ServerStates /\ r.at = at /\ r.queue = srv[s].queue
        /\ r.conn = srv[s].conn /\ r.tell = Null
    BY <1>2, <2>1, <2>3 DEF ServerStates, Serving
  <2>5. srv' = [srv EXCEPT ![s] = r]
    BY <1>1, <2>2
  <2> HIDE DEF r
  <2>6. ASSUME NEW f, NEW g, f \in [Servers -> ServerStates], g = [f EXCEPT ![s] = r]
        PROVE  g[s] = r /\ g \in [Servers -> ServerStates] /\ \A t \in Servers \ {s} : g[t] = f[t]
    BY <2>4, <2>6
  <2>7. srv'[s] = r /\ TypedServers /\ Stay(s)
    BY ONLY <1>1, <2>5, <2>6 DEF TypedServers, Stay
  <2> QED BY <2>1, <2>4, <2>7
<1> DEFINE answer == <<srv[s].tell>>
           c == srv[s].conn
<1>4. answer \in Seq((0..MaxSaves) \union {Null})
  BY <1>2
<1> HIDE DEF answer
<1>5. /\ TypedConns /\ Keep(c) /\ conns'[c].reply = answer
      /\ conns'[c].app = conns[c].app /\ conns'[c].srv = conns[c].srv
      /\ (conns'[c].open <=> conns[c].open) /\ (conns'[c].up <=> conns[c].up)
      /\ (conns'[c].waits <=> conns[c].waits) /\ conns'[c].wire = conns[c].wire
  BY <1>1, <1>4 DEF ConnStates, TypedConns, Keep, answer
<1> QED BY <1>1, <1>3, <1>5 DEF Conn, answer

LEMMA Closes ==
  ASSUME TypeOK, NEW s \in Servers, Closed(s), NEW at \in {"down", "unlink"},
         srv' = [srv EXCEPT ![s] = [Down EXCEPT !.at = at]]
  PROVE  /\ TypedServers /\ Stay(s) /\ srv'[s].at = at /\ srv'[s].queue = <<>>
         /\ srv'[s].tell = Null
         /\ TypedConns /\ HangsUp({c \in Conns : conns[c].srv = s})
         /\ behind' = behind \union Unanswered({c \in Conns : conns[c].srv = s /\ conns[c].reply = <<>>})
<1>1. srv \in [Servers -> ServerStates] /\ conns \in [Conns -> ConnStates]
  BY DEF TypeOK
<1> DEFINE r == [Down EXCEPT !.at = at]
<1>2. r \in ServerStates /\ r.at = at /\ r.queue = <<>> /\ r.tell = Null
  BY DownType DEF ServerStates
<1> HIDE DEF r
<1>3. srv' = [srv EXCEPT ![s] = r]
  BY DEF r
<1>4. HangsUp({c \in Conns : conns[c].srv = s})
  BY DEF Closed, HangsUp
<1>5. TypedConns
  <2>1. \A c \in Conns : HungUp(conns[c]) \in ConnStates
    BY <1>1, HungUpType
  <2> QED BY <1>1, <2>1 DEF Closed, TypedConns
<1>6. behind' = behind \union Unanswered({c \in Conns : conns[c].srv = s /\ conns[c].reply = <<>>})
  <2>1. {c \in {d \in Conns : conns[d].srv = s} : conns[c].reply = <<>>}
          = {c \in Conns : conns[c].srv = s /\ conns[c].reply = <<>>}
    OBVIOUS
  <2> QED BY <2>1 DEF Closed
<1> QED BY <1>1, <1>2, <1>3, <1>4, <1>5, <1>6 DEF TypedServers, Stay


LEMMA Connects ==
  ASSUME TypeOK, NEW a \in Apps, Connect(a)
  PROVE  \E c \in Conns :
           /\ conns[c] = Free /\ path \in Servers /\ Serves(path)
           /\ \A d \in Conns : ~(conns[d].app = a /\ conns[d].open)
           /\ TypedServers /\ Stay(path) /\ srv'[path].at = srv[path].at
           /\ srv'[path].conn = srv[path].conn /\ srv'[path].type = srv[path].type
           /\ srv'[path].tell = srv[path].tell
           /\ srv'[path].queue = Append(srv[path].queue, c)
           /\ TypedConns /\ Keep(c) /\ conns'[c].app = a /\ conns'[c].srv = path
           /\ conns'[c].open /\ conns'[c].up /\ ~conns'[c].waits
           /\ conns'[c].wire = <<>> /\ conns'[c].reply = <<>>
<1> DEFINE c == CHOOSE d \in Conns : conns[d] = Free
<1>1. c \in Conns /\ conns[c] = Free
  BY DEF Connect
<1>2. path \in Servers /\ Serves(path) /\ a \in Alike(a)
  BY DEF Connect, TypeOK
<1>3. /\ conns' = [conns EXCEPT ![c] = [Free EXCEPT !.app = a, !.srv = path, !.open = TRUE, !.up = TRUE]]
      /\ srv' = [srv EXCEPT ![path].queue = Append(@, c)]
  BY DEF Connect
<1> HIDE DEF c
<1>4. srv \in [Servers -> ServerStates] /\ conns \in [Conns -> ConnStates]
  BY DEF TypeOK
<1>5. srv[path].queue \in Seq(Conns)
  BY <1>2, <1>4 DEF ServerStates
<1>6. Append(srv[path].queue, c) \in Seq(Conns)
  BY <1>1, <1>5
<1> DEFINE q == Append(srv[path].queue, c)
<1>7. srv' = [srv EXCEPT ![path].queue = q]
  BY <1>3
<1>8. q \in Seq(Conns)
  BY <1>6
<1> HIDE DEF q
<1>9. /\ TypedServers /\ Stay(path) /\ srv'[path].at = srv[path].at
      /\ srv'[path].conn = srv[path].conn /\ srv'[path].type = srv[path].type
      /\ srv'[path].tell = srv[path].tell
      /\ srv'[path].queue = q
  BY ONLY <1>2, <1>4, <1>7, <1>8 DEF ServerStates, TypedServers, Stay
<1> DEFINE r == [Free EXCEPT !.app = a, !.srv = path, !.open = TRUE, !.up = TRUE]
<1>10. r \in ConnStates /\ r.app = a /\ r.srv = path /\ r.open /\ r.up /\ ~r.waits /\ r.wire = <<>> /\ r.reply = <<>>
  <2>1. Free \in ConnStates /\ ~Free.waits /\ Free.wire = <<>> /\ Free.reply = <<>>
    BY FreeType
  <2>2. r \in ConnStates /\ r.app = a /\ r.srv = path /\ r.open /\ r.up
        /\ r.waits = Free.waits /\ r.wire = Free.wire /\ r.reply = Free.reply
    BY <2>1, <1>2 DEF ConnStates
  <2> HIDE DEF r
  <2> QED BY <2>1, <2>2
<1>11. conns' = [conns EXCEPT ![c] = r]
  BY <1>3
<1> HIDE DEF r
<1>12. TypedConns /\ Keep(c) /\ conns'[c] = r
  BY ONLY <1>1, <1>4, <1>10, <1>11 DEF TypedConns, Keep
<1>13. \A d \in Conns : ~(conns[d].app = a /\ conns[d].open)
  BY <1>2 DEF Alike
<1> QED BY <1>1, <1>2, <1>9, <1>10, <1>12, <1>13 DEF q

LEMMA Asks ==
  ASSUME TypeOK, Ends, NEW c \in Conns, Request(c)
  PROVE  /\ TypedConns /\ Keep(c) /\ conns[c].app \in Apps /\ conns'[c].wire = <<known[conns[c].app]>>
         /\ conns'[c].waits /\ conns'[c].app = conns[c].app /\ conns'[c].srv = conns[c].srv
         /\ (conns'[c].open <=> conns[c].open) /\ (conns'[c].up <=> conns[c].up)
         /\ conns'[c].reply = conns[c].reply
<1>1. conns \in [Conns -> ConnStates] /\ known \in [Apps -> 0..MaxSaves]
  BY DEF TypeOK
<1>2. conns[c].app \in Apps
  BY <1>1 DEF Ends, Request, ConnStates
<1> DEFINE frame == <<known[conns[c].app]>>
<1>3. frame \in Seq(0..MaxSaves)
  BY <1>1, <1>2
<1>4. conns' = [conns EXCEPT ![c].wire = frame, ![c].waits = TRUE]
  BY DEF Request
<1> HIDE DEF frame
<1>5. /\ TypedConns /\ Keep(c) /\ conns'[c].wire = frame
      /\ conns'[c].waits /\ conns'[c].app = conns[c].app /\ conns'[c].srv = conns[c].srv
      /\ (conns'[c].open <=> conns[c].open) /\ (conns'[c].up <=> conns[c].up)
      /\ conns'[c].reply = conns[c].reply
  BY ONLY <1>1, <1>3, <1>4, c \in Conns DEF ConnStates, TypedConns, Keep
<1> QED BY <1>2, <1>5 DEF frame

LEMMA Receives ==
  ASSUME TypeOK, NEW c \in Conns, Receive(c)
  PROVE  /\ TypedConns /\ Keep(c) /\ conns[c].reply[1] \in (0..MaxSaves) \union {Null}
         /\ ~conns'[c].waits /\ conns'[c].reply = <<>>
         /\ conns[c].up => /\ conns'[c].app = conns[c].app /\ conns'[c].srv = conns[c].srv
                           /\ (conns'[c].open <=> conns[c].open) /\ conns'[c].up
                           /\ conns'[c].wire = conns[c].wire
         /\ ~conns[c].up => conns'[c] = Free
<1>1. conns \in [Conns -> ConnStates]
  BY DEF TypeOK
<1>2. conns[c].reply[1] \in (0..MaxSaves) \union {Null}
  <2>1. conns[c].reply \in Seq((0..MaxSaves) \union {Null}) /\ conns[c].reply # <<>>
    BY <1>1 DEF ConnStates, Receive
  <2>2. 1 \in 1..Len(conns[c].reply)
    BY <2>1, EmptySeq
  <2> QED BY <2>1, <2>2, ElementOfSeq
<1> DEFINE none == <<>>
           r == IF conns[c].up THEN [conns[c] EXCEPT !.reply = none, !.waits = FALSE] ELSE Free
<1>3. none \in Seq((0..MaxSaves) \union {Null})
  BY EmptySeq
<1>4. conns' = [conns EXCEPT ![c] = r]
  BY DEF Receive
<1> HIDE DEF none
<1>5. /\ r \in ConnStates
      /\ conns[c].up => /\ r.app = conns[c].app /\ r.srv = conns[c].srv
                        /\ (r.open <=> conns[c].open) /\ r.up /\ r.wire = conns[c].wire
                        /\ ~r.waits /\ r.reply = none
      /\ ~conns[c].up => r = Free
  <2>1. CASE conns[c].up
    BY <1>1, <1>3, <2>1 DEF ConnStates
  <2>2. CASE ~conns[c].up
    BY <2>2, FreeType
  <2> QED BY <2>1, <2>2
<1> HIDE DEF r
<1>6. TypedConns /\ Keep(c) /\ conns'[c] = r
  BY ONLY <1>1, <1>4, <1>5, c \in Conns DEF TypedConns, Keep
<1> QED BY <1>2, <1>5, <1>6, FreeType DEF none

LEMMA Leaves ==
  ASSUME TypeOK, NEW c \in Conns, Leave(c)
  PROVE  /\ TypedConns /\ Keep(c) /\ conns'[c].app = Null /\ ~conns'[c].open
         /\ conns'[c].reply = <<>> /\ ~conns'[c].waits
         /\ conns'[c].srv = conns[c].srv /\ (conns'[c].up <=> conns[c].up) /\ conns'[c].wire = conns[c].wire
<1>1. conns \in [Conns -> ConnStates]
  BY DEF TypeOK
<1> DEFINE none == <<>>
<1>2. none \in Seq((0..MaxSaves) \union {Null})
  BY EmptySeq
<1>3. conns' = [conns EXCEPT ![c] = [@ EXCEPT !.open = FALSE, !.app = Null, !.reply = none, !.waits = FALSE]]
  BY DEF Leave
<1> HIDE DEF none
<1>4. /\ TypedConns /\ Keep(c) /\ conns'[c].app = Null /\ ~conns'[c].open
      /\ conns'[c].reply = none /\ ~conns'[c].waits
      /\ conns'[c].srv = conns[c].srv /\ (conns'[c].up <=> conns[c].up) /\ conns'[c].wire = conns[c].wire
  BY ONLY <1>1, <1>2, <1>3, c \in Conns DEF ConnStates, TypedConns, Keep
<1> QED BY <1>4 DEF none

-----------------------------------------------------------------------------
(* The ends of the connections, and the types *)

\* Connections only lose their ends, but for the one that is made.
LEMMA EndsFrom ==
  ASSUME TypeOK, Ends, TypedConns,
         \A c \in Conns : /\ conns'[c].open <=> conns'[c].app # Null
                          /\ conns'[c].up <=> conns'[c].srv # Null
                          /\ conns'[c].app \in {Null, conns[c].app}
  PROVE  Ends'
BY DEF Ends

\* What an end of a connection that is hung up becomes.
LEMMA EndsHungUp ==
  ASSUME TypeOK, Ends, NEW cs, TypedConns, HangsUp(cs)
  PROVE  Ends'
<1>1. ASSUME NEW c \in Conns
      PROVE  /\ conns'[c].open <=> conns'[c].app # Null
             /\ conns'[c].up <=> conns'[c].srv # Null
             /\ conns'[c].app \in {Null, conns[c].app}
  <2>1. conns[c] \in ConnStates
    BY DEF TypeOK
  <2>2. (conns[c].open <=> conns[c].app # Null) /\ (conns[c].up <=> conns[c].srv # Null)
    BY DEF Ends
  <2>3. CASE c \notin cs
    BY <2>2, <2>3 DEF HangsUp
  <2>4. CASE c \in cs
    <3>1. conns'[c] = HungUp(conns[c])
      BY <2>4 DEF HangsUp
    <3>2. CASE conns[c].reply = <<>>
      BY <3>1, <3>2, <2>1, HungUpType, FreeType
    <3>3. CASE conns[c].reply # <<>>
      BY <3>1, <3>3, <2>1, <2>2, HungUpType
    <3> QED BY <3>2, <3>3
  <2> QED BY <2>3, <2>4
<1> QED BY <1>1, EndsFrom

\* Work changes the connection of its server and nothing of its ends.
LEMMA WorkSets ==
  ASSUME TypeOK, NEW s \in Servers, Work(s)
  PROVE  /\ TypedServers /\ Stay(s) /\ srv'[s].at \in {"build", "send"} /\ srv'[s].queue = srv[s].queue
         /\ srv'[s].conn = srv[s].conn /\ srv'[s].type \in RawTypes
         /\ srv[s].conn \in Conns /\ TypedConns /\ Keep(srv[s].conn)
         /\ conns'[srv[s].conn].wire = <<>>
         /\ conns'[srv[s].conn].app = Conn(s).app /\ conns'[srv[s].conn].srv = Conn(s).srv
         /\ (conns'[srv[s].conn].open <=> Conn(s).open) /\ (conns'[srv[s].conn].up <=> Conn(s).up)
         /\ (conns'[srv[s].conn].waits <=> Conn(s).waits) /\ conns'[srv[s].conn].reply = Conn(s).reply
         /\ Conn(s).wire # <<>>
         /\ Reckons(s, srv'[s].at, srv'[s].tell)
<1>1. PICK q \in [kind : Kinds, version : {Conn(s).wire[1]}], at \in {"build", "send"}, told \in (0..MaxSaves) \union {Null} :
           /\ Answering(s, at, q, told)
           /\ Reckons(s, at, told)
  BY WorkIs
<1>2. q.version = Conn(s).wire[1] /\ q.kind \in Kinds
  OBVIOUS
<1>3. At(s, "read") /\ Conn(s).wire # <<>>
  BY DEF Work
<1>4. Conn(s).wire[1] \in 0..MaxSaves
  <2>1. Conn(s) \in ConnStates
    BY <1>3 DEF At, TypeOK, Conn
  <2>2. Conn(s).wire \in Seq(0..MaxSaves)
    BY <2>1 DEF ConnStates
  <2>3. 1 \in 1..Len(Conn(s).wire)
    BY <1>3, <2>2, EmptySeq
  <2> QED BY <2>2, <2>3, ElementOfSeq
<1>6. /\ TypedServers /\ Stay(s) /\ srv'[s].at = at /\ srv'[s].queue = srv[s].queue
      /\ srv'[s].conn = srv[s].conn /\ srv'[s].type \in RawTypes /\ srv'[s].tell = told
      /\ srv[s].conn \in Conns /\ TypedConns /\ Keep(srv[s].conn)
      /\ conns'[srv[s].conn].wire = <<>>
      /\ conns'[srv[s].conn].app = Conn(s).app /\ conns'[srv[s].conn].srv = Conn(s).srv
      /\ (conns'[srv[s].conn].open <=> Conn(s).open) /\ (conns'[srv[s].conn].up <=> Conn(s).up)
      /\ (conns'[srv[s].conn].waits <=> Conn(s).waits) /\ conns'[srv[s].conn].reply = Conn(s).reply
  <2>1. q.version \in 0..MaxSaves
    BY <1>2, <1>4
  <2>2. Answering(s, at, q, told)
    BY <1>1
  <2> QED BY <2>1, <2>2, <1>2, <1>3, AnsweringSets
<1> QED BY <1>1, <1>2, <1>3, <1>6

\* What an answer makes of the server and the connection, or the drop of it.
Replies(s) ==
  /\ Conn(s).open /\ UNCHANGED behind
  /\ TypedServers /\ Stay(s) /\ srv'[s].queue = srv[s].queue /\ srv'[s].conn = srv[s].conn
  /\ srv'[s].at \in {"read", "close"} /\ (srv'[s].at = "close" => srv[s].type \in {"SHUTDOWN", "noType"})
  /\ srv'[s].tell = Null
  /\ srv[s].conn \in Conns /\ TypedConns /\ Keep(srv[s].conn)
  /\ conns'[srv[s].conn].reply = <<srv[s].tell>>
  /\ conns'[srv[s].conn].app = Conn(s).app /\ conns'[srv[s].conn].srv = Conn(s).srv
  /\ (conns'[srv[s].conn].open <=> Conn(s).open) /\ (conns'[srv[s].conn].up <=> Conn(s).up)
  /\ (conns'[srv[s].conn].waits <=> Conn(s).waits) /\ conns'[srv[s].conn].wire = Conn(s).wire
LEMMA SendSets ==
  ASSUME TypeOK, NEW s \in Servers, Send(s)
  PROVE  Replies(s) \/ Drop(s)
<1>1. CASE /\ Conn(s).open
           /\ conns' = [conns EXCEPT ![srv[s].conn].reply = <<srv[s].tell>>]
           /\ srv' = [srv EXCEPT ![s].at = IF srv[s].type \in {"SHUTDOWN", "noType"} THEN "close" ELSE "read",
                                 ![s].type = "none", ![s].tell = Null]
           /\ UNCHANGED behind
  <2>1. At(s, "send")
    BY DEF Send
  <2> QED BY <1>1, <2>1, Sends DEF Replies
<1>2. CASE Drop(s)
  BY <1>2
<1> QED BY <1>1, <1>2 DEF Send

LEMMA KillSets ==
  ASSUME TypeOK, NEW s \in Servers, Close(s) \/ Kill(s)
  PROVE  /\ TypedServers /\ Stay(s) /\ srv'[s].at \in {"down", "unlink"} /\ srv'[s].queue = <<>>
         /\ srv'[s].tell = Null
         /\ TypedConns /\ HangsUp({c \in Conns : conns[c].srv = s})
         /\ behind' = behind \union Unanswered({c \in Conns : conns[c].srv = s /\ conns[c].reply = <<>>})
<1>1. CASE Close(s)
  BY <1>1, Closes DEF Close
<1>2. CASE Kill(s)
  <2>1. [Down EXCEPT !.at = "down"] = Down
    BY DEF Down
  <2> QED BY <1>2, <2>1, Closes DEF Kill
<1> QED BY <1>1, <1>2

LEMMA EndsStep ==
  ASSUME TypeOK, Ends, [Next]_vars
  PROVE  Ends'
<1>1. CASE UNCHANGED conns
  BY <1>1 DEF Ends
<1>2. ASSUME NEW s \in Servers, NoFrame(s) PROVE Ends'
  BY <1>2, Drops, EndsHungUp DEF NoFrame, Busy, At
<1>3. ASSUME NEW s \in Servers, Work(s) PROVE Ends'
  <2>1. /\ srv[s].conn \in Conns /\ TypedConns /\ Keep(srv[s].conn)
        /\ conns'[srv[s].conn].app = Conn(s).app /\ conns'[srv[s].conn].srv = Conn(s).srv
        /\ (conns'[srv[s].conn].open <=> Conn(s).open) /\ (conns'[srv[s].conn].up <=> Conn(s).up)
    BY <1>3, WorkSets
  <2> QED BY <2>1, EndsFrom DEF Conn, Keep, Ends
<1>4. ASSUME NEW s \in Servers, Send(s) PROVE Ends'
  <2>1. CASE Replies(s)
    <3>1. /\ srv[s].conn \in Conns /\ TypedConns /\ Keep(srv[s].conn)
          /\ conns'[srv[s].conn].app = Conn(s).app /\ conns'[srv[s].conn].srv = Conn(s).srv
          /\ (conns'[srv[s].conn].open <=> Conn(s).open) /\ (conns'[srv[s].conn].up <=> Conn(s).up)
      BY <2>1 DEF Replies
    <3> QED BY <3>1, EndsFrom DEF Conn, Keep, Ends
  <2>2. CASE Drop(s)
    BY <1>4, <2>2, Drops, EndsHungUp DEF Send, Busy, At
  <2> QED BY <1>4, <2>1, <2>2, SendSets
<1>5. ASSUME NEW s \in Servers, Close(s) \/ Kill(s) PROVE Ends'
  BY <1>5, KillSets, EndsHungUp
<1>6. ASSUME NEW a \in Apps, Connect(a) PROVE Ends'
  <2>1. PICK c \in Conns :
           /\ conns[c] = Free /\ path \in Servers
           /\ \A d \in Conns : ~(conns[d].app = a /\ conns[d].open)
           /\ TypedConns /\ Keep(c) /\ conns'[c].app = a /\ conns'[c].srv = path
           /\ conns'[c].open /\ conns'[c].up
    BY <1>6, Connects
  <2>2. a # Null /\ path # Null
    BY <2>1, ServerAssumption
  <2>3. \A d \in Conns \ {c} : conns'[d] = conns[d] /\ conns[d].app # a
    BY <2>1, <2>2 DEF Keep, Ends
  <2> QED BY <2>1, <2>2, <2>3 DEF Ends
<1>7. ASSUME NEW c \in Conns, Request(c) \/ Receive(c) \/ Leave(c) PROVE Ends'
  <2>1. CASE Request(c)
    BY <2>1, Asks, EndsFrom DEF Keep, Ends
  <2>2. CASE Receive(c) /\ conns[c].up
    BY <2>2, Receives, EndsFrom DEF Keep, Ends
  <2>3. CASE Receive(c) /\ ~conns[c].up
    BY <2>3, Receives, FreeType, EndsFrom DEF Keep, Ends
  <2>4. CASE Leave(c)
    BY <2>4, Leaves, EndsFrom DEF Keep, Ends
  <2> QED BY <1>7, <2>1, <2>2, <2>3, <2>4
<1>8. ASSUME NEW s \in Servers, Start(s) \/ Clean(s) \/ Bind(s) \/ Accept(s) \/ Build(s) \/ Unlink(s)
      PROVE  Ends'
  <2>1. UNCHANGED conns
    BY <1>8 DEF Start, Clean, Bind, Accept, Build, Unlink
  <2> QED BY <2>1, <1>1
<1>9. CASE OtherSaves \/ UNCHANGED vars
  <2>1. UNCHANGED conns
    BY <1>9 DEF OtherSaves, vars
  <2> QED BY <2>1, <1>1
<1> QED BY <1>2, <1>3, <1>4, <1>5, <1>6, <1>7, <1>8, <1>9 DEF Next, ServerStep

LEMMA TypeInit == Init => TypeOK /\ Ends
<1> SUFFICES ASSUME Init PROVE TypeOK /\ Ends
  OBVIOUS
<1>1. srv \in [Servers -> ServerStates] /\ \A s \in Servers : srv[s].at = "down"
  BY DownType DEF Init
<1>2. conns \in [Conns -> ConnStates]
  BY FreeType DEF Init
<1>3. Ends
  BY FreeType, ServerAssumption DEF Init, Ends
<1> QED BY <1>1, <1>2, <1>3, ServerAssumption DEF Init, TypeOK

LEMMA AppSets == Informed \subseteq Apps /\ (\A cs : Unanswered(cs) \subseteq Apps) /\ \A s : Told(s) \subseteq Apps
BY DEF Informed, Unanswered, Told

\* The servers have their type again where the one that went on has.
ServersTyped ==
  /\ srv \in [Servers -> ServerStates]
  /\ \A s \in Servers : srv[s].at \in {"read", "build", "send"} => srv[s].conn \in Conns
LEMMA ServersFrom ==
  ASSUME TypeOK, NEW s \in Servers, TypedServers, Stay(s),
         srv'[s].at \in {"read", "build", "send"} => srv'[s].conn \in Conns
  PROVE  ServersTyped'
<1>1. \A t \in Servers : srv'[t].at \in {"read", "build", "send"} => srv'[t].conn \in Conns
  BY DEF TypeOK, Stay
<1> QED BY <1>1 DEF TypedServers, ServersTyped

RestTyped ==
  /\ path \in Servers \union {Null}
  /\ known \in [Apps -> 0..MaxSaves] /\ clock \in 0..MaxSaves /\ version \in 0..clock
  /\ crossed \subseteq Servers /\ behind \subseteq Apps
  /\ starts \in 0..MaxStarts /\ requests \in 0..MaxRequests
LEMMA TypeParts == TypeOK <=> ServersTyped /\ conns \in [Conns -> ConnStates] /\ RestTyped
BY DEF TypeOK, ServersTyped, RestTyped

LEMMA ServersStep ==
  ASSUME TypeOK, Ends, [Next]_vars
  PROVE  ServersTyped' /\ TypedConns
<1>0. ServersTyped /\ conns \in [Conns -> ConnStates]
  BY TypeParts
<1>1. ASSUME NEW s \in Servers, Start(s) \/ Clean(s) \/ Bind(s) \/ Unlink(s) PROVE ServersTyped' /\ TypedConns
  <2>1. UNCHANGED conns /\ \E at \in {"down", "clean", "bind", "close", "accept"} : GoTo(s, at) /\ at # "read"
    BY <1>1 DEF Start, Clean, Bind, Unlink
  <2>2. PICK at \in {"down", "clean", "bind", "close", "accept"} : GoTo(s, at) /\ UNCHANGED conns
    BY <2>1
  <2>3. TypedServers /\ Stay(s) /\ srv'[s].at = at
    BY <2>2, Goes DEF Serving
  <2>4. ServersTyped'
    BY <2>3, ServersFrom
  <2> QED BY <2>2, <2>4, <1>0 DEF TypedConns
<1>2. ASSUME NEW s \in Servers, Accept(s) PROVE ServersTyped' /\ TypedConns
  BY <1>0, <1>2, Accepts, ServersFrom DEF Accept, TypedConns
<1>3. ASSUME NEW s \in Servers, NoFrame(s) PROVE ServersTyped' /\ TypedConns
  <2>1. TypedServers /\ Stay(s) /\ srv'[s].at = "accept" /\ TypedConns
    BY <1>3, Drops DEF NoFrame, Busy, At
  <2> QED BY <2>1, ServersFrom
<1>4. ASSUME NEW s \in Servers, Work(s) PROVE ServersTyped' /\ TypedConns
  BY <1>4, WorkSets, ServersFrom
<1>5. ASSUME NEW s \in Servers, Build(s) PROVE ServersTyped' /\ TypedConns
  <2>1. TypedServers /\ Stay(s) /\ srv'[s].conn = srv[s].conn /\ srv[s].conn \in Conns /\ UNCHANGED conns
    BY <1>5, Builds DEF Build, At, TypeOK
  <2> QED BY <1>0, <2>1, ServersFrom DEF TypedConns
<1>6. ASSUME NEW s \in Servers, Send(s) PROVE ServersTyped' /\ TypedConns
  <2>1. CASE Replies(s)
    BY <2>1, ServersFrom DEF Replies
  <2>2. CASE Drop(s)
    <3>1. TypedServers /\ Stay(s) /\ srv'[s].at = "accept" /\ TypedConns
      BY <1>6, <2>2, Drops DEF Send, Busy, At
    <3> QED BY <3>1, ServersFrom
  <2> QED BY <1>6, <2>1, <2>2, SendSets
<1>7. ASSUME NEW s \in Servers, Close(s) \/ Kill(s) PROVE ServersTyped' /\ TypedConns
  <2>1. TypedServers /\ Stay(s) /\ srv'[s].at \in {"down", "unlink"} /\ TypedConns
    BY <1>7, KillSets
  <2> QED BY <2>1, ServersFrom
<1>8. ASSUME NEW a \in Apps, Connect(a) PROVE ServersTyped' /\ TypedConns
  <2>1. /\ path \in Servers /\ TypedServers /\ Stay(path) /\ srv'[path].at = srv[path].at
        /\ srv'[path].conn = srv[path].conn /\ TypedConns
    BY <1>8, Connects
  <2> QED BY <2>1, ServersFrom DEF TypeOK
<1>9. ASSUME NEW c \in Conns, Request(c) \/ Receive(c) \/ Leave(c) PROVE ServersTyped' /\ TypedConns
  <2>1. UNCHANGED srv /\ TypedConns
    BY <1>9, Asks, Receives, Leaves DEF Request, Receive, Leave
  <2> QED BY <1>0, <2>1 DEF ServersTyped
<1>10. CASE OtherSaves \/ UNCHANGED vars
  <2>1. UNCHANGED <<srv, conns>>
    BY <1>10 DEF OtherSaves, vars
  <2> QED BY <1>0, <2>1 DEF ServersTyped, TypedConns
<1> QED BY <1>1, <1>2, <1>3, <1>4, <1>5, <1>6, <1>7, <1>8, <1>9, <1>10 DEF Next, ServerStep

LEMMA RestStep ==
  ASSUME TypeOK, Ends, [Next]_vars
  PROVE  RestTyped'
<1>0. /\ RestTyped /\ MaxStarts \in Nat /\ MaxRequests \in Nat /\ MaxSaves \in Nat
  BY TypeParts, ServerAssumption
<1>1. ASSUME NEW s \in Servers, Start(s) PROVE RestTyped'
  <2>1. /\ starts' = starts + 1 /\ starts < MaxStarts /\ crossed' = crossed \ {s}
        /\ UNCHANGED <<path, known, version, clock, requests, behind>>
    BY <1>1 DEF Start, vault
  <2> QED BY <1>0, <2>1 DEF RestTyped
<1>2. ASSUME NEW s \in Servers, Clean(s) \/ Bind(s) \/ Unlink(s) PROVE RestTyped'
  <2>1. /\ path' \in {Null, s, path} /\ crossed' \in {crossed, crossed \union Others(s)}
        /\ UNCHANGED <<known, version, clock, starts, requests, behind>>
    BY <1>2 DEF Clean, Bind, Unlink, vault, bounds
  <2>2. Others(s) \subseteq Servers
    BY DEF Others
  <2> QED BY <1>0, <2>1, <2>2 DEF RestTyped
<1>3. ASSUME NEW s \in Servers, Accept(s) PROVE RestTyped'
  BY <1>0, <1>3 DEF Accept, RestTyped, vault, bounds
<1>4. ASSUME NEW s \in Servers, Drop(s), UNCHANGED <<path, known, vault, bounds, crossed>> PROVE RestTyped'
  <2>1. behind' \subseteq Apps
    BY <1>0, <1>4, AppSets DEF Drop, RestTyped
  <2> QED BY <1>0, <1>4, <2>1 DEF RestTyped, vault, bounds
<1>5. ASSUME NEW s \in Servers, Work(s) PROVE RestTyped'
  <2>1. UNCHANGED <<path, known, starts, requests, crossed>>
    BY <1>5 DEF Work, bounds
  <2>2. behind' \subseteq Apps /\ clock' \in 0..MaxSaves /\ version' \in 0..clock'
    <3>1. CASE UNCHANGED <<version, clock, behind>>
      BY <1>0, <3>1 DEF RestTyped
    <3>2. ASSUME NEW v \in Nat, v <= MaxSaves, version' = v, clock' = IF v > clock THEN v ELSE clock,
                 NEW cs, behind' = (IF v # version THEN Informed ELSE behind) \ cs
          PROVE  behind' \subseteq Apps /\ clock' \in 0..MaxSaves /\ version' \in 0..clock'
      <4>1. behind' \subseteq Apps
        BY <1>0, <3>2, AppSets DEF RestTyped
      <4>2. clock \in 0..MaxSaves
        BY <1>0 DEF RestTyped
      <4>3. CASE v > clock
        BY <1>0, <3>2, <4>2, <4>3, <4>1
      <4>4. CASE ~(v > clock)
        BY <1>0, <3>2, <4>2, <4>4, <4>1
      <4> QED BY <4>3, <4>4
    <3>3. \/ UNCHANGED <<version, clock, behind>>
          \/ \E v \in Nat : /\ v <= MaxSaves /\ version' = v /\ clock' = IF v > clock THEN v ELSE clock
                            /\ \E cs : behind' = (IF v # version THEN Informed ELSE behind) \ cs
      <4>1. Reckons(s, srv'[s].at, srv'[s].tell)
        BY <1>5, WorkSets
      <4>2. \A x : x = x \ {}
        OBVIOUS
      <4> QED BY <4>1, <4>2 DEF Reckons
    <3> QED BY <3>1, <3>2, <3>3
  <2> QED BY <1>0, <2>1, <2>2 DEF RestTyped
<1>6. ASSUME NEW s \in Servers, Build(s) PROVE RestTyped'
  <2>1. UNCHANGED <<path, known, version, clock, starts, requests, crossed>>
    BY <1>6 DEF Build, vault, bounds
  <2>2. behind' \subseteq Apps
    BY <1>0, <1>6, Builds, AppSets DEF RestTyped
  <2> QED BY <1>0, <2>1, <2>2 DEF RestTyped
<1>7. ASSUME NEW s \in Servers, Send(s) PROVE RestTyped'
  <2>1. UNCHANGED <<path, known, vault, bounds, crossed>> /\ (UNCHANGED behind \/ Drop(s))
    BY <1>7 DEF Send
  <2> QED BY <1>0, <1>4, <2>1 DEF RestTyped, vault, bounds
<1>8. ASSUME NEW s \in Servers, Close(s) \/ Kill(s) PROVE RestTyped'
  <2>1. behind' \subseteq Apps
    BY <1>0, <1>8, KillSets, AppSets DEF RestTyped
  <2>2. UNCHANGED <<path, known, version, clock, starts, requests, crossed>>
    BY <1>8 DEF Close, Kill, vault, bounds
  <2> QED BY <1>0, <2>1, <2>2 DEF RestTyped
<1>9. ASSUME NEW a \in Apps, Connect(a) PROVE RestTyped'
  BY <1>0, <1>9 DEF Connect, RestTyped, vault, bounds
<1>10. ASSUME NEW c \in Conns, Request(c) PROVE RestTyped'
  <2>1. requests' = requests + 1 /\ requests < MaxRequests
        /\ UNCHANGED <<path, known, version, clock, starts, crossed, behind>>
    BY <1>10 DEF Request, vault
  <2> QED BY <1>0, <2>1 DEF RestTyped
<1>11. ASSUME NEW c \in Conns, Receive(c) PROVE RestTyped'
  <2>1. /\ conns[c].reply[1] \in (0..MaxSaves) \union {Null}
        /\ known' = IF conns[c].reply[1] = Null THEN known
                     ELSE [known EXCEPT ![conns[c].app] = conns[c].reply[1]]
    BY <1>11, Receives DEF Receive
  <2>2. known' \in [Apps -> 0..MaxSaves]
    BY <1>0, <2>1 DEF RestTyped
  <2> QED BY <1>0, <1>11, <2>2 DEF Receive, RestTyped, vault, bounds
<1>12. ASSUME NEW c \in Conns, Leave(c) PROVE RestTyped'
  <2>1. behind' \subseteq Apps
    BY <1>0, <1>12, AppSets DEF Leave, RestTyped
  <2> QED BY <1>0, <1>12, <2>1 DEF Leave, RestTyped, vault, bounds
<1>13. CASE OtherSaves
  <2>1. clock < MaxSaves /\ clock' = clock + 1 /\ version' = clock + 1 /\ behind' = Informed
        /\ UNCHANGED <<path, known, starts, requests, crossed>>
    BY <1>13 DEF OtherSaves, bounds
  <2>2. clock' \in 0..MaxSaves /\ version' \in 0..clock'
    BY <1>0, <2>1 DEF RestTyped
  <2> QED BY <1>0, <2>1, <2>2, AppSets DEF RestTyped
<1>14. CASE UNCHANGED vars
  BY <1>0, <1>14 DEF vars, RestTyped, vault, bounds
<1>15. ASSUME NEW s \in Servers, NoFrame(s) PROVE RestTyped'
  BY <1>4, <1>15 DEF NoFrame
<1> QED BY <1>1, <1>2, <1>3, <1>5, <1>6, <1>7, <1>8, <1>9, <1>10, <1>11, <1>12, <1>13, <1>14, <1>15
        DEF Next, ServerStep

LEMMA TypeStep == TypeOK /\ Ends /\ [Next]_vars => TypeOK' /\ Ends'
<1> SUFFICES ASSUME TypeOK, Ends, [Next]_vars PROVE TypeOK' /\ Ends'
  OBVIOUS
<1>1. ServersTyped' /\ TypedConns
  BY ServersStep
<1>2. TypeOK'
  BY <1>1, RestStep DEF TypedConns, TypeOK, ServersTyped, RestTyped
<1> QED BY <1>2, EndsStep

\* Every variable keeps its type: the versions told and sent are
\* versions of the vault, and who reads or answers has a connection.
THEOREM TypeCorrect == Spec => []TypeOK
<1>1. Spec => [](TypeOK /\ Ends)
  BY TypeInit, TypeStep, PTL DEF Spec
<1> QED BY <1>1, PTL

-----------------------------------------------------------------------------
(* The socket path *)

Aim == BindCrossed /\ TypeKnown /\ Reachable

\* A server that goes on without the path stays reachable, or stops to serve.
LEMMA AimFrom ==
  ASSUME TypeOK, Aim, NEW s \in Servers, UNCHANGED <<path, crossed>>, Stay(s),
         srv'[s].at # "bind", srv'[s].at \in Serving => srv[s].at \in Serving,
         srv'[s].at \in {"build", "send"} => srv'[s].type \in RawTypes
  PROVE  Aim'
<1>1. \A t \in Servers \ {s} : srv'[t] = srv[t]
  BY DEF Stay
<1>2. BindCrossed'
  BY <1>1 DEF Aim, BindCrossed, At
<1>3. TypeKnown'
  BY <1>1 DEF Aim, TypeKnown, Answers
<1>4. Reachable'
  BY <1>1 DEF Aim, Reachable, Serves
<1> QED BY <1>2, <1>3, <1>4 DEF Aim

\* One that touches the path crosses all others that run.
LEMMA AimCrossed ==
  ASSUME TypeOK, Aim, NEW s \in Servers, Stay(s), crossed' = crossed \union Others(s),
         srv'[s].at \notin {"build", "send"},
         \/ path' = Null /\ srv'[s].at \notin Serving
         \/ path' = s /\ srv'[s].at # "bind"
  PROVE  Aim'
<1>1. \A t \in Servers \ {s} : srv'[t] = srv[t] /\ (srv[t].at # "down" => t \in crossed')
  BY DEF Stay, Others, At
<1>2. BindCrossed'
  BY <1>1 DEF BindCrossed, At
<1>3. TypeKnown'
  BY <1>1 DEF Aim, TypeKnown, Answers
<1>4. Reachable'
  BY <1>1 DEF Reachable, Serves, Serving
<1> QED BY <1>2, <1>3, <1>4 DEF Aim

LEMMA AimStep == TypeOK /\ Ends /\ Aim /\ [Next]_vars => Aim'
<1> SUFFICES ASSUME TypeOK, Ends, Aim, [Next]_vars PROVE Aim'
  OBVIOUS
<1>1. ASSUME NEW s \in Servers, Start(s) PROVE Aim'
  <2>1. GoTo(s, "clean") /\ path' = path /\ crossed' = crossed \ {s}
    BY <1>1 DEF Start
  <2>2. Stay(s) /\ srv'[s].at = "clean"
    BY <2>1, Goes
  <2>3. \A t \in Servers \ {s} : srv'[t] = srv[t] /\ (t \in crossed' <=> t \in crossed)
    BY <2>1, <2>2 DEF Stay
  <2> QED BY <2>1, <2>2, <2>3 DEF Aim, BindCrossed, TypeKnown, Reachable, At, Answers, Serves, Serving
<1>2. ASSUME NEW s \in Servers, Clean(s) PROVE Aim'
  <2>1. GoTo(s, "bind") /\ path' = Null /\ crossed' = crossed \union Others(s)
    BY <1>2 DEF Clean
  <2>2. Stay(s) /\ srv'[s].at = "bind"
    BY <2>1, Goes
  <2> QED BY <2>1, <2>2, AimCrossed DEF Serving
<1>3. ASSUME NEW s \in Servers, Bind(s) PROVE Aim'
  <2>1. CASE path' = s /\ GoTo(s, "accept") /\ crossed' = crossed \union Others(s)
    <3>1. Stay(s) /\ srv'[s].at = "accept"
      BY <2>1, Goes DEF Serving
    <3> QED BY <2>1, <3>1, AimCrossed
  <2>2. CASE GoTo(s, "close") /\ UNCHANGED <<path, crossed>>
    <3>1. Stay(s) /\ srv'[s].at = "close"
      BY <2>2, Goes
    <3> QED BY <2>2, <3>1, AimFrom DEF Serving
  <2> QED BY <1>3, <2>1, <2>2 DEF Bind
<1>4. ASSUME NEW s \in Servers, Accept(s) PROVE Aim'
  <2>1. UNCHANGED <<path, crossed>> /\ srv[s].at = "accept"
    BY <1>4 DEF Accept, At
  <2>2. Stay(s) /\ srv'[s].at = "read"
    BY <1>4, Accepts
  <2> QED BY <2>1, <2>2, AimFrom DEF Serving
<1>5. ASSUME NEW s \in Servers, NoFrame(s) PROVE Aim'
  <2>1. UNCHANGED <<path, crossed>> /\ srv[s].at = "read"
    BY <1>5 DEF NoFrame, At
  <2>2. Stay(s) /\ srv'[s].at = "accept"
    BY <1>5, Drops DEF NoFrame, Busy, At
  <2> QED BY <2>1, <2>2, AimFrom DEF Serving
<1>6. ASSUME NEW s \in Servers, Work(s) PROVE Aim'
  <2>1. UNCHANGED <<path, crossed>> /\ srv[s].at = "read"
    BY <1>6 DEF Work, At
  <2>2. Stay(s) /\ srv'[s].at \in {"build", "send"} /\ srv'[s].type \in RawTypes
    BY <1>6, WorkSets
  <2> QED BY <2>1, <2>2, AimFrom DEF Serving
<1>7. ASSUME NEW s \in Servers, Build(s) PROVE Aim'
  <2>1. UNCHANGED <<path, crossed>> /\ srv[s].at = "build"
    BY <1>7 DEF Build, At
  <2>2. Stay(s) /\ srv'[s].at \in {"close", "send"} /\ srv'[s].type = srv[s].type
    BY <1>7, Builds
  <2>3. srv[s].type \in RawTypes
    BY <2>1 DEF Aim, TypeKnown, Answers
  <2> QED BY <2>1, <2>2, <2>3, AimFrom DEF Serving
<1>8. ASSUME NEW s \in Servers, Send(s) PROVE Aim'
  <2>1. UNCHANGED <<path, crossed>> /\ srv[s].at = "send"
    BY <1>8 DEF Send, At
  <2>2. Stay(s) /\ srv'[s].at \in {"read", "close", "accept"}
    <3>1. CASE Replies(s)
      BY <3>1 DEF Replies
    <3>2. CASE Drop(s)
      BY <2>1, <3>2, Drops DEF Busy
    <3> QED BY <1>8, <3>1, <3>2, SendSets
  <2> QED BY <2>1, <2>2, AimFrom DEF Serving
<1>9. ASSUME NEW s \in Servers, Close(s) \/ Kill(s) PROVE Aim'
  <2>1. UNCHANGED <<path, crossed>>
    BY <1>9 DEF Close, Kill
  <2>2. Stay(s) /\ srv'[s].at \in {"down", "unlink"}
    BY <1>9, KillSets
  <2> QED BY <2>1, <2>2, AimFrom DEF Serving
<1>10. ASSUME NEW s \in Servers, Unlink(s) PROVE Aim'
  <2>1. GoTo(s, "down") /\ path' = Null /\ crossed' = crossed \union Others(s)
    BY <1>10 DEF Unlink
  <2>2. Stay(s) /\ srv'[s].at = "down"
    BY <2>1, Goes
  <2> QED BY <2>1, <2>2, AimCrossed DEF Serving
<1>11. ASSUME NEW a \in Apps, Connect(a) PROVE Aim'
  <2>1. UNCHANGED <<path, crossed>>
    BY <1>11 DEF Connect
  <2>2. path \in Servers /\ Serves(path) /\ Stay(path) /\ srv'[path].at = srv[path].at /\ srv'[path].type = srv[path].type
    BY <1>11, Connects
  <2>3. srv[path].at \in {"build", "send"} => srv[path].type \in RawTypes
    BY <2>2 DEF Aim, TypeKnown, Answers
  <2> QED BY <2>1, <2>2, <2>3, AimFrom DEF Serves, Serving
<1>12. ASSUME UNCHANGED <<path, crossed, srv>> PROVE Aim'
  BY <1>12 DEF Aim, BindCrossed, TypeKnown, Reachable, At, Answers, Serves
<1>13. ASSUME NEW c \in Conns, Request(c) \/ Receive(c) \/ Leave(c) PROVE Aim'
  <2>1. UNCHANGED <<path, crossed, srv>>
    BY <1>13 DEF Request, Receive, Leave
  <2> QED BY <2>1, <1>12
<1>14. CASE OtherSaves \/ UNCHANGED vars
  <2>1. UNCHANGED <<path, crossed, srv>>
    BY <1>14 DEF OtherSaves, vars
  <2> QED BY <2>1, <1>12
<1> QED BY <1>1, <1>2, <1>3, <1>4, <1>5, <1>6, <1>7, <1>8, <1>9, <1>10, <1>11, <1>13, <1>14
        DEF Next, ServerStep

LEMMA AimInit == Init => Aim
<1> SUFFICES ASSUME Init PROVE Aim
  OBVIOUS
<1>1. \A s \in Servers : srv[s].at = "down"
  BY DownType DEF Init
<1> QED BY <1>1 DEF Aim, BindCrossed, TypeKnown, Reachable, At, Answers, Serves, Serving

LEMMA AimAlways == Spec => [](TypeOK /\ Ends /\ Aim)
BY TypeInit, AimInit, TypeStep, AimStep, PTL DEF Spec

\* A server that serves can be reached at the path, until another server
\* process cleans, binds or unlinks it.
THEOREM ServersReachable == Spec => []Reachable
BY AimAlways, PTL DEF Aim

\* Why a server may end.
Cause(s) ==
  \/ At(s, "send") /\ srv[s].type \in {"SHUTDOWN", "noType"}
  \/ At(s, "build")
  \/ At(s, "bind") /\ s \in crossed

LEMMA CauseStep ==
  TypeOK /\ Ends /\ Aim /\ [Next]_vars =>
    [\A s \in Servers : At(s, "close")' /\ ~At(s, "close") => Cause(s)]_vars
<1> SUFFICES ASSUME TypeOK, Ends, Aim, Next, NEW s \in Servers, At(s, "close")', ~At(s, "close")
             PROVE  Cause(s)
  OBVIOUS
<1>0. srv'[s].at = "close" /\ srv[s].at # "close"
  BY DEF At
\* A server that goes on elsewhere.
<1>1. ASSUME NEW t \in Servers, Stay(t), srv'[t].at # "close" PROVE FALSE
  BY <1>0, <1>1 DEF Stay
<1>2. ASSUME NEW t \in Servers, Stay(t) PROVE s = t
  BY <1>0, <1>2 DEF Stay
<1>3. ASSUME NEW t \in Servers, NEW at \in {"down", "clean", "bind", "accept"}, GoTo(t, at) PROVE FALSE
  <2>1. Stay(t) /\ srv'[t].at = at
    BY <1>3, Goes DEF Serving
  <2> QED BY <2>1, <1>1
<1>4. ASSUME NEW t \in Servers, Start(t) \/ Clean(t) \/ Unlink(t) PROVE FALSE
  BY <1>3, <1>4 DEF Start, Clean, Unlink
<1>5. ASSUME NEW t \in Servers, Bind(t) PROVE Cause(s)
  <2>1. CASE GoTo(t, "accept")
    BY <2>1, <1>3
  <2>2. CASE GoTo(t, "close") /\ path # Null
    <3>1. Stay(t)
      BY <2>2, Goes
    <3>2. s = t /\ At(t, "bind")
      BY <1>2, <3>1, <1>5 DEF Bind
    <3> QED BY <2>2, <3>2 DEF Aim, BindCrossed, Cause
  <2> QED BY <1>5, <2>1, <2>2 DEF Bind
<1>6. ASSUME NEW t \in Servers, Accept(t) \/ NoFrame(t) \/ Work(t) PROVE FALSE
  <2>1. CASE Accept(t)
    BY <2>1, Accepts, <1>1
  <2>2. CASE NoFrame(t)
    BY <2>2, Drops, <1>1 DEF NoFrame, Busy, At
  <2>3. CASE Work(t)
    <3>1. Stay(t) /\ srv'[t].at \in {"build", "send"}
      BY <2>3, WorkSets
    <3> QED BY <3>1, <1>1
  <2> QED BY <1>6, <2>1, <2>2, <2>3
<1>7. ASSUME NEW t \in Servers, Build(t) PROVE Cause(s)
  <2>1. Stay(t) /\ At(t, "build")
    BY <1>7, Builds DEF Build
  <2> QED BY <2>1, <1>2 DEF Cause
<1>8. ASSUME NEW t \in Servers, Send(t) PROVE Cause(s)
  <2>1. At(t, "send")
    BY <1>8 DEF Send
  <2>2. CASE Replies(t)
    <3>1. s = t
      BY <2>2, <1>2 DEF Replies
    <3>2. srv[s].type \in {"SHUTDOWN", "noType"}
      BY <2>2, <3>1, <1>0 DEF Replies
    <3> QED BY <2>1, <3>1, <3>2 DEF Cause
  <2>3. CASE Drop(t)
    BY <2>1, <2>3, Drops, <1>1 DEF Busy, At
  <2> QED BY <1>8, <2>2, <2>3, SendSets
<1>9. ASSUME NEW t \in Servers, Close(t) \/ Kill(t) PROVE FALSE
  BY <1>9, KillSets, <1>1
<1>10. ASSUME NEW a \in Apps, Connect(a) PROVE FALSE
  <2>1. path \in Servers /\ Stay(path) /\ srv'[path].at = srv[path].at
    BY <1>10, Connects
  <2> QED BY <2>1, <1>0 DEF Stay
<1>11. ASSUME UNCHANGED srv PROVE FALSE
  BY <1>0, <1>11
<1>12. ASSUME NEW c \in Conns, Request(c) \/ Receive(c) \/ Leave(c) PROVE FALSE
  BY <1>11, <1>12 DEF Request, Receive, Leave
<1>13. CASE OtherSaves
  BY <1>11, <1>13 DEF OtherSaves
<1> QED BY <1>4, <1>5, <1>6, <1>7, <1>8, <1>9, <1>10, <1>12, <1>13 DEF Next, ServerStep

\* A server ends for a SHUTDOWN, a type that is no string, an error answer while
\* the workspaces cannot be listed, or a path that another server has bound.
THEOREM EndOnlyForCause == Spec => EndsForCause
BY AimAlways, CauseStep, PTL DEF Spec, EndsForCause, Cause

-----------------------------------------------------------------------------
(* Who holds the connections, and what is on them *)

Linked == Held /\ Carried /\ InHand

\* What one server holds no other one has to do with.
LEMMA Apart ==
  ASSUME TypeOK, Held, NEW s \in Servers, NEW t \in Servers, s # t
  PROVE  /\ Busy(s) /\ Busy(t) => srv[s].conn # srv[t].conn
         /\ \A i \in DOMAIN srv[t].queue : srv[t].queue[i] \in Conns
         /\ Busy(s) => \A i \in DOMAIN srv[t].queue : srv[t].queue[i] # srv[s].conn
<1>1. HeldBy(s) /\ HeldBy(t)
  BY DEF Held
<1>2. srv[t].queue \in Seq(Conns)
  BY DEF TypeOK, ServerStates
<1>3. \A i \in DOMAIN srv[t].queue : srv[t].queue[i] \in Conns
  BY <1>2
<1> QED BY <1>1, <1>3 DEF HeldBy

LEMMA QueueIn ==
  ASSUME TypeOK, NEW s \in Servers
  PROVE  srv[s].queue \in Seq(Conns) /\ \A i \in DOMAIN srv[s].queue : srv[s].queue[i] \in Conns
<1>1. srv[s].queue \in Seq(Conns)
  BY DEF TypeOK, ServerStates
<1> QED BY <1>1

\* A step of a server that touches no connection but those it held.
LEMMA HeldFrom ==
  ASSUME TypeOK, Held, NEW s \in Servers, Stay(s), HeldBy(s)',
         \A c \in Conns : conns'[c].srv = conns[c].srv \/ conns[c].srv \in {Null, s}
  PROVE  Held'
<1> SUFFICES ASSUME NEW t \in Servers PROVE HeldBy(t)'
  BY DEF Held
<1>1. CASE t = s
  BY <1>1
<1>2. CASE t # s
  <2>1. srv'[t] = srv[t] /\ HeldBy(t) /\ t # Null
    BY <1>2, ServerAssumption DEF Stay, Held
  <2>2. \A c \in Conns : conns[c].srv = t => conns'[c].srv = t
    BY <1>2, <2>1
  <2>3. \A i \in DOMAIN srv[t].queue : srv[t].queue[i] \in Conns
    BY QueueIn
  <2>4. Busy(t) => srv[t].conn \in Conns
    BY DEF TypeOK, Busy
  <2> QED BY <2>1, <2>2, <2>3, <2>4 DEF HeldBy, Busy
<1> QED BY <1>1, <1>2

\* A step of an app that moves no server's end.
LEMMA HeldStill ==
  ASSUME TypeOK, Held, UNCHANGED srv,
         \A c \in Conns : conns'[c].srv = conns[c].srv \/ conns[c].srv = Null
  PROVE  Held'
<1> SUFFICES ASSUME NEW t \in Servers PROVE HeldBy(t)'
  BY DEF Held
<1>1. HeldBy(t) /\ t # Null
  BY ServerAssumption DEF Held
<1>2. \A c \in Conns : conns[c].srv = t => conns'[c].srv = t
  BY <1>1
<1>3. \A i \in DOMAIN srv[t].queue : srv[t].queue[i] \in Conns
  BY QueueIn
<1>4. Busy(t) => srv[t].conn \in Conns
  BY DEF TypeOK, Busy
<1> QED BY <1>1, <1>2, <1>3, <1>4 DEF HeldBy, Busy

\* A server that only goes on with what it holds.
LEMMA HeldOn ==
  ASSUME TypeOK, Held, NEW s \in Servers, Stay(s), srv'[s].queue = srv[s].queue,
         Busy(s)' => Busy(s) /\ srv'[s].conn = srv[s].conn,
         \A c \in Conns : conns'[c].srv = conns[c].srv
  PROVE  Held'
<1>1. HeldBy(s)
  BY DEF Held
<1>2. \A i \in DOMAIN srv[s].queue : srv[s].queue[i] \in Conns
  BY QueueIn
<1>3. Busy(s) => srv[s].conn \in Conns
  BY DEF TypeOK, Busy
<1>4. HeldBy(s)'
  BY <1>1, <1>2, <1>3 DEF HeldBy
<1> QED BY <1>4, HeldFrom

LEMMA HungUpEnd ==
  ASSUME TypeOK, NEW cs, HangsUp(cs), NEW c \in Conns
  PROVE  /\ c \in cs => conns'[c].srv = Null
         /\ c \notin cs => conns'[c] = conns[c]
         /\ c \in cs => IF conns[c].reply = <<>> THEN conns'[c] = Free
                        ELSE /\ conns'[c].app = conns[c].app /\ (conns'[c].open <=> conns[c].open)
                             /\ conns'[c].reply = conns[c].reply /\ (conns'[c].waits <=> conns[c].waits)
                             /\ conns'[c].wire = <<>>
<1>1. conns[c] \in ConnStates
  BY DEF TypeOK
<1>2. conns'[c] = IF c \in cs THEN HungUp(conns[c]) ELSE conns[c]
  BY DEF HangsUp
<1>3. CASE c \notin cs
  BY <1>2, <1>3
<1>4. CASE c \in cs
  <2>1. conns'[c] = HungUp(conns[c])
    BY <1>2, <1>4
  <2>2. CASE conns[c].reply = <<>>
    BY <1>1, <1>4, <2>1, <2>2, HungUpType, FreeType
  <2>3. CASE conns[c].reply # <<>>
    BY <1>1, <1>4, <2>1, <2>3, HungUpType
  <2> QED BY <2>2, <2>3
<1> QED BY <1>3, <1>4

LEMMA HeldDrop ==
  ASSUME TypeOK, Held, NEW s \in Servers, Busy(s), Drop(s)
  PROVE  Held'
<1>1. /\ Stay(s) /\ srv'[s].at = "accept" /\ srv'[s].queue = srv[s].queue
      /\ srv[s].conn \in Conns /\ HangsUp({srv[s].conn})
  BY Drops
<1>2. HeldBy(s)
  BY DEF Held
<1>3. \A c \in Conns : c # srv[s].conn => conns'[c] = conns[c]
  BY <1>1, HungUpEnd
<1>4. \A i \in DOMAIN srv[s].queue : srv[s].queue[i] \in Conns
  BY QueueIn
<1>5. HeldBy(s)'
  BY <1>1, <1>2, <1>3, <1>4 DEF HeldBy, Busy
<1>6. \A c \in Conns : conns'[c].srv = conns[c].srv \/ conns[c].srv \in {Null, s}
  BY <1>2, <1>3 DEF HeldBy
<1> QED BY <1>1, <1>5, <1>6, HeldFrom

LEMMA HeldAccept ==
  ASSUME TypeOK, Held, NEW s \in Servers, Accept(s)
  PROVE  Held'
<1>1. /\ Stay(s) /\ srv'[s].at = "read"
      /\ srv'[s].conn = Head(srv[s].queue) /\ srv'[s].queue = Tail(srv[s].queue)
  BY Accepts
<1>2. UNCHANGED conns /\ srv[s].queue # <<>>
  BY DEF Accept
<1>3. HeldBy(s) /\ srv[s].queue \in Seq(Conns)
  BY QueueIn DEF Held
<1> DEFINE q == srv[s].queue
<1>4. /\ Head(q) = q[1] /\ 1 \in DOMAIN q
      /\ \A i \in DOMAIN Tail(q) : Tail(q)[i] = q[i + 1] /\ i + 1 \in DOMAIN q /\ i + 1 # 1
      /\ DOMAIN Tail(q) \subseteq Nat
  <2>1. Len(q) \in Nat /\ Len(q) > 0 /\ DOMAIN q = 1..Len(q)
    BY <1>2, <1>3, EmptySeq
  <2>2. Tail(q) \in Seq(Conns) /\ Len(Tail(q)) = Len(q) - 1 /\ \A i \in 1..Len(Tail(q)) : Tail(q)[i] = q[i + 1]
    BY <1>2, <1>3, HeadTailProperties
  <2>3. DOMAIN Tail(q) = 1..(Len(q) - 1)
    BY <2>2
  <2>4. Head(q) = q[1]
    BY <1>3
  <2> HIDE DEF q
  <2> QED BY <2>1, <2>2, <2>3, <2>4
<1>5. /\ \A i \in DOMAIN q : conns[q[i]].srv = s
      /\ \A i, j \in DOMAIN q : q[i] = q[j] => i = j
  BY <1>3 DEF HeldBy
<1>6. srv'[s].queue = Tail(q) /\ srv'[s].conn = Head(q)
  BY <1>1
<1> HIDE DEF q
<1>7. \A i \in DOMAIN Tail(q) : conns[Tail(q)[i]].srv = s /\ Tail(q)[i] # Head(q)
  BY <1>4, <1>5
<1>8. ASSUME NEW i \in DOMAIN Tail(q), NEW j \in DOMAIN Tail(q), Tail(q)[i] = Tail(q)[j]
      PROVE  i = j
  <2>1. q[i + 1] = q[j + 1] /\ i + 1 \in DOMAIN q /\ j + 1 \in DOMAIN q /\ i \in Nat /\ j \in Nat
    BY <1>4, <1>8
  <2>2. i + 1 = j + 1
    BY <1>5, <2>1
  <2> QED BY <2>1, <2>2
<1>9. conns[Head(q)].srv = s
  BY <1>4, <1>5
<1>10. HeldBy(s)'
  <2>1. \A i \in DOMAIN srv'[s].queue : conns'[srv'[s].queue[i]].srv = s /\ srv'[s].queue[i] # srv'[s].conn
    BY <1>2, <1>6, <1>7
  <2>2. \A i, j \in DOMAIN srv'[s].queue : srv'[s].queue[i] = srv'[s].queue[j] => i = j
    BY <1>6, <1>8
  <2>3. conns'[srv'[s].conn].srv = s
    BY <1>2, <1>6, <1>9
  <2> QED BY <2>1, <2>2, <2>3 DEF HeldBy
<1> QED BY <1>1, <1>2, <1>10, HeldFrom

LEMMA HeldKill ==
  ASSUME TypeOK, Held, NEW s \in Servers, Close(s) \/ Kill(s)
  PROVE  Held'
<1>1. /\ Stay(s) /\ srv'[s].at \in {"down", "unlink"} /\ srv'[s].queue = <<>>
      /\ HangsUp({c \in Conns : conns[c].srv = s})
  BY KillSets
<1>2. \A c \in Conns : conns'[c].srv = conns[c].srv \/ conns[c].srv \in {Null, s}
  BY <1>1, HungUpEnd
<1>3. DOMAIN srv'[s].queue = {}
  BY <1>1
<1>4. HeldBy(s)'
  BY <1>1, <1>3 DEF HeldBy, Busy
<1> QED BY <1>1, <1>2, <1>4, HeldFrom

LEMMA HeldConnect ==
  ASSUME TypeOK, Held, NEW a \in Apps, Connect(a)
  PROVE  Held'
<1>1. PICK c \in Conns :
           /\ conns[c] = Free /\ path \in Servers /\ Serves(path)
           /\ \A d \in Conns : ~(conns[d].app = a /\ conns[d].open)
           /\ TypedServers /\ Stay(path) /\ srv'[path].at = srv[path].at
           /\ srv'[path].conn = srv[path].conn /\ srv'[path].type = srv[path].type
           /\ srv'[path].tell = srv[path].tell
           /\ srv'[path].queue = Append(srv[path].queue, c)
           /\ TypedConns /\ Keep(c) /\ conns'[c].app = a /\ conns'[c].srv = path
           /\ conns'[c].open /\ conns'[c].up /\ ~conns'[c].waits
           /\ conns'[c].wire = <<>> /\ conns'[c].reply = <<>>
  BY Connects
<1> DEFINE s == path
           q == srv[s].queue
<1>2. conns[c].srv = Null /\ s # Null /\ s \in Servers
  BY <1>1, FreeType, ServerAssumption
<1>3. HeldBy(s) /\ q \in Seq(Conns) /\ \A i \in DOMAIN q : q[i] \in Conns
  BY <1>2, QueueIn DEF Held
<1>4. /\ \A i \in DOMAIN q : conns[q[i]].srv = s /\ q[i] # c
      /\ \A i, j \in DOMAIN q : q[i] = q[j] => i = j
      /\ Busy(s) => srv[s].conn # c /\ conns[srv[s].conn].srv = s /\ srv[s].conn \in Conns
      /\ Busy(s) => \A i \in DOMAIN q : q[i] # srv[s].conn
  BY <1>2, <1>3 DEF HeldBy, Busy, TypeOK
<1>5. \A d \in Conns : d # c => conns'[d] = conns[d]
  BY <1>1 DEF Keep
<1>6. /\ DOMAIN q = 1..Len(q) /\ Len(q) \in Nat /\ DOMAIN Append(q, c) = 1..(Len(q) + 1)
      /\ \A i \in DOMAIN q : Append(q, c)[i] = q[i]
      /\ Append(q, c)[Len(q) + 1] = c
  BY <1>3
<1>7. srv'[s].queue = Append(q, c) /\ srv'[s].conn = srv[s].conn /\ srv'[s].at = srv[s].at /\ conns'[c].srv = s
  BY <1>1
<1> HIDE DEF q
<1>8. \A i \in DOMAIN Append(q, c) : i \in DOMAIN q \/ i = Len(q) + 1
  BY <1>6
<1>9. \A i \in DOMAIN Append(q, c) : conns'[Append(q, c)[i]].srv = s
  BY <1>3, <1>4, <1>5, <1>6, <1>7, <1>8
<1>10. \A i, j \in DOMAIN Append(q, c) : Append(q, c)[i] = Append(q, c)[j] => i = j
  BY <1>4, <1>6, <1>8
<1>11. Busy(s) => \A i \in DOMAIN Append(q, c) : Append(q, c)[i] # srv[s].conn
  BY <1>4, <1>6, <1>8
<1>12. Busy(s) => conns'[srv[s].conn].srv = s
  BY <1>4, <1>5
<1>13. path' = path
  BY DEF Connect
<1> HIDE DEF s
<1>14. HeldBy(s)'
  <2>1. s' = s
    BY <1>13 DEF s
  <2>2. /\ srv'[s].queue = Append(q, c) /\ srv'[s].conn = srv[s].conn
        /\ (srv'[s].at \in {"read", "build", "send"} <=> Busy(s))
    BY <1>7 DEF Busy
  <2> QED BY <2>1, <2>2, <1>9, <1>10, <1>11, <1>12 DEF HeldBy, Busy
<1>15. Stay(s) /\ \A d \in Conns : conns'[d].srv = conns[d].srv \/ conns[d].srv \in {Null, s}
  BY <1>1, <1>2, <1>5 DEF s
<1> QED BY <1>2, <1>13, <1>14, <1>15, HeldFrom DEF s

LEMMA HeldStep == TypeOK /\ Ends /\ Held /\ [Next]_vars => Held'
<1> SUFFICES ASSUME TypeOK, Ends, Held, [Next]_vars PROVE Held'
  OBVIOUS
<1>1. ASSUME NEW s \in Servers, NEW at \in {"down", "clean", "bind", "close", "accept"}, GoTo(s, at), UNCHANGED conns
      PROVE  Held'
  <2>1. Stay(s) /\ srv'[s].at = at /\ srv'[s].queue = srv[s].queue
    BY <1>1, Goes DEF Serving
  <2> QED BY <1>1, <2>1, HeldOn DEF Busy
<1>2. ASSUME NEW s \in Servers, Start(s) \/ Clean(s) \/ Bind(s) \/ Unlink(s) PROVE Held'
  <2>1. UNCHANGED conns /\ \E at \in {"down", "clean", "bind", "close", "accept"} : GoTo(s, at)
    BY <1>2 DEF Start, Clean, Bind, Unlink
  <2> QED BY <2>1, <1>1
<1>3. ASSUME NEW s \in Servers, NoFrame(s) PROVE Held'
  BY <1>3, HeldDrop DEF NoFrame, Busy, At
<1>4. ASSUME NEW s \in Servers, Work(s) PROVE Held'
  <2>1. /\ Stay(s) /\ srv'[s].queue = srv[s].queue /\ srv'[s].conn = srv[s].conn
        /\ Keep(srv[s].conn) /\ conns'[srv[s].conn].srv = Conn(s).srv
    BY <1>4, WorkSets
  <2>2. Busy(s) /\ \A c \in Conns : conns'[c].srv = conns[c].srv
    BY <1>4, <2>1 DEF Work, At, Busy, Keep, Conn
  <2> QED BY <2>1, <2>2, HeldOn
<1>5. ASSUME NEW s \in Servers, Build(s) PROVE Held'
  <2>1. Stay(s) /\ srv'[s].queue = srv[s].queue /\ srv'[s].conn = srv[s].conn /\ UNCHANGED conns
    BY <1>5, Builds
  <2> QED BY <1>5, <2>1, HeldOn DEF Build, At, Busy
<1>6. ASSUME NEW s \in Servers, Send(s) PROVE Held'
  <2>1. Busy(s)
    BY <1>6 DEF Send, At, Busy
  <2>2. CASE Replies(s)
    <3>1. /\ Stay(s) /\ srv'[s].queue = srv[s].queue /\ srv'[s].conn = srv[s].conn
          /\ Keep(srv[s].conn) /\ conns'[srv[s].conn].srv = Conn(s).srv
      BY <2>2 DEF Replies
    <3>2. \A c \in Conns : conns'[c].srv = conns[c].srv
      BY <3>1 DEF Keep, Conn
    <3> QED BY <2>1, <3>1, <3>2, HeldOn
  <2> QED BY <1>6, <2>1, <2>2, SendSets, HeldDrop
<1>7. ASSUME NEW c \in Conns, Request(c) \/ Leave(c) PROVE Held'
  <2>1. UNCHANGED srv /\ Keep(c) /\ conns'[c].srv = conns[c].srv
    BY <1>7, Asks, Leaves DEF Request, Leave
  <2> QED BY <2>1, HeldStill DEF Keep
<1>8. ASSUME NEW c \in Conns, Receive(c) PROVE Held'
  <2>1. UNCHANGED srv /\ Keep(c) /\ (conns'[c].srv = conns[c].srv \/ ~conns[c].up)
    BY <1>8, Receives DEF Receive
  <2>2. ~conns[c].up => conns[c].srv = Null
    BY DEF Ends
  <2> QED BY <2>1, <2>2, HeldStill DEF Keep
<1>9. CASE OtherSaves \/ UNCHANGED vars
  <2>1. UNCHANGED <<srv, conns>>
    BY <1>9 DEF OtherSaves, vars
  <2> QED BY <2>1, HeldStill
<1> QED BY <1>2, HeldAccept, <1>3, <1>4, <1>5, <1>6, HeldKill, HeldConnect, <1>7, <1>8, <1>9 DEF Next, ServerStep

LEMMA FreeCarries == Carries(Free)
BY FreeType DEF Carries

LEMMA CarriedHungUp ==
  ASSUME TypeOK, Carried, NEW cs, HangsUp(cs)
  PROVE  Carried'
<1> SUFFICES ASSUME NEW c \in Conns PROVE Carries(conns'[c])
  BY DEF Carried
<1>1. Carries(conns[c])
  BY DEF Carried
<1> QED BY <1>1, HungUpEnd, FreeCarries DEF Carries

LEMMA CarriedFrom ==
  ASSUME Carried, NEW c \in Conns, Keep(c), Carries(conns'[c])
  PROVE  Carried'
BY DEF Carried, Keep

LEMMA CarriedStep == TypeOK /\ Ends /\ Linked /\ [Next]_vars => Carried'
<1> SUFFICES ASSUME TypeOK, Ends, Held, Carried, InHand, [Next]_vars PROVE Carried'
  BY DEF Linked
<1>1. ASSUME UNCHANGED conns PROVE Carried'
  BY <1>1 DEF Carried
<1>2. ASSUME NEW s \in Servers, Start(s) \/ Clean(s) \/ Bind(s) \/ Accept(s) \/ Build(s) \/ Unlink(s)
      PROVE  Carried'
  <2>1. UNCHANGED conns
    BY <1>2 DEF Start, Clean, Bind, Accept, Build, Unlink
  <2> QED BY <2>1, <1>1
<1>3. ASSUME NEW s \in Servers, NoFrame(s) PROVE Carried'
  <2>1. Busy(s) /\ Drop(s)
    BY <1>3 DEF NoFrame, Busy, At
  <2> QED BY <2>1, Drops, CarriedHungUp
<1>4. ASSUME NEW s \in Servers, Work(s) PROVE Carried'
  <2> DEFINE c == srv[s].conn
  <2>1. /\ c \in Conns /\ Keep(c) /\ conns'[c].wire = <<>>
        /\ (conns'[c].open <=> conns[c].open)
        /\ (conns'[c].waits <=> conns[c].waits) /\ conns'[c].reply = conns[c].reply
    BY <1>4, WorkSets DEF Conn
  <2>2. Carries(conns[c])
    BY <2>1 DEF Carried
  <2>3. Carries(conns'[c])
    BY <2>1, <2>2 DEF Carries
  <2> QED BY <2>1, <2>3, CarriedFrom
<1>5. ASSUME NEW s \in Servers, Send(s) PROVE Carried'
  <2>1. Busy(s) /\ Answers(s)
    BY <1>5 DEF Send, At, Busy, Answers
  <2>2. CASE Replies(s)
    <3> DEFINE c == srv[s].conn
    <3>1. /\ c \in Conns /\ Keep(c) /\ conns[c].open
          /\ (conns'[c].open <=> conns[c].open)
          /\ (conns'[c].waits <=> conns[c].waits) /\ conns'[c].wire = conns[c].wire
      BY <2>2 DEF Replies, Conn
    <3>2. conns[c].wire = <<>> /\ conns[c].waits
      BY <2>1, <3>1 DEF InHand, Due
    <3>3. Carries(conns'[c])
      BY <3>1, <3>2 DEF Carries
    <3> QED BY <3>1, <3>3, CarriedFrom
  <2>3. CASE Drop(s)
    BY <2>1, <2>3, Drops, CarriedHungUp
  <2> QED BY <1>5, <2>2, <2>3, SendSets
<1>6. ASSUME NEW s \in Servers, Close(s) \/ Kill(s) PROVE Carried'
  BY <1>6, KillSets, CarriedHungUp
<1>7. ASSUME NEW a \in Apps, Connect(a) PROVE Carried'
  <2>1. PICK c \in Conns : /\ Keep(c) /\ conns'[c].open /\ ~conns'[c].waits
                           /\ conns'[c].wire = <<>> /\ conns'[c].reply = <<>>
    BY <1>7, Connects
  <2> QED BY <2>1, CarriedFrom DEF Carries
<1>8. ASSUME NEW c \in Conns, Request(c) PROVE Carried'
  <2>1. conns[c].open /\ ~conns[c].waits /\ Carries(conns[c])
    BY <1>8 DEF Request, Carried
  <2>2. Keep(c) /\ conns'[c].waits /\ (conns'[c].open <=> conns[c].open) /\ conns'[c].reply = conns[c].reply
    BY <1>8, Asks
  <2> QED BY <2>1, <2>2, CarriedFrom DEF Carries
<1>9. ASSUME NEW c \in Conns, Receive(c) PROVE Carried'
  <2>1. conns[c].wire = <<>>
    BY <1>9 DEF Receive, Carried, Carries
  <2>2. Carries(conns'[c])
    BY <1>9, <2>1, Receives, FreeCarries DEF Carries
  <2> QED BY <1>9, <2>2, Receives, CarriedFrom
<1>10. ASSUME NEW c \in Conns, Leave(c) PROVE Carried'
  <2>1. Carries(conns'[c])
    BY <1>10, Leaves DEF Carries
  <2> QED BY <1>10, <2>1, Leaves, CarriedFrom
<1>11. CASE OtherSaves \/ UNCHANGED vars
  <2>1. UNCHANGED conns
    BY <1>11 DEF OtherSaves, vars
  <2> QED BY <2>1, <1>1
<1> QED BY <1>2, <1>3, <1>4, <1>5, <1>6, <1>7, <1>8, <1>9, <1>10, <1>11 DEF Next, ServerStep

\* A step of a server leaves what the others have in hand alone.
LEMMA InHandFrom ==
  ASSUME TypeOK, Held, InHand, NEW s \in Servers, Stay(s),
         \A c \in Conns : conns[c].srv \notin {Null, s} => conns'[c] = conns[c],
         srv'[s].at \in {"build", "send"} => Due(conns'[srv'[s].conn])
  PROVE  InHand'
<1> SUFFICES ASSUME NEW t \in Servers, srv'[t].at \in {"build", "send"} PROVE Due(conns'[srv'[t].conn])
  BY DEF InHand, Answers
<1>1. CASE t = s
  BY <1>1
<1>2. CASE t # s
  <2>1. srv'[t] = srv[t] /\ t # Null
    BY <1>2, ServerAssumption DEF Stay
  <2>2. Answers(t) /\ Busy(t)
    BY <2>1 DEF Answers, Busy
  <2>3. srv[t].conn \in Conns /\ conns[srv[t].conn].srv = t /\ Due(conns[srv[t].conn])
    BY <2>2 DEF TypeOK, Busy, Held, HeldBy, InHand
  <2>4. conns'[srv[t].conn] = conns[srv[t].conn]
    BY <1>2, <2>1, <2>3
  <2> QED BY <2>1, <2>3, <2>4
<1> QED BY <1>1, <1>2

\* What a busy server works on, no other one has in hand or in its queue.
LEMMA OthersKept ==
  ASSUME TypeOK, Held, NEW s \in Servers,
         \/ Busy(s) /\ \A c \in Conns : c # srv[s].conn => conns'[c] = conns[c]
         \/ HangsUp({c \in Conns : conns[c].srv = s})
  PROVE  \A c \in Conns : conns[c].srv \notin {Null, s} => conns'[c] = conns[c]
<1>1. CASE Busy(s) /\ \A c \in Conns : c # srv[s].conn => conns'[c] = conns[c]
  BY <1>1 DEF Held, HeldBy
<1>2. CASE HangsUp({c \in Conns : conns[c].srv = s})
  BY <1>2, HungUpEnd
<1> QED BY <1>1, <1>2

LEMMA InHandStep == TypeOK /\ Ends /\ Linked /\ [Next]_vars => InHand'
<1> SUFFICES ASSUME TypeOK, Ends, Held, Carried, InHand, [Next]_vars PROVE InHand'
  BY DEF Linked
<1>1. ASSUME NEW s \in Servers, NEW at \in {"down", "clean", "bind", "close", "accept"}, GoTo(s, at), UNCHANGED conns
      PROVE  InHand'
  <2>1. Stay(s) /\ srv'[s].at = at
    BY <1>1, Goes DEF Serving
  <2> QED BY <1>1, <2>1, InHandFrom
<1>2. ASSUME NEW s \in Servers, Start(s) \/ Clean(s) \/ Bind(s) \/ Unlink(s) PROVE InHand'
  <2>1. UNCHANGED conns /\ \E at \in {"down", "clean", "bind", "close", "accept"} : GoTo(s, at)
    BY <1>2 DEF Start, Clean, Bind, Unlink
  <2> QED BY <2>1, <1>1
<1>3. ASSUME NEW s \in Servers, Accept(s) PROVE InHand'
  <2>1. Stay(s) /\ srv'[s].at = "read" /\ UNCHANGED conns
    BY <1>3, Accepts DEF Accept
  <2> QED BY <2>1, InHandFrom
<1>4. ASSUME NEW s \in Servers, Busy(s), Drop(s) PROVE InHand'
  <2>1. Stay(s) /\ srv'[s].at = "accept" /\ HangsUp({srv[s].conn})
    BY <1>4, Drops
  <2>2. \A c \in Conns : c # srv[s].conn => conns'[c] = conns[c]
    BY <2>1, HungUpEnd
  <2> QED BY <1>4, <2>1, <2>2, OthersKept, InHandFrom
<1>5. ASSUME NEW s \in Servers, Work(s) PROVE InHand'
  <2> DEFINE c == srv[s].conn
  <2>1. /\ Stay(s) /\ srv'[s].conn = c /\ c \in Conns /\ Keep(c) /\ conns'[c].wire = <<>>
        /\ (conns'[c].open <=> conns[c].open) /\ conns[c].wire # <<>>
        /\ (conns'[c].waits <=> conns[c].waits) /\ conns'[c].reply = conns[c].reply
    BY <1>5, WorkSets DEF Conn
  <2>2. Carries(conns[c]) /\ Busy(s)
    BY <1>5, <2>1 DEF Carried, Work, At, Busy
  <2>3. Due(conns'[c])
    BY <2>1, <2>2 DEF Carries, Due
  <2>4. \A d \in Conns : conns[d].srv \notin {Null, s} => conns'[d] = conns[d]
    BY <2>1, <2>2, OthersKept DEF Keep
  <2> QED BY <2>1, <2>3, <2>4, InHandFrom
<1>6. ASSUME NEW s \in Servers, Build(s) PROVE InHand'
  <2>1. Stay(s) /\ srv'[s].conn = srv[s].conn /\ UNCHANGED conns
    BY <1>6, Builds
  <2>2. Due(conns[srv[s].conn])
    BY <1>6 DEF Build, At, InHand, Answers
  <2> QED BY <2>1, <2>2, InHandFrom
<1>7. ASSUME NEW s \in Servers, Send(s) PROVE InHand'
  <2>1. Busy(s)
    BY <1>7 DEF Send, At, Busy
  <2>2. CASE Replies(s)
    <3>1. Stay(s) /\ srv'[s].at \in {"read", "close"} /\ Keep(srv[s].conn)
      BY <2>2 DEF Replies
    <3>2. \A d \in Conns : conns[d].srv \notin {Null, s} => conns'[d] = conns[d]
      BY <2>1, <3>1, OthersKept DEF Keep
    <3> QED BY <3>1, <3>2, InHandFrom
  <2> QED BY <1>7, <1>4, <2>1, <2>2, SendSets
<1>8. ASSUME NEW s \in Servers, Close(s) \/ Kill(s) PROVE InHand'
  <2>1. Stay(s) /\ srv'[s].at \in {"down", "unlink"} /\ HangsUp({c \in Conns : conns[c].srv = s})
    BY <1>8, KillSets
  <2>2. \A c \in Conns : conns[c].srv \notin {Null, s} => conns'[c] = conns[c]
    BY <2>1, OthersKept
  <2> QED BY <2>1, <2>2, InHandFrom
<1>9. ASSUME NEW a \in Apps, Connect(a) PROVE InHand'
  <2>1. PICK c \in Conns : /\ conns[c] = Free /\ path \in Servers /\ Stay(path) /\ Keep(c)
                           /\ srv'[path].at = srv[path].at /\ srv'[path].conn = srv[path].conn
    BY <1>9, Connects
  <2>2. ASSUME NEW t \in Servers, Answers(t)
        PROVE  conns'[srv[t].conn] = conns[srv[t].conn]
    <3>1. srv[t].conn \in Conns /\ conns[srv[t].conn].srv = t /\ t # Null
      BY <2>2, ServerAssumption DEF Answers, Busy, TypeOK, Held, HeldBy
    <3>2. srv[t].conn # c
      BY <2>1, <3>1, FreeType
    <3> QED BY <2>1, <3>1, <3>2 DEF Keep
  <2>3. \A t \in Servers : srv'[t].at = srv[t].at /\ srv'[t].conn = srv[t].conn
    BY <2>1 DEF Stay
  <2> QED BY <2>2, <2>3 DEF InHand, Answers
<1>10. ASSUME UNCHANGED srv, NEW c \in Conns, Keep(c), Due(conns[c]) => Due(conns'[c]) PROVE InHand'
  <2>1. \A t \in Servers : Answers(t) => srv[t].conn \in Conns
    BY DEF Answers, TypeOK
  <2> QED BY <1>10, <2>1 DEF InHand, Answers, Keep
<1>11. ASSUME NEW c \in Conns, Request(c) PROVE InHand'
  <2>1. UNCHANGED srv /\ Keep(c) /\ ~Due(conns[c])
    BY <1>11, Asks DEF Request, Due
  <2> QED BY <2>1, <1>10
<1>12. ASSUME NEW c \in Conns, Receive(c) PROVE InHand'
  <2>1. UNCHANGED srv /\ Keep(c) /\ ~Due(conns[c])
    BY <1>12, Receives DEF Receive, Due
  <2> QED BY <2>1, <1>10
<1>13. ASSUME NEW c \in Conns, Leave(c) PROVE InHand'
  <2>1. UNCHANGED srv
    BY <1>13 DEF Leave
  <2>2. Keep(c) /\ (Due(conns[c]) => Due(conns'[c]))
    BY <1>13, Leaves DEF Due
  <2> QED BY <2>1, <2>2, <1>10
<1>14. CASE OtherSaves \/ UNCHANGED vars
  <2>1. UNCHANGED <<srv, conns>>
    BY <1>14 DEF OtherSaves, vars
  <2> QED BY <2>1 DEF InHand, Answers
<1>15. ASSUME NEW s \in Servers, NoFrame(s) PROVE InHand'
  BY <1>15, <1>4 DEF NoFrame, Busy, At
<1> QED BY <1>2, <1>3, <1>5, <1>6, <1>7, <1>8, <1>9, <1>11, <1>12, <1>13, <1>14, <1>15 DEF Next, ServerStep

LEMMA LinkedStep == TypeOK /\ Ends /\ Linked /\ [Next]_vars => Linked'
<1>1. TypeOK /\ Ends /\ Linked /\ [Next]_vars => Held'
  BY HeldStep DEF Linked
<1> QED BY <1>1, CarriedStep, InHandStep DEF Linked

LEMMA LinkedInit == Init => Linked
<1> SUFFICES ASSUME Init PROVE Linked
  OBVIOUS
<1>1. \A s \in Servers : srv[s].at = "down" /\ srv[s].queue = <<>>
  BY DownType DEF Init
<1>2. ASSUME NEW s \in Servers PROVE DOMAIN srv[s].queue = {}
  <2>1. srv[s].queue = <<>>
    BY <1>1
  <2> QED BY <2>1
<1>3. Held /\ InHand
  BY <1>1, <1>2 DEF Held, HeldBy, Busy, InHand, Answers
<1>4. Carried
  BY FreeCarries DEF Init, Carried
<1> QED BY <1>3, <1>4 DEF Linked

-----------------------------------------------------------------------------
(* The versions *)

\* An app that nothing was told, and that does not wait, has nothing to know.
LEMMA Uninformed ==
  ASSUME TypeOK, Ends, Linked, NEW a \in Apps, a \notin Informed
  PROVE  /\ known[a] = 0
         /\ \A c \in Conns : conns[c].app = a => conns[c].wire = <<>> /\ conns[c].reply = <<>> /\ ~conns[c].waits
         /\ \A s \in Servers : Answers(s) => conns[srv[s].conn].app # a
<1>1. known[a] = 0 /\ \A c \in Conns : conns[c].app = a => ~conns[c].waits
  BY DEF Informed
<1>2. \A c \in Conns : conns[c].app = a => conns[c].open
  BY ServerAssumption DEF Ends
<1>3. \A c \in Conns : conns[c].app = a => conns[c].wire = <<>> /\ conns[c].reply = <<>>
  BY <1>1, <1>2 DEF Linked, Carried, Carries
<1>4. ASSUME NEW s \in Servers, Answers(s), conns[srv[s].conn].app = a PROVE FALSE
  <2>1. srv[s].conn \in Conns /\ Due(conns[srv[s].conn])
    BY <1>4 DEF Answers, TypeOK, Linked, InHand
  <2> QED BY <1>1, <1>2, <1>4, <2>1 DEF Due
<1> QED BY <1>1, <1>3, <1>4

\* An app whose connection a server works on: it waits, with nothing on the wire.
LEMMA Working ==
  ASSUME TypeOK, Ends, Linked, NEW s \in Servers, Busy(s), NEW a \in Apps, conns[srv[s].conn].app = a
  PROVE  /\ \A c \in Conns : conns[c].app = a => c = srv[s].conn
         /\ \A t \in Servers \ {s} : Busy(t) => conns[srv[t].conn].app # a
         /\ conns[srv[s].conn].open /\ srv[s].conn \in Conns
<1>1. srv[s].conn \in Conns /\ a # Null
  BY ServerAssumption DEF TypeOK, Busy
<1>2. \A c \in Conns : conns[c].app = a => c = srv[s].conn
  BY <1>1 DEF Ends
<1>3. \A t \in Servers \ {s} : Busy(t) => conns[srv[t].conn].app # a
  <2> SUFFICES ASSUME NEW t \in Servers \ {s}, Busy(t), conns[srv[t].conn].app = a PROVE FALSE
    OBVIOUS
  <2>1. srv[t].conn \in Conns
    BY DEF TypeOK, Busy
  <2> QED BY <1>2, <2>1, Apart DEF Linked
<1> QED BY <1>1, <1>2, <1>3 DEF Ends

\* An app that learns nothing, and that is sent nothing new.
SameWires(a) ==
  \A c \in Conns : conns'[c].app = a =>
    /\ conns'[c].wire = <<>> \/ (conns[c].app = a /\ conns'[c].wire = conns[c].wire)
    /\ conns'[c].reply = <<>> \/ (conns[c].app = a /\ conns'[c].reply = conns[c].reply)
SameTold(a) ==
  \A s \in Servers : Answers(s)' /\ conns'[srv'[s].conn].app = a =>
    Answers(s) /\ conns[srv[s].conn].app = a /\ srv'[s].tell = srv[s].tell
Knows(a) == (\A c \in Conns : conns[c].app = a => ~conns[c].waits) => known[a] \in {0, version}
LEMMA CurrentKept ==
  ASSUME NEW a \in Apps, UpToDate(a), UNCHANGED version, known'[a] = known[a],
         SameWires(a), SameTold(a), Knows(a)'
  PROVE  UpToDate(a)'
<1>0. \A told : Fits(a, told) => Fits(a, told)'
  BY DEF Fits
<1>1. ASSUME NEW c \in Conns, conns'[c].app = a
      PROVE  /\ conns'[c].wire # <<>> => conns'[c].wire[1] \in {0, version'} /\ known'[a] \in {0, version'}
             /\ conns'[c].reply # <<>> => Fits(a, conns[c].reply[1])'
  <2>1. CASE conns[c].app = a
    <3>1. conns'[c].wire # <<>> => conns'[c].wire[1] \in {0, version'} /\ known'[a] \in {0, version'}
      BY <1>1, <2>1 DEF UpToDate, SameWires
    <3>2. conns'[c].reply # <<>> => conns'[c].reply = conns[c].reply /\ Fits(a, conns[c].reply[1])
      BY <1>1, <2>1 DEF UpToDate, SameWires
    <3> QED BY <1>0, <3>1, <3>2 DEF Fits
  <2>2. CASE conns[c].app # a
    BY <1>1, <2>2 DEF SameWires
  <2> QED BY <2>1, <2>2
<1>2. ASSUME NEW s \in Servers, Answers(s)', conns'[srv'[s].conn].app = a
      PROVE  Fits(a, srv[s].tell)'
  <2>1. Fits(a, srv[s].tell) /\ srv'[s].tell = srv[s].tell
    BY <1>2 DEF UpToDate, SameTold
  <2> QED BY <2>1 DEF Fits
<1> QED BY <1>1, <1>2 DEF UpToDate, Knows

\* It knows as much, if it goes on to wait wherever it waited.
LEMMA KnowsOn ==
  ASSUME NEW a \in Apps, UpToDate(a), UNCHANGED version, known'[a] = known[a],
         \A c \in Conns : conns[c].app = a /\ conns[c].waits =>
           known[a] = 0 \/ (conns'[c].app = a /\ conns'[c].waits)
  PROVE  Knows(a)'
BY DEF UpToDate, Knows

LEMMA CurrentSame ==
  ASSUME TypeOK, NEW a \in Apps, UpToDate(a), NEW s \in Servers, Stay(s),
         UNCHANGED <<version, conns, known>>,
         ~Answers(s)' \/ conns'[srv'[s].conn].app # a
  PROVE  UpToDate(a)'
<1>1. SameTold(a) /\ SameWires(a)
  BY DEF SameTold, SameWires, Stay, Answers
<1>2. Knows(a)'
  BY KnowsOn
<1> QED BY <1>1, <1>2, CurrentKept

LEMMA CurrentHungUp ==
  ASSUME TypeOK, Ends, Linked, NEW a \in Apps, UpToDate(a), NEW s \in Servers, Stay(s),
         UNCHANGED <<version, known>>, ~Answers(s)',
         NEW cs, HangsUp(cs), \A c \in cs : conns[c].srv = s,
         a \notin Unanswered({c \in Conns : c \in cs /\ conns[c].reply = <<>>})
  PROVE  UpToDate(a)'
<1>1. ASSUME NEW c \in Conns
      PROVE  /\ conns'[c].app = a => conns[c].app = a
             /\ conns'[c].wire = <<>> \/ conns'[c].wire = conns[c].wire
             /\ conns'[c].reply = <<>> \/ conns'[c].reply = conns[c].reply
             /\ conns[c].app = a /\ conns[c].waits =>
                  known[a] = 0 \/ (conns'[c].app = a /\ conns'[c].waits)
  <2>1. CASE c \notin cs
    BY <2>1, HungUpEnd
  <2>2. CASE c \in cs /\ conns[c].reply = <<>>
    <3>1. conns'[c] = Free
      BY <2>2, HungUpEnd
    <3>2. conns[c].app = a /\ conns[c].waits => known[a] = 0
      BY <2>2 DEF Unanswered
    <3>3. a # Null
      BY ServerAssumption
    <3>4. conns'[c].app # a /\ conns'[c].wire = <<>> /\ conns'[c].reply = <<>>
      BY <3>1, <3>3, FreeType
    <3> QED BY <3>2, <3>4
  <2>3. CASE c \in cs /\ conns[c].reply # <<>>
    BY <2>3, HungUpEnd
  <2> QED BY <2>1, <2>2, <2>3
<1>2. SameWires(a)
  <2> SUFFICES ASSUME NEW c \in Conns, conns'[c].app = a
               PROVE  /\ conns'[c].wire = <<>> \/ (conns[c].app = a /\ conns'[c].wire = conns[c].wire)
                      /\ conns'[c].reply = <<>> \/ (conns[c].app = a /\ conns'[c].reply = conns[c].reply)
    BY DEF SameWires
  <2>1. conns[c].app = a
    BY <1>1
  <2>2. /\ conns'[c].wire = <<>> \/ conns'[c].wire = conns[c].wire
        /\ conns'[c].reply = <<>> \/ conns'[c].reply = conns[c].reply
    BY <1>1
  <2> QED BY <2>1, <2>2
<1>3. SameTold(a)
  <2> SUFFICES ASSUME NEW t \in Servers, Answers(t)', conns'[srv'[t].conn].app = a
               PROVE  Answers(t) /\ conns[srv[t].conn].app = a /\ srv'[t].tell = srv[t].tell
    BY DEF SameTold
  <2>1. t # s /\ srv'[t] = srv[t] /\ Answers(t)
    BY DEF Stay, Answers
  <2>2. srv[t].conn \in Conns
    BY <2>1 DEF TypeOK, Answers
  <2> QED BY <1>1, <2>1, <2>2
<1>4. Knows(a)'
  BY <1>1, KnowsOn
<1> QED BY <1>2, <1>3, <1>4, CurrentKept

\* An app that waits, with nothing on its one connection.
LEMMA CurrentWaits ==
  ASSUME NEW a \in Apps, NEW c \in Conns, conns'[c].app = a, conns'[c].waits,
         conns'[c].wire = <<>>, conns'[c].reply = <<>>,
         \A d \in Conns : conns'[d].app = a => d = c,
         \A s \in Servers : Answers(s)' /\ conns'[srv'[s].conn].app = a => Fits(a, srv[s].tell)'
  PROVE  UpToDate(a)'
BY DEF UpToDate

LEMMA CurrentWork ==
  ASSUME TypeOK, Ends, Linked, Current, NEW s \in Servers, Work(s), NEW a \in Apps, a \notin behind'
  PROVE  UpToDate(a)'
<1> DEFINE c == srv[s].conn
           w == Conn(s).wire[1]
<1>1. /\ Stay(s) /\ srv'[s].conn = c /\ Keep(c) /\ conns'[c].wire = <<>>
      /\ conns'[c].app = conns[c].app /\ (conns'[c].waits <=> conns[c].waits)
      /\ conns'[c].reply = conns[c].reply /\ conns[c].wire # <<>> /\ c \in Conns
  BY WorkSets DEF Conn
<1>2. Reckons(s, srv'[s].at, srv'[s].tell) /\ srv'[s].at \in {"build", "send"}
  BY WorkSets
<1>3. Busy(s) /\ UNCHANGED known
  BY DEF Work, At, Busy
<1>4. CASE conns[c].app = a
  <2>1. /\ \A d \in Conns : conns[d].app = a => d = c
        /\ \A t \in Servers \ {s} : Busy(t) => conns[srv[t].conn].app # a
        /\ conns[c].open
    BY <1>3, <1>4, Working
  <2>2. conns[c].waits /\ conns[c].reply = <<>>
    BY <1>1, <2>1 DEF Linked, Carried, Carries
  <2>3. a \in Told(s)
    BY <1>4, <2>1 DEF Told, Conn
  <2>4. a \notin behind => w \in {0, version} /\ known[a] \in {0, version}
    BY <1>1, <1>4 DEF Current, UpToDate, Conn
  <2>5. Fits(a, srv[s].tell)'
    <3>1. CASE srv'[s].tell \in {Null, w} /\ UNCHANGED <<version, clock, behind>>
      BY <2>4, <3>1, <1>3 DEF Fits
    <3>2. ASSUME NEW v \in Nat, version' = v, srv'[s].tell = Null,
                 behind' = IF v # version THEN Informed ELSE behind
          PROVE  Fits(a, srv[s].tell)'
      <4>1. a \in Informed
        BY <1>4, <2>2, <1>1 DEF Informed
      <4>2. v = version /\ a \notin behind
        BY <3>2, <4>1
      <4> QED BY <2>4, <3>2, <4>2, <1>3 DEF Fits
    <3>3. ASSUME NEW v \in Nat, version' = v, srv'[s].tell = v
          PROVE  Fits(a, srv[s].tell)'
      BY <3>3, ServerAssumption DEF Fits
    <3> QED BY <1>2, <3>1, <3>2, <3>3 DEF Reckons
  <2>6. \A d \in Conns : conns'[d].app = a => d = c
    BY <1>1, <2>1 DEF Keep
  <2>7. ASSUME NEW t \in Servers, Answers(t)', conns'[srv'[t].conn].app = a
        PROVE  Fits(a, srv[t].tell)'
    <3>1. CASE t = s
      BY <2>5, <2>7, <3>1
    <3>2. CASE t # s
      <4>1. srv'[t] = srv[t] /\ Busy(t)
        BY <1>1, <2>7, <3>2 DEF Stay, Busy, Answers
      <4>2. srv[t].conn \in Conns /\ srv[t].conn # c
        BY <1>3, <3>2, <4>1, Apart DEF TypeOK, Busy, Linked
      <4>3. conns'[srv[t].conn] = conns[srv[t].conn]
        BY <1>1, <4>2 DEF Keep
      <4> QED BY <2>1, <2>7, <3>2, <4>1, <4>3
    <3> QED BY <3>1, <3>2
  <2>8. conns'[c].app = a /\ conns'[c].waits /\ conns'[c].wire = <<>> /\ conns'[c].reply = <<>>
    BY <1>1, <1>4, <2>2
  <2> HIDE DEF c
  <2> QED BY <1>1, <2>6, <2>7, <2>8, CurrentWaits
<1>5. CASE conns[c].app # a
  <2>1. \A d \in Conns : conns'[d].app = a => conns'[d] = conns[d]
    BY <1>1, <1>5 DEF Keep
  <2>2. ASSUME NEW t \in Servers, Answers(t)', conns'[srv'[t].conn].app = a
        PROVE  srv'[t] = srv[t] /\ Answers(t) /\ conns[srv[t].conn].app = a
    <3>1. t # s
      BY <1>1, <1>5, <2>2
    <3>2. srv'[t] = srv[t] /\ Answers(t) /\ srv[t].conn \in Conns
      BY <1>1, <2>2, <3>1 DEF Stay, TypeOK, Answers
    <3> QED BY <2>1, <2>2, <3>2
  <2>3. a \notin Told(s)
    BY <1>5 DEF Told, Conn
  <2>4. CASE version' = version
    <3>1. a \notin behind
      BY <1>2, <2>3, <2>4 DEF Reckons
    <3>2. UpToDate(a) /\ SameWires(a) /\ SameTold(a)
      BY <2>1, <2>2, <3>1 DEF Current, SameWires, SameTold
    <3>3. \A d \in Conns : conns[d].app = a => conns'[d] = conns[d]
      BY <1>1, <1>5 DEF Keep
    <3>4. Knows(a)'
      BY <1>3, <2>4, <3>2, <3>3, KnowsOn
    <3> QED BY <1>3, <2>4, <3>2, <3>4, CurrentKept
  <2>5. CASE version' # version
    <3>1. a \notin Informed
      BY <1>2, <2>3, <2>5 DEF Reckons
    <3>2. /\ known[a] = 0
          /\ \A d \in Conns : conns[d].app = a => conns[d].wire = <<>> /\ conns[d].reply = <<>>
          /\ \A t \in Servers : Answers(t) => conns[srv[t].conn].app # a
      BY <3>1, Uninformed
    <3>3. \A t \in Servers : ~(Answers(t)' /\ conns'[srv'[t].conn].app = a)
      BY <2>2, <3>2
    <3>4. \A d \in Conns : conns'[d].app = a => conns'[d].wire = <<>> /\ conns'[d].reply = <<>>
      BY <2>1, <3>2
    <3> QED BY <1>3, <3>2, <3>3, <3>4 DEF UpToDate
  <2> QED BY <2>4, <2>5
<1> QED BY <1>4, <1>5

LEMMA CurrentBuild ==
  ASSUME TypeOK, Ends, Linked, Current, NEW s \in Servers, Build(s), NEW a \in Apps, a \notin behind'
  PROVE  UpToDate(a)'
<1> DEFINE c == srv[s].conn
<1>1. Stay(s) /\ srv'[s].conn = c /\ UNCHANGED <<conns, version>>
  BY Builds
<1>2. \/ srv'[s].at \in {"close", "send"} /\ srv'[s].tell = srv[s].tell /\ UNCHANGED behind
      \/ srv'[s].at = "send" /\ srv'[s].tell = version /\ behind' = behind \ Told(s)
  BY Builds
<1>3. Busy(s) /\ Answers(s) /\ UNCHANGED known /\ c \in Conns
  BY DEF Build, At, Busy, Answers, TypeOK
<1>4. CASE conns[c].app = a
  <2>1. /\ \A d \in Conns : conns[d].app = a => d = c
        /\ \A t \in Servers \ {s} : Busy(t) => conns[srv[t].conn].app # a
        /\ conns[c].open
    BY <1>3, <1>4, Working
  <2>2. conns[c].waits /\ conns[c].reply = <<>> /\ conns[c].wire = <<>>
    BY <1>3, <2>1 DEF Linked, InHand, Due
  <2>3. a \in Told(s)
    BY <1>4, <2>1 DEF Told, Conn
  <2>5. Fits(a, srv[s].tell)'
    <3>1. CASE srv'[s].tell = srv[s].tell /\ UNCHANGED behind
      <4>1. Fits(a, srv[s].tell)
        BY <1>3, <1>4, <3>1 DEF Current, UpToDate
      <4> QED BY <1>1, <1>3, <3>1, <4>1 DEF Fits
    <3>2. CASE srv'[s].tell = version
      <4>1. version # Null
        BY ServerAssumption DEF TypeOK
      <4> QED BY <1>1, <3>2, <4>1 DEF Fits
    <3> QED BY <1>2, <3>1, <3>2
  <2>6. ASSUME NEW t \in Servers, Answers(t)', conns'[srv'[t].conn].app = a
        PROVE  Fits(a, srv[t].tell)'
    <3>1. CASE t = s
      BY <1>1, <2>5, <2>6, <3>1
    <3>2. CASE t # s
      <4>1. srv'[t] = srv[t] /\ Busy(t)
        BY <1>1, <2>6, <3>2 DEF Stay, Busy, Answers
      <4> QED BY <1>1, <2>1, <2>6, <3>2, <4>1
    <3> QED BY <3>1, <3>2
  <2> HIDE DEF c
  <2> QED BY <1>1, <1>3, <1>4, <2>1, <2>2, <2>6, CurrentWaits
<1>5. CASE conns[c].app # a
  <2>1. a \notin Told(s)
    BY <1>5 DEF Told, Conn
  <2>2. a \notin behind
    BY <1>2, <2>1
  <2> QED BY <1>1, <1>3, <1>5, <2>2, CurrentSame DEF Current
<1> QED BY <1>4, <1>5

LEMMA CurrentAnswered ==
  ASSUME TypeOK, Ends, Linked, Current, NEW s \in Servers, At(s, "send"), Replies(s),
         UNCHANGED <<version, known>>, NEW a \in Apps, a \notin behind'
  PROVE  UpToDate(a)'
<1> DEFINE c == srv[s].conn
<1>1. /\ Stay(s) /\ srv'[s].conn = c /\ Keep(c) /\ ~Answers(s)' /\ UNCHANGED behind
      /\ conns'[c].app = conns[c].app /\ (conns'[c].waits <=> conns[c].waits) /\ conns[c].open
      /\ conns'[c].reply = <<srv[s].tell>> /\ conns'[c].wire = conns[c].wire /\ c \in Conns
  BY DEF Replies, Conn, Answers
<1>2. UpToDate(a) /\ Busy(s) /\ Answers(s)
  BY <1>1 DEF Current, At, Busy, Answers
<1>3. CASE conns[c].app = a
  <2>1. /\ \A d \in Conns : conns[d].app = a => d = c
        /\ \A t \in Servers \ {s} : Busy(t) => conns[srv[t].conn].app # a
    BY <1>2, <1>3, Working
  <2>2. conns[c].waits /\ conns[c].wire = <<>>
    BY <1>1, <1>2 DEF Linked, InHand, Due
  <2>3. Fits(a, srv[s].tell)
    BY <1>2, <1>3 DEF UpToDate
  <2>4. \A d \in Conns : conns'[d].app = a => d = c
    BY <1>1, <2>1 DEF Keep
  <2>5. conns'[c].reply[1] = srv[s].tell /\ conns'[c].wire = <<>> /\ conns'[c].waits /\ conns'[c].app = a
    BY <1>1, <1>3, <2>2
  <2>7. ASSUME NEW d \in Conns, conns'[d].app = a
        PROVE  Fits(a, conns[d].reply[1])' /\ conns'[d].wire = <<>>
    BY <2>3, <2>4, <2>5, <2>7 DEF Fits
  <2>6. ASSUME NEW t \in Servers, Answers(t)', conns'[srv'[t].conn].app = a
        PROVE  FALSE
    <3>1. t # s
      BY <1>1, <2>6
    <3>2. srv'[t] = srv[t] /\ Busy(t)
      BY <1>1, <2>6, <3>1 DEF Stay, Busy, Answers
    <3>3. srv[t].conn \in Conns /\ srv[t].conn # c
      BY <1>2, <3>1, <3>2, Apart DEF TypeOK, Busy, Linked
    <3> QED BY <1>1, <2>1, <2>6, <3>1, <3>2, <3>3 DEF Keep
  <2> HIDE DEF c
  <2> QED BY <1>1, <2>5, <2>6, <2>7 DEF UpToDate
<1>4. CASE conns[c].app # a
  <2>1. \A d \in Conns : conns'[d].app = a => conns'[d] = conns[d]
    BY <1>1, <1>4 DEF Keep
  <2>2. \A d \in Conns : conns[d].app = a => conns'[d] = conns[d]
    BY <1>1, <1>4 DEF Keep
  <2>3. SameWires(a)
    BY <2>1 DEF SameWires
  <2>4. SameTold(a)
    <3> SUFFICES ASSUME NEW t \in Servers, Answers(t)', conns'[srv'[t].conn].app = a
                 PROVE  Answers(t) /\ conns[srv[t].conn].app = a /\ srv'[t].tell = srv[t].tell
      BY DEF SameTold
    <3>1. t # s
      BY <1>1
    <3>2. srv'[t] = srv[t] /\ Answers(t) /\ srv[t].conn \in Conns
      BY <1>1, <3>1 DEF Stay, TypeOK, Answers
    <3> QED BY <2>1, <3>2
  <2>5. Knows(a)'
    BY <1>2, <2>2, KnowsOn
  <2> QED BY <1>2, <2>3, <2>4, <2>5, CurrentKept
<1> QED BY <1>3, <1>4

LEMMA CurrentConnect ==
  ASSUME TypeOK, Ends, Linked, NEW b \in Apps, Connect(b), NEW a \in Apps, UpToDate(a)
  PROVE  UpToDate(a)'
<1>1. PICK c \in Conns :
           /\ conns[c] = Free /\ path \in Servers /\ Serves(path)
           /\ \A d \in Conns : ~(conns[d].app = b /\ conns[d].open)
           /\ TypedServers /\ Stay(path) /\ srv'[path].at = srv[path].at
           /\ srv'[path].conn = srv[path].conn /\ srv'[path].type = srv[path].type
           /\ srv'[path].tell = srv[path].tell
           /\ srv'[path].queue = Append(srv[path].queue, c)
           /\ TypedConns /\ Keep(c) /\ conns'[c].app = b /\ conns'[c].srv = path
           /\ conns'[c].open /\ conns'[c].up /\ ~conns'[c].waits
           /\ conns'[c].wire = <<>> /\ conns'[c].reply = <<>>
  BY Connects
<1>2. UNCHANGED <<version, known>>
  BY DEF Connect, vault
<1>3. SameWires(a)
  BY <1>1 DEF SameWires, Keep
<1>4. SameTold(a)
  <2> SUFFICES ASSUME NEW t \in Servers, Answers(t)', conns'[srv'[t].conn].app = a
               PROVE  Answers(t) /\ conns[srv[t].conn].app = a /\ srv'[t].tell = srv[t].tell
    BY DEF SameTold
  <2>1. Answers(t) /\ srv'[t].conn = srv[t].conn /\ srv'[t].tell = srv[t].tell
    BY <1>1 DEF Stay, Answers
  <2>2. srv[t].conn \in Conns /\ conns[srv[t].conn].srv = t /\ t # Null
    BY <2>1, ServerAssumption DEF TypeOK, Busy, Answers, Linked, Held, HeldBy
  <2>3. srv[t].conn # c
    BY <1>1, <2>2, FreeType
  <2> QED BY <1>1, <2>1, <2>2, <2>3 DEF Keep
<1>5. \A d \in Conns : conns[d].app = a => conns'[d] = conns[d]
  <2>1. a # Null
    BY ServerAssumption
  <2> QED BY <1>1, <2>1, FreeType DEF Keep
<1>6. Knows(a)'
  BY <1>2, <1>5, KnowsOn
<1> QED BY <1>2, <1>3, <1>4, <1>6, CurrentKept

\* A connection that its app changes: what servers are about to tell stays.
LEMMA ToldStays ==
  ASSUME TypeOK, UNCHANGED srv, NEW a \in Apps, NEW c \in Conns, Keep(c),
         conns'[c].app = a => conns[c].app = a
  PROVE  SameTold(a)
<1> SUFFICES ASSUME NEW t \in Servers, Answers(t), conns'[srv[t].conn].app = a
             PROVE  conns[srv[t].conn].app = a
  BY DEF SameTold, Answers
<1>1. srv[t].conn \in Conns
  BY DEF TypeOK, Answers
<1> QED BY <1>1 DEF Keep

LEMMA CurrentRequest ==
  ASSUME TypeOK, Ends, Linked, NEW c \in Conns, Request(c), NEW a \in Apps, UpToDate(a)
  PROVE  UpToDate(a)'
<1>1. /\ Keep(c) /\ conns[c].app \in Apps /\ conns'[c].wire = <<known[conns[c].app]>>
      /\ conns'[c].waits /\ conns'[c].app = conns[c].app /\ conns'[c].reply = conns[c].reply
  BY Asks
<1>2. UNCHANGED <<srv, version, known>> /\ ~conns[c].waits
  BY DEF Request, vault
<1>3. SameTold(a)
  BY <1>1, <1>2, ToldStays
<1>4. CASE conns[c].app = a
  <2>1. \A d \in Conns : conns[d].app = a => d = c
    BY <1>1, <1>4, ServerAssumption DEF Ends
  <2>2. known[a] \in {0, version}
    BY <1>2, <2>1 DEF UpToDate
  <2>3. \A d \in Conns : conns'[d].app = a => d = c
    BY <1>1, <2>1 DEF Keep
  <2>4. conns'[c].wire[1] \in {0, version'} /\ conns'[c].app = a /\ conns'[c].waits
    BY <1>1, <1>2, <1>4, <2>2
  <2>5. conns'[c].reply # <<>> => Fits(a, conns[c].reply[1])'
    BY <1>1, <1>2, <1>4 DEF UpToDate, Fits
  <2>6. \A t \in Servers : Answers(t)' /\ conns'[srv'[t].conn].app = a => Fits(a, srv[t].tell)'
    BY <1>2, <1>3 DEF SameTold, UpToDate, Fits
  <2>7. known'[a] \in {0, version'}
    BY <1>2, <2>2
  <2> QED BY <2>3, <2>4, <2>5, <2>6, <2>7 DEF UpToDate
<1>5. CASE conns[c].app # a
  <2>1. \A d \in Conns : conns[d].app = a \/ conns'[d].app = a => conns'[d] = conns[d]
    BY <1>1, <1>5 DEF Keep
  <2>2. SameWires(a)
    BY <2>1 DEF SameWires
  <2>3. Knows(a)'
    BY <1>2, <2>1, KnowsOn
  <2> QED BY <1>2, <1>3, <2>2, <2>3, CurrentKept
<1> QED BY <1>4, <1>5

LEMMA CurrentReceive ==
  ASSUME TypeOK, Ends, Linked, NEW c \in Conns, Receive(c), NEW a \in Apps, UpToDate(a)
  PROVE  UpToDate(a)'
<1>1. /\ Keep(c) /\ ~conns'[c].waits /\ conns'[c].reply = <<>>
      /\ conns'[c].app = a => conns[c].app = a /\ conns'[c].wire = conns[c].wire
  <2>1. a # Null
    BY ServerAssumption
  <2>2. CASE conns[c].up
    BY <2>2, Receives
  <2>3. CASE ~conns[c].up
    BY <2>1, <2>3, Receives, FreeType
  <2> QED BY <2>2, <2>3
<1>2. /\ UNCHANGED <<srv, version>> /\ conns[c].reply # <<>> /\ known \in [Apps -> 0..MaxSaves]
      /\ known' = IF conns[c].reply[1] = Null THEN known
                  ELSE [known EXCEPT ![conns[c].app] = conns[c].reply[1]]
  BY DEF Receive, vault, TypeOK
<1>3. SameTold(a)
  BY <1>1, <1>2, ToldStays
<1>4. SameWires(a)
  BY <1>1 DEF SameWires, Keep
<1>5. CASE conns[c].app = a
  <2>1. known'[a] \in {0, version'}
    BY <1>2, <1>5 DEF UpToDate, Fits
  <2>2. \A d \in Conns : conns[d].app = a => d = c
    BY <1>5, ServerAssumption DEF Ends
  <2>3. \A d \in Conns : conns'[d].app = a => d = c
    BY <1>1, <2>2 DEF Keep
  <2>4. conns[c].wire = <<>>
    BY <1>2 DEF Linked, Carried, Carries
  <2>5. \A d \in Conns : conns'[d].app = a => conns'[d].wire = <<>> /\ conns'[d].reply = <<>>
    BY <1>1, <2>3, <2>4
  <2>6. ASSUME NEW t \in Servers, Answers(t), conns[srv[t].conn].app = a PROVE FALSE
    <3>1. srv[t].conn \in Conns /\ conns[srv[t].conn].reply = <<>>
      BY <2>6 DEF Answers, TypeOK, Linked, InHand, Due
    <3> QED BY <1>2, <2>2, <2>6, <3>1
  <2>7. \A t \in Servers : ~(Answers(t)' /\ conns'[srv'[t].conn].app = a)
    BY <1>3, <2>6 DEF SameTold
  <2> QED BY <2>1, <2>5, <2>7 DEF UpToDate
<1>6. CASE conns[c].app # a
  <2>1. known'[a] = known[a]
    BY <1>2, <1>6
  <2>2. \A d \in Conns : conns[d].app = a => conns'[d] = conns[d]
    BY <1>1, <1>6 DEF Keep
  <2>3. Knows(a)'
    BY <1>2, <2>1, <2>2, KnowsOn
  <2> QED BY <1>2, <1>3, <1>4, <2>1, <2>3, CurrentKept
<1> QED BY <1>5, <1>6

LEMMA CurrentLeave ==
  ASSUME TypeOK, Ends, Linked, NEW c \in Conns, Leave(c), NEW a \in Apps, UpToDate(a),
         a \notin Unanswered({c})
  PROVE  UpToDate(a)'
<1>0. a # Null
  BY ServerAssumption
<1>1. Keep(c) /\ conns'[c].app = Null
  BY Leaves
<1>2. UNCHANGED <<srv, version, known>>
  BY DEF Leave, vault
<1>3. SameTold(a)
  BY <1>0, <1>1, <1>2, ToldStays
<1>4. SameWires(a)
  BY <1>0, <1>1 DEF SameWires, Keep
<1>5. conns[c].app = a /\ conns[c].waits => known[a] = 0
  BY DEF Unanswered
<1>6. Knows(a)'
  BY <1>1, <1>2, <1>5, KnowsOn DEF Keep
<1> QED BY <1>2, <1>3, <1>4, <1>6, CurrentKept

LEMMA CurrentStep == TypeOK /\ Ends /\ Linked /\ Current /\ [Next]_vars => Current'
<1> SUFFICES ASSUME TypeOK, Ends, Linked, Current, [Next]_vars,
                    NEW a \in Apps, a \notin behind'
             PROVE  UpToDate(a)'
  BY DEF Current
<1>0. a \notin behind => UpToDate(a)
  BY DEF Current
<1>1. ASSUME NEW s \in Servers, Start(s) \/ Clean(s) \/ Bind(s) \/ Unlink(s) PROVE UpToDate(a)'
  <2>1. /\ UNCHANGED <<conns, known, version, behind>>
        /\ \E at \in {"down", "clean", "bind", "close", "accept"} : GoTo(s, at)
    BY <1>1 DEF Start, Clean, Bind, Unlink, vault
  <2>2. Stay(s) /\ ~Answers(s)'
    BY <2>1, Goes DEF Serving, Answers
  <2> QED BY <1>0, <2>1, <2>2, CurrentSame
<1>2. ASSUME NEW s \in Servers, Accept(s) PROVE UpToDate(a)'
  <2>1. UNCHANGED <<conns, known, version, behind>>
    BY <1>2 DEF Accept, vault
  <2>2. Stay(s) /\ ~Answers(s)'
    BY <1>2, Accepts DEF Answers
  <2> QED BY <1>0, <2>1, <2>2, CurrentSame
<1>3. ASSUME NEW s \in Servers, Busy(s), Drop(s), UNCHANGED <<known, version>> PROVE UpToDate(a)'
  <2>1. /\ Stay(s) /\ ~Answers(s)' /\ HangsUp({srv[s].conn})
        /\ behind' = behind \union Unanswered({srv[s].conn})
    BY <1>3, Drops DEF Answers
  <2>2. conns[srv[s].conn].srv = s
    BY <1>3 DEF Linked, Held, HeldBy
  <2>3. a \notin Unanswered({c \in Conns : c \in {srv[s].conn} /\ conns[c].reply = <<>>})
    BY <2>1 DEF Unanswered
  <2> QED BY <1>0, <1>3, <2>1, <2>2, <2>3, CurrentHungUp
<1>4. ASSUME NEW s \in Servers, NoFrame(s) PROVE UpToDate(a)'
  BY <1>3, <1>4 DEF NoFrame, Busy, At, vault
<1>5. ASSUME NEW s \in Servers, Work(s) PROVE UpToDate(a)'
  BY <1>5, CurrentWork
<1>6. ASSUME NEW s \in Servers, Build(s) PROVE UpToDate(a)'
  BY <1>6, CurrentBuild
<1>7. ASSUME NEW s \in Servers, Send(s) PROVE UpToDate(a)'
  <2>1. UNCHANGED <<known, version>> /\ Busy(s) /\ At(s, "send")
    BY <1>7 DEF Send, Busy, At, vault
  <2>2. CASE Replies(s)
    BY <2>1, <2>2, CurrentAnswered
  <2> QED BY <1>7, <1>3, <2>1, <2>2, SendSets
<1>8. ASSUME NEW s \in Servers, Close(s) \/ Kill(s) PROVE UpToDate(a)'
  <2> DEFINE cs == {c \in Conns : conns[c].srv = s}
  <2>1. UNCHANGED <<known, version>>
    BY <1>8 DEF Close, Kill, vault
  <2>2. /\ Stay(s) /\ ~Answers(s)' /\ HangsUp(cs)
        /\ behind' = behind \union Unanswered({c \in Conns : conns[c].srv = s /\ conns[c].reply = <<>>})
    BY <1>8, KillSets DEF Answers
  <2>3. {c \in Conns : c \in cs /\ conns[c].reply = <<>>} = {c \in Conns : conns[c].srv = s /\ conns[c].reply = <<>>}
    OBVIOUS
  <2>4. a \notin Unanswered({c \in Conns : c \in cs /\ conns[c].reply = <<>>}) /\ a \notin behind
    BY <2>2, <2>3
  <2>5. \A c \in cs : conns[c].srv = s
    OBVIOUS
  <2> HIDE DEF cs
  <2> QED BY <1>0, <2>1, <2>2, <2>4, <2>5, CurrentHungUp
<1>9. ASSUME NEW b \in Apps, Connect(b) PROVE UpToDate(a)'
  BY <1>0, <1>9, CurrentConnect DEF Connect
<1>10. ASSUME NEW c \in Conns, Request(c) PROVE UpToDate(a)'
  BY <1>0, <1>10, CurrentRequest DEF Request
<1>11. ASSUME NEW c \in Conns, Receive(c) PROVE UpToDate(a)'
  BY <1>0, <1>11, CurrentReceive DEF Receive
<1>12. ASSUME NEW c \in Conns, Leave(c) PROVE UpToDate(a)'
  BY <1>0, <1>12, CurrentLeave DEF Leave
<1>13. CASE OtherSaves
  <2>1. a \notin Informed /\ UNCHANGED <<srv, conns, known>>
    BY <1>13 DEF OtherSaves
  <2>2. /\ known[a] = 0
        /\ \A c \in Conns : conns[c].app = a => conns[c].wire = <<>> /\ conns[c].reply = <<>>
        /\ \A s \in Servers : Answers(s) => conns[srv[s].conn].app # a
    BY <2>1, Uninformed
  <2> QED BY <2>1, <2>2 DEF UpToDate, Fits, Answers
<1>14. CASE UNCHANGED vars
  BY <1>0, <1>14 DEF vars, vault, UpToDate, Fits, Answers
<1> QED BY <1>1, <1>2, <1>4, <1>5, <1>6, <1>7, <1>8, <1>9, <1>10, <1>11, <1>12, <1>13, <1>14
        DEF Next, ServerStep

LEMMA CurrentInit == Init => Current
<1> SUFFICES ASSUME Init, NEW a \in Apps PROVE UpToDate(a)
  BY DEF Current
<1>1. \A s \in Servers : srv[s].at = "down"
  BY DownType DEF Init
<1>2. \A c \in Conns : conns[c].wire = <<>> /\ conns[c].reply = <<>>
  BY FreeType DEF Init
<1>3. known[a] = 0
  BY DEF Init
<1> QED BY <1>1, <1>2, <1>3 DEF UpToDate, Answers

\* An app that waits for nothing knows the version of the vault, in whatever order
\* servers end, start and answer, unless since it was told last another actor saved,
\* or its own request did and was answered with an error or not at all.
THEOREM VersionsKnown == Spec => []KnowsTheVersion
<1>1. Init => TypeOK /\ Ends /\ Linked /\ Current
  BY TypeInit, LinkedInit, CurrentInit
<1>2. TypeOK /\ Ends /\ Linked /\ Current /\ [Next]_vars => (TypeOK /\ Ends /\ Linked /\ Current)'
  BY TypeStep, LinkedStep, CurrentStep
<1>3. Current => KnowsTheVersion
  BY DEF Current, UpToDate, KnowsTheVersion
<1> QED BY <1>1, <1>2, <1>3, PTL DEF Spec
=============================================================================
