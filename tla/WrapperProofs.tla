----------------------------- MODULE WrapperProofs -----------------------------
(***************************************************************************)
(* Theorems about the menu bar app, for any names, any number of saves and *)
(* any heartbeat limit above one.                                          *)
(***************************************************************************)
EXTENDS Wrapper, TLAPS

\* A vault is never newer than the time, and no two have the same version.
Dated(w, t) == \A n \in Ids : w[n].version <= t
Unique(w) == \A m, n \in Ids : w[m].version = w[n].version /\ w[m].version # 0 => m = n

\* From w at time t to x: a vault is as it was, or shown to the wrapper, or
\* saved later, or gone.
Evolves(w, t, x) ==
  \A n \in Ids : \/ x[n].version = 0 \/ x[n].version > t
                 \/ x[n].version = w[n].version /\ (x[n].unseen => w[n].unseen)

\* The vault of version v holds nothing the wrapper was not shown.
Seen(w, v) == v # 0 => \A n \in Ids : w[n].version = v => ~w[n].unseen

\* The reply's version is known to the wrapper, or it is shown it with r.
Known(w, t, r) ==
  /\ r.version <= t /\ ~r.blind
  /\ r.version # 0 =>
       \A n \in Ids : w[n].version = r.version => n \in r.at \/ ~w[n].unseen

Good(w, t) == w \in [Ids -> Workspaces] /\ t \in Times /\ Dated(w, t) /\ Unique(w)

-----------------------------------------------------------------------------
\* The shapes of a reply.
LEMMA ReplyType ==
  ASSUME NEW s \in Statuses, NEW v \in Times, NEW u \in Times, NEW at \in SUBSET Ids,
         NEW b \in BOOLEAN
  PROVE  [status |-> s, version |-> v, uuid |-> u, at |-> at, blind |-> b] \in Replies
  BY Zenon DEF Replies

LEMMA PlainReplyType ==
  ASSUME NEW s \in Statuses, NEW v \in Times
  PROVE  Reply(s, v) \in Replies
<1>1. 0 \in Times
  BY EngineAssumption DEF Times
<1>2. {} \in SUBSET Ids /\ FALSE \in BOOLEAN
  OBVIOUS
<1>3. [status |-> s, version |-> v, uuid |-> 0, at |-> {}, blind |-> FALSE] \in Replies
  BY <1>1, <1>2, ReplyType, Zenon
<1> QED
  BY <1>3, Zenon DEF Reply

\* The fields an answer sets on top of the plain reply.
LEMMA SetFields ==
  ASSUME NEW r \in Replies, NEW u \in Times, NEW at \in SUBSET Ids, NEW b \in BOOLEAN
  PROVE  /\ [r EXCEPT !.at = at] \in Replies
         /\ [r EXCEPT !.uuid = u, !.at = at] \in Replies
         /\ [r EXCEPT !.at = at, !.blind = b] \in Replies
  BY DEF Replies

LEMMA LostType == Lost \in Replies
  BY EngineAssumption, PlainReplyType DEF Lost, Statuses, Times

-----------------------------------------------------------------------------
LEMMA CreatedGood ==
  ASSUME NEW w, NEW t, Good(w, t), NEW i \in Ids, t + 1 \in Times
  PROVE  Good(Created(w, t + 1, i), t + 1) /\ Evolves(w, t, Created(w, t + 1, i))
<1> DEFINE x == Created(w, t + 1, i)
<1>1. x \in [Ids -> Workspaces]
  BY DEF Created, Workspaces, Good
<1>2. x[i].version = t + 1 /\ \A n \in Ids \ {i} : x[n] = w[n]
  BY DEF Created, Good
<1>3. t \in Int /\ \A n \in Ids : w[n].version \in Int /\ w[n].version <= t
  BY EngineAssumption DEF Good, Dated, Workspaces, Times
<1> HIDE DEF x
<1>4. Dated(x, t + 1) /\ Unique(x) /\ Evolves(w, t, x)
  BY <1>1, <1>2, <1>3 DEF Dated, Unique, Evolves, Good
<1> QED
  BY <1>1, <1>4 DEF Good, x

LEMMA SavedGood ==
  ASSUME NEW w, NEW t, Good(w, t), NEW i \in Ids, t + 1 \in Times
  PROVE  /\ Good(Saved(w, t + 1, i), t + 1) /\ Evolves(w, t, Saved(w, t + 1, i))
         /\ \A n \in Ids : Saved(w, t + 1, i)[n].version = t + 1 => n = i
<1> DEFINE x == Saved(w, t + 1, i)
<1>1. x \in [Ids -> Workspaces]
  BY DEF Saved, Workspaces, Good
<1>2. x[i].version = t + 1 /\ \A n \in Ids \ {i} : x[n] = w[n]
  BY DEF Saved, Good, Workspaces
<1>3. t \in Int /\ \A n \in Ids : w[n].version \in Int /\ w[n].version <= t
  BY EngineAssumption DEF Good, Dated, Workspaces, Times
<1> HIDE DEF x
<1>4. Dated(x, t + 1) /\ Unique(x) /\ Evolves(w, t, x)
  BY <1>1, <1>2, <1>3 DEF Dated, Unique, Evolves, Good
<1>5. \A n \in Ids : x[n].version = t + 1 => n = i
  BY <1>2, <1>3
<1> QED
  BY <1>1, <1>4, <1>5 DEF Good, x

LEMMA WrittenGood ==
  ASSUME NEW w, NEW t, Good(w, t), NEW l \in Loads, t + 1 \in Times
  PROVE  /\ Good(Written(w, t + 1, l), t + 1) /\ Evolves(w, t, Written(w, t + 1, l))
         /\ \A n \in Ids : Written(w, t + 1, l)[n].version = t + 1 => n = l.at
<1>0. l.at \in Ids
  BY DEF Loads
<1>1. CASE w[l.at].uuid = l.vault.uuid
  BY <1>0, <1>1, SavedGood DEF Written
<1>2. CASE w[l.at].uuid # l.vault.uuid
  <2> DEFINE x == Written(w, t + 1, l)
  <2>1. x = [w EXCEPT ![l.at].version = 0] /\ 0 \in Times
    BY <1>2, EngineAssumption DEF Written, Times
  <2>2. x \in [Ids -> Workspaces]
    BY <1>0, <2>1 DEF Workspaces, Good
  <2>3. x[l.at].version = 0 /\ \A n \in Ids \ {l.at} : x[n] = w[n]
    BY <1>0, <2>1 DEF Good, Workspaces
  <2>4. t \in Int /\ 0 <= t /\ \A n \in Ids : w[n].version \in Int /\ w[n].version <= t
    BY EngineAssumption DEF Good, Dated, Workspaces, Times
  <2> HIDE DEF x
  <2>5. Dated(x, t + 1) /\ Unique(x) /\ Evolves(w, t, x)
    BY <2>2, <2>3, <2>4 DEF Dated, Unique, Evolves, Good
  <2>6. \A n \in Ids : x[n].version = t + 1 => n = l.at
    BY <2>3, <2>4
  <2> QED
    BY <2>2, <2>5, <2>6 DEF Good, x
<1> QED
  BY <1>1, <1>2

LEMMA Stays ==
  ASSUME NEW w, NEW t, Good(w, t)
  PROVE  Evolves(w, t, w)
  BY DEF Evolves

LEMMA EvolvesTwice ==
  ASSUME NEW w, NEW t \in Int, NEW x, NEW y, NEW u \in Int, t <= u,
         x \in [Ids -> Workspaces], y \in [Ids -> Workspaces],
         Evolves(w, t, x), Evolves(x, u, y)
  PROVE  Evolves(w, t, y)
  BY DEF Evolves, Workspaces, Times

\* What the wrapper knew stays known.
LEMMA SeenStays ==
  ASSUME NEW w, NEW t, Good(w, t), NEW x, x \in [Ids -> Workspaces], Evolves(w, t, x),
         NEW v \in Times, v <= t, Seen(w, v)
  PROVE  Seen(x, v)
  BY DEF Seen, Evolves, Good, Workspaces, Times

LEMMA KnownStays ==
  ASSUME NEW w, NEW t, Good(w, t), NEW x, x \in [Ids -> Workspaces], Evolves(w, t, x),
         NEW u \in Times, t <= u, NEW r \in Replies, Known(w, t, r)
  PROVE  Known(x, u, r)
<1>1. r.version \in Int /\ r.version <= t /\ t \in Int /\ u \in Int
  BY EngineAssumption DEF Known, Replies, Times, Good
<1>2. \A n \in Ids : x[n].version \in Int
  BY EngineAssumption DEF Workspaces, Times
<1>3. ASSUME r.version # 0, NEW n \in Ids, x[n].version = r.version
      PROVE  n \in r.at \/ ~x[n].unseen
  BY <1>1, <1>2, <1>3 DEF Evolves, Known
<1> QED
  BY <1>1, <1>3 DEF Known

-----------------------------------------------------------------------------
LEMMA OpenedGood ==
  ASSUME NEW w, NEW t, Good(w, t), NEW q \in Requests,
         NEW c, NEW o \in Opened(w, t, q, c), o.now <= MaxClock
  PROVE  /\ Good(o.ws, o.now) /\ Evolves(w, t, o.ws) /\ o.at \in Ids /\ o.now >= t
         /\ o.ws[o.at].version > t \/ (o.ws = w /\ o.now = t)
<1>0. t \in Int
  BY EngineAssumption DEF Good, Times
<1>1. CASE \E n \in Openable(w, q.id) : o = [ws |-> w, now |-> t, at |-> n]
  BY <1>0, <1>1, Stays DEF Openable, Found
<1>2. CASE o = [ws |-> Created(w, t + 1, q.id), now |-> t + 1, at |-> q.id]
  <2>1. q.id \in Ids
    BY DEF Requests
  <2>2. t + 1 \in Times
    BY <1>2, EngineAssumption DEF Times, Good
  <2>3. o.ws[o.at].version > t
    BY <1>0, <1>2, <2>1 DEF Created, Good
  <2> QED
    BY <1>0, <1>2, <2>1, <2>2, <2>3, CreatedGood
<1> QED
  BY <1>1, <1>2 DEF Opened

\* The request carries what the wrapper knows and its answer is judged.
Meets(w, t, q) == q.version <= t /\ Seen(w, q.version) /\ q.type # "STATS_QUERY"

\* What was loaded for it held nothing new, if it knew the version.
Apt(q, ls) == q.version # 0 => \A l \in ls : ~l.vault.unseen

Fine(w, t, q, ls, o) ==
  /\ Good(o.ws, o.now) /\ o.now >= t /\ Evolves(w, t, o.ws)
  /\ o.reply \in Replies
  /\ Meets(w, t, q) /\ Apt(q, ls) => Known(o.ws, o.now, o.reply)

LEMMA FailedFine ==
  ASSUME NEW w, NEW t, Good(w, t), NEW s \in Statuses, NEW o \in Failed(w, t, s)
  PROVE  o.ws = w /\ o.now = t /\ o.reply \in Replies /\ Known(w, t, o.reply)
<1>1. 0 \in Times /\ t >= 0
  BY EngineAssumption DEF Times, Good
<1>2. o = [ws |-> w, now |-> t, reply |-> Reply(s, 0)]
  BY DEF Failed, Outcome
<1>3. Reply(s, 0).version = 0 /\ ~Reply(s, 0).blind
  BY Zenon DEF Reply
<1>4. o.reply \in Replies
  BY <1>1, <1>2, PlainReplyType
<1> QED
  BY <1>1, <1>2, <1>3, <1>4 DEF Known

LEMMA RejectedFine ==
  ASSUME NEW w, NEW t, Good(w, t), NEW q \in Requests, NEW o \in Rejected(w, t, q)
  PROVE  /\ o.ws = w /\ o.now = t /\ o.reply \in Replies
         /\ q.version <= t /\ Seen(w, q.version) => Known(w, t, o.reply)
<1> DEFINE at == Found(w, q.id)
<1>1. PICK v \in KnownVersions(w, q) :
        o = [ws |-> w, now |-> t, reply |-> [Reply("VALIDATION_ERROR", v) EXCEPT !.at = at]]
  BY DEF Rejected, Outcome
<1>2. at \in SUBSET Ids
  BY DEF Found
<1>3. v \in Times
  BY <1>2 DEF KnownVersions, Openable, Requests, Good, Workspaces
<1>4. o.reply \in Replies
  BY <1>1, <1>2, <1>3, PlainReplyType, SetFields DEF Statuses
<1>5. o.reply.version = v /\ o.reply.at = at
  BY <1>1 DEF Reply
<1>6. ~o.reply.blind
  <2>1. ~Reply("VALIDATION_ERROR", v).blind
    BY Zenon DEF Reply
  <2>2. o.reply.blind = Reply("VALIDATION_ERROR", v).blind
    BY <1>1 DEF Reply
  <2> QED
    BY <2>1, <2>2
<1>7. ASSUME q.version <= t, Seen(w, q.version)
      PROVE  Known(w, t, o.reply)
  <2>1. CASE v = q.version
    BY <1>5, <1>6, <1>7, <2>1 DEF Known, Seen
  <2>2. CASE \E n \in Openable(w, q.id) : v = w[n].version
    BY <1>2, <1>5, <1>6, <2>2 DEF Known, Good, Dated, Unique, Openable
  <2> QED
    BY <2>1, <2>2 DEF KnownVersions
<1> QED
  BY <1>1, <1>4, <1>7

LEMMA RefusedFine ==
  ASSUME NEW w, NEW t, Good(w, t), NEW q \in Requests, NEW ls, NEW o \in Refused(w, t, q)
  PROVE  Fine(w, t, q, ls, o)
<1>1. o.ws = w /\ o.now = t /\ o.reply \in Replies /\ (Meets(w, t, q) => Known(w, t, o.reply))
  BY FailedFine, RejectedFine DEF Refused, Meets, Statuses
<1> QED
  BY <1>1, Stays, EngineAssumption DEF Fine, Good, Times

LEMMA AcceptedFine ==
  ASSUME NEW w, NEW t, Good(w, t), NEW q \in Requests, NEW ls, NEW o \in Accepted(w, t, q)
  PROVE  Fine(w, t, q, ls, o)
<1>1. o = [ws |-> w, now |-> t, reply |-> Reply("SUCCESS", q.version)]
  BY DEF Accepted, Outcome
<1>2. o.reply \in Replies /\ o.reply.version = q.version /\ t >= t
  BY <1>1, PlainReplyType, EngineAssumption DEF Requests, Statuses, Reply, Good, Times
<1>3. ~o.reply.blind
  BY <1>1, Zenon DEF Reply
<1> QED
  BY <1>1, <1>2, <1>3, Stays DEF Fine, Meets, Known, Seen

LEMMA StatsFine ==
  ASSUME NEW w, NEW t, Good(w, t), NEW q \in Requests, q.type = "STATS_QUERY",
         NEW ls, NEW o \in Stats(w, t, q)
  PROVE  Fine(w, t, q, ls, o)
<1>1. PICK n \in Ids : o = [ws |-> w, now |-> t, reply |-> Reply("SUCCESS", w[n].version)]
  BY DEF Stats, Outcome, Openable, Found
<1>2. o.reply \in Replies /\ t >= t
  BY <1>1, PlainReplyType, EngineAssumption DEF Workspaces, Statuses, Good, Times
<1> QED
  BY <1>1, <1>2, Stays DEF Fine, Meets

LEMMA SwitchFine ==
  ASSUME NEW w, NEW t, Good(w, t), NEW q \in Requests, NEW ls, NEW o \in SwitchTo(w, t, q),
         o.now <= MaxClock
  PROVE  Fine(w, t, q, ls, o)
<1>1. PICK p \in Opened(w, t, q, TRUE) :
        o = [ws |-> p.ws, now |-> p.now,
             reply |-> [Reply("SUCCESS", p.ws[p.at].version) EXCEPT
                          !.uuid = p.ws[p.at].uuid, !.at = {p.at}]]
  BY DEF SwitchTo, Outcome
<1>2. Good(p.ws, p.now) /\ Evolves(w, t, p.ws) /\ p.at \in Ids /\ p.now >= t
  BY <1>1, OpenedGood
<1>3. p.ws[p.at].version \in Times /\ p.ws[p.at].uuid \in Times
  BY <1>2 DEF Good, Workspaces
<1>4. o.reply \in Replies
  BY <1>1, <1>2, <1>3, PlainReplyType, SetFields DEF Statuses
<1>5. o.reply.version = p.ws[p.at].version /\ o.reply.at = {p.at}
  BY <1>1 DEF Reply
<1>6. ~o.reply.blind
  <2>1. ~Reply("SUCCESS", p.ws[p.at].version).blind
    BY Zenon DEF Reply
  <2>2. o.reply.blind = Reply("SUCCESS", p.ws[p.at].version).blind
    BY <1>1 DEF Reply
  <2> QED
    BY <2>1, <2>2
<1>7. Known(p.ws, p.now, o.reply)
  BY <1>2, <1>5, <1>6 DEF Known, Good, Dated, Unique
<1> QED
  BY <1>1, <1>2, <1>4, <1>7 DEF Fine

LEMMA OpenedLater ==
  ASSUME NEW w, NEW t, Good(w, t), NEW q \in Requests,
         NEW p \in OpenedFor(w, t, q), p.now <= MaxClock
  PROVE  /\ Good(p.ws, p.now) /\ Evolves(w, t, p.ws) /\ p.now >= t /\ p.at \in Ids
         /\ Meets(w, t, q) => Meets(p.ws, p.now, q)
<1>1. Good(p.ws, p.now) /\ Evolves(w, t, p.ws) /\ p.now >= t /\ p.at \in Ids
  BY OpenedGood DEF OpenedFor
<1>2. t \in Int /\ p.now \in Int /\ q.version \in Int
  BY <1>1, EngineAssumption DEF Good, Times, Requests
<1>3. Meets(w, t, q) => Meets(p.ws, p.now, q)
  BY <1>1, <1>2, SeenStays DEF Meets, Good, Requests
<1> QED
  BY <1>1, <1>3

\* What a process of the wrapper loads holds nothing new if it compared versions.
LEMMA LoadingFine ==
  ASSUME NEW w, NEW t, Good(w, t), NEW q \in Requests, NEW o \in Loading(w, t, q)
  PROVE  /\ Good(o.ws, o.now) /\ o.now >= t /\ Evolves(w, t, o.ws) /\ o.load \in Loads
         /\ Meets(w, t, q) => Apt(q, {o.load})
<1>1. PICK p \in OpenedFor(w, t, q) :
        /\ p.now <= MaxClock /\ InSync(p, q)
        /\ o = [ws |-> p.ws, now |-> p.now, load |-> [at |-> p.at, vault |-> p.ws[p.at]]]
  BY DEF Loading
<1>2. /\ Good(p.ws, p.now) /\ Evolves(w, t, p.ws) /\ p.now >= t /\ p.at \in Ids
      /\ Meets(w, t, q) => Meets(p.ws, p.now, q)
  BY <1>1, OpenedLater
<1>3. o.load \in Loads
  BY <1>1, <1>2 DEF Loads, Good
<1>4. ASSUME Meets(w, t, q), q.version # 0
      PROVE  ~o.load.vault.unseen
  <2>1. p.ws[p.at].version = q.version
    BY <1>1, <1>4 DEF InSync
  <2>2. ~p.ws[p.at].unseen
    BY <1>2, <1>4, <2>1 DEF Meets, Seen
  <2> QED
    BY <1>1, <2>2
<1> QED
  BY <1>1, <1>2, <1>3, <1>4 DEF Apt

LEMMA MismatchFine ==
  ASSUME NEW w, NEW t, Good(w, t), NEW q \in Requests, NEW ls, NEW o \in Mismatch(w, t, q),
         o.now <= MaxClock
  PROVE  Fine(w, t, q, ls, o)
<1>1. PICK p \in OpenedFor(w, t, q) : o \in Rejected(p.ws, p.now, q)
  BY DEF Mismatch
<1>2. o.now = p.now
  BY <1>1 DEF Rejected, Outcome
<1>3. /\ Good(p.ws, p.now) /\ Evolves(w, t, p.ws) /\ p.now >= t
      /\ Meets(w, t, q) => Meets(p.ws, p.now, q)
  BY <1>2, OpenedLater
<1>4. /\ o.ws = p.ws /\ o.reply \in Replies
      /\ Meets(p.ws, p.now, q) => Known(p.ws, p.now, o.reply)
  BY <1>1, <1>3, RejectedFine DEF Meets
<1> QED
  BY <1>2, <1>3, <1>4 DEF Fine

LEMMA TransformFine ==
  ASSUME NEW w, NEW t, Good(w, t), NEW q \in Requests, NEW ls \in SUBSET Loads, NEW l \in ls,
         NEW o \in Transform(w, t, q, l), o.now <= MaxClock
  PROVE  Fine(w, t, q, ls, o)
<1> DEFINE blind == q.version # 0 /\ l.vault.unseen
<1>0. l \in Loads /\ l.at \in Ids /\ t \in Int
  BY EngineAssumption DEF Loads, Good, Times
<1>1. o.ws = Written(w, t + 1, l) /\ o.now = t + 1
  BY DEF Transform, Failed, Outcome
<1>2. t + 1 \in Times /\ o.now >= t
  BY <1>0, <1>1, EngineAssumption DEF Good, Times
<1>3. /\ Good(o.ws, o.now) /\ Evolves(w, t, o.ws)
      /\ \A n \in Ids : o.ws[n].version = o.now => n = l.at
  BY <1>0, <1>1, <1>2, WrittenGood
<1>4. CASE o \in Failed(Written(w, t + 1, l), t + 1, "HARD_FAIL")
  <2>1. o.reply \in Replies /\ Known(o.ws, o.now, o.reply)
    BY <1>1, <1>3, <1>4, FailedFine DEF Statuses
  <2> QED
    BY <1>2, <1>3, <2>1 DEF Fine
<1>5. CASE o.reply = [status |-> "SUCCESS", version |-> t + 1, uuid |-> 0, at |-> {l.at},
                      blind |-> blind]
  <2>1. o.reply.version = o.now /\ o.reply.at = {l.at} /\ o.reply.blind = blind
    BY <1>1, <1>5
  <2>2. o.reply \in Replies
    <3>1. 0 \in Times /\ "SUCCESS" \in Statuses /\ {l.at} \in SUBSET Ids /\ t + 1 \in Times
      BY <1>0, <1>2, EngineAssumption DEF Times, Statuses
    <3>2. blind \in BOOLEAN
      BY Zenon
    <3> HIDE DEF blind
    <3> QED
      BY <1>5, <3>1, <3>2, ReplyType, Zenon
  <2>3. Apt(q, ls) => ~blind
    BY Zenon DEF Apt
  <2>4. Apt(q, ls) => Known(o.ws, o.now, o.reply)
    <3> HIDE DEF blind
    <3> QED
      BY <1>1, <1>2, <1>3, <2>1, <2>3, EngineAssumption DEF Known, Times
  <2> QED
    BY <1>2, <1>3, <2>2, <2>4 DEF Fine
<1>6. CASE o = Outcome(Written(w, t + 1, l), t + 1,
                      [Reply("SUCCESS", t + 1) EXCEPT !.at = {l.at}, !.blind = blind])
  <2>1. o.reply = [status |-> "SUCCESS", version |-> t + 1, uuid |-> 0, at |-> {l.at},
                   blind |-> blind]
    BY <1>6 DEF Outcome, Reply
  <2> QED
    BY <1>5, <2>1
<1> QED
  BY <1>4, <1>6, Zenon DEF Transform

\* Every answer of the engine leaves vaults that are dated and distinct, and
\* tells the wrapper nothing it could mistake for what it had seen.
LEMMA OutcomeFine ==
  ASSUME NEW w, NEW t, Good(w, t), NEW q \in Requests, NEW ls \in SUBSET Loads,
         NEW o \in Outcomes(w, t, q, ls)
  PROVE  Fine(w, t, q, ls, o)
<1>1. o.now <= MaxClock
  BY DEF Outcomes
<1>2. CASE o \in Refused(w, t, q)
  BY <1>2, RefusedFine
<1>3. CASE q.type \in {"HELLO", "HEARTBEAT"} /\ o \in Accepted(w, t, q)
  BY <1>3, AcceptedFine
<1>4. CASE q.type = "STATS_QUERY" /\ o \in Stats(w, t, q)
  BY <1>4, StatsFine
<1>5. CASE o \in SwitchTo(w, t, q)
  BY <1>1, <1>5, SwitchFine
<1> DEFINE done == IF ls = {} THEN Mismatch(w, t, q)
                   ELSE UNION {Transform(w, t, q, l) : l \in ls}
<1>6. CASE o \in done
  BY <1>1, <1>6, MismatchFine, TransformFine
<1>7. \/ o \in Refused(w, t, q)
      \/ o \in CASE q.type \in {"HELLO", "HEARTBEAT"} -> Accepted(w, t, q)
                [] q.type = "STATS_QUERY" -> Stats(w, t, q)
                [] q.type = "WORKSPACE_SWITCH" -> SwitchTo(w, t, q)
                [] OTHER -> done
  BY Zenon DEF Outcomes
<1>8. CASE q.type \in {"HELLO", "HEARTBEAT"}
  BY <1>2, <1>3, <1>7, <1>8
<1>9. CASE q.type = "STATS_QUERY"
  BY <1>2, <1>4, <1>7, <1>9
<1>10. CASE q.type = "WORKSPACE_SWITCH"
  BY <1>2, <1>5, <1>7, <1>10
<1>11. CASE q.type \notin {"HELLO", "HEARTBEAT", "STATS_QUERY", "WORKSPACE_SWITCH"}
  BY <1>2, <1>6, <1>7, <1>11
<1> QED
  BY <1>8, <1>9, <1>10, <1>11

-----------------------------------------------------------------------------
(* Types, and where the state machine is while the main thread waits.  The  *)
(* miss counter is only ever above zero in a session that cannot go on.     *)

Control ==
  /\ pc = "start" => fsm = "uninitialized"
  /\ pc = "hello" => fsm = "engineHandshake"
  /\ pc \in {"switch", "transform", "beat"} => fsm = "busy"
  /\ pc \in {"hello", "switch", "transform"} => call.type # "STATS_QUERY"
  /\ pc \in Waiting => call.version = ctl.version /\ call.id \in Ids
  /\ pc \in Waiting \ {"switch"} => call.id = ctl.id
  /\ misses # 0 => /\ misses = 1 /\ fsm \in {"busy", "hardFail"}
                   /\ fsm = "busy" => pc \in {"idle", "wakeBeat", "wakeStats", "wakeStatsIll"}

LEMMA AfterType ==
  ASSUME NEW s \in States, NEW e \in DOMAIN Sources
  PROVE  After(s, e) \in States
  BY DEF After, Accepts, Sources, Target, States

LEMMA EventType ==
  ASSUME NEW r, NEW id, NEW m
  PROVE  EventOf(r, id, m) \in {"operationSucceeded", "operationValidationError",
                                "operationFailed", "protocolViolation"}
  BY DEF EventOf

\* An answer leads to READY only from BUSY, and only if the handler returns.
LEMMA EventEffect ==
  ASSUME NEW r, NEW id, NEW m, fsm \in States
  PROVE  LET e == EventOf(r, id, m) IN
           /\ After(fsm, e) \in States
           /\ Returns(e) => fsm = "busy" /\ After(fsm, e) = "ready"
           /\ After(fsm, e) = "ready" => fsm = "ready" \/ (fsm = "busy" /\ Returns(e))
           /\ fsm = "hardFail" => After(fsm, e) = "hardFail"
           /\ After(fsm, e) = "busy" => fsm = "busy"
           /\ fsm = "busy" => After(fsm, e) # "busy"
           /\ fsm = "busy" /\ e = "operationSucceeded" => Returns(e)
<1> DEFINE e == EventOf(r, id, m)
<1>1. e \in {"operationSucceeded", "operationValidationError", "operationFailed", "protocolViolation"}
  BY EventType
<1> HIDE DEF e
<1>2. /\ After(fsm, e) \in States
      /\ Returns(e) => fsm = "busy" /\ After(fsm, e) = "ready"
      /\ After(fsm, e) = "ready" => fsm = "ready" \/ (fsm = "busy" /\ Returns(e))
      /\ fsm = "hardFail" => After(fsm, e) = "hardFail"
      /\ After(fsm, e) = "busy" => fsm = "busy"
      /\ fsm = "busy" => After(fsm, e) # "busy"
      /\ fsm = "busy" /\ e = "operationSucceeded" => Returns(e)
  BY <1>1 DEF After, Accepts, Sources, Target, States, Returns
<1> QED
  BY <1>2 DEF e

LEMMA VersionType ==
  ASSUME TypeOK, NEW r \in Replies, NEW e
  PROVE  VersionAfter(r, e) \in Times /\ [ctl EXCEPT !.version = VersionAfter(r, e)] \in [id : Ids, version : Times]
  BY DEF TypeOK, VersionAfter, Replies

LEMMA ShownType ==
  ASSUME TypeOK, NEW r \in Replies
  PROVE  Shown(r) \in [Ids -> Workspaces]
<1>1. ASSUME NEW n \in Ids
      PROVE  [ws[n] EXCEPT !.unseen = FALSE] \in Workspaces
  BY DEF TypeOK, Workspaces
<1> QED
  BY <1>1 DEF TypeOK, Shown

\* A round trip for a workspace in a handler that may have one.
LEMMA SendTyped ==
  ASSUME TypeOK, NEW type \in Types, NEW id \in Ids, NEW at, Send(type, id, ctl.version, at)
  PROVE  call' \in Requests /\ call' # NoCall /\ call'.type = type /\ call'.id = id
         /\ call'.version = ctl.version /\ reply' = NoReply /\ loaded' = {} /\ pc' = at
<1>1. [type |-> type, id |-> id, version |-> ctl.version] \in Requests
  BY DEF TypeOK, Requests
<1> QED
  BY <1>1, WrapperAssumption DEF Send

LEMMA ControlInit == Init => TypeOK /\ Control
<1> SUFFICES ASSUME Init PROVE TypeOK /\ Control
  OBVIOUS
<1>1. Default \in Ids /\ 0 \in Times
  BY WrapperAssumption, EngineAssumption DEF Ids, Times
<1>2. ws \in [Ids -> Workspaces]
  <2>1. Absent \in Workspaces
    BY <1>1, Zenon DEF Absent, Workspaces
  <2> QED
    BY <2>1 DEF Init
<1>3. ctl \in [id : Ids, version : Times] /\ overran \in BOOLEAN
  BY <1>1 DEF Init
<1>4. misses \in 0..MaxMisses
  BY WrapperAssumption DEF Init
<1>5. TypeOK
  BY <1>1, <1>2, <1>3, <1>4 DEF Init, TypeOK, States, Waiting
<1> QED
  BY <1>5 DEF Init, Control, Waiting

LEMMA ControlStartStep ==
  ASSUME TypeOK, Control, Launch \/ HelloReturned \/ \E id \in Ids : SwitchRefused(id) \/ Switch(id)
  PROVE  TypeOK' /\ Control'
<1>1. CASE Launch
  <2>1. After(fsm, "appLaunch") = "engineHandshake" /\ "HELLO" \in Types /\ ctl.id \in Ids
    BY <1>1 DEF TypeOK, Control, Launch, After, Accepts, Sources, Target, Types
  <2>2. /\ call' \in Requests /\ call' # NoCall /\ call'.type = "HELLO"
        /\ call'.id = ctl.id /\ call'.version = ctl.version
        /\ reply' = NoReply /\ loaded' = {} /\ pc' = "hello" /\ fsm' = "engineHandshake"
    BY <1>1, <2>1, SendTyped DEF Launch
  <2> QED
    BY <1>1, <2>1, <2>2 DEF Launch, TypeOK, Control, Waiting, States, engine
<1>2. CASE HelloReturned
  <2> DEFINE e == EventOf(reply, call.id, misses)
  <2>1. reply \in Replies /\ fsm \in States
    BY <1>2 DEF HelloReturned, Answered, TypeOK
  <2>2. fsm = "engineHandshake" /\ misses = 0
    BY <1>2 DEF HelloReturned, Answered, Control
  <2>3. fsm' \in States
    BY <1>2, <2>1, EventEffect DEF HelloReturned
  <2>4. ctl' \in [id : Ids, version : Times]
    BY <1>2, <2>1, VersionType DEF HelloReturned, TypeOK
  <2>5. label' \in {"none", "READY", "HARD_FAIL"}
    BY <1>2 DEF HelloReturned
  <2> QED
    BY <1>2, <2>2, <2>3, <2>4, <2>5 DEF HelloReturned, TypeOK, Control, Waiting, Answered, engine
<1>3. CASE \E id \in Ids : SwitchRefused(id)
  BY <1>3 DEF SwitchRefused, MaySwitch, Finish, TypeOK, Control, Waiting, engine
<1>4. CASE \E id \in Ids : Switch(id)
  <2>1. PICK id \in Ids : Switch(id)
    BY <1>4
  <2>2. /\ call' \in Requests /\ call' # NoCall /\ call'.type = "WORKSPACE_SWITCH"
        /\ call'.id = id /\ call'.version = ctl.version
        /\ reply' = NoReply /\ loaded' = {} /\ pc' = "switch"
    BY <2>1, SendTyped DEF Switch, Types
  <2>3. fsm = "ready" /\ fsm' = "busy"
    BY <2>1 DEF Switch, Accepts, Sources, Target
  <2> QED
    BY <2>1, <2>2, <2>3 DEF Switch, MaySwitch, TypeOK, Control, Waiting, States, engine
<1> QED
  BY <1>1, <1>2, <1>3, <1>4

LEMMA ControlSwitchStep ==
  ASSUME TypeOK, Control, SwitchDone \/ SwitchFailed
  PROVE  TypeOK' /\ Control'
<1> DEFINE e == EventOf(reply, call.id, misses)
<1>1. reply \in Replies /\ fsm \in States /\ call.id \in Ids
  BY DEF SwitchDone, SwitchFailed, Answered, TypeOK, Control, Waiting
<1>2. fsm = "busy" /\ misses = 0
  BY DEF SwitchDone, SwitchFailed, Answered, Control
<1>3. fsm' \in States
  BY <1>1, EventEffect DEF SwitchDone, SwitchFailed
<1>4. ctl' \in [id : Ids, version : Times]
  <2>1. CASE SwitchDone
    <3>1. reply.version \in Times /\ reply.uuid \in Times /\ (reply.uuid # 0 => reply.uuid \in Ids)
      BY <1>1, EngineAssumption DEF Replies, Ids, Times
    <3> QED
      BY <1>1, <2>1, <3>1 DEF SwitchDone
  <2>2. CASE SwitchFailed
    BY <1>1, <2>2, VersionType DEF SwitchFailed, TypeOK
  <2> QED
    BY <2>1, <2>2
<1>5. ws' \in [Ids -> Workspaces]
  BY <1>1, ShownType DEF SwitchDone, SwitchFailed, TypeOK, engine
<1> QED
  BY <1>2, <1>3, <1>4, <1>5 DEF SwitchDone, SwitchFailed, Finish, TypeOK, Control, Waiting, engine

LEMMA ControlTextStep ==
  ASSUME TypeOK, Control,
         \/ GuardRefused \/ GuardThrows \/ \E type \in TextTypes : GuardSends(type)
         \/ TransformThrows \/ TransformRejected \/ TransformWritten \/ TransformUnwritten
         \/ GuardJudged \/ HeartbeatMissed
  PROVE  TypeOK' /\ Control'
<1>1. CASE GuardRefused
  BY <1>1 DEF GuardRefused, Finish, TypeOK, Control, Waiting, engine
<1>2. CASE GuardThrows
  <2>1. fsm = "ready" /\ fsm' = "busy" /\ clip' \in {"user", "cleared", "result"}
    BY <1>2 DEF GuardThrows, Accepts, Sources, Target
  <2>2. misses = 0
    BY <2>1 DEF Control
  <2> QED
    BY <1>2, <2>1, <2>2 DEF GuardThrows, Finish, TypeOK, Control, Waiting, States, engine
<1>3. CASE \E type \in TextTypes : GuardSends(type)
  <2>1. PICK type \in TextTypes : GuardSends(type)
    BY <1>3
  <2>2. /\ call' \in Requests /\ call' # NoCall /\ call'.type = type
        /\ call'.id = ctl.id /\ call'.version = ctl.version
        /\ reply' = NoReply /\ loaded' = {} /\ pc' = "transform" /\ ctl.id \in Ids
    BY <2>1, SendTyped DEF GuardSends, Types, TextTypes, TypeOK
  <2>3. fsm = "ready" /\ fsm' = "busy"
    BY <2>1 DEF GuardSends, Accepts, Sources, Target
  <2>4. misses = 0 /\ type # "STATS_QUERY"
    BY <2>3 DEF Control, TextTypes
  <2> QED
    BY <2>1, <2>2, <2>3, <2>4 DEF GuardSends, TypeOK, Control, Waiting, States, engine
<1>4. CASE TransformThrows
  BY <1>4 DEF TransformThrows, Answered, Finish, TypeOK, Control, Waiting, engine
<1>5. CASE TransformRejected
  <2>1. reply \in Replies /\ fsm \in States /\ fsm = "busy" /\ misses = 0
    BY <1>5 DEF TransformRejected, Answered, TypeOK, Control
  <2>2. fsm' \in States /\ ctl' \in [id : Ids, version : Times]
    BY <1>5, <2>1, EventEffect, VersionType DEF TransformRejected
  <2> QED
    BY <1>5, <2>1, <2>2 DEF TransformRejected, Finish, TypeOK, Control, Waiting, engine
<1>6. CASE TransformWritten
  <2>1. /\ call' \in Requests /\ call' # NoCall
        /\ call'.id = ctl.id /\ call'.version = ctl.version
        /\ reply' = NoReply /\ loaded' = {} /\ pc' = "beat" /\ ctl.id \in Ids
    BY <1>6, SendTyped DEF TransformWritten, Types, TypeOK
  <2>2. fsm = "busy" /\ misses = 0 /\ held' # NoReply /\ held' \in Replies
    BY <1>6, WrapperAssumption DEF TransformWritten, Answered, Control, TypeOK
  <2> QED
    BY <1>6, <2>1, <2>2 DEF TransformWritten, TypeOK, Control, Waiting, engine
<1>7. CASE TransformUnwritten
  BY <1>7 DEF TransformUnwritten, Answered, Finish, TypeOK, Control, Waiting, engine
<1>8. CASE GuardJudged
  <2> DEFINE e == EventOf(held, ctl.id, 0)
  <2>1. held \in Replies /\ fsm \in States
    BY <1>8 DEF GuardJudged, Answered, TypeOK
  <2>2. fsm' \in States /\ ctl' \in [id : Ids, version : Times]
    BY <1>8, <2>1, EventEffect, VersionType DEF GuardJudged
  <2>3. ws' \in [Ids -> Workspaces]
    BY <1>8, <2>1, ShownType DEF GuardJudged, TypeOK
  <2>4. overran' \in BOOLEAN
    BY <1>8, Zenon DEF GuardJudged
  <2>5. misses' = 0 /\ misses' \in 0..MaxMisses
    BY <1>8, WrapperAssumption DEF GuardJudged
  <2>6. label' \in {"none", "READY", "HARD_FAIL"}
    BY <1>8 DEF GuardJudged, Finish
  <2> QED
    BY <1>8, <2>2, <2>3, <2>4, <2>5, <2>6 DEF GuardJudged, Finish, TypeOK, Control, Waiting
<1>9. CASE HeartbeatMissed
  <2>1. fsm = "busy" /\ misses = 0
    BY <1>9 DEF HeartbeatMissed, Answered, Control
  <2>2. misses' = 1 /\ misses' \in 0..MaxMisses /\ fsm' = "busy"
    BY <1>9, <2>1, WrapperAssumption DEF HeartbeatMissed
  <2> QED
    BY <1>9, <2>2 DEF HeartbeatMissed, Finish, TypeOK, Control, Waiting, States, engine
<1> QED
  BY <1>1, <1>2, <1>3, <1>4, <1>5, <1>6, <1>7, <1>8, <1>9

LEMMA ControlWakeStep ==
  ASSUME TypeOK, Control, Wake \/ WakeHeartbeat \/ WakeInterrupts \/ WakeIll \/ WakeHealthy
  PROVE  TypeOK' /\ Control'
<1>0. ctl.id \in Ids /\ {"HEARTBEAT", "STATS_QUERY"} \subseteq Types
  BY DEF TypeOK, Types
<1>1. CASE Wake
  <2>1. /\ call' \in Requests /\ call' # NoCall
        /\ call'.id = ctl.id /\ call'.version = ctl.version
        /\ reply' = NoReply /\ loaded' = {} /\ pc' = "wakeBeat"
    BY <1>0, <1>1, SendTyped DEF Wake
  <2> QED
    BY <1>0, <1>1, <2>1 DEF Wake, TypeOK, Control, Waiting, engine
<1>2. CASE WakeHeartbeat
  <2>1. /\ call' \in Requests /\ call' # NoCall
        /\ call'.id = ctl.id /\ call'.version = ctl.version
        /\ reply' = NoReply /\ loaded' = {} /\ pc' \in {"wakeStats", "wakeStatsIll"}
    BY <1>0, <1>2, SendTyped DEF WakeHeartbeat
  <2> QED
    BY <1>0, <1>2, <2>1 DEF WakeHeartbeat, Answered, TypeOK, Control, Waiting, engine
<1>3. CASE WakeInterrupts
  <2>1. fsm' = "hardFail"
    BY <1>3 DEF WakeInterrupts, After, Accepts, Sources, Target
  <2> QED
    BY <1>3, <2>1 DEF WakeInterrupts, Answered, Finish, TypeOK, Control, Waiting, States, engine
<1>4. CASE WakeIll
  <2>1. fsm' = "hardFail"
    BY <1>4 DEF WakeIll, After, Accepts, Sources, Target, TypeOK
  <2> QED
    BY <1>4, <2>1 DEF WakeIll, Answered, Finish, TypeOK, Control, Waiting, States, engine
<1>5. CASE WakeHealthy
  <2>1. fsm' \in States /\ misses' = 0 /\ misses' \in 0..MaxMisses
    BY <1>5, WrapperAssumption DEF WakeHealthy, After, Accepts, Sources, Target, TypeOK, States
  <2> QED
    BY <1>5, <2>1 DEF WakeHealthy, Answered, Finish, TypeOK, Control, Waiting, engine
<1> QED
  BY <1>1, <1>2, <1>3, <1>4, <1>5

-----------------------------------------------------------------------------
(* The vaults *)

LEMMA ShownGood ==
  ASSUME TypeOK, Good(ws, now), NEW r \in Replies
  PROVE  Good(Shown(r), now) /\ Evolves(ws, now, Shown(r))
<1> DEFINE x == Shown(r)
<1>1. x \in [Ids -> Workspaces]
  BY ShownType
<1>2. \A n \in Ids : x[n].version = ws[n].version /\ (x[n].unseen => ws[n].unseen)
  BY DEF Shown, Good, Workspaces
<1> HIDE DEF x
<1>3. Dated(x, now) /\ Unique(x) /\ Evolves(ws, now, x)
  BY <1>2 DEF Dated, Unique, Evolves, Good
<1> QED
  BY <1>1, <1>3 DEF Good, x

LEMMA OthersGood ==
  ASSUME TypeOK, Good(ws, now), Others
  PROVE  Good(ws', now') /\ now' >= now /\ Evolves(ws, now, ws')
<1>1. now' = now + 1 /\ now + 1 \in Times /\ now \in Int
  BY EngineAssumption DEF Others, Good, Times
<1>2. CASE \E n \in Names : ws' = Created(ws, now', n)
  BY <1>1, <1>2, CreatedGood DEF Ids
<1>3. CASE \E n \in Ids : ws' = Saved(ws, now', n)
  BY <1>1, <1>3, SavedGood
<1>4. CASE \E n \in Ids : ws' = [ws EXCEPT ![n] = Absent]
  <2>1. PICK i \in Ids : ws' = [ws EXCEPT ![i] = Absent]
    BY <1>4
  <2>2. Absent \in Workspaces /\ Absent.version = 0
    <3>1. 0 \in Times
      BY EngineAssumption DEF Times
    <3> QED
      BY <3>1, Zenon DEF Absent, Workspaces
  <2>3. ws' \in [Ids -> Workspaces]
    BY <2>1, <2>2 DEF Good
  <2>4. ws'[i].version = 0 /\ \A n \in Ids \ {i} : ws'[n] = ws[n]
    BY <2>1, <2>2 DEF Good
  <2>5. \A n \in Ids : ws[n].version \in Int /\ ws[n].version <= now /\ 0 <= now
    BY EngineAssumption DEF Good, Dated, Workspaces, Times
  <2>6. Dated(ws', now') /\ Unique(ws') /\ Evolves(ws, now, ws')
    BY <1>1, <2>4, <2>5 DEF Dated, Unique, Evolves, Good
  <2> QED
    BY <1>1, <2>3, <2>6 DEF Good
<1> QED
  BY <1>2, <1>3, <1>4 DEF Others

LEMMA WorldStep ==
  ASSUME TypeOK, Control, Good(ws, now), [Next]_vars
  PROVE  Good(ws', now') /\ now' >= now /\ Evolves(ws, now, ws')
<1>1. now \in Int
  BY EngineAssumption DEF Good, Times
<1>2. CASE UNCHANGED <<ws, now>>
  BY <1>1, <1>2, Stays DEF Good, Dated, Unique
<1>3. CASE EngineAnswers
  <2>1. call \in Requests /\ loaded \in SUBSET Loads
    BY <1>3 DEF EngineAnswers, TypeOK
  <2>2. PICK o \in Outcomes(ws, now, call, loaded) : ws' = o.ws /\ now' = o.now
    BY <1>3 DEF EngineAnswers
  <2> QED
    BY <2>1, <2>2, OutcomeFine DEF Fine
<1>4. CASE OrphanRuns
  <2>1. orphan.call \in Requests /\ orphan.loaded \in SUBSET Loads
    BY <1>4 DEF OrphanRuns, TypeOK, Orphans
  <2>2. PICK o \in Outcomes(ws, now, orphan.call, orphan.loaded) : ws' = o.ws /\ now' = o.now
    BY <1>4 DEF OrphanRuns
  <2> QED
    BY <2>1, <2>2, OutcomeFine DEF Fine
<1>5. CASE Others
  BY <1>5, OthersGood
<1>8. CASE EngineLoads
  <2>1. call \in Requests
    BY <1>8, WrapperAssumption DEF EngineLoads, TypeOK, Waiting
  <2>2. PICK o \in Loading(ws, now, call) : ws' = o.ws /\ now' = o.now
    BY <1>8 DEF EngineLoads
  <2> QED
    BY <2>1, <2>2, LoadingFine
<1>9. CASE OrphanLoads
  <2>1. orphan.call \in Requests
    BY <1>9 DEF OrphanLoads, TypeOK, Orphans
  <2>2. PICK o \in Loading(ws, now, orphan.call) : ws' = o.ws /\ now' = o.now
    BY <1>9 DEF OrphanLoads
  <2> QED
    BY <2>1, <2>2, LoadingFine
<1>6. CASE SwitchDone
  <2>1. reply \in Replies
    BY <1>6 DEF SwitchDone, Answered, TypeOK
  <2> QED
    BY <1>1, <1>6, <2>1, ShownGood DEF SwitchDone
<1>7. CASE GuardJudged
  <2>1. held \in Replies
    BY <1>7 DEF GuardJudged, Answered, TypeOK
  <2>2. now' = now /\ (ws' = Shown(held) \/ ws' = ws)
    BY <1>7 DEF GuardJudged
  <2> QED
    BY <1>1, <2>1, <2>2, ShownGood, Stays
<1> QED
  BY <1>2, <1>3, <1>4, <1>5, <1>6, <1>7, <1>8, <1>9
     DEF Next, vars, engine, Continue, Launch, HelloReturned, SwitchRefused, Switch, SwitchFailed,
         GuardRefused, GuardThrows, GuardSends, TransformThrows, TransformRejected,
         TransformWritten, TransformUnwritten, HeartbeatMissed, Wake, WakeHeartbeat,
         WakeInterrupts, WakeIll, WakeHealthy, RoundTripThrows, UserCopies, Relaunch

-----------------------------------------------------------------------------
LEMMA LivesOnType ==
  ASSUME TypeOK, NEW x \in MayLiveOn, pc \in Waiting
  PROVE  x \in Orphans \union {NoCall}
  BY DEF MayLiveOn, TypeOK, Orphans

LEMMA ControlOuterStep ==
  ASSUME TypeOK, Control, Good(ws, now), Good(ws', now'),
         \/ EngineLoads \/ EngineAnswers \/ RoundTripThrows \/ OrphanLoads \/ OrphanRuns
         \/ Others \/ UserCopies \/ Relaunch
  PROVE  TypeOK' /\ Control'
<1>1. CASE EngineAnswers
  <2>1. call \in Requests /\ loaded \in SUBSET Loads
    BY <1>1 DEF EngineAnswers, TypeOK
  <2>2. reply' \in Replies
    BY <1>1, <2>1, OutcomeFine DEF EngineAnswers, Fine
  <2> QED
    BY <1>1, <2>2 DEF EngineAnswers, TypeOK, Control, Waiting, Good
<1>2. CASE RoundTripThrows
  BY <1>2, LivesOnType, LostType DEF RoundTripThrows, TypeOK, Control, Waiting
<1>3. CASE OrphanRuns
  BY <1>3 DEF OrphanRuns, TypeOK, Control, Good
<1>4. CASE Others
  BY <1>4 DEF Others, TypeOK, Control, Good
<1>5. CASE UserCopies
  BY <1>5 DEF UserCopies, TypeOK, Control, engine
<1>6. CASE Relaunch
  <2>1. Default \in Ids /\ 0 \in Times /\ 0 \in 0..MaxMisses
    BY WrapperAssumption, EngineAssumption DEF Ids, Times
  <2>2. orphan' \in Orphans \union {NoCall}
    BY <1>6, LivesOnType DEF Relaunch, TypeOK
  <2> QED
    BY <1>6, <2>1, <2>2 DEF Relaunch, TypeOK, Control, Waiting, States
<1>7. CASE EngineLoads
  <2>1. call \in Requests
    BY <1>7, WrapperAssumption DEF EngineLoads, TypeOK, Waiting
  <2>2. loaded' \in SUBSET Loads
    BY <1>7, <2>1, LoadingFine DEF EngineLoads
  <2> QED
    BY <1>7, <2>2 DEF EngineLoads, TypeOK, Control, Waiting, Good
<1>8. CASE OrphanLoads
  <2>1. orphan \in Orphans /\ orphan.call \in Requests
    BY <1>8 DEF OrphanLoads, TypeOK, Orphans
  <2>2. PICK o \in Loading(ws, now, orphan.call) : orphan' = [orphan EXCEPT !.loaded = {o.load}]
    BY <1>8 DEF OrphanLoads
  <2>3. {o.load} \in SUBSET Loads
    BY <2>1, <2>2, LoadingFine
  <2>4. orphan' \in Orphans
    BY <2>1, <2>2, <2>3 DEF Orphans
  <2> QED
    BY <1>8, <2>4 DEF OrphanLoads, TypeOK, Control, Good
<1> QED
  BY <1>1, <1>2, <1>3, <1>4, <1>5, <1>6, <1>7, <1>8

LEMMA ControlStep ==
  ASSUME TypeOK, Control, Good(ws, now), [Next]_vars
  PROVE  TypeOK' /\ Control'
<1>1. CASE UNCHANGED vars
  BY <1>1 DEF vars, TypeOK, Control
<1>2. ASSUME NEW id \in Names \union (1..now), SwitchRefused(id) \/ Switch(id)
      PROVE  \E i \in Ids : SwitchRefused(i) \/ Switch(i)
  BY <1>2, EngineAssumption DEF Ids, Good, Times
<1> QED
  BY <1>1, <1>2, WorldStep, ControlStartStep, ControlSwitchStep, ControlTextStep,
     ControlWakeStep, ControlOuterStep DEF Next, Continue

\* The inductive invariant of the types and the control flow.
Session == TypeOK /\ Control /\ Good(ws, now)

LEMMA SessionInit == Init => Session
<1> SUFFICES ASSUME Init PROVE Good(ws, now)
  BY ControlInit DEF Session
<1>1. TypeOK
  BY ControlInit
<1>2. \A n \in Ids : ws[n].version = 0 /\ now = 0
  BY DEF Init, Absent
<1> QED
  BY <1>1, <1>2 DEF Good, Dated, Unique, TypeOK

LEMMA SessionStep == Session /\ [Next]_vars => Session'
  BY ControlStep, WorldStep DEF Session

\* The invariant the other theorems start from.
THEOREM SessionAlways == Spec => []Session
  BY SessionInit, SessionStep, PTL DEF Spec

\* Every variable keeps its type.
THEOREM TypeCorrect == Spec => []TypeOK
<1>1. Session => TypeOK
  BY DEF Session
<1> QED
  BY <1>1, SessionAlways, PTL

\* The miss counter never reaches the limit.
THEOREM MissesEnd == Spec => []MissesEndSession
<1>1. Session => MissesEndSession
  BY WrapperAssumption DEF Session, TypeOK, Control, MissesEndSession
<1> QED
  BY <1>1, SessionAlways, PTL

\* An operation given up and a hard failure are final.
THEOREM RecoveryNeverSilent == Spec => NoSilentRecovery
<1>1. Session /\ [Next]_vars => [fsm = "hardFail" \/ GivenUp => fsm' # "ready"]_vars
  <2> SUFFICES ASSUME Session, Next, fsm = "hardFail" \/ GivenUp
               PROVE  fsm' # "ready"
    OBVIOUS
  <2>0. fsm \in States
    BY DEF Session, TypeOK
  <2>1. CASE fsm' = fsm
    BY <2>1 DEF GivenUp
  <2>2. CASE Launch \/ HelloReturned
    BY <2>2 DEF GivenUp, Session, Control, Launch, HelloReturned, Answered
  <2>3. CASE SwitchDone \/ SwitchFailed \/ TransformRejected
    BY <2>0, <2>3, EventEffect
       DEF GivenUp, Session, Control, SwitchDone, SwitchFailed, TransformRejected, Answered
  <2>4. CASE GuardJudged
    BY <2>0, <2>4, EventEffect DEF GivenUp, Session, Control, GuardJudged, Answered
  <2>5. CASE HeartbeatMissed \/ WakeInterrupts \/ WakeIll \/ WakeHealthy
    BY <2>5
       DEF GivenUp, HeartbeatMissed, WakeInterrupts, WakeIll, WakeHealthy, After, Accepts, Sources,
           Target
  <2>6. CASE GuardThrows \/ (\E type \in TextTypes : GuardSends(type))
             \/ (\E id \in Names \union (1..now) : Switch(id)) \/ Relaunch
    BY <2>6 DEF GuardThrows, GuardSends, Switch, Relaunch, Target
  <2> QED
    BY <2>1, <2>2, <2>3, <2>4, <2>5, <2>6
       DEF Next, Continue, engine, SwitchRefused, GuardRefused, TransformThrows, TransformWritten,
           TransformUnwritten, Wake, WakeHeartbeat, EngineLoads, OrphanLoads, EngineAnswers, RoundTripThrows, OrphanRuns,
           Others, UserCopies
<1> QED
  BY <1>1, SessionAlways, PTL DEF Spec, NoSilentRecovery

\* READY on the status item means that the state machine takes the next action.
THEOREM ReadyIsTaken == Spec => ReadyTaken
<1>1. Session /\ [Next]_vars =>
        [pc' = "idle" /\ label' = "READY" /\ pc \notin {"idle", "wakeStats"} => fsm' = "ready"]_vars
  <2> SUFFICES ASSUME Session, Next, pc' = "idle", label' = "READY", pc \notin {"idle", "wakeStats"}
               PROVE  fsm' = "ready"
    OBVIOUS
  <2>0. fsm \in States
    BY DEF Session, TypeOK
  <2>1. CASE SwitchDone \/ TransformRejected
    BY <2>0, <2>1, EventEffect DEF SwitchDone, TransformRejected, Finish
  <2>2. CASE GuardJudged
    BY <2>0, <2>2, EventEffect DEF GuardJudged, Finish
  <2> QED
    BY <2>1, <2>2
       DEF Next, Continue, Finish, Send, Launch, HelloReturned, SwitchRefused, Switch, SwitchFailed,
           GuardRefused, GuardThrows, GuardSends, TransformThrows, TransformWritten,
           TransformUnwritten, HeartbeatMissed, Wake, WakeHeartbeat, WakeInterrupts, WakeIll,
           WakeHealthy, Answered, EngineLoads, OrphanLoads, EngineAnswers, RoundTripThrows, OrphanRuns, Others, UserCopies,
           Relaunch
<1> QED
  BY <1>1, SessionAlways, PTL DEF Spec, ReadyTaken

-----------------------------------------------------------------------------
(* What the wrapper knows: the version its controller holds is that of a   *)
(* vault it was shown, and so is every version it may take over.           *)

Judged == {"hello", "switch", "transform"}

Knowledge ==
  /\ ctl.version <= now /\ Seen(ws, ctl.version)
  /\ pc \in Judged /\ reply # NoReply => Known(ws, now, reply)
  /\ pc = "hello" => call.type = "HELLO"
  /\ pc = "hello" /\ reply # NoReply /\ reply.status = "SUCCESS" => reply.version = ctl.version
  /\ pc = "transform" => Apt(call, loaded)
  /\ held # NoReply => Known(ws, now, held)
  /\ ~overran

LEMMA LostKnown ==
  ASSUME NEW w, NEW t, Good(w, t)
  PROVE  Known(w, t, Lost) /\ Lost.status = "LOST"
<1>1. Lost.version = 0 /\ ~Lost.blind /\ Lost.status = "LOST"
  BY Zenon DEF Lost, Reply
<1> QED
  BY <1>1, EngineAssumption DEF Known, Good, Times

\* A successful HELLO brings back the version it was sent with.
LEMMA HelloOutcome ==
  ASSUME NEW w, NEW t, NEW q \in Requests, q.type = "HELLO",
         NEW ls, NEW o \in Outcomes(w, t, q, ls), o.reply.status = "SUCCESS"
  PROVE  o.reply.version = q.version
<1>1. o \in Refused(w, t, q) \/ o \in Accepted(w, t, q)
  <2>1. \/ o \in Refused(w, t, q)
        \/ o \in CASE q.type \in {"HELLO", "HEARTBEAT"} -> Accepted(w, t, q)
                  [] q.type = "STATS_QUERY" -> Stats(w, t, q)
                  [] q.type = "WORKSPACE_SWITCH" -> SwitchTo(w, t, q)
                  [] OTHER -> IF ls = {} THEN Mismatch(w, t, q)
                              ELSE UNION {Transform(w, t, q, l) : l \in ls}
    BY Zenon DEF Outcomes
  <2> QED
    BY <2>1
<1>2. ASSUME o \in Refused(w, t, q)
      PROVE  FALSE
  <2>1. o.reply = Reply("INVALID", 0)
    BY <1>2 DEF Refused, Failed, Outcome
  <2> QED
    BY <2>1 DEF Reply
<1>3. CASE o \in Accepted(w, t, q)
  BY <1>3 DEF Accepted, Outcome, Reply
<1> QED
  BY <1>1, <1>2, <1>3

\* Once a reply is shown, its version is known.
LEMMA ShownSeen ==
  ASSUME TypeOK, NEW r \in Replies, Known(ws, now, r)
  PROVE  Seen(Shown(r), r.version)
<1>1. ASSUME NEW n \in Ids, Shown(r)[n].version = r.version, r.version # 0
      PROVE  ~Shown(r)[n].unseen
  <2>1. ws[n].version = r.version
    BY <1>1 DEF Shown, TypeOK, Workspaces
  <2>2. CASE n \in r.at
    <3>1. Shown(r)[n] = [ws[n] EXCEPT !.unseen = FALSE]
      BY <2>1, <2>2 DEF Shown
    <3>2. [ws[n] EXCEPT !.unseen = FALSE].unseen = FALSE
      BY DEF TypeOK, Workspaces
    <3> QED
      BY <3>1, <3>2
  <2>3. CASE n \notin r.at
    BY <1>1, <2>1, <2>3 DEF Shown, Known
  <2> QED
    BY <2>2, <2>3
<1> QED
  BY <1>1 DEF Seen

LEMMA CtlKnown ==
  ASSUME Session, Knowledge, [Next]_vars, Good(ws', now'), now' >= now, Evolves(ws, now, ws')
  PROVE  ctl'.version <= now' /\ Seen(ws', ctl'.version)
<1>0. now \in Int /\ now' \in Int /\ ctl.version \in Times /\ ctl.version \in Int
      /\ fsm \in States /\ TypeOK /\ Control
  BY EngineAssumption DEF Session, TypeOK, Good, Times
<1>1. CASE ctl'.version = ctl.version
  BY <1>0, <1>1, SeenStays DEF Session, Knowledge, Good
<1>2. CASE HelloReturned
  <2>1. CASE reply = Lost
    BY <1>1, <1>2, <2>1 DEF HelloReturned
  <2>2. CASE reply # Lost
    <3> DEFINE e == EventOf(reply, call.id, misses)
    <3>1. e = "operationSucceeded" => reply.status = "SUCCESS"
      BY DEF EventOf
    <3>2. ctl'.version = VersionAfter(reply, e)
      BY <1>0, <1>2, <2>2 DEF HelloReturned, TypeOK
    <3> HIDE DEF e
    <3>3. ctl'.version = ctl.version
      BY <1>2, <3>1, <3>2 DEF VersionAfter, HelloReturned, Answered, Knowledge
    <3> QED
      BY <1>1, <3>3
  <2> QED
    BY <2>1, <2>2
<1>3. CASE SwitchDone
  <2>1. reply \in Replies /\ Known(ws, now, reply)
    BY <1>0, <1>3 DEF SwitchDone, Answered, TypeOK, Knowledge, Judged
  <2>2. ws' = Shown(reply) /\ ctl'.version = reply.version /\ now' = now
    BY <1>3 DEF SwitchDone
  <2> QED
    BY <1>0, <2>1, <2>2, ShownSeen DEF Known
<1>4. CASE SwitchFailed \/ TransformRejected
  <2> DEFINE e == EventOf(reply, call.id, misses)
  <2>1. fsm = "busy"
    BY <1>0, <1>4 DEF SwitchFailed, TransformRejected, Answered, Control
  <2>2. e = "operationSucceeded" => Returns(e) /\ reply.status = "SUCCESS"
    BY <1>0, <2>1, EventEffect DEF EventOf
  <2>3. \/ ctl'.version = ctl.version
        \/ e # "operationSucceeded" /\ ctl'.version = VersionAfter(reply, e)
    BY <1>0, <1>4, <2>2 DEF SwitchFailed, TransformRejected, TypeOK
  <2> HIDE DEF e
  <2> QED
    BY <1>1, <2>3 DEF VersionAfter
<1>5. CASE GuardJudged
  <2> DEFINE e == EventOf(held, ctl.id, 0)
  <2>1. held \in Replies /\ Known(ws, now, held)
    BY <1>0, <1>5 DEF GuardJudged, Answered, TypeOK, Knowledge
  <2>2. fsm = "busy"
    BY <1>0, <1>5 DEF GuardJudged, Answered, Control
  <2>3. e = "operationSucceeded" => Returns(e)
    BY <1>0, <2>2, EventEffect
  <2>4. ctl'.version = VersionAfter(held, e) /\ now' = now /\ (Returns(e) => ws' = Shown(held))
    BY <1>0, <1>5 DEF GuardJudged, TypeOK
  <2> HIDE DEF e
  <2>5. CASE e = "operationSucceeded"
    BY <1>0, <2>1, <2>3, <2>4, <2>5, ShownSeen DEF VersionAfter, Known
  <2>6. CASE e # "operationSucceeded"
    BY <1>1, <2>4, <2>6 DEF VersionAfter
  <2> QED
    BY <2>5, <2>6
<1>6. CASE Relaunch
  BY <1>6, EngineAssumption DEF Relaunch, Seen, Good, Times
<1> QED
  BY <1>1, <1>2, <1>3, <1>4, <1>5, <1>6
     DEF Next, Continue, vars, engine, Launch, SwitchRefused, Switch, GuardRefused, GuardThrows,
         GuardSends, TransformThrows, TransformWritten, TransformUnwritten, HeartbeatMissed, Wake,
         WakeHeartbeat, WakeInterrupts, WakeIll, WakeHealthy, EngineLoads, OrphanLoads, EngineAnswers, RoundTripThrows,
         OrphanRuns, Others, UserCopies

LEMMA ReplyKnown ==
  ASSUME Session, Knowledge, Next, Good(ws', now'), now' >= now, Evolves(ws, now, ws')
  PROVE  /\ pc' \in Judged /\ reply' # NoReply => Known(ws', now', reply')
         /\ pc' = "hello" => call'.type = "HELLO"
         /\ pc' = "hello" /\ reply' # NoReply /\ reply'.status = "SUCCESS" =>
              reply'.version = ctl'.version
<1>0. TypeOK /\ Control /\ Good(ws, now) /\ ws' \in [Ids -> Workspaces] /\ now' \in Times
  BY DEF Session, Good
<1>1. CASE EngineAnswers
  <2>1. PICK o \in Outcomes(ws, now, call, loaded) : ws' = o.ws /\ now' = o.now /\ reply' = o.reply
    BY <1>1 DEF EngineAnswers
  <2>2. call \in Requests /\ call.version = ctl.version /\ pc' = pc /\ call' = call /\ ctl' = ctl
    BY <1>0, <1>1 DEF EngineAnswers, TypeOK, Control
  <2>3. pc \in Judged => Meets(ws, now, call)
    BY <1>0, <2>2 DEF Meets, Judged, Control, Knowledge
  <2>6. loaded \in SUBSET Loads /\ (pc \in Judged => Apt(call, loaded))
    BY <1>0 DEF TypeOK, Apt, Knowledge
  <2>4. pc \in Judged => Known(ws', now', reply')
    BY <1>0, <2>1, <2>2, <2>3, <2>6, OutcomeFine DEF Fine
  <2>5. pc = "hello" /\ reply'.status = "SUCCESS" => reply'.version = call.version
    BY <2>1, <2>2, HelloOutcome DEF Knowledge
  <2> QED
    BY <2>2, <2>4, <2>5 DEF Knowledge
<1>2. CASE RoundTripThrows
  BY <1>0, <1>2, LostKnown DEF RoundTripThrows, Knowledge
<1>3. CASE EngineLoads \/ OrphanLoads \/ OrphanRuns \/ Others \/ UserCopies
  <2>1. UNCHANGED <<pc, reply, call, ctl>>
    BY <1>3 DEF EngineLoads, OrphanLoads, OrphanRuns, Others, UserCopies
  <2>2. reply # NoReply => reply \in Replies
    BY <1>0 DEF TypeOK
  <2> QED
    BY <1>0, <2>1, <2>2, KnownStays DEF Knowledge
<1>4. CASE pc' \notin Judged
  BY <1>4 DEF Judged
<1>5. CASE reply' = NoReply /\ (pc' = "hello" => call'.type = "HELLO")
  BY <1>5
<1> QED
  BY <1>1, <1>2, <1>3, <1>4, <1>5
     DEF Next, Continue, Finish, Send, Judged, Launch, HelloReturned, SwitchRefused, Switch,
         SwitchDone, SwitchFailed, GuardRefused, GuardThrows, GuardSends, TransformThrows,
         TransformRejected, TransformWritten, TransformUnwritten, GuardJudged, HeartbeatMissed,
         Wake, WakeHeartbeat, WakeInterrupts, WakeIll, WakeHealthy, Relaunch

\* The version is compared with the vault that the operation goes on with.
LEMMA LoadApt ==
  ASSUME Session, Knowledge, Next
  PROVE  pc' = "transform" => Apt(call', loaded')
<1>0. TypeOK /\ Control /\ Good(ws, now)
  BY DEF Session
<1>1. CASE loaded' = {}
  BY <1>1 DEF Apt
<1>2. CASE UNCHANGED <<pc, call, loaded>>
  BY <1>2 DEF Knowledge
<1>3. CASE EngineLoads
  <2>1. PICK o \in Loading(ws, now, call) : loaded' = {o.load}
    BY <1>3 DEF EngineLoads
  <2>2. call \in Requests /\ call.version = ctl.version /\ call' = call
        /\ call.type # "STATS_QUERY"
    BY <1>0, <1>3, WrapperAssumption DEF EngineLoads, TypeOK, Control, Waiting
  <2>3. Meets(ws, now, call)
    BY <2>2 DEF Meets, Knowledge
  <2> QED
    BY <1>0, <2>1, <2>2, <2>3, LoadingFine
<1> QED
  BY <1>1, <1>2, <1>3
     DEF Next, Continue, Finish, Send, engine, Launch, HelloReturned, SwitchRefused, Switch,
         SwitchDone, SwitchFailed, GuardRefused, GuardThrows, GuardSends, TransformThrows,
         TransformRejected, TransformWritten, TransformUnwritten, GuardJudged, HeartbeatMissed,
         Wake, WakeHeartbeat, WakeInterrupts, WakeIll, WakeHealthy, EngineAnswers,
         RoundTripThrows, OrphanLoads, OrphanRuns, Others, UserCopies, Relaunch

LEMMA HeldKnown ==
  ASSUME Session, Knowledge, Next, Good(ws', now'), now' >= now, Evolves(ws, now, ws')
  PROVE  held' # NoReply => Known(ws', now', held')
<1>0. TypeOK /\ Good(ws, now) /\ ws' \in [Ids -> Workspaces] /\ now' \in Times
  BY DEF Session, Good
<1>1. CASE held' = held
  <2>1. held # NoReply => held \in Replies
    BY <1>0 DEF TypeOK
  <2> QED
    BY <1>0, <1>1, <2>1, KnownStays DEF Knowledge
<1>2. CASE TransformWritten
  <2>1. held' = reply /\ reply \in Replies /\ Known(ws, now, reply)
    BY <1>0, <1>2 DEF TransformWritten, Answered, TypeOK, Knowledge, Judged
  <2> QED
    BY <1>0, <2>1, KnownStays
<1>3. CASE held' = NoReply
  BY <1>3
<1> QED
  BY <1>1, <1>2, <1>3
     DEF Next, Continue, Finish, Launch, HelloReturned, SwitchRefused, Switch, SwitchDone,
         SwitchFailed, GuardRefused, GuardThrows, GuardSends, TransformThrows, TransformRejected,
         TransformUnwritten, GuardJudged, HeartbeatMissed, Wake, WakeHeartbeat, WakeInterrupts,
         WakeIll, WakeHealthy, EngineLoads, OrphanLoads, EngineAnswers, RoundTripThrows, OrphanRuns, Others, UserCopies,
         Relaunch

LEMMA NeverOverran ==
  ASSUME Session, Knowledge, Next
  PROVE  ~overran'
<1>1. CASE overran' = overran
  BY <1>1 DEF Knowledge
<1>2. CASE GuardJudged
  <2>1. ~held.blind
    BY <1>2 DEF GuardJudged, Answered, Session, TypeOK, Knowledge, Known
  <2> QED
    BY <1>2, <2>1, Zenon DEF GuardJudged, Knowledge
<1> QED
  BY <1>1, <1>2
     DEF Next, Continue, engine, Launch, HelloReturned, SwitchRefused, Switch, SwitchDone,
         SwitchFailed, GuardRefused, GuardThrows, GuardSends, TransformThrows, TransformRejected,
         TransformWritten, TransformUnwritten, HeartbeatMissed, Wake, WakeHeartbeat,
         WakeInterrupts, WakeIll, WakeHealthy, EngineLoads, OrphanLoads, EngineAnswers, RoundTripThrows, OrphanRuns, Others,
         UserCopies, Relaunch

LEMMA KnowledgeInit == Init => Knowledge
<1>1. Init => ~overran
  BY Zenon DEF Init
<1> QED
  BY <1>1 DEF Init, Knowledge, Judged, Seen, Apt

LEMMA KnowledgeStep == Session /\ Knowledge /\ [Next]_vars => Knowledge'
<1> SUFFICES ASSUME Session, Knowledge, [Next]_vars PROVE Knowledge'
  OBVIOUS
<1>1. Good(ws', now') /\ now' >= now /\ Evolves(ws, now, ws')
  BY WorldStep DEF Session
<1>2. CASE UNCHANGED vars
  BY <1>2 DEF vars, Knowledge, Known, Seen, Apt
<1>3. CASE Next
  BY <1>1, <1>3, CtlKnown, ReplyKnown, LoadApt, HeldKnown, NeverOverran DEF Knowledge
<1> QED
  BY <1>2, <1>3

\* No text operation shown as done ran over a save the wrapper had not seen,
\* if it knew the vault's version.
THEOREM NeverBlind == Spec => []NoBlindOperation
<1>1. Spec => []Knowledge
  BY SessionInit, SessionStep, KnowledgeInit, KnowledgeStep, SessionAlways, PTL DEF Spec
<1>2. Knowledge => NoBlindOperation
  BY Zenon DEF Knowledge, NoBlindOperation
<1> QED
  BY <1>1, <1>2, PTL

=============================================================================
