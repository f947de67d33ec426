--------------------------- MODULE JukeBoxProofs ---------------------------
(***************************************************************************)
(* Proofs about JukeBox, for any tracks, sessions, profiles, threads and   *)
(* timeout: the requests and the scheduler use the data store as           *)
(* RAMDataStore says, a request never finds its user gone, only admins     *)
(* curate the queues, and no accepted track is lost.                       *)
(***************************************************************************)
EXTENDS JukeBox, RAMDataStoreProofs

CallType ==
    [req : Requests \cup {NoRequest}, at : Stages, from : QueueType \cup {"none"},
     track : BaseTrack \cup {NoTrack}, time : Nat,
     status : {0, 200, 400, 401, 403, 404, 422, 440, 500, 502}]

\* What the stage of a call says of its other locals.
Shape(c) ==
    /\ c.at # "none" => c.req \in Requests
    /\ c.at \in {"hasTrackAdmin", "hasTrackNormal"} => c.req.op = "removeTrack"
    /\ c.at = "hasTrack" => c.req.op = "moveTrack" /\ c.from \in QueueType
    /\ c.at = "removeTrack" => c.req.op \in {"removeTrack", "moveTrack"} /\ c.from \in QueueType
    /\ c.at = "removeVotesForTrack" => c.req.op \in {"removeTrack", "moveTrack"}
    /\ c.at = "addTrack" => c.req.op \in {"addTrackToQueue", "moveTrack"}
    /\ c.at \in {"removeVotesForTrack", "addTrack"} =>
           c.track \in BaseTrack /\ (c.req.op = "moveTrack" => c.track.trackId = c.req.track)
    /\ c.at \in {"voteTrack", "controlPlayer"} => c.req.op = c.at

\* A session that passed isSessionExpired has a user.
Registered(c) == c.at \notin {"none", "addUser"} => HasUser(c.req.sid)

\* An expiration date is computed before the user is added.
Timely(c) == c.at = "addUser" => c.time <= now

\* A request that is past its check of isAdmin may do what it does.
Authorized(c) ==
    c.at \notin {"none", "addUser", "hasUser", "getUser", "voteTrack"} =>
        (NeedsAdmin(c.req) => mUsers[c.req.sid].isAdmin)

\* The locals a thread may have in the present state of the data store.
CallOK == { c \in CallType : Shape(c) /\ Registered(c) /\ Timely(c) /\ Authorized(c) }

\* The inductive invariant.
JBInv == IInv /\ call \in [RequestThreads -> CallOK]

-----------------------------------------------------------------------------
(* What clients send and what they are answered.                           *)

\* A request that reaches the jukebox has the fields its endpoint insists on.
LEMMA RequestsDecoded ==
    ASSUME NEW r \in Requests
    PROVE  /\ r.op \in Paths
           /\ r.to \in QueueType
           /\ r.vote \in BOOLEAN
           /\ r.op \in {"addTrackToQueue", "voteTrack", "removeTrack", "moveTrack"} =>
                  r.track \in TrackIds
<1>1. PICK raw \in RawRequests : r = Decode(raw) /\ Refusal(raw) = "none"
  BY DEF Requests
<1>2. PICK path \in Paths, method \in Methods : raw \in Raw(path, method)
  BY DEF RawRequests
<1>3. /\ raw.path = path
      /\ \A f \in FieldsOf(path) : raw.field[f] \in Values(f) \cup {Absent, WrongType}
  BY <1>2 DEF Raw
<1>4. Dispatched(raw) /\ ~Malformed(raw)
  BY <1>1 DEF Refusal
<1>5. r.op = path /\ r.to \in QueueType /\ r.vote \in BOOLEAN
  BY <1>1, <1>3 DEF Decode, QueueType
<1>6. ASSUME path \in {"addTrackToQueue", "voteTrack", "removeTrack", "moveTrack"}
      PROVE  r.track \in TrackIds
  <2>1. "track_id" \in Endpoint[path].required
    BY <1>6 DEF Endpoint
  <2>2. "track_id" \in FieldsOf(path)
    BY <2>1 DEF FieldsOf
  <2>3. raw.field["track_id"] # Absent /\ raw.field["track_id"] # WrongType
    BY <1>3, <1>4, <2>1, <2>2 DEF Malformed
  <2>4. raw.field["track_id"] \in Values("track_id")
    BY <1>3, <2>2, <2>3
  <2>5. r.track = raw.field["track_id"]
    BY <1>1, <1>3, <2>2, <2>3 DEF Decode, Given
  <2> QED BY <2>4, <2>5 DEF Values
<1> QED BY <1>5, <1>6

LEMMA StatusRange ==
    ASSUME NEW result
    PROVE  StatusOf(result) \in {0, 200, 400, 401, 403, 404, 422, 440, 500, 502}
BY DEF StatusOf

\* An idle thread is in order, whatever the state.
LEMMA IdleOK ==
    ASSUME NEW status \in {0, 200, 400, 401, 403, 404, 422, 440, 500, 502}
    PROVE  [Idle EXCEPT !.status = status] \in CallOK
BY DEF Idle, CallOK, CallType, Stages, Shape, Registered, Timely, Authorized

LEMMA ReplyOK ==
    ASSUME NEW th, NEW results, ReplyOneOf(th, results)
    PROVE  \E c \in CallOK : c.at = "none" /\ Continue(th, c)
<1>1. PICK result \in results : Continue(th, [Idle EXCEPT !.status = StatusOf(result)])
  BY DEF ReplyOneOf
<1>2. [Idle EXCEPT !.status = StatusOf(result)] \in CallOK
  BY StatusRange, IdleOK
<1>3. [Idle EXCEPT !.status = StatusOf(result)].at = "none"
  BY DEF Idle
<1> QED BY <1>1, <1>2, <1>3

-----------------------------------------------------------------------------
(* Every step of a request leaves its thread in order: one lemma per call. *)

\* The step of thread th changes the locals of no other thread.
Moves(th) == \E c \in CallOK : Continue(th, c)

\* A thread between two calls of a request.
LEMMA Underway ==
    ASSUME JBInv, NEW th \in RequestThreads, call[th].at # "none"
    PROVE  /\ call[th] \in CallType
           /\ call[th].req \in Requests
           /\ Shape(call[th])
           /\ Registered(call[th])
           /\ Timely(call[th])
           /\ Authorized(call[th])
BY DEF JBInv, CallOK, Shape

LEMMA LocalsTyped ==
    ASSUME NEW k \in CallType, NEW at \in Stages, NEW from \in QueueType \cup {"none"},
           NEW track \in BaseTrack \cup {NoTrack}
    PROVE  /\ [k EXCEPT !.at = at, !.from = from, !.track = track] \in CallType
           /\ [k EXCEPT !.at = at, !.from = from] \in CallType
           /\ [k EXCEPT !.at = at, !.track = track] \in CallType
           /\ [k EXCEPT !.at = at] \in CallType
<1> DEFINE Req == Requests \cup {NoRequest}
           From == QueueType \cup {"none"}
           Track == BaseTrack \cup {NoTrack}
           Status == {0, 200, 400, 401, 403, 404, 422, 440, 500, 502}
<1>1. CallType = [req : Req, at : Stages, from : From, track : Track, time : Nat, status : Status]
  BY DEF CallType
<1>2. from \in From /\ track \in Track
  OBVIOUS
<1> HIDE DEF Req, From, Track, Status
<1> QED BY <1>1, <1>2

\* The next call of the same request.
LEMMA GotoOK ==
    ASSUME NEW th, NEW c \in CallType, Continue(th, c),
           Shape(c), Registered(c), Timely(c), Authorized(c)
    PROVE  Moves(th)
BY DEF CallOK, Moves

\* The locals with which a request begins.
LEMMA BeginTyped ==
    ASSUME NEW r \in Requests, NEW at \in Stages, NEW time \in Nat
    PROVE  /\ Begin(r, at, time) \in CallType
           /\ Begin(r, at, time).req = r
           /\ Begin(r, at, time).at = at
           /\ Begin(r, at, time).time = time
<1> DEFINE Req == Requests \cup {NoRequest}
           From == QueueType \cup {"none"}
           Track == BaseTrack \cup {NoTrack}
           Status == {0, 200, 400, 401, 403, 404, 422, 440, 500, 502}
<1>1. CallType = [req : Req, at : Stages, from : From, track : Track, time : Nat, status : Status]
  BY DEF CallType
<1>2. r \in Req
  OBVIOUS
<1>3. Idle \in CallType
  BY DEF Idle, CallType, Stages
<1> HIDE DEF Req, From, Track, Status
<1> QED BY <1>1, <1>2, <1>3 DEF Begin

LEMMA FirstCallOK ==
    ASSUME JBInv, NEW th \in RequestThreads,
           GenerateSession(th) \/ IsSessionExpired(th)
    PROVE  Moves(th) /\ UNCHANGED dsVars
<1>0. now \in Nat
  BY DEF JBInv, IInv, DSTypeOK
<1>1. CASE \E results : ReplyOneOf(th, results)
  BY <1>1, ReplyOK DEF Moves, GenerateSession, IsSessionExpired
<1>2. ASSUME NEW c \in CallType, c.req \in Requests, Continue(th, c),
             \/ c.at = "addUser" /\ c.time = now
             \/ c.at = SecondCall(c.req.op) /\ HasUser(c.req.sid)
      PROVE  Moves(th)
  <2>1. c.at \in {"addUser", "voteTrack", "hasUser", "getUser"}
    BY <1>2 DEF SecondCall
  <2>2. c.at = "voteTrack" => c.req.op = "voteTrack"
    BY <1>2 DEF SecondCall
  <2>3. Shape(c)
    BY <1>2, <2>1, <2>2 DEF Shape
  <2>4. Registered(c)
    BY <1>2 DEF Registered
  <2>5. Timely(c)
    BY <1>0, <1>2 DEF Timely, SecondCall
  <2>6. Authorized(c)
    BY <2>1 DEF Authorized
  <2> QED BY <1>2, <2>3, <2>4, <2>5, <2>6 DEF CallOK, Moves
<1>3. CASE GenerateSession(th)
  <2>1. CASE Reply(th, "KeyNotFound") \/ Reply(th, "WrongPassword")
    BY <1>1, <1>3, <2>1 DEF GenerateSession, Reply
  <2>2. ASSUME NEW r \in Asked(th, {"generateSession"}),
               Continue(th, Begin(r, "addUser", now))
        PROVE  Moves(th)
    <3>1. r \in Requests /\ "addUser" \in Stages
      BY DEF Asked, Stages
    <3>2. /\ Begin(r, "addUser", now) \in CallType
          /\ Begin(r, "addUser", now).req = r
          /\ Begin(r, "addUser", now).at = "addUser"
          /\ Begin(r, "addUser", now).time = now
      BY <1>0, <3>1, BeginTyped
    <3> QED BY <1>2, <2>2, <3>1, <3>2
  <2> QED BY <1>3, <2>1, <2>2 DEF GenerateSession
<1>4. CASE IsSessionExpired(th)
  <2> DEFINE asked == Asked(th, Paths \ {"generateSession", "queryTracks"})
  <2>1. asked \subseteq Requests
    BY DEF Asked
  <2>2. ASSUME NEW r \in asked, SessionAlive(r.sid),
               Continue(th, Begin(r, SecondCall(r.op), 0))
        PROVE  Moves(th)
    <3>0. r \in Requests
      BY <2>1
    <3>1. SecondCall(r.op) \in Stages /\ 0 \in Nat
      BY DEF SecondCall, Stages
    <3> HIDE DEF asked
    <3>2. /\ Begin(r, SecondCall(r.op), 0) \in CallType
          /\ Begin(r, SecondCall(r.op), 0).req = r
          /\ Begin(r, SecondCall(r.op), 0).at = SecondCall(r.op)
      BY <3>0, <3>1, BeginTyped
    <3>3. HasUser(r.sid)
      BY <2>2 DEF SessionAlive
    <3> QED BY <1>2, <2>2, <3>0, <3>2, <3>3
  <2>3. ASSUME NEW x \in { r.sid : r \in asked },
               Reply(th, IF HasUser(x) THEN "SessionExpired" ELSE "DoesntExist")
        PROVE  Moves(th)
    BY <2>3, ReplyOK DEF Moves, Reply
  <2>4. \/ \E r \in asked :
              /\ SessionAlive(r.sid)
              /\ Continue(th, Begin(r, SecondCall(r.op), 0))
        \/ \E x \in { r.sid : r \in asked } :
              Reply(th, IF HasUser(x) THEN "SessionExpired" ELSE "DoesntExist")
    BY <1>4 DEF IsSessionExpired
  <2>5. UNCHANGED dsVars
    BY <1>4 DEF IsSessionExpired
  <2> QED BY <2>2, <2>3, <2>4, <2>5
<1> QED BY <1>3, <1>4

LEMMA HasUserCallOK ==
    ASSUME JBInv, NEW th \in RequestThreads, HasUserCall(th)
    PROVE  Moves(th)
<1>1. call[th].at = "hasUser"
  BY DEF HasUserCall, At
<1>2. CASE Goto(th, "getUser")
  <2> DEFINE c == [call[th] EXCEPT !.at = "getUser"]
  <2>1. call[th] \in CallType /\ call[th].req \in Requests /\ Registered(call[th])
    BY <1>1, Underway
  <2>2. c \in CallType
    BY <2>1, LocalsTyped DEF Stages
  <2>3. c.at = "getUser" /\ c.req = call[th].req
    BY <2>1 DEF CallType
  <2> HIDE DEF c
  <2>4. Shape(c) /\ Registered(c) /\ Timely(c) /\ Authorized(c)
    BY <1>1, <2>1, <2>3 DEF Shape, Registered, Timely, Authorized
  <2>5. Continue(th, c)
    BY <1>2 DEF Goto, c
  <2> QED BY <2>2, <2>4, <2>5, GotoOK
<1>3. CASE Reply(th, "DoesntExist")
  BY <1>3, ReplyOK DEF Reply, Moves
<1> QED BY <1>2, <1>3 DEF HasUserCall

LEMMA GetUserOK ==
    ASSUME JBInv, NEW th \in RequestThreads, GetUser(th)
    PROVE  Moves(th)
<1> DEFINE req == call[th].req
           user == mUsers[req.sid]
<1>1. call[th].at = "getUser"
  BY DEF GetUser, At
<1>2. call[th] \in CallType /\ req \in Requests /\ Registered(call[th])
  BY <1>1, Underway
<1>3. HasUser(req.sid)
  BY <1>1, <1>2 DEF Registered
<1>4. user \in User
  BY <1>3 DEF JBInv, IInv, DSTypeOK, HasUser
<1>5. CASE \E results : ReplyOneOf(th, results)
  BY <1>5, ReplyOK DEF Moves
<1>6. ASSUME ~(NeedsAdmin(req) /\ ~user.isAdmin), NEW c \in CallType, c.req = req,
             c.at \notin {"none", "addUser"}, Shape(c), Continue(th, c)
      PROVE  Moves(th)
  <2>1. Registered(c)
    BY <1>3, <1>6 DEF Registered
  <2>2. Authorized(c) /\ Timely(c)
    BY <1>6 DEF Authorized, Timely
  <2> QED BY <1>6, <2>1, <2>2, GotoOK
<1>7. ASSUME ~(NeedsAdmin(req) /\ ~user.isAdmin), Permitted(th, req, user)
      PROVE  Moves(th)
  <2>1. ASSUME NEW at \in {"getQueueNormal", "controlPlayer"}, Goto(th, at),
               at = "controlPlayer" => req.op = at
        PROVE  Moves(th)
    <3> DEFINE c == [call[th] EXCEPT !.at = at]
    <3>1. c \in CallType
      BY <1>2, LocalsTyped DEF Stages
    <3>2. c.at = at /\ c.req = req
      BY <1>2 DEF CallType
    <3>3. Continue(th, c)
      BY <2>1 DEF Goto
    <3> HIDE DEF c
    <3>4. Shape(c)
      BY <1>2, <2>1, <3>2 DEF Shape
    <3> QED BY <1>6, <1>7, <3>1, <3>2, <3>3, <3>4
  <2>2. CASE req.op = "removeTrack" /\ Goto(th, "hasTrackAdmin")
    <3> DEFINE c == [call[th] EXCEPT !.at = "hasTrackAdmin"]
    <3>1. c \in CallType
      BY <1>2, LocalsTyped DEF Stages
    <3>2. c.at = "hasTrackAdmin" /\ c.req = req
      BY <1>2 DEF CallType
    <3>3. Continue(th, c)
      BY <2>2 DEF Goto
    <3> HIDE DEF c
    <3>4. Shape(c)
      BY <1>2, <2>2, <3>2 DEF Shape
    <3> QED BY <1>6, <1>7, <3>1, <3>2, <3>3, <3>4
  <2>3. CASE /\ req.op = "moveTrack"
             /\ Continue(th, [call[th] EXCEPT !.at = "hasTrack", !.from = OtherQueue(req.to)])
    <3> DEFINE c == [call[th] EXCEPT !.at = "hasTrack", !.from = OtherQueue(req.to)]
    <3>1. OtherQueue(req.to) \in QueueType
      BY DEF OtherQueue, QueueType
    <3>2. c \in CallType
      BY <1>2, <3>1, LocalsTyped DEF Stages
    <3>3. c.at = "hasTrack" /\ c.req = req /\ c.from = OtherQueue(req.to)
      BY <1>2 DEF CallType
    <3>4. Continue(th, c)
      BY <2>3
    <3> HIDE DEF c
    <3>5. Shape(c)
      BY <1>2, <2>3, <3>1, <3>3 DEF Shape
    <3> QED BY <1>6, <1>7, <3>2, <3>3, <3>4, <3>5
  <2>4. ASSUME req.op = "addTrackToQueue", NEW t \in TrackIds,
               Continue(th, [call[th] EXCEPT !.at = "addTrack",
                                !.track = [trackId |-> t, addedBy |-> user.Name]])
        PROVE  Moves(th)
    <3> DEFINE track == [trackId |-> t, addedBy |-> user.Name]
               c == [call[th] EXCEPT !.at = "addTrack", !.track = track]
    <3>1. track \in BaseTrack
      BY <1>4 DEF BaseTrack, User
    <3> HIDE DEF track
    <3>2. c \in CallType
      BY <1>2, <3>1, LocalsTyped DEF Stages
    <3>3. c.at = "addTrack" /\ c.req = req /\ c.track = track
      BY <1>2 DEF CallType
    <3>4. Continue(th, c)
      BY <2>4 DEF track
    <3> HIDE DEF c
    <3>5. Shape(c)
      BY <1>2, <2>4, <3>1, <3>3 DEF Shape
    <3> QED BY <1>6, <1>7, <3>2, <3>3, <3>4, <3>5
  <2> QED BY <1>5, <1>7, <2>1, <2>2, <2>3, <2>4 DEF Permitted, Reply
<1> QED BY <1>3, <1>5, <1>7 DEF GetUser, Reply

\* The same user, the same permission: what holds past getUser stays so.
LEMMA CarriedOn ==
    ASSUME JBInv, NEW th \in RequestThreads,
           call[th].at \notin {"none", "addUser", "hasUser", "getUser", "voteTrack"},
           NEW c \in CallType, c.req = call[th].req, c.at # "addUser", Shape(c), Continue(th, c)
    PROVE  Moves(th)
<1>1. Registered(call[th]) /\ Authorized(call[th])
  BY Underway
<1>2. Registered(c) /\ Timely(c) /\ Authorized(c)
  BY <1>1 DEF Registered, Timely, Authorized
<1> QED BY <1>2, GotoOK

LEMMA HasTrackOK ==
    ASSUME JBInv, NEW th \in RequestThreads,
           HasTrackAdmin(th) \/ HasTrackNormal(th) \/ HasTrackFrom(th)
    PROVE  Moves(th)
<1> DEFINE k == call[th]
<1>1. k.at \in {"hasTrackAdmin", "hasTrackNormal", "hasTrack"}
  BY DEF HasTrackAdmin, HasTrackNormal, HasTrackFrom, At
<1>2. k \in CallType /\ k.req \in Requests /\ Shape(k)
  BY <1>1, Underway
<1>3. k.from \in QueueType \cup {"none"}
  BY <1>2 DEF CallType
<1>4. CASE Reply(th, "DoesntExist")
  BY <1>4, ReplyOK DEF Reply, Moves
<1>5. ASSUME NEW c \in CallType, c.req = k.req, Continue(th, c),
             \/ c.at = "hasTrackNormal" /\ k.at = "hasTrackAdmin"
             \/ c.at = "removeTrack" /\ c.from \in QueueType /\ k.at \in {"hasTrackNormal", "hasTrack"}
      PROVE  Moves(th)
  <2>1. Shape(c)
    BY <1>2, <1>5 DEF Shape
  <2> QED BY <1>1, <1>5, <2>1, CarriedOn
<1>6. ASSUME NEW at \in Stages
      PROVE  /\ [k EXCEPT !.at = at] \in CallType
             /\ [k EXCEPT !.at = at].at = at
             /\ [k EXCEPT !.at = at].from = k.from
             /\ [k EXCEPT !.at = at].req = k.req
  <2>1. [k EXCEPT !.at = at] \in CallType
    BY <1>2, LocalsTyped
  <2> QED BY <1>2, <2>1 DEF CallType
<1>7. ASSUME NEW at \in Stages, NEW from \in QueueType \cup {"none"}
       PROVE  /\ [k EXCEPT !.at = at, !.from = from] \in CallType
              /\ [k EXCEPT !.at = at, !.from = from].at = at
              /\ [k EXCEPT !.at = at, !.from = from].from = from
              /\ [k EXCEPT !.at = at, !.from = from].req = k.req
  <2>1. [k EXCEPT !.at = at, !.from = from] \in CallType
    BY <1>2, LocalsTyped
  <2> QED BY <1>2, <2>1 DEF CallType
<1>8. CASE HasTrackAdmin(th)
  <2>1. k.at = "hasTrackAdmin"
    BY <1>8 DEF HasTrackAdmin, At
  <2>2. PICK from \in {"Admin", k.from} :
            Continue(th, [k EXCEPT !.at = "hasTrackNormal", !.from = from])
    BY <1>8 DEF HasTrackAdmin
  <2> DEFINE c == [k EXCEPT !.at = "hasTrackNormal", !.from = from]
  <2>3. from \in QueueType \cup {"none"}
    BY <1>3, <2>2 DEF QueueType
  <2>4. c \in CallType /\ c.at = "hasTrackNormal" /\ c.req = k.req
    BY <1>7, <2>3 DEF Stages
  <2> QED BY <1>5, <2>1, <2>2, <2>4
<1>9. ASSUME k.at \in {"hasTrackNormal", "hasTrack"}, k.from \in QueueType,
             Goto(th, "removeTrack")
      PROVE  Moves(th)
  <2> DEFINE c == [k EXCEPT !.at = "removeTrack"]
  <2>1. c \in CallType /\ c.at = "removeTrack" /\ c.from = k.from /\ c.req = k.req
    BY <1>6 DEF Stages
  <2>2. Continue(th, c)
    BY <1>9 DEF Goto
  <2> QED BY <1>5, <1>9, <2>1, <2>2
<1>10. CASE HasTrackNormal(th)
  <2>1. k.at = "hasTrackNormal"
    BY <1>10 DEF HasTrackNormal, At
  <2>2. CASE Continue(th, [k EXCEPT !.at = "removeTrack", !.from = "Normal"])
    <3> DEFINE c == [k EXCEPT !.at = "removeTrack", !.from = "Normal"]
    <3>1. c \in CallType /\ c.at = "removeTrack" /\ c.from = "Normal" /\ c.req = k.req
      BY <1>7 DEF Stages, QueueType
    <3> QED BY <1>5, <2>1, <2>2, <3>1 DEF QueueType
  <2>3. CASE k.from = "Admin" /\ Goto(th, "removeTrack")
    BY <1>9, <2>1, <2>3 DEF QueueType
  <2> QED BY <1>4, <1>10, <2>2, <2>3 DEF HasTrackNormal
<1>11. CASE HasTrackFrom(th)
  <2>1. k.at = "hasTrack"
    BY <1>11 DEF HasTrackFrom, At
  <2>2. k.from \in QueueType
    BY <1>2, <2>1 DEF Shape
  <2> QED BY <1>4, <1>9, <1>11, <2>1, <2>2 DEF HasTrackFrom
<1> QED BY <1>8, <1>10, <1>11

\* removeTrack, whose answer keeps the ID of the track asked for.
LEMMA RemoveTrackCallOK ==
    ASSUME JBInv, NEW th \in RequestThreads, RemoveTrackCall(th)
    PROVE  Moves(th)
<1> DEFINE k == call[th]
           q == queue[k.from]
           track == q[Find(q, k.req.track)]
<1>1. k.at = "removeTrack"
  BY DEF RemoveTrackCall, At
<1>2. k \in CallType /\ k.req \in Requests /\ Shape(k)
  BY <1>1, Underway
<1>3. CASE Reply(th, "DoesntExist")
  BY <1>3, ReplyOK DEF Reply, Moves
<1>4. CASE /\ RemoveTrack(th, k.req.track, k.from)
           /\ Continue(th, [k EXCEPT !.at = "removeVotesForTrack", !.track = Base(track)])
  <2>1. k.from \in QueueType /\ k.req.track \in IdsOf(q)
    BY <1>1, <1>2, <1>4 DEF Shape, RemoveTrack, HasTrack
  <2>2. q \in Seq(QueuedTrack) /\ UniqueIds(q)
    BY <2>1 DEF JBInv, IInv, Good
  <2>3. Find(q, k.req.track) \in DOMAIN q /\ track.trackId = k.req.track
    BY <2>1, <2>2, FindUnique
  <2>4. track \in QueuedTrack
    BY <2>2, <2>3, ElementOfSeq, LenProperties
  <2>5. Base(track) \in BaseTrack /\ Base(track).trackId = k.req.track
    BY <2>3, <2>4 DEF Base, BaseTrack, QueuedTrack
  <2> DEFINE c == [k EXCEPT !.at = "removeVotesForTrack", !.track = Base(track)]
  <2>6. c \in CallType
    BY <1>2, <2>5, LocalsTyped DEF Stages
  <2>7. c.at = "removeVotesForTrack" /\ c.track = Base(track) /\ c.req = k.req
    BY <1>2 DEF CallType
  <2>8. Continue(th, c)
    BY <1>4
  <2> HIDE DEF c, track
  <2>9. Shape(c)
    BY <1>1, <1>2, <2>5, <2>7 DEF Shape
  <2> QED BY <1>1, <2>6, <2>7, <2>8, <2>9, CarriedOn
<1> QED BY <1>3, <1>4 DEF RemoveTrackCall

LEMMA RemoveVotesCallOK ==
    ASSUME JBInv, NEW th \in RequestThreads, RemoveVotesCall(th)
    PROVE  Moves(th)
<1> DEFINE k == call[th]
<1>1. k.at = "removeVotesForTrack"
  BY DEF RemoveVotesCall, At
<1>2. k \in CallType /\ k.req \in Requests /\ Shape(k)
  BY <1>1, Underway
<1>3. CASE Reply(th, "Ok")
  BY <1>3, ReplyOK DEF Reply, Moves
<1>4. CASE k.req.op = "moveTrack" /\ Goto(th, "addTrack")
  <2> DEFINE c == [k EXCEPT !.at = "addTrack"]
  <2>1. c \in CallType
    BY <1>2, LocalsTyped DEF Stages
  <2>2. c.at = "addTrack" /\ c.track = k.track /\ c.req = k.req
    BY <1>2 DEF CallType
  <2>3. Continue(th, c)
    BY <1>4 DEF Goto
  <2> HIDE DEF c
  <2>4. Shape(c)
    BY <1>1, <1>2, <1>4, <2>2 DEF Shape
  <2> QED BY <1>1, <2>1, <2>2, <2>3, <2>4, CarriedOn
<1> QED BY <1>3, <1>4 DEF RemoveVotesCall, Op

\* getCurrentQueues goes from the first copy to the second.
LEMMA GetQueueNormalOK ==
    ASSUME JBInv, NEW th \in RequestThreads, GetQueueNormal(th)
    PROVE  Moves(th)
<1> DEFINE k == call[th]
           c == [k EXCEPT !.at = "getQueueAdmin"]
<1>1. k.at = "getQueueNormal"
  BY DEF GetQueueNormal, At
<1>2. k \in CallType /\ k.req \in Requests
  BY <1>1, Underway
<1>3. c \in CallType
  BY <1>2, LocalsTyped DEF Stages
<1>4. c.at = "getQueueAdmin" /\ c.req = k.req
  BY <1>2 DEF CallType
<1>5. Continue(th, c)
  BY DEF GetQueueNormal, Goto
<1> HIDE DEF c
<1>6. Shape(c)
  BY <1>2, <1>4 DEF Shape
<1> QED BY <1>1, <1>3, <1>4, <1>5, <1>6, CarriedOn

\* The calls after which the request is answered, whatever they return.
LEMMA LastCallOK ==
    ASSUME NEW th,
           \/ Refuse(th) \/ QueryTracks(th) \/ ControlPlayer(th) \/ GetQueueAdmin(th)
           \/ AddUserCall(th) \/ AddTrackCall(th) \/ VoteTrackCall(th)
    PROVE  Moves(th)
<1>1. \E results : ReplyOneOf(th, results)
  BY DEF Refuse, QueryTracks, ControlPlayer, GetQueueAdmin, AddUserCall, AddTrackCall,
         VoteTrackCall, Reply
<1> QED BY <1>1, ReplyOK DEF Moves

\* Every step of a request.
LEMMA RequestMoves ==
    ASSUME JBInv, NEW th \in RequestThreads, RequestStep(th)
    PROVE  Moves(th)
BY FirstCallOK, HasUserCallOK, GetUserOK, HasTrackOK, RemoveTrackCallOK, RemoveVotesCallOK,
   GetQueueNormalOK, LastCallOK DEF RequestStep

-----------------------------------------------------------------------------
(* Every step is one of the data store.                                    *)

\* What the requests do to the data store: they never remove a user or pop a track.
RequestStore(th) ==
    \/ UNCHANGED dsVars
    \/ \E s \in SessionIds, p \in Profiles, time \in 0..now : AddUser(th, s, p, time)
    \/ \E t \in TrackIds, by \in Names, q \in QueueType : AddTrack(th, t, by, q)
    \/ \E t \in TrackIds, q \in QueueType : RemoveTrack(th, t, q)
    \/ RemoveVotesForTrack(th)
    \/ \E s \in SessionIds, t \in TrackIds, vote \in BOOLEAN : VoteTrack(th, s, t, vote)

StoreStep(th) == RequestStore(th) \/ NextTrack(th)

LEMMA RequestStores ==
    ASSUME JBInv, NEW th \in RequestThreads, RequestStep(th)
    PROVE  RequestStore(th)
<1> DEFINE k == call[th]
<1>1. CASE \/ Refuse(th) \/ QueryTracks(th) \/ ControlPlayer(th) \/ GetQueueAdmin(th)
           \/ GetQueueNormal(th) \/ HasUserCall(th) \/ GetUser(th)
           \/ HasTrackAdmin(th) \/ HasTrackNormal(th) \/ HasTrackFrom(th)
  BY <1>1 DEF RequestStore, Refuse, QueryTracks, ControlPlayer, GetQueueAdmin, GetQueueNormal,
     HasUserCall, GetUser, HasTrackAdmin, HasTrackNormal, HasTrackFrom
<1>2. CASE GenerateSession(th) \/ IsSessionExpired(th)
  BY <1>2, FirstCallOK DEF RequestStore
<1>3. CASE AddUserCall(th)
  <2>1. k.at = "addUser"
    BY <1>3 DEF AddUserCall, At
  <2>2. k.time \in 0..now
    BY <2>1, Underway DEF Timely, CallType, JBInv, IInv, DSTypeOK
  <2> QED BY <1>3, <2>2 DEF AddUserCall, RequestStore
<1>4. CASE RemoveVotesCall(th)
  BY <1>4 DEF RemoveVotesCall, RequestStore
<1>5. CASE RemoveTrackCall(th)
  <2>1. k.at = "removeTrack"
    BY <1>5 DEF RemoveTrackCall, At
  <2>2. k.req \in Requests /\ Shape(k)
    BY <2>1, Underway
  <2>3. k.req.track \in TrackIds /\ k.from \in QueueType
    BY <2>1, <2>2, RequestsDecoded DEF Shape
  <2> QED BY <1>5, <2>3 DEF RemoveTrackCall, RequestStore
<1>6. CASE AddTrackCall(th)
  <2>1. k.at = "addTrack"
    BY <1>6 DEF AddTrackCall, At
  <2>2. k.req \in Requests /\ Shape(k)
    BY <2>1, Underway
  <2>3. /\ k.req.to \in QueueType
        /\ k.track.trackId \in TrackIds
        /\ k.track.addedBy \in Names
    BY <2>1, <2>2, RequestsDecoded DEF Shape, BaseTrack
  <2> QED BY <1>6, <2>3 DEF AddTrackCall, RequestStore
<1>7. CASE VoteTrackCall(th)
  <2>1. k.at = "voteTrack"
    BY <1>7 DEF VoteTrackCall, At
  <2>2. k.req \in Requests /\ Shape(k) /\ Registered(k)
    BY <2>1, Underway
  <2>3. k.req.track \in TrackIds /\ k.req.vote \in BOOLEAN
    BY <2>1, <2>2, RequestsDecoded DEF Shape
  <2>4. k.req.sid \in SessionIds
    BY <2>1, <2>2 DEF Registered, HasUser, JBInv, IInv, DSTypeOK
  <2> QED BY <1>7, <2>3, <2>4 DEF VoteTrackCall, RequestStore
<1> QED BY <1>1, <1>2, <1>3, <1>4, <1>5, <1>6, <1>7 DEF RequestStep

\* Users stay, and stay what they are.
UsersKept ==
    \A s \in DOMAIN mUsers : s \in DOMAIN mUsers' /\ mUsers'[s].isAdmin = mUsers[s].isAdmin

LEMMA StoreKeepsUsers ==
    ASSUME IInv, NEW th, StoreStep(th)
    PROVE  UsersKept
<1>1. mUsers \in [DOMAIN mUsers -> User]
  BY DEF IInv, DSTypeOK
<1>2. ASSUME NEW u \in User, NEW v
      PROVE  [u EXCEPT !.votes = v].isAdmin = u.isAdmin
  BY DEF User
<1>3. CASE UNCHANGED mUsers
  BY <1>3 DEF UsersKept
<1>4. CASE \E s \in SessionIds, p \in Profiles, time \in 0..now : AddUser(th, s, p, time)
  <2>1. PICK s \in SessionIds, p \in Profiles, time \in 0..now : AddUser(th, s, p, time)
    BY <1>4
  <2>2. s \notin DOMAIN mUsers
    BY <2>1 DEF AddUser, IInv, DSTypeOK
  <2>3. \A x \in DOMAIN mUsers : x \in DOMAIN mUsers' /\ mUsers'[x] = mUsers[x]
    BY <2>1, <2>2 DEF AddUser
  <2> QED BY <2>3 DEF UsersKept
<1>5. CASE RemoveVotesForTrack(th)
  <2> SUFFICES ASSUME NEW s \in DOMAIN mUsers
               PROVE  s \in DOMAIN mUsers' /\ mUsers'[s].isAdmin = mUsers[s].isAdmin
    BY DEF UsersKept
  <2> DEFINE v == mUsers[s].votes \ {clearing[th]}
  <2>1. s \in DOMAIN mUsers' /\ mUsers'[s] = [mUsers[s] EXCEPT !.votes = v]
    BY <1>5 DEF RemoveVotesForTrack
  <2>2. mUsers[s] \in User
    BY <1>1
  <2> HIDE DEF v
  <2> QED BY <1>2, <2>1, <2>2
<1>6. CASE \E s \in SessionIds, t \in TrackIds, vote \in BOOLEAN : VoteTrack(th, s, t, vote)
  <2>1. PICK s \in SessionIds, t \in TrackIds, vote \in BOOLEAN : VoteTrack(th, s, t, vote)
    BY <1>6
  <2> DEFINE v == IF vote THEN mUsers[s].votes \cup {t} ELSE mUsers[s].votes \ {t}
  <2>2. mUsers' = [mUsers EXCEPT ![s] = [mUsers[s] EXCEPT !.votes = v]]
    BY <2>1 DEF VoteTrack
  <2> HIDE DEF v
  <2>3. \A x \in DOMAIN mUsers : x \in DOMAIN mUsers' /\
            (mUsers'[x] = mUsers[x] \/ mUsers'[x] = [mUsers[x] EXCEPT !.votes = v])
    BY <2>2
  <2> QED BY <1>1, <1>2, <2>3 DEF UsersKept
<1> QED BY <1>3, <1>4, <1>5, <1>6 DEF StoreStep, RequestStore, dsVars, AddTrack, RemoveTrack, NextTrack

LEMMA StoreStepOK ==
    ASSUME NEW th \in Threads, StoreStep(th)
    PROVE  [DSNext]_dsVars
BY DEF StoreStep, RequestStore, DSNext, ThreadStep

\* A step of the jukebox, from the data store's side and from the threads'.
LEMMA JukeBoxStep ==
    ASSUME JBInv, [JBNext]_jbVars
    PROVE  /\ [DSNext]_dsVars
           /\ UsersKept
           /\ call' = call \/ \E th \in RequestThreads : RequestStep(th) /\ Moves(th)
<1>1. IInv
  BY DEF JBInv
<1>2. CASE UNCHANGED jbVars
  BY <1>2 DEF jbVars, dsVars, UsersKept
<1>3. CASE Tick /\ UNCHANGED call
  BY <1>3 DEF DSNext, Tick, UsersKept
<1>4. CASE SchedulerStep
  <2>1. StoreStep(Scheduler) /\ call' = call
    BY <1>4 DEF SchedulerStep, StoreStep, RequestStore
  <2> QED BY <1>1, <2>1, StoreStepOK, StoreKeepsUsers, SchedulerAssumption
<1>5. CASE \E th \in RequestThreads : RequestStep(th)
  <2>1. PICK th \in RequestThreads : RequestStep(th)
    BY <1>5
  <2>2. StoreStep(th) /\ th \in Threads
    BY <2>1, RequestStores DEF RequestThreads, StoreStep
  <2> QED BY <1>1, <2>1, <2>2, RequestMoves, StoreStepOK, StoreKeepsUsers
<1> QED BY <1>2, <1>3, <1>4, <1>5 DEF JBNext

-----------------------------------------------------------------------------
(* The invariant, and what follows from it.                                *)

LEMMA InitJBInv == JBInit => JBInv
<1> SUFFICES ASSUME JBInit PROVE JBInv
  OBVIOUS
<1>1. IInv
  BY InitIInv DEF JBInit
<1>2. Idle \in CallOK
  BY DEF Idle, CallOK, CallType, Stages, Shape, Registered, Timely, Authorized
<1> QED BY <1>1, <1>2 DEF JBInit, JBInv

\* Nobody sets the clock back.
LEMMA ClockForward ==
    ASSUME [DSNext]_dsVars
    PROVE  now' = now \/ now' = now + 1
BY DEF DSNext, ThreadStep, dsVars, Tick, AddUser, RemoveUser, AddTrack, RemoveTrack, NextTrack,
       RemoveVotesForTrack, VoteTrack

\* What a thread may be doing stays possible when the users are kept.
LEMMA CallOKKept ==
    ASSUME UsersKept, now \in Nat, now' = now \/ now' = now + 1, NEW c \in CallOK
    PROVE  c \in CallOK'
<1>1. Timely(c)'
  BY DEF Timely, CallOK, CallType
<1> QED BY <1>1 DEF UsersKept, CallOK, CallType, Shape, Registered, Authorized, HasUser

LEMMA NextJBInv == JBInv /\ [JBNext]_jbVars => JBInv'
<1> SUFFICES ASSUME JBInv, [JBNext]_jbVars PROVE JBInv'
  OBVIOUS
<1>1. IInv'
  BY JukeBoxStep, NextIInv DEF JBInv
<1>2. call' \in [RequestThreads -> CallOK]
  <2>1. call \in [RequestThreads -> CallOK]
    BY DEF JBInv
  <2>2. CASE call' = call
    BY <2>1, <2>2
  <2>3. ASSUME NEW th \in RequestThreads, Moves(th)
        PROVE  call' \in [RequestThreads -> CallOK]
    <3>1. PICK c \in CallOK : call' = [call EXCEPT ![th] = c]
      BY <2>3 DEF Moves, Continue
    <3> QED BY <2>1, <3>1
  <2> QED BY <2>2, <2>3, JukeBoxStep
<1>3. \A c \in CallOK : c \in CallOK'
  <2>1. now \in Nat
    BY DEF JBInv, IInv, DSTypeOK
  <2> QED BY <2>1, JukeBoxStep, ClockForward, CallOKKept
<1>4. call' \in [RequestThreads -> CallOK']
  BY <1>2, <1>3
<1> QED BY <1>1, <1>4 DEF JBInv

LEMMA JukeBoxInvariance == JBSpec => []JBInv
BY InitJBInv, NextJBInv, PTL DEF JBSpec

\* The requests and the scheduler together use the data store only as its own
\* specification says: what is proved of RAMDataStore holds in the jukebox.
THEOREM DataStoreImplemented == JBSpec => ImplementsDataStore
<1>1. JBInit => DSInit
  BY DEF JBInit
<1>2. JBInv /\ [JBNext]_jbVars => [DSNext]_dsVars
  BY JukeBoxStep
<1> QED BY <1>1, <1>2, JukeBoxInvariance, PTL DEF JBSpec, ImplementsDataStore, DSSpec

\* The locals of the requests keep their types.
THEOREM RequestsTyped == JBSpec => []JBTypeOK
<1>1. JBInv => JBTypeOK
  BY DEF JBInv, IInv, CallOK, CallType, JBTypeOK
<1> QED BY <1>1, JukeBoxInvariance, PTL

\* A session that passed isSessionExpired has its user until the request ends:
\* get<User> throws in no interleaving.
THEOREM UserStays == JBSpec => []UserStillThere
<1>1. JBInv => UserStillThere
  BY DEF JBInv, CallOK, Registered, UserStillThere
<1> QED BY <1>1, JukeBoxInvariance, PTL

-----------------------------------------------------------------------------
(* What the steps of a request do to the queues.                           *)

\* Taking a track out, seen from the IDs in the queues.
LEMMA RemovedIds ==
    ASSUME IInv, NEW th, NEW t \in TrackIds, NEW q \in QueueType, RemoveTrack(th, t, q)
    PROVE  Queued' = Queued \ {t} /\ IdsOf(queue'["Admin"]) \subseteq IdsOf(queue["Admin"])
<1>1. t \in IdsOf(queue[q])
  BY DEF RemoveTrack, HasTrack
<1>2. Good(queue[q], now)
  BY DEF IInv
<1>3. IdsOf(Erase(queue[q], t)) = IdsOf(queue[q]) \ {t}
  BY <1>1, <1>2, GoodErase
<1>4. queue' = [queue EXCEPT ![q] = Erase(queue[q], t)]
  BY DEF RemoveTrack
<1>5. queue \in [QueueType -> Seq(QueuedTrack)]
  BY DEF IInv, DSTypeOK
<1> HIDE DEF Erase
<1>6. queue'[q] = Erase(queue[q], t) /\ \A x \in QueueType \ {q} : queue'[x] = queue[x]
  BY <1>4, <1>5
<1>7. IdsOf(queue["Admin"]) \cap IdsOf(queue["Normal"]) = {}
  BY DEF IInv
<1> QED BY <1>1, <1>3, <1>6, <1>7 DEF Queued, QueueType

\* Adding a track.
LEMMA AddedIds ==
    ASSUME IInv, NEW th, NEW t \in TrackIds, NEW by \in Names, NEW q \in QueueType,
           AddTrack(th, t, by, q)
    PROVE  /\ Queued' = Queued \cup {t}
           /\ q = "Normal" => queue'["Admin"] = queue["Admin"]
<1> DEFINE r == Append(queue[q], [trackId |-> t, addedBy |-> by, votes |-> 0, insertedAt |-> now])
<1>1. t \notin IdsOf(queue[q])
  BY DEF AddTrack, Addable, HasTrack
<1>2. Good(queue[q], now) /\ now \in Nat
  BY DEF IInv, DSTypeOK
<1>3. IdsOf(r) = IdsOf(queue[q]) \cup {t}
  BY <1>1, <1>2, GoodPush
<1>4. queue' = [queue EXCEPT ![q] = r]
  BY DEF AddTrack
<1>5. queue \in [QueueType -> Seq(QueuedTrack)]
  BY DEF IInv, DSTypeOK
<1> HIDE DEF r
<1>6. queue'[q] = r /\ \A x \in QueueType \ {q} : queue'[x] = queue[x]
  BY <1>4, <1>5
<1> QED BY <1>3, <1>6 DEF Queued, QueueType

\* A vote moves tracks within the normal queue.
LEMMA VotedIds ==
    ASSUME IInv, NEW th, NEW s \in SessionIds, NEW t \in TrackIds, NEW vote \in BOOLEAN,
           VoteTrack(th, s, t, vote)
    PROVE  Queued' = Queued /\ queue'["Admin"] = queue["Admin"]
<1>1. PICK sorted \in SortsOf(AddVotes(queue["Normal"], t, Delta(s, t, vote))) :
          queue' = [queue EXCEPT !["Normal"] = sorted]
  BY DEF VoteTrack
<1>2. Delta(s, t, vote) \in Int /\ Good(queue["Normal"], now)
  BY DEF Delta, IInv, QueueType
<1>3. IdsOf(sorted) = IdsOf(queue["Normal"])
  BY <1>1, <1>2, GoodVote
<1>4. queue \in [QueueType -> Seq(QueuedTrack)]
  BY DEF IInv, DSTypeOK
<1>5. queue'["Normal"] = sorted /\ queue'["Admin"] = queue["Admin"]
  BY <1>1, <1>4 DEF QueueType
<1> QED BY <1>3, <1>5 DEF Queued

\* Of the steps of a request, only two change what is queued.
LEMMA RequestQueues ==
    ASSUME JBInv, NEW th \in RequestThreads, RequestStep(th)
    PROVE  \/ Queued' = Queued /\ IdsOf(queue'["Admin"]) = IdsOf(queue["Admin"])
           \/ /\ RemoveTrackCall(th)
              /\ call[th].req.track \in TrackIds
              /\ Queued' = Queued \ {call[th].req.track}
              /\ IdsOf(queue'["Admin"]) \subseteq IdsOf(queue["Admin"])
              /\ \E track : Continue(th, [call[th] EXCEPT !.at = "removeVotesForTrack", !.track = track])
           \/ /\ AddTrackCall(th)
              /\ Queued' = Queued \cup {call[th].track.trackId}
              /\ call[th].req.to = "Normal" => queue'["Admin"] = queue["Admin"]
              /\ Reply(th, "Ok")
<1> DEFINE k == call[th]
<1>0. IInv
  BY DEF JBInv
<1>1. CASE UNCHANGED queue
  BY <1>1 DEF Queued
<1>2. CASE RemoveTrackCall(th)
  <2>1. k.at = "removeTrack"
    BY <1>2 DEF RemoveTrackCall, At
  <2>2. k.req \in Requests /\ Shape(k)
    BY <2>1, Underway
  <2>3. k.req.track \in TrackIds /\ k.from \in QueueType
    BY <2>1, <2>2, RequestsDecoded DEF Shape
  <2>4. CASE UNCHANGED dsVars
    BY <1>1, <2>4 DEF dsVars
  <2>5. CASE /\ RemoveTrack(th, k.req.track, k.from)
             /\ \E track : Continue(th, [k EXCEPT !.at = "removeVotesForTrack", !.track = track])
    BY <1>0, <1>2, <2>3, <2>5, RemovedIds
  <2> QED BY <1>2, <2>4, <2>5 DEF RemoveTrackCall
<1>3. CASE AddTrackCall(th)
  <2>1. k.at = "addTrack"
    BY <1>3 DEF AddTrackCall, At
  <2>2. k.req \in Requests /\ Shape(k)
    BY <2>1, Underway
  <2>3. /\ k.req.to \in QueueType
        /\ k.track.trackId \in TrackIds
        /\ k.track.addedBy \in Names
    BY <2>1, <2>2, RequestsDecoded DEF Shape, BaseTrack
  <2>4. CASE UNCHANGED dsVars
    BY <1>1, <2>4 DEF dsVars
  <2>5. CASE AddTrack(th, k.track.trackId, k.track.addedBy, k.req.to) /\ Reply(th, "Ok")
    BY <1>0, <1>3, <2>3, <2>5, AddedIds
  <2> QED BY <1>3, <2>4, <2>5 DEF AddTrackCall
<1>4. CASE VoteTrackCall(th)
  <2>1. k.at = "voteTrack"
    BY <1>4 DEF VoteTrackCall, At
  <2>2. k.req \in Requests /\ Shape(k) /\ Registered(k)
    BY <2>1, Underway
  <2>3. k.req.track \in TrackIds /\ k.req.vote \in BOOLEAN
    BY <2>1, <2>2, RequestsDecoded DEF Shape
  <2>4. k.req.sid \in SessionIds
    BY <2>1, <2>2 DEF Registered, HasUser, JBInv, IInv, DSTypeOK
  <2>5. CASE UNCHANGED dsVars
    BY <1>1, <2>5 DEF dsVars
  <2>6. CASE VoteTrack(th, k.req.sid, k.req.track, k.req.vote)
    BY <1>0, <2>3, <2>4, <2>6, VotedIds
  <2> QED BY <1>4, <2>5, <2>6 DEF VoteTrackCall
<1>5. CASE \/ Refuse(th) \/ QueryTracks(th) \/ ControlPlayer(th) \/ GetQueueAdmin(th)
           \/ GetQueueNormal(th) \/ HasUserCall(th) \/ GetUser(th)
           \/ HasTrackAdmin(th) \/ HasTrackNormal(th) \/ HasTrackFrom(th)
           \/ GenerateSession(th) \/ IsSessionExpired(th)
  <2>1. UNCHANGED dsVars
    BY <1>5, FirstCallOK DEF Refuse, QueryTracks, ControlPlayer, GetQueueAdmin, GetQueueNormal,
       HasUserCall, GetUser, HasTrackAdmin, HasTrackNormal, HasTrackFrom
  <2> QED BY <1>1, <2>1 DEF dsVars
<1>6. CASE AddUserCall(th) \/ RemoveVotesCall(th)
  BY <1>1, <1>6 DEF AddUserCall, AddUser, RemoveVotesCall, RemoveVotesForTrack
<1> QED BY <1>2, <1>3, <1>4, <1>5, <1>6 DEF RequestStep

\* The request that takes a track out, or puts one into the admin queue, is at a call
\* it reached only with isAdmin.
LEMMA CuratorIsAdmin ==
    ASSUME JBInv, NEW th \in RequestThreads, RequestStep(th),
           \/ \E t \in TrackIds : HasTrack(t, "Admin")' /\ ~HasTrack(t, "Admin")
           \/ \E t \in Queued : ~(t \in Queued')
    PROVE  call'[th] # call[th] /\ mUsers[call[th].req.sid].isAdmin
<1> DEFINE k == call[th]
<1>0. call \in [RequestThreads -> CallOK]
  BY DEF JBInv
<1>1. ASSUME k.at \in {"removeTrack", "addTrack"}, NeedsAdmin(k.req)
      PROVE  mUsers[k.req.sid].isAdmin
  BY <1>1, Underway DEF Authorized
<1>2. ASSUME NEW c, Continue(th, c), c.at # k.at
      PROVE  call'[th] # call[th]
  BY <1>0, <1>2 DEF Continue
<1>3. CASE /\ RemoveTrackCall(th)
           /\ \E track : Continue(th, [k EXCEPT !.at = "removeVotesForTrack", !.track = track])
  <2>1. k.at = "removeTrack"
    BY <1>3 DEF RemoveTrackCall, At
  <2>2. k \in CallType /\ Shape(k)
    BY <2>1, Underway
  <2>3. NeedsAdmin(k.req)
    BY <2>1, <2>2 DEF Shape, NeedsAdmin
  <2>4. \A track : [k EXCEPT !.at = "removeVotesForTrack", !.track = track].at = "removeVotesForTrack"
    BY <2>2 DEF CallType
  <2>5. call'[th] # call[th]
    BY <1>2, <1>3, <2>1, <2>4
  <2> QED BY <1>1, <2>1, <2>3, <2>5
<1>4. CASE AddTrackCall(th) /\ k.req.to # "Normal" /\ Reply(th, "Ok")
  <2>1. k.at = "addTrack"
    BY <1>4 DEF AddTrackCall, At
  <2>2. k.req \in Requests /\ Shape(k)
    BY <2>1, Underway
  <2>3. k.req.to = "Admin"
    BY <1>4, <2>2, RequestsDecoded DEF QueueType
  <2>4. NeedsAdmin(k.req)
    BY <2>1, <2>2, <2>3 DEF Shape, NeedsAdmin
  <2>5. PICK c \in CallOK : c.at = "none" /\ Continue(th, c)
    BY <1>4, ReplyOK DEF Reply
  <2>6. call'[th] # call[th]
    BY <1>2, <2>1, <2>5
  <2> QED BY <1>1, <2>1, <2>4, <2>6
<1>5. CASE Queued' = Queued /\ IdsOf(queue'["Admin"]) = IdsOf(queue["Admin"])
  BY <1>5 DEF HasTrack
<1>6. CASE Queued' = Queued \cup {k.track.trackId} /\ queue'["Admin"] = queue["Admin"]
  BY <1>6 DEF HasTrack
<1> QED BY <1>3, <1>4, <1>5, <1>6, RequestQueues

\* Whatever interleaves, only a request of an admin's session fills the admin queue or
\* takes tracks out of a queue.
THEOREM AdminsCurate == JBSpec => OnlyAdminsCurate
<1> DEFINE Curated ==
        call' # call /\ (\/ \E t \in TrackIds : HasTrack(t, "Admin")' /\ ~HasTrack(t, "Admin")
                        \/ \E t \in Queued : ~(t \in Queued'))
          => \E th \in RequestThreads :
                 call'[th] # call[th] /\ mUsers[call[th].req.sid].isAdmin
<1>1. ASSUME JBInv, [JBNext]_jbVars PROVE Curated
  BY <1>1, JukeBoxStep, CuratorIsAdmin
<1>2. JBInv /\ [JBNext]_jbVars => [Curated]_jbVars
  BY <1>1
<1> QED BY <1>2, JukeBoxInvariance, PTL DEF JBSpec, OnlyAdminsCurate

\* A track in the hands of a moveTrack request goes back into a queue.
LEMMA MoveEnds ==
    ASSUME JBInv, NEW th \in RequestThreads, RequestStep(th), NEW t \in InMove
    PROVE  t \in Queued' \/ t \in InMove'
<1>0. call \in [RequestThreads -> CallOK]
  BY DEF JBInv
<1>1. PICK b \in RequestThreads : /\ call[b].req.op = "moveTrack"
                                  /\ call[b].at \in {"removeVotesForTrack", "addTrack"}
                                  /\ call[b].req.track = t
  BY DEF InMove, Op
<1>2. t \in TrackIds
  BY <1>1, Underway, RequestsDecoded
<1>3. CASE call'[b] = call[b]
  BY <1>1, <1>2, <1>3 DEF InMove, Op
<1>4. CASE b # th
  <2>1. PICK c : call' = [call EXCEPT ![th] = c]
    BY RequestMoves DEF Moves, Continue
  <2>2. call'[b] = call[b]
    BY <1>0, <1>4, <2>1
  <2> QED BY <1>3, <2>2
<1>5. CASE b = th /\ call[th].at = "removeVotesForTrack"
  <2> DEFINE c == [call[th] EXCEPT !.at = "addTrack"]
  <2>1. RemoveVotesCall(th)
    BY <1>5 DEF RequestStep, At, Refuse, GenerateSession, IsSessionExpired, Asked, QueryTracks,
       AddUserCall, ControlPlayer, HasUserCall, GetUser, HasTrackAdmin, HasTrackNormal,
       HasTrackFrom, RemoveTrackCall, AddTrackCall, VoteTrackCall, GetQueueNormal, GetQueueAdmin
  <2>2. Continue(th, c)
    BY <1>1, <1>5, <2>1 DEF RemoveVotesCall, Op, Goto
  <2>3. call[th] \in CallType
    BY <1>5, Underway
  <2>4. c.at = "addTrack" /\ c.req = call[th].req
    BY <2>3 DEF CallType
  <2> HIDE DEF c
  <2>5. call'[th] = c
    BY <1>0, <2>2 DEF Continue
  <2> QED BY <1>1, <1>2, <1>5, <2>4, <2>5 DEF InMove, Op
<1>6. CASE b = th /\ call[th].at = "addTrack"
  <2>1. AddTrackCall(th)
    BY <1>6 DEF RequestStep, At, Refuse, GenerateSession, IsSessionExpired, Asked, QueryTracks,
       AddUserCall, ControlPlayer, HasUserCall, GetUser, HasTrackAdmin, HasTrackNormal,
       HasTrackFrom, RemoveTrackCall, RemoveVotesCall, VoteTrackCall, GetQueueNormal, GetQueueAdmin
  <2>2. call[th].track.trackId = t
    BY <1>1, <1>6, Underway DEF Shape
  <2>3. CASE UNCHANGED dsVars /\ call[th].track.trackId \in Queued
    BY <2>2, <2>3 DEF dsVars, Queued
  <2>4. CASE ~(UNCHANGED dsVars /\ call[th].track.trackId \in Queued)
    <3>1. AddTrack(th, call[th].track.trackId, call[th].track.addedBy, call[th].req.to)
      BY <2>1, <2>4 DEF AddTrackCall
    <3>2. /\ call[th].req.to \in QueueType
          /\ call[th].track.addedBy \in Names
      BY <1>6, Underway, RequestsDecoded DEF Shape, BaseTrack
    <3>3. Queued' = Queued \cup {t}
      BY <1>2, <2>2, <3>1, <3>2, AddedIds DEF JBInv
    <3> QED BY <3>3
  <2> QED BY <2>3, <2>4
<1> QED BY <1>1, <1>4, <1>5, <1>6

\* A queued track is taken out only by a removal or into the hands of a move.
LEMMA QueuedUntil ==
    ASSUME JBInv, NEW th \in RequestThreads, RequestStep(th), NEW t \in Queued, t \notin Queued'
    PROVE  \/ t \in InMove'
           \/ call'[th] # call[th] /\ Op(th) = "removeTrack" /\ call[th].req.track = t
<1> DEFINE k == call[th]
<1>0. call \in [RequestThreads -> CallOK]
  BY DEF JBInv
<1>1. PICK track : /\ RemoveTrackCall(th)
                   /\ k.req.track \in TrackIds
                   /\ Queued' = Queued \ {k.req.track}
                   /\ Continue(th, [k EXCEPT !.at = "removeVotesForTrack", !.track = track])
  BY RequestQueues
<1>2. k.req.track = t
  BY <1>1
<1>3. k.at = "removeTrack"
  BY <1>1 DEF RemoveTrackCall, At
<1>4. k \in CallType /\ k.req.op \in {"removeTrack", "moveTrack"}
  BY <1>3, Underway DEF Shape
<1> DEFINE c == [k EXCEPT !.at = "removeVotesForTrack", !.track = track]
<1>5. c.at = "removeVotesForTrack" /\ c.req = k.req
  BY <1>4 DEF CallType
<1>6. Continue(th, c)
  BY <1>1
<1> HIDE DEF c
<1>7. call'[th] = c
  BY <1>0, <1>6 DEF Continue
<1> QED BY <1>1, <1>2, <1>3, <1>4, <1>5, <1>7 DEF InMove, Op

\* No accepted track is lost, however removals, moves, adds and pops interleave.
THEOREM TracksKept == JBSpec => NoTrackLost
<1> DEFINE Kept ==
        \A t \in (Queued \cup InMove) \ (Queued \cup InMove)' :
            \/ call' = call
            \/ \E th \in RequestThreads :
                  call'[th] # call[th] /\ Op(th) = "removeTrack" /\ call[th].req.track = t
<1>1. ASSUME JBInv, [JBNext]_jbVars PROVE Kept
  <2>1. CASE call' = call
    BY <2>1
  <2>2. ASSUME NEW th \in RequestThreads, RequestStep(th),
               NEW t \in (Queued \cup InMove) \ (Queued \cup InMove)'
        PROVE  call'[th] # call[th] /\ Op(th) = "removeTrack" /\ call[th].req.track = t
    BY <1>1, <2>2, MoveEnds, QueuedUntil
  <2> QED BY <1>1, <2>1, <2>2, JukeBoxStep
<1>2. JBInv /\ [JBNext]_jbVars => [Kept]_jbVars
  BY <1>1
<1> QED BY <1>2, JukeBoxInvariance, PTL DEF JBSpec, NoTrackLost

=============================================================================
