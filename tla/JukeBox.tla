------------------------------ MODULE JukeBox ------------------------------
(***************************************************************************)
(* The requests of the jukebox, composed with the data store.  The REST    *)
(* server runs every connection on a thread of its own (RestAPI.cpp), and  *)
(* a request is a series of data store calls with nothing held in between: *)
(* what one call answered may be stale when the next is made.  A step is   *)
(* one call of a request with the branches of the code up to the next one; *)
(* the first step of a request decodes it and makes its first call.        *)
(* Meanwhile the scheduler pops tracks on a thread of its own.             *)
(***************************************************************************)
EXTENDS RAMDataStore

CONSTANTS
    Scheduler,  \* the thread of the scheduler
    Ops         \* the requests clients make

\* The requests and their responses: SessionIds and TrackIds are what clients send.
INSTANCE RestEndpoints

ASSUME SchedulerAssumption == Scheduler \in Threads

VARIABLE call   \* the request each thread serves

jbVars == <<dsVars, call>>

RequestThreads == Threads \ {Scheduler}

NoRequest == [op |-> "none"]

\* A thread between two requests: nothing is left of the last but the HTTP status.
Idle ==
    [req |-> NoRequest, at |-> "none", from |-> "none", track |-> NoTrack, time |-> 0, status |-> 0]

Op(th) == call[th].req.op

\* The request threads that are at call c.
At(th, c) == th \in RequestThreads /\ call[th].at = c

\* The thread goes on with other locals.
Continue(th, locals) == call' = [call EXCEPT ![th] = locals]

Goto(th, c) == Continue(th, [call[th] EXCEPT !.at = c])

\* The locals of a request at its first call; time is the expiration date minus the lifetime.
Begin(r, at, time) == [Idle EXCEPT !.req = r, !.at = at, !.time = time]

\* The handler ends: its locals are gone, the response is sent.
ReplyOneOf(th, results) ==
    \E status \in { StatusOf(result) : result \in results } :
        Continue(th, [Idle EXCEPT !.status = status])

Reply(th, result) == ReplyOneOf(th, {result})

-----------------------------------------------------------------------------

JBInit == DSInit /\ call = [th \in RequestThreads |-> Idle]

\* The requests an idle thread may be given.
Asked(th, ops) == IF At(th, "none") THEN { r \in Requests : r.op \in ops \cap Ops } ELSE {}

\* A request that reaches no function of the jukebox.
Refuse(th) ==
    /\ At(th, "none")
    /\ ReplyOneOf(th, Refusals)
    /\ UNCHANGED dsVars

\* Bound: there is a session ID for every request that may ask for one.
IdsLeft ==
    Cardinality({ th \in RequestThreads : call[th].at = "addUser" }) < Cardinality(SessionIds \ issued)

\* generateSession up to the call of addUser: the configuration may lack the password
\* of the admins, and the expiration date is computed here.
GenerateSession(th) ==
    /\ \E r \in Asked(th, {"generateSession"}) :
          \/ Reply(th, "KeyNotFound")
          \/ r.pw = "wrong" /\ Reply(th, "WrongPassword")
          \/ /\ r.pw # "wrong"
             /\ IdsLeft
             /\ Continue(th, Begin(r, "addUser", now))
    /\ UNCHANGED dsVars

\* The uninitialized bool of "User user;" becomes TRUE with the right password;
\* without a password it may be anything.
MayBeAdmin(pw) == IF pw = "right" THEN {TRUE} ELSE BOOLEAN

AddUserCall(th) ==
    /\ At(th, "addUser")
    /\ \E s \in SessionIds, p \in Profiles :
            p.isAdmin \in MayBeAdmin(call[th].req.pw) /\ AddUser(th, s, p, call[th].time)
    /\ Reply(th, "Ok")

\* queryTracks has nothing to do with the data store.
QueryTracks(th) ==
    /\ Asked(th, {"queryTracks"}) # {}
    /\ ReplyOneOf(th, {"Ok"} \cup SpotifyErrors)
    /\ UNCHANGED dsVars

SecondCall(op) ==
    IF op = "voteTrack" THEN "voteTrack" ELSE IF op = "getCurrentQueues" THEN "hasUser" ELSE "getUser"

\* The first call of every other request.
IsSessionExpired(th) ==
    LET asked == Asked(th, Paths \ {"generateSession", "queryTracks"})
    IN /\ \/ \E r \in asked :
               /\ SessionAlive(r.sid)
               /\ Continue(th, Begin(r, SecondCall(r.op), 0))
          \/ \E s \in { r.sid : r \in asked } :
               /\ ~SessionAlive(s)
               /\ Reply(th, IF HasUser(s) THEN "SessionExpired" ELSE "DoesntExist")
       /\ UNCHANGED dsVars

HasUserCall(th) ==
    /\ At(th, "hasUser")
    /\ IF HasUser(call[th].req.sid) THEN Goto(th, "getUser") ELSE Reply(th, "DoesntExist")
    /\ UNCHANGED dsVars

\* Wrong: moveTrack does not check isAdmin.
NeedsAdminNotMove(req) ==
    \/ req.op \in {"removeTrack", "controlPlayer"}
    \/ req.op = "addTrackToQueue" /\ req.to = "Admin"

\* Wrong: anybody may control the player.
NeedsAdminNotControl(req) ==
    \/ req.op \in {"removeTrack", "moveTrack"}
    \/ req.op = "addTrackToQueue" /\ req.to = "Admin"

\* The requests only an admin may make.
NeedsAdmin(req) ==
    \/ req.op \in {"removeTrack", "moveTrack", "controlPlayer"}
    \/ req.op = "addTrackToQueue" /\ req.to = "Admin"

\* What follows getUser and its check of isAdmin without a data store call:
\* createBaseTrack asks the music backend, which may fail, and takes the ID of the track
\* from its answer.
Permitted(th, req, user) ==
    \/ req.op = "getCurrentQueues" /\ Goto(th, "getQueueNormal")
    \/ req.op = "removeTrack" /\ Goto(th, "hasTrackAdmin")
    \/ /\ req.op = "moveTrack"
       /\ Continue(th, [call[th] EXCEPT !.at = "hasTrack", !.from = OtherQueue(req.to)])
    \/ /\ req.op = "addTrackToQueue"
       /\ \/ ReplyOneOf(th, SpotifyErrors)
          \/ \E t \in TrackIds :
                Continue(th, [call[th] EXCEPT !.at = "addTrack",
                                 !.track = [trackId |-> t, addedBy |-> user.Name]])
    \/ /\ req.op = "controlPlayer"
       /\ IF req.action = "stop" THEN Reply(th, "NotImplemented") ELSE Goto(th, "controlPlayer")

\* getUser: only getCurrentQueues looks for an Error, get<User> of one throws.
GetUser(th) ==
    /\ At(th, "getUser")
    /\ LET req == call[th].req
       IN IF ~HasUser(req.sid)
          THEN Reply(th, IF req.op = "getCurrentQueues" THEN "DoesntExist" ELSE "Exception")
          ELSE IF NeedsAdmin(req) /\ ~mUsers[req.sid].isAdmin
          THEN Reply(th, "AccessDenied")
          ELSE Permitted(th, req, mUsers[req.sid])
    /\ UNCHANGED dsVars

\* controlPlayer ends with calls of the music backend or of the scheduler; what they
\* do is the subject of SimpleScheduler and of VolumeControl.
ControlPlayer(th) ==
    /\ At(th, "controlPlayer")
    /\ ReplyOneOf(th, {"Ok"} \cup SpotifyErrors)
    /\ UNCHANGED dsVars

\* removeTrack looks in one queue, then in the other: a track that is found in
\* both is removed from the normal queue.
HasTrackAdmin(th) ==
    /\ At(th, "hasTrackAdmin")
    /\ Continue(th, [call[th] EXCEPT !.at = "hasTrackNormal",
                        !.from = IF HasTrack(call[th].req.track, "Admin") THEN "Admin" ELSE @])
    /\ UNCHANGED dsVars

HasTrackNormal(th) ==
    /\ At(th, "hasTrackNormal")
    /\ IF HasTrack(call[th].req.track, "Normal")
       THEN Continue(th, [call[th] EXCEPT !.at = "removeTrack", !.from = "Normal"])
       ELSE IF call[th].from = "Admin"
       THEN Goto(th, "removeTrack")
       ELSE Reply(th, "DoesntExist")
    /\ UNCHANGED dsVars

\* moveTrack looks only in the queue it moves out of.
HasTrackFrom(th) ==
    /\ At(th, "hasTrack")
    /\ IF HasTrack(call[th].req.track, call[th].from)
       THEN Goto(th, "removeTrack")
       ELSE Reply(th, "DoesntExist")
    /\ UNCHANGED dsVars

\* The call of removeTrack, which returns the BaseTrack with its addedBy.
RemoveTrackCall(th) ==
    /\ At(th, "removeTrack")
    /\ LET req == call[th].req
           q   == call[th].from
       IN \/ /\ RemoveTrack(th, req.track, q)
             /\ Continue(th, [call[th] EXCEPT !.at = "removeVotesForTrack",
                                 !.track = Base(queue[q][Find(queue[q], req.track)])])
          \/ ~HasTrack(req.track, q) /\ Reply(th, "DoesntExist") /\ UNCHANGED dsVars

\* Wrong: moveTrack ends with the removal.
RemoveVotesCallEnds(th) ==
    /\ At(th, "removeVotesForTrack")
    /\ RemoveVotesForTrack(th)
    /\ Reply(th, "Ok")

\* The end of the call of removeTrack: moveTrack goes on to add the track.
RemoveVotesCall(th) ==
    /\ At(th, "removeVotesForTrack")
    /\ RemoveVotesForTrack(th)
    /\ IF Op(th) = "moveTrack" THEN Goto(th, "addTrack") ELSE Reply(th, "Ok")

\* Wrong: the track is inserted without a second look at the queues.
AddTrackCallBlind(th) ==
    /\ At(th, "addTrack")
    /\ LET track == call[th].track
       IN queue' = [queue EXCEPT ![call[th].req.to] = Append(@,
              [trackId |-> track.trackId, addedBy |-> track.addedBy, votes |-> 0,
               insertedAt |-> now])]
    /\ Reply(th, "Ok")
    /\ UNCHANGED <<mCurrentTrack, mUsers, issued, clearing, now>>

\* The last call of addTrackToQueue and of moveTrack.
AddTrackCall(th) ==
    /\ At(th, "addTrack")
    /\ LET track == call[th].track
       IN \/ /\ AddTrack(th, track.trackId, track.addedBy, call[th].req.to)
             /\ Reply(th, "Ok")
          \/ /\ track.trackId \in Queued
             /\ Reply(th, "AlreadyExists")
             /\ UNCHANGED dsVars

VoteTrackCall(th) ==
    /\ At(th, "voteTrack")
    /\ LET req == call[th].req
       IN \/ VoteTrack(th, req.sid, req.track, req.vote) /\ Reply(th, "Ok")
          \/ ~HasUser(req.sid) /\ Reply(th, "DoesntExist") /\ UNCHANGED dsVars

\* getCurrentQueues copies the normal queue and then the admin queue, which a move
\* may have changed meanwhile.  What it adds about the current track, or fails with,
\* is the subject of QueueStatus.
GetQueueNormal(th) == At(th, "getQueueNormal") /\ Goto(th, "getQueueAdmin") /\ UNCHANGED dsVars

GetQueueAdmin(th) ==
    /\ At(th, "getQueueAdmin")
    /\ ReplyOneOf(th, {"Ok", "InvalidValue"} \cup SpotifyErrors)
    /\ UNCHANGED dsVars

RequestStep(th) ==
    \/ Refuse(th)
    \/ GenerateSession(th) \/ AddUserCall(th) \/ QueryTracks(th) \/ ControlPlayer(th)
    \/ IsSessionExpired(th) \/ HasUserCall(th) \/ GetUser(th)
    \/ HasTrackAdmin(th) \/ HasTrackNormal(th) \/ HasTrackFrom(th)
    \/ RemoveTrackCall(th) \/ RemoveVotesCall(th) \/ AddTrackCall(th)
    \/ VoteTrackCall(th) \/ GetQueueNormal(th) \/ GetQueueAdmin(th)

\* The scheduler's calls of nextTrack.
SchedulerStep ==
    /\ NextTrack(Scheduler) \/ RemoveVotesForTrack(Scheduler)
    /\ UNCHANGED call

JBNext ==
    \/ Tick /\ UNCHANGED call
    \/ SchedulerStep
    \/ \E th \in RequestThreads : RequestStep(th)

JBSpec == JBInit /\ [][JBNext]_jbVars

-----------------------------------------------------------------------------
(* Properties.                                                             *)

Stages == {"none", "addUser", "hasUser", "getUser", "hasTrackAdmin", "hasTrackNormal", "hasTrack",
           "removeTrack", "removeVotesForTrack", "addTrack", "voteTrack", "controlPlayer",
           "getQueueNormal", "getQueueAdmin"}

\* Type invariant of the request threads.
JBTypeOK ==
    /\ DSTypeOK
    /\ call \in [RequestThreads ->
            [req : Requests \cup {NoRequest}, at : Stages, from : QueueType \cup {"none"},
             track : BaseTrack \cup {NoTrack}, time : Nat,
             status : {0, 200, 400, 401, 403, 404, 422, 440, 500, 502}]]

\* Together the requests and the scheduler use the data store as RAMDataStore
\* says, so that what holds of it holds in the jukebox: no request starts a call
\* while its thread is inside another, and none changes the queues on its own.
ImplementsDataStore == DSSpec

\* A user whose session was found alive is still registered at the next call:
\* get<User>(getUser(sid)) at JukeBox.cpp:241, 277, 329 and 371 never meets an
\* Error, and the vote of a living session is never refused.
UserStillThere ==
    \A th \in RequestThreads :
        call[th].at \in {"getUser", "voteTrack"} => HasUser(call[th].req.sid)

\* Whatever the interleaving, the step of a request that puts a track into the
\* admin queue or takes a track out of a queue is made for an admin's session.
OnlyAdminsCurate ==
    [][call' # call /\ (\/ \E t \in TrackIds : HasTrack(t, "Admin")' /\ ~HasTrack(t, "Admin")
                       \/ \E t \in Queued : ~(t \in Queued'))
       => \E th \in RequestThreads :
              call'[th] # call[th] /\ mUsers[call[th].req.sid].isAdmin]_jbVars

\* Taken out by a moveTrack request that has yet to put it into the other queue.
InMove ==
    { t \in TrackIds : \E th \in RequestThreads :
        /\ Op(th) = "moveTrack"
        /\ call[th].at \in {"removeVotesForTrack", "addTrack"}
        /\ call[th].req.track = t }

\* No accepted track is lost: until the scheduler plays it or an admin removes
\* it, it is in a queue or in the hands of a moveTrack request that will put it
\* back, whatever removals, moves, adds and pops of the same track run beside it.
NoTrackLost ==
    [][\A t \in (Queued \cup InMove) \ (Queued \cup InMove)' :
          \/ call' = call
          \/ \E th \in RequestThreads :
                call'[th] # call[th] /\ Op(th) = "removeTrack" /\ call[th].req.track = t]_jbVars

\* RESTInterface.md:87 says that without a password "a normal (non-privileged) user
\* session is generated".
NoPasswordNoAdmin ==
    [][\A th \in RequestThreads : \A s \in DOMAIN mUsers' \ DOMAIN mUsers :
          At(th, "addUser") /\ call'[th] # call[th] /\ call[th].req.pw = "none"
             => ~mUsers'[s].isAdmin]_jbVars

=============================================================================
