# A TLA+ model of VirtualJukebox

VirtualJukebox lets the guests of a party queue tracks and vote for them over a
REST interface, and plays them through Spotify.  Admins have a queue of their
own that goes first, and may remove, move, skip and pause.  This directory holds
TLA+ modules of the parts in which threads meet, TLC configurations that check
them on small instances, and proofs, checked by TLAPS, of what holds for every
size.

All paths below are relative to the repository; `RESTInterface.md` is
`docs/src/RESTInterface.md`.

## 1. Inventory

| Component | State | Operations | Meets |
|---|---|---|---|
| `Datastore/RAMDataStore` | `mAdminQueue`, `mNormalQueue`, `mCurrentTrack` behind `mQueueMutex`; `mUsers` behind `mUserMutex` | `addUser`, `getUser`, `removeUser`, `isSessionExpired`, `addTrack`, `removeTrack`, `hasTrack`, `voteTrack`, `getQueue`, `getPlayingTrack`, `nextTrack` | every thread |
| `JukeBox` | none of its own but the session counter | `generateSession`, `queryTracks`, `getCurrentQueues`, `addTrackToQueue`, `voteTrack`, `controlPlayer`, `removeTrack`, `moveTrack`: each a series of data store calls with nothing held in between | data store, scheduler, backend |
| `Network/*` | none | one thread per connection; finds the endpoint, parses the fields, calls `JukeBox`, answers with a status per error | `JukeBox` |
| `Utils/SimpleScheduler` | `mSchedulerState`, `mLastPlaybackTrack`, two mutexes | its thread runs `doSchedule`; clients call `nextTrack` (skip), `getLastPlayback`, `checkForInconsistency` | data store, backend |
| `Spotify/SpotifyBackend` | `mPlayPauseMtx`, `mVolumeMtx` | `setPlayback`, `getCurrentPlayback`, `pause`, `play`, `getVolume`, `setVolume`, `queryTracks`, `createBaseTrack`, each with one retry after a refresh | Spotify, authorization |
| `Spotify/SpotifyAuthorization` | `mToken`, `mTokenReceiveTime`, `mMutex` | `getAccessToken`, `refreshAccessToken`, the callback of a login on the thread of a second server | backend, Spotify |
| `Spotify/SpotifyAPI` | none | one HTTP request per call | Spotify |
| `Utils/ConfigHandler`, `LoggingHandler`, `Serializer` | the parsed ini file | read, log, format | everybody |
| `main.cpp` | | wires the parts, runs until killed | |
| `lib/json`, `lib/SimpleIni` | | the JSON and ini parsers of other projects, unchanged | |

Nothing is persisted: a restart begins with empty queues, no users and no token.

What is hard, and what makes each part correct:

* **Data store.**  A step of one thread falls between any two critical sections
  of another.  `removeTrack` and `nextTrack` have two: the track leaves the queue,
  and its recorded votes are dropped later.  `addTrack` never sorts and `nextTrack`
  sorts after it has popped, so that the order of the next pop depends on what all
  earlier calls left.  *A track is in one place; pops come in playing order; counters
  and recorded votes agree.*
* **Requests.**  What one call answered is stale at the next: the user may expire,
  the track may be popped, removed, moved or added by somebody else.  *No accepted
  track is lost or doubled; only admins curate; a checked user is still there.*
* **Scheduler.**  It judges a poll that was taken without a lock, and shares the
  player with admins and with whoever else uses the Spotify account.  Spotify
  refuses calls, or does what was asked and lets the answer time out.  *It watches
  the track it started, pops no track in vain, cuts none off while all that it asks for
  is done, and goes on.*
* **Token.**  All threads are refused at once when the token expires; the local
  clock decides whether to refresh; a login writes the same members without the
  mutex.  *One refresh, and a retry with a new token.*
* **The current track.**  `getCurrentQueues` puts it together from the playback the
  scheduler published, the current track of the data store and
  `checkForInconsistency`, three reads at different moments.  *An inconsistency is
  reported only if something other than the scheduler started a track, or something
  changed meanwhile.*
* **Volume.**  It is read and written in two calls, lowered in `size_t`, where it wraps
  below zero, and converted to `int` before it is clamped.  *A request moves the volume
  it has read by at most a step, in its direction.*
* **Locks.**  Eight mutexes, some shared, one recursive, are nested by the scheduler,
  the requests and the refresh of the token.  *No threads wait for each other in a
  circle, and nobody gets between the two mutexes of the scheduler.*
* **The whole.**  The scheduler pops from queues that requests change all the time, and
  shares its player with the requests.  *It behaves as it does alone; an accepted track
  is played, refused by Spotify or removed by an admin; only admins control it.*

The list of hazards, each at its line and with the properties that cover it, is in
`PROJECT.json`.

## 2. Modules

```
TrackQueue            queued tracks, their order, the vector operations
  RAMDataStore        the data store, a step per critical section
    implements Playlist            what it promises (abstract)
    VoteLedger        + history: the tracks whose votes are all accounted for
    JukeBox           + the requests, a step per data store call, and the scheduler's pops
      RestEndpoints   (instance) from the HTTP message to the call, from the error to the status
      JukeBoxHistory  + history: when each session was last active
      implements RAMDataStore
Playlist
  SimpleScheduler     the scheduler's thread, the player, admins and other users of Spotify
    QueueStatus       + a client that asks for the current track again and again
SpotifyAuthorization  the access token, its refresh and the login
JukeBox, SimpleScheduler
  VirtualJukebox      the requests, the scheduler and the player over one data store
    implements JukeBox and, over the data store's queues, SimpleScheduler
LockOrder             the eight mutexes and the sections in which they are nested
  VolumeControl       + the volume, read in one section and set in another

*Proofs               theorems, a module per component
MC*                   instances for TLC
```

An operator named as wrong in its comment ("Wrong: ...") is a variant of the
definition after it, with a plausible mistake.  No action uses one; each shows that a
property notices the mistake when the variant takes the definition's place.

### TrackQueue
A queue is a sequence of records: `trackId`, `addedBy`, `votes`, `insertedAt`.
Title, artist, album and icon are carried along unread by the code and are left
out.  `Before` is `QueuedTrack::operator<`.  `std::sort` is not stable, and
`insertedAt` is in seconds, so tracks may tie: `SortsOf` is the set of all sorted
arrangements, and a sort picks any of them.

### RAMDataStore
`queue["Admin"]` and `queue["Normal"]` are the two vectors.  A step is one critical
section; a call that returns an error changes nothing and is a stuttering step.
A thread between the two critical sections of `removeTrack` or `nextTrack` has the
track in `clearing[th]`.  The order of `nextTrack` is that of the code: pop from the
admin queue if it has a track, else from the normal queue; set the current track; sort
the normal queue; later drop the votes.  `voteTrack` records a vote whether or not
the track is queued, and counts it only if it is in the normal queue.
`isSessionExpired` moves the expiration date of a copy, so here it changes nothing.
`generateSession` issues increasing IDs, so an ID is never issued twice (`issued`).

### Playlist
What the data store promises to the scheduler: `admin`, a sequence; `user`, a set,
because any of the tracks may be next as votes change; `current`.  A pop takes the
first admin track or, if there is none, any user track.

### RestEndpoints
Pure operators.  `Endpoint` is the table of paths with the method and the fields each
handler parses.  A raw request has a path, a method, a body that may not be JSON, and in
the place of each field a value, nothing, or a value of the wrong type; the arguments of a
GET are strings.  `Refusal` says how the server turns one down and `Decode` what it
passes on, such as a vote cut to 32 bits.  `stoi` takes `"7x"` apart, which the handler
notices, and throws for what no `int` holds, which it does not: that request ends as an
exception.  `StatusOf` is `mapErrorToResponse`.

### JukeBox and JukeBoxHistory
`call[th]` is the request a thread serves and the call it makes next, with the
handler's locals.  A step makes that call and runs to the next one; the first also decodes
the request.  Of a finished request only the HTTP status is kept.  All eight
requests are there.  `generateSession` computes the expiration date before it calls `addUser`
(`time`), and ends early if the configuration lacks the admins' password; the ID of an added
track is the one in Spotify's answer, which need not be the one that was asked for.  They carry any session ID, known or not, and `Refuse` stands for
those that never reach the jukebox.  The scheduler's thread pops at any time.
`User user;` leaves `isAdmin` uninitialized if no password is given: the model lets it be
either.  What `controlPlayer` does once the admin is known is in SimpleScheduler (skip,
pause, play) and in VolumeControl, and here it is an outcome.  `JukeBoxHistory` adds
`lastActive`.

### SimpleScheduler
The scheduler's two mutexes are always taken together and in the same order, so they
are one lock (`OneLock` of LockOrder), held while `pc` is past `"polled"`.  A cycle is: poll (nothing held),
then one of the four states.  `areQueuesEmpty` reads the two queues in two steps.
`player` is what Spotify plays; progress is zero or not, which is all the code
compares.  `Interference` says what may happen beside it: `"fail"` (Spotify refuses a
call), `"late"` (it does what was asked, but the answer times out), `"pause"`, `"skip"`,
`"withdraw"` (a queued track is removed), `"foreign"` (Spotify's user plays, pauses, seeks
or opens a player), `"close"` (the player goes away).  What its user plays, or a closed player
comes back with, is any track: one from elsewhere (`Foreign`), the one that played before the
player was closed, or another of the jukebox.  `setPlayback` transfers the playback to the
configured device if there is none, which resumes what that device played before
(`TransferredPlayers`, any track again), and then starts the track.  A failing `setPlayback`
may have done nothing, only the transfer, or, `"late"`, all of it.  `handed`, `heard`,
`paused`, `refused`, `excused` and `meddled` are history: `excused` says that an admin used
the player or an answer was lost, and `meddled` that Spotify's user or a transfer started
something, each since the last successful `setPlayback`.

### QueueStatus
One client beside the scheduler, with a step per critical section of `getCurrentQueues`.
`getLastPlayback` returns a reference whose content the caller copies after the lock is
released: `looked` is what was there, and the copy `seen` is that or what has been assigned
since.  `expected` is the data store's current track.  `checkForInconsistency` holds both
mutexes of the scheduler, shared, over its reads of the two queues, and keeps the
scheduler and skip requests out meanwhile.  `status` is the answer, in the step that gives
it; `moved` is history.

### VirtualJukebox
The jukebox as the constructor of `JukeBox` wires it.  `Sched` is SimpleScheduler with the
data store's queues and current track in the place of the playlist's.  A step of the
scheduler's thread is one of `Sched` that leaves the requests alone; its pop is the data
store's `nextTrack`, whose second critical section, `DropVotes`, comes before the track is
handed to Spotify (`Free(Scheduler)`).  A request is one of `JukeBox`, and only
`controlPlayer` may take a step of `Sched` with it: skip, pause or resume, or none, for
volumes and errors.  The only withdrawals are those that requests make.

### SpotifyAuthorization
A caller reads the token, calls Spotify, and, if refused as expired, goes through
`refreshAccessToken` and tries once more.  An access token is known by the time of
its issue: Spotify refuses it `Lifetime` later.  `mToken` and `mTokenReceiveTime`
are written one after the other, under the mutex by a refresh, in the other order and
without the mutex by a login.  Assigning `mToken` copies strings.  Who reads one
meanwhile races with it: the read may return the old string or `Torn`, and two
overlapping assignments may leave `Torn`.

### LockOrder
`held[th]` is a thread's stack of locks, each exclusive or shared; `std::lock` of two is
one element.  A section is a call that begins and ends with nothing held, given as the
series of stacks (`goals`) at which the code does something; a thread unlocks from the top
and locks until it holds the next one.  A call of Spotify that is refused as expired adds
a goal with `mMutex` on top of all that is held, and is made once more.  `mUserMutex` may be
taken again by its holder.  Any other lock that is taken twice, shared or not, blocks.

### VolumeControl
The same sections, with what `getVolume` and `setVolume` do: `change[th]` is what a request
has read, between the two.  `AsSize`, `AsInt` and `Clamp` are the conversions on the way
from the request to Spotify.  The volume is read off the device that plays (`active`) and
set on the configured one, or on the one that plays if that is not available.

## 3. Runs

| Run | Question | Bounds |
|---|---|---|
| `data_store` | Is a track ever queued twice, or out of order?  Is this the playlist?  Do counters and recorded votes agree? | 2 tracks, 2 sessions, 2 threads, 2 instants |
| `requests` | Do the requests use the data store as specified?  Who changes the queues?  Is a track lost, or a user gone in mid-request? | all requests; 1 track, 1 session (an admin's or a guest's), 2 request threads and the scheduler, 2 instants |
| `scheduler` | Five safety properties with every disturbance | 2 tracks, 2 skips |
| `queue_status` | Is a change of track ever reported as an inconsistency?  When is a nickname wrong?  Does the playlist always go on, with failing calls, skips and a client that never stops asking? | 2 tracks, 1 skip |
| `spotify_tokens` | Is the token refreshed once, and is the retry made with a new one? | 2 callers, any number of logins, 8 instants, lifetime 4, margin 2, latency 1 |
| `locks` | Can threads block each other for ever?  Do the scheduler's two mutexes act as one?  What does a volume request do? | 2 clients and the scheduler, 1 device, volumes 0 and 1, step 1, 3-bit `int`, 4-bit `size_t` |
| `whole` | Do the requests and the scheduler, put together, still behave as each does alone?  Is a track forgotten on its way through both?  Who controls the player? | 1 track, 1 session, 1 request thread and the scheduler, 2 instants, 1 skip; requests to get a session, add, remove, move and control; failing calls, pauses, skips |

Five more runs are refuted, see section 4.

Why these bounds are enough to meet the interesting cases:

* Two tracks are the fewest that can be out of order, in two places, or in a queue while
  the other plays.  Two instants make ties and non-ties of `insertedAt` and let a session
  expire.  Two sessions give a counter that one user alone cannot make, and votes of which
  one is dropped and the other is not.  Two threads reach every window between two
  critical sections, such as a vote while another thread is about to drop the old ones.
  What a third track, user or thread would add is covered by the proofs, which are for all
  numbers.
* A request reads at most one track, so one track is enough for requests that race:
  all want the same.  A move has two steps, and in between the other request may add or
  remove the track, or the scheduler pop it.  The second instant ends the session.
* The scheduler needs two tracks to confuse one with the next.  Two skips let one hit
  the cycle that the first one restarted.  The view of `scheduler` leaves out `heard`, which
  only `LongTracks` reads, and `paused`, which only `AdminPauseHolds` reads; neither is used in
  this run.
* The times are small multiples: the token lives long enough to be stored and expire
  twice, and the latency is half the margin, as `cRequestTimeout` (five seconds) is half
  of the ten seconds that `getExpiresAt` subtracts.
* A circle of waiting needs as many threads as locks that it goes through.  Two clients
  and the scheduler find every circle of two or three; the proof covers the others.  With
  volumes zero and one, lowering zero wraps and raising one is clamped, which are the edges;
  the proof covers every range and any number of devices.
* In `whole` the hard case is one request against the scheduler's thread, over a track both
  want; what requests do to each other is the question of `requests`.  Reads and votes
  change neither the set of queued tracks nor the player and are left to `requests`.  The
  view leaves out the HTTP status of the last answer, and of the scheduler's history `heard`,
  `paused`, `excused` and `meddled`: no step (`heard` needs `LongTracks`) and no property of
  this run reads them but to carry them on, so states that differ only there have the same
  futures.

`MaxTime`, `MaxSkips` and the finite sets are the only bounds; each is a constant.

### What they show

* `DSTypeOK`, `JBTypeOK`, `SSTypeOK`, `QSTypeOK`, `AuthTypeOK`: types.  `VCTypeOK` also says
  that no volume leaves its range.
* `NoTrackQueuedTwice`: over both queues, whatever runs side by side.
* `SortedUnlessDownvoted`: no track stands behind one it should precede, unless
  the one ahead has a negative counter.  This is why `addTrack` may skip the sort: a new
  track has no votes and the latest time, so the end is its place, but only if no
  counter is negative.
* `ImplementsPlaylist`: refinement of `Playlist`.
* `LedgerExact`: for a track added when nobody had a vote recorded for it, the
  counter is the number of users whose vote is recorded.  `DebtBounded`: in general it
  falls short by at most one per session.
* `ImplementsDataStore`: what is shown of the data store holds under the requests.
* `OnlyAdminsCurate`, `NoTrackLost`, `UserStillThere`: see section 1.
  The last one holds because nothing calls `removeUser`; what it checks of the requests is
  that each asks for its session before it reads the user.
* `WatchesHandedTrack`: in the states that watch a track, it is the one last given to
  Spotify and the current one.
* `ReportConsistent`: `getCurrentQueues` compares the last playback with the current
  track and reports a difference in the state `Playing`; the jukebox's own changes of track
  never look like one.  There is a difference only if Spotify's user has used the player
  since the current track was started.
* `NothingPoppedInVain`: a popped track is not played only if Spotify refused it.
* `NeverCutOff`: the scheduler never starts a track over the one it is playing, whatever
  polls fail, tracks are refused and players are closed, unless since that track was started
  an admin or Spotify's user used the player, an answer got lost, or a transfer resumed what
  the device played before.  The last two are real: in `Idle` the scheduler asks only whether
  a track is queued and never what plays.  If a track plays, the player goes away, the next
  track is popped, and the transfer resumes the first one while the start of the second is
  refused, then the third is started over the first; so is a track with which a closed player
  comes back.
* `InconsistencyExplained`: an answer that reports an inconsistency was given after
  Spotify's user or a transfer started a track, or the state, the last playback or the current
  track changed during the request.
* `WrongNicknameExplained`: how far the code is from the promise that `right_nickname`
  refutes (section 4): a track of the jukebox is shown with another one's nickname only if
  something changed during the request, the scheduler is not in `Playing`, or Spotify's user
  chose the track.
* `PlaylistAdvances`: a queued track is followed by a pop, or the queues are emptied.
* `RetryWithNewToken`, `RefreshOnlyExpired`: see section 1.  `RefreshTokenKept`: whoever has
  an access token has a refresh token, however assignments race.
* `NoCircularWait`: of any set of threads, one waits for none of the set.
* `OneLock`: who is past both mutexes of the scheduler exclusively is alone past either;
  who shares both keeps out whoever wants one for itself.  It is why the modules about the
  scheduler have one lock for the two.
* `ImplementsScheduler`: over the data store's queues, and beside the requests, the
  scheduler's thread takes the steps of SimpleScheduler.  A request that popped a track
  itself, or changed a track that is being popped, would not.
* `NoTrackForgotten`: a track is queued, in the hands of a move, or popped and not yet
  handed over; it leaves these places only by being started, by an error of Spotify
  that is reported, or by the removal of an admin.  `NoTrackLost` ends at the pop; this one
  goes on to the player.
* `OnlyAdminsControl`: a request that changes the player or the scheduler's state is that
  of an admin.
* `VolumeStepBounded`: see section 1.  What it bounds is a request's own change: two
  requests that read the same volume may count as one.

### Fairness

Only `queue_status` needs any, for `PlaylistAdvances`.  `SF(SchedulerStep)`: `threadFunc`
loops for ever and sleeps with nothing locked, and the one client holds a lock only within
a request, so the scheduler finds its mutexes free again and again and takes them.
`SF(PollAnswered)`: polls may fail again and again, but not for ever.  `WF(Advance)`,
`WF(Finish)`: a playing track goes on and ends.  `SF(GetCurrentQueues)`: a client that
is in a request gets through it.  Nothing is assumed of `setPlayback`, which may be refused for
ever, as each refusal costs a track, nor of skip requests and of other clients.

Three things are left out of this run because the code does not survive them:

* `LongTracks`: a track must not end before a poll has seen it play.  If it does, the
  scheduler, in `CheckPlaying`, starts it again.  A poll comes a second after the
  last (`cScheduleIntervalTimeMs`).
* `"close"`: without a playback `CheckPlaying` polls for ever (`SimpleScheduler.cpp:253`)
  until somebody skips or starts a playback by hand.  Likewise `"foreign"` and `"pause"`
  hand the player to people who may never give it back.
* `"withdraw"`, moves: an admin who removes and adds tracks for ever, or moves one back
  and forth between the two reads of `areQueuesEmpty`, always at the right moment, keeps the
  scheduler from seeing any.

## 4. Where the code and its documents disagree

Each is a run that TLC refutes.

| Run | Promise | What happens |
|---|---|---|
| `vote_twice` | `RESTInterface.md:259`: "A user cannot vote for the same track twice" | The track is popped, queued again and voted for before the popping thread drops the old votes.  It drops the new one, which stays counted; the user votes again. |
| `active_session` | `RAMDataStore.cpp:94`: "Advance expiration time, since user was active" | It is advanced in a copy.  Every session ends a fixed time after its generation. |
| `pause_overridden` | `RESTInterface.md:317`: `"pause"`: "Pauses the playback." | An admin pauses while the scheduler is in `CheckPlaying`; it calls `play()`. |
| `no_password_admin` | `RESTInterface.md:87`: without a password a "non-privileged" session is generated | `isAdmin` is never initialized, so the session may be an admin's. |
| `right_nickname` | `RESTInterface.md:213`: "The nickname of the user who added a specific track can be found in the `added_by`" | After a change of track the next poll has yet to come: the track of the last one is shown with the nickname of the current one. |

Others were met while modelling and are kept in the model as the code has them:

* A vote for a track that is not queued is recorded.  Add the track and revoke the vote,
  and it has minus one (`RESTInterface.md:259` excludes a downvote).  Hence the
  tracks that `LedgerExact` leaves out, and `DebtBounded`.
* A track can be popped although one with more votes waits, once a counter is negative
  (`README.md:11` says the highest vote count is played next).
* A track that is moved while `getCurrentQueues` copies the queues shows in both or in
  neither (`RESTInterface.md:394`).
* The playing track can be queued again (`RESTInterface.md:223` says it cannot while
  `getCurrentQueues` returns it).
* Moving a track to the queue it is in is refused (`RESTInterface.md:362` says nothing
  happens), and a moved track keeps the nickname of the user who added it
  (`RESTInterface.md:339` says it gets the admin's).
* An unknown session is answered with 400, not 440 (`RESTInterface.md:68`).
* A `max_entries` that no `int` holds is answered with 500, not 422; a vote of 2^32
  revokes.
* Two volume requests at once may count as one, and the volume of the device that plays
  may be set on another (`RESTInterface.md:320`).
* A login in progress makes a caller refresh the token it has just brought
  (`RefreshOnlyExpired` has an exception for it).

## 5. Proofs

All for any sets of tracks, sessions, profiles, threads and devices, any disturbances and
any times, within the assumptions below.

| Module | Theorem | Says |
|---|---|---|
| `RAMDataStoreProofs` | `EraseProperties`, `SortProperties`, ... | what the vector operations return, preserve and bound |
| | `TypeCorrect` | `DSSpec => []DSTypeOK` |
| | `QueuedOnce` | `DSSpec => []NoTrackQueuedTwice` |
| | `PlayingOrder` | `DSSpec => []SortedUnlessDownvoted` |
| | `PlaylistImplemented` | `DSSpec => ImplementsPlaylist` |
| `VoteLedgerProofs` | `VotesCounted` | `VLSpec => []LedgerExact` |
| | `DownvotesBounded` | `VLSpec => []DebtBounded` |
| `JukeBoxProofs` | `DataStoreImplemented` | `JBSpec => ImplementsDataStore` |
| | `RequestsTyped` | `JBSpec => []JBTypeOK` |
| | `UserStays` | `JBSpec => []UserStillThere` |
| | `AdminsCurate` | `JBSpec => OnlyAdminsCurate` |
| | `TracksKept` | `JBSpec => NoTrackLost` |
| `SchedulerProofs` | `SchedulerTyped` | `SSBehaviour => []SSTypeOK` |
| | `HandedTrackWatched` | `SSBehaviour => []WatchesHandedTrack` |
| | `ReportsConsistent` | `SSBehaviour => []ReportConsistent` |
| | `PopsNotInVain` | `SSBehaviour => []NothingPoppedInVain` |
| | `TracksNotCutOff` | `SSBehaviour => NeverCutOff` |
| `QueueStatusProofs` | `StatusTyped` | `QSSpec => []QSTypeOK` |
| | `InconsistenciesExplained` | `QSSpec => InconsistencyExplained` |
| | `WrongNicknamesExplained` | `QSSpec => WrongNicknameExplained` |
| | `SchedulerUndisturbed` | `QSSpec => SSBehaviour` |
| `VirtualJukeboxProofs` | `RequestsImplemented` | `VJSpec => JBSpec` |
| | `StoreSound` | what is proved of `DSSpec` and `JBSpec` above, from `VJSpec` |
| | `SchedulerImplemented` | `VJSpec => ImplementsScheduler` |
| | `SchedulerSound` | what is proved of `SSBehaviour` above, over the data store's queues, from `VJSpec` |
| | `NoneForgotten` | `VJSpec => NoTrackForgotten` |
| | `AdminsControl` | `VJSpec => OnlyAdminsControl` |
| `SpotifyAuthorizationProofs` | `AuthTypeCorrect` | `AuthSpec => []AuthTypeOK` |
| | `NewTokenRetried` | `AuthSpec => []RetryWithNewToken` |
| | `OnlyExpiredRefreshed` | `AuthSpec => RefreshOnlyExpired` |
| | `RefreshTokenStays` | `AuthSpec => []RefreshTokenKept` |
| `VolumeControlProofs` | `LocksDeadlockFree` | `LOInit /\ [][LONext]_loVars => []NoCircularWait` |
| | `DeadlockFree` | `VCSpec => []NoCircularWait` |
| | `LocksActAsOne` | `VCSpec => []OneLock` |
| | `VolumeTyped` | `VCSpec => []VCTypeOK` |
| | `VolumeMovesAStep` | `VCSpec => VolumeStepBounded` |

`SSBehaviour` is `SSSpec` without its fairness.  That is every safety property of the passing runs.  Only `PlaylistAdvances` is
model-checked alone: TLAPS proves neither liveness under fairness nor facts about
`ENABLED`.

**Data store.**  None of the invariants is inductive alone.  A track appended to a
queue is in order only because its time is not before any other's, so the inductive
invariant `IInv` says that no track was inserted in the future (`InsertedBy`).  The
admin queue is never sorted and stays in order only because its tracks are never voted
for (`Uncounted`).  That a pop leaves the rest in order and that erasing one of two
equal IDs cannot happen needs uniqueness within a queue and over both.  There is one
lemma per operation, each from the lemmas on sequences that the module begins with.

**Playlist.**  The mapping takes the admin queue to its sequence of IDs, the normal
queue to its set of IDs, and the current track to its ID.  Each operation gets a
lemma: `addTrack`, `removeTrack` and `nextTrack` are steps of the playlist; votes,
sorts, users and the clock are stutters, because a sort keeps the set of IDs.  The
proof uses `QueuedOnce`: erasing an ID removes it from the set only if it is there once.

**Votes.**  A counter changes in the queue's critical section and the recorded votes of a
track that is taken out are dropped in a later one.  In between, `LedgerExact` could fail
for a track that is queued again, and what keeps it is that the ledger has no such track:
`LedgerInv` says that the ledger is part of the normal queue and that no thread is still
dropping votes of one of its tracks.  A vote then changes the counter and the number of
entries by the same amount; a pop, a removal or a sort takes the pair of a track away whole
or leaves it; and dropping another track's votes touches none of the ledger.  `DebtBounded`
follows from the same steps: a track enters a queue with no votes and at most one entry per
session, and from then on the difference only shrinks.

**Requests.** The data store's theorems carry over by `DataStoreImplemented`, step by
step: every step of a request is an operation of the data store or a stutter, by a thread
that is inside no other. The inductive invariant `JBInv` adds four facts to the types: at
each call the locals are those of a request that makes it (`Shape`), no expiration date is
computed from a time to come (`Timely`), a request past its
session check has its user registered (`Registered`), and one past `getUser` that only an
admin may make belongs to one (`Authorized`). No request removes a user (nothing calls
`removeUser`) and none changes what a user is, so these stay; the other theorems are read
off them action by action.

**Scheduler.**  None of the properties is inductive, and `IInv` of `SchedulerProofs` proves
all five together.  It adds what a cycle may rely on: between the pop and `setPlayback` the
state is still `PlayNextSong` and there is a track (`Popped`); the question put to the
queues is still the same when the second is read (`Asking`); while a track is watched,
neither Spotify nor the last poll shows another track, unless `meddled` (`ShowsOurs`, for
`ReportConsistent`); and, unless excused or meddled, the track before does not play in the
states that lead to a pop (`Silent`), because whatever plays when a poll is judged also
played when it was taken (`PolledIt`), which is `NeverCutOff`.  A transfer happens only
without a playback, and sets `meddled` if it is all that came of `setPlayback`.  A step of the client in
`QueueStatus` leaves all of that alone, so the same invariant holds there (and
`SchedulerUndisturbed`).  Its own part,
`Fresh`, says that what a request has read is what it would read now, unless `moved`.
If nothing has moved and the scheduler is in `Playing`, `ReportConsistent` relates the two
reads; both explanations follow from that.

**The whole.**  Two refinements carry everything over.  Towards the requests
(`RequestsImplemented`) each step is one of `JBNext` or leaves `jbVars` alone.  Towards the
scheduler (`SchedulerImplemented`) a step of a request must be invisible or a step of the
playlist's clients: `StoreStep` of `JukeBoxProofs` says which operation of the data store a
request performs, and the lemmas of `PlaylistImplemented` turn it into an enqueue, a
withdrawal, or nothing the scheduler reads; the admin's player actions are steps of `Sched`
by definition.  A pop is a step of both at once, and `PopsAgree` shows that the track the
data store takes out is one the playlist allows.  The first refinement brings the invariant
`JBInv` along, and with it that the track a request removes or moves is the one it was asked
about and that its session is an admin's (`Authorized`).  `NoneForgotten` goes through the
steps with it: a pop leaves its track in `CurrentId`, and until `pc` leaves `"setPlayback"`
nobody pops another, so that what was `Loaded` is what is handed over.

The proofs about the scheduler are those of `SchedulerProofs`, instantiated (`SP`) with the
same substitution as `Sched`; the lemmas `Same...` say that the two instances agree.

**Token.**  A retry with the refused token would need the local clock to call an
expired token good.  `IInv` of `SpotifyAuthorizationProofs` says that the receive time is
at most twice the latency after the issue (`TimeIsClose`): once for the request whose
token is stored, once more for a login that stores its time after a refresh has
overwritten its token (`GapIsYoung`).  The assumption `2 * Latency <= Margin` then
gives the theorem, and it is exactly what the code has: two requests of at most five
seconds and a margin of ten.  The bound fails while the holder of the mutex has
written the next time but not yet the token, when nobody else can check
(`MutexHeld`).  `TimeIsLate` is the other direction, for `OnlyExpiredRefreshed`.

For `RefreshTokenKept`, `Kept` says that a refresh that was answered finds the refresh token
still there, and that one that is being stored has taken it over.  Overlapping
assignments leave a token that was assigned or a torn string, and neither is empty.

**Locks.**  Each lock has a rank: `playback`, then `state`, then `playPause`, `volume`,
`queue`, `user` and `userID` together, then `token`.  Every section takes locks in rising
rank; `queue` and `user` are held together only by `std::lock`, which takes both or waits
with neither, and the second `user` of `isSessionExpired` is recursive.  In a circle of waiting
threads each would wait for a lock that ranks higher than the one the thread behind it waits
for, so the proof goes down the four ranks and finds none that anybody in the circle can
wait for.  For `OneLock`, every stack in which `state` occurs has `playback` below it, in
the same mode (`Guarded`): mutual exclusion for the first mutex is then mutual exclusion
for the pair.

**Volume.**  `SizeModulus % IntModulus = 0` makes the wrap in `size_t` vanish in the
conversion to `int`: `AsInt(AsSize(n)) = n` for all differences that occur.  What is left
is arithmetic on `Clamp`.

Assumptions: `NoTrack` is neither a track ID nor a track; `isAdmin` is a Boolean; the
timeout and the bounds are naturals; `Foreign` is no track ID and
the words for no playback and for an error are neither tracks nor playbacks; in
VirtualJukebox admins may withdraw tracks (`"withdraw" \in Interference`), which the requests
do; `NoToken` and `Torn` are
not times, neither is the word for a refresh token, and `NoOne` is not a thread;
`LatencyAssumption` as above, which also assumes that a thread is not delayed for seconds
between an answer and its storage; `mUserMutex` alone is recursive, and the scheduler is
one of the threads; `int` holds the volumes with their sign, and the width of `size_t` is at
least that of `int`, so that one modulus divides the other.

## 6. Not modelled

* Configuration, logging, the JSON of the answers (`Serializer`), the URLs and the JSON of
  Spotify (`SpotifyAPI`), and the parsers of `lib/`, which make up most of the lines of the
  repository: no behaviour over time.
* Titles, artists and icons; `queryTracks` of the backend, which keeps nothing.
* The query string of the login redirect, cut up with a length where a position is
  meant: a property of it would be one about characters.
* Start and shutdown.  The destructor of `JukeBox` frees what the scheduler's thread uses,
  which is undefined from then on, and the process ends.
* A crowd of readers that keeps the scheduler from its mutexes for ever: whether it can is
  up to the library's `shared_mutex`.
* Strings torn by a race other than the token's, such as the reference that
  `getLastPlayback` returns, of which the model copies the old or the new content.
* The wrap-around of the clock, of the session counter and of vote counters, none of
  which a party reaches.

## 7. What is left

1. Tokens of different logins told apart: an access token of one may end up beside the
   refresh token of another.
2. Liveness with many readers, once for each policy a `shared_mutex` may have.
3. The client of QueueStatus beside the requests of VirtualJukebox: it is checked beside
   the playlist, and the proofs show that it changes nothing.
