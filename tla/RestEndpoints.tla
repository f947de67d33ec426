---------------------------- MODULE RestEndpoints ----------------------------
(***************************************************************************)
(* How the REST server reads a request and answers an error: the table of  *)
(* endpoints, the fields each of them parses, and the HTTP status of each  *)
(* error code.  A request is a path, a method, and either a body, which    *)
(* may not be JSON, or query arguments, which are always strings.          *)
(***************************************************************************)
EXTENDS Naturals

CONSTANTS
    SessionIds,  \* the session IDs clients send
    TrackIds     \* the track IDs clients send

\* What may be found in the place of a field.
Absent == "absent"
WrongType == "wrongType"

\* The endpoints: their method, and the fields a handler insists on and those it
\* does without.
Endpoint == [
    generateSession  |-> [method |-> "POST", required |-> {}, optional |-> {"password"}],
    queryTracks      |-> [method |-> "GET", required |-> {"pattern"}, optional |-> {"max_entries"}],
    getCurrentQueues |-> [method |-> "GET", required |-> {"session_id"}, optional |-> {}],
    addTrackToQueue  |-> [method |-> "POST", required |-> {"session_id", "track_id"},
                          optional |-> {"queue_type"}],
    voteTrack        |-> [method |-> "PUT", required |-> {"session_id", "track_id", "vote"},
                          optional |-> {}],
    controlPlayer    |-> [method |-> "PUT", required |-> {"session_id", "player_action"},
                          optional |-> {}],
    moveTrack        |-> [method |-> "PUT", required |-> {"session_id", "track_id", "queue_type"},
                          optional |-> {}],
    removeTrack      |-> [method |-> "DELETE", required |-> {"session_id", "track_id"},
                          optional |-> {}]]

Paths == DOMAIN Endpoint
Methods == {"GET", "POST", "PUT", "DELETE"}

FieldsOf(path) == Endpoint[path].required \cup Endpoint[path].optional

\* "play" stands for pause, skip, volume_up and volume_down as well: what they do is
\* modelled elsewhere.
PlayerActions == {"play", "stop"}

\* The values of each field.  The nickname says nothing about what is done.
Values(f) ==
    IF f = "session_id" THEN SessionIds
    ELSE IF f = "track_id" THEN TrackIds
    ELSE IF f = "queue_type" THEN {"admin", "normal", "unknown"}
    ELSE IF f = "player_action" THEN PlayerActions \cup {"unknown"}
    ELSE IF f = "password" THEN {"right", "wrong"}
    ELSE IF f = "vote" THEN {"0", "1", "4294967296"}
    ELSE IF f = "max_entries" THEN {"7", "7x", "x", "99999999999"}
    ELSE {"any"}

\* The arguments of a GET are strings and there is no body to parse.
InBody(path) == Endpoint[path].method # "GET"

Raw(path, method) ==
    [path : {path}, method : {method}, json : IF InBody(path) THEN BOOLEAN ELSE {TRUE},
     field : { v \in [FieldsOf(path) ->
                        UNION { Values(f) : f \in FieldsOf(path) } \cup {Absent, WrongType}] :
               \A f \in FieldsOf(path) :
                    v[f] \in Values(f) \cup {Absent} \cup (IF InBody(path) THEN {WrongType} ELSE {}) }]

-----------------------------------------------------------------------------
(* Decoding.                                                               *)

Dispatched(raw) == raw.path \in Paths /\ raw.method = Endpoint[raw.path].method

\* stoi reads what it can: a letter first is no integer, one at the end is noticed.
BadParameter(raw) ==
    raw.path = "queryTracks" /\ raw.field["max_entries"] \in {"7x", "x"}

BadValue(raw) ==
    \E f \in {"queue_type", "player_action"} \cap FieldsOf(raw.path) : raw.field[f] = "unknown"

Malformed(raw) ==
    \/ ~raw.json
    \/ \E f \in Endpoint[raw.path].required : raw.field[f] = Absent
    \/ \E f \in FieldsOf(raw.path) : raw.field[f] = WrongType
    \/ BadParameter(raw)
    \/ BadValue(raw)

\* An integer out of range is an exception that no handler catches.
Throws(raw) == raw.path = "queryTracks" /\ raw.field["max_entries"] = "99999999999"

Refusal(raw) ==
    IF ~Dispatched(raw) THEN "NotFound"
    ELSE IF Malformed(raw) THEN "InvalidFormat"
    ELSE IF Throws(raw) THEN "Exception"
    ELSE "none"

Given(raw, f, default) ==
    IF f \in FieldsOf(raw.path) /\ raw.field[f] # Absent THEN raw.field[f] ELSE default

\* get<int> of the vote keeps its lower 32 bits.
Truncated(vote) == IF vote = "4294967296" THEN "0" ELSE vote

\* What a handler passes on to the jukebox.
Decode(raw) ==
    [op     |-> raw.path,
     sid    |-> Given(raw, "session_id", "none"),
     track  |-> Given(raw, "track_id", "none"),
     to     |-> IF Given(raw, "queue_type", "normal") = "admin" THEN "Admin" ELSE "Normal",
     vote   |-> Truncated(Given(raw, "vote", "0")) # "0",
     action |-> Given(raw, "player_action", "none"),
     pw     |-> Given(raw, "password", "none")]

RawRequests == UNION { Raw(path, method) : path \in Paths, method \in Methods }

\* The requests that reach the jukebox, and how the others are refused.
Requests == { Decode(raw) : raw \in { r \in RawRequests : Refusal(r) = "none" } }
Refusals == { Refusal(raw) : raw \in RawRequests } \ {"none"}

-----------------------------------------------------------------------------
(* Answering.                                                              *)

\* The errors of the music backend that the code can produce.
SpotifyErrors ==
    {"SpotifyNotFound", "SpotifyForbidden", "SpotifyAccessDenied", "SpotifyParseError",
     "SpotifyAPIError", "SpotifyBadRequest", "SpotifyHttpTimeout", "SpotifyNoDevice",
     "SpotifyAccessExpired"}

\* mapErrorToResponse, and the handlers of requests that reach no endpoint's function.
\* What is not in the table, SpotifyAccessExpired and exceptions among it, is a 500.
StatusOf(result) ==
    IF result = "Ok" THEN 200
    ELSE IF result = "WrongPassword" THEN 401
    ELSE IF result \in {"AccessDenied", "SpotifyForbidden", "SpotifyAccessDenied"} THEN 403
    ELSE IF result = "SessionExpired" THEN 440
    ELSE IF result \in {"NotFound", "FileNotFound", "KeyNotFound", "SpotifyNotFound",
                        "SpotifyNoDevice"} THEN 404
    ELSE IF result = "InvalidFormat" THEN 422
    ELSE IF result \in {"InvalidValue", "NotInitialized", "SpotifyParseError", "SpotifyBadRequest",
                        "SpotifyHttpTimeout", "AlreadyExists", "DoesntExist"} THEN 400
    ELSE IF result = "SpotifyAPIError" THEN 502
    ELSE 500

=============================================================================
