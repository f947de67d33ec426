------------------------ MODULE SpotifyAuthorization ------------------------
(***************************************************************************)
(* The access token that every call of Spotify carries, and its refresh.   *)
(* The threads of requests and of the scheduler (Callers) read mToken with *)
(* nothing held, and one whose call is refused because the token expired   *)
(* refreshes it under mMutex and tries once more.  The thread of the login *)
(* server writes mToken and mTokenReceiveTime without that mutex.          *)
(*                                                                         *)
(* An access token is known by the time at which Spotify issued it: it is  *)
(* refused Lifetime later.  A thread in "write" is inside an assignment of *)
(* mToken, a copy of strings; who reads a string meanwhile may get Torn,   *)
(* and what two overlapping assignments leave may be Torn.                 *)
(***************************************************************************)
EXTENDS Integers

CONSTANTS
    Callers,
    Lifetime,  \* expires_in, in seconds
    Margin,    \* what getExpiresAt subtracts
    Latency,   \* bound on the time from the issue of a token to its storage
    NoToken,   \* an empty string
    Torn,      \* a string that is no token
    NoOne,     \* nobody holds mMutex
    MaxTime    \* bound on the clock, for model checking

\* cRequestTimeout, half the margin, bounds a request to Spotify.
ASSUME LatencyAssumption ==
    /\ Lifetime \in Nat /\ Margin \in Nat /\ Latency \in Nat /\ MaxTime \in Nat
    /\ 2 * Latency <= Margin
    /\ Latency < Lifetime
ASSUME TokenAssumption ==
    /\ NoToken \notin Int /\ Torn \notin Int /\ NoToken # Torn
    /\ "refreshToken" \notin {NoToken, Torn}
ASSUME NoOneAssumption == NoOne \notin Callers

VARIABLES
    now,                \* the clock of the machine
    mToken,
    mTokenReceiveTime,
    mMutex,             \* who holds it
    pc,                 \* where a caller is in SPOTIFYCALL_WITH_REFRESH
    token,              \* a caller's copy of the access token (tokenString)
    fresh,              \* the Token a caller's refresh has got
    login,              \* where the login server's thread is in callbackHandler
    loginToken,         \* the access token it has got
    clash               \* two assignments of mToken overlap

callerVars == <<mMutex, pc, token, fresh>>
loginVars == <<login, loginToken>>
authVars == <<now, mToken, mTokenReceiveTime, callerVars, loginVars, clash>>

AccessTokens == Nat \cup {NoToken, Torn}

\* Any refresh token is as good as another.
RefreshTokens == {"refreshToken", NoToken, Torn}

Token == [access : AccessTokens, refresh : RefreshTokens]

NoTokens == [access |-> NoToken, refresh |-> NoToken]

AuthInit ==
    /\ now = 0
    /\ mToken = NoTokens
    /\ mTokenReceiveTime = 0
    /\ mMutex = NoOne
    /\ pc = [c \in Callers |-> "idle"]
    /\ token = [c \in Callers |-> NoToken]
    /\ fresh = [c \in Callers |-> NoTokens]
    /\ login = "idle"
    /\ loginToken = NoToken
    /\ clash = FALSE

-----------------------------------------------------------------------------

\* Spotify refuses the access token as expired.
Expired(a) == a \in Nat /\ now >= a + Lifetime

CallerWrites == \E c \in Callers : pc[c] = "write"

LoginWrites == login = "write"

\* What a read of a string of mToken may return.
Read(field) == {mToken[field]} \cup (IF CallerWrites \/ LoginWrites THEN {Torn} ELSE {})

\* What an assignment of t to mToken may leave.
Assigned(t) ==
    IF clash THEN [access : {t.access, Torn}, refresh : {t.refresh, Torn}] ELSE {t}

\* Wrong: the margin is left out.
GetExpiresAtExact == mTokenReceiveTime + Lifetime

GetExpiresAt == mTokenReceiveTime + Lifetime - Margin

Goto(c, l) == pc' = [pc EXCEPT ![c] = l]

\* getAccessToken at the beginning of a function of the backend.
GetAccessToken(c) ==
    /\ pc[c] = "idle"
    /\ Goto(c, "call")
    /\ \E a \in Read("access") : token' = [token EXCEPT ![c] = a]
    /\ UNCHANGED <<now, mToken, mTokenReceiveTime, mMutex, fresh, loginVars, clash>>

\* A call of SpotifyAPI.  Refused as expired it goes to errorHandler, unless it
\* is a retry or one of the calls of setPlayback without retry.  Any other
\* answer ends the function or leads to its next call, with the same string.
SpotifyCall(c) ==
    /\ pc[c] \in {"call", "retry"}
    /\ \/ /\ Expired(token[c]) /\ pc[c] = "call"
          /\ Goto(c, "refused") /\ UNCHANGED token
       \/ /\ token[c] \in Nat /\ ~Expired(token[c])
          /\ Goto(c, "call") /\ UNCHANGED token
       \/ Goto(c, "idle") /\ token' = [token EXCEPT ![c] = NoToken]
    /\ UNCHANGED <<now, mToken, mTokenReceiveTime, mMutex, fresh, loginVars, clash>>

\* refreshAccessToken looks for a refresh token before it takes the mutex.
CheckRefreshToken(c) ==
    /\ pc[c] = "refused"
    /\ \/ \E r \in Read("refresh") : r # NoToken /\ Goto(c, "lock") /\ UNCHANGED token
       \/ NoToken \in Read("refresh") /\ Goto(c, "idle") /\ token' = [token EXCEPT ![c] = NoToken]
    /\ UNCHANGED <<now, mToken, mTokenReceiveTime, mMutex, fresh, loginVars, clash>>

\* Wrong: whoever gets the mutex refreshes.
CheckExpiredNever(c) ==
    /\ pc[c] = "lock"
    /\ mMutex = NoOne
    /\ mMutex' = c
    /\ Goto(c, "request")
    /\ UNCHANGED <<now, mToken, mTokenReceiveTime, token, fresh, loginVars, clash>>

\* With the mutex: if the token is not expired by the local clock, another thread
\* has refreshed it, and the mutex is let go at once.
CheckExpired(c) ==
    /\ pc[c] = "lock"
    /\ mMutex = NoOne
    /\ \/ now < GetExpiresAt /\ Goto(c, "reread") /\ UNCHANGED mMutex
       \/ now >= GetExpiresAt /\ Goto(c, "request") /\ mMutex' = c
    /\ UNCHANGED <<now, mToken, mTokenReceiveTime, token, fresh, loginVars, clash>>

\* Spotify issues a new access token, without a refresh token.
RefreshAnswered(c) ==
    /\ pc[c] = "request"
    /\ "refreshToken" \in Read("refresh")
    /\ Goto(c, "setRefreshToken")
    /\ fresh' = [fresh EXCEPT ![c] = [access |-> now, refresh |-> NoToken]]
    /\ UNCHANGED <<now, mToken, mTokenReceiveTime, mMutex, token, loginVars, clash>>

\* The request fails, is refused, or its answer is lost.
RefreshFailed(c) ==
    /\ pc[c] \in {"request", "setRefreshToken"}
    /\ Goto(c, "idle")
    /\ mMutex' = NoOne
    /\ token' = [token EXCEPT ![c] = NoToken]
    /\ fresh' = [fresh EXCEPT ![c] = NoTokens]
    /\ UNCHANGED <<now, mToken, mTokenReceiveTime, loginVars, clash>>

\* Wrong: the refresh token is taken from the answer.
SetRefreshTokenAnswered(c) ==
    /\ pc[c] = "setRefreshToken"
    /\ Goto(c, "setReceiveTime")
    /\ UNCHANGED <<now, mToken, mTokenReceiveTime, mMutex, token, fresh, loginVars, clash>>

\* The answer has arrived; it gets the refresh token of the member.
SetRefreshToken(c) ==
    /\ pc[c] = "setRefreshToken"
    /\ Goto(c, "setReceiveTime")
    /\ \E r \in Read("refresh") : fresh' = [fresh EXCEPT ![c].refresh = r]
    /\ UNCHANGED <<now, mToken, mTokenReceiveTime, mMutex, token, loginVars, clash>>

SetReceiveTime(c) ==
    /\ pc[c] = "setReceiveTime"
    /\ Goto(c, "write")
    /\ mTokenReceiveTime' = now
    /\ clash' = LoginWrites
    /\ UNCHANGED <<now, mToken, mMutex, token, fresh, loginVars>>

\* The end of the assignment and of refreshAccessToken.
SetToken(c) ==
    /\ pc[c] = "write"
    /\ Goto(c, "reread")
    /\ mToken' \in Assigned(fresh[c])
    /\ mMutex' = NoOne
    /\ fresh' = [fresh EXCEPT ![c] = NoTokens]
    /\ clash' = (clash /\ LoginWrites)
    /\ UNCHANGED <<now, mTokenReceiveTime, token, loginVars>>

\* getAccessToken again, for the second try.
Reread(c) ==
    /\ pc[c] = "reread"
    /\ Goto(c, "retry")
    /\ \E a \in Read("access") : token' = [token EXCEPT ![c] = a]
    /\ UNCHANGED <<now, mToken, mTokenReceiveTime, mMutex, fresh, loginVars, clash>>

Call(c) ==
    \/ GetAccessToken(c) \/ SpotifyCall(c) \/ CheckRefreshToken(c) \/ CheckExpired(c)
    \/ RefreshAnswered(c) \/ RefreshFailed(c) \/ SetRefreshToken(c) \/ SetReceiveTime(c)
    \/ SetToken(c) \/ Reread(c)

-----------------------------------------------------------------------------
(* callbackHandler; the login server has one thread.                       *)

\* The code of the callback is exchanged for a token.
LoginAnswered ==
    /\ login = "idle"
    /\ login' = "write"
    /\ loginToken' = now
    /\ clash' = CallerWrites
    /\ UNCHANGED <<now, mToken, mTokenReceiveTime, callerVars>>

LoginSetToken ==
    /\ login = "write"
    /\ login' = "setReceiveTime"
    /\ mToken' \in Assigned([access |-> loginToken, refresh |-> "refreshToken"])
    /\ clash' = (clash /\ CallerWrites)
    /\ UNCHANGED <<now, mTokenReceiveTime, callerVars, loginToken>>

\* Wrong: the margin is subtracted when the time is stored.
LoginSetReceiveTimeEarlier ==
    /\ login = "setReceiveTime"
    /\ login' = "idle"
    /\ mTokenReceiveTime' = now - Margin
    /\ loginToken' = NoToken
    /\ UNCHANGED <<now, mToken, callerVars, clash>>

LoginSetReceiveTime ==
    /\ login = "setReceiveTime"
    /\ login' = "idle"
    /\ mTokenReceiveTime' = now
    /\ loginToken' = NoToken
    /\ UNCHANGED <<now, mToken, callerVars, clash>>

CallbackHandler == LoginAnswered \/ LoginSetToken \/ LoginSetReceiveTime

\* No issued token takes longer than Latency to be stored.
Tick ==
    /\ now < MaxTime
    /\ \A c \in Callers :
            pc[c] \in {"setRefreshToken", "setReceiveTime", "write"}
                => now < fresh[c].access + Latency
    /\ login # "idle" => now < loginToken + Latency
    /\ now' = now + 1
    /\ UNCHANGED <<mToken, mTokenReceiveTime, callerVars, loginVars, clash>>

AuthNext == Tick \/ CallbackHandler \/ \E c \in Callers : Call(c)

AuthSpec == AuthInit /\ [][AuthNext]_authVars

-----------------------------------------------------------------------------
(* Properties.                                                             *)

\* Type invariant of the authorization.
AuthTypeOK ==
    /\ now \in Nat
    /\ mToken \in Token
    /\ mTokenReceiveTime \in Nat
    /\ mMutex \in Callers \cup {NoOne}
    /\ pc \in [Callers -> {"idle", "call", "refused", "lock", "request", "setRefreshToken",
                           "setReceiveTime", "write", "reread", "retry"}]
    /\ token \in [Callers -> AccessTokens]
    /\ fresh \in [Callers -> Token]
    /\ login \in {"idle", "write", "setReceiveTime"}
    /\ loginToken \in Nat \cup {NoToken}
    /\ clash \in BOOLEAN

\* A call is never retried with the token that was just refused, whoever refreshed
\* it and even if a login comes in between: the margin of the local expiry check
\* covers the delays of both requests.
RetryWithNewToken == \A c \in Callers : pc[c] = "reread" => mToken.access # token[c]

\* A token is refreshed only if it is about to expire (SpotifyAuthorization.cpp:66,
\* "check if token is really expired"), so that many callers refused at once refresh
\* it once.  The one exception is a login between its two assignments.
RefreshOnlyExpired ==
    [][\A c \in Callers :
          pc[c] = "lock" /\ pc'[c] = "request" /\ mToken.access \in Nat
             => now >= mToken.access + Lifetime - Margin \/ login = "setReceiveTime"]_authVars

\* The refresh token survives every refresh, although no answer brings a new one.
RefreshTokenKept == mToken.access # NoToken => mToken.refresh # NoToken

=============================================================================
