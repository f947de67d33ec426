--------------------- MODULE SpotifyAuthorizationProofs ---------------------
(***************************************************************************)
(* Proofs about SpotifyAuthorization: types, and that a call is never      *)
(* retried with the token that was refused.                                *)
(***************************************************************************)
EXTENDS SpotifyAuthorization, TLAPS

\* A caller between Spotify's answer to its refresh and the end of the storage.
Storing(c) == pc[c] \in {"setRefreshToken", "setReceiveTime", "write"}

\* The mutex is held from the request to the end of the assignment.
MutexHeld == \A c \in Callers : pc[c] = "request" \/ Storing(c) => mMutex = c

\* A token on its way was issued at most Latency ago.
FreshIsYoung ==
    \A c \in Callers : Storing(c) =>
        /\ fresh[c].access \in Nat
        /\ fresh[c].access <= now /\ now <= fresh[c].access + Latency

LoginIsYoung ==
    login # "idle" =>
        /\ loginToken \in Nat
        /\ loginToken <= now /\ now <= loginToken + Latency

\* During a login's gap between its assignments, mToken is about as young.
GapIsYoung ==
    login = "setReceiveTime" /\ mToken.access \in Nat =>
        loginToken <= mToken.access + Latency

\* Unless the holder of the mutex has just written the time of the next token, the
\* receive time is no later than twice the latency after the issue of the token.
TimeIsClose ==
    (\A c \in Callers : pc[c] # "write") /\ mToken.access \in Nat =>
        mTokenReceiveTime <= mToken.access + 2 * Latency

\* The receive time is not before the issue, but in the gap of a login.
TimeIsLate ==
    /\ mToken.access \in Nat =>
          /\ mToken.access <= now
          /\ mToken.access <= mTokenReceiveTime \/ login = "setReceiveTime"
    /\ \A c \in Callers : pc[c] = "write" => fresh[c].access <= mTokenReceiveTime

\* The token of a caller on its way to the retry has expired.
RefusedHasExpired ==
    \A c \in Callers :
        pc[c] \in {"refused", "lock", "request", "reread"} \/ Storing(c) => Expired(token[c])

IInv ==
    /\ AuthTypeOK
    /\ mTokenReceiveTime <= now
    /\ MutexHeld
    /\ FreshIsYoung
    /\ LoginIsYoung
    /\ GapIsYoung
    /\ TimeIsClose
    /\ TimeIsLate
    /\ RefusedHasExpired
    /\ RetryWithNewToken

USE LatencyAssumption, TokenAssumption, NoOneAssumption

-----------------------------------------------------------------------------

LEMMA InitInvariant == AuthInit => IInv
  <1> SUFFICES ASSUME AuthInit PROVE IInv
    OBVIOUS
  <1> USE DEF AuthInit
  <1>1. AuthTypeOK
    BY DEF AuthTypeOK, Token, AccessTokens, RefreshTokens, NoTokens
  <1>2. MutexHeld /\ FreshIsYoung /\ RefusedHasExpired /\ RetryWithNewToken
    BY DEF MutexHeld, FreshIsYoung, RefusedHasExpired, RetryWithNewToken, Storing
  <1>3. LoginIsYoung /\ GapIsYoung /\ TimeIsClose /\ TimeIsLate
    BY DEF NoTokens, LoginIsYoung, GapIsYoung, TimeIsClose, TimeIsLate
  <1> QED BY <1>1, <1>2, <1>3 DEF IInv

\* What a read of mToken may return is of the right type.
LEMMA ReadType ==
  ASSUME AuthTypeOK
  PROVE  /\ Read("access") \subseteq AccessTokens
         /\ Read("refresh") \subseteq RefreshTokens
  BY DEF AuthTypeOK, Token, Read, AccessTokens, RefreshTokens

\* An assignment leaves a token, whose access token is the one assigned or Torn.
LEMMA AssignedType ==
  ASSUME NEW t \in Token, NEW u \in Assigned(t)
  PROVE  u \in Token /\ u.access \in {t.access, Torn}
  BY DEF Assigned, Token, AccessTokens, RefreshTokens

\* The clock.
LEMMA TickInvariant == IInv /\ Tick => IInv'
  <1> SUFFICES ASSUME IInv, Tick PROVE IInv'
    OBVIOUS
  <1> USE DEF IInv, Tick, callerVars, loginVars
  <1>1. AuthTypeOK' /\ (mTokenReceiveTime <= now)'
    BY DEF AuthTypeOK
  <1>2. MutexHeld' /\ GapIsYoung' /\ TimeIsClose' /\ RetryWithNewToken'
    BY DEF MutexHeld, GapIsYoung, TimeIsClose, RetryWithNewToken, Storing
  <1>3. FreshIsYoung' /\ LoginIsYoung'
    BY DEF AuthTypeOK, FreshIsYoung, LoginIsYoung, Storing
  <1>4. RefusedHasExpired'
    BY DEF AuthTypeOK, RefusedHasExpired, Storing, Expired
  <1>5. TimeIsLate'
    BY DEF AuthTypeOK, TimeIsLate
  <1> QED BY <1>1, <1>2, <1>3, <1>4, <1>5

\* The callback of a login.
LEMMA CallbackInvariant == IInv /\ CallbackHandler => IInv'
  <1> SUFFICES ASSUME IInv, CallbackHandler PROVE IInv'
    OBVIOUS
  <1> USE DEF IInv, callerVars
  <1>1. CASE LoginAnswered
    BY <1>1 DEF LoginAnswered, AuthTypeOK, CallerWrites, MutexHeld, FreshIsYoung, LoginIsYoung,
                GapIsYoung, TimeIsClose, TimeIsLate, RefusedHasExpired, RetryWithNewToken, Storing, Expired
  <1>2. CASE LoginSetToken
    <2> DEFINE t == [access |-> loginToken, refresh |-> "refreshToken"]
    <2>1. t \in Token /\ loginToken \in Nat /\ now <= loginToken + Latency /\ loginToken <= now
      BY <1>2 DEF LoginSetToken, LoginIsYoung, Token, AccessTokens, RefreshTokens
    <2>2. mToken' \in Token /\ mToken'.access \in {loginToken, Torn}
      BY <1>2, <2>1, AssignedType DEF LoginSetToken
    <2>3. AuthTypeOK' /\ (mTokenReceiveTime <= now)'
      BY <1>2, <2>2 DEF LoginSetToken, AuthTypeOK, CallerWrites
    <2>4. MutexHeld' /\ FreshIsYoung' /\ LoginIsYoung' /\ RefusedHasExpired'
      BY <1>2, <2>1 DEF LoginSetToken, MutexHeld, FreshIsYoung, LoginIsYoung,
                        RefusedHasExpired, Storing, Expired
    <2>5. GapIsYoung' /\ TimeIsClose'
      BY <1>2, <2>1, <2>2 DEF LoginSetToken, GapIsYoung, TimeIsClose, AuthTypeOK
    <2>6. RetryWithNewToken'
      BY <1>2, <2>1, <2>2 DEF LoginSetToken, RetryWithNewToken, RefusedHasExpired, Expired,
                              AuthTypeOK
    <2>7. TimeIsLate'
      BY <1>2, <2>1, <2>2 DEF LoginSetToken, TimeIsLate, AuthTypeOK
    <2> QED BY <2>3, <2>4, <2>5, <2>6, <2>7
  <1>3. CASE LoginSetReceiveTime
    BY <1>3 DEF LoginSetReceiveTime, AuthTypeOK, MutexHeld, FreshIsYoung, LoginIsYoung,
                GapIsYoung, TimeIsClose, TimeIsLate, RefusedHasExpired, RetryWithNewToken, Storing, Expired
  <1> QED BY <1>1, <1>2, <1>3 DEF CallbackHandler

\* The steps of a caller that write none of the members.
LEMMA ReadingInvariant ==
  ASSUME IInv, NEW c \in Callers,
         GetAccessToken(c) \/ SpotifyCall(c) \/ CheckRefreshToken(c) \/ Reread(c)
  PROVE  IInv'
  <1> USE DEF IInv, loginVars
  <1>1. AuthTypeOK' /\ (mTokenReceiveTime <= now)'
    BY ReadType DEF AuthTypeOK, GetAccessToken, SpotifyCall, CheckRefreshToken, Reread, Goto,
                    AccessTokens
  <1>2. \A d \in Callers \ {c} : pc'[d] = pc[d] /\ token'[d] = token[d]
    BY DEF AuthTypeOK, GetAccessToken, SpotifyCall, CheckRefreshToken, Reread, Goto
  <1>3. /\ pc'[c] \in {"idle", "call", "refused", "lock", "retry"}
        /\ pc[c] # "write"
        /\ pc'[c] \in {"refused", "lock"} => Expired(token'[c])
    BY DEF AuthTypeOK, GetAccessToken, SpotifyCall, CheckRefreshToken, Reread, Goto,
           RefusedHasExpired
  <1>4. UNCHANGED <<now, mToken, mTokenReceiveTime, mMutex, fresh, login, loginToken>>
    BY DEF GetAccessToken, SpotifyCall, CheckRefreshToken, Reread
  <1>5. MutexHeld' /\ FreshIsYoung' /\ LoginIsYoung' /\ GapIsYoung' /\ TimeIsClose' /\ TimeIsLate'
    BY <1>2, <1>3, <1>4 DEF MutexHeld, FreshIsYoung, LoginIsYoung, GapIsYoung, TimeIsClose,
                            TimeIsLate, Storing
  <1>6. RefusedHasExpired' /\ RetryWithNewToken'
    BY <1>2, <1>3, <1>4 DEF RefusedHasExpired, RetryWithNewToken, Storing, Expired
  <1> QED BY <1>1, <1>5, <1>6

\* Under the free mutex the local check tells an expired token from a new one.
LEMMA CheckExpiredInvariant ==
  ASSUME IInv, NEW c \in Callers, CheckExpired(c)
  PROVE  IInv'
  <1> USE DEF IInv, loginVars
  <1>1. AuthTypeOK' /\ (mTokenReceiveTime <= now)'
    BY DEF AuthTypeOK, CheckExpired, Goto
  <1>2. \A d \in Callers : ~Storing(d) /\ pc[d] # "request"
    BY DEF CheckExpired, MutexHeld
  <1>3. \A d \in Callers \ {c} : pc'[d] = pc[d]
    BY DEF AuthTypeOK, CheckExpired, Goto
  <1>4. pc'[c] \in {"reread", "request"} /\ (pc'[c] = "request" => mMutex' = c)
    BY DEF AuthTypeOK, CheckExpired, Goto
  <1>5. UNCHANGED <<now, mToken, mTokenReceiveTime, token, fresh, login, loginToken>>
    BY DEF CheckExpired
  <1>6. MutexHeld' /\ FreshIsYoung' /\ LoginIsYoung' /\ GapIsYoung' /\ TimeIsClose' /\ TimeIsLate'
    BY <1>2, <1>3, <1>4, <1>5 DEF MutexHeld, FreshIsYoung, LoginIsYoung, GapIsYoung,
                                  TimeIsClose, TimeIsLate, Storing
  <1>7. Expired(token[c])
    BY DEF CheckExpired, RefusedHasExpired
  <1>8. RefusedHasExpired'
    BY <1>3, <1>4, <1>5, <1>7 DEF RefusedHasExpired, Storing, Expired
  <1>9. pc'[c] = "reread" => mToken.access # token[c]
    <2> SUFFICES ASSUME pc'[c] = "reread", mToken.access \in Nat
                 PROVE  mToken.access # token[c]
      BY <1>7 DEF Expired
    <2>1. now < mTokenReceiveTime + Lifetime - Margin
      BY DEF CheckExpired, GetExpiresAt, Goto, AuthTypeOK
    <2>2. mTokenReceiveTime <= mToken.access + 2 * Latency
      BY <1>2 DEF TimeIsClose, Storing
    <2> QED BY <1>7, <2>1, <2>2 DEF Expired, AuthTypeOK
  <1>10. RetryWithNewToken'
    BY <1>3, <1>5, <1>9 DEF RetryWithNewToken
  <1> QED BY <1>1, <1>6, <1>8, <1>10

\* The refresh, up to the assignment.
LEMMA RefreshInvariant ==
  ASSUME IInv, NEW c \in Callers,
         RefreshAnswered(c) \/ RefreshFailed(c) \/ SetRefreshToken(c) \/ SetReceiveTime(c)
  PROVE  IInv'
  <1> USE DEF IInv, loginVars
  <1>1. AuthTypeOK' /\ (mTokenReceiveTime <= now)'
    <2>1. CASE RefreshAnswered(c) \/ RefreshFailed(c)
      <3>1. \A a \in Nat : [access |-> a, refresh |-> NoToken] \in Token /\ NoTokens \in Token
        BY DEF Token, AccessTokens, RefreshTokens, NoTokens
      <3>2. fresh' \in [Callers -> Token]
        BY <2>1, <3>1 DEF AuthTypeOK, RefreshAnswered, RefreshFailed
      <3>3. token' \in [Callers -> AccessTokens]
        BY <2>1 DEF AuthTypeOK, RefreshAnswered, RefreshFailed, AccessTokens
      <3> QED BY <2>1, <3>2, <3>3 DEF AuthTypeOK, RefreshAnswered, RefreshFailed, Goto
    <2>2. CASE SetRefreshToken(c)
      <3>1. PICK r \in RefreshTokens : fresh' = [fresh EXCEPT ![c].refresh = r]
        BY <2>2, ReadType DEF SetRefreshToken
      <3>2. fresh' \in [Callers -> Token]
        BY <3>1 DEF AuthTypeOK, Token
      <3> QED BY <2>2, <3>2 DEF AuthTypeOK, SetRefreshToken, Goto
    <2>3. CASE SetReceiveTime(c)
      BY <2>3 DEF AuthTypeOK, SetReceiveTime, Goto, LoginWrites
    <2> QED BY <2>1, <2>2, <2>3
  <1>2. mMutex = c /\ \A d \in Callers \ {c} : ~Storing(d) /\ pc[d] # "request"
    BY DEF RefreshAnswered, RefreshFailed, SetRefreshToken, SetReceiveTime, MutexHeld, Storing
  <1>3. \A d \in Callers \ {c} : pc'[d] = pc[d] /\ token'[d] = token[d]
    BY DEF AuthTypeOK, RefreshAnswered, RefreshFailed, SetRefreshToken, SetReceiveTime, Goto
  <1>4. UNCHANGED <<now, mToken, login, loginToken>>
    BY DEF RefreshAnswered, RefreshFailed, SetRefreshToken, SetReceiveTime
  <1>5. \/ pc'[c] = "idle"
        \/ /\ Storing(c)' /\ mMutex' = c /\ token' = token /\ Expired(token[c])
           /\ fresh'[c].access \in Nat
           /\ fresh'[c].access <= now /\ now <= fresh'[c].access + Latency
    BY DEF AuthTypeOK, RefreshAnswered, RefreshFailed, SetRefreshToken, SetReceiveTime, Goto,
           Storing, FreshIsYoung, RefusedHasExpired, MutexHeld, Token
  <1>6. pc'[c] # "write" => mTokenReceiveTime' = mTokenReceiveTime /\ pc[c] # "write"
    BY DEF AuthTypeOK, RefreshAnswered, RefreshFailed, SetRefreshToken, SetReceiveTime, Goto
  <1>7. MutexHeld' /\ FreshIsYoung' /\ LoginIsYoung' /\ GapIsYoung' /\ TimeIsClose'
    BY <1>2, <1>3, <1>4, <1>5, <1>6 DEF MutexHeld, FreshIsYoung, LoginIsYoung, GapIsYoung,
                                        TimeIsClose, Storing
  <1>8. RefusedHasExpired' /\ RetryWithNewToken'
    BY <1>2, <1>3, <1>4, <1>5 DEF RefusedHasExpired, RetryWithNewToken, Storing, Expired
  <1>9. pc'[c] = "write" => mTokenReceiveTime' = now
    BY DEF AuthTypeOK, RefreshAnswered, RefreshFailed, SetRefreshToken, SetReceiveTime, Goto
  <1>10. mTokenReceiveTime' \in {mTokenReceiveTime, now}
    BY DEF RefreshAnswered, RefreshFailed, SetRefreshToken, SetReceiveTime
  <1>11. TimeIsLate'
    BY <1>2, <1>3, <1>4, <1>5, <1>9, <1>10 DEF TimeIsLate, Storing, AuthTypeOK
  <1> QED BY <1>1, <1>7, <1>8, <1>11

\* The assignment at the end of the refresh.
LEMMA SetTokenInvariant ==
  ASSUME IInv, NEW c \in Callers, SetToken(c)
  PROVE  IInv'
  <1> USE DEF IInv, loginVars
  <1>1. /\ fresh[c] \in Token /\ fresh[c].access \in Nat
        /\ fresh[c].access <= now /\ now <= fresh[c].access + Latency
    BY DEF SetToken, AuthTypeOK, FreshIsYoung, Storing
  <1>2. mToken' \in Token /\ mToken'.access \in {fresh[c].access, Torn}
    BY <1>1, AssignedType DEF SetToken
  <1>3. AuthTypeOK' /\ (mTokenReceiveTime <= now)'
    BY <1>2 DEF AuthTypeOK, SetToken, Goto, Token, AccessTokens, RefreshTokens, NoTokens, LoginWrites
  <1>4. mMutex = c /\ \A d \in Callers \ {c} : ~Storing(d) /\ pc[d] # "request"
    BY DEF SetToken, MutexHeld, Storing
  <1>5. pc'[c] = "reread" /\ \A d \in Callers \ {c} : pc'[d] = pc[d]
    BY DEF AuthTypeOK, SetToken, Goto
  <1>6. UNCHANGED <<now, mTokenReceiveTime, token, login, loginToken>>
    BY DEF SetToken
  <1>7. MutexHeld' /\ FreshIsYoung' /\ LoginIsYoung'
    BY <1>4, <1>5, <1>6 DEF MutexHeld, FreshIsYoung, LoginIsYoung, Storing
  <1>8. GapIsYoung' /\ TimeIsClose'
    BY <1>1, <1>2, <1>6 DEF GapIsYoung, TimeIsClose, LoginIsYoung, AuthTypeOK
  <1>9. RefusedHasExpired'
    BY <1>5, <1>6 DEF RefusedHasExpired, Storing, Expired, SetToken
  <1>10. RetryWithNewToken'
    BY <1>1, <1>2, <1>6, <1>9 DEF RetryWithNewToken, RefusedHasExpired, Expired, AuthTypeOK
  <1>11. TimeIsLate'
    BY <1>1, <1>2, <1>4, <1>5, <1>6 DEF TimeIsLate, SetToken, Storing, AuthTypeOK
  <1> QED BY <1>3, <1>7, <1>8, <1>9, <1>10, <1>11

LEMMA Invariance == IInv /\ [AuthNext]_authVars => IInv'
  <1> SUFFICES ASSUME IInv, [AuthNext]_authVars PROVE IInv'
    OBVIOUS
  <1>1. CASE Tick
    BY <1>1, TickInvariant
  <1>2. CASE CallbackHandler
    BY <1>2, CallbackInvariant
  <1>3. ASSUME NEW c \in Callers, Call(c) PROVE IInv'
    BY <1>3, ReadingInvariant, CheckExpiredInvariant, RefreshInvariant, SetTokenInvariant DEF Call
  <1>4. CASE UNCHANGED authVars
    BY <1>4 DEF authVars, callerVars, loginVars, IInv, AuthTypeOK, MutexHeld, FreshIsYoung,
                LoginIsYoung, GapIsYoung, TimeIsClose, TimeIsLate, RefusedHasExpired,
                RetryWithNewToken, Storing, Expired
  <1> QED BY <1>1, <1>2, <1>3, <1>4 DEF AuthNext

LEMMA SpecInvariant == AuthSpec => []IInv
  BY InitInvariant, Invariance, PTL DEF AuthSpec

-----------------------------------------------------------------------------

\* The members of SpotifyAuthorization and the locals of its callers keep their
\* types, whatever the lifetime of the tokens.
THEOREM AuthTypeCorrect == AuthSpec => []AuthTypeOK
  <1>1. IInv => AuthTypeOK
    BY DEF IInv
  <1> QED BY <1>1, SpecInvariant, PTL

\* For any number of threads, any lifetime and any latency of at most half the
\* margin, a call of Spotify is never retried with the token that was refused.
THEOREM NewTokenRetried == AuthSpec => []RetryWithNewToken
  <1>1. IInv => RetryWithNewToken
    BY DEF IInv
  <1> QED BY <1>1, SpecInvariant, PTL

\* For the same constants, only a login between its two assignments makes a caller
\* refresh a token that is not about to expire.
THEOREM OnlyExpiredRefreshed == AuthSpec => RefreshOnlyExpired
  <1> DEFINE Justified ==
        \A c \in Callers :
           pc[c] = "lock" /\ pc'[c] = "request" /\ mToken.access \in Nat
              => now >= mToken.access + Lifetime - Margin \/ login = "setReceiveTime"
  <1>1. IInv /\ [AuthNext]_authVars => [Justified]_authVars
    <2> SUFFICES ASSUME IInv, AuthNext, NEW c \in Callers,
                        pc[c] = "lock", pc'[c] = "request", mToken.access \in Nat
                 PROVE  now >= mToken.access + Lifetime - Margin \/ login = "setReceiveTime"
      OBVIOUS
    <2>1. ~Tick /\ ~CallbackHandler
      BY DEF Tick, CallbackHandler, LoginAnswered, LoginSetToken, LoginSetReceiveTime, callerVars
    <2>2. PICK d \in Callers : Call(d)
      BY <2>1 DEF AuthNext
    <2>3. d = c
      BY <2>2 DEF IInv, AuthTypeOK, Call, GetAccessToken, SpotifyCall, CheckRefreshToken,
                  CheckExpired, RefreshAnswered, RefreshFailed, SetRefreshToken, SetReceiveTime,
                  SetToken, Reread, Goto
    <2>4. CheckExpired(c)
      BY <2>2, <2>3 DEF Call, GetAccessToken, SpotifyCall, CheckRefreshToken, RefreshAnswered,
                        RefreshFailed, SetRefreshToken, SetReceiveTime, SetToken, Reread
    <2>5. now >= mTokenReceiveTime + Lifetime - Margin
      BY <2>4 DEF CheckExpired, GetExpiresAt, Goto, IInv, AuthTypeOK
    <2> QED BY <2>5 DEF IInv, TimeIsLate, AuthTypeOK
  <1>2. AuthSpec => [][Justified]_authVars
    BY <1>1, SpecInvariant, PTL DEF AuthSpec
  <1> QED BY <1>2 DEF RefreshOnlyExpired

-----------------------------------------------------------------------------
(* The refresh token.                                                      *)

\* A refresh that was answered had the refresh token of the member, which no later
\* assignment drops; one that is being stored has taken it over.
Kept ==
    /\ RefreshTokenKept
    /\ \A c \in Callers : pc[c] = "setRefreshToken" => mToken.refresh # NoToken
    /\ \A c \in Callers : pc[c] \in {"setReceiveTime", "write"} => fresh[c].refresh # NoToken

\* An assignment leaves a refresh token that is the one assigned or Torn.
LEMMA AssignedRefresh ==
  ASSUME NEW t \in Token, t.refresh # NoToken, NEW u \in Assigned(t)
  PROVE  u.refresh # NoToken
  BY DEF Assigned, Token

LEMMA KeptInit == AuthInit => Kept
  BY DEF AuthInit, Kept, RefreshTokenKept, NoTokens

\* A login assigns a refresh token along with the access token.
LEMMA LoginKeeps ==
  ASSUME IInv, Kept, LoginSetToken
  PROVE  Kept'
  <1> DEFINE t == [access |-> loginToken, refresh |-> "refreshToken"]
  <1>1. t \in Token /\ t.refresh # NoToken
    BY DEF IInv, LoginSetToken, LoginIsYoung, Token, AccessTokens, RefreshTokens
  <1>2. mToken'.refresh # NoToken
    BY <1>1, AssignedRefresh DEF LoginSetToken
  <1> QED BY <1>2 DEF LoginSetToken, callerVars, Kept, RefreshTokenKept

\* The steps of a caller's refresh.
LEMMA CallerKeeps ==
  ASSUME IInv, Kept, NEW c \in Callers, Call(c)
  PROVE  Kept'
  <1> USE DEF IInv, AuthTypeOK
  <1>1. CASE GetAccessToken(c) \/ SpotifyCall(c) \/ CheckRefreshToken(c) \/ CheckExpired(c) \/ Reread(c)
    <2>1. UNCHANGED <<mToken, fresh>>
      BY <1>1 DEF GetAccessToken, SpotifyCall, CheckRefreshToken, CheckExpired, Reread
    <2>2. /\ \A d \in Callers \ {c} : pc'[d] = pc[d]
          /\ pc'[c] \notin {"setRefreshToken", "setReceiveTime", "write"}
      BY <1>1 DEF GetAccessToken, SpotifyCall, CheckRefreshToken, CheckExpired, Reread, Goto
    <2> QED BY <2>1, <2>2 DEF Kept, RefreshTokenKept
  <1>2. CASE RefreshAnswered(c)
    <2>1. mToken.refresh = "refreshToken"
      BY <1>2 DEF RefreshAnswered, Read
    <2>2. \A d \in Callers \ {c} : pc'[d] = pc[d] /\ fresh'[d] = fresh[d]
      BY <1>2 DEF RefreshAnswered, Goto
    <2>3. pc'[c] = "setRefreshToken" /\ mToken' = mToken
      BY <1>2 DEF RefreshAnswered, Goto
    <2> QED BY <2>1, <2>2, <2>3 DEF Kept, RefreshTokenKept
  <1>3. CASE RefreshFailed(c)
    <2>1. \A d \in Callers \ {c} : pc'[d] = pc[d] /\ fresh'[d] = fresh[d]
      BY <1>3 DEF RefreshFailed, Goto
    <2>2. pc'[c] = "idle" /\ mToken' = mToken
      BY <1>3 DEF RefreshFailed, Goto
    <2> QED BY <2>1, <2>2 DEF Kept, RefreshTokenKept
  <1>4. CASE SetRefreshToken(c)
    <2>1. PICK r \in Read("refresh") : fresh' = [fresh EXCEPT ![c].refresh = r]
      BY <1>4 DEF SetRefreshToken
    <2>2. r # NoToken
      BY <1>4, <2>1 DEF SetRefreshToken, Read, Kept
    <2>3. fresh'[c].refresh = r /\ \A d \in Callers \ {c} : fresh'[d] = fresh[d]
      BY <2>1 DEF Token
    <2>4. /\ pc'[c] = "setReceiveTime" /\ mToken' = mToken
          /\ \A d \in Callers \ {c} : pc'[d] = pc[d]
      BY <1>4 DEF SetRefreshToken, Goto
    <2> QED BY <2>2, <2>3, <2>4 DEF Kept, RefreshTokenKept
  <1>5. CASE SetReceiveTime(c)
    <2>1. /\ pc[c] = "setReceiveTime" /\ pc'[c] = "write"
          /\ \A d \in Callers \ {c} : pc'[d] = pc[d]
          /\ UNCHANGED <<mToken, fresh>>
      BY <1>5 DEF SetReceiveTime, Goto
    <2> QED BY <2>1 DEF Kept, RefreshTokenKept
  <1>6. CASE SetToken(c)
    <2>1. fresh[c] \in Token /\ fresh[c].refresh # NoToken
      BY <1>6 DEF SetToken, Kept
    <2>2. mToken'.refresh # NoToken
      BY <1>6, <2>1, AssignedRefresh DEF SetToken
    <2>3. pc'[c] = "reread" /\ \A d \in Callers \ {c} : pc'[d] = pc[d] /\ fresh'[d] = fresh[d]
      BY <1>6 DEF SetToken, Goto
    <2> QED BY <2>2, <2>3 DEF Kept, RefreshTokenKept
  <1> QED BY <1>1, <1>2, <1>3, <1>4, <1>5, <1>6 DEF Call

\* The refresh token that a login has brought survives every refresh, although no
\* answer brings a new one, and however assignments of mToken race.
THEOREM RefreshTokenStays == AuthSpec => []RefreshTokenKept
  <1>1. IInv /\ Kept /\ [AuthNext]_authVars => Kept'
    <2> SUFFICES ASSUME IInv, Kept, [AuthNext]_authVars PROVE Kept'
      OBVIOUS
    <2>1. CASE Tick \/ LoginAnswered \/ LoginSetReceiveTime \/ UNCHANGED authVars
      BY <2>1 DEF Tick, LoginAnswered, LoginSetReceiveTime, authVars, callerVars, Kept,
                  RefreshTokenKept
    <2>2. CASE LoginSetToken
      BY <2>2, LoginKeeps
    <2>3. ASSUME NEW c \in Callers, Call(c) PROVE Kept'
      BY <2>3, CallerKeeps
    <2> QED BY <2>1, <2>2, <2>3 DEF AuthNext, CallbackHandler
  <1>2. Kept => RefreshTokenKept
    BY DEF Kept
  <1> QED BY <1>1, <1>2, KeptInit, SpecInvariant, PTL DEF AuthSpec

=============================================================================
