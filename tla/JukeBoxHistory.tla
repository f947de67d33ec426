--------------------------- MODULE JukeBoxHistory ---------------------------
(***************************************************************************)
(* JukeBox with a history variable: when each session was last active.     *)
(***************************************************************************)
EXTENDS JukeBox

VARIABLE lastActive  \* when a session was made or last passed isSessionExpired

jhVars == <<jbVars, lastActive>>

\* A session is made when its expiration date is computed, and in use when its request
\* passes isSessionExpired.
Active ==
    [s \in SessionIds |->
        IF s \in issued' \ issued THEN mUsers'[s].ExpirationDate - cSessionTimeoutAfterSeconds
        ELSE IF \E th \in RequestThreads :
                 At(th, "none") /\ call'[th].at \notin {"none", "addUser"} /\ call'[th].req.sid = s
        THEN now ELSE lastActive[s]]

JHInit == JBInit /\ lastActive = [s \in SessionIds |-> 0]

JHNext == JBNext /\ lastActive' = Active

JHSpec == JHInit /\ [][JHNext]_jhVars

\* RAMDataStore.cpp:94 says that a session that is not timed out has its
\* expiration advanced, "since user was active right now": the answer 440 means
\* that some session was idle for the whole timeout.
ActiveSessionSurvives ==
    [][\A th \in RequestThreads :
          call'[th].status = 440 /\ call[th].status # 440
             => \E s \in issued : now >= lastActive[s] + cSessionTimeoutAfterSeconds]_jhVars

=============================================================================
