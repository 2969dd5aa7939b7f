------------------------ MODULE SessionManagerProofs ------------------------
(***************************************************************************)
(* Proofs about SessionManager, for any sets of users and tokens and any   *)
(* session interval.                                                       *)
(***************************************************************************)
EXTENDS SessionManager, TLAPS

\* Both maps start empty, so they agree.
LEMMA SessionInitInv == SessionInit => SessionIndexInv
  BY DEF SessionInit, SessionIndexInv, SessionTypeOK, UserEntryHasSession,
         EmptyMap

\* No method of the session manager breaks the agreement of its two maps.
LEMMA SessionNextInv ==
    SessionIndexInv /\ [SessionNext]_sessionVars => SessionIndexInv'
<1> SUFFICES ASSUME SessionIndexInv, [SessionNext]_sessionVars
             PROVE  SessionIndexInv'
  OBVIOUS
<1> USE DEF SessionIndexInv, SessionTypeOK, UserEntryHasSession, Session
<1>1. ASSUME NEW user \in Users, NEW token \in Tokens, NEW time \in 0 .. now,
             GenerateToken(user, token, time)
      PROVE  SessionIndexInv'
  BY <1>1 DEF GenerateToken, Emplace
<1>2. ASSUME NEW user \in Users, NEW token \in Tokens,
             NEW new_token \in Tokens, UpdateSession(user, token, new_token)
      PROVE  SessionIndexInv'
  <2> DEFINE old == [token_sessions_[token] EXCEPT !.last_update_time = now]
             new_session == [old EXCEPT !.token = new_token]
  <2>1. /\ token \in DOMAIN token_sessions_
        /\ token_sessions_[token] \in Session
        /\ token_sessions_[token].user = user
        /\ new_token \in Tokens \ issued
    BY <1>2 DEF UpdateSession, CanUpdateSession
  <2>2. /\ new_session \in Session
        /\ new_session.user = user
        /\ new_session.token = new_token
    BY <2>1
  <2> HIDE DEF new_session
  <2>3. /\ issued' = issued \cup {new_token}
        /\ now' = now
        /\ DOMAIN user_sessions_' = DOMAIN user_sessions_ \cup {user}
        /\ user_sessions_'[user] = new_session
        /\ \A u \in DOMAIN user_sessions_ :
              u # user => user_sessions_'[u] = user_sessions_[u]
        /\ user_sessions_' \in [DOMAIN user_sessions_' -> Session]
    BY <1>2, <2>2 DEF UpdateSession, Assign, new_session
  <2>4. /\ DOMAIN token_sessions_' =
               (DOMAIN token_sessions_ \ {token}) \cup {new_token}
        /\ token_sessions_'[new_token] = new_session
        /\ \A t \in DOMAIN token_sessions_ \ {token} :
              token_sessions_'[t] = token_sessions_[t]
        /\ token_sessions_' \in [DOMAIN token_sessions_' -> Session]
    BY <1>2, <2>1, <2>2 DEF UpdateSession, Assign, Erase, new_session
  <2>5. SessionTypeOK'
    BY <2>1, <2>3, <2>4
  <2>6. UserEntryHasSession'
    BY <2>1, <2>2, <2>3, <2>4
  <2>7. QED
    BY <2>1, <2>2, <2>3, <2>4, <2>5, <2>6
<1>3. ASSUME NEW user \in Users, KickoutByUser(user)
      PROVE  SessionIndexInv'
  BY <1>3 DEF KickoutByUser, Erase
<1>4. ASSUME NEW token \in Tokens, KickoutByToken(token)
      PROVE  SessionIndexInv'
  BY <1>4 DEF KickoutByToken, CanKickoutByToken, Erase
<1>5. ASSUME Tick
      PROVE  SessionIndexInv'
  BY <1>5 DEF Tick
<1>6. ASSUME RestartSessions
      PROVE  SessionIndexInv'
  BY <1>6 DEF RestartSessions, EmptyMap
<1>7. ASSUME UNCHANGED sessionVars
      PROVE  SessionIndexInv'
  BY <1>7 DEF sessionVars
<1>8. QED
  BY <1>1, <1>2, <1>3, <1>4, <1>5, <1>6, <1>7 DEF SessionNext

\* The two maps agree in every reachable state: SessionIndexInv is inductive.
THEOREM SessionIndex == SessionSpec => []SessionIndexInv
<1>1. SessionInit => SessionIndexInv
  BY SessionInitInv
<1>2. SessionIndexInv /\ [SessionNext]_sessionVars => SessionIndexInv'
  BY SessionNextInv
<1>3. QED
  BY <1>1, <1>2, PTL DEF SessionSpec

\* KickoutByUser never reaches its "this should nerver happen" branch.
THEOREM UserEntryAlwaysHasSession == SessionSpec => []UserEntryHasSession
<1>1. SessionIndexInv => UserEntryHasSession
  BY DEF SessionIndexInv
<1>2. QED
  BY <1>1, SessionIndex, PTL

\* What one step does to the sessions of tokens that are already issued.
LEMMA IssuedTokenStep ==
    ASSUME SessionTypeOK, [SessionNext]_sessionVars
    PROVE  /\ issued \subseteq issued'
           /\ \A t \in issued :
                 t \in DOMAIN token_sessions_' =>
                    /\ t \in DOMAIN token_sessions_
                    /\ token_sessions_'[t] = token_sessions_[t]
<1> DEFINE Goal ==
        /\ issued \subseteq issued'
        /\ \A t \in issued :
              t \in DOMAIN token_sessions_' =>
                 /\ t \in DOMAIN token_sessions_
                 /\ token_sessions_'[t] = token_sessions_[t]
<1> USE DEF SessionTypeOK
<1>1. ASSUME NEW user \in Users, NEW token \in Tokens, NEW time \in 0 .. now,
             GenerateToken(user, token, time)
      PROVE  Goal
  BY <1>1 DEF GenerateToken, Emplace
<1>2. ASSUME NEW user \in Users, NEW token \in Tokens,
             NEW new_token \in Tokens, UpdateSession(user, token, new_token)
      PROVE  Goal
  BY <1>2 DEF UpdateSession, Assign, Erase
<1>3. ASSUME NEW user \in Users, KickoutByUser(user)
      PROVE  Goal
  BY <1>3 DEF KickoutByUser, Erase
<1>4. ASSUME NEW token \in Tokens, KickoutByToken(token)
      PROVE  Goal
  BY <1>4 DEF KickoutByToken, Erase
<1>5. ASSUME Tick \/ RestartSessions \/ UNCHANGED sessionVars
      PROVE  Goal
  BY <1>5 DEF Tick, RestartSessions, EmptyMap, sessionVars
<1>6. QED
  BY <1>1, <1>2, <1>3, <1>4, <1>5 DEF SessionNext

\* A token names one login for ever: it never changes hands, its life is never
\* extended, and once dropped it stays dead.
THEOREM TokenKeepsMeaning == SessionSpec => TokenMeansOneLogin
<1>1. SessionIndexInv => SessionTypeOK
  BY DEF SessionIndexInv
<1>2. SessionTypeOK /\ [SessionNext]_sessionVars =>
        [\A t \in issued :
            t \in DOMAIN token_sessions_' =>
               /\ t \in DOMAIN token_sessions_
               /\ token_sessions_'[t] = token_sessions_[t]]_sessionVars
  BY IssuedTokenStep
<1>3. QED
  BY <1>1, <1>2, SessionIndex, PTL DEF SessionSpec, TokenMeansOneLogin

=============================================================================
