-------------------------- MODULE UserManagerProofs --------------------------
(***************************************************************************)
(* Proofs about UserManager: for any sets of users, passwords, tokens and  *)
(* concurrent requests.                                                    *)
(***************************************************************************)
EXTENDS UserManager, SessionManagerProofs

\* A received request has the operation and the token it was built with.
LEMMA ArgumentsType ==
    ASSUME NEW op \in Ops, NEW token \in AnyToken, NEW a \in Arguments(op, token)
    PROVE  a \in Args /\ a.op = op /\ a.token = token
  BY DEF Arguments, Args, Names, AnyPassword

\* A step of one request leaves the state of every other request alone.
LEMMA OthersUnchanged ==
    ASSUME TypeOK, NEW r \in Requests, Handle(r), NEW s \in Requests, s # r
    PROVE  /\ req'[s] = req[s]
           /\ pc'[s] = pc[s]
           /\ session_user'[s] = session_user[s]
           /\ ret'[s] = ret[s]
<1> USE DEF TypeOK, Answer, Continue, GoTo
<1>1. CASE Receive(r)
  BY <1>1 DEF Receive
<1>2. CASE UserRegister(r) \/ UserDelete(r)
  BY <1>2 DEF UserRegister, UserDelete
<1>3. CASE Verify(r) \/ UpdatePassword(r) \/ SqlFails(r)
  BY <1>3 DEF Verify, UpdatePassword, SqlFails
<1>4. CASE IssueToken(r) \/ DropOwnSession(r) \/ UpdateToken(r) \/ Unsupported(r)
  BY <1>4 DEF IssueToken, DropOwnSession, UpdateToken, Unsupported
<1>5. QED
  BY <1>1, <1>2, <1>3, <1>4 DEF Handle

\* Every step of the account service is a step of the session manager, or
\* leaves the sessions alone.
LEMMA SessionStep ==
    ASSUME UserInv, [Next]_vars
    PROVE  [SessionNext]_sessionVars
<1> USE DEF UserInv, TypeOK, SessionTypeOK, RequestInv
<1>1. ASSUME NEW r \in Requests,
             \/ Receive(r) \/ UserRegister(r) \/ UserDelete(r) \/ Verify(r)
             \/ UpdatePassword(r) \/ SqlFails(r) \/ Unsupported(r)
      PROVE  UNCHANGED sessionVars
  BY <1>1 DEF Receive, UserRegister, UserDelete, Verify, UpdatePassword,
              SqlFails, Unsupported
<1>2. ASSUME NEW r \in Requests, IssueToken(r)
      PROVE  SessionNext
  <2>1. PICK token \in Tokens, time \in sql_time[r] .. now :
            GenerateToken(req[r].user, token, time)
    BY <1>2 DEF IssueToken
  <2>2. req[r].user \in Users /\ time \in 0 .. now
    BY <1>2, <2>1 DEF IssueToken, At
  <2>3. QED
    BY <2>1, <2>2 DEF SessionNext
<1>3. ASSUME NEW r \in Requests, DropOwnSession(r)
      PROVE  [SessionNext]_sessionVars
  BY <1>3 DEF DropOwnSession, SessionNext, KickoutByToken, CanKickoutByToken
<1>4. ASSUME NEW r \in Requests, UpdateToken(r)
      PROVE  [SessionNext]_sessionVars
  <2>1. CASE UNCHANGED sessionVars
    BY <2>1
  <2>2. CASE \E new_token \in Tokens :
                UpdateSession(req[r].user, req[r].token, new_token)
    <3>1. PICK new_token \in Tokens :
             UpdateSession(req[r].user, req[r].token, new_token)
      BY <2>2
    <3>2. req[r].token \in Tokens /\ req[r].user \in Users
      BY <3>1 DEF UpdateSession, CanUpdateSession, Session
    <3>3. QED
      BY <3>1, <3>2 DEF SessionNext
  <2>3. QED
    BY <1>4, <2>1, <2>2 DEF UpdateToken
<1>5. ASSUME Restart \/ Advance
      PROVE  SessionNext
  BY <1>5 DEF Restart, Advance, SessionNext
<1>6. ASSUME UNCHANGED vars
      PROVE  UNCHANGED sessionVars
  BY <1>6 DEF vars
<1>7. QED
  BY <1>1, <1>2, <1>3, <1>4, <1>5, <1>6 DEF Next, Handle

\* What Answer does to the request's variables.
LEMMA AnswerFacts ==
    ASSUME TypeOK, NEW r \in Requests, NEW code \in Codes \ {"none"},
           Answer(r, code)
    PROVE  /\ req' \in [Requests -> Args]
           /\ pc' \in [Requests -> Places]
           /\ session_user' \in [Requests -> Users \cup {NoUser}]
           /\ sql_time' \in [Requests -> Nat]
           /\ ret' \in [Requests -> Codes]
           /\ pc'[r] = "done"
           /\ session_user'[r] = NoUser
           /\ ret'[r] = code
           /\ code # "Success" => req'[r].op # "UserUpdateToken"
           /\ code = "Success" => req'[r] = req[r]
<1>1. Blank \in Args /\ Blank.op # "UserUpdateToken"
  BY DEF Blank, Args, Names, AnyPassword, AnyToken, Ops
<1>2. QED
  BY <1>1 DEF TypeOK, Answer, GoTo, Places

\* What Continue does to the request's variables.
LEMMA ContinueFacts ==
    ASSUME TypeOK, NEW r \in Requests, NEW place \in Places \ {"done"},
           Continue(r, place)
    PROVE  /\ req' \in [Requests -> Args]
           /\ pc' \in [Requests -> Places]
           /\ session_user' \in [Requests -> Users \cup {NoUser}]
           /\ sql_time' \in [Requests -> Nat]
           /\ ret' \in [Requests -> Codes]
           /\ pc'[r] = place
           /\ session_user'[r] = session_user[r]
           /\ ret'[r] = ret[r]
           /\ req'[r] = req[r]
  BY DEF TypeOK, SessionTypeOK, Continue, GoTo, Places

\* VerifyPassword and the checks before it answer with a code; success means
\* the arguments were valid.
LEMMA VerifyFacts ==
    ASSUME TypeOK, NEW a \in Args
    PROVE  /\ VerifyPassword(a.user, a.password) \in Codes \ {"none"}
           /\ ChangePasswordChecks(a) \in Codes \ {"none"}
           /\ VerifyPassword(a.user, a.password) = "Success" =>
                 a.user \in Users /\ a.password \in Passwords
           /\ ChangePasswordChecks(a) = "Success" =>
                 a.user \in Users /\ a.password \in Passwords
<1>1. a.user \in Users \cup {BadName} /\ a.password \in Passwords \cup {BadPassword}
      /\ a.old_password \in Passwords \cup {BadPassword}
  BY DEF Args, Names, AnyPassword
<1>2. ASSUME NEW u \in Users \cup {BadName}, NEW p \in Passwords \cup {BadPassword}
      PROVE  /\ VerifyPassword(u, p) \in Codes \ {"none"}
             /\ VerifyPassword(u, p) = "Success" => u # BadName /\ p # BadPassword
  BY UserAssumption DEF VerifyPassword, Codes
<1>3. QED
  BY <1>1, <1>2 DEF ChangePasswordChecks, Codes

\* A request's own step keeps its variables in their types and its part of the
\* invariant.
LEMMA HandleOwn ==
    ASSUME UserInv, NEW r \in Requests, Handle(r)
    PROVE  /\ users' \in [DOMAIN users' -> Passwords] /\ DOMAIN users' \subseteq Users
           /\ req' \in [Requests -> Args]
           /\ pc' \in [Requests -> Places]
           /\ session_user' \in [Requests -> Users \cup {NoUser}]
           /\ affect_rows' \in [Requests -> 0 .. 1]
           /\ sql_time' \in [Requests -> Nat]
           /\ ret' \in [Requests -> Codes]
           /\ RequestInv(r)'
<1> DEFINE Types ==
        /\ users' \in [DOMAIN users' -> Passwords] /\ DOMAIN users' \subseteq Users
        /\ req' \in [Requests -> Args]
        /\ pc' \in [Requests -> Places]
        /\ session_user' \in [Requests -> Users \cup {NoUser}]
        /\ affect_rows' \in [Requests -> 0 .. 1]
        /\ sql_time' \in [Requests -> Nat]
        /\ ret' \in [Requests -> Codes]
<1>0. TypeOK /\ SessionTypeOK /\ RequestInv(r)
  BY DEF UserInv, TypeOK
<1>a. /\ req[r] \in Args
      /\ users \in [DOMAIN users -> Passwords] /\ DOMAIN users \subseteq Users
      /\ affect_rows \in [Requests -> 0 .. 1]
  BY <1>0 DEF TypeOK
<1>b. /\ req[r].user \in Users \cup {BadName}
      /\ req[r].password \in Passwords \cup {BadPassword}
  BY <1>a DEF Args, Names, AnyPassword
<1>1. CASE Receive(r)
  <2>1. PICK op \in Ops, token \in issued \cup {NoToken} :
        \E a \in Arguments(op, token) :
          IF TokenRefused(a)
            THEN Answer(r, "User_session_error")
            ELSE /\ GoTo(r, IF op \in {"UserLogin", "UserChangePassword"}
                               THEN "verify" ELSE "dispatch")
                 /\ req' = [req EXCEPT ![r] = a]
                 /\ session_user' = [session_user EXCEPT ![r] =
                                       ValidateSession(token)]
                 /\ UNCHANGED <<ret, sql_time>>
    BY <1>1 DEF Receive
  <2>2. PICK a \in Arguments(op, token) :
          IF TokenRefused(a)
            THEN Answer(r, "User_session_error")
            ELSE /\ GoTo(r, IF op \in {"UserLogin", "UserChangePassword"}
                               THEN "verify" ELSE "dispatch")
                 /\ req' = [req EXCEPT ![r] = a]
                 /\ session_user' = [session_user EXCEPT ![r] =
                                       ValidateSession(token)]
                 /\ UNCHANGED <<ret, sql_time>>
    BY <2>1
  <2>3. token \in AnyToken
    BY <1>0 DEF SessionTypeOK, AnyToken
  <2>4. a \in Args /\ a.op = op /\ a.token = token
    BY <2>3, ArgumentsType
  <2>5. /\ ValidateSession(token) \in Users \cup {NoUser}
        /\ ValidateSession(token) # NoUser => token \in issued
    BY <1>0 DEF ValidateSession, SessionTypeOK, Session
  <2>6. UNCHANGED <<users, affect_rows, issued>> /\ pc[r] = "idle"
    BY <1>1 DEF Receive, At, sessionVars
  <2>7. CASE TokenRefused(a)
    <3>1. Answer(r, "User_session_error")
      BY <2>2, <2>7
    <3>2. QED
      BY <1>0, <1>a, <2>6, <3>1, AnswerFacts DEF RequestInv, Codes
  <2>8. CASE ~TokenRefused(a)
    BY <1>0, <1>a, <2>2, <2>4, <2>5, <2>6, <2>8
       DEF RequestInv, GoTo, TypeOK, Places
  <2>9. QED
    BY <2>7, <2>8
<1>c. ASSUME NEW code \in Codes \ {"none"}, Answer(r, code),
             code = "Success" => req[r].op # "UserUpdateToken"
      PROVE  RequestInv(r)'
  BY <1>0, <1>c, AnswerFacts DEF RequestInv
<1>d. ASSUME NEW code \in Codes \ {"none"}, Answer(r, code),
             UNCHANGED <<users, affect_rows>>
      PROVE  Types
  BY <1>0, <1>a, <1>d, AnswerFacts
<1>2. CASE UserRegister(r)
  <2>1. CASE \E code \in {"User_name_error", "User_passwd_error", "User_exists"} :
                Answer(r, code)
    <3>1. Types
      BY <1>0, <1>a, <1>b, <1>2, <2>1, AnswerFacts
         DEF UserRegister, SqlChanged, Emplace, Codes
    <3>2. RequestInv(r)'
      BY <1>c, <2>1 DEF Codes
    <3>3. QED
      BY <3>1, <3>2
  <2>2. CASE /\ req[r].user # BadName /\ req[r].password # BadPassword
             /\ req[r].user \notin DOMAIN users
    <3>1. /\ req[r].user \in Users /\ req[r].password \in Passwords
          /\ req[r].op = "UserCreate" /\ pc[r] = "dispatch"
          /\ users' = Emplace(users, req[r].user, req[r].password)
          /\ affect_rows' = [affect_rows EXCEPT ![r] = 1]
          /\ UNCHANGED issued
          /\ Continue(r, "token")
      BY <1>b, <1>2, <2>2 DEF UserRegister, SqlChanged, Dispatched, At,
                              sessionVars
    <3>2. Types
      BY <1>0, <1>a, <3>1, ContinueFacts DEF Emplace, Places
    <3>3. RequestInv(r)'
      BY <1>0, <3>1, ContinueFacts DEF RequestInv, Places
    <3>4. QED
      BY <3>2, <3>3
  <2>3. QED
    BY <1>2, <2>1, <2>2 DEF UserRegister
<1>3. CASE UserDelete(r)
  <2>1. CASE \E code \in {"User_name_error", "User_not_exists"} : Answer(r, code)
    <3>1. Types
      BY <1>0, <1>a, <1>3, <2>1, AnswerFacts
         DEF UserDelete, SqlChanged, Erase, Codes
    <3>2. RequestInv(r)'
      BY <1>c, <2>1 DEF Codes
    <3>3. QED
      BY <3>1, <3>2
  <2>2. CASE Continue(r, "kick")
    <3>1. /\ req[r].op = "UserDelete" /\ pc[r] = "dispatch"
          /\ UNCHANGED issued
      BY <1>3 DEF UserDelete, Dispatched, At, sessionVars
    <3>2. Types
      BY <1>0, <1>a, <1>3, <2>2, ContinueFacts
         DEF UserDelete, SqlChanged, Erase, Places
    <3>3. RequestInv(r)'
      BY <1>0, <2>2, <3>1, ContinueFacts DEF RequestInv, Places
    <3>4. QED
      BY <3>2, <3>3
  <2>3. QED
    BY <1>3, <2>1, <2>2 DEF UserDelete
<1>4. CASE Verify(r)
  <2> DEFINE code == IF req[r].op = "UserLogin"
                       THEN VerifyPassword(req[r].user, req[r].password)
                       ELSE ChangePasswordChecks(req[r])
             place == IF req[r].op = "UserLogin" THEN "token" ELSE "update"
  <2>1. /\ code \in Codes \ {"none"}
        /\ code = "Success" =>
              req[r].user \in Users /\ req[r].password \in Passwords
    BY <1>0, <1>a, VerifyFacts
  <2> HIDE DEF code
  <2>2. /\ IF code = "Success" THEN Continue(r, place) ELSE Answer(r, code)
        /\ UNCHANGED <<users, affect_rows, issued>>
        /\ pc[r] = "verify"
    BY <1>4 DEF Verify, At, sessionVars, code
  <2>3. CASE code # "Success"
    BY <1>c, <1>d, <2>1, <2>2, <2>3
  <2>4. CASE code = "Success"
    <3>1. Continue(r, place) /\ place \in Places \ {"done"}
      BY <2>2, <2>4 DEF Places
    <3>2. Types
      BY <1>0, <1>a, <2>2, <3>1, ContinueFacts
    <3>3. RequestInv(r)'
      BY <1>0, <2>1, <2>2, <2>4, <3>1, ContinueFacts DEF RequestInv
    <3>4. QED
      BY <3>2, <3>3
  <2>5. QED
    BY <2>3, <2>4
<1>5. CASE UpdatePassword(r)
  <2>1. /\ pc[r] = "update" /\ UNCHANGED issued
        /\ req[r].user \in Users /\ req[r].password \in Passwords
    BY <1>0, <1>5 DEF UpdatePassword, At, sessionVars, RequestInv
  <2>2. CASE req[r].user \in DOMAIN users
    <3>1. /\ users' = Assign(users, req[r].user, req[r].password)
          /\ affect_rows' = [affect_rows EXCEPT ![r] = 1]
          /\ Continue(r, "token")
      BY <1>5, <2>2 DEF UpdatePassword, SqlChanged
    <3>2. Types
      BY <1>0, <1>a, <2>1, <3>1, ContinueFacts DEF Assign, Places
    <3>3. RequestInv(r)'
      BY <1>0, <2>1, <3>1, ContinueFacts DEF RequestInv, Places
    <3>4. QED
      BY <3>2, <3>3
  <2>3. CASE req[r].user \notin DOMAIN users
    <3>1. /\ UNCHANGED users
          /\ affect_rows' = [affect_rows EXCEPT ![r] = 0]
          /\ Answer(r, "Fail")
      BY <1>5, <2>3 DEF UpdatePassword, SqlChanged
    <3>2. QED
      BY <1>0, <1>a, <1>c, <3>1, AnswerFacts DEF Codes
  <2>4. QED
    BY <2>2, <2>3
<1>6. CASE SqlFails(r)
  BY <1>6, <1>c, <1>d DEF SqlFails, Codes
<1>7. CASE IssueToken(r)
  <2>1. /\ Answer(r, "Success") /\ UNCHANGED <<users, affect_rows>>
        /\ req[r].op # "UserUpdateToken"
    BY <1>0, <1>7 DEF IssueToken, RequestInv, At
  <2>2. QED
    BY <1>c, <1>d, <2>1 DEF Codes
<1>8. CASE DropOwnSession(r)
  <2>1. /\ Answer(r, "Success") /\ UNCHANGED <<users, affect_rows>>
        /\ req[r].op # "UserUpdateToken"
    BY <1>0, <1>8 DEF DropOwnSession, RequestInv, At, Dispatched
  <2>2. QED
    BY <1>c, <1>d, <2>1 DEF Codes
<1>9. CASE UpdateToken(r)
  <2>1. CASE Answer(r, "Fail")
    BY <1>9, <1>c, <1>d, <2>1 DEF UpdateToken, Codes
  <2>2. CASE /\ Answer(r, "Success")
             /\ \E new_token \in Tokens :
                   UpdateSession(req[r].user, req[r].token, new_token)
    <3>1. PICK new_token \in Tokens :
             UpdateSession(req[r].user, req[r].token, new_token)
      BY <2>2
    <3>2. /\ req[r].token \in issued /\ new_token \notin issued
          /\ issued' = issued \cup {new_token}
          /\ DOMAIN token_sessions_' =
                (DOMAIN token_sessions_ \ {req[r].token}) \cup {new_token}
      BY <1>0, <3>1
         DEF UpdateSession, CanUpdateSession, Assign, Erase, SessionTypeOK
    <3>3. RequestInv(r)'
      BY <1>0, <2>2, <3>2, AnswerFacts DEF RequestInv, Codes
    <3>4. Types
      BY <1>9, <1>d, <2>2 DEF UpdateToken, Codes
    <3>5. QED
      BY <3>3, <3>4
  <2>3. QED
    BY <1>9, <2>1, <2>2 DEF UpdateToken
<1>10. CASE Unsupported(r)
  BY <1>10, <1>c, <1>d DEF Unsupported, Codes
<1>11. QED
  BY <1>1, <1>2, <1>3, <1>4, <1>5, <1>6, <1>7, <1>8, <1>9, <1>10 DEF Handle

\* Only UpdateToken makes a request that successfully exchanged its token, and
\* it finds the token live.
LEMMA ExchangeStep ==
    ASSUME UserInv, NEW r \in Requests, Handle(r),
           req'[r].op = "UserUpdateToken", ret'[r] = "Success"
    PROVE  req'[r].token \in DOMAIN token_sessions_
<1>0. TypeOK /\ RequestInv(r)
  BY DEF UserInv
<1>1. ASSUME NEW code \in Codes \ {"none"}, Answer(r, code)
      PROVE  code = "Success" /\ req'[r] = req[r] /\ req[r].op = "UserUpdateToken"
  BY <1>0, <1>1, AnswerFacts
<1>2. ASSUME ret'[r] = ret[r], pc[r] # "done"
      PROVE  FALSE
  BY <1>0, <1>2 DEF RequestInv
<1>3. CASE Receive(r)
  BY <1>1, <1>2, <1>3 DEF Receive, Codes, At
<1>4. CASE UserRegister(r) \/ UserDelete(r)
  BY <1>1, <1>2, <1>4
     DEF UserRegister, UserDelete, Codes, At, Dispatched, Continue
<1>5. CASE Verify(r)
  <2>1. req[r] \in Args
    BY <1>0 DEF TypeOK
  <2>2. req[r].op # "UserUpdateToken"
    BY <1>0, <1>5 DEF RequestInv, Verify, At
  <2>3. QED
    BY <1>0, <1>1, <1>2, <1>5, <2>1, <2>2, VerifyFacts DEF Verify, At, Continue
<1>6. CASE UpdatePassword(r) \/ SqlFails(r) \/ Unsupported(r)
  BY <1>1, <1>2, <1>6
     DEF UpdatePassword, SqlFails, Unsupported, Codes, At, Continue
<1>7. CASE IssueToken(r) \/ DropOwnSession(r)
  BY <1>0, <1>1, <1>7
     DEF RequestInv, IssueToken, DropOwnSession, Codes, At, Dispatched
<1>8. CASE UpdateToken(r)
  <2>1. CASE Answer(r, "Fail")
    BY <1>1, <2>1 DEF Codes
  <2>2. CASE Answer(r, "Success") /\ CanUpdateSession(req[r].user, req[r].token)
    BY <1>1, <2>2 DEF Codes, CanUpdateSession
  <2>3. QED
    BY <1>8, <2>1, <2>2 DEF UpdateToken, UpdateSession
<1>9. QED
  BY <1>3, <1>4, <1>5, <1>6, <1>7, <1>8 DEF Handle

\* The initial state satisfies the invariant.
LEMMA UserInitInv == Init => UserInv
<1> SUFFICES ASSUME Init PROVE UserInv
  OBVIOUS
<1>1. SessionIndexInv /\ SessionTypeOK
  BY SessionInitInv DEF Init, SessionIndexInv
<1>2. Blank \in Args /\ Blank.op = "UserUnused"
  BY DEF Blank, Args, Names, AnyPassword, AnyToken, Ops
<1>3. TypeOK
  BY <1>1, <1>2, UserAssumption DEF Init, TypeOK, Places, Codes
<1>4. QED
  BY <1>1, <1>2, <1>3 DEF Init, UserInv, RequestInv, TokenExchangedOnce

\* Every step preserves the invariant.
LEMMA UserNextInv == UserInv /\ [Next]_vars => UserInv'
<1> SUFFICES ASSUME UserInv, [Next]_vars PROVE UserInv'
  OBVIOUS
<1>1. [SessionNext]_sessionVars
  BY SessionStep
<1>2. SessionIndexInv'
  BY <1>1, SessionNextInv DEF UserInv
<1>3. /\ issued \subseteq issued'
      /\ \A t \in issued \ DOMAIN token_sessions_ :
            t \notin DOMAIN token_sessions_'
  BY <1>1, IssuedTokenStep DEF UserInv, TypeOK
<1>4. SessionTypeOK'
  BY <1>2 DEF SessionIndexInv
<1>5. ASSUME NEW r \in Requests, Handle(r)
      PROVE  UserInv'
  <2>1. TypeOK' /\ RequestInv(r)'
    BY <1>4, <1>5, HandleOwn DEF TypeOK
  <2>2. ASSUME NEW s \in Requests, s # r
        PROVE  RequestInv(s)'
    <3>1. /\ req'[s] = req[s] /\ pc'[s] = pc[s] /\ ret'[s] = ret[s]
          /\ session_user'[s] = session_user[s]
      BY <1>5, <2>2, OthersUnchanged DEF UserInv
    <3>2. RequestInv(s)
      BY DEF UserInv
    <3>3. QED
      BY <1>3, <3>1, <3>2 DEF RequestInv
  <2>3. ASSUME NEW s \in Requests, s # r,
               req'[r].op = "UserUpdateToken", ret'[r] = "Success",
               req'[s].op = "UserUpdateToken", ret'[s] = "Success"
        PROVE  req'[r].token # req'[s].token
    <3>1. req'[r].token \in DOMAIN token_sessions_
      BY <1>5, <2>3, ExchangeStep
    <3>2. req'[s] = req[s] /\ ret'[s] = ret[s]
      BY <1>5, <2>3, OthersUnchanged DEF UserInv
    <3>3. req[s].token \notin DOMAIN token_sessions_
      BY <2>3, <3>2 DEF UserInv, RequestInv
    <3>4. QED
      BY <3>1, <3>2, <3>3
  <2>4. ASSUME NEW s \in Requests, NEW q \in Requests, s # r, q # r, s # q,
               req'[q].op = "UserUpdateToken", ret'[q] = "Success",
               req'[s].op = "UserUpdateToken", ret'[s] = "Success"
        PROVE  req'[q].token # req'[s].token
    <3>1. /\ req'[s] = req[s] /\ ret'[s] = ret[s]
          /\ req'[q] = req[q] /\ ret'[q] = ret[q]
      BY <1>5, <2>4, OthersUnchanged DEF UserInv
    <3>2. QED
      BY <2>4, <3>1 DEF UserInv, TokenExchangedOnce
  <2>5. TokenExchangedOnce'
    BY <2>3, <2>4 DEF TokenExchangedOnce
  <2>6. QED
    BY <1>2, <2>1, <2>2, <2>5 DEF UserInv
<1>6. CASE Restart
  <2>1. TypeOK'
    BY <1>4, <1>6 DEF UserInv, TypeOK, Restart, Places
  <2>2. \A r \in Requests : RequestInv(r)'
    BY <1>3, <1>6 DEF UserInv, TypeOK, RequestInv, Restart
  <2>3. QED
    BY <1>2, <1>6, <2>1, <2>2 DEF UserInv, Restart, TokenExchangedOnce
<1>7. CASE UNCHANGED userVars
  <2>1. TypeOK'
    BY <1>4, <1>7 DEF UserInv, TypeOK, userVars
  <2>2. \A r \in Requests : RequestInv(r)'
    BY <1>3, <1>7 DEF UserInv, RequestInv, userVars
  <2>3. QED
    BY <1>2, <1>7, <2>1, <2>2 DEF UserInv, userVars, TokenExchangedOnce
<1>8. QED
  BY <1>5, <1>6, <1>7 DEF Next, Advance, vars

\* The invariant holds in every reachable state.
THEOREM UserInvariant == Spec => []UserInv
<1>1. Init => UserInv
  BY UserInitInv
<1>2. UserInv /\ [Next]_vars => UserInv'
  BY UserNextInv
<1>3. QED
  BY <1>1, <1>2, PTL DEF Spec

\* The account service, with its requests running concurrently, uses the
\* session manager as specified: what is proved of SessionSpec holds of it.
THEOREM UsesSessions == Spec => SessionSpec
<1>1. Init => SessionInit
  BY DEF Init
<1>2. UserInv /\ [Next]_vars => [SessionNext]_sessionVars
  BY SessionStep
<1>3. QED
  BY <1>1, <1>2, UserInvariant, PTL DEF Spec, SessionSpec

\* Of the requests that race to exchange one token at most one gets a new one.
THEOREM ExchangedOnce == Spec => []TokenExchangedOnce
<1>1. UserInv => TokenExchangedOnce
  BY DEF UserInv
<1>2. QED
  BY <1>1, UserInvariant, PTL

\* A row leaves the users table only in a request that logged in as admin or
\* as that user, and the row of admin never leaves.
THEOREM DeletesAuthorised == Spec => OnlyOwnerOrAdminDeletes
<1> DEFINE Authorised ==
        \A u \in DOMAIN users \ DOMAIN users' :
          /\ u # Admin
          /\ \E r \in Requests :
                /\ pc'[r] # pc[r]
                /\ session_user[r] \in {Admin, u}
                /\ req[r].token \in issued
<1>1. ASSUME UserInv, [Next]_vars
      PROVE  Authorised
  <2>1. ASSUME NEW r \in Requests, UserDelete(r)
        PROVE  Authorised
    <3> SUFFICES ASSUME NEW u \in DOMAIN users, u \notin DOMAIN users'
                 PROVE  /\ u # Admin
                        /\ pc'[r] # pc[r]
                        /\ session_user[r] \in {Admin, u}
                        /\ req[r].token \in issued
      OBVIOUS
    <3>1. /\ u = req[r].to_delete_user /\ u # Admin
          /\ session_user[r] \in {Admin, u}
          /\ pc[r] = "dispatch"
          /\ Continue(r, "kick") \/ Answer(r, "User_not_exists")
      BY <2>1 DEF UserDelete, Erase, Dispatched, At
    <3>2. pc'[r] # pc[r]
      BY <3>1, <1>1 DEF UserInv, TypeOK, Continue, Answer, GoTo
    <3>3. u \in Users /\ Admin \in Users
      BY <1>1, UserAssumption DEF UserInv, TypeOK
    <3>4. req[r].token \in issued
      BY <1>1, <3>1, <3>3, NoUserAssumption DEF UserInv, RequestInv
    <3>5. QED
      BY <3>1, <3>2, <3>4
  <2>2. ASSUME NEW r \in Requests,
               UserRegister(r) \/ UpdatePassword(r)
        PROVE  DOMAIN users \subseteq DOMAIN users'
    BY <2>2 DEF UserRegister, UpdatePassword, Emplace, Assign
  <2>3. ASSUME NEW r \in Requests,
               \/ Receive(r) \/ Verify(r) \/ SqlFails(r) \/ IssueToken(r)
               \/ DropOwnSession(r) \/ UpdateToken(r) \/ Unsupported(r)
        PROVE  users' = users
    BY <2>3 DEF Receive, Verify, SqlFails, IssueToken, DropOwnSession,
                UpdateToken, Unsupported
  <2>4. ASSUME Restart \/ Advance \/ UNCHANGED vars
        PROVE  users' = users
    BY <2>4 DEF Restart, Advance, vars, userVars
  <2>5. QED
    BY <1>1, <2>1, <2>2, <2>3, <2>4 DEF Next, Handle
<1>2. UserInv /\ [Next]_vars => [Authorised]_vars
  BY <1>1
<1>3. QED
  BY <1>2, UserInvariant, PTL DEF Spec, OnlyOwnerOrAdminDeletes

=============================================================================
