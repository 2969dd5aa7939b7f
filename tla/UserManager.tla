---------------------------- MODULE UserManager -----------------------------
(***************************************************************************)
(* impl/user_manager.h behind server/handler_proxy/handler_proxy.h: the    *)
(* account operations of the server.  Requests are handled concurrently by *)
(* the event threads.  UserOpHandle first validates the session, then runs *)
(* an operation that is a few SQL statements and session-manager calls.    *)
(* Each statement and each session-manager call is atomic, and other       *)
(* requests may run between any two of them.                               *)
(*                                                                         *)
(* The users table is a map from user names to passwords: the salted hash  *)
(* that the code stores tells equal from different passwords and nothing   *)
(* else.  Each element of Requests is one call of UserOpHandle.            *)
(***************************************************************************)
EXTENDS SessionManager, FiniteSets

CONSTANTS
    Requests,       \* the calls of UserOpHandle in a behaviour
    Admin,          \* the user "admin"
    BadName,        \* a user name that is empty or longer than 64
    Passwords,      \* passwords of 8 to 64 characters
    BadPassword,    \* any other password
    NoToken         \* the empty token

ASSUME UserAssumption ==
    /\ Admin \in Users /\ BadName \notin Users
    /\ BadPassword \notin Passwords /\ NoToken \notin Tokens
    /\ Passwords # {}

VARIABLES
    users,          \* the users table: user -> password
    req,            \* the arguments of each request
    pc,             \* where each request is
    session_user,   \* the user ValidateSession found, NoUser if not called
    affect_rows,    \* rows the request's INSERT, UPDATE or DELETE changed
    sql_time,       \* the clock at the request's last SQL statement
    ret             \* the answer's err_code

userVars == <<users, req, pc, session_user, affect_rows, sql_time, ret>>
vars == <<sessionVars, userVars>>

Names == Users \cup {BadName}
AnyPassword == Passwords \cup {BadPassword}
AnyToken == Tokens \cup {NoToken}

Ops == {"UserUnused", "UserCreate", "UserDelete", "UserLogin", "UserLogout",
        "UserChangePassword", "UserUpdateToken"}

\* UserReq
Args == [op : Ops, user : Names, password : AnyPassword, token : AnyToken,
         to_delete_user : Names, old_password : AnyPassword]

\* A request that was not received yet, or was refused and is forgotten.
Blank == [op |-> "UserUnused", user |-> BadName, password |-> BadPassword,
          token |-> NoToken, to_delete_user |-> BadName,
          old_password |-> BadPassword]

\* The requests with an operation and a token; they differ only in fields the
\* operation reads.
Arguments(op, token) ==
    [op : {op}, token : {token}, user : Names,
     password : IF op \in {"UserCreate", "UserLogin", "UserChangePassword"}
                  THEN AnyPassword ELSE {BadPassword},
     old_password : IF op = "UserChangePassword" THEN AnyPassword
                                                 ELSE {BadPassword},
     to_delete_user : IF op = "UserDelete" THEN Names ELSE {BadName}]

Codes == {"none", "Success", "Fail", "User_session_error", "User_name_error",
          "User_passwd_error", "User_exists", "User_not_exists"}

Places == {"idle", "dispatch", "verify", "update", "token", "kick", "done",
           "killed"}

\* The type invariant of the account service.
TypeOK ==
    /\ SessionTypeOK
    /\ DOMAIN users \subseteq Users
    /\ users \in [DOMAIN users -> Passwords]
    /\ req \in [Requests -> Args]
    /\ pc \in [Requests -> Places]
    /\ session_user \in [Requests -> Users \cup {NoUser}]
    /\ affect_rows \in [Requests -> 0 .. 1]
    /\ sql_time \in [Requests -> Nat]
    /\ ret \in [Requests -> Codes]

\* The table after SqliteManager::InitAdminUser.
Init ==
    /\ SessionInit
    /\ \E password \in Passwords :
          users = [u \in {Admin} |-> password]
    /\ req = [r \in Requests |-> Blank]
    /\ pc = [r \in Requests |-> "idle"]
    /\ session_user = [r \in Requests |-> NoUser]
    /\ affect_rows = [r \in Requests |-> 0]
    /\ sql_time = [r \in Requests |-> 0]
    /\ ret = [r \in Requests |-> "none"]

-----------------------------------------------------------------------------

At(r, place) == pc[r] = place
GoTo(r, place) == pc' = [pc EXCEPT ![r] = place]

\* res->set_err_code(code), and the handler returns: its locals are gone, and
\* the arguments of a request that failed are forgotten.
Answer(r, code) ==
    /\ GoTo(r, "done")
    /\ ret' = [ret EXCEPT ![r] = code]
    /\ req' = [req EXCEPT ![r] = IF code = "Success" THEN @ ELSE Blank]
    /\ session_user' = [session_user EXCEPT ![r] = NoUser]
    /\ sql_time' = [sql_time EXCEPT ![r] = 0]

\* The handler goes on after a SQL statement.
Continue(r, place) ==
    /\ GoTo(r, place)
    /\ sql_time' = [sql_time EXCEPT ![r] = now]
    /\ UNCHANGED <<ret, req, session_user>>

\* The request's statement changed n rows.
SqlChanged(r, n) == affect_rows' = [affect_rows EXCEPT ![r] = n]

\* UserOpHandle up to its switch: only create and login may come without a
\* token, and a token that is given must be a live one of req.user().
TokenRefused(a) ==
    IF a.token = NoToken
      THEN a.op \notin {"UserCreate", "UserLogin"}
      ELSE ValidateSession(a.token) \notin {a.user}

Receive(r) ==
    /\ At(r, "idle")
    /\ \E op \in Ops, token \in issued \cup {NoToken} :
       \E a \in Arguments(op, token) :
          IF TokenRefused(a)
            THEN Answer(r, "User_session_error")
            ELSE /\ GoTo(r, IF op \in {"UserLogin", "UserChangePassword"}
                               THEN "verify" ELSE "dispatch")
                 /\ req' = [req EXCEPT ![r] = a]
                 /\ session_user' = [session_user EXCEPT ![r] =
                                       ValidateSession(token)]
                 /\ UNCHANGED <<ret, sql_time>>
    /\ UNCHANGED <<sessionVars, users, affect_rows>>

Dispatched(r, op) == At(r, "dispatch") /\ req[r].op = op

\* UserRegister up to its INSERT OR IGNORE; the token comes in a later step.
UserRegister(r) ==
    LET a == req[r]
    IN  /\ Dispatched(r, "UserCreate")
        /\ UNCHANGED sessionVars
        /\ \/ /\ a.user = BadName
              /\ Answer(r, "User_name_error")
              /\ UNCHANGED <<users, affect_rows>>
           \/ /\ a.user # BadName /\ a.password = BadPassword
              /\ Answer(r, "User_passwd_error")
              /\ UNCHANGED <<users, affect_rows>>
           \/ /\ a.user # BadName /\ a.password # BadPassword
              /\ users' = Emplace(users, a.user, a.password)
              /\ IF a.user \in DOMAIN users
                   THEN SqlChanged(r, 0) /\ Answer(r, "User_exists")
                   ELSE SqlChanged(r, 1) /\ Continue(r, "token")

\* Mutant: any logged-in user may delete any other.
UserDeleteUnguarded(r) ==
    LET target == req[r].to_delete_user
    IN  /\ Dispatched(r, "UserDelete")
        /\ target \notin {BadName, Admin}
        /\ users' = Erase(users, target)
        /\ IF target \in DOMAIN users
             THEN SqlChanged(r, 1) /\ Continue(r, "kick")
             ELSE SqlChanged(r, 0) /\ Answer(r, "User_not_exists")
        /\ UNCHANGED sessionVars

\* UserDelete up to its DELETE; KickoutByToken comes in a later step.
UserDelete(r) ==
    LET target == req[r].to_delete_user
        allowed == session_user[r] \in {Admin, target}
    IN  /\ Dispatched(r, "UserDelete")
        /\ UNCHANGED sessionVars
        /\ \/ /\ target \in {BadName, Admin}
              /\ Answer(r, "User_name_error")
              /\ UNCHANGED <<users, affect_rows>>
           \/ /\ target \notin {BadName, Admin} /\ ~allowed
              /\ Answer(r, "User_not_exists")
              /\ UNCHANGED <<users, affect_rows>>
           \/ /\ target \notin {BadName, Admin} /\ allowed
              /\ users' = Erase(users, target)
              /\ IF target \in DOMAIN users
                   THEN SqlChanged(r, 1) /\ Continue(r, "kick")
                   ELSE SqlChanged(r, 0) /\ Answer(r, "User_not_exists")

\* VerifyPassword's answer for the current table.
VerifyPassword(user, password) ==
    CASE user = BadName -> "User_name_error"
      [] user # BadName /\ password = BadPassword -> "User_passwd_error"
      [] user # BadName /\ password # BadPassword ->
           IF user \notin DOMAIN users THEN "User_not_exists"
           ELSE IF users[user] = password THEN "Success"
           ELSE "User_passwd_error"

\* ChangePassword looks at the new password between the name and the row.
ChangePasswordChecks(a) ==
    IF a.user # BadName /\ a.password = BadPassword
      THEN "User_passwd_error"
      ELSE VerifyPassword(a.user, a.old_password)

\* The SELECT of UserLogin and of ChangePassword.
Verify(r) ==
    LET a == req[r]
        code == IF a.op = "UserLogin" THEN VerifyPassword(a.user, a.password)
                                      ELSE ChangePasswordChecks(a)
    IN  /\ At(r, "verify")
        /\ IF code = "Success"
             THEN Continue(r, IF a.op = "UserLogin" THEN "token" ELSE "update")
             ELSE Answer(r, code)
        /\ UNCHANGED <<sessionVars, users, affect_rows>>

\* Mutant: the UPDATE writes the row it verified, whether or not it is there.
UpdatePasswordUpserts(r) ==
    /\ At(r, "update")
    /\ users' = Assign(users, req[r].user, req[r].password)
    /\ SqlChanged(r, 1) /\ Continue(r, "token")
    /\ UNCHANGED sessionVars

\* The UPDATE of ChangePassword: the row may have gone since it was verified.
UpdatePassword(r) ==
    LET a == req[r]
    IN  /\ At(r, "update")
        /\ IF a.user \in DOMAIN users
             THEN /\ users' = Assign(users, a.user, a.password)
                  /\ SqlChanged(r, 1) /\ Continue(r, "token")
             ELSE /\ UNCHANGED users
                  /\ SqlChanged(r, 0) /\ Answer(r, "Fail")
        /\ UNCHANGED sessionVars

\* The request passed the checks that precede its SQL statement.
BeforeSql(r) ==
    LET a == req[r]
    IN  \/ /\ Dispatched(r, "UserCreate")
           /\ a.user # BadName /\ a.password # BadPassword
        \/ /\ Dispatched(r, "UserDelete")
           /\ a.to_delete_user \notin {BadName, Admin}
           /\ session_user[r] \in {Admin, a.to_delete_user}
        \/ /\ At(r, "verify")
           /\ a.user # BadName /\ a.password # BadPassword
           /\ a.op = "UserLogin" \/ a.old_password # BadPassword
        \/ At(r, "update")

\* A statement fails in the database, or the password cannot be hashed.
SqlFails(r) ==
    /\ BeforeSql(r)
    /\ \/ Answer(r, "Fail")
       \/ At(r, "update") /\ Answer(r, "User_passwd_error")
    /\ UNCHANGED <<sessionVars, users, affect_rows>>

\* GenerateToken at the end of register, login and change password.
IssueToken(r) ==
    /\ At(r, "token")
    /\ \E token \in Tokens, time \in sql_time[r] .. now :
          GenerateToken(req[r].user, token, time)
    /\ Answer(r, "Success")
    /\ UNCHANGED <<users, affect_rows>>

\* Mutant: a logout drops the session in the user's entry.
DropOwnSessionByUser(r) ==
    /\ At(r, "kick") \/ Dispatched(r, "UserLogout")
    /\ KickoutByUser(req[r].user)
    /\ Answer(r, "Success")
    /\ UNCHANGED <<users, affect_rows>>

\* KickoutByToken of the request's own token: UserLogout, and the end of
\* UserDelete.  It does nothing when the token has gone in the meantime.
DropOwnSession(r) ==
    LET token == req[r].token
    IN  /\ At(r, "kick") \/ Dispatched(r, "UserLogout")
        /\ \/ KickoutByToken(token)
           \/ ~CanKickoutByToken(token) /\ UNCHANGED sessionVars
        /\ Answer(r, "Success")
        /\ UNCHANGED <<users, affect_rows>>

\* UpdateToken; a request cannot have a bad name here, its token was validated.
UpdateToken(r) ==
    LET a == req[r]
    IN  /\ Dispatched(r, "UserUpdateToken")
        /\ \/ /\ \E new_token \in Tokens :
                    UpdateSession(a.user, a.token, new_token)
              /\ Answer(r, "Success")
           \/ /\ ~CanUpdateSession(a.user, a.token)
              /\ UNCHANGED sessionVars
              /\ Answer(r, "Fail")
        /\ UNCHANGED <<users, affect_rows>>

\* The switch's default.
Unsupported(r) ==
    /\ Dispatched(r, "UserUnused")
    /\ Answer(r, "Fail")
    /\ UNCHANGED <<sessionVars, users, affect_rows>>

\* The server process dies and is started again: the table is on disk, the
\* sessions are not, and no request in progress is answered.
Restart ==
    /\ RestartSessions
    /\ pc' = [r \in Requests |-> IF pc[r] \in {"idle", "done"} THEN pc[r]
                                                               ELSE "killed"]
    /\ session_user' = [r \in Requests |-> NoUser]
    /\ sql_time' = [r \in Requests |-> 0]
    /\ UNCHANGED <<users, req, affect_rows, ret>>

Advance == Tick /\ UNCHANGED userVars

Handle(r) ==
    \/ Receive(r)
    \/ UserRegister(r)
    \/ UserDelete(r)
    \/ Verify(r)
    \/ UpdatePassword(r)
    \/ SqlFails(r)
    \/ IssueToken(r)
    \/ DropOwnSession(r)
    \/ UpdateToken(r)
    \/ Unsupported(r)

Next ==
    \/ \E r \in Requests : Handle(r)
    \/ Restart
    \/ Advance

Spec == Init /\ [][Next]_vars

-----------------------------------------------------------------------------

\* What KickoutByToken assumes when it logs "Cannot find token's user, this
\* should nerver happen": a request that drops its live session finds the entry
\* of the session's user.
LogoutFindsUserEntry ==
    \A r \in Requests :
        /\ At(r, "kick") \/ Dispatched(r, "UserLogout")
        /\ req[r].token \in DOMAIN token_sessions_
        => CanKickoutByToken(req[r].token)

Inserts(u) == {r \in Requests : req[r].op = "UserCreate" /\ req[r].user = u
                                                  /\ affect_rows[r] > 0}
Deletes(u) == {r \in Requests : req[r].op = "UserDelete" /\ affect_rows[r] > 0
                                            /\ req[r].to_delete_user = u}

\* Registrations and deletions of a name alternate however they interleave: the
\* registrations that succeeded exceed the deletions by one exactly when the
\* name is in the table, so of two racing registrations one is told that the
\* user exists, and no password change brings a deleted user back.
RegistrationsBalance ==
    \A u \in Users :
        Cardinality(Inserts(u)) + (IF u = Admin THEN 1 ELSE 0) =
            Cardinality(Deletes(u)) + (IF u \in DOMAIN users THEN 1 ELSE 0)

\* Two requests that race to exchange the same token do not both get a new one.
TokenExchangedOnce ==
    \A r, s \in Requests :
        /\ req[r].op = "UserUpdateToken" /\ ret[r] = "Success"
        /\ req[s].op = "UserUpdateToken" /\ ret[s] = "Success"
        /\ req[r].token = req[s].token
        => r = s

\* A login ends only by its own token: a step that drops a session is a step of
\* a request that presented that token (or a restart), never a side effect of
\* another login, logout or deletion.
OnlyHolderEndsSession ==
    [][\A t \in DOMAIN token_sessions_ :
          t \notin DOMAIN token_sessions_' =>
             \/ \E r \in Requests : pc'[r] # pc[r] /\ req[r].token = t
             \/ pc' = [r \in Requests |->
                          IF pc[r] \in {"idle", "done"} THEN pc[r]
                                                        ELSE "killed"]]_vars

\* A row leaves the table only in a request that logged in as admin or as that
\* user, with a token that was issued, and the row of admin never leaves.
OnlyOwnerOrAdminDeletes ==
    [][\A u \in DOMAIN users \ DOMAIN users' :
          /\ u # Admin
          /\ \E r \in Requests :
                /\ pc'[r] # pc[r]
                /\ session_user[r] \in {Admin, u}
                /\ req[r].token \in issued]_vars

\* The part of the inductive invariant about one request: past its token check
\* it acts for a token that was issued, the arguments its later steps rely on
\* are valid, and a token that it exchanged is dead.
RequestInv(r) ==
    /\ session_user[r] # NoUser => req[r].token \in issued
    /\ pc[r] # "done" => ret[r] = "none"
    /\ pc[r] \in {"token", "update"} =>
          req[r].user \in Users /\ req[r].password \in Passwords
    /\ pc[r] = "verify" =>
          req[r].op \in {"UserLogin", "UserChangePassword"}
    /\ pc[r] \in {"token", "update", "kick"} =>
          req[r].op # "UserUpdateToken"
    /\ req[r].op = "UserUpdateToken" /\ ret[r] = "Success" =>
          req[r].token \in issued \ DOMAIN token_sessions_

\* The inductive invariant behind the properties above.
UserInv ==
    /\ TypeOK
    /\ SessionIndexInv
    /\ TokenExchangedOnce
    /\ \A r \in Requests : RequestInv(r)

=============================================================================
