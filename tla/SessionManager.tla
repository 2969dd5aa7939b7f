--------------------------- MODULE SessionManager ---------------------------
(***************************************************************************)
(* impl/session_manager.h: the login sessions of the server.  A session    *)
(* belongs to a user, is named by a token (a fresh UUID) and expires       *)
(* SESSION_INTERVAL after it was issued.  The manager keeps two maps, one  *)
(* from tokens and one from users, and every method runs under one spin    *)
(* lock, so each is one atomic action here.                                *)
(***************************************************************************)
EXTENDS Integers, StdMap

CONSTANTS
    Users,              \* user names
    Tokens,             \* UUIDs; Tokens is finite in a model, see issued
    NoUser,             \* "no such session": ValidateSession returned false
    SESSION_INTERVAL,   \* common::SESSION_INTERVAL, in clock ticks
    MaxTime             \* bound of a model: the clock stops here

ASSUME NoUserAssumption == NoUser \notin Users

ASSUME TimeAssumption == SESSION_INTERVAL \in Nat /\ MaxTime \in Nat

VARIABLES
    now,                \* util::Util::CurrentTimeMillis()
    issued,             \* every UUID handed out so far; UUIDs do not repeat
    token_sessions_,    \* token -> Session
    user_sessions_      \* user -> Session

sessionVars == <<now, issued, token_sessions_, user_sessions_>>

Session == [user : Users, last_update_time : Nat, token : Tokens]

\* The type invariant: both maps hold sessions, of tokens that were issued.
SessionTypeOK ==
    /\ now \in Nat
    /\ issued \subseteq Tokens
    /\ DOMAIN token_sessions_ \subseteq issued
    /\ token_sessions_ \in [DOMAIN token_sessions_ -> Session]
    /\ DOMAIN user_sessions_ \subseteq Users
    /\ user_sessions_ \in [DOMAIN user_sessions_ -> Session]

SessionInit ==
    /\ now = 0
    /\ issued = {}
    /\ token_sessions_ = EmptyMap
    /\ user_sessions_ = EmptyMap

-----------------------------------------------------------------------------

Expired(session) == now - session.last_update_time >= SESSION_INTERVAL

\* ValidateSession: the user of a live token, NoUser where the code returns
\* false (the empty token is outside Tokens, so it is never in the map).
ValidateSession(token) ==
    IF token \in DOMAIN token_sessions_ /\ ~Expired(token_sessions_[token])
      THEN token_sessions_[token].user
      ELSE NoUser

\* GenerateToken: both maps are filled with emplace, so a second login of a
\* user leaves the user's entry on the first session.  time is the clock as
\* read before the lock was taken.
GenerateToken(user, token, time) ==
    LET session == [user |-> user, last_update_time |-> time, token |-> token]
    IN  /\ token \in Tokens \ issued
        /\ issued' = issued \cup {token}
        /\ token_sessions_' = Emplace(token_sessions_, token, session)
        /\ user_sessions_' = Emplace(user_sessions_, user, session)
        /\ UNCHANGED now

\* The conditions under which UpdateSession goes on.
CanUpdateSession(user, token) ==
    /\ token \in DOMAIN token_sessions_
    /\ user = token_sessions_[token].user
    /\ ~Expired(token_sessions_[token])

\* Mutant: the session is changed in place and its old token is not erased.
UpdateSessionInPlace(user, token, new_token) ==
    LET new_session == [token_sessions_[token] EXCEPT !.last_update_time = now,
                                                      !.token = new_token]
    IN  /\ CanUpdateSession(user, token)
        /\ new_token \in Tokens \ issued
        /\ issued' = issued \cup {new_token}
        /\ user_sessions_' = Assign(user_sessions_, user, new_session)
        /\ token_sessions_' = Assign(Assign(token_sessions_, token, new_session),
                                     new_token, new_session)
        /\ UNCHANGED now

\* Mutant: the new session keeps the old token inside.
UpdateSessionKeepsName(user, token, new_token) ==
    LET old == [token_sessions_[token] EXCEPT !.last_update_time = now]
    IN  /\ CanUpdateSession(user, token)
        /\ new_token \in Tokens \ issued
        /\ issued' = issued \cup {new_token}
        /\ user_sessions_' = Assign(user_sessions_, user,
                                    [old EXCEPT !.token = new_token])
        /\ token_sessions_' = Assign(Erase(token_sessions_, token),
                                     new_token, old)
        /\ UNCHANGED now

\* UpdateSession: the session moves to a new token and starts a new interval.
UpdateSession(user, token, new_token) ==
    LET old == [token_sessions_[token] EXCEPT !.last_update_time = now]
        new_session == [old EXCEPT !.token = new_token]
    IN  /\ CanUpdateSession(user, token)
        /\ new_token \in Tokens \ issued
        /\ issued' = issued \cup {new_token}
        /\ user_sessions_' = Assign(user_sessions_, user, new_session)
        /\ token_sessions_' = Assign(Erase(token_sessions_, token),
                                     new_token, new_session)
        /\ UNCHANGED now

\* KickoutByUser: returns early without an entry, or when the entry's token
\* has no session (the branch logged as "this should nerver happen").
KickoutByUser(user) ==
    /\ user \in DOMAIN user_sessions_
    /\ user_sessions_[user].token \in DOMAIN token_sessions_
    /\ token_sessions_' = Erase(token_sessions_, user_sessions_[user].token)
    /\ user_sessions_' = Erase(user_sessions_, user)
    /\ UNCHANGED <<now, issued>>

\* The conditions under which KickoutByToken goes on; the second one fails in
\* the branch logged as "this should nerver happen".
CanKickoutByToken(token) ==
    /\ token \in DOMAIN token_sessions_
    /\ token_sessions_[token].user \in DOMAIN user_sessions_

\* KickoutByToken: drops the token's session and the entry of its user,
\* whichever session that entry holds.
KickoutByToken(token) ==
    /\ CanKickoutByToken(token)
    /\ user_sessions_' = Erase(user_sessions_, token_sessions_[token].user)
    /\ token_sessions_' = Erase(token_sessions_, token)
    /\ UNCHANGED <<now, issued>>

\* The clock advances.
Tick ==
    /\ now < MaxTime
    /\ now' = now + 1
    /\ UNCHANGED <<issued, token_sessions_, user_sessions_>>

\* The server process is started again: the maps are not persisted.
RestartSessions ==
    /\ token_sessions_' = EmptyMap
    /\ user_sessions_' = EmptyMap
    /\ UNCHANGED <<now, issued>>

SessionNext ==
    \/ \E user \in Users, token \in Tokens, time \in 0 .. now :
          GenerateToken(user, token, time)
    \/ \E user \in Users, token, new_token \in Tokens :
          UpdateSession(user, token, new_token)
    \/ \E user \in Users : KickoutByUser(user)
    \/ \E token \in Tokens : KickoutByToken(token)
    \/ Tick
    \/ RestartSessions

SessionSpec == SessionInit /\ [][SessionNext]_sessionVars

-----------------------------------------------------------------------------

\* The session a user's entry holds is a live one of the same user: the branch
\* of KickoutByUser that logs "Cannot find user's token, this should nerver
\* happen" is dead, in spite of entries that lag behind the newest login.
UserEntryHasSession ==
    \A u \in DOMAIN user_sessions_ :
        LET token == user_sessions_[u].token
        IN  /\ token \in DOMAIN token_sessions_
            /\ token_sessions_[token].user = u

\* A token means one login for ever: no step changes the owner or the
\* expiry of a session that stays, and a token that was dropped (logged out,
\* exchanged) is never live again.
TokenMeansOneLogin ==
    [][\A t \in issued :
          t \in DOMAIN token_sessions_' =>
             /\ t \in DOMAIN token_sessions_
             /\ token_sessions_'[t] = token_sessions_[t]]_sessionVars

\* The inductive strengthening of UserEntryHasSession: both maps are keyed by
\* what their sessions say.
SessionIndexInv ==
    /\ SessionTypeOK
    /\ UserEntryHasSession
    /\ \A t \in DOMAIN token_sessions_ : token_sessions_[t].token = t
    /\ \A u \in DOMAIN user_sessions_ : user_sessions_[u].user = u

=============================================================================
