---------------------------- MODULE SqliteManager ----------------------------
(***************************************************************************)
(* util/sqlite_manager.h: the pool of connections, the statements that run *)
(* on them, and Init, which makes or opens the database.                   *)
(*                                                                         *)
(* SQLite itself is external: a statement outside a transaction is atomic; *)
(* a transaction takes the write lock with its first change and holds it   *)
(* until COMMIT or until its connection is closed; who meets the lock gets *)
(* SQLITE_BUSY at once (no busy handler is set); sqlite3_close does        *)
(* nothing while a statement of the connection is not finalized.           *)
(***************************************************************************)
EXTENDS Integers, Sequences, FiniteSets, SequencesExt

CONSTANTS
    Threads,        \* threads that use the manager
    Users,          \* values of users.user
    Single,         \* the users that Insert and Delete are about
    Files,          \* files for InsertFile
    ThumbHash,      \* [Files -> hashes]: thumb_hash of a file
    kConnNum,       \* connections Init puts in the pool
    MaxConns,       \* bound on the connections open at a time
    MaxFaults,      \* bound on failing calls of SQLite
    MaxCrashes,     \* bound on crashes
    MaxCalls,       \* bound on calls of the statements
    None

ASSUME SqliteConstants ==
    /\ Single \subseteq Users
    /\ ThumbHash \in [Files -> {ThumbHash[f] : f \in Files}]
    /\ kConnNum \in Nat \ {0} /\ MaxConns \in Nat /\ kConnNum < MaxConns
    /\ {MaxFaults, MaxCrashes, MaxCalls} \subseteq Nat

VARIABLES
    db,             \* what is committed in the database file
    init,           \* how far Init is
    conns,          \* conns_
    conn,           \* where each connection is
    lock,           \* the write lock: its connection, and what is not committed
    thread,         \* the call each thread is in
    faults,         \* faults so far
    crashes,        \* crashes so far
    acked,          \* history: what the answers say of each user
    calls           \* calls so far

vars == <<db, init, conns, conn, lock, thread, faults, crashes, acked,
          calls>>

Conns == 1 .. MaxConns
Tables == {"users", "meta", "files"}
Thumbs == {ThumbHash[f] : f \in Files}
Hashes == Thumbs \cup {None}
NoDb == [tables |-> {}, admin |-> FALSE, version |-> 0, users |-> {}, files |-> {}]
NoLock == [conn |-> 0, users |-> {}]
Statements == {"Insert", "Delete", "InsertFile", "SelectFile", "UpdateVersion", "InsertBatch"}
\* What a statement is about, if it matters.
Args(op) == CASE op \in {"Insert", "Delete"} -> Single
              [] op = "InsertFile" -> Files
              [] OTHER -> {None}
Idle == [op |-> "none", arg |-> None, pc |-> "idle", conn |-> 0, batch |-> <<>>,
         alone |-> TRUE]

\* The type invariant of the database, the pool and the calls.
TypeOK ==
    /\ db \in [tables: SUBSET Tables, admin: BOOLEAN, version: 0 .. 2, users: SUBSET Users,
               files: SUBSET [local_id: Hashes, file_hash: Files \cup {None}]]
    /\ init \in {"down", "users", "admin", "meta", "version", "files", "conns", "ok", "false"}
    /\ conns \in Seq(Conns)
    /\ conn \in [Conns -> [at: {"closed", "pool", "lost"} \cup Threads, stmt: BOOLEAN]]
    /\ lock \in [conn: {0} \cup Conns, users: SUBSET Users]
    /\ thread \in [Threads -> [op: Statements \cup {"none"}, arg: Users \cup Files \cup {None},
                               pc: {"idle", "get", "run", "batch", "commit", "put"},
                               conn: {0} \cup Conns, batch: Seq(Users), alone: BOOLEAN]]
    /\ faults \in 0 .. MaxFaults /\ crashes \in 0 .. MaxCrashes
    /\ acked \in [Users -> {"in", "out", "any"}]
    /\ calls \in 0 .. MaxCalls

\* A call of SQLite fails: a full disk, no memory, an I/O error.
Fails == faults < MaxFaults /\ faults' = faults + 1
Works == UNCHANGED faults

-----------------------------------------------------------------------------
\* Connections.

Open == {c \in Conns : conn[c].at # "closed"}
NewConn == CHOOSE c \in Conns \ Open : TRUE

\* sqlite3_close: rolls back, unless a statement keeps the connection open, for
\* which no pointer is left.
Closed(c) == IF conn[c].stmt THEN [conn[c] EXCEPT !.at = "lost"]
             ELSE [at |-> "closed", stmt |-> FALSE]
Close(c) ==
    /\ conn' = [conn EXCEPT ![c] = Closed(c)]
    /\ lock' = IF lock.conn = c /\ ~conn[c].stmt THEN NoLock ELSE lock

\* Mutant: the connection also goes back to the pool.
CloseAndPut(t) ==
    /\ Close(thread[t].conn)
    /\ conns' = Append(conns, thread[t].conn)
    /\ thread' = [thread EXCEPT ![t] = Idle]

\* A call that closes its connection returns Err_Fail.
CloseAndFail(t) ==
    /\ Close(thread[t].conn)
    /\ thread' = [thread EXCEPT ![t] = Idle]
    /\ UNCHANGED conns

\* The binder's error: the call returns, the connection stays as it is and is
\* not put back, nor is the statement finalized.
BindFails(t) ==
    /\ Fails
    /\ conn' = [conn EXCEPT ![thread[t].conn] = [at |-> "lost", stmt |-> TRUE]]
    /\ thread' = [thread EXCEPT ![t] = Idle]
    /\ UNCHANGED <<conns, lock>>

\* GetConn: the back of the pool, or a new connection.
GetConn(t) ==
    /\ thread[t].pc = "get"
    /\ LET next == IF thread[t].op = "InsertBatch" THEN "batch" ELSE "run" IN
       \/ /\ conns # <<>> /\ Works
          /\ conns' = Front(conns)
          /\ conn' = [conn EXCEPT ![Last(conns)].at = t]
          /\ thread' = [thread EXCEPT ![t].pc = next, ![t].conn = Last(conns)]
       \/ /\ conns = <<>> /\ Open # Conns /\ Works
          /\ conn' = [conn EXCEPT ![NewConn] = [at |-> t, stmt |-> FALSE]]
          /\ thread' = [thread EXCEPT ![t].pc = next, ![t].conn = NewConn]
          /\ UNCHANGED conns
       \/ /\ conns = <<>> /\ Fails
          /\ thread' = [thread EXCEPT ![t] = Idle]
          /\ UNCHANGED <<conns, conn>>
    /\ UNCHANGED <<db, init, lock, crashes, acked, calls>>

-----------------------------------------------------------------------------
\* Select (called by SelectFile), Insert, Update (by UpdateVersion) and Delete.

\* The users a call changes; a batch inserts all of them.
Changed(op, arg) == CASE op \in {"Insert", "Delete"} -> {arg}
                      [] op = "InsertBatch" -> Users
                      [] OTHER -> {}
ChangedBy(t) == Changed(thread[t].op, thread[t].arg)

\* A call, with the user or file it is about. Calls that overlap and change the
\* same user may take effect in either order, which the history notes.
Call(t) ==
    /\ init \in {"ok", "false"} /\ thread[t].pc = "idle" /\ calls < MaxCalls
    /\ \E op \in Statements : \E arg \in Args(op) :
         LET others == {u \in Threads : Changed(op, arg) \cap ChangedBy(u) # {}} IN
         thread' = [u \in Threads |->
                IF u = t
                THEN [Idle EXCEPT !.op = op, !.arg = arg, !.pc = "get", !.alone = (others = {}),
                                  !.batch = IF op = "InsertBatch" THEN SetToSeq(Users) ELSE <<>>]
                ELSE [thread[u] EXCEPT !.alone = @ /\ u \notin others]]
    /\ calls' = calls + 1
    /\ UNCHANGED <<db, init, conns, conn, lock, faults, crashes, acked>>

Table(op) == CASE op \in {"InsertFile", "SelectFile"} -> "files"
               [] op = "UpdateVersion" -> "meta"
               [] OTHER -> "users"
Reads == {"SelectFile"}

\* The parameters of InsertFile: each sqlite3_bind_text has index 1 and each
\* sqlite3_bind_int index 2, and the last one counts.
FilesColumns == <<"local_id", "device_id", "repo_dir", "file_hash", "type", "file_name",
                  "owner", "taken_time", "video_hash", "cover_hash", "thumb_hash">>
BindIndex(col) == IF col \in {"type", "taken_time"} THEN 2 ELSE 1
Bound(n) ==
    LET at == {k \in 1 .. Len(FilesColumns) : BindIndex(FilesColumns[k]) = n} IN
    IF at = {} THEN None ELSE FilesColumns[CHOOSE k \in at : \A j \in at : j <= k]
FileRow(f) ==
    LET value(col) == IF col = "thumb_hash" THEN ThumbHash[f] ELSE IF col = "file_hash" THEN f
                      ELSE None IN
    [local_id |-> value(Bound(1)), file_hash |-> value(Bound(4))]

\* A version is set where there is a row for it.
UpdateVersion == [db EXCEPT !.version = IF @ = 0 THEN 0 ELSE 2]

\* What a statement leaves. INSERT OR IGNORE ignores a second row with the same
\* unique column.
Effect(op, arg) ==
    CASE op = "Insert"        -> [db EXCEPT !.users = @ \cup {arg}]
      [] op = "Delete"        -> [db EXCEPT !.users = @ \ {arg}]
      [] op = "InsertFile"    -> IF \E r \in db.files : r.local_id = FileRow(arg).local_id
                                 THEN db ELSE [db EXCEPT !.files = @ \cup {FileRow(arg)}]
      [] op = "UpdateVersion" -> UpdateVersion
      [] OTHER                -> db

\* Another connection has the write lock, or may have it for a moment.
Contended(t) ==
    \/ lock.conn # 0
    \/ \E u \in Threads \ {t} : thread[u].pc \in {"run", "commit"}
                                /\ thread[u].op \notin Reads
HasLock == lock.conn = 0

\* sqlite3_prepare_v2, the binder, sqlite3_step; a Select does not finalize its
\* statement. The errors after the binder close the connection.
Run(t) ==
    /\ thread[t].pc = "run"
    /\ LET op == thread[t].op IN
       \/ /\ Table(op) \in db.tables /\ (op \in Reads \/ HasLock) /\ Works
          /\ db' = Effect(op, thread[t].arg)
          /\ conn' = [conn EXCEPT ![thread[t].conn].stmt = @ \/ op \in Reads]
          /\ thread' = [thread EXCEPT ![t].pc = "put"]
          /\ UNCHANGED <<conns, lock>>
       \/ /\ \/ Table(op) \notin db.tables /\ Works      \* no such table
             \/ op \notin Reads /\ Contended(t) /\ Works \* SQLITE_BUSY
             \/ Fails
          /\ CloseAndFail(t)
          /\ UNCHANGED db
       \/ Table(op) \in db.tables /\ BindFails(t) /\ UNCHANGED db
    /\ UNCHANGED <<init, crashes, acked, calls>>

-----------------------------------------------------------------------------
\* InsertBatch.

\* Mutant: every step of the binder is committed at once.
BatchStepCommits(t, u) ==
    /\ db' = [db EXCEPT !.users = @ \cup {u}]
    /\ UNCHANGED lock

\* One step of the binder: the change stays in the transaction.
BatchStep(t, u) ==
    /\ lock' = [conn |-> thread[t].conn, users |-> lock.users \cup {u}]
    /\ UNCHANGED db

\* BEGIN, prepare and the binder, which steps and resets the statement for
\* each user. BEGIN and prepare close the connection when they fail.
Batch(t) ==
    /\ thread[t].pc = "batch"
    /\ LET free == lock.conn \in {0, thread[t].conn}
           begun == lock.conn = thread[t].conn
           users == thread[t].batch IN
       \/ /\ users # <<>> /\ "users" \in db.tables /\ free /\ Works
          /\ BatchStep(t, Head(users))
          /\ thread' = [thread EXCEPT ![t].batch = Tail(users)]
          /\ UNCHANGED <<conns, conn>>
       \/ /\ users = <<>> /\ Works
          /\ thread' = [thread EXCEPT ![t].pc = "commit"]
          /\ UNCHANGED <<db, lock, conns, conn>>
       \/ /\ ~begun
          /\ Fails \/ ("users" \notin db.tables /\ Works)
          /\ CloseAndFail(t)
          /\ UNCHANGED db
       \/ /\ users # <<>> /\ "users" \in db.tables
          /\ \/ BindFails(t)
             \/ /\ ~free /\ Works
                /\ conn' = [conn EXCEPT ![thread[t].conn] = [at |-> "lost", stmt |-> TRUE]]
                /\ thread' = [thread EXCEPT ![t] = Idle]
                /\ UNCHANGED <<conns, lock>>
          /\ UNCHANGED db
    /\ UNCHANGED <<init, crashes, acked, calls>>

\* Mutant: the transaction is left open.
CommitNothing(t) == UNCHANGED <<db, lock>>

\* COMMIT: the changes become visible and the lock is free.
CommitAll(t) ==
    /\ db' = [db EXCEPT !.users = @ \cup lock.users]
    /\ lock' = NoLock

Commit(t) ==
    /\ thread[t].pc = "commit"
    /\ \/ /\ Works
          /\ CommitAll(t)
          /\ thread' = [thread EXCEPT ![t].pc = "put"]
          /\ UNCHANGED <<conns, conn>>
       \/ /\ Fails
          /\ CloseAndFail(t)
          /\ UNCHANGED db
    /\ UNCHANGED <<init, crashes, acked, calls>>

\* PutConn, and the call returns Err_Success.
Put(t) ==
    /\ thread[t].pc = "put"
    /\ conns' = Append(conns, thread[t].conn)
    /\ conn' = [conn EXCEPT ![thread[t].conn].at = "pool"]
    /\ acked' = [u \in Users |->
                   IF u \notin ChangedBy(t) THEN acked[u]
                   ELSE IF ~thread[t].alone THEN "any"
                   ELSE IF thread[t].op = "Delete" THEN "out" ELSE "in"]
    /\ thread' = [thread EXCEPT ![t] = Idle]
    /\ UNCHANGED <<db, init, lock, faults, crashes, calls>>

-----------------------------------------------------------------------------
\* Init, by the main thread alone; its result is not looked at (server.cc).

GetVersion == IF "meta" \in db.tables THEN db.version ELSE 0

\* UpgradeTables accepts every version but 0.
UpgradeTables == IF GetVersion = 0 THEN "false" ELSE "conns"

\* The connection of the main thread goes back to the pool or is closed.
Pooled(stmt) == conns' = <<1>> /\ conn' = [conn EXCEPT ![1] = [at |-> "pool", stmt |-> stmt]]
NotPooled == conns' = <<>> /\ conn' = [conn EXCEPT ![1] = [at |-> "closed", stmt |-> FALSE]]

\* A file that is there and not empty is upgraded, else the tables are made.
InitBegins ==
    /\ init = "down"
    /\ \/ db.tables = {} /\ Works /\ init' = "users" /\ NotPooled
       \/ /\ db.tables # {} /\ Works
          /\ init' = UpgradeTables
          /\ IF "meta" \in db.tables THEN Pooled(TRUE) ELSE NotPooled
       \/ Fails /\ init' = "false" /\ NotPooled
    /\ UNCHANGED <<db, lock, thread, crashes, acked, calls>>

\* InitTables, one statement after the other. ExecuteNonQuery and Insert may
\* fail, and Init is over then.
InitStep(at, next, result) ==
    /\ init = at
    /\ \/ Works /\ init' = next /\ db' = result /\ Pooled(FALSE)
       \/ Fails /\ init' = "false" /\ NotPooled /\ UNCHANGED db
    /\ UNCHANGED <<lock, thread, crashes, acked, calls>>

CreateTable(table) == [db EXCEPT !.tables = @ \cup {table}]

InitTables ==
    \/ InitStep("users", "admin", CreateTable("users"))
    \/ InitStep("admin", "meta", [db EXCEPT !.admin = TRUE])
    \/ InitStep("meta", "version", CreateTable("meta"))
    \/ InitStep("version", "files", [db EXCEPT !.version = 1])
    \/ InitStep("files", "conns", CreateTable("files"))

\* The pool is filled; connections that cannot be opened are left out.
InitConns ==
    /\ init = "conns"
    /\ init' = "ok"
    /\ \E n \in {kConnNum, kConnNum - 1} :
         /\ IF n < kConnNum THEN Fails ELSE Works
         /\ conns' = conns \o [i \in 1 .. n |-> i + 1]
         /\ conn' = [c \in Conns |-> IF c \in 2 .. n + 1 THEN [at |-> "pool", stmt |-> FALSE]
                                     ELSE conn[c]]
    /\ UNCHANGED <<db, lock, thread, crashes, acked, calls>>

\* The process ends, in the middle of a call or not; SQLite rolls back what was
\* not committed.
Crash ==
    /\ init # "down" /\ crashes < MaxCrashes
    /\ crashes' = crashes + 1
    /\ init' = "down"
    /\ conns' = <<>> /\ conn' = [c \in Conns |-> [at |-> "closed", stmt |-> FALSE]]
    /\ lock' = NoLock
    /\ thread' = [t \in Threads |-> Idle]
    /\ acked' = [u \in Users |-> IF \E t \in Threads : u \in ChangedBy(t) THEN "any" ELSE acked[u]]
    /\ UNCHANGED <<db, faults, calls>>

Init ==
    /\ db = NoDb /\ init = "down"
    /\ conns = <<>> /\ conn = [c \in Conns |-> [at |-> "closed", stmt |-> FALSE]]
    /\ lock = NoLock
    /\ thread = [t \in Threads |-> Idle]
    /\ faults = 0 /\ crashes = 0
    /\ acked = [u \in Users |-> "out"] /\ calls = 0

Step(t) == GetConn(t) \/ Run(t) \/ Batch(t) \/ Commit(t) \/ Put(t)

Next ==
    \/ \E t \in Threads : Call(t)
    \/ \E t \in Threads : Step(t)
    \/ InitBegins \/ InitTables \/ InitConns
    \/ Crash

\* Threads that are in a call go on; nobody has to call, and nothing has to fail.
Spec == Init /\ [][Next]_vars /\ \A t \in Threads : WF_vars(Step(t))

-----------------------------------------------------------------------------

\* A connection is in the pool once, or with one thread, or nowhere: no two
\* threads ever share one, and none that was closed is handed out, whichever
\* of the error paths of the statements were taken.
PoolSound ==
    /\ IsInjective(conns)
    /\ \A c \in Conns : conn[c].at = "pool" <=> c \in Range(conns)
    /\ \A t \in Threads : thread[t].conn # 0 => conn[thread[t].conn].at = t

\* The result of a call is the truth: after Err_Success the change is there, a
\* call that returned an error has changed nothing, not even a part of a
\* batch, and a crash takes nothing of it back.
AnswersTrue ==
    \A u \in Users : (\A t \in Threads : u \notin ChangedBy(t)) =>
        /\ acked[u] = "in" => u \in db.users
        /\ acked[u] = "out" => u \notin db.users

\* The write lock becomes free again, or stays with a connection that was lost
\* in an error path.
LockReleased ==
    lock.conn # 0 ~> lock.conn = 0 \/ conn[lock.conn].at = "lost"

==============================================================================
