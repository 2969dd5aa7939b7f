------------------------------ MODULE FileStore ------------------------------
(***************************************************************************)
(* How the server stores and serves one file of a repository:              *)
(* handler_proxy/file_handler.h (FileOpHandle, Save), impl/repo_manager.h  *)
(* (RepoMetaByUUID, ReadFile, WriteToFile), impl/user_manager.h            *)
(* (UserValidateSession), util/util.cc (MkParentDir, CreateFileWithSize,   *)
(* WriteToFile, LoadSmallFile) and http_handler/file_get_handler.h.        *)
(*                                                                         *)
(* Several uploads of the same content, which have the same path, may run  *)
(* at once.  The partitions of one upload come on one stream, whose events *)
(* one event thread handles in turn; the uploads interleave.  The mutex in *)
(* WriteToFile is thread_local, so it excludes nobody.                     *)
(*                                                                         *)
(* FileProcessManager::Put, which follows a stored partition, is left out: *)
(* it does not touch the file, and it uses elements of vectors that are    *)
(* never given any.                                                        *)
(***************************************************************************)
EXTENDS Partition, FiniteSets

CONSTANT Uploads        \* the request_ids

VARIABLES
    pc,                 \* where each upload's thread is in FileOpHandle
    cur_part,           \* the partition it handles
    acked,              \* the partitions answered with Success, by upload
    repo,               \* repos_ has the repository
    session,            \* the user's token is live
    dir,                \* the file's parent directory exists
    length,             \* the file's length, -1 when there is none
    bytes,              \* the offsets that hold the file's data, not a hole
    created,            \* how often a thread has opened the file with O_TRUNC
    unflushed,          \* the partitions lost in a close whose failure is not seen
    reader              \* a FileGet

storeVars == <<pc, cur_part, acked, repo, session, dir, length, bytes, created,
               unflushed, reader>>

Parts == 0 .. FilePartitionNum(file_size, partition_size) - 1
PartBytes(p) ==
    p * partition_size ..
        Smaller((p + 1) * partition_size, file_size) - 1

\* The file is on disk as the client has it.
Whole == length = file_size /\ bytes = 0 .. file_size - 1

NoReader ==
    [pc |-> "idle", whole |-> FALSE, pos |-> 0, got |-> {}, status |-> "none"]

\* The type invariant of the file store.
StoreTypeOK ==
    /\ pc \in [Uploads -> {"idle", "mkdir", "exists", "open", "ftruncate",
                           "write"}]
    /\ cur_part \in [Uploads -> Parts \cup {0}]
    /\ acked \in [Uploads -> SUBSET Parts]
    /\ repo \in BOOLEAN /\ session \in BOOLEAN /\ dir \in BOOLEAN
    /\ length \in -1 .. file_size
    /\ bytes \subseteq 0 .. length - 1
    /\ created \in Nat
    /\ unflushed \subseteq Parts
    /\ reader \in [pc : {"idle", "reading", "done"}, whole : BOOLEAN,
                   pos : 0 .. file_size, got : SUBSET (0 .. file_size - 1),
                   status : {"none", "200", "error"}]

StoreInit ==
    /\ pc = [u \in Uploads |-> "idle"]
    /\ cur_part = [u \in Uploads |-> 0]
    /\ acked = [u \in Uploads |-> {}]
    /\ repo = TRUE
    /\ session = TRUE
    /\ dir = FALSE
    /\ length = -1
    /\ bytes = {}
    /\ created = 0
    /\ unflushed = {}
    /\ reader = NoReader

UploadStep(u, from, to) == pc[u] = from /\ pc' = [pc EXCEPT ![u] = to]
SameFile == UNCHANGED <<length, bytes, created, unflushed>>
SameClient == UNCHANGED <<cur_part, acked>>

-----------------------------------------------------------------------------
(* FilePut *)

RepoMetaByUUID == repo

\* The token is one of the user who sends it, and no logout or expiry ended it.
UserValidateSession == session

\* FileOpHandle, Save and the start of RepoManager::WriteToFile.  A request
\* without a session, of another repo_type (every one that comes as an HTTP form,
\* which has no field for it), or for an unknown repository, is answered at once.
\* (The two lookups are one step: what ends the session between them might as
\* well end it after both.)
Receive(u, p) ==
    /\ UserValidateSession /\ RepoMetaByUUID
    /\ UploadStep(u, "idle", "mkdir")
    /\ cur_part' = [cur_part EXCEPT ![u] = p]
    /\ UNCHANGED <<acked, repo, session, dir, reader>> /\ SameFile

\* MkParentDir, whose result is not used.
MkParentDir(u) ==
    /\ UploadStep(u, "mkdir", "exists")
    /\ dir' \in {dir, TRUE}
    /\ UNCHANGED <<repo, session, reader>> /\ SameFile /\ SameClient

\* Mutant: the file is created anew for every partition.
TestExistsNot(u) ==
    /\ UploadStep(u, "exists", "open")
    /\ UNCHANGED <<repo, session, dir, reader>> /\ SameFile /\ SameClient

\* CreateFileWithSize returns when the path exists ...
TestExists(u) ==
    /\ UploadStep(u, "exists", IF length >= 0 THEN "write" ELSE "open")
    /\ UNCHANGED <<repo, session, dir, reader>> /\ SameFile /\ SameClient

\* ... and otherwise opens it with O_CREAT and O_TRUNC, which may fail ...
OpenTruncated(u) ==
    /\ \/ /\ dir
          /\ UploadStep(u, "open", "ftruncate")
          /\ length' = 0
          /\ bytes' = {}
          /\ created' = created + 1
       \/ UploadStep(u, "open", "idle") /\ UNCHANGED <<length, bytes, created>>
    /\ UNCHANGED <<repo, session, dir, unflushed, reader>> /\ SameClient

\* ... and gives it its length; when that fails, an empty file is left behind.
Ftruncate(u) ==
    /\ \/ UploadStep(u, "ftruncate", "write") /\ length' = file_size
       \/ UploadStep(u, "ftruncate", "idle") /\ UNCHANGED length
    /\ UNCHANGED <<repo, session, dir, bytes, created, unflushed, reader>> /\ SameClient

\* CalcPartitionStart fits the content, which is as long as Send read it.
SizeFits(p) ==
    LET range == CalcPartitionStart(file_size, p, partition_size)
    IN  range.end - range.start + 1 = Cardinality(PartBytes(p))

\* Mutant: the stream is opened without std::ios::in, which truncates the file.
StoreTruncated(p, n) ==
    LET start == CalcPartitionStart(file_size, p, partition_size).start
    IN  /\ bytes' = start .. start + n - 1
        /\ length' = IF n > 0 THEN start + n ELSE 0

\* The first n bytes of a partition reach the file, which may become longer.
Store(p, n) ==
    LET start == CalcPartitionStart(file_size, p, partition_size).start
    IN  /\ bytes' = bytes \cup (start .. start + n - 1)
        /\ length' = IF n > 0 /\ start + n > length THEN start + n ELSE length

Acknowledge(u) ==
    /\ acked' = [acked EXCEPT ![u] = @ \cup {cur_part[u]}]

\* Mutant: ofs.fail() is not tested after the write.
WriteFailsUnseen(u) ==
    \E n \in 0 .. Cardinality(PartBytes(cur_part[u])) - 1 :
       Store(cur_part[u], n) /\ Acknowledge(u) /\ UNCHANGED unflushed

\* The write fails and is answered with an error ...
WriteFails(u) ==
    \E n \in 0 .. Cardinality(PartBytes(cur_part[u])) - 1 :
       Store(cur_part[u], n) /\ UNCHANGED <<acked, unflushed>>

\* ... or everything still in the stream's buffer is lost when close() fails,
\* which nothing tests ...
CloseFails(u) ==
    \E n \in 0 .. Cardinality(PartBytes(cur_part[u])) - 1 :
       /\ Store(cur_part[u], n)
       /\ Acknowledge(u)
       /\ unflushed' = unflushed \cup {cur_part[u]}

\* ... or the partition is stored.
WriteSucceeds(u) ==
    /\ Store(cur_part[u], Cardinality(PartBytes(cur_part[u])))
    /\ Acknowledge(u)
    /\ UNCHANGED unflushed

\* The rest of RepoManager::WriteToFile with Util::WriteToFile.
WriteToRepoFile(u) ==
    /\ UploadStep(u, "write", "idle")
    /\ IF SizeFits(cur_part[u])
         THEN WriteFails(u) \/ CloseFails(u) \/ WriteSucceeds(u)
         ELSE UNCHANGED <<acked, length, bytes, unflushed>>
    /\ UNCHANGED <<cur_part, repo, session, dir, created, reader>>

FilePut(u) ==
    \/ \E p \in Parts : Receive(u, p)
    \/ MkParentDir(u) \/ TestExists(u) \/ OpenTruncated(u) \/ Ftruncate(u)
    \/ WriteToRepoFile(u)

-----------------------------------------------------------------------------
(* FileGet *)

Reads(r) ==
    /\ reader' = r
    /\ UNCHANGED <<pc, repo, session, dir>> /\ SameFile /\ SameClient

\* FileGetHandler::onRequest refuses a request without credentials, without a
\* session or without the names of the repository and the file (401, 403, 400).
GetRefused ==
    /\ reader.pc = "idle"
    /\ Reads([NoReader EXCEPT !.pc = "done", !.status = "error"])

\* ReadFile: LoadSmallFile opens the file (404 if there is none) ...
ReadFile ==
    /\ reader.pc = "idle" /\ UserValidateSession
    /\ Reads(IF RepoMetaByUUID /\ length >= 0
               THEN [NoReader EXCEPT !.pc = "reading", !.whole = Whole]
               ELSE [NoReader EXCEPT !.pc = "done", !.status = "error"])

\* ... and copies it until it comes to the end, one buffer after the other.
CopyBuffer ==
    LET buffer == reader.pos ..
                      Smaller(reader.pos + partition_size, length) - 1
    IN  /\ reader.pc = "reading"
        /\ Reads(IF reader.pos < length
                   THEN [reader EXCEPT
                          !.pos = Smaller(@ + partition_size, length),
                          !.got = @ \cup (buffer \cap bytes)]
                   ELSE [reader EXCEPT !.pc = "done", !.status = "200"])

\* The handler is deleted when its answer has been sent.
requestComplete == reader.pc = "done" /\ Reads(NoReader)

FileGet == GetRefused \/ ReadFile \/ CopyBuffer \/ requestComplete

-----------------------------------------------------------------------------

\* RepoManager::DeleteRepo, by another request.
DeleteRepo ==
    /\ repo /\ session
    /\ repo' = FALSE
    /\ UNCHANGED <<pc, session, dir, reader>> /\ SameFile /\ SameClient

\* A logout by another request, or the session's expiry.  (A bound: it does not
\* come after DeleteRepo, nor that after it.)
SessionEnds ==
    /\ repo /\ session
    /\ session' = FALSE
    /\ UNCHANGED <<pc, repo, dir, reader>> /\ SameFile /\ SameClient

\* The process ends and is started again; clients that had a session log in
\* again and resume their uploads.
CrashStore ==
    /\ \E u \in Uploads : pc[u] # "idle"
    /\ pc' = [u \in Uploads |-> "idle"]
    /\ reader' = NoReader
    /\ UNCHANGED <<repo, session, dir>> /\ SameFile /\ SameClient

StoreNext ==
    /\ \/ \E u \in Uploads : FilePut(u)
       \/ FileGet \/ DeleteRepo \/ SessionEnds \/ CrashStore
    /\ UNCHANGED <<file_size, partition_size>>

StoreSpec == Init /\ StoreInit /\ [][StoreNext]_<<vars, storeVars>>

-----------------------------------------------------------------------------

\* A partition answered with Success is in the file, and a file of which every
\* partition was answered so, by whichever uploads, is whole and has its length
\* even if ftruncate failed, unless a close failed or two uploads created the
\* file: failed writes, resent partitions and restarts of the server in between
\* take nothing away.
AckedStored ==
    created <= 1 =>
        LET all == UNION {acked[u] : u \in Uploads}
        IN  /\ \A p \in all \ unflushed : PartBytes(p) \subseteq bytes
            /\ all = Parts /\ unflushed = {} /\ Parts # {} => Whole

\* An upload creates the file at most once, whatever fails and however often it
\* is resumed: only uploads that all tested for the file before the first of
\* them created it truncate what another has written.
CreatedByOverlapOnly ==
    Cardinality({u \in Uploads : pc[u] = "open"}) + created
        <= Cardinality(Uploads)

\* A FileGet that finds a whole file answers with all of it: no upload of the
\* same content that begins, fails or is resumed meanwhile disturbs it unless
\* two uploads created the file.
WholeFileRead ==
    reader.status = "200" /\ reader.whole /\ created <= 1
        => reader.got = 0 .. file_size - 1

=============================================================================
