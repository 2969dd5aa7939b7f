----------------------------- MODULE SyncManager -----------------------------
(***************************************************************************)
(* impl/sync_manager.h and .cc: a tree is copied to a local destination or *)
(* sent to a remote one, from the status of a scan (SyncLocal, SyncRemote) *)
(* or straight from the file system (SyncLocalRecursive,                   *)
(* SyncRemoteRecursive). One caller, as in the tools, makes one call after *)
(* another; Stop comes from another thread.                                *)
(*                                                                         *)
(* A SyncContext has a dir_queue and a running_mark of its own. No call    *)
(* uses them together with those of a ScanContext, and the model has one   *)
(* of each. A file at the destination has the time it was given and its    *)
(* content, named by the time at which the source file got it.             *)
(***************************************************************************)
EXTENDS ScanManager

CONSTANTS
    Owner,          \* [Dirs -> Threads]: the hash of a directory's path
    MaxCalls        \* bound on the calls

VARIABLES
    dst,            \* the files at the local destination
    remote,         \* what was handed to the clients of the remote end
    sync,           \* the call: what it does, how far it is, its result
    count,          \* total_file_cnt, syncd_file_success_cnt and _fail_cnt
    syncing,        \* syncing_
    stopping,       \* how far Stop is
    calls           \* calls made so far

syncVars == <<dst, remote, sync, count, syncing, stopping, calls>>
vars == <<scanVars, syncVars>>

Ops == {"Scan", "SyncLocal", "SyncRemote", "SyncLocalRecursive", "SyncRemoteRecursive"}
Copy == [time: 0 .. MaxTime + 1, data: Time]
Missing == [time |-> 0, data |-> 0]
SomeTime == MaxTime + 1     \* the time of a copy that was not set back
NoCount == [total |-> 0, success |-> 0, fail |-> 0]
DefaultArgs == [disable_scan_cache |-> FALSE, skip_scan |-> FALSE, hash |-> NoHash,
                ignored |-> {}]
NoCall == [op |-> "Scan", pc |-> "idle", err |-> "Success", args |-> DefaultArgs]

SyncTypeOK ==
    /\ ScanTypeOK
    /\ dst \in [Dirs -> [Files -> Copy]]
    /\ remote \subseteq Removed
    /\ sync \in [op: Ops, pc: {"idle", "scan", "workers", "hangs", "returned"},
                 err: Errors, args: ScanArgs]
    /\ count \in [total: Nat, success: Nat, fail: Nat]
    /\ syncing \in Nat
    /\ stopping \in {"no", "sync", "scan", "done"}
    /\ calls \in 0 .. MaxCalls

SyncStop == stopping # "no"

-----------------------------------------------------------------------------
\* Copying one file.

\* CopyFile (or SyncSymlink) and SetUpdateTime; a copy that fails may have
\* removed the old one.
CopyFile(d, f, time, ok) ==
    \/ /\ ok /\ fs[d].files[f] # 0 /\ Works
       /\ dst' = [dst EXCEPT ![d][f] = [time |-> time, data |-> fs[d].files[f]]]
    \/ /\ ~ok /\ fs[d].files[f] # 0 /\ Fails
       /\ dst' \in {dst, [dst EXCEPT ![d][f] = Missing],
                    [dst EXCEPT ![d][f] = [time |-> SomeTime, data |-> fs[d].files[f]]]}
    \/ ~ok /\ fs[d].files[f] = 0 /\ Works /\ UNCHANGED dst

Succeeded == [count EXCEPT !.success = @ + 1]
Failed == [count EXCEPT !.fail = @ + 1]

SyncTop(w, task) == worker[w].task = task /\ Running(w)
AtSync(w, task, pc) == worker[w].task = task /\ worker[w].pc = pc
OutOfSync == UNCHANGED <<fs, now, quiet, cache, status, removed, err_code, hash_method, scan,
                         scanning, stop, dump, held, syncing, stopping, calls>>

-----------------------------------------------------------------------------
\* LocalSyncWorker: the directories of the status that are the worker's.

CopyDir(w) ==
    /\ SyncTop(w, "copy")
    /\ \/ /\ worker[w].dirs = {} \/ SyncStop
          /\ sync' = IF worker[w].dirs # {} THEN [sync EXCEPT !.err = "Interrupted"]
                     ELSE sync
          /\ Set(w, [worker[w] EXCEPT !.pc = "prune", !.dirs = {}])
       \/ /\ worker[w].dirs # {} /\ ~SyncStop
          /\ LET d == CHOOSE e \in worker[w].dirs : TRUE
                 next == [worker[w] EXCEPT !.pc = "top", !.dirs = @ \ {d}] IN
             Set(w, IF There(fs, d)
                    THEN [next EXCEPT !.pc = "file", !.dir = d,
                                      !.names = FilesOf(status.dirs, d)]
                    ELSE next)
          /\ UNCHANGED sync
    /\ UNCHANGED <<events, clean, dst, remote, count, queue, mark>> /\ OutOfSync

\* Mutant: a failed copy is counted as done.
CopyCountedAnyway(d, f, time) ==
    /\ \E ok \in BOOLEAN : CopyFile(d, f, time, ok)
    /\ count' = Succeeded
    /\ UNCHANGED sync

\* A file that is to be copied: every failure is counted and sets err_code.
CopyListed(d, f, time) ==
    \E ok \in BOOLEAN :
        /\ CopyFile(d, f, time, ok)
        /\ count' = IF ok THEN Succeeded ELSE Failed
        /\ sync' = IF ok THEN sync ELSE [sync EXCEPT !.err = "Failed"]

\* A file whose copy has the recorded time is skipped.
LocalSyncFile(w) ==
    /\ AtSync(w, "copy", "file")
    /\ IF worker[w].names = {}
       THEN /\ Set(w, [worker[w] EXCEPT !.pc = "top", !.dir = Root])
            /\ UNCHANGED <<events, clean, dst, count, sync>>
       ELSE LET d == worker[w].dir
                f == CHOOSE g \in worker[w].names : TRUE
                time == status.dirs[d].files[f] IN
            /\ Set(w, [worker[w] EXCEPT !.names = @ \ {f}])
            /\ IF fs[d].files[f] # 0 /\ dst[d][f].time = time
               THEN count' = Succeeded /\ UNCHANGED <<events, clean, dst, sync>>
               ELSE CopyListed(d, f, time)
    /\ UNCHANGED <<remote, queue, mark>> /\ OutOfSync

\* RemoveDir and RemoveFile record absolute paths.
IsAbsolute(p) == TRUE

\* With Sync_SYNC what was removed from the source is removed from the
\* destination, save for absolute paths, which are logged ("Must be relative").
RemoveFromDst(w) ==
    /\ AtSync(w, "copy", "prune")
    /\ dst' = [d \in Dirs |-> [f \in Files |->
                 IF <<d, f>> \in removed /\ Owner[d] = w /\ ~IsAbsolute(<<d, f>>)
                       /\ fs[d].files[f] = 0
                 THEN Missing ELSE dst[d][f]]]
    /\ Set(w, Idle)
    /\ UNCHANGED <<events, clean, remote, sync, count, queue, mark>> /\ OutOfSync

-----------------------------------------------------------------------------
\* RecursiveLocalSyncWorker and RecursiveRemoteSyncWorker: directories from the
\* queue.

\* A worker of the remote end first waits for its client (Await), which gets no
\* more files.
Stops(w) ==
    IF worker[w].task = "remote"
    THEN Set(w, [Idle EXCEPT !.task = "remote", !.pc = "await"]) /\ UNCHANGED mark
    ELSE Leave(w)

RecursiveStops(w) ==
    /\ SyncTop(w, "local") \/ SyncTop(w, "remote")
    /\ SyncStop \/ queue = <<>>
    /\ sync' = IF SyncStop THEN [sync EXCEPT !.err = "Interrupted"] ELSE sync
    /\ Stops(w)
    /\ UNCHANGED <<events, clean, dst, remote, count, queue>> /\ OutOfSync

\* What is put in the client's queue for directory d: its files, and d itself
\* once for each of its sub-directories.
Sent(d) ==
    {<<d, f>> : f \in FilesOf(fs, d)} \cup {<<d, "">> : c \in SubDirs(fs, d)}

RecursivePop(w) ==
    /\ SyncTop(w, "local") \/ SyncTop(w, "remote")
    /\ ~SyncStop /\ queue # <<>>
    /\ LET d == Last(queue) IN
       \/ /\ \/ (d \in sync.args.ignored \/ ~There(fs, d)) /\ Works
             \/ d \notin sync.args.ignored /\ There(fs, d) /\ Fails   \* the iterator throws
          /\ queue' = Front(queue)
          /\ AtTop(w)
          /\ UNCHANGED <<remote, count>>
       \/ /\ d \notin sync.args.ignored /\ There(fs, d) /\ Works
          /\ queue' = Front(queue) \o SetToSeq(SubDirs(fs, d))
          /\ IF worker[w].task = "local"
             THEN /\ Set(w, [worker[w] EXCEPT !.pc = "file", !.dir = d,
                                              !.names = FilesOf(fs, d)])
                  /\ UNCHANGED <<remote, count>>
             ELSE /\ AtTop(w)
                  /\ remote' = remote \cup Sent(d)
                  /\ count' = [count EXCEPT !.total = @ + Cardinality(FilesOf(fs, d))]
    /\ UNCHANGED <<dst, sync, mark>> /\ OutOfSync

\* A file is skipped when its copy has its time. A failed copy is counted; only
\* a file that is not there any more sets err_code.
RecursiveSyncFile(w) ==
    /\ AtSync(w, "local", "file")
    /\ IF worker[w].names = {}
       THEN AtTop(w) /\ UNCHANGED <<events, clean, dst, count, sync>>
       ELSE LET d == worker[w].dir
                f == CHOOSE g \in worker[w].names : TRUE
                time == fs[d].files[f]
                seen == [count EXCEPT !.total = @ + 1] IN
            /\ Set(w, [worker[w] EXCEPT !.names = @ \ {f}])
            /\ \E ok \in BOOLEAN :
                  /\ IF time # 0 /\ dst[d][f].time = time
                     THEN ok /\ UNCHANGED <<events, clean, dst>>
                     ELSE CopyFile(d, f, time, ok)
                  /\ count' = IF ok THEN [seen EXCEPT !.success = @ + 1]
                              ELSE [seen EXCEPT !.fail = @ + 1]
            /\ sync' = IF time = 0 THEN [sync EXCEPT !.err = "Failed"] ELSE sync
    /\ UNCHANGED <<remote, queue, mark>> /\ OutOfSync

\* RemoteSyncWorker: a directory of the status and its files go to the client.
SendDir(w) ==
    /\ SyncTop(w, "send")
    /\ \/ /\ worker[w].dirs = {} \/ SyncStop
          /\ sync' = IF worker[w].dirs # {} THEN [sync EXCEPT !.err = "Interrupted"]
                     ELSE sync
          /\ Set(w, [worker[w] EXCEPT !.pc = "await", !.dirs = {}])
          /\ UNCHANGED remote
       \/ /\ worker[w].dirs # {} /\ ~SyncStop
          /\ LET d == CHOOSE e \in worker[w].dirs : TRUE IN
             /\ Set(w, [worker[w] EXCEPT !.pc = "top", !.dirs = @ \ {d}])
             /\ remote' = IF There(fs, d)
                          THEN remote \cup {<<d, "">>} \cup
                               {<<d, f>> : f \in FilesOf(status.dirs, d) \cap FilesOf(fs, d)}
                          ELSE remote
          /\ UNCHANGED sync
    /\ UNCHANGED <<events, clean, dst, count, queue, mark>> /\ OutOfSync

\* FileClient::Await of the worker's own client returns.
ClientDone(w) ==
    /\ worker[w].pc = "await"
    /\ IF worker[w].task = "remote" THEN Leave(w) ELSE Set(w, Idle) /\ UNCHANGED mark
    /\ UNCHANGED <<events, clean, dst, remote, sync, count, queue>> /\ OutOfSync

SyncWorker(w) ==
    \/ CopyDir(w) \/ LocalSyncFile(w) \/ RemoveFromDst(w) \/ RecursiveStops(w)
    \/ RecursivePop(w) \/ RecursiveSyncFile(w) \/ SendDir(w) \/ ClientDone(w)

-----------------------------------------------------------------------------
\* The calls.

Recursive == {"SyncLocalRecursive", "SyncRemoteRecursive"}
PostProgress == held' = IF Busy < PoolSize THEN held + 1 ELSE held

\* A call starts after the DumpTask of the scan before it has ended, and its
\* paths are valid. Reset clears the SyncContext.
Called(op, args) ==
    /\ sync.pc = "idle" /\ calls < MaxCalls /\ dump.pc = "none"
    /\ calls' = calls + 1
    /\ sync' = [op |-> op, err |-> "Success", args |-> args,
                pc |-> IF op \in Recursive THEN "workers" ELSE "scan"]
    /\ count' = NoCount
    /\ UNCHANGED quiet
    /\ UNCHANGED <<dst, remote, stopping>>

\* tools/scan.cc, SyncLocal and SyncRemote start with a scan; SyncLocal counts
\* itself in and posts its progress task before.
CallScan(op, args) ==
    /\ op \notin Recursive /\ (op # "SyncLocal" => args.ignored = {})
    /\ Called(op, args)
    /\ IF op = "SyncLocal" THEN PostProgress /\ syncing' = syncing + 1
       ELSE UNCHANGED <<held, syncing>>
    /\ ParallelScan(args)

PostWorkers(task) == worker' = [w \in Threads |-> Posted(task)]

\* The recursive calls start their workers at once.
CallRecursive(op, ignored) ==
    /\ op \in Recursive
    /\ Called(op, [DefaultArgs EXCEPT !.ignored = ignored])
    /\ syncing' = syncing + 1
    /\ queue' = <<Root>>
    /\ mark' = Threads
    /\ IF op = "SyncLocalRecursive" THEN PostWorkers("local") /\ PostProgress
       ELSE PostWorkers("remote") /\ UNCHANGED held
    /\ UNCHANGED <<fs, now, events, clean, cache, status, removed, err_code, hash_method,
                   scan, scanning, stop, dump>>

OutOfCall == UNCHANGED <<fsVars, cache, removed, err_code, hash_method, status, queue,
                         scanning, stop, dump, dst, remote, stopping, calls>>

\* A scan that failed ends the call. SyncLocal does not count itself out, and
\* its progress task goes on.
ScanFailed ==
    /\ sync.pc = "scan" /\ scan = "returned" /\ (err_code # "Success" \/ sync.op = "Scan")
    /\ sync' = [sync EXCEPT !.pc = "returned", !.err = err_code]
    /\ scan' = "idle"
    /\ UNCHANGED <<count, syncing, held, worker, mark>> /\ OutOfCall


\* The directories whose hash is the worker's number.
Share(w) == {d \in Dirs : There(status.dirs, d) /\ Owner[d] = w}

Scanned ==
    /\ sync.pc = "scan" /\ scan = "returned" /\ err_code = "Success" /\ sync.op # "Scan"
    /\ sync' = [sync EXCEPT !.pc = "workers"]
    /\ scan' = "idle"
    /\ count' = [count EXCEPT !.total =
                    Cardinality({p \in Dirs \X Files : status.dirs[p[1]].files[p[2]] # 0})]
    /\ worker' = [w \in Threads |->
                    [Posted(IF sync.op = "SyncLocal" THEN "copy" ELSE "send")
                        EXCEPT !.dirs = Share(w)]]
    /\ syncing' = IF sync.op = "SyncRemote" THEN syncing + 1 ELSE syncing
    /\ UNCHANGED <<held, mark>> /\ OutOfCall

\* The loops on running_mark. That of SyncRemoteRecursive, too, posts the
\* worker that copies locally.
RestartSyncWorker(w) ==
    /\ sync.pc = "workers" /\ sync.op \in Recursive
    /\ w \notin mark /\ queue # <<>>
    /\ mark' = mark \cup {w}
    /\ Set(w, Posted("local"))
    /\ UNCHANGED <<count, sync, scan, syncing, held>> /\ OutOfCall

\* The end of SyncLocalRecursive, which returns Err_Success whatever err_code is.
RecursiveEnds ==
    /\ sync.pc = "workers" /\ sync.op = "SyncLocalRecursive" /\ NoWorkerLeft
    /\ sync' = [sync EXCEPT !.pc = "returned", !.err = "Success"]
    /\ syncing' = syncing - 1 /\ held' = held - 1
    /\ UNCHANGED <<count, scan, worker, mark>> /\ OutOfCall

\* SyncRemoteRecursive waits for a client of its own, which is never told that
\* no more files will come.
RecursiveHangs ==
    /\ sync.pc = "workers" /\ sync.op = "SyncRemoteRecursive" /\ NoWorkerLeft
    /\ sync' = [sync EXCEPT !.pc = "hangs"]
    /\ UNCHANGED <<count, scan, syncing, held, worker, mark>> /\ OutOfCall

\* The futures of the workers.
FuturesReady == \A w \in Threads : worker[w] = Idle

\* The end of SyncLocal and SyncRemote; the former ends its progress task.
SyncEnds ==
    /\ sync.pc = "workers" /\ sync.op \notin Recursive /\ FuturesReady
    /\ sync' = [sync EXCEPT !.pc = "returned"]
    /\ syncing' = syncing - 1
    /\ held' = IF sync.op = "SyncLocal" THEN held - 1 ELSE held
    /\ UNCHANGED <<count, scan, worker, mark>> /\ OutOfCall

\* The caller drops its contexts.
Dropped ==
    /\ status' = NoStatus /\ removed' = {} /\ queue' = <<>>
    /\ err_code' = "Success" /\ hash_method' = NoHash
    /\ sync' = NoCall /\ count' = NoCount
    /\ quiet' = IF quiet = "no" THEN "now" ELSE quiet

CallOver ==
    /\ sync.pc = "returned"
    /\ Dropped
    /\ UNCHANGED <<fs, now, events, clean, cache, mark, worker, scan, scanning, stop, dump, held, dst, remote,
                   syncing, stopping, calls>>

\* SyncManager::Stop and, in it, ScanManager::Stop.
Stop ==
    /\ \/ stopping = "no" /\ stopping' = "sync" /\ Outside /\ UNCHANGED stop
       \/ stopping = "sync" /\ stopping' = "scan" /\ stop' = TRUE /\ UNCHANGED events
       \/ /\ stopping = "scan" /\ scanning = 0 /\ syncing = 0
          /\ stopping' = "done" /\ UNCHANGED <<stop, events>>
    /\ UNCHANGED <<fs, now, clean, quiet, cache, ctxVars, worker, scan, scanning, dump, held, dst, remote,
                   sync, count, syncing, calls>>

\* The process dies and starts again.
InCall == sync.pc \in {"scan", "workers"}
Crash ==
    /\ sync.pc # "idle" /\ Outside
    /\ Dropped
    /\ mark' = {} /\ worker' = [w \in Threads |-> Idle]
    /\ scan' = "idle" /\ scanning' = 0 /\ stop' = FALSE /\ held' = 0
    /\ dump' = [pc |-> "none", snapshot |-> NoStatus]
    /\ syncing' = 0 /\ stopping' = "no"
    /\ cache' \in {cache} \cup {None : x \in {scan} \cap {"dump"}}
    /\ clean' = (clean /\ ~InCall)
    /\ UNCHANGED <<fs, now, dst, remote, calls>>

UserChange ==
    /\ Change
    /\ quiet' = IF InCall THEN "no" ELSE quiet
    /\ UNCHANGED <<clean, cache, ctxVars, worker, scan, scanning, stop, dump, held, dst, remote, sync,
                   count, syncing, stopping, calls>>

Init ==
    /\ ScanInit
    /\ dst = [d \in Dirs |-> [f \in Files |-> Missing]]
    /\ remote = {}
    /\ sync = NoCall
    /\ count = NoCount
    /\ syncing = 0
    /\ stopping = "no"
    /\ calls = 0

WorkerStep(w) ==
    \/ SyncWorker(w)
    \/ ParallelFullScan(w) /\ UNCHANGED syncVars

Caller ==
    \/ (WorkersDone \/ ScanReturns) /\ UNCHANGED syncVars
    \/ ScanFailed \/ Scanned \/ RecursiveEnds \/ RecursiveHangs \/ SyncEnds \/ CallOver

Next ==
    \/ \E op \in Ops, args \in ScanArgs : CallScan(op, args)
    \/ \E op \in Ops, ignored \in {{}, Ignored} : CallRecursive(op, ignored)
    \/ \E w \in Threads : WorkerStep(w)
    \/ \E w \in Threads : RestartWorker(w) /\ UNCHANGED syncVars
    \/ \E w \in Threads : RestartSyncWorker(w)
    \/ Caller
    \/ (DumpTask \/ PeriodicDump) /\ UNCHANGED syncVars
    \/ Stop
    \/ Crash
    \/ UserChange

\* Threads run and the pool starts what is posted; nothing is assumed of the
\* callers, the users of the file system, or Stop.
Spec ==
    /\ Init /\ [][Next]_vars
    /\ \A w \in Threads : WF_vars(WorkerStep(w))
    /\ WF_vars(Caller)
    /\ WF_vars(DumpTask /\ UNCHANGED syncVars)

-----------------------------------------------------------------------------


\* What a scan that returned Err_Success should mean.
Complete ==
    \A d \in Dirs \ status.ignored :
        /\ There(status.dirs, d) <=> There(fs, d)
        /\ FilesOf(status.dirs, d) = FilesOf(fs, d)
ScanSucceeded == scan = "returned" /\ err_code = "Success" /\ ~MaySkip(sync.args)


\* A SyncLocal that returns Err_Success has every file of the status at the
\* destination with its recorded time, after whatever failures, crashes and
\* changes in earlier calls.
SyncLocalCopies ==
    sync.pc = "returned" /\ sync.op = "SyncLocal" /\ sync.err = "Success" =>
        \A d \in Dirs, f \in Files :
            There(status.dirs, d) /\ There(fs, d) /\ status.dirs[d].files[f] # 0
                => dst[d][f].time = status.dirs[d].files[f]



\* The walks of ParallelScan and of the recursive calls implement Traversal:
\* no directory that was found is forgotten when running_mark becomes zero.
Children(d) == {c \in Dirs \ {Root} : Parent[c] = d}
Walking == scan = "scanning" \/ (sync.pc = "workers" /\ sync.op \in Recursive)
Todo == Range(queue) \cup {worker[w].dir : w \in {v \in Threads :
            worker[v].pc \in {"compare", "add", "list", "file", "prune"}}}
Walk == INSTANCE Traversal WITH
            todo <- IF Walking THEN Todo ELSE {},
            phase <- IF Walking THEN "walk" ELSE IF sync.pc = "idle" THEN "none" ELSE "over",
            interrupted <- SyncStop
WalksAreTraversals == Walk!Spec

==============================================================================
