----------------------------- MODULE ScanManager -----------------------------
(***************************************************************************)
(* impl/scan_manager.h: ParallelScan and its workers walk a tree through a *)
(* shared queue of directories, and bring the status kept from the last    *)
(* scan up to date. The status is the program's picture of the tree.       *)
(*                                                                         *)
(* A tree maps every directory to its modification time (0: it is not      *)
(* there) and its files to theirs. A change of a directory's entries gets  *)
(* a fresh time, a write to a file changes the time of the file only. The  *)
(* status file, which lies in a directory of its own, is left out of the   *)
(* tree. ScanContext is not in the repository any more: its members are    *)
(* taken from their uses.                                                  *)
(***************************************************************************)
EXTENDS Integers, Sequences, FiniteSets, SequencesExt

CONSTANTS
    Dirs,           \* directories of the tree
    Root,           \* ctx->src itself
    Parent,         \* [Dirs \ {Root} -> Dirs]
    Files,          \* names of files
    FirstFiles,     \* [Dirs -> SUBSET Files]: the files at first
    FirstHash,      \* hash method of the status file at first, None without one
    Ignored,        \* ignored_dirs of a SyncContext
    HashMethods,    \* values of ctx->hash_method in the calls; NoHash is the default
    NoHash,
    None,           \* a status file that is missing or unreadable
    Threads,        \* 0 .. ctx->max_threads - 1
    PoolSize,       \* threads of util::ThreadPool
    MaxEvents       \* bound on what comes from outside: changes of the tree,
                    \* failing file operations, periodic dumps, stops, crashes

ASSUME ScanConstants ==
    /\ Root \in Dirs
    /\ Parent \in [Dirs \ {Root} -> Dirs]
    /\ FirstFiles \in [Dirs -> SUBSET Files]
    /\ Ignored \subseteq Dirs
    /\ NoHash \in HashMethods
    /\ {PoolSize, MaxEvents} \subseteq Nat

VARIABLES
    fs,             \* the tree under src
    now,            \* the last modification time given out
    events,         \* events from outside so far
    clean,          \* history: no file operation failed, no call died, and no
                    \* dump outlived its scan
    quiet,          \* history: the tree never changed during a call ("ever"),
                    \* not during this one ("now"), or it did ("no")
    cache,          \* the status file: None, or a status
    status,         \* ctx->status: scanned_dirs, hash_method, ignored_dirs
    removed,        \* ctx->removed_files
    queue,          \* dir_queue
    mark,           \* running_mark
    worker,         \* what each worker is doing
    err_code,       \* ctx->err_code
    hash_method,    \* ctx->hash_method
    scan,           \* how far ParallelScan is
    scanning,       \* scanning_
    stop,           \* stop_
    dump,           \* how far DumpTask is
    held            \* threads of the pool that progress tasks hold

fsVars == <<fs, now, events, clean, quiet>>
ctxVars == <<status, removed, queue, mark, err_code, hash_method>>
scanVars == <<fsVars, cache, ctxVars, worker, scan, scanning, stop, dump, held>>

MaxTime == MaxEvents + 1
Time == 0 .. MaxTime
Entry == [time: Time, files: [Files -> Time]]
NoEntry == [time |-> 0, files |-> [f \in Files |-> 0]]
Tree == [Dirs -> Entry]
NoTree == [d \in Dirs |-> NoEntry]
Status == [dirs: Tree, hash: HashMethods \cup {FirstHash}, ignored: SUBSET Dirs,
           file_num: Nat]
NoStatus == [dirs |-> NoTree, hash |-> NoHash, ignored |-> {}, file_num |-> 0]
Errors == {"Success", "Failed", "Interrupted", "Dump"}

\* Paths of removed_files are absolute; the directory's own has no file.
Removed == Dirs \X (Files \cup {""})

There(tree, d) == tree[d].time # 0
FilesOf(tree, d) == {f \in Files : tree[d].files[f] # 0}
SubDirs(tree, d) == {c \in Dirs \ {Root} : Parent[c] = d /\ There(tree, c)}
Below(d) == {c \in Dirs : c = d \/ (c # Root /\ Parent[c] = d)}

\* A task of the pool: posted, or running one of its steps.
Idle == [task |-> "none", pc |-> "end", dir |-> Root, time |-> 0, dirs |-> {},
         names |-> {}, listed |-> {}, ok |-> TRUE]
Posted(task) == [Idle EXCEPT !.task = task, !.pc = "posted"]
Worker == [task: {"none", "scan", "local", "copy", "remote", "send"},
           pc: {"end", "posted", "top", "compare", "add", "list", "file",
                "prune", "await"},
           dir: Dirs, time: Time, dirs: SUBSET Dirs, names: SUBSET Files,
           listed: SUBSET Files, ok: BOOLEAN]

\* Threads of the pool that are taken.
Busy == Cardinality({t \in Threads : worker[t].pc \notin {"end", "posted"}})
        + (IF dump.pc \in {"waiting", "writing"} THEN 1 ELSE 0)
        + held

ScanTypeOK ==
    /\ fs \in Tree /\ now \in Time
    /\ events \in 0 .. MaxEvents /\ clean \in BOOLEAN /\ quiet \in {"ever", "now", "no"}
    /\ cache \in {None} \cup Status
    /\ status \in Status
    /\ removed \subseteq Removed
    /\ queue \in Seq(Dirs)
    /\ mark \subseteq Threads
    /\ worker \in [Threads -> Worker]
    /\ err_code \in Errors
    /\ hash_method \in HashMethods
    /\ scan \in {"idle", "scanning", "dump", "returned"}
    /\ scanning \in Nat
    /\ stop \in BOOLEAN
    /\ dump \in [pc: {"none", "posted", "waiting", "writing"}, snapshot: Status]
    /\ held \in Nat
    /\ Busy <= PoolSize

-----------------------------------------------------------------------------
\* The environment: users of the file system.

Outside == events < MaxEvents /\ events' = events + 1
Tick == Outside /\ now' = now + 1

Write(d, f) ==
    /\ Tick /\ There(fs, d)
    /\ fs' = [fs EXCEPT ![d].files[f] = now',
                        ![d].time = IF fs[d].files[f] = 0 THEN now' ELSE @]

Unlink(d, f) ==
    /\ Tick /\ fs[d].files[f] # 0
    /\ fs' = [fs EXCEPT ![d].files[f] = 0, ![d].time = now']

MakeDir(d) ==
    /\ Tick /\ d # Root /\ ~There(fs, d) /\ There(fs, Parent[d])
    /\ fs' = [fs EXCEPT ![d].time = now', ![Parent[d]].time = now']

RemoveTree(d) ==
    /\ Tick /\ d # Root /\ There(fs, d)
    /\ fs' = [c \in Dirs |-> IF c \in Below(d) THEN NoEntry
                             ELSE IF c = Parent[d] THEN [fs[c] EXCEPT !.time = now']
                             ELSE fs[c]]

Change == \E d \in Dirs :
    MakeDir(d) \/ RemoveTree(d) \/ \E f \in Files : Write(d, f) \/ Unlink(d, f)

\* A file operation fails (permissions, a full disk, an I/O error).
Fails == Outside /\ clean' = FALSE
Works == UNCHANGED <<events, clean>>

-----------------------------------------------------------------------------
\* ParallelFullScan, one action per step between which another thread may run.

Set(w, rec) == worker' = [worker EXCEPT ![w] = rec]
AtTop(w) == Set(w, [Idle EXCEPT !.task = worker[w].task, !.pc = "top"])

\* A posted task runs as soon as a thread of the pool is free.
Running(w) == worker[w].pc = "top" \/ (worker[w].pc = "posted" /\ Busy < PoolSize)


\* The end of a worker of a queue: its last act is to clear its bit.
Leave(w) ==
    /\ mark' = mark \ {w}
    /\ Set(w, Idle)

ScanTop(w) == worker[w].task = "scan" /\ Running(w)
AtScan(w, pc) == worker[w].task = "scan" /\ worker[w].pc = pc
OutOfScan == UNCHANGED <<now, quiet, cache, hash_method, scan, scanning, stop, dump, held>>

\* stop_ is tested before each directory, and three pops that find nothing end
\* the worker.
Interrupted(w) ==
    /\ ScanTop(w) /\ stop
    /\ err_code' = "Interrupted"
    /\ Leave(w)
    /\ UNCHANGED <<fs, events, clean, status, removed, queue>> /\ OutOfScan

NothingToPop(w) ==
    /\ ScanTop(w) /\ ~stop /\ queue = <<>>
    /\ Leave(w)
    /\ UNCHANGED <<fs, events, clean, status, removed, queue, err_code>> /\ OutOfScan

RemoveDir(d) ==
    /\ removed' = removed \cup {<<d, "">>}
                          \cup {<<d, f>> : f \in FilesOf(status.dirs, d)}
    /\ status' = [status EXCEPT !.dirs[d] = NoEntry]

\* PopBack, the ignored directories, Exists and UpdateTime.
Pop(w) ==
    /\ ScanTop(w) /\ ~stop /\ queue # <<>>
    /\ queue' = Front(queue)
    /\ LET d == Last(queue) IN
       \/ /\ d \in status.ignored /\ Works
          /\ AtTop(w)
          /\ UNCHANGED <<status, removed, err_code>>
       \/ /\ d \notin status.ignored /\ ~There(fs, d) /\ Works
          /\ RemoveDir(d)
          /\ AtTop(w)
          /\ UNCHANGED err_code
       \/ /\ d \notin status.ignored /\ There(fs, d) /\ Works
          /\ Set(w, [worker[w] EXCEPT !.pc = "compare", !.dir = d, !.time = fs[d].time])
          /\ UNCHANGED <<status, removed, err_code>>
       \/ /\ d \notin status.ignored /\ There(fs, d) /\ Fails
          /\ err_code' = "Failed"
          /\ AtTop(w)
          /\ UNCHANGED <<status, removed>>
    /\ UNCHANGED <<fs, mark>> /\ OutOfScan

\* A directory whose time is the recorded one is skipped.
Unchanged(d, time) ==
    There(status.dirs, d) /\ status.dirs[d].time = time /\ status.hash = hash_method

Compare(w) ==
    /\ AtScan(w, "compare")
    /\ IF Unchanged(worker[w].dir, worker[w].time)
       THEN AtTop(w) ELSE Set(w, [worker[w] EXCEPT !.pc = "add"])
    /\ UNCHANGED <<fs, events, clean, status, removed, queue, mark, err_code>> /\ OutOfScan

\* The entry is replaced by a new one, which has no files yet.
AddDirItem(d) == [status EXCEPT !.dirs[d] = [NoEntry EXCEPT !.time = fs[d].time]]

AddDir(w) ==
    /\ AtScan(w, "add")
    /\ \/ /\ There(fs, worker[w].dir) /\ Works
          /\ status' = AddDirItem(worker[w].dir)
          /\ Set(w, [worker[w] EXCEPT !.pc = "list"])
          /\ UNCHANGED err_code
       \/ /\ IF There(fs, worker[w].dir) THEN Fails ELSE Works
          /\ err_code' = "Failed"
          /\ AtTop(w)
          /\ UNCHANGED status
    /\ UNCHANGED <<fs, removed, queue, mark>> /\ OutOfScan

\* The directory_iterator: sub-directories go to the queue, files are kept for
\* AddFileItem. When it throws, the exception is logged and the worker goes on.
List(w) ==
    /\ AtScan(w, "list")
    /\ LET d == worker[w].dir IN
       \/ /\ There(fs, d) /\ Works
          /\ queue' = queue \o SetToSeq(SubDirs(fs, d))
          /\ Set(w, [worker[w] EXCEPT !.pc = "file", !.names = FilesOf(fs, d),
                                      !.listed = FilesOf(fs, d)])
       \/ /\ IF There(fs, d) THEN Fails ELSE Works
          /\ AtTop(w)
          /\ UNCHANGED queue
    /\ UNCHANGED <<fs, status, removed, mark, err_code>> /\ OutOfScan

\* AddFileItem: FileInfo and CalcHash may fail; the branch that "should never
\* happen" is that of an entry another worker has removed.
AddFileItem(w) ==
    /\ AtScan(w, "file") /\ worker[w].names # {}
    /\ LET d == worker[w].dir
           f == CHOOSE g \in worker[w].names : TRUE
           next == [worker[w] EXCEPT !.names = @ \ {f}] IN
       \/ /\ fs[d].files[f] # 0 /\ There(status.dirs, d) /\ Works
          /\ status' = [status EXCEPT !.dirs[d].files[f] = fs[d].files[f]]
          /\ Set(w, next)
       \/ /\ \/ fs[d].files[f] = 0 /\ Works
             \/ fs[d].files[f] # 0 /\ ~There(status.dirs, d) /\ Works
             \/ fs[d].files[f] # 0 /\ Fails
          /\ Set(w, [next EXCEPT !.ok = FALSE])
          /\ UNCHANGED status
    /\ UNCHANGED <<fs, removed, queue, mark, err_code>> /\ OutOfScan

\* A file that failed makes the scan fail and the rest is left out.
FilesFailed(w) ==
    /\ AtScan(w, "file") /\ worker[w].names = {} /\ ~worker[w].ok
    /\ err_code' = "Failed"
    /\ AtTop(w)
    /\ UNCHANGED <<fs, events, clean, status, removed, queue, mark>> /\ OutOfScan

\* RemoveFile drops from the entry what the listing did not have ...
RemoveFile(w) ==
    /\ AtScan(w, "file") /\ worker[w].names = {} /\ worker[w].ok
    /\ LET d == worker[w].dir
           gone == FilesOf(status.dirs, d) \ worker[w].listed IN
       /\ removed' = removed \cup {<<d, f>> : f \in gone}
       /\ status' = [status EXCEPT !.dirs[d].files =
                        [f \in Files |-> IF f \in gone THEN 0 ELSE @[f]]]
    /\ Set(w, [worker[w] EXCEPT !.pc = "prune", !.listed = {}])
    /\ UNCHANGED <<fs, events, clean, queue, mark, err_code>> /\ OutOfScan

\* ... and the entry gets the time read before the listing.
SetUpdateTime(w) ==
    /\ AtScan(w, "prune")
    /\ status' = [status EXCEPT !.dirs[worker[w].dir].time =
                     IF @ = 0 THEN 0 ELSE worker[w].time]
    /\ AtTop(w)
    /\ UNCHANGED <<fs, events, clean, removed, queue, mark, err_code>> /\ OutOfScan

ParallelFullScan(w) ==
    \/ Interrupted(w) \/ NothingToPop(w) \/ Pop(w) \/ Compare(w) \/ AddDir(w)
    \/ List(w) \/ AddFileItem(w) \/ FilesFailed(w) \/ RemoveFile(w)
    \/ SetUpdateTime(w)

-----------------------------------------------------------------------------
\* ParallelScan and the status file.

\* LoadCachedScanStatus: a file that is missing or unreadable leaves the status
\* empty. Only here do ctx->ignored_dirs reach the status.
LoadCachedScanStatus(ignored) ==
    IF cache = None THEN NoStatus ELSE [cache EXCEPT !.ignored = @ \cup ignored]

\* What a call of ParallelScan asks for.
ScanArgs == [disable_scan_cache: BOOLEAN, skip_scan: BOOLEAN, hash: HashMethods,
             ignored: {{}, Ignored}]

Loaded(args) ==
    IF args.disable_scan_cache THEN NoStatus ELSE LoadCachedScanStatus(args.ignored)
MaySkip(args) == args.skip_scan /\ (args.disable_scan_cache \/ cache # None)

OutOfWorkers == UNCHANGED <<now, quiet, mark, queue, worker, removed, stop, held>>

ScanBusy ==
    /\ scanning > 0
    /\ scan' = "returned"
    /\ err_code' = "Failed"
    /\ status' = NoStatus
    /\ UNCHANGED <<queue, mark, worker, dump, scanning>>

\* A scan that may be skipped returns at once, and scanning_ stays raised.
ScanSkipped(args) ==
    /\ scanning = 0 /\ MaySkip(args)
    /\ scan' = "returned"
    /\ err_code' = "Success"
    /\ status' = Loaded(args)
    /\ scanning' = scanning + 1
    /\ UNCHANGED <<queue, mark, worker, dump>>


\* src and every directory of the loaded status.
Queued(known) == <<Root>> \o SetToSeq({d \in Dirs \ {Root} : There(known, d)})

\* These go to the queue, DumpTask and the workers to the pool.
ScanStarts(args) ==
    /\ scanning = 0 /\ ~MaySkip(args)
    /\ scan' = "scanning"
    /\ err_code' = "Success"
    /\ status' = Loaded(args)
    /\ scanning' = scanning + 1
    /\ queue' = Queued(Loaded(args).dirs)
    /\ dump' = [dump EXCEPT !.pc = IF held' < PoolSize THEN "waiting" ELSE "posted"]
    /\ mark' = Threads
    /\ worker' = [w \in Threads |-> Posted("scan")]

ParallelScan(args) ==
    /\ scan = "idle"
    /\ removed' = {}
    /\ hash_method' = args.hash
    /\ ScanBusy \/ ScanSkipped(args) \/ ScanStarts(args)
    /\ UNCHANGED <<fs, now, events, clean, cache, stop>>

\* The loop on running_mark posts a worker again while there are directories.
RestartWorker(w) ==
    /\ scan = "scanning" /\ w \notin mark /\ queue # <<>>
    /\ mark' = mark \cup {w}
    /\ Set(w, Posted("scan"))
    /\ UNCHANGED <<fsVars, cache, status, removed, queue, err_code, hash_method,
                   scan, scanning, stop, dump, held>>

\* Mutant: the scan is over when there is nothing left in the queue.
NoWorkerLeftInQueue == queue = <<>>

\* The loop ends when every bit is clear.
NoWorkerLeft == mark = {}

WorkersDone ==
    /\ scan = "scanning" /\ NoWorkerLeft
    /\ status' = IF err_code = "Success" THEN [status EXCEPT !.hash = hash_method]
                 ELSE status
    /\ scan' = "dump"
    /\ dump' = IF dump.pc = "waiting" THEN [dump EXCEPT !.pc = "none"] ELSE dump
    /\ UNCHANGED <<fs, events, clean, cache, err_code, hash_method, scanning>>
    /\ OutOfWorkers

FileNum(tree) == Cardinality({p \in Dirs \X Files : tree[p[1]].files[p[2]] # 0})


\* SumStatus counts the files, under the lock under which Dump serialises.
SumStatus(s) == [s EXCEPT !.file_num = FileNum(s.dirs)]

\* What a failed Dump leaves: the copy it had put aside, or nothing readable.
DumpFails == Fails /\ cache' \in {cache, None}

\* The last Dump and the return.
ScanReturns ==
    /\ scan = "dump"
    /\ status' = SumStatus(status)
    /\ \/ Works /\ cache' = status' /\ UNCHANGED err_code
       \/ DumpFails /\ err_code' = "Dump"
    /\ scan' = "returned"
    /\ scanning' = scanning - 1
    /\ UNCHANGED <<fs, hash_method, dump>> /\ OutOfWorkers

\* DumpTask waits to be told to stop (WorkersDone wakes it), and dumps every
\* ten minutes. Nobody waits for its end.
DumpTask ==
    /\ \/ /\ dump.pc = "posted" /\ Busy < PoolSize
          /\ dump' = [dump EXCEPT !.pc = IF scan = "scanning" THEN "waiting" ELSE "none"]
          /\ UNCHANGED <<events, clean, cache>>
       \/ /\ dump.pc = "writing"
          /\ \/ /\ cache' = dump.snapshot
                /\ clean' = (clean /\ scan = "scanning") /\ UNCHANGED events
             \/ DumpFails
          /\ dump' = [snapshot |-> NoStatus,
                      pc |-> IF scan = "scanning" THEN "waiting" ELSE "none"]
    /\ UNCHANGED <<fs, status, err_code, hash_method, scan, scanning>> /\ OutOfWorkers

\* Ten minutes have passed: DumpTask serialises the status.
PeriodicDump ==
    /\ dump.pc = "waiting" /\ scan = "scanning"
    /\ Outside
    /\ status' = SumStatus(status)
    /\ dump' = [pc |-> "writing", snapshot |-> status']
    /\ UNCHANGED <<fs, clean, cache, err_code, hash_method, scan, scanning>>
    /\ OutOfWorkers

ScanInit ==
    /\ fs = [d \in Dirs |-> [time |-> 1,
                files |-> [f \in Files |-> IF f \in FirstFiles[d] THEN 1 ELSE 0]]]
    /\ now = 1
    /\ events = 0
    /\ clean = TRUE
    /\ quiet = "ever"
    /\ cache = IF FirstHash = None THEN None
               ELSE SumStatus([dirs |-> fs, hash |-> FirstHash, ignored |-> {},
                               file_num |-> 0])
    /\ status = NoStatus
    /\ removed = {}
    /\ queue = <<>>
    /\ mark = {}
    /\ worker = [w \in Threads |-> Idle]
    /\ err_code = "Success"
    /\ hash_method = NoHash
    /\ scan = "idle"
    /\ scanning = 0
    /\ stop = FALSE
    /\ dump = [pc |-> "none", snapshot |-> NoStatus]
    /\ held = 0

-----------------------------------------------------------------------------

\* ValidateScanStatus of a status file: it can be read and its counts are those
\* of the files it lists.  (A directory is listed under its own path.)
ValidateScanStatus(file) == file # None /\ file.file_num = FileNum(file.dirs)


==============================================================================
