----------------------------- MODULE RepoManager -----------------------------
(***************************************************************************)
(* impl/repo_manager.h: the repositories a server knows (repos_), the file *)
(* they are flushed to (repos.json, with a copy in repos.tmp.json), and    *)
(* the .repo file each repository leaves in its directory.  CreateRepo and *)
(* DeleteRepo run in the event threads, step by step; only the accesses to *)
(* repos_ are under its lock.  The server may crash at any step and is     *)
(* then started again (Init).                                              *)
(*                                                                         *)
(* Every request is handled once.  A CreateRepo that makes a repository    *)
(* gives it its own name as UUID.                                          *)
(***************************************************************************)
EXTENDS Naturals, FiniteSets

CONSTANTS
    Requests,
    Dirs,           \* the directories repositories are created in
    None, Torn,     \* contents of repos.json: no file; truncated or cut short
    MaxInFlight     \* requests handled at the same time

ASSUME RepoAssumption ==
    /\ MaxInFlight \in Nat \ {0}
    /\ None # Torn /\ None \notin Dirs

VARIABLES
    repos_,         \* the UUIDs in repos_
    repos_config,   \* repos.json
    tmp_config,     \* repos.tmp.json
    repo_file,      \* for each directory the UUIDs of its .repo files
    location,       \* the directory of each repository that was ever created
    pc,             \* where each request is
    op,             \* what each request does: "create", "restore", "delete"
    uuid,           \* the repository it works on
    dir,            \* the directory it names
    copy_tmp, content, attempts,    \* locals of FlushRepoMeta
    ret,            \* the answer
    flushed         \* history: what the last FlushRepoMeta to end returned;
                    \* "short" is true after a write that was cut short

vars == <<repos_, repos_config, tmp_config, repo_file, location, pc, op, uuid,
          dir, copy_tmp, content, attempts, ret, flushed>>

disk == <<repos_config, tmp_config>>
locals == <<copy_tmp, content, attempts>>
request == <<op, uuid, dir>>

Contents == {None, Torn} \cup SUBSET Requests
Places == {"new", "exists", "load", "meta", "insert", "delete", "copy",
           "convert", "open", "write", "recover", "done"}

\* The type invariant of the repositories.
TypeOK ==
    /\ repos_ \subseteq Requests
    /\ repos_config \in Contents /\ tmp_config \in Contents
    /\ repo_file \in [Dirs -> SUBSET Requests]
    /\ location \in [Requests -> Dirs \cup {None}]
    /\ pc \in [Requests -> Places]
    /\ op \in [Requests -> {"create", "restore", "delete"}]
    /\ uuid \in [Requests -> Requests] /\ dir \in [Requests -> Dirs \cup {None}]
    /\ copy_tmp \in [Requests -> BOOLEAN]
    /\ content \in [Requests -> SUBSET Requests]
    /\ attempts \in [Requests -> 0 .. 2]
    /\ ret \in [Requests -> {"none", "Success", "Fail"}]
    /\ flushed \in {"none", "true", "short", "false"}

Init ==
    /\ repos_ = {} /\ repos_config = None /\ tmp_config = None
    /\ repo_file = [d \in Dirs |-> {}]
    /\ location = [r \in Requests |-> None]
    /\ pc = [r \in Requests |-> "new"]
    /\ op = [r \in Requests |-> "create"]
    /\ uuid = [r \in Requests |-> r]
    /\ dir = [r \in Requests |-> None]
    /\ copy_tmp = [r \in Requests |-> FALSE]
    /\ content = [r \in Requests |-> {}]
    /\ attempts = [r \in Requests |-> 0]
    /\ ret = [r \in Requests |-> "none"]
    /\ flushed = "none"

InFlight == {r \in Requests : pc[r] \notin {"new", "done"}}
At(r, place) == pc[r] = place
GoTo(r, place) == pc' = [pc EXCEPT ![r] = place]

\* The request is answered; its locals are gone.
Answer(r, answer) ==
    /\ GoTo(r, "done")
    /\ ret' = [ret EXCEPT ![r] = answer]
    /\ copy_tmp' = [copy_tmp EXCEPT ![r] = FALSE]
    /\ content' = [content EXCEPT ![r] = {}]
    /\ attempts' = [attempts EXCEPT ![r] = 0]

Continue(r, place) == GoTo(r, place) /\ UNCHANGED <<ret, locals>>

\* A request arrives.
CreateRepo(r, d) ==
    /\ At(r, "new") /\ Cardinality(InFlight) < MaxInFlight
    /\ dir' = [dir EXCEPT ![r] = d]
    /\ Continue(r, "exists")
    /\ UNCHANGED <<repos_, disk, repo_file, location, op, uuid, flushed>>

DeleteRepo(r, u) ==
    /\ At(r, "new") /\ Cardinality(InFlight) < MaxInFlight
    /\ op' = [op EXCEPT ![r] = "delete"]
    /\ uuid' = [uuid EXCEPT ![r] = u]
    /\ Continue(r, "delete")
    /\ UNCHANGED <<repos_, disk, repo_file, location, dir, flushed>>

\* Mutant: a .repo file in the directory is not looked for.
ExistsRepoNot(r) ==
    /\ At(r, "exists") /\ Continue(r, "meta")
    /\ UNCHANGED <<repos_, disk, repo_file, location, request, flushed>>

\* ExistsRepo finds a .repo file in the directory, or none.
ExistsRepo(r) ==
    /\ At(r, "exists")
    /\ \/ /\ repo_file[dir[r]] = {}
          /\ Continue(r, "meta")
          /\ UNCHANGED <<op, uuid>>
       \/ \E u \in repo_file[dir[r]] :
             /\ op' = [op EXCEPT ![r] = "restore"]
             /\ uuid' = [uuid EXCEPT ![r] = u]
             /\ Continue(r, "load")
    /\ UNCHANGED <<repos_, disk, repo_file, location, dir, flushed>>

\* What CreateRepo makes of RestoreRepo's bool: it compares it with Err_Success,
\* which is 0, so true is a failure and false a success.
AnswerOfRestore(restored) == IF restored THEN "Fail" ELSE "Success"

\* RestoreRepo up to the flush.
RestoreRepo(r) ==
    /\ At(r, "load")
    /\ \/ /\ Answer(r, AnswerOfRestore(FALSE))      \* cannot be read or parsed
          /\ UNCHANGED repos_
       \/ /\ uuid[r] \in repos_
          /\ Answer(r, AnswerOfRestore(TRUE))
          /\ UNCHANGED repos_
       \/ /\ uuid[r] \notin repos_
          /\ repos_' = repos_ \cup {uuid[r]}
          /\ Continue(r, "copy")
    /\ UNCHANGED <<disk, repo_file, location, request, flushed>>

\* CreateRepo writes the .repo file of a new repository ...
WriteRepoFile(r) ==
    /\ At(r, "meta")
    /\ \/ /\ Answer(r, "Fail")
          /\ UNCHANGED <<repo_file, location>>
       \/ /\ repo_file' = [repo_file EXCEPT ![dir[r]] = @ \cup {r}]
          /\ location' = [location EXCEPT ![r] = dir[r]]
          /\ Continue(r, "insert")
    /\ UNCHANGED <<repos_, disk, request, flushed>>

\* ... and inserts it.
InsertRepo(r) ==
    /\ At(r, "insert")
    /\ repos_' = repos_ \cup {r}
    /\ Continue(r, "copy")
    /\ UNCHANGED <<disk, repo_file, location, request, flushed>>

\* Mutant: a repository is deleted from repos_ only.
EraseRepoUnflushed(r) ==
    /\ At(r, "delete")
    /\ repos_' = repos_ \ {uuid[r]}
    /\ Answer(r, "Success")
    /\ UNCHANGED <<disk, repo_file, location, request, flushed>>

\* The locked part of DeleteRepo.
EraseRepo(r) ==
    /\ At(r, "delete")
    /\ repos_' = repos_ \ {uuid[r]}
    /\ IF uuid[r] \in repos_ THEN Continue(r, "copy") ELSE Answer(r, "Success")
    /\ UNCHANGED <<disk, repo_file, location, request, flushed>>

-----------------------------------------------------------------------------
(* FlushRepoMeta, in the thread of its caller. *)

\* The flush returns, and its caller ends: CreateRepo takes the repository out
\* again if the flush failed.
FlushReturns(r, result) ==
    /\ repos_' = IF op[r] = "create" /\ ~result THEN repos_ \ {r} ELSE repos_
    /\ Answer(r, IF op[r] = "restore" THEN AnswerOfRestore(result)
                 ELSE IF result THEN "Success" ELSE "Fail")

\* The file is copied aside, if there is one.
CopyToTmp(r) ==
    /\ At(r, "copy")
    /\ \/ /\ repos_config = None
          /\ Continue(r, "convert")
          /\ UNCHANGED <<repos_, tmp_config, flushed>>
       \/ /\ repos_config # None
          /\ tmp_config' = repos_config
          /\ copy_tmp' = [copy_tmp EXCEPT ![r] = TRUE]
          /\ GoTo(r, "convert")
          /\ UNCHANGED <<repos_, content, attempts, ret, flushed>>
       \/ /\ repos_config # None
          /\ FlushReturns(r, FALSE)
          /\ flushed' = "false"
          /\ UNCHANGED tmp_config
    /\ UNCHANGED <<repos_config, repo_file, location, request>>

\* repos_ is converted to JSON under the lock.
Convert(r) ==
    /\ At(r, "convert")
    /\ content' = [content EXCEPT ![r] = repos_]
    /\ GoTo(r, "open")
    /\ UNCHANGED <<repos_, disk, repo_file, location, request, copy_tmp,
                   attempts, ret, flushed>>

\* WriteToFile opens the file, which truncates it; it is tried three times.
OpenConfig(r) ==
    /\ At(r, "open")
    /\ \/ /\ repos_config' = Torn
          /\ Continue(r, "write")
       \/ /\ attempts[r] < 2
          /\ attempts' = [attempts EXCEPT ![r] = @ + 1]
          /\ UNCHANGED <<repos_config, pc, copy_tmp, content, ret>>
       \/ /\ attempts[r] = 2
          /\ Continue(r, "recover")
          /\ UNCHANGED repos_config
    /\ UNCHANGED <<repos_, tmp_config, repo_file, location, request, flushed>>

\* It writes the content and returns Err_Success, whether or not all of it
\* could be written.
WriteConfig(r) ==
    /\ At(r, "write")
    /\ \/ repos_config' = content[r] /\ flushed' = "true"
       \/ repos_config' = Torn /\ flushed' = "short"
    /\ FlushReturns(r, TRUE)
    /\ UNCHANGED <<tmp_config, repo_file, location, request>>

\* All attempts failed: the copy is copied back, if that is possible.
Recover(r) ==
    /\ At(r, "recover")
    /\ repos_config' \in {repos_config} \cup
                         (IF copy_tmp[r] THEN {tmp_config} ELSE {})
    /\ flushed' = "false"
    /\ FlushReturns(r, FALSE)
    /\ UNCHANGED <<tmp_config, repo_file, location, request>>

FlushRepoMeta(r) ==
    CopyToTmp(r) \/ Convert(r) \/ OpenConfig(r) \/ WriteConfig(r) \/ Recover(r)

-----------------------------------------------------------------------------

\* What RepoManager::Init reads; a file it cannot parse leaves repos_ empty, and
\* main does not look at Init's result.
LoadRepos == IF repos_config \in {None, Torn} THEN {} ELSE repos_config

\* The server crashes or is stopped, and is started again.
Restart ==
    /\ repos_' = LoadRepos
    /\ pc' = [r \in Requests |-> IF r \in InFlight THEN "done" ELSE pc[r]]
    /\ copy_tmp' = [r \in Requests |-> FALSE]
    /\ content' = [r \in Requests |-> {}]
    /\ attempts' = [r \in Requests |-> 0]
    /\ flushed' = IF InFlight = {} THEN flushed ELSE "none"
    /\ UNCHANGED <<disk, repo_file, location, request, ret>>

Next ==
    \/ \E r \in Requests :
          \/ \E d \in Dirs : CreateRepo(r, d)
          \/ \E u \in Requests : location[u] # None /\ DeleteRepo(r, u)
          \/ ExistsRepo(r) \/ RestoreRepo(r) \/ WriteRepoFile(r)
          \/ InsertRepo(r) \/ EraseRepo(r) \/ FlushRepoMeta(r)
    \/ Restart

Spec == Init /\ [][Next]_vars

-----------------------------------------------------------------------------

\* When FlushRepoMeta has reported success (and its write was not cut short) and
\* no request is in flight, the file holds the repositories in memory, so a
\* restart loses and revives none.
FlushedReposOnDisk ==
    InFlight = {} /\ flushed = "true" => repos_config = repos_

\* A directory belongs to one repository: CreateRepo in a directory that has one
\* restores it, also after DeleteRepo, a failed flush or a crash.
OneRepoPerDirectory ==
    \A u, v \in repos_ : location[u] = location[v] => u = v

=============================================================================
