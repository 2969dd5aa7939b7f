----------------------------- MODULE FileClient -----------------------------
(***************************************************************************)
(* client/grpc_client/grpc_file_client.h: one FileClient from the return   *)
(* of Start.  A producer (the sync manager) puts files into its send       *)
(* queue; the Send thread asks the server about each file, sends the       *)
(* partitions of the files that are needed and resends those the server    *)
(* failed to store; the reactions OnWriteDone, OnReadDone and OnDone run   *)
(* in gRPC's threads.  The server handles the requests of the stream in    *)
(* order and answers each (server/handler_proxy/file_handler.h).           *)
(***************************************************************************)
EXTENDS Integers, Sequences, FiniteSets

CONSTANTS
    Files,
    Parts,      \* the partition_num of every file
    MaxTries    \* bound: times a partition is sent

ASSUME PartsAssumption == Parts \in Nat \ {0} /\ MaxTries \in Nat \ {0}

VARIABLES
    send_queue_, fill_queue_complete_,
    sender,         \* where the Send thread is, for which file and partition
    send_status,    \* local of Send
    mark,           \* SendContext::mark of each file's FilePut context
    send_ctx_map_,  \* the files whose context is in the map
    onfly_req_num_, write_done_, done_,
    writing,        \* the write given to gRPC: "no", "started", "counted"
    reading,        \* OnReadDone is between its effect and its fetch_sub
    on_done,        \* OnDone: "no", "waiting", "returned" (then Await returns)
    stream,         \* external: "open", "half" (writes done), "broken"
    wire, replies,  \* external: requests and responses on their way
    stored,         \* external: the partitions stored for each file
    outcome,        \* history: what became of each file
    tries,          \* history: how often each partition was sent
    refused         \* history: a request was refused for its session

vars == <<send_queue_, fill_queue_complete_, sender, send_status, mark,
          send_ctx_map_, onfly_req_num_, write_done_, done_, writing, reading,
          on_done, stream, wire, replies, stored, outcome, tries, refused>>

external == <<stored, refused>>
reactions == <<onfly_req_num_, reading, on_done, done_, replies>>

Partitions == 1 .. Parts
Item == [file : Files, op : {"FileExists", "FilePut"}]
Request == [file : Files, op : {"FileExists", "FilePut"}, part : 0 .. Parts]
Reply == [file : Files, op : {"FileExists", "FilePut", "none"},
          part : 0 .. Parts, ok : BOOLEAN]
Places == {"fill", "pop", "onfly", "size", "exists", "part", "sent", "status",
           "retry", "resent", "report", "stopped", "returned"}
Statuses == {"SUCCESS", "RETRING", "TOO_MANY_RETRY"}

\* The type invariant of the client.
TypeOK ==
    /\ send_queue_ \in Seq(Item) /\ fill_queue_complete_ \in BOOLEAN
    /\ sender \in [at : Places, file : Files, part : 0 .. Parts + 1]
    /\ send_status \in Statuses
    /\ mark \in [Files -> [Partitions -> -1 .. MaxTries]]
    /\ send_ctx_map_ \subseteq Files
    /\ onfly_req_num_ \in Int
    /\ write_done_ \in BOOLEAN /\ done_ \in BOOLEAN
    /\ writing \in {"no", "started", "counted"} /\ reading \in BOOLEAN
    /\ on_done \in {"no", "waiting", "returned"}
    /\ stream \in {"open", "half", "broken"}
    /\ wire \in Seq(Request) /\ replies \in Seq(Reply)
    /\ stored \in [Files -> SUBSET Partitions]
    /\ outcome \in [Files -> {"new", "put", "skipped", "dropped", "success",
                              "error"}]
    /\ tries \in [Files -> [Partitions -> 0 .. MaxTries]]
    /\ refused \in BOOLEAN

Init ==
    /\ send_queue_ = <<>> /\ fill_queue_complete_ = FALSE
    /\ sender = [at |-> "fill", file |-> CHOOSE f \in Files : TRUE, part |-> 0]
    /\ send_status = "SUCCESS"
    /\ mark = [f \in Files |-> [p \in Partitions |-> 0]]
    /\ send_ctx_map_ = {}
    /\ onfly_req_num_ = 0 /\ write_done_ = FALSE /\ done_ = FALSE
    /\ writing = "no" /\ reading = FALSE /\ on_done = "no"
    /\ stream = "open" /\ wire = <<>> /\ replies = <<>>
    /\ stored = [f \in Files |-> {}]
    /\ outcome = [f \in Files |-> "new"]
    /\ tries = [f \in Files |-> [p \in Partitions |-> 0]]
    /\ refused = FALSE

-----------------------------------------------------------------------------
(* The producer. *)

PushBack(file, op) == send_queue_' = Append(send_queue_, [file |-> file, op |-> op])

Put(f) ==
    /\ ~fill_queue_complete_ /\ outcome[f] = "new"
    /\ outcome' = [outcome EXCEPT ![f] = "put"]
    /\ PushBack(f, "FileExists")
    /\ UNCHANGED <<fill_queue_complete_, sender, send_status, mark,
                   send_ctx_map_, write_done_, writing, stream, wire, tries,
                   external, reactions>>

SetFillQueueComplete ==
    /\ ~fill_queue_complete_
    /\ fill_queue_complete_' = TRUE
    /\ UNCHANGED <<send_queue_, sender, send_status, mark, send_ctx_map_,
                   write_done_, writing, stream, wire, outcome, tries,
                   external, reactions>>

-----------------------------------------------------------------------------
(* The Send thread. *)

At(place) == sender.at = place
GoTo(place) == sender' = [sender EXCEPT !.at = place]
GoToPart(place, p) == sender' = [sender EXCEPT !.at = place, !.part = p]

\* A step of the Send thread that only moves on.
Step(from, condition, to) ==
    /\ At(from) /\ condition /\ GoTo(to)
    /\ UNCHANGED <<send_queue_, fill_queue_complete_, send_status, mark,
                   send_ctx_map_, write_done_, writing, stream, wire, outcome,
                   tries, external, reactions>>

AwaitFill == Step("fill", send_queue_ # <<>> \/ fill_queue_complete_, "pop")
Interrupted == Step("pop", done_, "stopped")

\* StartWrite: gRPC takes the request; on a broken stream it goes nowhere.
StartWrite(file, op, part) ==
    /\ write_done_' = FALSE
    /\ writing' = "started"
    /\ wire' = IF stream = "open"
                 THEN Append(wire, [file |-> file, op |-> op, part |-> part])
                 ELSE wire

\* PopBack, FillRequest (which can fail) and, for FilePut, the opening of the
\* file: when that fails Send returns without setting send_task_stopped_.
PopBack ==
    LET item == send_queue_[Len(send_queue_)]
        f == item.file
        put == item.op = "FilePut"
    IN  /\ At("pop") /\ ~done_ /\ send_queue_ # <<>>
        /\ send_queue_' = SubSeq(send_queue_, 1, Len(send_queue_) - 1)
        /\ \/ /\ sender' = [at |-> "pop", file |-> f, part |-> 0]
              /\ outcome' = [outcome EXCEPT ![f] = "dropped"]
              /\ UNCHANGED <<send_ctx_map_, write_done_, writing, wire>>
           \/ /\ ~put
              /\ sender' = [at |-> "exists", file |-> f, part |-> 0]
              /\ StartWrite(f, "FileExists", 0)
              /\ UNCHANGED <<send_ctx_map_, outcome>>
           \/ /\ put
              /\ send_ctx_map_' = send_ctx_map_ \cup {f}
              /\ \E place \in {"part", "returned"} :
                    sender' = [at |-> place, file |-> f, part |-> 1]
              /\ UNCHANGED <<write_done_, writing, wire, outcome>>
        /\ UNCHANGED <<fill_queue_complete_, send_status, mark, stream, tries,
                       external, reactions>>

\* PopBack found nothing: fill_queue_complete_, onfly_req_num_ and Size() are
\* read one after the other, and then the writes are declared done.
TestFill ==
    Step("pop", ~done_ /\ send_queue_ = <<>> /\ fill_queue_complete_, "onfly")


TestOnfly ==
    \/ Step("onfly", onfly_req_num_ <= 0, "size")
    \/ Step("onfly", onfly_req_num_ > 0, "pop")

TestSize ==
    \/ Step("size", send_queue_ # <<>>, "pop")
    \/ /\ At("size") /\ send_queue_ = <<>>
       /\ GoTo("stopped")
       /\ stream' = IF stream = "open" THEN "half" ELSE stream
       /\ UNCHANGED <<send_queue_, fill_queue_complete_, send_status, mark,
                      send_ctx_map_, write_done_, writing, wire, outcome,
                      tries, external, reactions>>

Written == write_done_ \/ done_
ExistsSent == Step("exists", Written, "pop")

\* BatchSend of the partition, at first in turn and later to retry it.
BatchSend(from, to) ==
    LET f == sender.file
        p == sender.part
    IN  /\ At(from) /\ GoTo(to)
        /\ StartWrite(f, "FilePut", p)
        /\ tries' = [tries EXCEPT ![f][p] = @ + 1]
        /\ UNCHANGED <<send_queue_, fill_queue_complete_, send_status, mark,
                       send_ctx_map_, stream, outcome, external, reactions>>

SendPart == BatchSend("part", "sent")

PartSent ==
    /\ At("sent") /\ Written
    /\ IF done_ \/ sender.part = Parts
         THEN GoToPart("status", 0)
         ELSE GoToPart("part", sender.part + 1)
    /\ UNCHANGED <<send_queue_, fill_queue_complete_, send_status, mark,
                   send_ctx_map_, write_done_, writing, stream, wire, outcome,
                   tries, external, reactions>>

\* Mutant: a partition that was not answered yet counts as stored.
GetStatusOptimistic(m) ==
    IF \E p \in Partitions : m[p] > 1 THEN "TOO_MANY_RETRY"
    ELSE IF \E p \in Partitions : m[p] > 0 THEN "RETRING" ELSE "SUCCESS"

GetStatus(m) ==
    IF \E p \in Partitions : m[p] > 1 THEN "TOO_MANY_RETRY"
    ELSE IF \E p \in Partitions : m[p] >= 0 THEN "RETRING" ELSE "SUCCESS"

\* The top of the retry loop.
TestStatus ==
    /\ At("status")
    /\ send_status' = GetStatus(mark[sender.file])
    /\ IF done_ THEN GoTo("report") ELSE GoToPart("retry", 1)
    /\ UNCHANGED <<send_queue_, fill_queue_complete_, mark, send_ctx_map_,
                   write_done_, writing, stream, wire, outcome, tries,
                   external, reactions>>

\* The for loop over the marks: one that is 1 is sent again (MaxTries bounds
\* how often), and after the last the loop is repeated while RETRING.
RetryNeeded ==
    /\ sender.part \in Partitions
    /\ mark[sender.file][sender.part] = 1
    /\ tries[sender.file][sender.part] < MaxTries

RetryPart == RetryNeeded /\ BatchSend("retry", "resent")

RetryNext ==
    /\ \/ At("retry") /\ sender.part \in Partitions /\ ~RetryNeeded
       \/ At("resent") /\ Written
    /\ GoToPart("retry", sender.part + 1)
    /\ UNCHANGED <<send_queue_, fill_queue_complete_, send_status, mark,
                   send_ctx_map_, write_done_, writing, stream, wire, outcome,
                   tries, external, reactions>>

RetryEnd ==
    \/ Step("retry", sender.part > Parts /\ send_status = "RETRING", "status")
    \/ Step("retry", sender.part > Parts /\ send_status # "RETRING", "report")

Report ==
    LET f == sender.file
    IN  /\ At("report") /\ GoTo("pop")
        /\ outcome' = [outcome EXCEPT ![f] =
                         IF send_status = "SUCCESS" THEN "success" ELSE "error"]
        /\ send_ctx_map_' = send_ctx_map_ \ {f}
        /\ UNCHANGED <<send_queue_, fill_queue_complete_, send_status, mark,
                       write_done_, writing, stream, wire, tries, external,
                       reactions>>

Send ==
    \/ AwaitFill \/ Interrupted \/ PopBack \/ TestFill \/ TestOnfly \/ TestSize
    \/ ExistsSent \/ SendPart \/ PartSent \/ TestStatus \/ RetryPart
    \/ RetryNext \/ RetryEnd \/ Report

-----------------------------------------------------------------------------
(* The reactions. *)

\* Mutant: the waiting Send thread is released before the count.
OnWriteDoneCountsLast ==
    /\ \/ /\ writing = "started"
          /\ writing' = "counted" /\ write_done_' = TRUE
          /\ UNCHANGED onfly_req_num_
       \/ /\ writing = "counted"
          /\ writing' = "no" /\ onfly_req_num_' = onfly_req_num_ + 1
          /\ UNCHANGED write_done_
    /\ UNCHANGED <<send_queue_, fill_queue_complete_, sender, send_status,
                   mark, send_ctx_map_, stream, wire, outcome, tries, external,
                   reading, on_done, done_, replies>>

\* OnWriteDone: counts a write that succeeded, then releases the Send thread.
OnWriteDone ==
    /\ \/ /\ writing = "started" /\ stream # "broken"
          /\ writing' = "counted" /\ onfly_req_num_' = onfly_req_num_ + 1
          /\ UNCHANGED write_done_
       \/ /\ \/ writing = "counted"
             \/ writing = "started" /\ stream = "broken"
          /\ writing' = "no" /\ write_done_' = TRUE
          /\ UNCHANGED onfly_req_num_
    /\ UNCHANGED <<send_queue_, fill_queue_complete_, sender, send_status,
                   mark, send_ctx_map_, stream, wire, outcome, tries, external,
                   reading, on_done, done_, replies>>

\* OnReadDone: what the response is good for (nothing, when the Send thread has
\* given the file up in the meantime: the code logs "Miss uuid") ...
OnReadDone ==
    LET r == Head(replies)
        f == r.file
        found == f \in send_ctx_map_
    IN  /\ ~reading /\ ~done_ /\ replies # <<>>
        /\ reading' = TRUE
        /\ replies' = Tail(replies)
        /\ IF r.op = "FileExists" /\ ~r.ok
             THEN PushBack(f, "FilePut") ELSE UNCHANGED send_queue_
        /\ outcome' = IF r.op = "FileExists" /\ r.ok
                        THEN [outcome EXCEPT ![f] = "skipped"] ELSE outcome
        /\ mark' = IF r.op = "FilePut" /\ found
                     THEN [mark EXCEPT ![f][r.part] = IF r.ok THEN -1 ELSE @ + 1]
                     ELSE mark
        /\ UNCHANGED <<fill_queue_complete_, sender, send_status,
                       send_ctx_map_, onfly_req_num_, write_done_, done_,
                       writing, on_done, stream, wire, tries, external>>

\* ... then the request is no longer on the fly, and the next is read.
OnReadCounted ==
    /\ reading
    /\ reading' = FALSE
    /\ onfly_req_num_' = onfly_req_num_ - 1
    /\ UNCHANGED <<send_queue_, fill_queue_complete_, sender, send_status,
                   mark, send_ctx_map_, write_done_, done_, writing, on_done,
                   stream, wire, replies, outcome, tries, external>>

\* OnDone, once gRPC has no reaction outstanding; it waits for the Send thread
\* (and the Print thread, which ends by itself when done_ is set).
OnDone ==
    /\ on_done = "no" /\ writing = "no" /\ ~reading /\ replies = <<>>
    /\ stream = "broken" \/ (stream = "half" /\ wire = <<>>)
    /\ on_done' = "waiting" /\ done_' = TRUE
    /\ UNCHANGED <<send_queue_, fill_queue_complete_, sender, send_status,
                   mark, send_ctx_map_, onfly_req_num_, write_done_, writing,
                   reading, stream, wire, replies, outcome, tries, external>>

OnDoneReturns ==
    /\ on_done = "waiting" /\ At("stopped")
    /\ on_done' = "returned"
    /\ UNCHANGED <<send_queue_, fill_queue_complete_, sender, send_status,
                   mark, send_ctx_map_, onfly_req_num_, write_done_, done_,
                   writing, reading, stream, wire, replies, outcome, tries,
                   external>>

-----------------------------------------------------------------------------
(* The server and the network. *)

\* FileOpHandle of the next request.  A request whose session is refused gets a
\* response without op, file and partition.
FileOpHandle ==
    LET r == Head(wire)
        f == r.file
    IN  /\ stream # "broken" /\ wire # <<>>
        /\ wire' = Tail(wire)
        /\ \/ \E ok \in BOOLEAN :
                /\ replies' = Append(replies, [file |-> f, op |-> r.op,
                                               part |-> r.part, ok |-> ok])
                /\ stored' = IF r.op = "FilePut" /\ ok
                               THEN [stored EXCEPT ![f] = @ \cup {r.part}]
                               ELSE stored
                /\ UNCHANGED refused
           \/ /\ replies' = Append(replies, [file |-> f, op |-> "none",
                                             part |-> 0, ok |-> FALSE])
              /\ refused' = TRUE
              /\ UNCHANGED stored
        /\ UNCHANGED <<send_queue_, fill_queue_complete_, sender, send_status,
                       mark, send_ctx_map_, onfly_req_num_, write_done_, done_,
                       writing, reading, on_done, stream, outcome, tries>>

\* The connection breaks; what was on its way is lost.
Break ==
    /\ stream # "broken" /\ on_done = "no"
    /\ stream' = "broken"
    /\ wire' = <<>> /\ replies' = <<>>
    /\ UNCHANGED <<send_queue_, fill_queue_complete_, sender, send_status,
                   mark, send_ctx_map_, onfly_req_num_, write_done_, done_,
                   writing, reading, on_done, outcome, tries, external>>

Reactions == OnWriteDone \/ OnReadDone \/ OnReadCounted \/ OnDone \/ OnDoneReturns

Next ==
    \/ SetFillQueueComplete \/ \E f \in Files : Put(f)
    \/ Send
    \/ Reactions
    \/ FileOpHandle
    \/ Break

\* The Send thread runs, gRPC calls each reaction whose event has come, and the
\* server answers.
Fairness ==
    /\ WF_vars(Send) /\ WF_vars(FileOpHandle)
    /\ WF_vars(OnWriteDone) /\ WF_vars(OnReadDone \/ OnReadCounted)
    /\ WF_vars(OnDone) /\ WF_vars(OnDoneReturns)

Spec == Init /\ [][Next]_vars /\ Fairness

-----------------------------------------------------------------------------

\* The writes are declared done only when every request was answered, every
\* answer was acted on and every file was dealt with, although the count of
\* requests on the fly, the queue and the flag are read at different times and
\* a response can be handled before the write it answers is counted.
WritesDoneWhenAllAnswered ==
    [][stream = "open" /\ stream' = "half" =>
          /\ send_queue_ = <<>> /\ wire = <<>> /\ replies = <<>> /\ ~reading
          /\ refused \/ \A f \in Files : outcome[f] # "put"]_vars

\* A file that the client reports as sent is stored by the server whole.
SuccessMeansStored ==
    \A f \in Files : outcome[f] = "success" => stored[f] = Partitions

\* The retry loop waits for a partition that no request or response on its way
\* is about, and that it does not resend (its mark is 0) or has resent up to
\* the bound (the code resends it for as long as the session is refused).
Stuck ==
    /\ sender.at \in {"status", "retry", "resent"} /\ stream # "broken"
    /\ wire = <<>> /\ replies = <<>>
    /\ \E p \in Partitions :
          \/ mark[sender.file][p] = 0
          \/ mark[sender.file][p] = 1 /\ tries[sender.file][p] = MaxTries


=============================================================================
