------------------------- MODULE CompletionQueuePool -------------------------
(***************************************************************************)
(* async_grpc/completion_queue_pool.cc and async_grpc/async_client.h: the  *)
(* pool of completion queues, the thread of each queue, and the            *)
(* AsyncClients that run their calls on it.  A handler is a sequence of    *)
(* steps, so that the program and the pool may act between a callback and  *)
(* the operation the handler starts after it.                              *)
(*                                                                         *)
(* gRPC keeps a queue that was shut down open while operations are         *)
(* outstanding on it, and aborts the process when an operation is started  *)
(* on a queue that is closed.                                              *)
(***************************************************************************)
EXTENDS Naturals, Sequences, FiniteSets

CONSTANTS
    Unary, Streaming,           \* the AsyncClients, by specialisation
    number_completion_queues_,
    MaxStarts,                  \* bound: a pool is shut down one time less
    MaxResponses                \* bound: responses of a stream

ASSUME PoolAssumption ==
    /\ number_completion_queues_ \in Nat \ {0}
    /\ MaxStarts \in Nat \ {0} /\ MaxResponses \in Nat
    /\ Unary \cap Streaming = {}

VARIABLES
    mutex_,             \* held by Shutdown
    initialized_,
    starts,             \* history: how often the pool was initialised
    queues,             \* the state of each queue ever made
    closing,            \* the index of the queue Shutdown is at
    on_queue,           \* completion_queue_ of each client, or None
    callback_,          \* the clients whose callback_ is set
    ops,                \* external: the operations of each client at gRPC
    broken,             \* external: the clients whose connection is lost
    handling,           \* what each queue thread has left to do
    called,             \* history: the callbacks of each client, in order
    crashed,            \* gRPC aborted the process
    orderly             \* history: the program kept to the rules of Orderly

poolVars == <<mutex_, initialized_, starts, queues, closing, on_queue,
              callback_, ops, broken, handling, called, crashed, orderly>>

Clients == Unary \cup Streaming
Index == 1 .. number_completion_queues_
Queues == (1 .. MaxStarts) \X Index
None == <<0, 0>>
Events == {"WRITE", "READ", "FINISH"}
Steps == {"Response", "Final", "Construct", "Clear", "Read", "Finish"}

\* The type invariant of the pool and its clients.
PoolTypeOK ==
    /\ mutex_ \in BOOLEAN /\ initialized_ \in BOOLEAN
    /\ starts \in 0 .. MaxStarts
    /\ queues \in [Queues -> {"none", "running", "shut down", "ended", "gone"}]
    /\ closing \in 0 .. number_completion_queues_ + 1
    /\ on_queue \in [Clients -> Queues \cup {None}]
    /\ callback_ \subseteq Clients
    /\ ops \in [Clients -> SUBSET Events]
    /\ broken \subseteq Clients
    /\ handling \in [Queues -> [client : Clients, steps : Seq(Steps)]]
    /\ called \in [Clients -> Seq({"response", "final"})]
    /\ crashed \in BOOLEAN /\ orderly \in BOOLEAN

PoolInit ==
    /\ mutex_ = FALSE /\ initialized_ = FALSE
    /\ starts = 0
    /\ queues = [q \in Queues |-> "none"]
    /\ closing = 0
    /\ on_queue = [c \in Clients |-> None]
    /\ callback_ = Clients
    /\ ops = [c \in Clients |-> {}]
    /\ broken = {}
    /\ handling = [q \in Queues |-> [client |-> CHOOSE c \in Clients : TRUE,
                                     steps |-> <<>>]]
    /\ called = [c \in Clients |-> <<>>]
    /\ crashed = FALSE /\ orderly = TRUE

-----------------------------------------------------------------------------
(* CompletionQueuePool *)

\* Initialize starts a thread per queue, unless that is done.
Initialize ==
    IF initialized_
      THEN UNCHANGED <<initialized_, starts, queues>>
      ELSE /\ starts' = starts + 1
           /\ queues' = [q \in Queues |-> IF q[1] = starts' THEN "running"
                                                            ELSE queues[q]]
           /\ initialized_' = TRUE

Unconstructed == {c \in Clients : on_queue[c] = None}

\* The constructor of an AsyncClient asks GetCompletionQueue for a queue.
Construct(c) ==
    /\ ~mutex_ /\ on_queue[c] = None
    /\ Initialize
    /\ \E n \in Index : on_queue' = [on_queue EXCEPT ![c] = <<starts', n>>]

ConstructByProgram(c) ==
    /\ ~crashed
    /\ Construct(c)
    /\ UNCHANGED <<mutex_, closing, callback_, ops, broken, handling, called,
                   crashed, orderly>>

Idle(q) == handling[q].steps = <<>>
Outstanding(q) == {c \in Clients : on_queue[c] = q /\ ops[c] # {}}

\* Nothing that concerns a stream is under way.
Orderly ==
    \A c \in Streaming :
        /\ ops[c] = {}
        /\ \A q \in Queues : handling[q].client = c => Idle(q)

\* Shutdown takes the mutex and goes through the queues: it shuts each one down
\* and joins its thread, and in the end destroys them all.
ShutdownBegins ==
    /\ ~crashed /\ ~mutex_ /\ initialized_ /\ starts < MaxStarts
    /\ mutex_' = TRUE
    /\ closing' = 1
    /\ orderly' = (orderly /\ Orderly)
    /\ UNCHANGED <<initialized_, starts, queues, on_queue, callback_, ops,
                   broken, handling, called, crashed>>

\* Mutant: the queue is joined without being shut down.
ShutdownQueueJoins ==
    LET q == <<starts, closing>>
    IN  /\ ~crashed /\ mutex_ /\ closing \in Index
        /\ queues[q] = "ended"
        /\ closing' = closing + 1
        /\ UNCHANGED <<mutex_, initialized_, starts, queues, on_queue,
                       callback_, ops, broken, handling, called, crashed,
                       orderly>>

ShutdownQueue ==
    LET q == <<starts, closing>>
    IN  /\ ~crashed /\ mutex_ /\ closing \in Index
        /\ queues[q] \in {"running", "ended"}
        /\ queues' = [queues EXCEPT ![q] =
                        IF @ = "running" THEN "shut down" ELSE @]
        /\ closing' = IF queues[q] = "ended" THEN closing + 1 ELSE closing
        /\ UNCHANGED <<mutex_, initialized_, starts, on_queue, callback_, ops,
                       broken, handling, called, crashed, orderly>>


ShutdownEnds ==
    /\ ~crashed /\ mutex_ /\ closing \notin Index
    /\ mutex_' = FALSE
    /\ initialized_' = FALSE
    /\ closing' = 0
    /\ queues' = [q \in Queues |-> IF q[1] = starts THEN "gone" ELSE queues[q]]
    /\ UNCHANGED <<starts, on_queue, callback_, ops, broken, handling, called,
                   crashed, orderly>>

Shutdown == ShutdownBegins \/ ShutdownQueue \/ ShutdownEnds

-----------------------------------------------------------------------------
(* AsyncClient *)

\* An operation of c is started on its queue.
Closed(q) ==
    \/ queues[q] \in {"ended", "gone"}
    \/ queues[q] = "shut down" /\ Outstanding(q) = {}

StartOp(c, event) ==
    /\ crashed' = Closed(on_queue[c])
    /\ ops' = [ops EXCEPT ![c] = @ \cup {event}]

\* The program makes a call, once per client.
WriteAsync(c) ==
    /\ ~crashed
    /\ on_queue[c] # None /\ ops[c] = {} /\ called[c] = <<>>
    /\ c \notin broken
    /\ \A q \in Queues : handling[q].client = c => Idle(q)
    /\ StartOp(c, IF c \in Unary THEN "FINISH" ELSE "WRITE")
    /\ orderly' = /\ orderly /\ initialized_ /\ ~mutex_
                /\ on_queue[c][1] = starts
    /\ UNCHANGED <<mutex_, initialized_, starts, queues, closing, on_queue,
                   callback_, broken, handling, called>>

ConnectionLost(c) ==
    /\ ~crashed /\ ops[c] # {} /\ c \notin broken
    /\ broken' = broken \cup {c}
    /\ UNCHANGED <<mutex_, initialized_, starts, queues, closing, on_queue,
                   callback_, ops, handling, called, crashed, orderly>>

\* HandleWriteEvent, HandleReadEvent and HandleFinishEvent, as their steps.
HandleWriteEvent(c, ok) ==
    IF ok THEN <<"Read">>
    ELSE IF c \in callback_ THEN <<"Final", "Clear", "Finish">>
    ELSE <<"Finish">>

\* Mutant: the end of the stream is not finished.
HandleReadEventEnds(c, ok) == IF ok THEN <<"Response", "Read">> ELSE <<>>

HandleReadEvent(c, ok) == IF ok THEN <<"Response", "Read">> ELSE <<"Finish">>

HandleFinishEvent(c) ==
    IF c \in Unary THEN <<"Final">>
    ELSE IF c \in callback_ THEN <<"Final", "Clear">>
    ELSE <<>>

HandleEvent(c, event, ok) ==
    CASE event = "WRITE" -> HandleWriteEvent(c, ok)
      [] event = "READ" -> HandleReadEvent(c, ok)
      [] event = "FINISH" -> HandleFinishEvent(c)

Responses(c) == Len(SelectSeq(called[c], LAMBDA e : e = "response"))

\* Next returns an event of the queue, and RunCompletionQueue handles it.
NextEvent(q) ==
    \E c \in Clients, event \in Events, ok \in BOOLEAN :
        /\ ~crashed /\ Idle(q)
        /\ on_queue[c] = q /\ event \in ops[c]
        /\ event = "FINISH" => ok
        /\ event # "FINISH" => (c \in broken => ~ok)
        /\ event = "WRITE" /\ ~ok => c \in broken
        /\ event = "READ" /\ ok => Responses(c) < MaxResponses
        /\ ops' = [ops EXCEPT ![c] = @ \ {event}]
        /\ handling' = [handling EXCEPT ![q] =
                          [client |-> c, steps |-> HandleEvent(c, event, ok)]]
        /\ UNCHANGED <<mutex_, initialized_, starts, queues, closing, on_queue,
                       callback_, broken, called, crashed, orderly>>

\* The thread ends when its queue is shut down and has nothing outstanding.
ThreadEnds(q) ==
    /\ ~crashed /\ Idle(q)
    /\ queues[q] = "shut down" /\ Outstanding(q) = {}
    /\ queues' = [queues EXCEPT ![q] = "ended"]
    /\ UNCHANGED <<mutex_, initialized_, starts, closing, on_queue, callback_,
                   ops, broken, handling, called, crashed, orderly>>

NextStep(q, step) == ~crashed /\ ~Idle(q) /\ Head(handling[q].steps) = step
StepDone(q) == handling' = [handling EXCEPT ![q].steps = Tail(@)]

\* The callback, which may construct another client.
Callback(q) ==
    LET c == handling[q].client
        rest == Tail(handling[q].steps)
    IN  /\ NextStep(q, "Response") \/ NextStep(q, "Final")
        /\ called' = [called EXCEPT ![c] = Append(@,
                        IF NextStep(q, "Final") THEN "final" ELSE "response")]
        /\ \/ StepDone(q)
           \/ /\ Unconstructed # {}
              /\ handling' = [handling EXCEPT ![q].steps =
                                <<"Construct">> \o rest]
        /\ UNCHANGED <<mutex_, initialized_, starts, queues, closing, on_queue,
                       callback_, ops, broken, crashed, orderly>>

\* It waits here for the mutex.
ConstructInCallback(q) ==
    /\ NextStep(q, "Construct") /\ ~mutex_
    /\ IF Unconstructed = {}
         THEN UNCHANGED <<initialized_, starts, queues, on_queue>>
         ELSE \E c \in Unconstructed : Construct(c)
    /\ StepDone(q)
    /\ UNCHANGED <<mutex_, closing, callback_, ops, broken, called, crashed,
                   orderly>>

Clear(q) ==
    /\ NextStep(q, "Clear")
    /\ callback_' = callback_ \ {handling[q].client}
    /\ StepDone(q)
    /\ UNCHANGED <<mutex_, initialized_, starts, queues, closing, on_queue,
                   ops, broken, called, crashed, orderly>>

ReadOrFinish(q) ==
    /\ \/ NextStep(q, "Read") /\ StartOp(handling[q].client, "READ")
       \/ NextStep(q, "Finish") /\ StartOp(handling[q].client, "FINISH")
    /\ StepDone(q)
    /\ UNCHANGED <<mutex_, initialized_, starts, queues, closing, on_queue,
                   callback_, broken, called, orderly>>

RunCompletionQueue(q) ==
    \/ NextEvent(q) \/ ThreadEnds(q) \/ Callback(q) \/ ConstructInCallback(q)
    \/ Clear(q) \/ ReadOrFinish(q)

PoolNext ==
    \/ \E c \in Clients :
          ConstructByProgram(c) \/ WriteAsync(c) \/ ConnectionLost(c)
    \/ Shutdown
    \/ \E q \in Queues : RunCompletionQueue(q)

\* The threads run, and gRPC returns every operation in the end.
PoolFairness ==
    /\ WF_poolVars(ShutdownQueue \/ ShutdownEnds)
    /\ \A q \in Queues : WF_poolVars(RunCompletionQueue(q))

-----------------------------------------------------------------------------

\* A callback that asks the pool for a queue while Shutdown, which holds mutex_,
\* waits for the thread the callback runs on.
Stuck == mutex_ /\ \E q \in Queues : NextStep(q, "Construct")


\* Every call gets its final callback, also across a Shutdown of the pool,
\* unless the process is aborted or deadlocked.
CallsGetFinalCallback ==
    \A c \in Clients :
        ops[c] # {} ~> \/ "final" \in {called[c][k] : k \in DOMAIN called[c]}
                       \/ crashed \/ Stuck

\* Shutdown returns, with the same exceptions.
PoolShutdownReturns == mutex_ ~> ~mutex_ \/ crashed \/ Stuck

=============================================================================
