-------------------------------- MODULE Rpc ---------------------------------
(***************************************************************************)
(* async_grpc/rpc.cc and async_grpc/service.cc: the life of the Rpc        *)
(* objects of a service.  An Rpc waits for a connection, handles it and is *)
(* removed; before that it puts a clone of itself in its place.  gRPC      *)
(* returns the events an Rpc started through a completion queue, whose     *)
(* thread pushes them to the event queue of the Rpc; the thread of that    *)
(* queue handles them one by one.  The handlers registered by the server   *)
(* (server/grpc_handler) send one response per request and finish when the *)
(* client has no more requests.                                            *)
(*                                                                         *)
(* A handler is a sequence of steps (work), and gRPC, the clients and the  *)
(* other event threads may act between any two of them.                    *)
(***************************************************************************)
EXTENDS Naturals, Sequences, FiniteSets

CONSTANTS
    Bidi,               \* the Rpcs StartServing makes for FileOp
    Normal,             \* the Rpcs it makes for UserOp, RepoOp, ServerOp
    Spare,              \* the Rpcs a behaviour may make by Clone (a bound)
    num_event_threads,  \* Options::num_event_threads
    MaxRequests         \* bound: requests a client sends on one stream

ASSUME RpcAssumption ==
    /\ num_event_threads \in Nat \ {0} /\ MaxRequests \in Nat
    /\ Bidi \cap Normal = {} /\ (Bidi \cup Normal) \cap Spare = {}

VARIABLES
    rpcs_,              \* ActiveRpcs::rpcs_; an Rpc outside it is destroyed
    removed,            \* the Rpcs that were in rpcs_ before
    rpc_type,           \* rpc_handler_info_.rpc_type of each Rpc
    event_queue_,       \* the queue each Rpc is bound to
    pending,            \* the events of each Rpc whose pending flag is set
    send_queue_,        \* the SendItems of each Rpc: "msg", or "fin" for null
    queue,              \* the event queues
    work,               \* what each event thread has left to do
    current_event_queue_id_,
    shutting_down_,     \* Service::shutting_down_
    ops,                \* external: events gRPC has not returned yet
    call,               \* external: "none", "open" or "over" for each Rpc
    requests,           \* history: the requests read on each Rpc's call
    sent,               \* history: what each Rpc handed to gRPC, in order
    grpc_down           \* external: grpc::Server was told to shut down

rpcVars == <<rpcs_, removed, rpc_type, event_queue_, pending, send_queue_,
             queue, work, current_event_queue_id_, shutting_down_, ops, call,
             requests, sent, grpc_down>>

Rpcs == Bidi \cup Normal \cup Spare
Queues == 0 .. num_event_threads - 1
TagEvents == {"NEW_CONNECTION", "READ", "WRITE", "FINISH", "DONE"}
Types == {"NORMAL_RPC", "BIDI_STREAMING"}
Steps == {"Send", "Finish", "Read", "HandleSendQueue", "RemoveIfNotPending",
          "Remove", "Clone"}
Event == [rpc : Rpcs, event : TagEvents \cup {"WRITE_NEEDED"}, ok : BOOLEAN]

\* The type invariant of the service.
RpcTypeOK ==
    /\ rpcs_ \subseteq Rpcs /\ removed \subseteq Rpcs
    /\ rpc_type \in [Rpcs -> Types]
    /\ event_queue_ \in [Rpcs -> Queues]
    /\ pending \in [Rpcs -> SUBSET TagEvents]
    /\ send_queue_ \in [Rpcs -> Seq({"msg", "fin"})]
    /\ queue \in [Queues -> Seq(Event)]
    /\ work \in [Queues -> [rpc : Rpcs, steps : Seq(Steps)]]
    /\ current_event_queue_id_ \in Queues
    /\ shutting_down_ \in BOOLEAN /\ grpc_down \in BOOLEAN
    /\ ops \in [Rpcs -> SUBSET TagEvents]
    /\ call \in [Rpcs -> {"none", "open", "over"}]
    /\ requests \in [Rpcs -> Nat]
    /\ sent \in [Rpcs -> Seq({"write", "finish", "finish with message"})]

\* RequestNextMethodInvocation: DONE and NEW_CONNECTION are pending.  gRPC
\* returns DONE only for a call that was accepted.
Requested == {"DONE", "NEW_CONNECTION"}

\* After Server::Start: StartServing has added and registered one Rpc for each
\* method and completion queue, and the threads are running.  The Rpcs that are
\* not shown took the turns in between, so the queues may be any.
RpcInit ==
    /\ rpcs_ = Bidi \cup Normal
    /\ removed = {}
    /\ rpc_type = [i \in Rpcs |-> IF i \in Normal THEN "NORMAL_RPC"
                                                  ELSE "BIDI_STREAMING"]
    /\ event_queue_ \in [Rpcs -> Queues]
    /\ \A i \in Spare : event_queue_[i] = 0
    /\ pending = [i \in Rpcs |-> IF i \in rpcs_ THEN Requested ELSE {}]
    /\ send_queue_ = [i \in Rpcs |-> <<>>]
    /\ queue = [q \in Queues |-> <<>>]
    /\ work = [q \in Queues |-> [rpc |-> CHOOSE i \in Rpcs : TRUE,
                                 steps |-> <<>>]]
    /\ current_event_queue_id_ \in Queues
    /\ shutting_down_ = FALSE
    /\ ops = [i \in Rpcs |-> IF i \in rpcs_ THEN {"NEW_CONNECTION"} ELSE {}]
    /\ call = [i \in Rpcs |-> "none"]
    /\ requests = [i \in Rpcs |-> 0]
    /\ sent = [i \in Rpcs |-> <<>>]
    /\ grpc_down = FALSE

-----------------------------------------------------------------------------
(* The event threads: Handle of an event, as a sequence of steps. *)

\* Mutant: HandleDone leaves the Rpc to the other events.
HandleDoneLeaves == <<>>

HandleDone == <<"RemoveIfNotPending">>
HandleFinish == <<"RemoveIfNotPending">>
HandleWrite == <<"HandleSendQueue", "RemoveIfNotPending">>

\* What Handle, HandleEvent and the method it calls will do, in order.
HandlerSteps(e) ==
    CASE e.event = "NEW_CONNECTION" ->
           IF shutting_down_ THEN <<"Remove">>
           ELSE IF ~e.ok THEN <<"Remove", "Clone">>
           ELSE IF rpc_type[e.rpc] = "NORMAL_RPC"
                  THEN <<"Send", "Finish", "Clone">>
                  ELSE <<"Read", "Clone">>
      [] e.event = "READ" ->
           IF e.ok THEN <<"Send", "Read">>
                   ELSE <<"Finish", "RemoveIfNotPending">>
      [] e.event = "WRITE_NEEDED" ->
           IF e.rpc \in rpcs_ THEN HandleWrite ELSE <<>>
      [] e.event = "WRITE" -> HandleWrite
      [] e.event = "FINISH" -> HandleFinish
      [] e.event = "DONE" -> HandleDone

Idle(q) == work[q].steps = <<>>

\* PopWithTimeout returned an event: CompletionQueueRpcEvent::Handle clears the
\* pending flag, InternalRpcEvent::Handle drops the event of a destroyed Rpc.
Pop(q) ==
    LET e == Head(queue[q])
    IN  /\ Idle(q) /\ queue[q] # <<>>
        /\ queue' = [queue EXCEPT ![q] = Tail(@)]
        /\ pending' = [pending EXCEPT ![e.rpc] = @ \ {e.event}]
        /\ work' = [work EXCEPT ![q] = [rpc |-> e.rpc,
                                        steps |-> HandlerSteps(e)]]
        /\ UNCHANGED <<rpcs_, removed, rpc_type, event_queue_, send_queue_,
                       current_event_queue_id_, shutting_down_, ops, call,
                       requests, sent, grpc_down>>

NextStep(q, step) == ~Idle(q) /\ Head(work[q].steps) = step
StepDone(q) == work' = [work EXCEPT ![q].steps = Tail(@)]

PushEvent(i, event, ok) ==
    queue' = [queue EXCEPT ![event_queue_[i]] =
                Append(@, [rpc |-> i, event |-> event, ok |-> ok])]

\* Mutant: no WRITE_NEEDED event is pushed.
EnqueueMessageSilently(q, item) ==
    /\ send_queue_' = [send_queue_ EXCEPT ![work[q].rpc] = Append(@, item)]
    /\ StepDone(q)
    /\ UNCHANGED <<rpcs_, removed, rpc_type, event_queue_, pending, queue,
                   current_event_queue_id_, shutting_down_, ops, call,
                   requests, sent, grpc_down>>

\* Rpc::Write and Rpc::Finish, called by the handler's Send and Finish.
EnqueueMessage(q, item) ==
    LET i == work[q].rpc
    IN  /\ send_queue_' = [send_queue_ EXCEPT ![i] = Append(@, item)]
        /\ PushEvent(i, "WRITE_NEEDED", TRUE)
        /\ StepDone(q)
        /\ UNCHANGED <<rpcs_, removed, rpc_type, event_queue_, pending,
                       current_event_queue_id_, shutting_down_, ops, call,
                       requests, sent, grpc_down>>

Send(q) == NextStep(q, "Send") /\ EnqueueMessage(q, "msg")
Finish(q) == NextStep(q, "Finish") /\ EnqueueMessage(q, "fin")

\* SetRpcEventState(event, true), and the event goes to gRPC.
Start(i, event) ==
    /\ pending' = [pending EXCEPT ![i] = @ \cup {event}]
    /\ ops' = [ops EXCEPT ![i] = @ \cup {event}]

\* RequestStreamingReadIfNeeded of a stream.
Read(q) ==
    /\ NextStep(q, "Read")
    /\ Start(work[q].rpc, "READ")
    /\ StepDone(q)
    /\ UNCHANGED <<rpcs_, removed, rpc_type, event_queue_, send_queue_, queue,
                   current_event_queue_id_, shutting_down_, call, requests,
                   sent, grpc_down>>

\* PerformFinish, PerformWrite
PerformFinish(i, item) ==
    /\ Start(i, "FINISH")
    /\ sent' = [sent EXCEPT ![i] =
                  Append(@, IF item = "msg" THEN "finish with message"
                                            ELSE "finish")]

PerformWrite(i) ==
    /\ Start(i, "WRITE")
    /\ sent' = [sent EXCEPT ![i] = Append(@, "write")]

\* Mutant: a write in progress is not waited for.
SendQueueBlockedByFinish(i) == send_queue_[i] = <<>> \/ "FINISH" \in pending[i]

\* Mutant: a finish in progress is not noticed.
SendQueueBlockedByWrite(i) == send_queue_[i] = <<>> \/ "WRITE" \in pending[i]

\* The early return of HandleSendQueue.
SendQueueBlocked(i) ==
    send_queue_[i] = <<>> \/ {"WRITE", "FINISH"} \cap pending[i] # {}

HandleSendQueue(q) ==
    LET i == work[q].rpc
        item == Head(send_queue_[i])
    IN  /\ NextStep(q, "HandleSendQueue")
        /\ \/ /\ SendQueueBlocked(i)
              /\ UNCHANGED <<send_queue_, pending, ops, sent>>
           \/ /\ ~SendQueueBlocked(i)
              /\ send_queue_' = [send_queue_ EXCEPT ![i] = Tail(@)]
              /\ IF item = "fin" \/ rpc_type[i] = "NORMAL_RPC"
                   THEN PerformFinish(i, item)
                   ELSE PerformWrite(i)
        /\ StepDone(q)
        /\ UNCHANGED <<rpcs_, removed, rpc_type, event_queue_, queue,
                       current_event_queue_id_, shutting_down_, call, requests,
                       grpc_down>>

\* Mutant: DONE is not among the events waited for.
IsAnyEventPendingButDone(i) == {"READ", "WRITE", "FINISH"} \cap pending[i] # {}

IsAnyEventPending(i) ==
    {"DONE", "READ", "WRITE", "FINISH"} \cap pending[i] # {}

\* ActiveRpcs::Add and ActiveRpcs::Remove, under its lock; the last reference to
\* a removed Rpc goes with it.
Add(j) == rpcs_' = rpcs_ \cup {j}
Remove(i) == rpcs_' = rpcs_ \ {i} /\ removed' = removed \cup {i}

\* RemoveIfNotPending, and the plain Remove of HandleNewConnection.
RemoveRpc(q) ==
    LET i == work[q].rpc
        remove == \/ NextStep(q, "Remove")
                  \/ ~IsAnyEventPending(i)
    IN  /\ NextStep(q, "RemoveIfNotPending") \/ NextStep(q, "Remove")
        /\ IF remove THEN Remove(i) ELSE UNCHANGED <<rpcs_, removed>>
        /\ StepDone(q)
        /\ UNCHANGED <<rpc_type, event_queue_, pending, send_queue_, queue,
                       current_event_queue_id_, shutting_down_, ops, call,
                       requests, sent, grpc_down>>

Unused == Spare \ (rpcs_ \cup removed)

SelectNextEventQueueRoundRobin ==
    (current_event_queue_id_ + 1) % num_event_threads

\* The end of HandleNewConnection: a clone of the Rpc is bound to the next
\* event queue in turn and registered for the next connection.
Clone(q) ==
    LET i == work[q].rpc
        j == CHOOSE j \in Unused : TRUE
        id == SelectNextEventQueueRoundRobin
    IN  /\ NextStep(q, "Clone")
        /\ Add(j)
        /\ rpc_type' = [rpc_type EXCEPT ![j] = rpc_type[i]]
        /\ current_event_queue_id_' = id
        /\ event_queue_' = [event_queue_ EXCEPT ![j] = id]
        /\ pending' = [pending EXCEPT ![j] = Requested]
        /\ ops' = [ops EXCEPT ![j] = {"NEW_CONNECTION"}]
        /\ StepDone(q)
        /\ UNCHANGED <<removed, send_queue_, queue, shutting_down_, call,
                       requests, sent, grpc_down>>

RunStep(q) ==
    \/ Send(q)
    \/ Finish(q)
    \/ Read(q)
    \/ HandleSendQueue(q)
    \/ RemoveRpc(q)
    \/ Clone(q)

-----------------------------------------------------------------------------
(* gRPC, the clients and RunCompletionQueue: gRPC returns an event with ok, *)
(* and the thread of the completion queue pushes it to the event queue.     *)

Return(i, event, ok) ==
    /\ event \in ops[i]
    /\ PushEvent(i, event, ok)
    /\ ops' = [ops EXCEPT ![i] = (@ \ {event}) \cup
                 IF event = "NEW_CONNECTION" /\ ok THEN {"DONE"} ELSE {}]
    /\ UNCHANGED <<rpcs_, removed, rpc_type, event_queue_, pending,
                   send_queue_, work, current_event_queue_id_, shutting_down_,
                   sent, grpc_down>>

\* The connections whose handler has yet to make a clone.
AwaitingClone ==
    {i \in Rpcs : \E q \in Queues :
        \/ \E n \in 1 .. Len(queue[q]) :
              queue[q][n] = [rpc |-> i, event |-> "NEW_CONNECTION", ok |-> TRUE]
        \/ /\ work[q].rpc = i
           /\ \E n \in 1 .. Len(work[q].steps) : work[q].steps[n] = "Clone"}

\* A client connects; a unary call brings its request along.
Connect(i) ==
    /\ ~grpc_down
    /\ Cardinality(Unused) > Cardinality(AwaitingClone)
    /\ Return(i, "NEW_CONNECTION", TRUE)
    /\ call' = [call EXCEPT ![i] = "open"]
    /\ requests' = [requests EXCEPT ![i] =
                      IF rpc_type[i] = "NORMAL_RPC" THEN 1 ELSE 0]

\* A server that was shut down fails the connections it was waiting for.
ConnectFails(i) ==
    /\ grpc_down
    /\ Return(i, "NEW_CONNECTION", FALSE)
    /\ UNCHANGED <<call, requests>>

ClientSends(i) ==
    /\ call[i] = "open" /\ requests[i] < MaxRequests
    /\ Return(i, "READ", TRUE)
    /\ requests' = [requests EXCEPT ![i] = @ + 1]
    /\ UNCHANGED call

\* The client has no more requests, or is gone.
ReadEnds(i) == Return(i, "READ", FALSE) /\ UNCHANGED <<call, requests>>

WriteEnds(i) ==
    Return(i, "WRITE", call[i] = "open") /\ UNCHANGED <<call, requests>>

FinishEnds(i) ==
    /\ Return(i, "FINISH", call[i] = "open")
    /\ call' = [call EXCEPT ![i] = "over"]
    /\ UNCHANGED requests

\* The client cancels the call, or its connection breaks.
HangUp(i) ==
    /\ call[i] = "open"
    /\ call' = [call EXCEPT ![i] = "over"]
    /\ UNCHANGED <<rpcs_, removed, rpc_type, event_queue_, pending, send_queue_,
                   queue, work, current_event_queue_id_, shutting_down_, ops,
                   requests, sent, grpc_down>>

DoneEnds(i) ==
    call[i] = "over" /\ Return(i, "DONE", TRUE) /\ UNCHANGED <<call, requests>>

\* What gRPC does while it serves, and what it may also do later.
GrpcServing(i) ==
    \/ Connect(i) \/ ClientSends(i) \/ ReadEnds(i) \/ WriteEnds(i)
    \/ FinishEnds(i) \/ HangUp(i) \/ DoneEnds(i)

Grpc(i) == GrpcServing(i) \/ ConnectFails(i)

RpcNext ==
    \/ \E q \in Queues : Pop(q) \/ RunStep(q)
    \/ \E i \in Rpcs : GrpcServing(i)

\* The event threads and the completion-queue threads run; gRPC returns the
\* events of a call that is over, and completes a finish.
RpcFairness ==
    /\ \A q \in Queues : WF_rpcVars(Pop(q) \/ RunStep(q))
    /\ \A i \in Rpcs :
          /\ WF_rpcVars(call[i] = "over" /\ ReadEnds(i))
          /\ WF_rpcVars(call[i] = "over" /\ WriteEnds(i))
          /\ WF_rpcVars(FinishEnds(i))
          /\ WF_rpcVars(DoneEnds(i))

\* A service that is never shut down.
ServingSpec == RpcInit /\ [][RpcNext]_rpcVars /\ RpcFairness

-----------------------------------------------------------------------------

Queued(i, event) ==
    {<<q, n>> \in Queues \X (1 .. Cardinality(Rpcs) * 8) :
        n <= Len(queue[q]) /\ queue[q][n].rpc = i /\ queue[q][n].event = event}

\* No Rpc is destroyed while something still refers to it by a raw pointer: an
\* event that gRPC holds or that is queued, or a handler that is at work on it.
\* So GetWeakPtr's CHECK cannot fail, and no handler runs on a destroyed Rpc.
NoUseAfterRemove ==
    /\ \A i \in Rpcs : ops[i] # {} => i \in rpcs_
    /\ \A q \in Queues :
          /\ ~Idle(q) => work[q].rpc \in rpcs_
          /\ \A n \in 1 .. Len(queue[q]) :
                queue[q][n].event # "WRITE_NEEDED" => queue[q][n].rpc \in rpcs_

\* An event object is in one place at a time: its pending flag is set exactly
\* while gRPC or an event queue holds it, and it is never handed to gRPC again
\* before it has been handled (DONE is held back until the call is accepted).
PendingExact ==
    \A i \in rpcs_, event \in TagEvents :
        LET places == Cardinality(Queued(i, event)) +
                      (IF event \in ops[i] THEN 1 ELSE 0)
        IN  IF event = "DONE" /\ call[i] = "none"
              THEN places = 0 /\ event \in pending[i]
              ELSE places = IF event \in pending[i] THEN 1 ELSE 0

\* What a client sees: a unary call gets one answer that carries the response;
\* a stream gets one response per request, and the finish comes once, last, and
\* not before every response was written.
WireProtocol ==
    \A i \in Rpcs :
        LET n == Len(sent[i])
        IN  IF rpc_type[i] = "NORMAL_RPC"
              THEN sent[i] \in {<<>>, <<"finish with message">>}
              ELSE /\ \A k \in 1 .. n - 1 : sent[i][k] = "write"
                   /\ n > 0 => sent[i][n] \in {"write", "finish"}
                   /\ n > 0 /\ sent[i][n] = "finish" => n - 1 = requests[i]
                   /\ n > 0 /\ sent[i][n] = "write" => n <= requests[i]

\* No leak: once a call is over its Rpc is removed, whatever order its last
\* events come in.
OverCallsRemoved == \A i \in Rpcs : call[i] = "over" ~> i \in removed

\* Every unary call that is accepted comes to an end.
UnaryCallsEnd ==
    \A i \in Rpcs :
        call[i] = "open" /\ rpc_type[i] = "NORMAL_RPC" ~> call[i] = "over"

=============================================================================
