----------------------------- MODULE AsyncServer -----------------------------
(***************************************************************************)
(* async_grpc/server.cc: a server with one service (Rpc), its event        *)
(* threads and Server::Shutdown, which the shutdown thread of              *)
(* server/server.cc calls once.                                            *)
(***************************************************************************)
EXTENDS Rpc

VARIABLES
    server_shutting_down,   \* Server::shutting_down_
    shutdown,               \* how far Server::Shutdown has come
    exited                  \* the event threads whose RunEventQueue returned

serverVars == <<server_shutting_down, shutdown, exited>>
vars == <<rpcVars, serverVars>>

Phases == {"serving", "flagged", "stopped", "closing", "closed", "drained",
           "done"}

\* The type invariant of the server.
TypeOK ==
    /\ RpcTypeOK
    /\ server_shutting_down \in BOOLEAN
    /\ shutdown \in Phases
    /\ exited \subseteq Queues

Init ==
    /\ RpcInit
    /\ server_shutting_down = FALSE
    /\ shutdown = "serving"
    /\ exited = {}

\* RunEventQueue handles events until the flag is set, and then until it finds
\* its queue empty (for kPopEventTimeout).
RunEventQueue(q) ==
    /\ q \notin exited
    /\ \/ /\ Pop(q) \/ RunStep(q)
          /\ UNCHANGED exited
       \/ /\ server_shutting_down /\ Idle(q) /\ queue[q] = <<>>
          /\ exited' = exited \cup {q}
          /\ UNCHANGED rpcVars
    /\ UNCHANGED <<server_shutting_down, shutdown>>

\* RunCompletionQueue, until Shutdown has drained and joined it.
RunCompletionQueue(i) ==
    /\ shutdown \notin {"drained", "done"}
    /\ Grpc(i)
    /\ UNCHANGED serverVars

\* The statements of Server::Shutdown, in order.
SetFlag ==
    /\ shutdown = "serving"
    /\ shutdown' = "flagged"
    /\ server_shutting_down' = TRUE
    /\ UNCHANGED <<rpcVars, exited>>

StopServing ==
    /\ shutdown = "flagged"
    /\ shutdown' = "stopped"
    /\ shutting_down_' = TRUE
    /\ UNCHANGED <<rpcs_, removed, rpc_type, event_queue_, pending, send_queue_,
                   queue, work, current_event_queue_id_, ops, call, requests,
                   sent, grpc_down, server_shutting_down, exited>>

\* Mutant: server_->Shutdown() comes before StopServing.
ServerShutdownEarly ==
    /\ shutdown = "flagged"
    /\ shutdown' = "closing"
    /\ grpc_down' = TRUE
    /\ UNCHANGED <<rpcs_, removed, rpc_type, event_queue_, pending, send_queue_,
                   queue, work, current_event_queue_id_, shutting_down_, ops,
                   call, requests, sent, server_shutting_down, exited>>

\* server_->Shutdown() refuses new calls ...
ServerShutdown ==
    /\ shutdown = "stopped"
    /\ shutdown' = "closing"
    /\ grpc_down' = TRUE
    /\ UNCHANGED <<rpcs_, removed, rpc_type, event_queue_, pending, send_queue_,
                   queue, work, current_event_queue_id_, shutting_down_, ops,
                   call, requests, sent, server_shutting_down, exited>>

Wait(from, condition, to) ==
    /\ shutdown = from /\ condition
    /\ shutdown' = to
    /\ UNCHANGED <<rpcVars, server_shutting_down, exited>>

\* ... and, with no deadline, waits until every call is over.
CallsOver == Wait("closing", \A i \in Rpcs : call[i] # "open", "closed")

\* CompletionQueueThread::Shutdown of each queue: its thread can be joined once
\* the queue is drained.
CompletionQueueDrained == \A i \in Rpcs : ops[i] = {}
CompletionQueuesShutdown == Wait("closed", CompletionQueueDrained, "drained")

\* EventQueueThread::Shutdown joins each event thread.
EventThreadsJoined == exited = Queues
EventQueuesShutdown == Wait("drained", EventThreadsJoined, "done")

Shutdown ==
    \/ StopServing \/ ServerShutdown \/ CallsOver \/ CompletionQueuesShutdown
    \/ EventQueuesShutdown

Next ==
    \/ \E q \in Queues : RunEventQueue(q)
    \/ \E i \in Rpcs : RunCompletionQueue(i)
    \/ SetFlag
    \/ Shutdown

\* Threads run, gRPC returns the events of calls that are over and of
\* connections it refuses, and cancels the call of a destroyed Rpc.
Fairness ==
    /\ WF_vars(Shutdown)
    /\ \A q \in Queues : WF_vars(RunEventQueue(q))
    /\ \A i \in Rpcs :
          /\ WF_vars(call[i] = "over" /\ RunCompletionQueue(i))
          /\ WF_vars(call[i] = "none" /\ grpc_down /\ RunCompletionQueue(i))
          /\ WF_vars("FINISH" \in ops[i] /\ RunCompletionQueue(i))
          /\ WF_vars(i \in removed /\ HangUp(i) /\ UNCHANGED serverVars)

Spec == Init /\ [][Next]_vars /\ Fairness

-----------------------------------------------------------------------------

\* gRPC fails a pending connection only after the service was told to stop, so
\* the branch of HandleNewConnection for "unknown reason", which removes an Rpc
\* and then still clones it, is never taken.
FailedConnectionOnlyInShutdown ==
    \A q \in Queues :
        /\ \A n \in 1 .. Len(queue[q]) :
              queue[q][n].event = "NEW_CONNECTION" /\ ~queue[q][n].ok
                => shutting_down_
        /\ Len(work[q].steps) > 1 => Head(work[q].steps) # "Remove"

\* What the comment on ActiveRpcs asks for ("Make sure that all RPCs have been
\* terminated and removed from this object"), and ~ActiveRpcs enforces with
\* LOG(FATAL): every RPC is removed before the server, and with it ActiveRpcs,
\* is destroyed.
AllRemovedAtDestruction == shutdown = "done" => rpcs_ = {}

==============================================================================
