------------------------------- MODULE Client --------------------------------
(***************************************************************************)
(* async_grpc/client.h and async_grpc/retry.cc: a Client, the blocking     *)
(* wrapper of one method.  A unary Client makes its call again as its      *)
(* RetryStrategy says; the others wrap one stream.  The program may call   *)
(* the methods in any order and use one Client more than once.             *)
(*                                                                         *)
(* A ClientContext serves one call: gRPC aborts the process when it is     *)
(* given one a second time.                                                *)
(***************************************************************************)
EXTENDS Naturals

CONSTANTS
    max_attempts,   \* of the limited strategy
    MaxCount        \* bound: the counters of attempts stay at this value

ASSUME ClientAssumption ==
    max_attempts \in Nat /\ MaxCount \in Nat /\ MaxCount > max_attempts + 1

VARIABLES
    rpc_type,           \* which specialisation of Client this is
    retry_strategy_,    \* which strategy it was given
    timeout_,           \* whether it was given a timeout
    pc,                 \* where Write is; "idle": the program's turn
    context_used,       \* client_context_ was given to a call
    expired,            \* the deadline of the current Write has passed
    failed_attempts,
    call,               \* external: the call in progress
    status,             \* the status of the last attempt
    result,             \* what the last Write returned
    performed,          \* history: how often the server performed the request
    stream              \* client_writer_, client_reader_ or ..._writer_

clientVars == <<rpc_type, retry_strategy_, timeout_, pc, context_used, expired,
                failed_attempts, call, status, result, performed, stream>>

Strategies == {"none", "limited", "unlimited", "unlimited but"}
Statuses == {"OK", "UNAVAILABLE", "DEADLINE_EXCEEDED", "INVALID_ARGUMENT"}

\* The unrecoverable_codes of the strategy "unlimited but".
unrecoverable_codes == {"INVALID_ARGUMENT", "DEADLINE_EXCEEDED"}

\* The type invariant of a Client.
ClientTypeOK ==
    /\ rpc_type \in {"NORMAL_RPC", "CLIENT_STREAMING", "SERVER_STREAMING",
                     "BIDI_STREAMING"}
    /\ retry_strategy_ \in Strategies
    /\ timeout_ \in BOOLEAN
    /\ pc \in {"idle", "attempt", "calling", "sleeping", "aborted"}
    /\ context_used \in BOOLEAN /\ expired \in BOOLEAN
    /\ failed_attempts \in 0 .. MaxCount
    /\ call \in {"none", "refused", "sent", "performed"}
    /\ status \in Statuses
    /\ result \in BOOLEAN
    /\ performed \in 0 .. MaxCount
    /\ stream \in {"null", "open", "finished"}

ClientInit ==
    /\ rpc_type \in {"NORMAL_RPC", "CLIENT_STREAMING", "SERVER_STREAMING",
                     "BIDI_STREAMING"}
    /\ retry_strategy_ \in Strategies
    /\ timeout_ \in BOOLEAN
    /\ rpc_type # "NORMAL_RPC" => retry_strategy_ = "none" /\ ~timeout_
    /\ ~timeout_ => retry_strategy_ = "none"
    /\ pc = "idle"
    /\ context_used = FALSE /\ expired = FALSE
    /\ failed_attempts = 0
    /\ call = "none"
    /\ status = "OK"
    /\ result = TRUE
    /\ performed = 0
    /\ stream = "null"

Count(n) == IF n < MaxCount THEN n + 1 ELSE n

-----------------------------------------------------------------------------
(* NORMAL_RPC: Write, RetryWithStrategy and ResetContext. *)

\* Write takes the deadline from the clock and makes a context with it.
Write ==
    /\ rpc_type = "NORMAL_RPC" /\ pc = "idle"
    /\ pc' = "attempt"
    /\ context_used' = FALSE
    /\ expired' = FALSE
    /\ failed_attempts' = 0
    /\ performed' = 0
    /\ UNCHANGED <<rpc_type, retry_strategy_, timeout_, call, status, result,
                   stream>>

DeadlinePasses ==
    /\ timeout_ /\ ~expired /\ pc \in {"attempt", "calling", "sleeping"}
    /\ expired' = TRUE
    /\ UNCHANGED <<rpc_type, retry_strategy_, timeout_, pc, context_used,
                   failed_attempts, call, status, result, performed, stream>>

\* WriteImpl: BlockingUnaryCall gives the context to gRPC, which does not send
\* a request whose deadline has passed.
WriteImpl ==
    /\ pc = "attempt"
    /\ pc' = IF context_used THEN "aborted" ELSE "calling"
    /\ context_used' = TRUE
    /\ call' = IF expired THEN "refused" ELSE "sent"
    /\ UNCHANGED <<rpc_type, retry_strategy_, timeout_, expired,
                   failed_attempts, status, result, performed, stream>>

ServerPerforms ==
    /\ pc = "calling" /\ call = "sent"
    /\ call' = "performed"
    /\ performed' = Count(performed)
    /\ UNCHANGED <<rpc_type, retry_strategy_, timeout_, pc, context_used,
                   expired, failed_attempts, status, result, stream>>

\* CreateLimitedRetryIndicator
LimitedRetryIndicator(failed) == failed < max_attempts

\* CreateUnlimitedRetryIndicator
UnlimitedRetryIndicator(s) == s \notin unrecoverable_codes

\* retry_strategy(failed, s).has_value()
Retries(failed, s) ==
    CASE retry_strategy_ = "none" -> FALSE
      [] retry_strategy_ = "limited" -> LimitedRetryIndicator(failed)
      [] retry_strategy_ = "unlimited" -> TRUE
      [] retry_strategy_ = "unlimited but" -> UnlimitedRetryIndicator(s)

\* gRPC returns from the call with a status.
Outcomes ==
    (IF call = "performed" THEN {"OK"} ELSE {}) \cup
    (IF expired THEN {"DEADLINE_EXCEEDED"} ELSE {}) \cup
    (IF call = "refused" THEN {} ELSE {"UNAVAILABLE", "INVALID_ARGUMENT"})

\* Mutant: a Write whose retries are used up returns true.
AttemptEndsWell(s) ==
    LET failed == Count(failed_attempts)
    IN  /\ pc = "calling" /\ s \in Outcomes
        /\ status' = s
        /\ pc' = IF s # "OK" /\ Retries(failed, s) THEN "sleeping" ELSE "idle"
        /\ result' = (result \/ pc' = "idle")
        /\ failed_attempts' = IF s = "OK" THEN failed_attempts ELSE failed
        /\ call' = "none"
        /\ UNCHANGED <<rpc_type, retry_strategy_, timeout_, context_used,
                       expired, performed, stream>>

\* The rest of the loop body: Write returns, or sleeps before the next attempt.
AttemptEnds(s) ==
    LET failed == Count(failed_attempts)
        retry == s # "OK" /\ Retries(failed, s)
    IN  /\ pc = "calling" /\ s \in Outcomes
        /\ status' = s
        /\ pc' = IF retry THEN "sleeping" ELSE "idle"
        /\ result' = IF retry THEN result ELSE s = "OK"
        /\ failed_attempts' = IF s = "OK" THEN failed_attempts ELSE failed
        /\ call' = "none"
        /\ UNCHANGED <<rpc_type, retry_strategy_, timeout_, context_used,
                       expired, performed, stream>>

\* reset(): a new context with the same deadline.
SleepEnds ==
    /\ pc = "sleeping"
    /\ pc' = "attempt"
    /\ context_used' = FALSE
    /\ UNCHANGED <<rpc_type, retry_strategy_, timeout_, expired,
                   failed_attempts, call, status, result, performed, stream>>

-----------------------------------------------------------------------------
(* The streams *)

\* Create of a stream gives it the context.
Instantiate ==
    /\ pc' = IF context_used THEN "aborted" ELSE pc
    /\ context_used' = TRUE
    /\ stream' = "open"

\* InstantiateClientWriterIfNeeded, InstantiateClientReaderWriterIfNeeded
InstantiateIfNeeded ==
    IF stream = "null" THEN Instantiate
                       ELSE UNCHANGED <<pc, context_used, stream>>

StreamCall ==
    /\ pc = "idle"
    /\ UNCHANGED <<rpc_type, retry_strategy_, timeout_, expired,
                   failed_attempts, call, performed>>

\* Write of a stream: internal_status is never set, so it returns true.
StreamWrite ==
    /\ StreamCall
    /\ \/ rpc_type \in {"CLIENT_STREAMING", "BIDI_STREAMING"}
          /\ InstantiateIfNeeded
       \/ rpc_type = "SERVER_STREAMING" /\ Instantiate
    /\ status' = "OK"
    /\ result' = TRUE

\* StreamRead, StreamWritesDone: a failed CHECK aborts.
StreamReadOrWritesDone ==
    /\ StreamCall
    /\ \/ rpc_type \in {"CLIENT_STREAMING", "BIDI_STREAMING"}
          /\ InstantiateIfNeeded
       \/ /\ rpc_type = "SERVER_STREAMING"
          /\ pc' = IF stream = "null" THEN "aborted" ELSE pc
          /\ UNCHANGED <<context_used, stream>>
    /\ UNCHANGED <<status, result>>

\* StreamFinish, which a program calls once.
StreamFinish(s) ==
    /\ StreamCall
    /\ stream # "finished"
    /\ IF stream = "null" /\ rpc_type = "SERVER_STREAMING"
         THEN pc' = "aborted" /\ UNCHANGED <<context_used, stream>>
         ELSE /\ rpc_type # "NORMAL_RPC"
              /\ context_used' = TRUE
              /\ stream' = "finished"
              /\ UNCHANGED pc
    /\ status' = s
    /\ UNCHANGED result

-----------------------------------------------------------------------------

ClientNext ==
    \/ Write \/ DeadlinePasses \/ WriteImpl \/ ServerPerforms
    \/ \E s \in Statuses : AttemptEnds(s)
    \/ SleepEnds
    \/ StreamWrite \/ StreamReadOrWritesDone
    \/ \E s \in {"OK", "UNAVAILABLE"} : StreamFinish(s)

-----------------------------------------------------------------------------

MostAttempts ==
    IF retry_strategy_ = "none" \/ max_attempts = 0 THEN 1 ELSE max_attempts

\* What the result of a unary Write says: true, that the server performed the
\* request; false, that the strategy allowed no further attempt.
WriteResultTrue ==
    rpc_type = "NORMAL_RPC" /\ pc = "idle" /\ context_used =>
        \/ result /\ status = "OK" /\ performed > 0
        \/ /\ ~result /\ status # "OK"
           /\ CASE retry_strategy_ \in {"none", "limited"} ->
                     failed_attempts = MostAttempts
                [] retry_strategy_ = "unlimited" -> FALSE
                [] retry_strategy_ = "unlimited but" ->
                     status \in unrecoverable_codes

=============================================================================
