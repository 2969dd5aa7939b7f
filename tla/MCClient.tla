------------------------------ MODULE MCClient -------------------------------
(* A program that uses a blocking Client or the AsyncClients of the pool. *)
EXTENDS Client, CompletionQueuePool, TLC

VARIABLE uses

MCVars == <<clientVars, poolVars, uses>>

MCInit ==
    /\ ClientInit /\ PoolInit
    /\ uses \in {"Client", "AsyncClient"}
    /\ uses = "AsyncClient" => rpc_type = "NORMAL_RPC" /\ ~timeout_

MCNext ==
    \/ uses = "Client" /\ ClientNext /\ UNCHANGED <<poolVars, uses>>
    \/ uses = "AsyncClient" /\ PoolNext /\ UNCHANGED <<clientVars, uses>>

MCSpec == MCInit /\ [][MCNext]_MCVars /\ PoolFairness

==============================================================================
