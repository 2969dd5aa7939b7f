---------------------------- MODULE MCServerMain -----------------------------
(* An instance of ServerMain for TLC. *)
EXTENDS ServerMain, TLC

\* The queues differ only in their place in the round, so the round may be taken
\* to stand at the last one.
MCInit == MainInit /\ current_event_queue_id_ = num_event_threads - 1

MCSpec == MCInit /\ [][MainNext]_allVars /\ MainFairness

==============================================================================
