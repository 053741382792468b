----------------------------- MODULE MCWorkers -----------------------------
(***************************************************************************)
(* One instance of the two components whose work is done by threads that   *)
(* a pool or a semaphore schedules: the Agent of Link and the audio        *)
(* analysis of Core.  They share no state, so a behaviour is one of the    *)
(* component in focus and the other rests in its initial state.            *)
(***************************************************************************)
EXTENDS MCLinkAgent, AudioJobs

CONSTANTS u1, u2

\* The same content twice.
TheUploads == u1 :> "song" @@ u2 :> "song"

VARIABLE focus

WorkersInit ==
  /\ LinkAgentInit /\ AudioInit
  /\ focus \in {"agent", "audio"}

WorkersNext ==
  /\ UNCHANGED focus
  /\ \/ focus = "agent" /\ LinkAgentNext /\ UNCHANGED audioVars
     \/ focus = "audio" /\ AudioNext /\ UNCHANGED agentVars

WorkersSpec ==
  /\ WorkersInit
  /\ [][WorkersNext]_<<focus, agentVars, audioVars>>
  /\ LinkAgentFairness /\ AudioFairness
=============================================================================
