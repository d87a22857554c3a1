----------------------------- MODULE MCAgentJobs -----------------------------
(* One job, in the configurations of retries, kill_races, kill_drains and  *)
(* kill_forgotten.                                                         *)
EXTENDS AgentProperties

CONSTANT j1
=============================================================================
