----------------------------- MODULE JobLifecycle ----------------------------
(***************************************************************************)
(* What the job state machine promises, job by job, whatever components    *)
(* there are and however they are scheduled: a job only ever moves along   *)
(* the transition table, and its retry count changes exactly when and by   *)
(* as much as the move it makes says.  AgentJobs is shown to implement     *)
(* this as long as no workflow is killed.                                  *)
(***************************************************************************)
EXTENDS Transitions

CONSTANT Jobs

VARIABLES state, retry

lifecycleVars == <<state, retry>>

Init == /\ state = [j \in Jobs |-> "new"]
        /\ retry = [j \in Jobs |-> 0]

Stays(j) == state'[j] = state[j] /\ retry'[j] = retry[j]

Moves(j) == /\ state'[j] \in Transitions[state[j]]
            /\ retry'[j] = retry[j] + RetryIncrement(state[j], state'[j])

(* The pollers work on lists of jobs: one transaction may move many.       *)
Next == /\ state' \in [Jobs -> States]
        /\ retry' \in [Jobs -> Nat]
        /\ \A j \in Jobs : Stays(j) \/ Moves(j)

Spec == Init /\ [][Next]_lifecycleVars
=============================================================================
