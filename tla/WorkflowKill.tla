----------------------------- MODULE WorkflowKill ----------------------------
(***************************************************************************)
(* The kill of a workflow (WMBSHelper's killWorkflow).                     *)
(* WorkQueueManagerCleaner runs it when elements of the workflow are       *)
(* CancelRequested, which the global queue and replication see to, and     *)
(* again and again as long as ReqMgr says that the workflow is aborted and *)
(* it has an open subscription - whatever list the submitter has.  It runs *)
(* in no transaction: every statement commits on its own.                  *)
(***************************************************************************)
EXTENDS JobSubmitter, JobCreator

VARIABLES killStep,       \* the statement the kill is at
          killList,       \* the live jobs Jobs.KillWorkflow returned
          killGroup       \* jobs of one state, with the retry counts that were read

killVars == <<killStep, killList, killGroup>>

KillTypeOK == /\ killStep \in {"idle", "batch", "select", "update", "set"}
              /\ killList \subseteq [job : Jobs, retry : Nat, state : States]
              /\ killGroup \subseteq Attempts

KillInit == killStep = "idle" /\ killList = {} /\ killGroup = {}

(* Jobs.KillWorkflow leaves these states out; killWorkflow skips the jobs  *)
(* that are killed already.                                                *)
Unkillable == {"new", "complete", "success", "cleanout", "exhausted", "killed"}

(* Mutation: a workflow is killed once.                                    *)
OpenOnce == ~filesKilled

(* Some subscription of the workflow is not finished.                      *)
Open == ~filesKilled \/ InState({"new", "cleanout"}) # Jobs

(* Subscriptions.KillWorkflow: no file is left to be taken.                *)
KillFiles == filesKilled' = TRUE

(* The files go first, then the live jobs are listed.                      *)
KillRead ==
  /\ killStep = "idle" /\ Open
  /\ KillFiles
  /\ killList' = {[job |-> j, retry |-> retry[j], state |-> state[j]] :
                     j \in Jobs \ InState(Unkillable)}
  /\ killStep' = IF killList' = {} THEN "idle" ELSE "batch"
  /\ UNCHANGED <<killGroup, aborted, submitterVars, creatorVars, bossAirVars, tableVars>>

KillBatch ==
  /\ killStep = "batch"
  /\ KillBatchJobs({Attempt(s) : s \in {k \in killList : k.state = "executing"}})
  /\ killStep' = "select"
  /\ UNCHANGED <<killList, killGroup, filesKilled, aborted, submitterVars, creatorVars>>

(* propagate(jobs, "killed", state), once per state: the SELECT of         *)
(* IncrementRetry ...                                                      *)
KillSelect(name) ==
  LET group == {k \in killList : k.state = name}
  IN  /\ killStep = "select" /\ group # {}
      /\ killGroup' = {Now(j) : j \in JobsOf(group)}
      /\ killList' = killList \ group
      /\ killStep' = "update"
      /\ UNCHANGED <<filesKilled, aborted, submitterVars, creatorVars, bossAirVars,
                     tableVars>>

(* ... its UPDATE ...                                                      *)
KillIncrementRetry ==
  /\ killStep = "update"
  /\ retry' = RetryWritten(killGroup, KillIncrement)
  /\ killStep' = "set"
  /\ UNCHANGED <<killList, killGroup, state, path, filesKilled, aborted, submitterVars,
                 creatorVars, bossAirVars>>

(* ... and then ChangeState, whatever the jobs did in between.             *)
KillSetState ==
  /\ killStep = "set"
  /\ state' = StateSet(JobsOf(killGroup), "killed")
  /\ killGroup' = {}
  /\ killStep' = IF killList = {} THEN "idle" ELSE "select"
  /\ UNCHANGED <<retry, path, killList, filesKilled, aborted, submitterVars, creatorVars,
                 bossAirVars>>

KillCrash ==
  /\ killStep # "idle"
  /\ killStep' = "idle" /\ killList' = {} /\ killGroup' = {}
  /\ UNCHANGED <<filesKilled, aborted, submitterVars, creatorVars, bossAirVars, tableVars>>
=============================================================================
