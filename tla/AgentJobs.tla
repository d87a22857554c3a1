------------------------------ MODULE AgentJobs ------------------------------
(***************************************************************************)
(* The job components of one agent at work on the jobs of one workflow.    *)
(* Each is a process of its own: it reads the wmbs_job table, holds what it*)
(* read, and writes back in a transaction some time later.  Between a read *)
(* and the write that rests on it any other component may run.             *)
(***************************************************************************)
EXTENDS WorkflowKill, JobTracker, JobAccountant, ErrorHandler, RetryManager, JobArchiver

CONSTANTS AllowAbort,     \* may the workflow be aborted, in ReqMgr?
          AllowKill,      \* may the agent be told to kill it?
          MaxFaults,      \* bound: crashes and rollbacks in a behaviour
          Dying           \* the components that may crash or roll back

ASSUME AgentJobsAssumption == /\ AllowAbort \in BOOLEAN /\ AllowKill \in BOOLEAN
                              /\ MaxFaults \in Nat
                              /\ MaxRetries < KillIncrement

VARIABLE faults           \* crashes and rollbacks so far

vars == <<tableVars, bossAirVars, aborted, submitterVars, creatorVars, filesKilled, trackerVars,
          accountantVars, handlerVars, retryManagerVars, operatorVars, archiverVars, killVars,
          faults>>

Init == /\ TableInit /\ BossAirInit /\ SubmitterInit /\ CreatorInit /\ TrackerInit
        /\ AccountantInit /\ HandlerInit /\ RetryManagerInit /\ ArchiverInit /\ KillInit
        /\ faults = 0

-----------------------------------------------------------------------------
(* The steps of each component, without its faults.                        *)

SubmitStep == \/ SkipRefresh \/ Refresh \/ RegisterReports \/ EndCycle \/ CommitBatch
              \/ \E bad \in SUBSET badJobs : \E saved \in SUBSET bad, result \in {"retry", "noRetry"} :
                    FailBadJobs(bad, saved, result)
              \/ \E batch \in SUBSET Cached : \E good \in SUBSET batch : SubmitBatch(batch, good)

CreateStep == \/ CreatorRead
              \/ \E bad \in SUBSET creating : \E saved \in SUBSET bad : CreatorCommit(bad, saved)

BatchStep == \/ Track \/ Timeout
             \/ \E p \in queue : ProcessEnds(p) \/ ProcessHeld(p)

TrackStep == TrackerRead \/ TrackerCommit

AccountStep == AccountantRead \/ \E slice \in SUBSET accounted : AccountantCommit(slice)

HandleStep == \/ HandlerRead \/ HandleFailed \/ HandleRetryDone
              \/ \E slice \in SUBSET listed : HandlerLoad(slice)

RetryStep == RetryRead \/ RetryCommit \/ \E ready \in SUBSET MayBeReady : RetrySelect(ready)

OperatorStep == \/ OperatorLists
                \/ \E j \in chosen, new \in {"created", "retrydone"} : OperatorMoves(j, new)

ArchiveStep == ArchiverRead \/ ArchiverCommit

KillStep == \/ KillRead \/ KillBatch \/ KillIncrementRetry \/ KillSetState
            \/ \E name \in States : KillSelect(name)

-----------------------------------------------------------------------------
(* The composition: a component leaves the memory of the others alone.     *)

SubmitterFrame  == UNCHANGED <<creatorVars, filesKilled, trackerVars, accountantVars, handlerVars,
                               retryManagerVars, operatorVars, archiverVars, killVars>>
CreatorFrame    == UNCHANGED <<aborted, submitterVars, trackerVars, accountantVars, handlerVars,
                               retryManagerVars, operatorVars, archiverVars, killVars>>
BatchFrame      == CreatorFrame /\ UNCHANGED <<creatorVars, filesKilled>>
TrackerFrame    == UNCHANGED <<aborted, submitterVars, creatorVars, filesKilled, accountantVars,
                               handlerVars, retryManagerVars, operatorVars, archiverVars, killVars>>
AccountantFrame == UNCHANGED <<aborted, submitterVars, creatorVars, filesKilled, trackerVars,
                               handlerVars, retryManagerVars, operatorVars, archiverVars, killVars>>
HandlerFrame    == UNCHANGED <<aborted, submitterVars, creatorVars, filesKilled, trackerVars,
                               accountantVars, retryManagerVars, operatorVars, archiverVars, killVars>>
RetryFrame      == UNCHANGED <<aborted, submitterVars, creatorVars, filesKilled, trackerVars,
                               accountantVars, handlerVars, archiverVars, killVars>>
ArchiverFrame   == UNCHANGED <<aborted, submitterVars, creatorVars, filesKilled, trackerVars,
                               accountantVars, handlerVars, retryManagerVars, operatorVars, killVars>>
KillFrame       == UNCHANGED <<trackerVars, accountantVars, handlerVars, retryManagerVars,
                               operatorVars, archiverVars>>

Steps == \/ SubmitStep  /\ SubmitterFrame
         \/ AllowAbort /\ Abort /\ SubmitterFrame
         \/ CreateStep  /\ CreatorFrame
         \/ BatchStep   /\ BatchFrame
         \/ TrackStep   /\ TrackerFrame
         \/ AccountStep /\ AccountantFrame
         \/ HandleStep  /\ HandlerFrame
         \/ RetryStep   /\ RetryFrame
         \/ OperatorStep /\ RetryFrame
         \/ ArchiveStep /\ ArchiverFrame
         \/ AllowKill /\ KillStep /\ KillFrame

Crashes == \/ "Submitter" \in Dying /\ SubmitterCrash /\ SubmitterFrame
           \/ "Creator" \in Dying /\ CreatorCrash /\ CreatorFrame
           \/ "Tracker" \in Dying /\ TrackerCrash /\ TrackerFrame
           \/ "Accountant" \in Dying /\ AccountantCrash /\ AccountantFrame
           \/ "Handler" \in Dying /\ HandlerCrash /\ HandlerFrame
           \/ "Retry" \in Dying /\ RetryCrash /\ RetryFrame
           \/ "Archiver" \in Dying /\ ArchiverCrash /\ ArchiverFrame
           \/ "Kill" \in Dying /\ KillCrash /\ KillFrame

Next == \/ Steps /\ UNCHANGED faults
        \/ Crashes /\ faults < MaxFaults /\ faults' = faults + 1

Spec == Init /\ [][Next]_vars

-----------------------------------------------------------------------------
(* Fairness.  Every poller runs again and again (Harness), so a step of its*)
(* cycle is taken if it stays possible.  Strong fairness is for what other *)
(* cycles interrupt: a created job finds a site with a free slot, and a job*)
(* that cooled off has waited long enough, if there is time and again a    *)
(* cycle in which that may happen; a cycle of the error handler visits all *)
(* the failure states.                                                     *)

Quiet(A) == A /\ UNCHANGED faults

CachesJob(j)  == Quiet(Refresh /\ cache[j] = NoJob /\ cache'[j] # NoJob /\ SubmitterFrame)
SubmitsJob(j) == Quiet(/\ \E batch \in SUBSET Cached : \E good \in SUBSET batch :
                              j \in good /\ SubmitBatch(batch, good)
                       /\ SubmitterFrame)
HandlesKind(kind) == Quiet(HandlerRead /\ handling' = kind /\ HandlerFrame)
RetriesJob(j) == Quiet(/\ \E ready \in SUBSET MayBeReady :
                              j \in JobsOf(ready) /\ RetrySelect(ready)
                       /\ RetryFrame)
EndsJob(j) == Quiet((\E p \in queue : p.job = j /\ ProcessEnds(p)) /\ BatchFrame)

(* What draining a killed workflow needs: a kill that is repeated, and the *)
(* two components that take on the jobs it leaves out and those it killed. *)
KillFairness ==
  /\ WF_vars(Quiet((aborted \/ killStep # "idle") /\ KillStep /\ KillFrame))
  /\ WF_vars(Quiet(AccountStep /\ AccountantFrame))
  /\ WF_vars(Quiet(ArchiveStep /\ ArchiverFrame))

Fairness ==
  /\ KillFairness
  /\ WF_vars(Quiet(SubmitStep  /\ SubmitterFrame))
  /\ WF_vars(Quiet(CreateStep  /\ CreatorFrame))
  /\ WF_vars(Quiet(Track       /\ BatchFrame))
  /\ WF_vars(Quiet(TrackStep   /\ TrackerFrame))
  /\ WF_vars(Quiet(HandleStep  /\ HandlerFrame))
  /\ WF_vars(Quiet(RetryStep   /\ RetryFrame))
  /\ \A j \in Jobs : /\ SF_vars(CachesJob(j)) /\ SF_vars(SubmitsJob(j))
                      /\ SF_vars(RetriesJob(j)) /\ WF_vars(EndsJob(j))
  /\ \A kind \in FailedStates \cup {"retrydone"} : SF_vars(HandlesKind(kind))

FairSpec == Spec /\ Fairness
FairKill == Spec /\ KillFairness
=============================================================================
