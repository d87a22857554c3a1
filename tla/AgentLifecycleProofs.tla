------------------------ MODULE AgentLifecycleProofs -------------------------
(***************************************************************************)
(* The agent implements the job life cycle (JobLifecycle) as long as no    *)
(* workflow is killed and no passExitCodes are configured, which is where  *)
(* the code leaves the transition table on purpose or by an overlap.       *)
(***************************************************************************)
EXTENDS AgentOwnershipProofs

(* Nothing but a kill ends the time before the first kill.                 *)
LEMMA NextPristine ==
  ASSUME ~AllowKill, Pristine, [Next]_vars
  PROVE  Pristine'
<1>1. CASE Steps
  <2>1. ASSUME CreateStep PROVE Pristine'
    BY <2>1 DEF CreateStep, CreatorRead, CreatorCommit, Pristine
  <2> QED BY <1>1, <2>1 DEF Steps, Pristine, SubmitterFrame, BatchFrame, TrackerFrame, AccountantFrame,
             HandlerFrame, RetryFrame, ArchiverFrame
<1>2. CASE Crashes
  BY <1>2 DEF Crashes, CreatorCrash, KillCrash, Pristine, SubmitterFrame, TrackerFrame,
              AccountantFrame, HandlerFrame, RetryFrame, ArchiverFrame
<1>3. CASE UNCHANGED vars
  BY <1>3 DEF vars, Pristine
<1> QED BY <1>1, <1>2, <1>3 DEF Next

-----------------------------------------------------------------------------
(* Without passExitCodes no report says "pass": it is never the agent that *)
(* writes such a report.                                                   *)

LEMMA WrittenNoPass ==
  ASSUME NoPass, NEW R \in SUBSET reports, NEW A, NEW result, result # "pass",
         reports' = Written(R, A, result)
  PROVE  NoPass'
BY DEF NoPass, Written

LEMMA KillReportsNoPass ==
  ASSUME NoPass, NEW A, NEW result, result # "pass", reports' = KillReports(A, result)
  PROVE  NoPass'
BY WrittenNoPass DEF KillReports

LEMMA NextNoPass ==
  ASSUME ~PassCodes, NoPass, [Next]_vars
  PROVE  NoPass'
<1>1. CASE reports' = reports
  BY <1>1 DEF NoPass
<1>2. ASSUME SubmitStep PROVE NoPass'
  <2>1. ASSUME NEW bad, NEW saved, NEW result \in {"retry", "noRetry"}, FailBadJobs(bad, saved, result)
        PROVE  NoPass'
    BY <2>1, WrittenNoPass DEF FailBadJobs
  <2> QED BY <1>1, <1>2, <2>1 DEF SubmitStep, SkipRefresh, Refresh, RegisterReports, EndCycle,
                                  CommitBatch, SubmitBatch, bossAirVars
<1>3. ASSUME CreateStep PROVE NoPass'
  BY <1>1, <1>3, WrittenNoPass DEF CreateStep, CreatorRead, CreatorCommit, bossAirVars
<1>4. ASSUME BatchStep PROVE NoPass'
  <2>1. ASSUME NEW p, ProcessEnds(p) PROVE NoPass'
    BY <1>1, <2>1, WrittenNoPass DEF ProcessEnds, JobResults
  <2>2. ASSUME NEW p, ProcessHeld(p) PROVE NoPass'
    BY <1>1, <2>2 DEF ProcessHeld
  <2>3. ASSUME Track PROVE NoPass'
    BY <2>3, WrittenNoPass DEF Track
  <2>4. ASSUME Timeout PROVE NoPass'
    <3>1. PICK late : reports' = KillReports({Attempt(x) : x \in late}, "timeout")
      BY <2>4 DEF Timeout
    <3> QED BY <3>1, KillReportsNoPass
  <2> QED BY <1>4, <2>1, <2>2, <2>3, <2>4 DEF BatchStep
<1>5. ASSUME TrackStep PROVE NoPass'
  BY <1>1, <1>5, WrittenNoPass DEF TrackStep, TrackerRead, TrackerCommit, bossAirVars
<1>6. ASSUME ArchiveStep \/ ArchiverCrash PROVE NoPass'
  BY <1>6 DEF NoPass, ArchiveStep, ArchiverRead, ArchiverCommit, ArchiverCrash, Cleaned,
              bossAirVars
<1>7. ASSUME KillStep PROVE NoPass'
  <2>1. ASSUME KillBatch PROVE NoPass'
    BY <2>1, KillReportsNoPass DEF KillBatch, KillBatchJobs
  <2> QED BY <1>1, <1>7, <2>1 DEF KillStep, KillRead, KillSelect, KillSetState, KillIncrementRetry, bossAirVars
<1>8. ASSUME AccountStep \/ HandleStep \/ RetryStep \/ OperatorStep \/ Abort PROVE reports' = reports
  BY <1>8 DEF AccountStep, AccountantRead, AccountantCommit, HandleStep, HandlerRead, HandlerLoad,
              HandleFailed, HandleRetryDone, RetryStep, RetryRead, RetrySelect, RetryCommit, OperatorStep,
              OperatorLists, OperatorMoves, Abort, bossAirVars
<1>9. ASSUME Crashes PROVE NoPass'
  <2>1. ASSUME SubmitterCrash PROVE NoPass'
    BY <2>1, WrittenNoPass DEF SubmitterCrash
  <2> QED BY <1>1, <1>6, <1>9, <2>1 DEF Crashes, CreatorCrash, TrackerCrash, AccountantCrash,
                          HandlerCrash, RetryCrash, KillCrash, bossAirVars
<1>10. CASE UNCHANGED vars
  BY <1>1, <1>10 DEF vars, bossAirVars
<1> QED BY <1>1, <1>2, <1>3, <1>4, <1>5, <1>6, <1>7, <1>8, <1>9, <1>10 DEF Next, Steps

-----------------------------------------------------------------------------
(* A legal step of the agent is a step of the life cycle.                  *)

LEMMA LegalStep ==
  ASSUME TypeOK, TypeOK', Legal
  PROVE  Lifecycle!Next
<1>1. state' \in [Jobs -> Lifecycle!States] /\ retry' \in [Jobs -> Nat]
  BY DEF TypeOK, TableTypeOK, States, Lifecycle!States, FailedStates, Lifecycle!FailedStates,
         CooloffStates, Lifecycle!CooloffStates, PausedStates, Lifecycle!PausedStates
<1>2. Lifecycle!Transitions = Transitions
  BY DEF Transitions, Lifecycle!Transitions
<1>3. \A old, new : Lifecycle!RetryIncrement(old, new) = RetryIncrement(old, new)
  BY DEF RetryIncrement, Lifecycle!RetryIncrement, CooloffStates, Lifecycle!CooloffStates
<1>4. \A j \in Jobs : Lifecycle!Stays(j) \/ Lifecycle!Moves(j)
  BY <1>2, <1>3 DEF Legal, Lifecycle!Stays, Lifecycle!Moves
<1> QED BY <1>1, <1>4 DEF Lifecycle!Next

LEMMA NextLegal ==
  ASSUME TypeOK, OwnershipInv, Pristine', NoPass, [Next]_vars
  PROVE  Legal
<1>1. Tidy
  BY PristineBefore DEF OwnershipInv, Tidy
<1>2. ~KillStep /\ ~KillCrash
  BY <1>1, KillStepNotPristine
<1>3. CASE Steps
  BY <1>1, <1>2, <1>3, SubmitterStepTidy, CreatorStepTidy, BatchStepTidy, TrackerStepTidy,
     AccountantStepTidy, HandlerStepTidy, RetryManagerStepTidy, ArchiverStepTidy DEF Steps
<1>4. CASE Crashes
  BY <1>1, <1>2, <1>4, SubmitterStepTidy, CreatorStepTidy, TrackerStepTidy,
     AccountantStepTidy, HandlerStepTidy, RetryManagerStepTidy, ArchiverStepTidy DEF Crashes
<1>5. CASE UNCHANGED vars
  BY <1>5, QuietStep DEF vars
<1> QED BY <1>3, <1>4, <1>5 DEF Next

(* As long as no workflow is killed and no passExitCodes are configured,   *)
(* the components of the agent, each writing states by job id with no lock *)
(* and no comparison, together only ever do what the job state machine     *)
(* says: a job moves along the table, and its retry count by as much as    *)
(* its move says.                                                          *)
THEOREM AgentImplementsLifecycle ==
  ASSUME ~AllowKill, ~PassCodes
  PROVE  Spec => ImplementsLifecycle
<1>1. Init => Lifecycle!Init /\ Pristine /\ NoPass
  BY DEF Init, TableInit, CreatorInit, BossAirInit, Lifecycle!Init, Pristine, NoPass
<1>2. Pristine /\ NoPass /\ [Next]_vars => (Pristine /\ NoPass)'
  BY NextPristine, NextNoPass
<1>3. TypeOK /\ TypeOK' /\ OwnershipInv /\ Pristine' /\ NoPass /\ [Next]_vars
         => [Lifecycle!Next]_(Lifecycle!lifecycleVars)
  BY NextLegal, LegalStep
<1> QED BY <1>1, <1>2, <1>3, OwnershipInvariant, PTL
        DEF Spec, ImplementsLifecycle, Lifecycle!Spec
=============================================================================
