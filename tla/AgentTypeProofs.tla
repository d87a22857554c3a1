--------------------------- MODULE AgentTypeProofs ---------------------------
(***************************************************************************)
(* Type correctness of the agent, for every set of jobs and every value of *)
(* the constants.                                                          *)
(***************************************************************************)
EXTENDS AgentProperties, TLAPS

-----------------------------------------------------------------------------
(* What the helpers on tables return.                                      *)

(* Snapshots that were taken of jobs name jobs.                            *)
LEMMA SnapshotChosen ==
  ASSUME NEW S, NEW j \in JobsOf(S)
  PROVE  (CHOOSE s \in S : s.job = j) \in S /\ (CHOOSE s \in S : s.job = j).job = j
BY DEF JobsOf

(* Setting the state of some jobs leaves the table a table.                *)
LEMMA StateSetType ==
  ASSUME state \in [Jobs -> States], NEW S, NEW new \in States
  PROVE  StateSet(S, new) \in [Jobs -> States]
BY DEF StateSet

(* Pointing jobs to the reports of attempts does, too.                     *)
LEMMA PathSetType ==
  ASSUME path \in [Jobs -> Nat \cup {NoPath}], NEW S, \A s \in S : s.retry \in Nat
  PROVE  PathSet(S) \in [Jobs -> Nat \cup {NoPath}]
<1>1. \A j \in JobsOf(S) : CountIn(S, j) \in Nat
  BY SnapshotChosen DEF CountIn
<1> QED BY <1>1 DEF PathSet

(* And so does writing the retry counts that were read, with an increment. *)
LEMMA RetryWrittenType ==
  ASSUME retry \in [Jobs -> Nat], NEW S, \A s \in S : s.retry \in Nat, NEW inc \in Nat
  PROVE  RetryWritten(S, inc) \in [Jobs -> Nat]
<1>1. \A j \in JobsOf(S) : CountIn(S, j) \in Nat
  BY SnapshotChosen DEF CountIn
<1> QED BY <1>1 DEF RetryWritten

(* Writing reports for attempts.                                           *)
LEMMA WrittenType ==
  ASSUME NEW R \in SUBSET Reports, NEW A \in SUBSET Attempts, NEW result \in Verdicts
  PROVE  Written(R, A, result) \subseteq Reports
BY DEF Written, Attempts, Reports

LEMMA KillReportsType ==
  ASSUME reports \subseteq Reports, NEW A \in SUBSET Attempts, NEW result \in Verdicts
  PROVE  KillReports(A, result) \subseteq Reports
<1>1. {a \in A : \A r \in Of(reports, a) : r.result \notin {"noRetry", "pass"}} \subseteq Attempts
  OBVIOUS
<1> QED BY <1>1, WrittenType DEF KillReports

(* Completing rows, and recording processes as rows.                       *)
LEMMA DeactivatedType ==
  ASSUME NEW X \in SUBSET Rows, NEW S \in SUBSET Rows
  PROVE  Deactivated(X, S) \subseteq Rows
BY DEF Deactivated, Rows

LEMMA RowsWithType ==
  ASSUME rows \subseteq Rows, NEW new \in SUBSET Processes
  PROVE  RowsWith(new) \subseteq Rows
<1>1. ASSUME NEW p \in new
      PROVE  [job |-> p.job, retry |-> p.retry, copy |-> p.copy,
              active |-> TRUE, timeout |-> FALSE] \in Rows
  BY DEF Rows, Processes
<1> QED BY <1>1 DEF RowsWith

(* A row or a process is of an attempt.                                    *)
LEMMA AttemptType ==
  ASSUME NEW X, X \subseteq Rows \/ X \subseteq Processes
  PROVE  {Attempt(x) : x \in X} \subseteq Attempts
BY DEF Attempt, Attempts, Rows, Processes

(* The cache after a purge and a refill.                                   *)
LEMMA CacheWithType ==
  ASSUME cache \in [Jobs -> Nat \cup {NoJob}], retry \in [Jobs -> Nat], NEW J, NEW new
  PROVE  CacheWith(J, new) \in [Jobs -> Nat \cup {NoJob}]
BY DEF CacheWith

-----------------------------------------------------------------------------
(* Each component keeps the types.                                         *)

LEMMA InitTypes == Init => TypeOK
<1> SUFFICES ASSUME Init PROVE TypeOK
  OBVIOUS
<1>1. TableTypeOK /\ BossAirTypeOK
  BY DEF Init, TableInit, TableTypeOK, NoPath, States, BossAirInit, BossAirTypeOK
<1>2. SubmitterTypeOK /\ CreatorTypeOK /\ TrackerTypeOK /\ AccountantTypeOK
  BY DEF Init, SubmitterInit, SubmitterTypeOK, EmptyCache, CreatorInit, CreatorTypeOK,
         TrackerInit, TrackerTypeOK, AccountantInit, AccountantTypeOK
<1>3. HandlerTypeOK /\ RetryManagerTypeOK /\ ArchiverTypeOK /\ KillTypeOK
  BY DEF Init, HandlerInit, HandlerTypeOK, RetryManagerInit, RetryManagerTypeOK,
         ArchiverInit, ArchiverTypeOK, KillInit, KillTypeOK
<1> QED BY <1>1, <1>2, <1>3 DEF TypeOK, Init

(* What a component leaves alone keeps its type.                           *)
LEMMA SubmitterFrameTypes ==
  ASSUME TypeOK, SubmitterFrame
  PROVE  CreatorTypeOK' /\ TrackerTypeOK' /\ AccountantTypeOK' /\ HandlerTypeOK'
         /\ RetryManagerTypeOK' /\ ArchiverTypeOK' /\ KillTypeOK'
BY DEF TypeOK, SubmitterFrame, creatorVars, trackerVars, accountantVars, handlerVars,
       retryManagerVars, operatorVars, archiverVars, killVars, CreatorTypeOK, TrackerTypeOK,
       AccountantTypeOK, HandlerTypeOK, RetryManagerTypeOK, ArchiverTypeOK, KillTypeOK

LEMMA SubmitterTypes ==
  ASSUME TypeOK, SubmitStep \/ SubmitterCrash \/ Abort, SubmitterFrame, faults' \in Nat
  PROVE  TypeOK'
<1> DEFINE Mine == TableTypeOK /\ BossAirTypeOK /\ SubmitterTypeOK
<1> USE DEF TypeOK
<1>1. ASSUME SkipRefresh PROVE Mine'
  BY <1>1, CacheWithType DEF SkipRefresh, SubmitterTypeOK, TableTypeOK, BossAirTypeOK,
                             bossAirVars, tableVars
<1>2. ASSUME Refresh PROVE Mine'
  <2>0. PICK before, now \in Listed : \E keep \in Kept(before) :
           \E bad \in SUBSET (Readable(now) \ keep) :
           \E new \in SUBSET (Readable(now) \ (keep \cup bad)) :
              /\ cache' = CacheWith(keep \cap Readable(now), new)
              /\ badJobs' = {Now(j) : j \in bad}
              /\ step' = IF bad = {} THEN "assign" ELSE "bad"
    BY <1>2 DEF Refresh
  <2>1. TableTypeOK' /\ BossAirTypeOK'
    BY <1>2 DEF Refresh, TableTypeOK, BossAirTypeOK, bossAirVars, tableVars
  <2>2. badJobs' \subseteq Attempts
    BY <2>0 DEF Readable, InState, Now, Attempts, TableTypeOK
  <2>3. cache' \in [Jobs -> Nat \cup {NoJob}]
    BY <2>0, CacheWithType DEF SubmitterTypeOK, TableTypeOK
  <2>4. step' \in {"assign", "bad"} /\ UNCHANGED <<aborted, reported, accepted, rejected>>
    BY <1>2, <2>0 DEF Refresh
  <2> QED BY <2>1, <2>2, <2>3, <2>4 DEF SubmitterTypeOK
<1>3. ASSUME EndCycle PROVE Mine'
  BY <1>3, CacheWithType DEF EndCycle, SubmitterTypeOK, TableTypeOK, BossAirTypeOK,
                             bossAirVars, tableVars
<1>4. ASSUME CommitBatch PROVE Mine'
  <2>1. TableTypeOK'
    BY <1>4 DEF CommitBatch, TableTypeOK, States, FailedStates
  <2>2. BossAirTypeOK'
    BY <1>4, RowsWithType DEF CommitBatch, BossAirTypeOK, SubmitterTypeOK
  <2>3. SubmitterTypeOK'
    BY <1>4 DEF CommitBatch, SubmitterTypeOK
  <2> QED BY <2>1, <2>2, <2>3
<1>5. ASSUME NEW bad \in SUBSET badJobs, NEW saved \in SUBSET bad,
             NEW result \in {"retry", "noRetry"}, FailBadJobs(bad, saved, result)
      PROVE  Mine'
  <2>1. saved \subseteq Attempts /\ result \in Verdicts
    BY DEF SubmitterTypeOK, Verdicts
  <2>2. TableTypeOK'
    <3>1. "submitfailed" \in States
      BY DEF States, FailedStates
    <3> QED BY <1>5, <3>1, StateSetType DEF FailBadJobs, TableTypeOK
  <2>3. BossAirTypeOK'
    BY <1>5, <2>1, WrittenType DEF FailBadJobs, BossAirTypeOK
  <2>4. SubmitterTypeOK'
    BY <1>5, <2>1 DEF FailBadJobs, SubmitterTypeOK
  <2> QED BY <2>2, <2>3, <2>4
<1>10. ASSUME RegisterReports PROVE Mine'
  <2>1. \A s \in reported : s.retry \in Nat
    BY DEF SubmitterTypeOK, Attempts
  <2>2. TableTypeOK'
    BY <1>10, <2>1, PathSetType DEF RegisterReports, TableTypeOK
  <2> QED BY <1>10, <2>2 DEF RegisterReports, SubmitterTypeOK, BossAirTypeOK, bossAirVars
<1>6. ASSUME NEW batch \in SUBSET Cached, NEW good \in SUBSET batch, SubmitBatch(batch, good)
      PROVE  Mine'
  <2>1. \A j \in Cached : j \in Jobs /\ cache[j] \in Nat
    BY DEF Cached, SubmitterTypeOK
  <2>2. accepted' \subseteq Processes
    <3>1. PICK copy \in [good -> Copies] :
             accepted' = {[job |-> j, retry |-> cache[j], copy |-> copy[j], held |-> FALSE] :
                             j \in good}
      BY <1>6 DEF SubmitBatch
    <3>2. ASSUME NEW j \in good
          PROVE  [job |-> j, retry |-> cache[j], copy |-> copy[j], held |-> FALSE] \in Processes
      BY <2>1 DEF Processes
    <3> QED BY <3>1, <3>2
  <2>3. rejected' \subseteq Attempts
    BY <1>6, <2>1 DEF SubmitBatch, Attempts
  <2>4. cache' \in [Jobs -> Nat \cup {NoJob}]
    BY <1>6, CacheWithType DEF SubmitBatch, SubmitterTypeOK, TableTypeOK
  <2>5. step' = "commit" /\ UNCHANGED <<aborted, badJobs, reported, rows, reports, tableVars>>
        /\ queue' = queue \cup accepted'
    BY <1>6 DEF SubmitBatch
  <2> QED BY <2>2, <2>3, <2>4, <2>5 DEF SubmitterTypeOK, TableTypeOK, BossAirTypeOK, tableVars
<1>7. ASSUME SubmitterCrash PROVE Mine'
  <2>1. PICK saved \in SUBSET badJobs, result \in {"retry", "noRetry"} :
           reports' = Written(reports, saved, result)
    BY <1>7 DEF SubmitterCrash
  <2>2. saved \subseteq Attempts /\ result \in Verdicts
    BY <2>1 DEF SubmitterTypeOK, Verdicts
  <2>3. BossAirTypeOK'
    BY <1>7, <2>1, <2>2, WrittenType DEF SubmitterCrash, BossAirTypeOK
  <2> QED BY <1>7, <2>3 DEF SubmitterCrash, EmptyCache, SubmitterTypeOK, TableTypeOK, tableVars
<1>8. ASSUME Abort PROVE Mine'
  BY <1>8 DEF Abort, SubmitterTypeOK, TableTypeOK, BossAirTypeOK, submitterVars,
              bossAirVars, tableVars
<1>9. Mine'
  BY <1>1, <1>2, <1>3, <1>4, <1>5, <1>6, <1>7, <1>8, <1>10 DEF SubmitStep
<1> QED BY <1>9, SubmitterFrameTypes

LEMMA CreatorTypes ==
  ASSUME TypeOK, CreateStep \/ CreatorCrash, CreatorFrame, faults' \in Nat
  PROVE  TypeOK'
<1> DEFINE Mine == TableTypeOK /\ BossAirTypeOK /\ CreatorTypeOK
<1> USE DEF TypeOK
<1>1. ASSUME CreatorRead PROVE Mine'
  BY <1>1 DEF CreatorRead, InState, CreatorTypeOK, TableTypeOK, BossAirTypeOK,
              bossAirVars, tableVars
<1>2. ASSUME NEW bad \in SUBSET creating, NEW saved \in SUBSET bad, CreatorCommit(bad, saved)
      PROVE  Mine'
  <2>1. TableTypeOK'
    BY <1>2 DEF CreatorCommit, TableTypeOK, States, FailedStates
  <2>2. [job : saved, retry : {0}] \subseteq Attempts /\ "retry" \in Verdicts
    BY DEF Attempts, CreatorTypeOK, Verdicts
  <2>3. BossAirTypeOK'
    BY <1>2, <2>2, WrittenType DEF CreatorCommit, BossAirTypeOK
  <2> QED BY <1>2, <2>1, <2>3 DEF CreatorCommit, CreatorTypeOK
<1>3. ASSUME CreatorCrash PROVE Mine'
  BY <1>3 DEF CreatorCrash, CreatorTypeOK, TableTypeOK, BossAirTypeOK, bossAirVars, tableVars
<1>4. Mine'
  BY <1>1, <1>2, <1>3 DEF CreateStep
<1>5. SubmitterTypeOK' /\ TrackerTypeOK' /\ AccountantTypeOK' /\ HandlerTypeOK'
      /\ RetryManagerTypeOK' /\ ArchiverTypeOK' /\ KillTypeOK'
  BY DEF CreatorFrame, submitterVars, trackerVars, accountantVars, handlerVars,
         retryManagerVars, operatorVars, archiverVars, killVars, SubmitterTypeOK, TrackerTypeOK,
         AccountantTypeOK, HandlerTypeOK, RetryManagerTypeOK, ArchiverTypeOK, KillTypeOK
<1> QED BY <1>4, <1>5

(* The batch system and the status poller write only what is BossAir's.    *)
LEMMA BatchTypes ==
  ASSUME TypeOK, BatchStep, BatchFrame, faults' \in Nat
  PROVE  TypeOK'
<1> USE DEF TypeOK
<1> DEFINE Mine == TableTypeOK /\ BossAirTypeOK
<1>1. ASSUME NEW p \in queue, ProcessEnds(p) PROVE Mine'
  <2>1. {Attempt(p)} \subseteq Attempts
    BY AttemptType DEF BossAirTypeOK
  <2>2. JobResults \subseteq Verdicts
    BY DEF JobResults, Verdicts
  <2>3. reports' \subseteq Reports
    BY <1>1, <2>1, <2>2, WrittenType DEF ProcessEnds, BossAirTypeOK
  <2> QED BY <1>1, <2>3 DEF ProcessEnds, BossAirTypeOK, TableTypeOK, tableVars
<1>2. ASSUME NEW p \in queue, ProcessHeld(p) PROVE Mine'
  <2>1. [p EXCEPT !.held = ~p.held] \in Processes
    BY DEF Processes, BossAirTypeOK
  <2> QED BY <1>2, <2>1 DEF ProcessHeld, BossAirTypeOK, TableTypeOK, tableVars
<1>3. ASSUME Track PROVE Mine'
  <2> DEFINE over    == {x \in Active : Over(x)}
             missing == {Attempt(x) : x \in {y \in over : Of(reports, y) = {}}}
  <2>1. over \subseteq Rows /\ missing \subseteq Attempts
    BY AttemptType DEF Active, BossAirTypeOK
  <2>2. rows' \subseteq Rows
    BY <1>3, <2>1, DeactivatedType DEF Track, BossAirTypeOK
  <2>3. reports' \subseteq Reports
    <3>1. PICK told \in SUBSET missing : reports' = Written(reports, told, "retry")
      BY <1>3 DEF Track
    <3>2. told \subseteq Attempts /\ "retry" \in Verdicts
      BY <2>1, <3>1 DEF Verdicts
    <3> QED BY <3>1, <3>2, WrittenType DEF BossAirTypeOK
  <2> QED BY <1>3, <2>2, <2>3 DEF Track, BossAirTypeOK, TableTypeOK, tableVars
<1>4. ASSUME Timeout PROVE Mine'
  <2>1. PICK late \in SUBSET {x \in Active : ~Over(x)} :
           /\ queue' = queue \ UNION {ProcessOf(x) : x \in late}
           /\ rows' = Deactivated(rows, late)
           /\ reports' = KillReports({Attempt(x) : x \in late}, "timeout")
           /\ UNCHANGED tableVars
    BY <1>4 DEF Timeout
  <2>2. late \subseteq Rows
    BY <2>1 DEF Active, BossAirTypeOK
  <2>3. {Attempt(x) : x \in late} \subseteq Attempts /\ "timeout" \in Verdicts
    BY <2>2, AttemptType DEF Verdicts
  <2>4. rows' \subseteq Rows /\ reports' \subseteq Reports
    BY <2>1, <2>2, <2>3, DeactivatedType, KillReportsType DEF BossAirTypeOK
  <2> QED BY <2>1, <2>4 DEF BossAirTypeOK, TableTypeOK, tableVars
<1>5. Mine'
  BY <1>1, <1>2, <1>3, <1>4 DEF BatchStep
<1>6. CreatorTypeOK' /\ SubmitterTypeOK' /\ TrackerTypeOK' /\ AccountantTypeOK'
      /\ HandlerTypeOK' /\ RetryManagerTypeOK' /\ ArchiverTypeOK' /\ KillTypeOK'
  BY DEF BatchFrame, CreatorFrame, submitterVars, creatorVars, trackerVars, accountantVars,
         handlerVars, retryManagerVars, operatorVars, archiverVars, killVars, CreatorTypeOK,
         SubmitterTypeOK, TrackerTypeOK, AccountantTypeOK, HandlerTypeOK, RetryManagerTypeOK,
         ArchiverTypeOK, KillTypeOK
<1> QED BY <1>5, <1>6

LEMMA TrackerTypes ==
  ASSUME TypeOK, TrackStep \/ TrackerCrash, TrackerFrame, faults' \in Nat
  PROVE  TypeOK'
<1> USE DEF TypeOK
<1> DEFINE Mine == TableTypeOK /\ BossAirTypeOK /\ TrackerTypeOK
<1>1. ASSUME TrackerRead PROVE Mine'
  BY <1>1 DEF TrackerRead, CompleteRows, TrackerTypeOK, TableTypeOK, BossAirTypeOK,
              bossAirVars, tableVars
<1>2. ASSUME TrackerCommit PROVE Mine'
  <2>1. PICK settled \in SUBSET tracked, new \in {"jobfailed", "complete"},
             unloaded \in SUBSET {Attempt(x) : x \in tracked} :
           /\ state' = StateSet(JobsOf(settled), new)
           /\ path' = PathSet(settled)
           /\ reports' = Written(reports, unloaded, "retry")
           /\ tracked' = tracked \ settled
           /\ UNCHANGED <<retry, rows, queue>>
    <3> DEFINE passed   == {x \in tracked : ~x.timeout}
               settled  == IF passed = {} THEN tracked ELSE passed
               new      == IF passed = {} THEN "jobfailed" ELSE "complete"
               unloaded == {Attempt(x) : x \in {y \in settled \ passed : Of(reports, y) = {}}}
    <3>1. /\ settled \in SUBSET tracked
          /\ new \in {"jobfailed", "complete"}
          /\ unloaded \in SUBSET {Attempt(x) : x \in tracked}
      OBVIOUS
    <3> HIDE DEF settled, new, unloaded
    <3> QED BY <1>2, <3>1 DEF TrackerCommit, settled, new, unloaded
  <2>2. new \in States /\ "retry" \in Verdicts /\ \A s \in settled : s.retry \in Nat
    BY <2>1 DEF States, FailedStates, Verdicts, TrackerTypeOK, Rows
  <2>3. unloaded \subseteq Attempts
    BY AttemptType DEF TrackerTypeOK
  <2>4. TableTypeOK'
    BY <2>1, <2>2, StateSetType, PathSetType DEF TableTypeOK
  <2>5. BossAirTypeOK'
    BY <2>1, <2>2, <2>3, WrittenType DEF BossAirTypeOK
  <2> QED BY <2>1, <2>4, <2>5 DEF TrackerTypeOK
<1>3. ASSUME TrackerCrash PROVE Mine'
  BY <1>3 DEF TrackerCrash, TrackerTypeOK, TableTypeOK, BossAirTypeOK, bossAirVars, tableVars
<1>4. Mine'
  BY <1>1, <1>2, <1>3 DEF TrackStep
<1>5. SubmitterTypeOK' /\ CreatorTypeOK' /\ AccountantTypeOK' /\ HandlerTypeOK'
      /\ RetryManagerTypeOK' /\ ArchiverTypeOK' /\ KillTypeOK'
  BY DEF TrackerFrame, submitterVars, creatorVars, accountantVars, handlerVars,
         retryManagerVars, operatorVars, archiverVars, killVars, SubmitterTypeOK, CreatorTypeOK,
         AccountantTypeOK, HandlerTypeOK, RetryManagerTypeOK, ArchiverTypeOK, KillTypeOK
<1> QED BY <1>4, <1>5

LEMMA AccountantTypes ==
  ASSUME TypeOK, AccountStep \/ AccountantCrash, AccountantFrame, faults' \in Nat
  PROVE  TypeOK'
<1> USE DEF TypeOK
<1> DEFINE Mine == TableTypeOK /\ BossAirTypeOK /\ AccountantTypeOK
<1>1. ASSUME AccountantRead PROVE Mine'
  BY <1>1 DEF AccountantRead, InState, AccountantTypeOK, TableTypeOK, BossAirTypeOK,
              bossAirVars, tableVars
<1>2. ASSUME NEW slice \in SUBSET accounted, AccountantCommit(slice) PROVE Mine'
  <2>1. TableTypeOK'
    BY <1>2 DEF AccountantCommit, TableTypeOK, States, FailedStates
  <2> QED BY <1>2, <2>1 DEF AccountantCommit, BossAirTypeOK, AccountantTypeOK, bossAirVars
<1>3. ASSUME AccountantCrash PROVE Mine'
  BY <1>3 DEF AccountantCrash, AccountantTypeOK, TableTypeOK, BossAirTypeOK, bossAirVars, tableVars
<1>4. Mine'
  BY <1>1, <1>2, <1>3 DEF AccountStep
<1>5. SubmitterTypeOK' /\ CreatorTypeOK' /\ TrackerTypeOK' /\ HandlerTypeOK'
      /\ RetryManagerTypeOK' /\ ArchiverTypeOK' /\ KillTypeOK'
  BY DEF AccountantFrame, submitterVars, creatorVars, trackerVars, handlerVars,
         retryManagerVars, operatorVars, archiverVars, killVars, SubmitterTypeOK, CreatorTypeOK,
         TrackerTypeOK, HandlerTypeOK, RetryManagerTypeOK, ArchiverTypeOK, KillTypeOK
<1> QED BY <1>4, <1>5

(* What the error handler makes of a failed job is a state.                *)
LEMMA VerdictType ==
  ASSUME handling \in FailedStates, NEW s
  PROVE  Verdict(s) \in {"retrydone", "created"} \cup CooloffStates
<1>1. CooloffOf[handling] \in CooloffStates
  BY DEF CooloffOf, CooloffStates, FailedStates
<1> QED BY <1>1 DEF Verdict

LEMMA HandlerTypes ==
  ASSUME TypeOK, HandleStep \/ HandlerCrash, HandlerFrame, faults' \in Nat
  PROVE  TypeOK'
<1> USE DEF TypeOK
<1> DEFINE Mine == TableTypeOK /\ BossAirTypeOK /\ HandlerTypeOK
<1>1. ASSUME HandlerRead PROVE Mine'
  BY <1>1 DEF HandlerRead, InState, HandlerTypeOK, TableTypeOK, BossAirTypeOK,
              bossAirVars, tableVars
<1>2. ASSUME NEW slice \in SUBSET listed, HandlerLoad(slice) PROVE Mine'
  <2>1. \A j \in slice :
           [job |-> j, retry |-> retry[j], path |-> path[j]]
              \in [job : Jobs, retry : Nat, path : Nat \cup {NoPath}]
    BY DEF HandlerTypeOK, TableTypeOK
  <2> QED BY <1>2, <2>1 DEF HandlerLoad, HandlerTypeOK, TableTypeOK, BossAirTypeOK,
                            bossAirVars, tableVars
<1>3. ASSUME HandleFailed PROVE Mine'
  <2>1. handling \in FailedStates /\ UNCHANGED <<listed, retry, path, bossAirVars>>
        /\ loaded' = {} /\ handling' = StageAfter(listed)
    BY <1>3 DEF HandleFailed
  <2>2. \A j \in Jobs : Verdict(CHOOSE s \in loaded : s.job = j) \in States
    BY <2>1, VerdictType DEF States
  <2>3. state' \in [Jobs -> States]
    BY <1>3, <2>2 DEF HandleFailed, TableTypeOK
  <2> QED BY <2>1, <2>3 DEF HandlerTypeOK, TableTypeOK, BossAirTypeOK, bossAirVars, StageAfter
<1>4. ASSUME HandleRetryDone PROVE Mine'
  <2>1. "exhausted" \in States
    BY DEF States
  <2>2. state' \in [Jobs -> States]
    BY <1>4, <2>1, StateSetType DEF HandleRetryDone, TableTypeOK
  <2> QED BY <1>4, <2>2 DEF HandleRetryDone, HandlerTypeOK, TableTypeOK, BossAirTypeOK,
                            bossAirVars, StageAfter
<1>5. ASSUME HandlerCrash PROVE Mine'
  BY <1>5 DEF HandlerCrash, HandlerTypeOK, TableTypeOK, BossAirTypeOK, bossAirVars, tableVars
<1>6. Mine'
  BY <1>1, <1>2, <1>3, <1>4, <1>5 DEF HandleStep
<1>7. SubmitterTypeOK' /\ CreatorTypeOK' /\ TrackerTypeOK' /\ AccountantTypeOK'
      /\ RetryManagerTypeOK' /\ ArchiverTypeOK' /\ KillTypeOK'
  BY DEF HandlerFrame, submitterVars, creatorVars, trackerVars, accountantVars,
         retryManagerVars, operatorVars, archiverVars, killVars, SubmitterTypeOK, CreatorTypeOK,
         TrackerTypeOK, AccountantTypeOK, RetryManagerTypeOK, ArchiverTypeOK, KillTypeOK
<1> QED BY <1>6, <1>7

(* A job that cooled off is created again or paused.                       *)
LEMMA RetriedType ==
  ASSUME NEW s, s.state \in CooloffStates
  PROVE  Retried(s) \in {"created"} \cup PausedStates
<1>1. PauseOf[s.state] \in PausedStates
  BY DEF PauseOf, CooloffStates, PausedStates
<1> QED BY <1>1 DEF Retried

LEMMA RetryManagerTypes ==
  ASSUME TypeOK, RetryStep \/ RetryCrash \/ OperatorStep, RetryFrame, faults' \in Nat
  PROVE  TypeOK'
<1> USE DEF TypeOK
<1> DEFINE Mine == TableTypeOK /\ BossAirTypeOK /\ RetryManagerTypeOK
<1>1. ASSUME RetryRead PROVE Mine'
  <2>2. counts = {} /\ JobsOf({}) = {}
    BY <1>1 DEF RetryRead, JobsOf, RetryManagerTypeOK
  <2>1. \A j \in InState(CooloffStates) :
           [job |-> j, retry |-> retry[j], state |-> state[j]] \in Cooling
    BY DEF InState, Cooling, TableTypeOK
  <2> QED BY <1>1, <2>1, <2>2 DEF RetryRead, RetryManagerTypeOK, TableTypeOK, BossAirTypeOK,
                            bossAirVars, tableVars
<1>2. ASSUME RetryCommit PROVE Mine'
  <2>1. ASSUME NEW j \in JobsOf(counts)
        PROVE  (CHOOSE s \in cooling : s.job = j).state \in CooloffStates
    <3>1. j \in JobsOf(cooling)
      BY DEF RetryManagerTypeOK
    <3>2. (CHOOSE s \in cooling : s.job = j) \in cooling
      BY <3>1, SnapshotChosen
    <3> QED BY <3>2 DEF RetryManagerTypeOK, Cooling
  <2>2. ASSUME NEW j \in JobsOf(counts)
        PROVE  Retried(CHOOSE s \in cooling : s.job = j) \in States
    BY <2>1, RetriedType DEF States
  <2>3. state' \in [Jobs -> States]
    BY <1>2, <2>2 DEF RetryCommit, TableTypeOK
  <2>4. retry' \in [Jobs -> Nat]
    <3>1. \A s \in counts : s.retry \in Nat
      BY DEF RetryManagerTypeOK, Attempts
    <3> QED BY <1>2, <3>1, RetryWrittenType DEF RetryCommit, TableTypeOK
  <2>5. JobsOf({}) = {}
    BY DEF JobsOf
  <2> QED BY <1>2, <2>3, <2>4, <2>5 DEF RetryCommit, RetryManagerTypeOK, TableTypeOK,
                                        BossAirTypeOK, bossAirVars
<1>8. ASSUME NEW ready \in SUBSET MayBeReady, RetrySelect(ready) PROVE Mine'
  <2>1. JobsOf(ready) \subseteq Jobs /\ JobsOf(ready) \subseteq JobsOf(cooling)
    BY DEF JobsOf, MayBeReady, RetryManagerTypeOK, Cooling
  <2>2. {Now(j) : j \in JobsOf(ready)} \subseteq Attempts
    BY <2>1 DEF Now, Attempts, TableTypeOK
  <2>3. counts' \subseteq Attempts /\ JobsOf(counts') \subseteq JobsOf(cooling)
    BY <1>8, <2>1, <2>2 DEF RetrySelect, JobsOf, Now, RetryManagerTypeOK
  <2> QED BY <1>8, <2>3 DEF RetrySelect, RetryManagerTypeOK, JobsOf, TableTypeOK, BossAirTypeOK,
                            bossAirVars, tableVars
<1>3. ASSUME RetryCrash PROVE Mine'
  BY <1>3 DEF RetryCrash, JobsOf, RetryManagerTypeOK, TableTypeOK, BossAirTypeOK, bossAirVars, tableVars
<1>4. ASSUME OperatorLists PROVE Mine'
  BY <1>4 DEF OperatorLists, InState, JobsOf, retryManagerVars, RetryManagerTypeOK, TableTypeOK, BossAirTypeOK,
              bossAirVars, tableVars
<1>5. ASSUME NEW j \in chosen, NEW new \in {"created", "retrydone"}, OperatorMoves(j, new)
      PROVE  Mine'
  <2>1. new \in States
    BY DEF States
  <2>2. state' \in [Jobs -> States]
    BY <1>5, <2>1, StateSetType DEF OperatorMoves, TableTypeOK
  <2> QED BY <1>5, <2>2 DEF OperatorMoves, JobsOf, retryManagerVars, RetryManagerTypeOK, TableTypeOK, BossAirTypeOK,
                            bossAirVars
<1>6. Mine'
  BY <1>1, <1>2, <1>3, <1>4, <1>5, <1>8 DEF RetryStep, OperatorStep
<1>7. SubmitterTypeOK' /\ CreatorTypeOK' /\ TrackerTypeOK' /\ AccountantTypeOK'
      /\ HandlerTypeOK' /\ ArchiverTypeOK' /\ KillTypeOK'
  BY DEF RetryFrame, submitterVars, creatorVars, trackerVars, accountantVars, handlerVars,
         archiverVars, killVars, SubmitterTypeOK, CreatorTypeOK, TrackerTypeOK,
         AccountantTypeOK, HandlerTypeOK, ArchiverTypeOK, KillTypeOK
<1> QED BY <1>6, <1>7

LEMMA ArchiverTypes ==
  ASSUME TypeOK, ArchiveStep \/ ArchiverCrash, ArchiverFrame, faults' \in Nat
  PROVE  TypeOK'
<1> USE DEF TypeOK
<1> DEFINE Mine == TableTypeOK /\ BossAirTypeOK /\ ArchiverTypeOK
<1>1. Cleaned \subseteq Reports
  BY DEF Cleaned, BossAirTypeOK
<1>2. ASSUME ArchiverRead PROVE Mine'
  BY <1>2 DEF ArchiverRead, InState, ArchiverTypeOK, TableTypeOK, BossAirTypeOK,
              bossAirVars, tableVars
<1>3. ASSUME ArchiverCommit PROVE Mine'
  <2>1. "cleanout" \in States
    BY DEF States
  <2>2. state' \in [Jobs -> States]
    BY <1>3, <2>1, StateSetType DEF ArchiverCommit, TableTypeOK
  <2> QED BY <1>1, <1>3, <2>2 DEF ArchiverCommit, ArchiverTypeOK, TableTypeOK, BossAirTypeOK
<1>4. ASSUME ArchiverCrash PROVE Mine'
  BY <1>1, <1>4 DEF ArchiverCrash, ArchiverTypeOK, TableTypeOK, BossAirTypeOK, tableVars
<1>5. Mine'
  BY <1>2, <1>3, <1>4 DEF ArchiveStep
<1>6. SubmitterTypeOK' /\ CreatorTypeOK' /\ TrackerTypeOK' /\ AccountantTypeOK'
      /\ HandlerTypeOK' /\ RetryManagerTypeOK' /\ KillTypeOK'
  BY DEF ArchiverFrame, submitterVars, creatorVars, trackerVars, accountantVars, handlerVars,
         retryManagerVars, operatorVars, killVars, SubmitterTypeOK, CreatorTypeOK, TrackerTypeOK,
         AccountantTypeOK, HandlerTypeOK, RetryManagerTypeOK, KillTypeOK
<1> QED BY <1>5, <1>6

LEMMA KillTypes ==
  ASSUME TypeOK, KillStep \/ KillCrash, KillFrame, faults' \in Nat
  PROVE  TypeOK'
<1> USE DEF TypeOK
<1> DEFINE Mine == TableTypeOK /\ BossAirTypeOK /\ KillTypeOK /\ CreatorTypeOK /\ SubmitterTypeOK
<1>1. ASSUME KillRead PROVE Mine'
  <2>1. \A j \in Jobs : [job |-> j, retry |-> retry[j], state |-> state[j]]
                           \in [job : Jobs, retry : Nat, state : States]
    BY DEF TableTypeOK
  <2> QED BY <1>1, <2>1 DEF KillRead, KillFiles, KillTypeOK, TableTypeOK, BossAirTypeOK,
                            CreatorTypeOK, SubmitterTypeOK, submitterVars, creatorVars,
                            bossAirVars, tableVars
<1>2. ASSUME KillBatch PROVE Mine'
  <2> DEFINE A     == {Attempt(s) : s \in {k \in killList : k.state = "executing"}}
             found == {x \in rows : Attempt(x) \in A}
  <2>1. found \subseteq Rows /\ {Attempt(x) : x \in found} \subseteq Attempts
    BY AttemptType DEF BossAirTypeOK
  <2>2. /\ rows' = Deactivated(rows, found)
        /\ queue' \in {queue, {}}
        /\ reports' = KillReports({Attempt(x) : x \in found}, "retry")
        /\ UNCHANGED tableVars
    BY <1>2 DEF KillBatch, KillBatchJobs
  <2>3. "retry" \in Verdicts
    BY DEF Verdicts
  <2>4. BossAirTypeOK'
    BY <2>1, <2>2, <2>3, DeactivatedType, KillReportsType DEF BossAirTypeOK
  <2> QED BY <1>2, <2>2, <2>4 DEF KillBatch, KillTypeOK, TableTypeOK, CreatorTypeOK,
                                  SubmitterTypeOK, submitterVars, creatorVars, tableVars
<1>3. ASSUME KillIncrementRetry PROVE Mine'
  <2>1. \A s \in killGroup : s.retry \in Nat
    BY DEF KillTypeOK, Attempts
  <2>2. retry' \in [Jobs -> Nat]
    BY <1>3, <2>1, KillIncrementAssumption, RetryWrittenType DEF KillIncrementRetry, TableTypeOK
  <2> QED BY <1>3, <2>2 DEF KillIncrementRetry, KillTypeOK, TableTypeOK, BossAirTypeOK,
                            CreatorTypeOK, SubmitterTypeOK, submitterVars, creatorVars,
                            bossAirVars
<1>8. ASSUME NEW name \in States, KillSelect(name) PROVE Mine'
  <2>1. killGroup' \subseteq Attempts /\ killList' \subseteq killList /\ killStep' = "update"
    BY <1>8 DEF KillSelect, JobsOf, Now, Attempts, KillTypeOK, TableTypeOK
  <2> QED BY <1>8, <2>1 DEF KillSelect, KillTypeOK, TableTypeOK, BossAirTypeOK,
                            CreatorTypeOK, SubmitterTypeOK, submitterVars, creatorVars,
                            bossAirVars, tableVars
<1>4. ASSUME KillSetState PROVE Mine'
  <2>1. "killed" \in States
    BY DEF States
  <2>2. state' \in [Jobs -> States]
    BY <1>4, <2>1, StateSetType DEF KillSetState, TableTypeOK
  <2> QED BY <1>4, <2>2 DEF KillSetState, KillTypeOK, TableTypeOK, BossAirTypeOK,
                            CreatorTypeOK, SubmitterTypeOK, submitterVars, creatorVars,
                            bossAirVars
<1>5. ASSUME KillCrash PROVE Mine'
  BY <1>5 DEF KillCrash, KillTypeOK, TableTypeOK, BossAirTypeOK, CreatorTypeOK,
              SubmitterTypeOK, submitterVars, creatorVars, bossAirVars, tableVars
<1>6. Mine'
  BY <1>1, <1>2, <1>3, <1>4, <1>5, <1>8 DEF KillStep
<1>7. TrackerTypeOK' /\ AccountantTypeOK' /\ HandlerTypeOK' /\ RetryManagerTypeOK'
      /\ ArchiverTypeOK'
  BY DEF KillFrame, trackerVars, accountantVars, handlerVars, retryManagerVars, operatorVars,
         archiverVars, TrackerTypeOK, AccountantTypeOK, HandlerTypeOK, RetryManagerTypeOK,
         ArchiverTypeOK
<1> QED BY <1>6, <1>7

-----------------------------------------------------------------------------
(* Every variable has its type in every state the agent reaches: whatever  *)
(* the pollers, the batch system, the operators and a kill do, and whatever*)
(* crashes, the tables hold states of the state machine, retry counts that *)
(* are natural numbers, and rows, processes and reports of known jobs.     *)
LEMMA NextTypes ==
  ASSUME TypeOK, [Next]_vars
  PROVE  TypeOK'
<1>1. CASE Steps /\ UNCHANGED faults
  <2>1. faults' \in Nat
    BY <1>1 DEF TypeOK
  <2> QED BY <1>1, <2>1, SubmitterTypes, CreatorTypes, BatchTypes, TrackerTypes,
             AccountantTypes, HandlerTypes, RetryManagerTypes, ArchiverTypes, KillTypes DEF Steps
<1>2. CASE Crashes /\ faults < MaxFaults /\ faults' = faults + 1
  <2>1. faults' \in Nat
    BY <1>2 DEF TypeOK
  <2> QED BY <1>2, <2>1, SubmitterTypes, CreatorTypes, TrackerTypes, AccountantTypes,
             HandlerTypes, RetryManagerTypes, ArchiverTypes, KillTypes DEF Crashes
<1>3. CASE UNCHANGED vars
  <2>1. TableTypeOK' /\ BossAirTypeOK' /\ SubmitterTypeOK' /\ CreatorTypeOK'
        /\ TrackerTypeOK' /\ AccountantTypeOK'
    BY <1>3 DEF TypeOK, vars, tableVars, bossAirVars, submitterVars, creatorVars, trackerVars,
                accountantVars, TableTypeOK, BossAirTypeOK, SubmitterTypeOK, CreatorTypeOK,
                TrackerTypeOK, AccountantTypeOK
  <2>2. HandlerTypeOK' /\ RetryManagerTypeOK' /\ ArchiverTypeOK' /\ KillTypeOK'
    BY <1>3 DEF TypeOK, vars, handlerVars, retryManagerVars, operatorVars, archiverVars, killVars,
                HandlerTypeOK, RetryManagerTypeOK, ArchiverTypeOK, KillTypeOK
  <2> QED BY <1>3, <2>1, <2>2 DEF TypeOK, vars
<1> QED BY <1>1, <1>2, <1>3 DEF Next

THEOREM TypeCorrect == Spec => []TypeOK
<1>1. Init => TypeOK
  BY InitTypes
<1>2. TypeOK /\ [Next]_vars => TypeOK'
  BY NextTypes
<1> QED BY <1>1, <1>2, PTL DEF Spec
=============================================================================
