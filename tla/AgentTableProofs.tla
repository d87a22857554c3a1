--------------------------- MODULE AgentTableProofs --------------------------
(***************************************************************************)
(* The tables of the agent and the batch system agree, for every value of  *)
(* the constants.  The argument goes by what a step writes: ownership says *)
(* which jobs a step may write (OnlyIn) and that what it writes about them *)
(* is about their present attempt.  The rows, the reports and the processes*)
(* are three invariants on top of that one.  The kill, which needs none of *)
(* them, comes last.                                                       *)
(***************************************************************************)
EXTENDS AgentLifecycleProofs

Judged == {"complete", "success", "jobfailed"}

(* What RowsInv, JudgedByOwnReport and ProcessInv say while they say it.   *)
RowsWell ==
  /\ \A j \in InState({"executing"}) : Of(rows, Now(j)) # {}
  /\ \A x \in Active : state[x.job] = "executing" /\ retry[x.job] = x.retry
  /\ OneEach(rows) /\ OneEach(accepted)
  /\ JobsOf(accepted) \cap JobsOf(rejected) = {}
  /\ tracked \subseteq rows \ Active

ReportsWell == \A j \in InState(Judged) : path[j] = retry[j]

AttemptsBegun ==
  \A x \in rows : x.retry < retry[x.job] \/ (x.retry = retry[x.job] /\ state[x.job] \in Begun)

ProcessesWell ==
  /\ \A p \in queue \cup accepted : ~p.held
  /\ AttemptsBegun
  /\ \A p \in queue \ accepted : \E x \in Active : Attempt(x) = Attempt(p) /\ x.copy = p.copy

-----------------------------------------------------------------------------
(* What the operators on rows do.                                          *)

LEMMA DeactivatedRows ==
  ASSUME rows \subseteq Rows, NEW S \in SUBSET rows, rows' = Deactivated(rows, S)
  PROVE  /\ \A y \in rows' : \E x \in rows :
               /\ x.job = y.job /\ x.retry = y.retry /\ x.copy = y.copy
               /\ y.active => y = x /\ x \notin S
         /\ \A x \in rows : \E y \in rows' : x.job = y.job /\ x.retry = y.retry
         /\ OneEach(rows) => OneEach(rows)'
         /\ rows \ Active \subseteq rows' \ Active'
         /\ Active \ S \subseteq Active'
<1> DEFINE After(x) == IF x \in S THEN [x EXCEPT !.active = FALSE] ELSE x
<1>1. /\ \A y \in rows' : \E x \in rows : y = After(x)
      /\ \A x \in rows : After(x) \in rows'
  BY DEF Deactivated
<1>2. \A x \in rows : /\ After(x).job = x.job /\ After(x).retry = x.retry /\ After(x).copy = x.copy
                      /\ After(x).active => After(x) = x /\ x \notin S
                      /\ x.active = FALSE => After(x) = x
  BY DEF Rows
<1> HIDE DEF After
<1>3. OneEach(rows) => OneEach(rows)'
  BY <1>1, <1>2 DEF OneEach, Attempt
<1>4. \A x \in rows : x.active \in BOOLEAN
  BY DEF Rows
<1>5. rows \ Active \subseteq rows' \ Active'
  BY <1>1, <1>2, <1>4 DEF Active
<1>6. Active \ S \subseteq Active'
  BY DEF Active, Deactivated
<1> QED BY <1>1, <1>2, <1>3, <1>5, <1>6

LEMMA RowsWithNew ==
  ASSUME NEW new \in SUBSET Processes, rows' = RowsWith(new)
  PROVE  /\ rows \subseteq rows'
         /\ \A x \in rows' \ rows : \E p \in new :
               /\ Of(rows, p) = {}
               /\ x = [job |-> p.job, retry |-> p.retry, copy |-> p.copy,
                       active |-> TRUE, timeout |-> FALSE]
         /\ \A p \in new : Of(rows, p) = {} =>
               [job |-> p.job, retry |-> p.retry, copy |-> p.copy,
                active |-> TRUE, timeout |-> FALSE] \in rows'
BY DEF RowsWith

-----------------------------------------------------------------------------
(* What the steps do to the jobs.                                          *)

(* The error handler, which leaves retries and paths alone.                *)
LEMMA HandlerMoves ==
  ASSUME TypeOK, HandleStep \/ HandlerCrash
  PROVE  /\ retry' = retry /\ path' = path
         /\ \A j \in Jobs : \/ state'[j] = state[j]
                            \/ state'[j] \in {"retrydone", "created", "exhausted"} \cup CooloffStates
<1>1. CASE HandleFailed
  <2>1. handling \in FailedStates /\ retry' = retry /\ path' = path
        /\ state' = [j \in Jobs |-> IF j \in JobsOf(loaded)
                                    THEN Verdict(CHOOSE s \in loaded : s.job = j) ELSE state[j]]
    BY <1>1 DEF HandleFailed
  <2> QED BY <2>1, VerdictType
<1>2. CASE HandleRetryDone
  BY <1>2 DEF HandleRetryDone, StateSet
<1>3. CASE HandlerRead \/ HandlerCrash \/ \E slice \in SUBSET listed : HandlerLoad(slice)
  BY <1>3 DEF HandlerRead, HandlerCrash, HandlerLoad, tableVars
<1> QED BY <1>1, <1>2, <1>3 DEF HandleStep

(* The tracker, which finds no row marked as timed out.                    *)
LEMMA TrackerMoves ==
  ASSUME TypeOK, Tidy, TrackerCommit
  PROVE  /\ state' = StateSet(JobsOf(tracked), "complete")
         /\ path' = PathSet(tracked) /\ retry' = retry
         /\ tracked' = {} /\ UNCHANGED <<rows, queue>>
<1> DEFINE passed  == {x \in tracked : ~x.timeout}
           settled == IF passed = {} THEN tracked ELSE passed
           new     == IF passed = {} THEN "jobfailed" ELSE "complete"
<1>1. passed = tracked
  BY DEF Tidy, NeverMarked
<1>2. /\ settled # {} /\ state' = StateSet(JobsOf(settled), new) /\ path' = PathSet(settled)
      /\ tracked' = tracked \ settled /\ UNCHANGED <<retry, rows, queue>>
  BY DEF TrackerCommit
<1>3. settled = tracked /\ new = "complete"
  BY <1>1, <1>2
<1> HIDE DEF passed, settled, new
<1> QED BY <1>2, <1>3

-----------------------------------------------------------------------------
(* The rows.                                                               *)

LEMMA RowsKept ==
  ASSUME TypeOK, RowsWell, NEW names, OnlyIn(names), "executing" \notin names,
         \A j \in Jobs : state'[j] = "executing" => state[j] = "executing",
         UNCHANGED <<rows, tracked, accepted, rejected>>
  PROVE  RowsWell'
<1>1. \A x \in rows : x.job \in Jobs
  BY DEF TypeOK, BossAirTypeOK, Rows
<1>2. \A j \in InState({"executing"})' : Of(rows, Now(j))' # {}
  BY DEF RowsWell, InState, OnlyIn, Of, Now
<1>3. \A x \in Active' : (state[x.job] = "executing" /\ retry[x.job] = x.retry)'
  BY <1>1 DEF RowsWell, Active, OnlyIn
<1> QED BY <1>2, <1>3 DEF RowsWell, OneEach, JobsOf, Active

LEMMA CommitRows ==
  ASSUME TypeOK, Tidy, RowsWell, CommitBatch, UNCHANGED tracked
  PROVE  RowsWell'
<1>1. /\ rows' = RowsWith(accepted) /\ retry' = retry /\ accepted' = {} /\ rejected' = {}
      /\ state' = [j \in Jobs |-> IF j \in JobsOf(rejected) THEN "submitfailed"
                                  ELSE IF j \in JobsOf(accepted) THEN "executing" ELSE state[j]]
  BY DEF CommitBatch
<1>2. accepted \subseteq Processes /\ \A x \in rows : x.job \in Jobs
  BY DEF TypeOK, SubmitterTypeOK, BossAirTypeOK, Rows
<1>3. \A s \in accepted \cup rejected : state[s.job] = "created" /\ retry[s.job] = s.retry
  BY DEF Tidy, EveryoneOwns, SubmitterOwns, Waiting
<1>4. ASSUME NEW p \in accepted PROVE p.job \in Jobs /\ state'[p.job] = "executing"
  BY <1>1, <1>2, <1>4 DEF RowsWell, JobsOf, Processes
<1>5. ASSUME NEW j \in InState({"executing"})' PROVE Of(rows, Now(j))' # {}
  <2>1. CASE \E p \in accepted : p.job = j
    <3>1. PICK p \in accepted : p.job = j
      BY <2>1
    <3>2. p.retry = retry'[j]
      BY <1>1, <1>3, <3>1
    <3>3. \E x \in rows' : x.job = j /\ x.retry = p.retry
      <4>1. CASE Of(rows, p) = {}
        <5> DEFINE x == [job |-> p.job, retry |-> p.retry, copy |-> p.copy,
                         active |-> TRUE, timeout |-> FALSE]
        <5>1. x \in rows'
          BY <1>1, <1>2, <3>1, <4>1, RowsWithNew
        <5>2. x.job = j /\ x.retry = p.retry
          BY <3>1
        <5> QED BY <5>1, <5>2
      <4>2. ASSUME NEW x \in Of(rows, p) PROVE x \in rows' /\ x.job = j /\ x.retry = p.retry
        BY <1>1, <1>2, <3>1, <4>2, RowsWithNew DEF Of
      <4> QED BY <4>1, <4>2
    <3> QED BY <3>2, <3>3 DEF Of, Now
  <2>2. CASE ~\E p \in accepted : p.job = j
    <3>1. j \in InState({"executing"})
      BY <1>1, <1>5, <2>2 DEF InState, JobsOf
    <3> QED BY <1>1, <1>2, <3>1, RowsWithNew DEF RowsWell, Of, Now
  <2> QED BY <2>1, <2>2
<1>6. ASSUME NEW x \in Active' PROVE state'[x.job] = "executing" /\ retry'[x.job] = x.retry
  <2>1. CASE x \in rows
    <3>1. state[x.job] = "executing" /\ retry[x.job] = x.retry /\ x.job \in Jobs
      BY <1>2, <1>6, <2>1 DEF RowsWell, Active
    <3> QED BY <1>1, <1>3, <3>1 DEF JobsOf
  <2>2. CASE x \notin rows
    <3>1. PICK p \in accepted : x.job = p.job /\ x.retry = p.retry
      BY <1>1, <1>2, <1>6, <2>2, RowsWithNew DEF Active
    <3> QED BY <1>1, <1>3, <1>4, <3>1
  <2> QED BY <2>1, <2>2
<1>7. OneEach(rows)'
  <2> SUFFICES ASSUME NEW x \in rows', NEW y \in rows', Attempt(x) = Attempt(y) PROVE x = y
    BY DEF OneEach, Attempt
  <2>1. x.job = y.job /\ x.retry = y.retry
    BY DEF Attempt
  <2>2. CASE x \in rows /\ y \in rows
    BY <2>2 DEF RowsWell, OneEach
  <2>3. CASE x \notin rows /\ y \notin rows
    <3>1. PICK p \in accepted : x = [job |-> p.job, retry |-> p.retry, copy |-> p.copy,
                                     active |-> TRUE, timeout |-> FALSE]
      BY <1>1, <1>2, <2>3, RowsWithNew
    <3>2. PICK q \in accepted : y = [job |-> q.job, retry |-> q.retry, copy |-> q.copy,
                                     active |-> TRUE, timeout |-> FALSE]
      BY <1>1, <1>2, <2>3, RowsWithNew
    <3>3. p = q
      BY <2>1, <3>1, <3>2 DEF RowsWell, OneEach, Attempt
    <3> QED BY <3>1, <3>2, <3>3
  <2>4. ~(x \in rows /\ y \notin rows) /\ ~(x \notin rows /\ y \in rows)
    BY <1>1, <1>2, <2>1, RowsWithNew DEF Of
  <2> QED BY <2>2, <2>3, <2>4
<1>8. tracked' \subseteq rows' \ Active'
  BY <1>1, <1>2, RowsWithNew DEF RowsWell, Active
<1> QED BY <1>1, <1>5, <1>6, <1>7, <1>8 DEF RowsWell, OneEach, JobsOf

LEMMA SubmitterRows ==
  ASSUME TypeOK, Tidy, RowsWell, SubmitStep \/ SubmitterCrash \/ Abort, SubmitterFrame
  PROVE  RowsWell'
<1>1. OnlyIn({"created"}) /\ UNCHANGED tracked
  BY SubmitterStepTidy DEF SubmitterFrame, trackerVars
<1>2. ASSUME UNCHANGED tableVars, UNCHANGED rows, OneEach(accepted)',
             (JobsOf(accepted) \cap JobsOf(rejected) = {})'
      PROVE  RowsWell'
  BY <1>1, <1>2 DEF RowsWell, tableVars, InState, Of, Now, Active, OneEach
<1>3. CASE SkipRefresh \/ Refresh \/ EndCycle \/ Abort
  BY <1>2, <1>3 DEF SkipRefresh, Refresh, EndCycle, Abort, submitterVars, bossAirVars, RowsWell,
                    OneEach, JobsOf
<1>4. CASE SubmitterCrash
  BY <1>2, <1>4 DEF SubmitterCrash, OneEach, JobsOf
<1>5. ASSUME NEW bad, NEW saved, NEW result, FailBadJobs(bad, saved, result) PROVE RowsWell'
  <2>1. \A j \in Jobs : state'[j] = "executing" => state[j] = "executing"
    BY <1>5 DEF FailBadJobs, StateSet
  <2> QED BY <1>1, <1>5, <2>1, RowsKept DEF FailBadJobs
<1>6. ASSUME NEW batch, NEW good, SubmitBatch(batch, good) PROVE RowsWell'
  <2>1. PICK copy : accepted' = {[job |-> j, retry |-> cache[j], copy |-> copy[j], held |-> FALSE]
                                   : j \in good}
    BY <1>6 DEF SubmitBatch
  <2>2. rejected' = {[job |-> j, retry |-> cache[j]] : j \in batch \ good}
    BY <1>6 DEF SubmitBatch
  <2>3. ASSUME NEW p \in accepted', NEW q \in accepted', Attempt(p) = Attempt(q) PROVE p = q
    <3>1. p.job = q.job
      BY <2>3 DEF Attempt
    <3>2. PICK j \in good : p = [job |-> j, retry |-> cache[j], copy |-> copy[j], held |-> FALSE]
      BY <2>1
    <3>3. PICK k \in good : q = [job |-> k, retry |-> cache[k], copy |-> copy[k], held |-> FALSE]
      BY <2>1
    <3>4. j = k
      BY <3>1, <3>2, <3>3
    <3> QED BY <3>2, <3>3, <3>4
  <2>4. OneEach(accepted)'
    BY <2>3 DEF OneEach, Attempt
  <2>5. (JobsOf(accepted) \cap JobsOf(rejected) = {})'
    BY <2>1, <2>2 DEF JobsOf
  <2> QED BY <1>2, <1>6, <2>4, <2>5 DEF SubmitBatch
<1>7. CASE CommitBatch
  BY <1>1, <1>7, CommitRows
<1>8. CASE RegisterReports
  BY <1>1, <1>8, RowsKept DEF RegisterReports, bossAirVars
<1> QED BY <1>3, <1>4, <1>5, <1>6, <1>7, <1>8 DEF SubmitStep

LEMMA BatchRows ==
  ASSUME TypeOK, Tidy, RowsWell, BatchStep, BatchFrame
  PROVE  RowsWell'
<1>1. UNCHANGED <<tracked, accepted, rejected>>
  BY DEF BatchFrame, CreatorFrame, trackerVars, submitterVars
<1>2. UNCHANGED tableVars
  BY DEF BatchStep, Track, Timeout, ProcessEnds, ProcessHeld
<1>3. CASE UNCHANGED rows
  BY <1>1, <1>2, <1>3 DEF RowsWell, tableVars, InState, Of, Now, Active, OneEach, JobsOf
<1>4. ASSUME NEW S \in SUBSET rows, rows' = Deactivated(rows, S) PROVE RowsWell'
  <2>1. rows \subseteq Rows
    BY DEF TypeOK, BossAirTypeOK
  <2>2. \A j \in InState({"executing"})' : Of(rows, Now(j))' # {}
    BY <1>2, <1>4, <2>1, DeactivatedRows DEF RowsWell, tableVars, InState, Of, Now
  <2>3. \A x \in Active' : (state[x.job] = "executing" /\ retry[x.job] = x.retry)'
    BY <1>2, <1>4, <2>1, DeactivatedRows DEF RowsWell, tableVars, Active
  <2>4. OneEach(rows)' /\ rows \ Active \subseteq rows' \ Active'
    BY <1>4, <2>1, DeactivatedRows DEF RowsWell
  <2> QED BY <1>1, <2>2, <2>3, <2>4 DEF RowsWell, OneEach, JobsOf
<1>5. UNCHANGED rows \/ \E S \in SUBSET rows : rows' = Deactivated(rows, S)
  <2>1. Active \subseteq rows
    BY DEF Active
  <2> QED BY <2>1 DEF BatchStep, Track, Timeout, ProcessEnds, ProcessHeld
<1> QED BY <1>3, <1>4, <1>5

LEMMA TrackerRows ==
  ASSUME TypeOK, Tidy, RowsWell, TrackStep \/ TrackerCrash, TrackerFrame
  PROVE  RowsWell'
<1>1. UNCHANGED <<accepted, rejected>>
  BY DEF TrackerFrame, submitterVars
<1>2. CASE TrackerRead
  BY <1>1, <1>2 DEF TrackerRead, bossAirVars, tableVars, CompleteRows, RowsWell, InState, Of, Now,
                    Active, OneEach, JobsOf
<1>3. CASE TrackerCrash
  BY <1>1, <1>3 DEF TrackerCrash, bossAirVars, tableVars, RowsWell, InState, Of, Now,
                    Active, OneEach, JobsOf
<1>4. CASE TrackerCommit
  <2>1. /\ state' = [j \in Jobs |-> IF j \in JobsOf(tracked) THEN "complete" ELSE state[j]]
        /\ retry' = retry /\ tracked' = {} /\ rows' = rows
    BY <1>4, TrackerMoves DEF StateSet
  <2>2. ASSUME NEW x \in Active PROVE x.job \in Jobs \ JobsOf(tracked)
    <3>1. x.job \in Jobs
      BY DEF Active, TypeOK, BossAirTypeOK, Rows
    <3>2. \A y \in tracked : retry[y.job] = y.retry /\ y \in rows /\ y \notin Active
      BY DEF Tidy, EveryoneOwns, TrackerOwns, RowsWell
    <3>3. x \in rows /\ retry[x.job] = x.retry
      BY DEF Active, RowsWell
    <3>4. \A y \in tracked : y.job # x.job
      BY <3>2, <3>3 DEF RowsWell, OneEach, Attempt
    <3> QED BY <3>1, <3>4 DEF JobsOf
  <2>3. \A x \in Active' : (state[x.job] = "executing" /\ retry[x.job] = x.retry)'
    BY <2>1, <2>2 DEF RowsWell, Active
  <2>4. \A j \in InState({"executing"})' : Of(rows, Now(j))' # {}
    BY <2>1 DEF RowsWell, InState, Of, Now
  <2> QED BY <1>1, <2>1, <2>3, <2>4 DEF RowsWell, OneEach, JobsOf
<1> QED BY <1>2, <1>3, <1>4 DEF TrackStep

(* RowsWell, step by step.                                                 *)
LEMMA NextRows ==
  ASSUME TypeOK, Tidy, Pristine', RowsWell, [Next]_vars
  PROVE  RowsWell'
<1> DEFINE Quiet1 == UNCHANGED <<rows, tracked, accepted, rejected>>
<1>1. ~KillStep /\ ~KillCrash
  BY KillStepNotPristine
<1>2. ASSUME NEW names, OnlyIn(names), {"executing", "created"} \cap names = {}, Legal, Quiet1
      PROVE  RowsWell'
  <2>1. \A j \in Jobs : state'[j] = "executing" => state[j] = "executing"
    BY <1>2 DEF TypeOK, TableTypeOK, Legal, OnlyIn, Transitions, States, FailedStates, CooloffStates,
                PausedStates
  <2> QED BY <1>2, <2>1, RowsKept
<1>3. ASSUME CreateStep \/ CreatorCrash, CreatorFrame PROVE RowsWell'
  <2>1. Quiet1
    BY <1>3 DEF CreateStep, CreatorRead, CreatorCommit, CreatorCrash, CreatorFrame, bossAirVars,
                trackerVars, submitterVars
  <2> QED BY <1>2, <1>3, <2>1, CreatorStepTidy
<1>4. ASSUME AccountStep \/ AccountantCrash, AccountantFrame PROVE RowsWell'
  <2>1. Quiet1
    BY <1>4 DEF AccountStep, AccountantRead, AccountantCommit, AccountantCrash, AccountantFrame,
                bossAirVars, trackerVars, submitterVars
  <2> QED BY <1>2, <1>4, <2>1, AccountantStepTidy
<1>5. ASSUME RetryStep \/ RetryCrash \/ OperatorStep, RetryFrame PROVE RowsWell'
  <2>1. Quiet1
    BY <1>5 DEF RetryStep, RetryRead, RetrySelect, RetryCommit, RetryCrash, OperatorStep, OperatorLists,
                OperatorMoves, RetryFrame, bossAirVars, trackerVars, submitterVars
  <2>2. {"executing", "created"} \cap (CooloffStates \cup PausedStates) = {}
    BY DEF CooloffStates, PausedStates
  <2> QED BY <1>2, <1>5, <2>1, <2>2, RetryManagerStepTidy
<1>6. ASSUME ArchiveStep \/ ArchiverCrash, ArchiverFrame PROVE RowsWell'
  <2>1. Quiet1
    BY <1>6 DEF ArchiveStep, ArchiverRead, ArchiverCommit, ArchiverCrash, ArchiverFrame,
                bossAirVars, trackerVars, submitterVars
  <2> QED BY <1>2, <1>6, <2>1, ArchiverStepTidy
<1>7. ASSUME HandleStep \/ HandlerCrash, HandlerFrame PROVE RowsWell'
  <2>1. Quiet1
    BY <1>7 DEF HandleStep, HandlerRead, HandlerLoad, HandleFailed, HandleRetryDone, HandlerCrash,
                HandlerFrame, bossAirVars, trackerVars, submitterVars
  <2>2. OnlyIn(FailedStates \cup {"retrydone"})
    BY <1>7, HandlerStepTidy
  <2>3. \A j \in Jobs : state'[j] = "executing" => state[j] = "executing"
    BY <1>7, HandlerMoves DEF CooloffStates
  <2> QED BY <2>1, <2>2, <2>3, RowsKept DEF FailedStates
<1>8. CASE UNCHANGED vars
  <2>1. Quiet1 /\ UNCHANGED tableVars
    BY <1>8 DEF vars, bossAirVars, trackerVars, submitterVars
  <2>2. Legal /\ OnlyIn({})
    BY <2>1, QuietStep
  <2> QED BY <1>2, <2>1, <2>2
<1> QED BY <1>1, <1>3, <1>4, <1>5, <1>6, <1>7, <1>8, SubmitterRows, BatchRows, TrackerRows
        DEF Next, Steps, Crashes

-----------------------------------------------------------------------------
(* The reports.                                                            *)

LEMMA ReportsKept ==
  ASSUME TypeOK, LateReports, ReportsWell, Legal,
         NEW names, OnlyIn(names), "executing" \notin names,
         path' = path \/ Judged \cap names = {}
  PROVE  ReportsWell'
<1> SUFFICES ASSUME NEW j \in Jobs, state'[j] \in Judged PROVE path'[j] = retry'[j]
  BY DEF ReportsWell, InState
<1>1. state[j] \in States /\ retry[j] \in Nat
  BY DEF TypeOK, TableTypeOK
<1>2. CASE state'[j] = state[j] /\ retry'[j] = retry[j]
  BY <1>2 DEF LateReports, ReportsWell, InState, Judged, OnlyIn
<1>3. CASE /\ state'[j] \in Transitions[state[j]] \ {"killed"}
           /\ retry'[j] = retry[j] + RetryIncrement(state[j], state'[j])
  <2>1. state[j] \in {"executing", "complete"}
    BY <1>1, <1>3 DEF Judged, Transitions, States, FailedStates, CooloffStates, PausedStates
  <2>2. retry'[j] = retry[j]
    BY <1>1, <1>3, <2>1, FreeMove DEF CooloffStates
  <2> QED BY <2>1, <2>2 DEF LateReports, ReportsWell, InState, Judged, OnlyIn
<1> QED BY <1>2, <1>3 DEF Legal

LEMMA TrackerReports ==
  ASSUME TypeOK, Tidy, ReportsWell, TrackerCommit
  PROVE  ReportsWell'
<1>1. /\ state' = [j \in Jobs |-> IF j \in JobsOf(tracked) THEN "complete" ELSE state[j]]
      /\ path' = PathSet(tracked) /\ retry' = retry
  BY TrackerMoves DEF StateSet
<1>2. ASSUME NEW j \in Jobs, j \in JobsOf(tracked) PROVE path'[j] = retry'[j]
  <2> DEFINE x == CHOOSE x \in tracked : x.job = j
  <2>1. x \in tracked /\ x.job = j
    BY <1>2, SnapshotChosen
  <2>2. path'[j] = x.retry
    BY <1>1, <1>2 DEF PathSet, CountIn
  <2> HIDE DEF x
  <2> QED BY <1>1, <2>1, <2>2 DEF Tidy, EveryoneOwns, TrackerOwns
<1>3. ASSUME NEW j \in Jobs, j \notin JobsOf(tracked), state'[j] \in Judged PROVE path'[j] = retry'[j]
  BY <1>1, <1>3 DEF PathSet, ReportsWell, InState
<1> QED BY <1>2, <1>3 DEF ReportsWell, InState

LEMMA NextReports ==
  ASSUME TypeOK, Tidy, Pristine', ReportsWell, [Next]_vars
  PROVE  ReportsWell'
<1>1. ~KillStep /\ ~KillCrash
  BY KillStepNotPristine
<1>2. ASSUME SubmitStep \/ SubmitterCrash \/ Abort, SubmitterFrame PROVE ReportsWell'
  BY <1>2, SubmitterStepTidy, ReportsKept DEF Tidy, Judged
<1>3. ASSUME CreateStep \/ CreatorCrash, CreatorFrame PROVE ReportsWell'
  BY <1>3, CreatorStepTidy, ReportsKept DEF Tidy, Judged
<1>4. ASSUME BatchStep, BatchFrame PROVE ReportsWell'
  BY <1>4, BatchStepTidy, ReportsKept DEF Tidy, Judged
<1>5. ASSUME TrackStep \/ TrackerCrash, TrackerFrame PROVE ReportsWell'
  <2>1. CASE TrackerRead \/ TrackerCrash
    BY <2>1 DEF TrackerRead, TrackerCrash, tableVars, ReportsWell, InState
  <2> QED BY <1>5, <2>1, TrackerReports DEF TrackStep
<1>6. ASSUME AccountStep \/ AccountantCrash, AccountantFrame PROVE ReportsWell'
  <2>1. path' = path
    BY <1>6 DEF AccountStep, AccountantRead, AccountantCommit, AccountantCrash, tableVars
  <2>2. Legal /\ OnlyIn({"complete"})
    BY <1>6, AccountantStepTidy
  <2> QED BY <2>1, <2>2, ReportsKept DEF Tidy
<1>7. ASSUME RetryStep \/ RetryCrash \/ OperatorStep, RetryFrame PROVE ReportsWell'
  <2>1. /\ "executing" \notin CooloffStates \cup PausedStates
        /\ "complete" \notin CooloffStates \cup PausedStates
        /\ Judged \cap (CooloffStates \cup PausedStates) = {}
    BY DEF CooloffStates, PausedStates, Judged
  <2> QED BY <1>7, <2>1, RetryManagerStepTidy, ReportsKept DEF Tidy
<1>8. ASSUME ArchiveStep \/ ArchiverCrash, ArchiverFrame PROVE ReportsWell'
  <2>1. path' = path
    BY <1>8 DEF ArchiveStep, ArchiverRead, ArchiverCommit, ArchiverCrash, tableVars
  <2>2. Legal /\ OnlyIn({"success", "exhausted"})
    BY <1>8, ArchiverStepTidy
  <2> QED BY <2>1, <2>2, ReportsKept DEF Tidy
<1>9. ASSUME HandleStep \/ HandlerCrash PROVE ReportsWell'
  BY <1>9, HandlerMoves DEF ReportsWell, InState, Judged, CooloffStates
<1>10. CASE UNCHANGED vars
  BY <1>10 DEF vars, tableVars, ReportsWell, InState
<1> QED BY <1>1, <1>2, <1>3, <1>4, <1>5, <1>6, <1>7, <1>8, <1>9, <1>10 DEF Next, Steps, Crashes

(* Until a kill begins, the table of the batch system and the one of WMBS  *)
(* agree: an executing job has the row of its attempt, an active row is of *)
(* an executing job's attempt, an attempt has one row.                     *)
THEOREM RowsInvariant == Spec => []RowsInv
<1>1. Pristine => (RowsInv <=> RowsWell)
  BY DEF RowsInv, RowsAgree, RowsWell
<1>2. ~Pristine => RowsInv
  BY DEF RowsInv, RowsAgree
<1>3. Init => RowsInv
  BY DEF Init, TableInit, BossAirInit, SubmitterInit, TrackerInit, RowsInv, RowsAgree, InState,
         Active, OneEach, JobsOf
<1>4. TypeOK /\ OwnershipInv /\ RowsInv /\ [Next]_vars => RowsInv'
  <2> SUFFICES ASSUME TypeOK, OwnershipInv, RowsInv, [Next]_vars, Pristine' PROVE RowsWell'
    BY DEF RowsInv, RowsAgree, RowsWell
  <2>1. Pristine
    BY PristineBefore
  <2>2. Tidy
    BY <2>1 DEF OwnershipInv, Tidy
  <2> QED BY <1>1, <2>1, <2>2, NextRows
<1> QED BY <1>3, <1>4, OwnershipInvariant, PTL DEF Spec

(* So a job that executes is always found by the tracker in the end, and   *)
(* none that is through is found again, whatever crashed in between.       *)
THEOREM RowsAgreeHolds == Spec => []RowsAgree
<1>1. RowsInv => RowsAgree
  BY DEF RowsInv
<1> QED BY <1>1, RowsInvariant, PTL

(* Until a kill begins, a job that ran is judged by the report of the      *)
(* attempt that ran, however often it is retried, resubmitted by its exit  *)
(* code or paused, and whichever component crashes.                        *)
THEOREM ReportsAreOwn == Spec => []JudgedByOwnReport
<1>1. Init => JudgedByOwnReport
  BY DEF Init, TableInit, JudgedByOwnReport, InState
<1>2. TypeOK /\ OwnershipInv /\ JudgedByOwnReport /\ [Next]_vars => JudgedByOwnReport'
  <2> SUFFICES ASSUME TypeOK, OwnershipInv, JudgedByOwnReport, [Next]_vars, Pristine' PROVE ReportsWell'
    BY DEF JudgedByOwnReport, ReportsWell, Judged
  <2>1. Pristine
    BY PristineBefore
  <2>2. Tidy /\ ReportsWell
    BY <2>1 DEF OwnershipInv, Tidy, JudgedByOwnReport, ReportsWell, Judged
  <2> QED BY <2>2, NextReports
<1> QED BY <1>1, <1>2, OwnershipInvariant, PTL DEF Spec

-----------------------------------------------------------------------------
(* The batch system.                                                       *)

(* A legal step leaves an attempt that has begun behind, or where it may   *)
(* have a row.                                                             *)
LEMMA LegalBegun ==
  ASSUME TypeOK, Legal, NEW j \in Jobs, NEW r \in Nat,
         r < retry[j] \/ (r = retry[j] /\ state[j] \in Begun)
  PROVE  r < retry'[j] \/ (r = retry'[j] /\ state'[j] \in Begun)
<1>1. retry[j] \in Nat /\ state[j] \in States
  BY DEF TypeOK, TableTypeOK
<1>2. CASE state'[j] = state[j] /\ retry'[j] = retry[j]
  BY <1>2
<1>3. CASE /\ state'[j] \in Transitions[state[j]] \ {"killed"}
           /\ retry'[j] = retry[j] + RetryIncrement(state[j], state'[j])
  <2>1. CASE state[j] \in CooloffStates
    <3>1. RetryIncrement(state[j], state'[j]) = 1
      BY <1>3, <2>1 DEF RetryIncrement
    <3> QED BY <1>1, <1>3, <3>1
  <2>2. CASE state[j] \notin CooloffStates
    <3>1. retry'[j] = retry[j]
      BY <1>1, <1>3, <2>2, FreeMove
    <3>2. state[j] \in Begun => state'[j] \in Begun
      BY <1>3, <2>2 DEF Begun, Transitions, CooloffStates
    <3> QED BY <3>1, <3>2
  <2> QED BY <2>1, <2>2
<1> QED BY <1>2, <1>3 DEF Legal

LEMMA ProcessesKept ==
  ASSUME TypeOK, ProcessesWell, Legal, UNCHANGED <<rows, queue, accepted>>
  PROVE  ProcessesWell'
<1>1. \A x \in rows : x.job \in Jobs /\ x.retry \in Nat
  BY DEF TypeOK, BossAirTypeOK, Rows
<1>2. AttemptsBegun'
  BY <1>1, LegalBegun DEF ProcessesWell, AttemptsBegun
<1> QED BY <1>2 DEF ProcessesWell, Active

LEMMA CommitProcesses ==
  ASSUME TypeOK, Tidy, RowsWell, ProcessesWell, Legal, CommitBatch
  PROVE  ProcessesWell'
<1>1. /\ rows' = RowsWith(accepted) /\ retry' = retry /\ queue' = queue /\ accepted' = {}
      /\ state' = [j \in Jobs |-> IF j \in JobsOf(rejected) THEN "submitfailed"
                                  ELSE IF j \in JobsOf(accepted) THEN "executing" ELSE state[j]]
  BY DEF CommitBatch
<1>2. accepted \subseteq Processes /\ \A x \in rows : x.job \in Jobs /\ x.retry \in Nat
  BY DEF TypeOK, SubmitterTypeOK, BossAirTypeOK, Rows
<1>3. \A p \in accepted : state[p.job] = "created" /\ retry[p.job] = p.retry
  BY DEF Tidy, EveryoneOwns, SubmitterOwns, Waiting
<1>4. \A p \in accepted : p.job \in Jobs /\ state'[p.job] = "executing"
  BY <1>1, <1>2 DEF RowsWell, JobsOf, Processes
<1>5. \A p \in accepted : Of(rows, p) = {}
  <2> SUFFICES ASSUME NEW p \in accepted, NEW x \in rows, x.job = p.job, x.retry = p.retry PROVE FALSE
    BY DEF Of
  <2>1. x.retry = retry[x.job] /\ state[x.job] = "created" /\ retry[x.job] \in Nat
    BY <1>2, <1>3 DEF TypeOK, TableTypeOK
  <2>2. ~(x.retry < retry[x.job])
    BY <2>1
  <2> QED BY <2>1, <2>2 DEF ProcessesWell, AttemptsBegun, Begun
<1>6. ASSUME NEW x \in rows'
      PROVE  x.retry < retry'[x.job] \/ (x.retry = retry'[x.job] /\ state'[x.job] \in Begun)
  <2>1. CASE x \in rows
    BY <1>2, <2>1, LegalBegun DEF ProcessesWell, AttemptsBegun
  <2>2. CASE x \notin rows
    <3>1. PICK p \in accepted : x.job = p.job /\ x.retry = p.retry
      BY <1>1, <1>2, <1>6, <2>2, RowsWithNew
    <3> QED BY <1>1, <1>3, <1>4, <3>1 DEF Begun
  <2> QED BY <2>1, <2>2
<1>7. ASSUME NEW p \in queue
      PROVE  \E x \in Active' : Attempt(x) = Attempt(p) /\ x.copy = p.copy
  <2>1. CASE p \in accepted
    <3> DEFINE x == [job |-> p.job, retry |-> p.retry, copy |-> p.copy,
                     active |-> TRUE, timeout |-> FALSE]
    <3>1. x \in rows'
      BY <1>1, <1>2, <1>5, <2>1, RowsWithNew
    <3>2. x.active /\ Attempt(x) = Attempt(p) /\ x.copy = p.copy
      BY DEF Attempt
    <3> HIDE DEF x
    <3> QED BY <3>1, <3>2 DEF Active
  <2>2. CASE p \notin accepted
    <3>1. PICK x \in Active : Attempt(x) = Attempt(p) /\ x.copy = p.copy
      BY <1>7, <2>2 DEF ProcessesWell
    <3>2. x \in Active'
      BY <1>1, <1>2, RowsWithNew DEF Active
    <3> QED BY <3>1, <3>2
  <2> QED BY <2>1, <2>2
<1> QED BY <1>1, <1>6, <1>7 DEF ProcessesWell, AttemptsBegun

LEMMA SubmitterProcesses ==
  ASSUME TypeOK, Tidy, RowsWell, ProcessesWell, SubmitStep \/ Abort, SubmitterFrame
  PROVE  ProcessesWell'
<1>1. Legal
  BY SubmitterStepTidy
<1>2. CASE \/ SkipRefresh \/ Refresh \/ RegisterReports \/ EndCycle \/ Abort
           \/ \E bad \in SUBSET badJobs :
                 \E saved \in SUBSET bad, result \in {"retry", "noRetry"} : FailBadJobs(bad, saved, result)
  <2>1. UNCHANGED <<rows, queue, accepted>>
    BY <1>2 DEF SkipRefresh, Refresh, RegisterReports, EndCycle, Abort, FailBadJobs, submitterVars,
                bossAirVars
  <2> QED BY <1>1, <2>1, ProcessesKept
<1>3. ASSUME NEW batch, NEW good, SubmitBatch(batch, good) PROVE ProcessesWell'
  <2>1. PICK copy : accepted' = {[job |-> j, retry |-> cache[j], copy |-> copy[j], held |-> FALSE]
                                   : j \in good}
    BY <1>3 DEF SubmitBatch
  <2>2. queue' = queue \cup accepted' /\ UNCHANGED <<rows, tableVars>> /\ accepted = {}
    BY <1>3 DEF SubmitBatch, Tidy, SubmitterPhases
  <2>3. \A p \in accepted' : ~p.held
    BY <2>1
  <2> QED BY <2>2, <2>3 DEF ProcessesWell, AttemptsBegun, Active, tableVars
<1>4. CASE CommitBatch
  BY <1>1, <1>4, CommitProcesses
<1> QED BY <1>2, <1>3, <1>4 DEF SubmitStep

LEMMA BatchProcesses ==
  ASSUME TypeOK, Tidy, ProcessesWell, ~Holds, BatchStep, BatchFrame
  PROVE  ProcessesWell'
<1>1. UNCHANGED tableVars /\ UNCHANGED accepted /\ rows \subseteq Rows
  BY DEF BatchStep, Track, Timeout, ProcessEnds, ProcessHeld, BatchFrame, CreatorFrame, submitterVars,
         TypeOK, BossAirTypeOK
<1>2. ASSUME NEW S \in SUBSET rows, rows' = Deactivated(rows, S), queue' \subseteq queue,
             \A x \in S : ProcessOf(x) \cap queue' = {}
      PROVE  ProcessesWell'
  <2>1. AttemptsBegun'
    BY <1>1, <1>2, DeactivatedRows DEF ProcessesWell, AttemptsBegun, tableVars
  <2>2. ASSUME NEW p \in queue' \ accepted'
        PROVE  \E x \in Active' : Attempt(x) = Attempt(p) /\ x.copy = p.copy
    <3>1. PICK x \in Active : Attempt(x) = Attempt(p) /\ x.copy = p.copy
      BY <1>1, <1>2 DEF ProcessesWell
    <3>2. p \in ProcessOf(x)
      BY <1>2, <3>1 DEF ProcessOf, Attempt
    <3>3. x \notin S
      BY <1>2, <3>2
    <3>4. x \in Active'
      BY <1>1, <1>2, <3>3, DeactivatedRows
    <3> QED BY <3>1, <3>4
  <2> QED BY <1>1, <1>2, <2>1, <2>2 DEF ProcessesWell
<1>3. CASE Track
  <2> DEFINE over == {x \in Active : Over(x)}
  <2>1. rows' = Deactivated(rows, over) /\ queue' = queue /\ over \subseteq rows
    BY <1>3 DEF Track, Active
  <2>2. \A x \in over : ProcessOf(x) = {}
    BY DEF Over, ProcessOf, ProcessesWell
  <2> HIDE DEF over
  <2> QED BY <1>2, <2>1, <2>2
<1>4. CASE Timeout
  <2>1. PICK late \in SUBSET {x \in Active : ~Over(x)} :
           rows' = Deactivated(rows, late) /\ queue' = queue \ UNION {ProcessOf(x) : x \in late}
    BY <1>4 DEF Timeout
  <2>2. late \subseteq rows
    BY DEF Active
  <2> QED BY <1>2, <2>1, <2>2
<1>5. ASSUME NEW p \in queue, ProcessEnds(p) PROVE ProcessesWell'
  BY <1>1, <1>5 DEF ProcessEnds, ProcessesWell, AttemptsBegun, Active, tableVars
<1> QED BY <1>3, <1>4, <1>5 DEF BatchStep, ProcessHeld

LEMMA NextProcesses ==
  ASSUME TypeOK, OwnershipInv, Pristine', faults' = 0, RowsWell, ProcessesWell, NoPass, ~Holds,
         [Next]_vars
  PROVE  ProcessesWell'
<1>1. Tidy /\ Legal
  BY PristineBefore, NextLegal DEF OwnershipInv, Tidy
<1>2. ~KillStep
  BY <1>1, KillStepNotPristine
<1>3. Steps \/ UNCHANGED vars
  BY DEF Next, TypeOK
<1>4. CASE UNCHANGED <<rows, queue, accepted>>
  BY <1>1, <1>4, ProcessesKept
<1>5. ASSUME \/ CreateStep /\ CreatorFrame
             \/ TrackStep /\ TrackerFrame
             \/ AccountStep /\ AccountantFrame
             \/ HandleStep /\ HandlerFrame
             \/ (RetryStep \/ OperatorStep) /\ RetryFrame
             \/ ArchiveStep /\ ArchiverFrame
      PROVE  UNCHANGED <<rows, queue, accepted>>
  <2>1. UNCHANGED <<rows, queue>>
    BY <1>5 DEF CreateStep, CreatorRead, CreatorCommit, TrackStep, TrackerRead, TrackerCommit,
                AccountStep, AccountantRead, AccountantCommit, HandleStep, HandlerRead, HandlerLoad,
                HandleFailed, HandleRetryDone, RetryStep, RetryRead, RetrySelect, RetryCommit, OperatorStep,
                OperatorLists, OperatorMoves, ArchiveStep, ArchiverRead, ArchiverCommit, bossAirVars
  <2>2. UNCHANGED accepted
    BY <1>5 DEF CreatorFrame, TrackerFrame, AccountantFrame, HandlerFrame, RetryFrame, ArchiverFrame,
                submitterVars
  <2> QED BY <2>1, <2>2
<1>6. CASE UNCHANGED vars
  BY <1>4, <1>6 DEF vars, bossAirVars, submitterVars
<1> QED BY <1>1, <1>2, <1>3, <1>4, <1>5, <1>6, SubmitterProcesses, BatchProcesses DEF Steps

LEMMA UndisturbedBefore ==
  ASSUME TypeOK, [Next]_vars, Undisturbed'
  PROVE  Undisturbed
<1>1. Pristine' /\ faults' = 0 /\ ~Holds /\ ~PassCodes
  BY DEF Undisturbed
<1>2. faults = 0
  BY <1>1 DEF Next, vars, TypeOK
<1> QED BY <1>1, <1>2, PristineBefore DEF Undisturbed

(* The rows of bl_runjob, the processes of the batch system and the jobs   *)
(* fit together: the invariant behind RowsAgree, and, until something      *)
(* crashes, behind OneProcess and CompleteMeansGone.                       *)
THEOREM TablesAgree == Spec => []TableInv
<1> DEFINE Calm == ProcessInv /\ (Undisturbed => NoPass)
<1>1. Init => Calm
  BY DEF Init, BossAirInit, SubmitterInit, ProcessInv, NoPass
<1>2. TypeOK /\ OwnershipInv /\ RowsInv /\ Calm /\ [Next]_vars => Calm'
  <2> SUFFICES ASSUME TypeOK, OwnershipInv, RowsInv, Calm, [Next]_vars, Undisturbed'
               PROVE  ProcessesWell' /\ NoPass'
    BY DEF ProcessInv, ProcessesWell, AttemptsBegun
  <2>1. Undisturbed
    BY UndisturbedBefore
  <2>2. NoPass /\ ProcessesWell
    BY <2>1 DEF ProcessInv, ProcessesWell, AttemptsBegun
  <2>3. RowsWell /\ ~PassCodes /\ ~Holds /\ Pristine' /\ faults' = 0
    BY <2>1 DEF Undisturbed, RowsInv, RowsAgree, RowsWell
  <2>4. NoPass'
    BY <2>2, <2>3, NextNoPass
  <2>5. ProcessesWell'
    BY <2>2, <2>3, NextProcesses
  <2> QED BY <2>4, <2>5
<1> QED BY <1>1, <1>2, OwnershipInvariant, RowsInvariant, PTL DEF Spec, TableInv

(* Until something crashes, a job has one process in the batch system at   *)
(* most, and it is one of its present attempt - although the submission    *)
(* reaches the batch system before the transaction that records it.        *)
THEOREM OneProcessHolds == Spec => []OneProcess
<1>1. TypeOK /\ OwnershipInv /\ TableInv => OneProcess
  <2> SUFFICES ASSUME TypeOK, OwnershipInv, TableInv, Undisturbed, NEW p \in queue
               PROVE  /\ retry[p.job] = p.retry
                      /\ state[p.job] = "executing" \/ Attempt(p) \in {Attempt(a) : a \in accepted}
                      /\ \A q \in queue : q.job = p.job => q = p
    BY DEF OneProcess
  <2>1. RowsWell /\ ProcessesWell /\ SubmitterOwns
    BY DEF TableInv, RowsInv, RowsAgree, RowsWell, ProcessInv, ProcessesWell, AttemptsBegun,
           OwnershipInv, EveryoneOwns, Undisturbed
  <2>2. ASSUME NEW a \in accepted PROVE state[a.job] = "created" /\ retry[a.job] = a.retry
    BY <2>1 DEF SubmitterOwns, Waiting
  <2>3. ASSUME NEW q \in queue, q \notin accepted
        PROVE  /\ state[q.job] = "executing" /\ retry[q.job] = q.retry
               /\ \E x \in rows : Attempt(x) = Attempt(q) /\ x.copy = q.copy
    BY <2>1, <2>3 DEF ProcessesWell, RowsWell, Active, Attempt
  <2>4. ASSUME NEW q \in queue, q.job = p.job PROVE q = p
    <3>1. Attempt(q) = Attempt(p) /\ (q \in accepted <=> p \in accepted)
      BY <2>2, <2>3, <2>4 DEF Attempt
    <3>2. CASE p \in accepted
      BY <2>1, <3>1, <3>2 DEF RowsWell, OneEach
    <3>3. CASE p \notin accepted
      <4>1. PICK x \in rows : Attempt(x) = Attempt(p) /\ x.copy = p.copy
        BY <2>3, <3>3
      <4>2. PICK y \in rows : Attempt(y) = Attempt(q) /\ y.copy = q.copy
        BY <2>3, <3>1, <3>3
      <4>3. x = y
        BY <2>1, <3>1, <4>1, <4>2 DEF RowsWell, OneEach
      <4>4. ~q.held /\ ~p.held /\ q \in Processes /\ p \in Processes
        BY <2>1 DEF ProcessesWell, TypeOK, BossAirTypeOK
      <4>5. q.copy = p.copy /\ q.retry = p.retry
        BY <3>1, <4>1, <4>2, <4>3 DEF Attempt
      <4> QED BY <2>4, <4>4, <4>5 DEF Processes
    <3> QED BY <3>2, <3>3
  <2> QED BY <2>2, <2>3, <2>4
<1> QED BY <1>1, OwnershipInvariant, TablesAgree, PTL

(* Until then, a complete job has nothing of its attempt left in the batch *)
(* system.                                                                 *)
THEOREM CompleteIsGone == Spec => []CompleteMeansGone
<1>1. TypeOK /\ OwnershipInv /\ OneProcess => CompleteMeansGone
  <2> SUFFICES ASSUME TypeOK, OwnershipInv, OneProcess, Undisturbed, NEW j \in Jobs, state[j] = "complete",
                      NEW p \in queue, p.job = j
               PROVE  FALSE
    BY DEF CompleteMeansGone, InState, Of, Now
  <2>1. PICK a \in accepted : Attempt(a) = Attempt(p)
    BY DEF OneProcess
  <2>2. state[a.job] = "created"
    BY DEF OwnershipInv, EveryoneOwns, SubmitterOwns, Waiting, Undisturbed
  <2> QED BY <2>1, <2>2 DEF Attempt
<1> QED BY <1>1, OneProcessHolds, OwnershipInvariant, PTL

-----------------------------------------------------------------------------
(* The kill.  From here on nothing is assumed about Pristine: what is said *)
(* holds before, during and after a kill.                                  *)

Names == [Submitter  |-> {"created"},
          Creator    |-> {"new"},
          Tracker    |-> {"executing"},
          Accountant |-> {"complete"},
          Handler    |-> FailedStates \cup {"retrydone"},
          Retry      |-> CooloffStates,
          Operator   |-> PausedStates]

(* A step that, but for the jobs of W, at most kills a job, puts it away,  *)
(* or registers the report of one that failed in submission.               *)
Spares(W) ==
  \A j \in Jobs \ W :
    /\ state'[j] = state[j] \/ state'[j] \in {"killed", "cleanout"}
    /\ retry'[j] = retry[j] \/ retry'[j] >= KillIncrement
    /\ path'[j] = path[j] \/ j \in JobsOf(reported)

LEMMA SubmitterSpared ==
  ASSUME TypeOK, SubmitterKeeps, UNCHANGED submitterVars,
         NEW W, Spares(W), W \cap HandOf["Submitter"] = {}
  PROVE  SubmitterKeeps'
<1>1. /\ Cached \subseteq Jobs /\ Cached' = Cached
      /\ \A s \in badJobs \cup rejected \cup accepted : s.job \in Jobs
  BY DEF Cached, submitterVars, TypeOK, SubmitterTypeOK, Attempts, Processes
<1>2. /\ \A j \in Cached : j \in Jobs \ W
      /\ \A s \in badJobs \cup rejected \cup accepted : s.job \in Jobs \ W
  BY <1>1 DEF HandOf, JobsOf
<1>3. /\ \A j \in Cached : As(j, cache[j], {"created"})'
      /\ \A s \in badJobs \cup rejected \cup accepted : As(s.job, s.retry, {"created"})'
  BY <1>2 DEF SubmitterKeeps, Spares, As, In, Counted, submitterVars
<1> QED BY <1>1, <1>3 DEF SubmitterKeeps, submitterVars

LEMMA CreatorSpared ==
  ASSUME TypeOK, CreatorKeeps, UNCHANGED creatorVars,
         NEW W, Spares(W), W \cap HandOf["Creator"] = {}
  PROVE  CreatorKeeps'
BY DEF TypeOK, CreatorTypeOK, HandOf, CreatorKeeps, Spares, In, creatorVars

LEMMA TrackerSpared ==
  ASSUME TypeOK, TrackerKeeps, UNCHANGED trackerVars,
         NEW W, Spares(W), W \cap HandOf["Tracker"] = {}
  PROVE  TrackerKeeps'
<1>1. \A x \in tracked : x.job \in Jobs \ W
  BY DEF TypeOK, TrackerTypeOK, Rows, HandOf, JobsOf
<1> QED BY <1>1 DEF TrackerKeeps, Spares, As, In, Counted, trackerVars

LEMMA AccountantSpared ==
  ASSUME TypeOK, AccountantKeeps, ReportsOpen, UNCHANGED accountantVars,
         NEW W, Spares(W), W \cap HandOf["Accountant"] = {}
  PROVE  AccountantKeeps'
<1>1. \A s \in accounted : s.job \in Jobs \ W /\ s.job \notin JobsOf(reported)
  BY DEF TypeOK, AccountantTypeOK, HandOf, JobsOf, ReportsOpen
<1> QED BY <1>1 DEF AccountantKeeps, Spares, In, accountantVars

LEMMA HandlerSpared ==
  ASSUME TypeOK, HandlerKeeps, UNCHANGED handlerVars,
         NEW W, Spares(W), W \cap HandOf["Handler"] = {}
  PROVE  HandlerKeeps'
<1>1. /\ \A j \in listed : j \in Jobs \ W
      /\ \A s \in loaded : s.job \in Jobs \ W
  BY DEF TypeOK, HandlerTypeOK, HandOf, JobsOf
<1> QED BY <1>1 DEF HandlerKeeps, Spares, As, In, Counted, handlerVars

LEMMA RetrySpared ==
  ASSUME TypeOK, RetryKeeps, UNCHANGED retryManagerVars,
         NEW W, Spares(W), W \cap HandOf["Retry"] = {}
  PROVE  RetryKeeps'
<1>1. /\ \A s \in cooling : s.job \in Jobs \ W
      /\ \A s \in counts : s.job \in Jobs \ W
  BY DEF TypeOK, RetryManagerTypeOK, Cooling, Attempts, HandOf, JobsOf
<1> QED BY <1>1 DEF RetryKeeps, Spares, As, In, Counted, retryManagerVars

LEMMA OperatorSpared ==
  ASSUME TypeOK, OperatorKeeps, UNCHANGED operatorVars,
         NEW W, Spares(W), W \cap HandOf["Operator"] = {}
  PROVE  OperatorKeeps'
BY DEF TypeOK, RetryManagerTypeOK, HandOf, OperatorKeeps, Spares, In, operatorVars

(* What a component holds is in one of its states, or a kill took it.      *)
LEMMA HandsNamed ==
  ASSUME TypeOK, LostOnlyToKill, HandlerPhases, NEW c \in DOMAIN Names
  PROVE  \A j \in HandOf[c] : In(j, Names[c])
<1>1. \A j \in HandOf["Submitter"] : In(j, Names["Submitter"])
  BY DEF HandOf, Names, JobsOf, LostOnlyToKill, SubmitterKeeps, As
<1>2. \A j \in HandOf["Creator"] : In(j, Names["Creator"])
  BY DEF HandOf, Names, JobsOf, LostOnlyToKill, CreatorKeeps
<1>3. \A j \in HandOf["Tracker"] : In(j, Names["Tracker"])
  BY DEF HandOf, Names, JobsOf, LostOnlyToKill, TrackerKeeps, As
<1>4. \A j \in HandOf["Accountant"] : In(j, Names["Accountant"])
  BY DEF HandOf, Names, JobsOf, LostOnlyToKill, AccountantKeeps
<1>5. \A j \in HandOf["Handler"] : In(j, Names["Handler"])
  <2>1. \A j \in HandOf["Handler"] : In(j, {handling}) /\ handling # "idle"
    BY DEF HandOf, JobsOf, LostOnlyToKill, HandlerKeeps, As, HandlerPhases
  <2>2. handling \in FailedStates \cup {"retrydone", "idle"}
    BY DEF TypeOK, HandlerTypeOK
  <2> QED BY <2>1, <2>2 DEF Names, In
<1>6. \A j \in HandOf["Retry"] : In(j, Names["Retry"])
  <2>1. \A s \in cooling : In(s.job, {s.state}) /\ s.state \in CooloffStates
    BY DEF LostOnlyToKill, RetryKeeps, As, TypeOK, RetryManagerTypeOK, Cooling
  <2> QED BY <2>1 DEF HandOf, Names, JobsOf, In
<1>7. \A j \in HandOf["Operator"] : In(j, Names["Operator"])
  BY DEF HandOf, Names, LostOnlyToKill, OperatorKeeps
<1>8. c \in {"Submitter", "Creator", "Tracker", "Accountant", "Handler", "Retry", "Operator"}
  BY DEF Names
<1> QED BY <1>1, <1>2, <1>3, <1>4, <1>5, <1>6, <1>7, <1>8

LEMMA NamesApart ==
  /\ DOMAIN Names = DOMAIN HandOf
  /\ \A c, d \in DOMAIN Names :
       /\ Names[c] \cap {"killed", "cleanout"} = {}
       /\ c # d => Names[c] \cap Names[d] = {}
BY DEF Names, HandOf, FailedStates, CooloffStates, PausedStates

(* No component takes up a job that another holds.                         *)
LEMMA HandsStayApart ==
  ASSUME TypeOK, HandsInv, NEW c \in DOMAIN Names,
         \A d \in DOMAIN Names : d # c => HandOf'[d] = HandOf[d],
         HandOf'[c] \subseteq HandOf[c] \cup InState(Names[c])
  PROVE  HandsApart'
<1>1. ASSUME NEW d \in DOMAIN Names, d # c, NEW j \in HandOf'[c], j \in HandOf[d] PROVE FALSE
  <2>1. j \notin HandOf[c]
    BY <1>1, NamesApart DEF HandsInv, HandsApart
  <2>2. state[j] \in Names[c]
    BY <1>1, <2>1 DEF InState
  <2>3. state[j] \in Names[d] \cup {"killed", "cleanout"}
    BY <1>1, HandsNamed DEF HandsInv, In
  <2> QED BY <1>1, <2>2, <2>3, NamesApart
<1>2. DOMAIN HandOf' = DOMAIN Names
  BY DEF HandOf, Names
<1>3. \A d, e \in DOMAIN Names : d # e => HandOf'[d] \cap HandOf'[e] = {}
  BY <1>1, NamesApart DEF HandsInv, HandsApart
<1> QED BY <1>2, <1>3 DEF HandsApart

(* A component's memory is all its hand depends on.                        *)
LEMMA HandsUnchanged ==
  /\ UNCHANGED submitterVars    => HandOf'["Submitter"] = HandOf["Submitter"]
  /\ UNCHANGED creatorVars      => HandOf'["Creator"] = HandOf["Creator"]
  /\ UNCHANGED trackerVars      => HandOf'["Tracker"] = HandOf["Tracker"]
  /\ UNCHANGED accountantVars   => HandOf'["Accountant"] = HandOf["Accountant"]
  /\ UNCHANGED handlerVars      => HandOf'["Handler"] = HandOf["Handler"]
  /\ UNCHANGED retryManagerVars => HandOf'["Retry"] = HandOf["Retry"]
  /\ UNCHANGED operatorVars     => HandOf'["Operator"] = HandOf["Operator"]
BY DEF HandOf, JobsOf, Cached, submitterVars, creatorVars, trackerVars, accountantVars, handlerVars,
       retryManagerVars, operatorVars

(* The steps, one component after the other.                               *)
LEMMA QuietSpares ==
  ASSUME UNCHANGED tableVars
  PROVE  \A W : Spares(W)
BY DEF tableVars, Spares

LEMMA ReportsStayOpen ==
  ASSUME TypeOK, ReportsOpen, UNCHANGED <<reported, tracked, accounted>>,
         \A j \in Jobs : state'[j] \in {"executing", "complete"} => state[j] \in {"executing", "complete"}
  PROVE  ReportsOpen'
<1>1. \A s \in reported : s.job \in Jobs
  BY DEF TypeOK, SubmitterTypeOK, Attempts
<1> QED BY <1>1 DEF ReportsOpen, JobsOf

LEMMA SubmitterStepHands ==
  ASSUME TypeOK, HandsInv, SubmitStep \/ SubmitterCrash \/ Abort, SubmitterFrame
  PROVE  /\ SubmitterKeeps' /\ SubmitterPhases' /\ OneBadEach' /\ ReportsOpen' /\ NeverMarked'
         /\ Spares(HandOf["Submitter"])
         /\ HandOf'["Submitter"] \subseteq HandOf["Submitter"] \cup InState({"created"})
<1> DEFINE Mine == /\ SubmitterKeeps' /\ SubmitterPhases' /\ OneBadEach' /\ ReportsOpen' /\ NeverMarked'
                   /\ Spares(HandOf["Submitter"])
                   /\ HandOf'["Submitter"] \subseteq HandOf["Submitter"] \cup InState({"created"})
           Hand == Cached \cup JobsOf(badJobs \cup rejected \cup accepted)
<1>0. /\ SubmitterKeeps /\ SubmitterPhases /\ OneBadEach /\ ReportsOpen /\ NeverMarked
      /\ UNCHANGED <<tracked, accounted>> /\ HandOf["Submitter"] = Hand /\ HandOf'["Submitter"] = Hand'
      /\ HandOf["Submitter"] \cap (JobsOf(tracked) \cup JobsOf(accounted)) = {}
  BY DEF HandsInv, LostOnlyToKill, SubmitterFrame, trackerVars, accountantVars, HandOf, HandsApart
<1>1. ASSUME NEW J \in SUBSET Cached, cache' = CacheWith(J, {}), UNCHANGED tableVars,
             UNCHANGED rows, UNCHANGED <<badJobs, reported, accepted, rejected>>,
             step \in {"idle", "assign"}, step' \in {"idle", "assign"}
      PROVE  Mine
  <2>1. \A j \in Cached' : j \in Cached /\ cache'[j] = cache[j]
    BY <1>1, CachedAfter
  <2>2. SubmitterPhases'
    BY <1>0, <1>1, <2>1 DEF SubmitterPhases
  <2>3. SubmitterKeeps'
    BY <1>0, <1>1, <2>1 DEF SubmitterKeeps, As, In, Counted, tableVars
  <2>4. OneBadEach' /\ ReportsOpen' /\ NeverMarked'
    BY <1>0, <1>1 DEF OneBadEach, ReportsOpen, NeverMarked, JobsOf, tableVars
  <2>5. Hand' \subseteq Hand
    BY <1>1, <2>1 DEF JobsOf
  <2> QED BY <1>0, <1>1, <2>2, <2>3, <2>4, <2>5, QuietSpares
<1>2. ASSUME SkipRefresh PROVE Mine
  <2>1. PICK named \in Listed : \E keep \in Kept(named) : cache' = CacheWith(keep, {})
    BY <1>2 DEF SkipRefresh
  <2>2. PICK keep \in Kept(named) : cache' = CacheWith(keep, {})
    BY <2>1
  <2>3. keep \subseteq Cached
    BY DEF Kept
  <2> QED BY <1>1, <1>2, <2>2, <2>3 DEF SkipRefresh, bossAirVars
<1>3. ASSUME EndCycle PROVE Mine
  <2>1. PICK batch \in SUBSET Cached : cache' = CacheWith(Cached \ batch, {})
    BY <1>3 DEF EndCycle
  <2> QED BY <1>1, <1>3, <2>1 DEF EndCycle, bossAirVars
<1>4. ASSUME Refresh PROVE Mine
  <2> DEFINE Taken(before, now, keep, bad, new) ==
           /\ cache' = CacheWith(keep \cap Readable(now), new)
           /\ badJobs' = {Now(j) : j \in bad}
           /\ step' = IF bad = {} THEN "assign" ELSE "bad"
  <2>0. PICK before \in Listed, now \in Listed : \E keep \in Kept(before) :
           \E bad \in SUBSET (Readable(now) \ keep) :
           \E new \in SUBSET (Readable(now) \ (keep \cup bad)) : Taken(before, now, keep, bad, new)
    BY <1>4 DEF Refresh
  <2> DEFINE readable == Readable(now)
  <2>1. PICK keep, bad, new :
           /\ keep \in Kept(before) /\ bad \subseteq readable \ keep
           /\ new \subseteq readable \ (keep \cup bad)
           /\ Taken(before, now, keep, bad, new)
    BY <2>0
  <2>2. /\ step = "idle" /\ UNCHANGED <<reported, accepted, rejected, rows>> /\ UNCHANGED tableVars
    BY <1>4 DEF Refresh, bossAirVars
  <2>3. \A j \in readable : j \in Jobs /\ state[j] = "created"
    BY DEF Readable, InState
  <2> HIDE DEF readable
  <2>4. \A j \in Cached' : \/ j \in new /\ cache'[j] = retry[j]
                           \/ j \in keep \cap Cached /\ cache'[j] = cache[j]
    BY <2>1, CachedAfter
  <2>5. accepted = {} /\ rejected = {} /\ reported = {}
    BY <1>0, <2>2 DEF SubmitterPhases
  <2>6. \A s \in badJobs' : s.job \in bad /\ s = Now(s.job)
    BY <2>1 DEF Now
  <2>7. SubmitterPhases' /\ OneBadEach' /\ ReportsOpen' /\ NeverMarked'
    <3>1. \A j \in bad : j \notin Cached'
      BY <2>1, <2>4
    <3>2. step' \in {"assign", "bad"} /\ (step' # "bad" => badJobs' = {})
      BY <2>1
    <3>3. OneBadEach'
      BY <2>6 DEF OneBadEach
    <3> QED BY <1>0, <2>2, <2>5, <2>6, <3>1, <3>2, <3>3 DEF SubmitterPhases, ReportsOpen, NeverMarked
  <2>8. SubmitterKeeps'
    <3>1. \A j \in Cached' : As(j, cache[j], {"created"})'
      BY <1>0, <2>1, <2>2, <2>3, <2>4 DEF SubmitterKeeps, As, In, Counted, tableVars
    <3>2. \A s \in badJobs' : As(s.job, s.retry, {"created"})'
      BY <2>1, <2>2, <2>3, <2>6 DEF Now, As, In, Counted, tableVars
    <3> QED BY <2>2, <2>5, <3>1, <3>2 DEF SubmitterKeeps
  <2>9. Hand' \subseteq Hand \cup InState({"created"})
    <3>1. \A j \in Cached' : j \in Cached \/ j \in InState({"created"})
      BY <2>1, <2>3, <2>4 DEF InState
    <3>2. \A s \in badJobs' : s.job \in InState({"created"})
      BY <2>1, <2>3, <2>6 DEF InState
    <3> QED BY <2>2, <2>5, <3>1, <3>2 DEF JobsOf
  <2> QED BY <1>0, <2>2, <2>7, <2>8, <2>9, QuietSpares
<1>5. ASSUME NEW bad \in SUBSET badJobs, NEW saved \in SUBSET bad,
             NEW result \in {"retry", "noRetry"}, FailBadJobs(bad, saved, result)
      PROVE  Mine
  <2>1. /\ step = "bad" /\ badJobs' = badJobs \ bad /\ reported' = saved /\ step' = "path"
        /\ state' = StateSet(JobsOf(bad), "submitfailed")
        /\ UNCHANGED <<retry, path, rows, cache, accepted, rejected>>
    BY <1>5 DEF FailBadJobs
  <2>2. accepted = {} /\ rejected = {} /\ Cached' = Cached /\ Cached \subseteq Jobs
    BY <1>0, <2>1 DEF SubmitterPhases, Cached
  <2>3. \A s \in badJobs : s.job \in Jobs /\ As(s.job, s.retry, {"created"}) /\ s.job \notin Cached
    BY <1>0 DEF SubmitterKeeps, SubmitterPhases, TypeOK, SubmitterTypeOK, Attempts
  <2>4. \A j \in Jobs : state'[j] = IF j \in JobsOf(bad) THEN "submitfailed" ELSE state[j]
    BY <2>1 DEF StateSet
  <2>5. JobsOf(bad) \subseteq Hand
    BY DEF JobsOf
  <2>6. Spares(HandOf["Submitter"])
    BY <1>0, <2>1, <2>4, <2>5 DEF Spares
  <2>7. \A s \in badJobs' : s.job \notin JobsOf(bad)
    BY <1>0, <2>1 DEF OneBadEach, JobsOf
  <2>8. SubmitterKeeps'
    <3>1. \A j \in Cached' : As(j, cache[j], {"created"})'
      <4>1. \A j \in Cached : j \notin JobsOf(bad)
        BY <2>3 DEF JobsOf
      <4> QED BY <1>0, <2>1, <2>2, <2>4, <4>1 DEF SubmitterKeeps, As, In, Counted
    <3>2. \A s \in badJobs' : As(s.job, s.retry, {"created"})'
      BY <2>1, <2>3, <2>4, <2>7 DEF As, In, Counted
    <3> QED BY <2>1, <2>2, <3>1, <3>2 DEF SubmitterKeeps
  <2>9. SubmitterPhases' /\ OneBadEach'
    BY <1>0, <2>1, <2>2, <2>3 DEF SubmitterPhases, OneBadEach
  <2>10. ReportsOpen'
    <3>1. \A s \in saved : s.job \in Jobs /\ s.job \in JobsOf(bad)
      BY <2>3 DEF JobsOf
    <3> QED BY <1>0, <2>1, <2>4, <2>5, <3>1 DEF ReportsOpen
  <2>11. Hand' \subseteq Hand
    BY <2>1, <2>2 DEF JobsOf
  <2> QED BY <1>0, <2>1, <2>6, <2>8, <2>9, <2>10, <2>11 DEF NeverMarked
<1>6. ASSUME RegisterReports PROVE Mine
  <2>1. /\ step = "path" /\ path' = PathSet(reported) /\ reported' = {}
        /\ step' = IF badJobs = {} THEN "assign" ELSE "bad"
        /\ UNCHANGED <<state, retry, rows, cache, badJobs, accepted, rejected>>
    BY <1>6 DEF RegisterReports, bossAirVars
  <2>2. Spares(HandOf["Submitter"])
    BY <2>1 DEF Spares, PathSet
  <2>3. Cached' = Cached
    BY <2>1 DEF Cached
  <2>4. SubmitterKeeps' /\ SubmitterPhases' /\ OneBadEach' /\ ReportsOpen' /\ NeverMarked'
    BY <1>0, <2>1, <2>3 DEF SubmitterKeeps, SubmitterPhases, OneBadEach, ReportsOpen, NeverMarked, As, In,
                            Counted
  <2> QED BY <1>0, <2>1, <2>2, <2>3, <2>4
<1>7. ASSUME NEW batch \in SUBSET Cached, NEW good \in SUBSET batch, SubmitBatch(batch, good)
      PROVE  Mine
  <2>1. /\ step = "assign" /\ step' = "commit" /\ UNCHANGED <<badJobs, reported>>
        /\ cache' = CacheWith(Cached \ batch, {})
        /\ rejected' = {[job |-> j, retry |-> cache[j]] : j \in batch \ good}
        /\ UNCHANGED rows /\ UNCHANGED tableVars
    BY <1>7 DEF SubmitBatch
  <2>2. PICK copy : accepted' = {[job |-> j, retry |-> cache[j], copy |-> copy[j],
                                  held |-> FALSE] : j \in good}
    BY <1>7 DEF SubmitBatch
  <2>3. \A s \in accepted' \cup rejected' : s.job \in batch /\ s.retry = cache[s.job]
    BY <2>1, <2>2
  <2>4. \A j \in Cached' : j \in Cached \ batch /\ cache'[j] = cache[j]
    BY <2>1, CachedAfter
  <2>5. badJobs' = {} /\ reported' = {}
    BY <1>0, <2>1 DEF SubmitterPhases
  <2>6. SubmitterPhases' /\ OneBadEach' /\ ReportsOpen' /\ NeverMarked'
    BY <1>0, <2>1, <2>3, <2>4, <2>5 DEF SubmitterPhases, OneBadEach, ReportsOpen, NeverMarked
  <2>7. SubmitterKeeps'
    BY <1>0, <2>1, <2>3, <2>4, <2>5 DEF SubmitterKeeps, As, In, Counted, tableVars
  <2>8. Hand' \subseteq Hand
    BY <2>3, <2>4, <2>5 DEF JobsOf
  <2> QED BY <1>0, <2>1, <2>6, <2>7, <2>8, QuietSpares
<1>8. ASSUME CommitBatch PROVE Mine
  <2>1. /\ step = "commit" /\ step' = "idle" /\ accepted' = {} /\ rejected' = {}
        /\ rows' = RowsWith(accepted)
        /\ state' = [j \in Jobs |-> IF j \in JobsOf(rejected) THEN "submitfailed"
                                    ELSE IF j \in JobsOf(accepted) THEN "executing"
                                    ELSE state[j]]
        /\ UNCHANGED <<retry, path, cache, badJobs, reported>>
    BY <1>8 DEF CommitBatch
  <2>2. badJobs = {} /\ reported = {} /\ Cached' = Cached /\ Cached \subseteq Jobs
    BY <1>0, <2>1 DEF SubmitterPhases, Cached
  <2>3. \A j \in JobsOf(rejected) \cup JobsOf(accepted) : j \in Hand /\ j \notin Cached
    BY <1>0 DEF JobsOf, SubmitterPhases
  <2>4. Spares(HandOf["Submitter"])
    BY <1>0, <2>1, <2>3 DEF Spares
  <2>5. SubmitterKeeps'
    BY <1>0, <2>1, <2>2, <2>3 DEF SubmitterKeeps, As, In, Counted
  <2>6. SubmitterPhases' /\ OneBadEach' /\ ReportsOpen'
    BY <2>1, <2>2 DEF SubmitterPhases, OneBadEach, ReportsOpen
  <2>7. NeverMarked'
    BY <1>0, <2>1 DEF NeverMarked, RowsWith
  <2>8. Hand' \subseteq Hand
    BY <2>1, <2>2 DEF JobsOf
  <2> QED BY <1>0, <2>4, <2>5, <2>6, <2>7, <2>8
<1>9. ASSUME SubmitterCrash PROVE Mine
  <2>1. Cached' = {}
    BY <1>9 DEF SubmitterCrash, EmptyCache, Cached
  <2>2. /\ step' = "idle" /\ badJobs' = {} /\ reported' = {} /\ accepted' = {} /\ rejected' = {}
        /\ UNCHANGED rows /\ UNCHANGED tableVars
    BY <1>9 DEF SubmitterCrash
  <2>3. SubmitterKeeps' /\ SubmitterPhases' /\ OneBadEach' /\ ReportsOpen' /\ NeverMarked' /\ Hand' = {}
    BY <1>0, <2>1, <2>2 DEF SubmitterKeeps, SubmitterPhases, OneBadEach, ReportsOpen, NeverMarked, JobsOf
  <2> QED BY <1>0, <2>2, <2>3, QuietSpares
<1>10. ASSUME Abort PROVE Mine
  <2>1. UNCHANGED submitterVars /\ UNCHANGED tableVars /\ UNCHANGED rows
    BY <1>10 DEF Abort, bossAirVars
  <2>2. Spares({})
    BY <2>1, QuietSpares
  <2>3. SubmitterKeeps'
    BY <1>0, <2>1, <2>2, SubmitterSpared
  <2>4. SubmitterPhases' /\ OneBadEach' /\ ReportsOpen' /\ NeverMarked' /\ Hand' = Hand
    BY <1>0, <2>1 DEF SubmitterPhases, OneBadEach, ReportsOpen, NeverMarked, Cached, submitterVars, tableVars
  <2> QED BY <1>0, <2>1, <2>3, <2>4, QuietSpares
<1> QED BY <1>2, <1>3, <1>4, <1>5, <1>6, <1>7, <1>8, <1>9, <1>10 DEF SubmitStep

LEMMA CreatorStepHands ==
  ASSUME TypeOK, HandsInv, CreateStep \/ CreatorCrash
  PROVE  /\ CreatorKeeps' /\ Spares(HandOf["Creator"])
         /\ HandOf'["Creator"] \subseteq HandOf["Creator"] \cup InState({"new"})
         /\ \A j \in Jobs : state'[j] \in {"executing", "complete"} => state[j] \in {"executing", "complete"}
<1>1. /\ HandOf["Creator"] = creating /\ HandOf'["Creator"] = creating' /\ CreatorKeeps
  BY DEF HandOf, HandsInv, LostOnlyToKill
<1>2. CASE CreatorRead
  <2>1. UNCHANGED tableVars /\ creating' \subseteq InState({"new"})
    BY <1>2 DEF CreatorRead
  <2> QED BY <1>1, <2>1, QuietSpares DEF CreatorKeeps, In, InState, tableVars
<1>3. ASSUME NEW bad \in SUBSET creating, NEW saved \in SUBSET bad, CreatorCommit(bad, saved)
      PROVE  /\ creating' = {} /\ Spares(creating)
             /\ \A j \in Jobs : state'[j] \in {"executing", "complete"} => state'[j] = state[j]
  BY <1>3 DEF CreatorCommit, Spares
<1>4. CASE CreatorCrash
  BY <1>1, <1>4, QuietSpares DEF CreatorCrash, CreatorKeeps, tableVars
<1> QED BY <1>1, <1>2, <1>3, <1>4 DEF CreateStep, CreatorKeeps

LEMMA TrackerStepHands ==
  ASSUME TypeOK, HandsInv, TrackStep \/ TrackerCrash, UNCHANGED <<reported, accounted>>
  PROVE  /\ TrackerKeeps' /\ NeverMarked' /\ ReportsOpen'
         /\ Spares(HandOf["Tracker"])
         /\ HandOf'["Tracker"] \subseteq HandOf["Tracker"] \cup InState({"executing"})
<1>1. /\ HandOf["Tracker"] = JobsOf(tracked) /\ HandOf'["Tracker"] = JobsOf(tracked')
      /\ TrackerKeeps /\ NeverMarked /\ ReportsOpen
  BY DEF HandOf, JobsOf, HandsInv, LostOnlyToKill
<1>2. CASE TrackerRead
  <2>1. UNCHANGED tableVars /\ UNCHANGED rows /\ tracked' = CompleteRows
    BY <1>2 DEF TrackerRead, bossAirVars
  <2>2. \A x \in tracked' : x \in rows /\ x.job \in Jobs /\ state[x.job] = "executing"
                            /\ retry[x.job] = x.retry
    BY <2>1 DEF CompleteRows, TypeOK, BossAirTypeOK, Rows
  <2>3. TrackerKeeps' /\ NeverMarked'
    BY <1>1, <2>1, <2>2 DEF TrackerKeeps, NeverMarked, As, In, Counted, tableVars
  <2>4. JobsOf(tracked') \subseteq InState({"executing"})
    BY <2>2 DEF JobsOf, InState
  <2>5. ReportsOpen'
    BY <1>1, <2>1, <2>2 DEF ReportsOpen, JobsOf, tableVars
  <2> QED BY <1>1, <2>1, <2>3, <2>4, <2>5, QuietSpares
<1>3. CASE TrackerCommit
  <2> DEFINE passed  == {x \in tracked : ~x.timeout}
             settled == IF passed = {} THEN tracked ELSE passed
             new     == IF passed = {} THEN "jobfailed" ELSE "complete"
  <2>1. passed = tracked
    BY <1>1 DEF NeverMarked
  <2>2. /\ settled # {} /\ state' = StateSet(JobsOf(settled), new) /\ path' = PathSet(settled)
        /\ tracked' = tracked \ settled /\ UNCHANGED <<retry, rows>>
    BY <1>3 DEF TrackerCommit
  <2>3. settled = tracked /\ new = "complete"
    BY <2>1, <2>2
  <2> HIDE DEF passed, settled, new
  <2>4. /\ \A j \in Jobs : state'[j] = IF j \in JobsOf(tracked) THEN "complete" ELSE state[j]
        /\ path' = PathSet(tracked) /\ tracked' = {} /\ UNCHANGED <<retry, rows>>
    BY <2>2, <2>3 DEF StateSet
  <2>5. Spares(JobsOf(tracked))
    BY <2>4 DEF Spares, PathSet
  <2>6. ReportsOpen'
    <3>1. \A s \in reported : s.job \in Jobs
      BY DEF TypeOK, SubmitterTypeOK, Attempts
    <3> QED BY <1>1, <2>4, <3>1 DEF ReportsOpen, JobsOf
  <2> QED BY <1>1, <2>4, <2>5, <2>6 DEF TrackerKeeps, NeverMarked, JobsOf
<1>4. CASE TrackerCrash
  <2>1. tracked' = {} /\ UNCHANGED tableVars /\ UNCHANGED rows
    BY <1>4 DEF TrackerCrash, bossAirVars
  <2> QED BY <1>1, <2>1, QuietSpares DEF TrackerKeeps, NeverMarked, ReportsOpen, JobsOf, tableVars
<1> QED BY <1>2, <1>3, <1>4 DEF TrackStep

LEMMA AccountantStepHands ==
  ASSUME TypeOK, HandsInv, AccountStep \/ AccountantCrash, UNCHANGED <<reported, tracked>>
  PROVE  /\ AccountantKeeps' /\ ReportsOpen'
         /\ Spares(HandOf["Accountant"])
         /\ HandOf'["Accountant"] \subseteq HandOf["Accountant"] \cup InState({"complete"})
<1>1. /\ HandOf["Accountant"] = JobsOf(accounted) /\ HandOf'["Accountant"] = JobsOf(accounted')
      /\ AccountantKeeps /\ ReportsOpen
      /\ \A s \in accounted : s.job \in Jobs
      /\ \A s \in reported : s.job \in Jobs
  BY DEF HandOf, JobsOf, HandsInv, LostOnlyToKill, TypeOK, AccountantTypeOK, SubmitterTypeOK, Attempts
<1>2. CASE AccountantRead
  <2>1. UNCHANGED tableVars /\ accounted' = {[job |-> j, path |-> path[j]] : j \in InState({"complete"})}
    BY <1>2 DEF AccountantRead
  <2>2. \A s \in accounted' : s.job \in InState({"complete"}) /\ s.path = path[s.job]
    BY <2>1
  <2>3. AccountantKeeps' /\ ReportsOpen'
    BY <1>1, <2>1, <2>2 DEF AccountantKeeps, ReportsOpen, In, InState, JobsOf, tableVars
  <2> QED BY <1>1, <2>1, <2>2, <2>3, QuietSpares DEF JobsOf
<1>3. ASSUME NEW slice \in SUBSET accounted, AccountantCommit(slice)
      PROVE  /\ AccountantKeeps' /\ ReportsOpen' /\ Spares(JobsOf(accounted)) /\ accounted' \subseteq accounted
  <2>1. /\ accounted' = accounted \ slice /\ UNCHANGED <<retry, path>>
        /\ \A j \in Jobs : state'[j] \in {"success", "jobfailed"} \/ state'[j] = state[j]
        /\ \A j \in Jobs : j \in JobsOf(slice) \/ state'[j] = state[j]
    <3> DEFINE good == {s \in slice : ReportAt(s.job, s.path) = {"success"}}
    <3>1. JobsOf(good) \subseteq JobsOf(slice)
      BY DEF JobsOf
    <3>2. /\ accounted' = accounted \ slice /\ UNCHANGED <<retry, path>>
          /\ state' = [j \in Jobs |-> IF j \in JobsOf(good) THEN "success"
                                      ELSE IF j \in JobsOf(slice) THEN "jobfailed" ELSE state[j]]
      BY <1>3 DEF AccountantCommit
    <3> HIDE DEF good
    <3> QED BY <3>1, <3>2
  <2>2. \A s \in accounted' : s.job \notin JobsOf(slice)
    <3>1. \A s, t \in accounted : s.job = t.job => s = t
      BY <1>1 DEF AccountantKeeps, TypeOK, AccountantTypeOK
    <3> QED BY <2>1, <3>1 DEF JobsOf
  <2>3. AccountantKeeps'
    BY <1>1, <2>1, <2>2 DEF AccountantKeeps, In
  <2>4. ReportsOpen'
    BY <1>1, <2>1 DEF ReportsOpen, JobsOf
  <2>5. Spares(JobsOf(accounted))
    BY <2>1 DEF Spares, JobsOf
  <2> QED BY <2>1, <2>3, <2>4, <2>5
<1>4. CASE AccountantCrash
  <2>1. accounted' \subseteq accounted /\ UNCHANGED tableVars
    BY <1>4 DEF AccountantCrash
  <2>2. AccountantKeeps' /\ ReportsOpen'
    BY <1>1, <2>1 DEF AccountantKeeps, ReportsOpen, In, JobsOf, tableVars
  <2> QED BY <1>1, <2>1, <2>2, QuietSpares DEF JobsOf
<1>5. accounted' \subseteq accounted => JobsOf(accounted') \subseteq JobsOf(accounted)
  BY DEF JobsOf
<1> QED BY <1>1, <1>2, <1>3, <1>4, <1>5 DEF AccountStep

LEMMA HandlerStepHands ==
  ASSUME TypeOK, HandsInv, HandleStep \/ HandlerCrash
  PROVE  /\ HandlerKeeps' /\ HandlerPhases'
         /\ Spares(HandOf["Handler"])
         /\ HandOf'["Handler"] \subseteq HandOf["Handler"] \cup InState(FailedStates \cup {"retrydone"})
<1>1. /\ HandOf["Handler"] = listed \cup JobsOf(loaded) /\ HandOf'["Handler"] = listed' \cup JobsOf(loaded')
      /\ HandlerKeeps /\ HandlerPhases /\ listed \subseteq Jobs
  BY DEF HandOf, JobsOf, HandsInv, LostOnlyToKill, TypeOK, HandlerTypeOK
<1>2. CASE HandlerRead
  <2>1. PICK kind \in FailedStates \cup {"retrydone"} : handling' = kind /\ listed' = InState({kind})
    BY <1>2 DEF HandlerRead
  <2>2. handling = "idle" /\ loaded' = loaded /\ UNCHANGED tableVars
    BY <1>2 DEF HandlerRead
  <2>3. loaded = {} /\ handling' # "idle"
    BY <1>1, <2>1, <2>2 DEF HandlerPhases, FailedStates
  <2>4. HandlerKeeps' /\ HandlerPhases'
    BY <2>1, <2>2, <2>3 DEF HandlerKeeps, HandlerPhases, In, InState, tableVars
  <2>5. listed' \subseteq InState(FailedStates \cup {"retrydone"}) /\ JobsOf(loaded') = {}
    BY <2>1, <2>2, <2>3 DEF InState, JobsOf
  <2> QED BY <1>1, <2>2, <2>4, <2>5, QuietSpares
<1>3. ASSUME NEW slice \in SUBSET listed, HandlerLoad(slice)
      PROVE  /\ HandlerKeeps' /\ HandlerPhases' /\ UNCHANGED tableVars
             /\ listed' \cup JobsOf(loaded') \subseteq listed
  <2>1. /\ listed' = listed \ slice /\ UNCHANGED handling /\ UNCHANGED tableVars
        /\ loaded' = {[job |-> j, retry |-> retry[j], path |-> path[j]] : j \in slice}
        /\ slice # {}
    BY <1>3 DEF HandlerLoad
  <2>2. \A s \in loaded' : s.job \in slice /\ s.retry = retry[s.job]
    BY <2>1
  <2>3. HandlerPhases'
    BY <1>1, <2>1, <2>2 DEF HandlerPhases
  <2>4. HandlerKeeps'
    BY <1>1, <2>1, <2>2 DEF HandlerKeeps, As, In, Counted, tableVars
  <2> QED BY <2>1, <2>2, <2>3, <2>4 DEF JobsOf
<1>4. ASSUME loaded' = {}, listed' = listed, handling' = StageAfter(listed), UNCHANGED <<retry, path>>,
             \A j \in Jobs : j \in JobsOf(loaded) \/ state'[j] = state[j]
      PROVE  HandlerKeeps' /\ HandlerPhases' /\ Spares(listed \cup JobsOf(loaded)) /\ JobsOf(loaded') = {}
  <2>1. \A j \in listed : j \notin JobsOf(loaded)
    BY <1>1 DEF HandlerPhases, JobsOf
  <2>2. handling' = handling \/ listed = {}
    BY <1>4 DEF StageAfter
  <2>3. HandlerKeeps' /\ HandlerPhases'
    BY <1>1, <1>4, <2>1, <2>2 DEF HandlerKeeps, HandlerPhases, In
  <2> QED BY <1>4, <2>3 DEF Spares, JobsOf
<1>5. CASE HandleFailed
  BY <1>1, <1>4, <1>5 DEF HandleFailed
<1>6. CASE HandleRetryDone
  BY <1>1, <1>4, <1>6 DEF HandleRetryDone, StateSet
<1>7. CASE HandlerCrash
  BY <1>1, <1>7, QuietSpares DEF HandlerCrash, HandlerKeeps, HandlerPhases, JobsOf
<1> QED BY <1>1, <1>2, <1>3, <1>5, <1>6, <1>7, QuietSpares DEF HandleStep

LEMMA RetryStepHands ==
  ASSUME TypeOK, HandsInv, RetryStep \/ RetryCrash
  PROVE  /\ RetryKeeps'
         /\ Spares(HandOf["Retry"])
         /\ HandOf'["Retry"] \subseteq HandOf["Retry"] \cup InState(CooloffStates)
         /\ \A j \in Jobs : state'[j] \in {"executing", "complete"} => state'[j] = state[j]
<1>1. /\ HandOf["Retry"] = JobsOf(cooling) /\ HandOf'["Retry"] = JobsOf(cooling') /\ RetryKeeps
      /\ JobsOf(counts) \subseteq JobsOf(cooling)
      /\ \A s \in cooling : s.job \in Jobs /\ s.state \in CooloffStates
  BY DEF HandOf, JobsOf, HandsInv, LostOnlyToKill, TypeOK, RetryManagerTypeOK, Cooling
<1>2. CASE RetryRead
  <2>1. /\ cooling = {} /\ counts' = counts /\ UNCHANGED tableVars
        /\ cooling' = {[job |-> j, retry |-> retry[j], state |-> state[j]] : j \in InState(CooloffStates)}
    BY <1>2 DEF RetryRead
  <2>2. counts = {}
    BY <1>1, <2>1 DEF JobsOf
  <2>3. \A s \in cooling' : /\ s.job \in InState(CooloffStates)
                            /\ s.state = state[s.job] /\ s.retry = retry[s.job]
    BY <2>1
  <2>4. RetryKeeps'
    BY <2>1, <2>2, <2>3 DEF RetryKeeps, As, In, Counted, tableVars
  <2>5. JobsOf(cooling') \subseteq InState(CooloffStates)
    BY <2>3 DEF JobsOf
  <2> QED BY <1>1, <2>1, <2>4, <2>5, QuietSpares DEF tableVars
<1>3. ASSUME NEW ready \in SUBSET MayBeReady, RetrySelect(ready) PROVE RetryKeeps' /\ UNCHANGED cooling
      /\ UNCHANGED tableVars
  <2>1. counts' = counts \cup {Now(j) : j \in JobsOf(ready)} /\ UNCHANGED cooling /\ UNCHANGED tableVars
    BY <1>3 DEF RetrySelect
  <2>2. \A s \in counts' \ counts : s.retry = retry[s.job]
    BY <2>1 DEF Now
  <2> QED BY <1>1, <2>1, <2>2 DEF RetryKeeps, As, In, Counted, tableVars
<1>4. CASE RetryCommit
  <2>1. /\ cooling' = {} /\ counts' = {} /\ path' = path
        /\ retry' = RetryWritten(counts, 1)
        /\ state' = [j \in Jobs |-> IF j \in JobsOf(counts)
                                    THEN Retried(CHOOSE s \in cooling : s.job = j) ELSE state[j]]
    BY <1>4 DEF RetryCommit
  <2>2. Spares(JobsOf(cooling))
    BY <1>1, <2>1 DEF Spares, RetryWritten, TypeOK, TableTypeOK
  <2>3. ASSUME NEW j \in Jobs, state'[j] \in {"executing", "complete"} PROVE state'[j] = state[j]
    <3>1. ASSUME j \in JobsOf(counts) PROVE FALSE
      <4> DEFINE s == CHOOSE s \in cooling : s.job = j
      <4>1. s \in cooling
        BY <1>1, <3>1, SnapshotChosen
      <4>2. state'[j] = Retried(s) /\ s.state \in CooloffStates
        BY <1>1, <2>1, <3>1, <4>1
      <4> HIDE DEF s
      <4> QED BY <2>3, <4>2, RetriedType DEF PausedStates
    <3> QED BY <2>1, <3>1
  <2> QED BY <1>1, <2>1, <2>2, <2>3 DEF RetryKeeps, JobsOf
<1>5. CASE RetryCrash
  <2>1. cooling' = {} /\ counts' = {} /\ UNCHANGED tableVars
    BY <1>5 DEF RetryCrash
  <2> QED BY <1>1, <2>1, QuietSpares DEF RetryKeeps, JobsOf, tableVars
<1> QED BY <1>1, <1>2, <1>3, <1>4, <1>5, QuietSpares DEF RetryStep, tableVars

LEMMA OperatorStepHands ==
  ASSUME TypeOK, HandsInv, OperatorStep
  PROVE  /\ OperatorKeeps'
         /\ Spares(HandOf["Operator"])
         /\ HandOf'["Operator"] \subseteq HandOf["Operator"] \cup InState(PausedStates)
         /\ \A j \in Jobs : state'[j] \in {"executing", "complete"} => state'[j] = state[j]
<1>1. HandOf["Operator"] = chosen /\ HandOf'["Operator"] = chosen' /\ OperatorKeeps
  BY DEF HandOf, HandsInv, LostOnlyToKill
<1>2. CASE OperatorLists
  <2>1. UNCHANGED tableVars /\ chosen' \subseteq InState(PausedStates)
    BY <1>2 DEF OperatorLists
  <2> QED BY <1>1, <2>1, QuietSpares DEF OperatorKeeps, In, InState, tableVars
<1>3. ASSUME NEW k \in chosen, NEW new \in {"created", "retrydone"}, OperatorMoves(k, new)
      PROVE  /\ OperatorKeeps' /\ Spares(chosen) /\ chosen' \subseteq chosen
             /\ \A j \in Jobs : state'[j] \in {"executing", "complete"} => state'[j] = state[j]
  <2>1. chosen' = chosen \ {k} /\ UNCHANGED <<retry, path>>
        /\ \A j \in Jobs : state'[j] = IF j = k THEN new ELSE state[j]
    BY <1>3 DEF OperatorMoves, StateSet
  <2>2. chosen \subseteq Jobs
    BY DEF TypeOK, RetryManagerTypeOK
  <2>3. OperatorKeeps'
    BY <1>1, <2>1, <2>2 DEF OperatorKeeps, In
  <2>4. Spares(chosen)
    BY <1>3, <2>1 DEF Spares
  <2> QED BY <2>1, <2>3, <2>4
<1> QED BY <1>1, <1>2, <1>3 DEF OperatorStep

LEMMA BatchStepHands ==
  ASSUME TypeOK, NeverMarked, BatchStep, UNCHANGED tracked
  PROVE  UNCHANGED tableVars /\ NeverMarked'
<1>1. UNCHANGED tableVars
  BY DEF BatchStep, Track, Timeout, ProcessEnds, ProcessHeld
<1>2. UNCHANGED rows \/ \E S \in SUBSET rows : rows' = Deactivated(rows, S)
  <2>1. Active \subseteq rows
    BY DEF Active
  <2> QED BY <2>1 DEF BatchStep, Track, Timeout, ProcessEnds, ProcessHeld
<1> QED BY <1>1, <1>2, DeactivatedUnmarked DEF TypeOK, BossAirTypeOK, NeverMarked

LEMMA KillStepHands ==
  ASSUME TypeOK, NeverMarked, KillStep \/ KillCrash, UNCHANGED tracked
  PROVE  /\ Spares({}) /\ NeverMarked' /\ UNCHANGED submitterVars /\ UNCHANGED creatorVars
         /\ \A j \in Jobs : state'[j] = state[j] \/ state'[j] = "killed"
<1>1. UNCHANGED submitterVars /\ UNCHANGED creatorVars
  BY DEF KillStep, KillRead, KillBatch, KillSelect, KillIncrementRetry, KillSetState, KillCrash
<1>2. ASSUME UNCHANGED tableVars, UNCHANGED rows
      PROVE  Spares({}) /\ NeverMarked' /\ \A j \in Jobs : state'[j] = state[j]
  BY <1>2, QuietSpares DEF NeverMarked, tableVars
<1>3. CASE KillBatch
  <2>1. UNCHANGED tableVars /\ \E S \in SUBSET rows : rows' = Deactivated(rows, S)
    <3> DEFINE found(A) == {x \in rows : Attempt(x) \in A}
    <3>1. PICK A : KillBatchJobs(A)
      BY <1>3 DEF KillBatch
    <3>2. UNCHANGED tableVars /\ rows' = Deactivated(rows, found(A)) /\ found(A) \in SUBSET rows
      BY <3>1 DEF KillBatchJobs
    <3> QED BY <3>2
  <2> QED BY <1>1, <2>1, QuietSpares, DeactivatedUnmarked DEF TypeOK, BossAirTypeOK, tableVars
<1>4. CASE KillIncrementRetry
  <2>1. retry' = RetryWritten(killGroup, KillIncrement) /\ UNCHANGED <<state, path, rows>>
    BY <1>4 DEF KillIncrementRetry, bossAirVars
  <2>2. ASSUME NEW j \in Jobs PROVE retry'[j] = retry[j] \/ retry'[j] >= KillIncrement
    <3>1. CASE j \in JobsOf(killGroup)
      <4> DEFINE s == CHOOSE s \in killGroup : s.job = j
      <4>1. s \in killGroup
        BY <3>1, SnapshotChosen
      <4>2. s.retry \in Nat
        BY <4>1 DEF TypeOK, KillTypeOK, Attempts
      <4>3. retry'[j] = s.retry + KillIncrement
        BY <2>1, <3>1 DEF RetryWritten, CountIn
      <4> HIDE DEF s
      <4> QED BY <4>2, <4>3, KillIncrementAssumption
    <3> QED BY <2>1, <3>1 DEF RetryWritten
  <2> QED BY <1>1, <2>1, <2>2 DEF Spares, NeverMarked
<1>5. CASE KillSetState
  BY <1>5 DEF KillSetState, StateSet, Spares, NeverMarked, bossAirVars
<1>6. CASE KillRead \/ KillCrash \/ \E name \in States : KillSelect(name)
  BY <1>2, <1>6 DEF KillRead, KillCrash, KillSelect, bossAirVars
<1> QED BY <1>1, <1>3, <1>4, <1>5, <1>6 DEF KillStep

(* What the components that do not take a step hold, they keep.            *)
LEMMA OthersSpared ==
  ASSUME TypeOK, HandsInv, NEW W, Spares(W)
  PROVE  /\ UNCHANGED submitterVars /\ W \cap HandOf["Submitter"] = {} => SubmitterKeeps'
         /\ UNCHANGED creatorVars /\ W \cap HandOf["Creator"] = {} => CreatorKeeps'
         /\ UNCHANGED trackerVars /\ W \cap HandOf["Tracker"] = {} => TrackerKeeps'
         /\ UNCHANGED accountantVars /\ W \cap HandOf["Accountant"] = {} => AccountantKeeps'
         /\ UNCHANGED handlerVars /\ W \cap HandOf["Handler"] = {} => HandlerKeeps'
         /\ UNCHANGED retryManagerVars /\ W \cap HandOf["Retry"] = {} => RetryKeeps'
         /\ UNCHANGED operatorVars /\ W \cap HandOf["Operator"] = {} => OperatorKeeps'
BY SubmitterSpared, CreatorSpared, TrackerSpared, AccountantSpared, HandlerSpared, RetrySpared,
   OperatorSpared DEF HandsInv, LostOnlyToKill

LEMMA PhasesKept ==
  /\ UNCHANGED submitterVars /\ SubmitterPhases => SubmitterPhases'
  /\ UNCHANGED submitterVars /\ OneBadEach => OneBadEach'
  /\ UNCHANGED handlerVars /\ HandlerPhases => HandlerPhases'
BY DEF SubmitterPhases, OneBadEach, HandlerPhases, Cached, submitterVars, handlerVars

(* A step that no component takes with its own jobs: a kill's, the batch   *)
(* system's, the archiver's.                                               *)
LEMMA NobodysStep ==
  ASSUME TypeOK, HandsInv, Spares({}), NeverMarked',
         \A j \in Jobs : state'[j] \in {"executing", "complete"} => state[j] \in {"executing", "complete"},
         UNCHANGED submitterVars, UNCHANGED creatorVars, UNCHANGED trackerVars, UNCHANGED accountantVars,
         UNCHANGED handlerVars, UNCHANGED retryManagerVars, UNCHANGED operatorVars
  PROVE  HandsInv'
<1>1. LostOnlyToKill'
  BY OthersSpared DEF LostOnlyToKill
<1>2. HandsApart'
  <2>1. DOMAIN HandOf' = DOMAIN HandOf
    BY DEF HandOf
  <2>2. \A c \in DOMAIN HandOf : HandOf'[c] = HandOf[c]
    <3>1. DOMAIN HandOf = {"Submitter", "Creator", "Tracker", "Accountant", "Handler", "Retry", "Operator"}
      BY DEF HandOf
    <3> QED BY <3>1, HandsUnchanged
  <2> QED BY <2>1, <2>2 DEF HandsInv, HandsApart
<1>3. ReportsOpen'
  <2>1. UNCHANGED <<reported, tracked, accounted>>
    BY DEF submitterVars, trackerVars, accountantVars
  <2> QED BY <2>1, ReportsStayOpen DEF HandsInv
<1> QED BY <1>1, <1>2, <1>3, PhasesKept DEF HandsInv

LEMMA NextHands ==
  ASSUME TypeOK, HandsInv, [Next]_vars
  PROVE  HandsInv'
<1> DEFINE Others(c) == \A d \in DOMAIN Names : d # c => HandOf'[d] = HandOf[d]
<1>1. DOMAIN Names = {"Submitter", "Creator", "Tracker", "Accountant", "Handler", "Retry", "Operator"}
      /\ DOMAIN HandOf = DOMAIN Names
  BY NamesApart DEF Names
<1>2. \A c, d \in DOMAIN Names : c # d => HandOf[c] \cap HandOf[d] = {}
  BY <1>1 DEF HandsInv, HandsApart
<1>3. SubmitterPhases /\ OneBadEach /\ HandlerPhases /\ NeverMarked /\ ReportsOpen
  BY DEF HandsInv
<1>4. ASSUME SubmitStep \/ SubmitterCrash \/ Abort, SubmitterFrame PROVE HandsInv'
  <2>1. /\ UNCHANGED creatorVars /\ UNCHANGED trackerVars /\ UNCHANGED accountantVars
        /\ UNCHANGED handlerVars /\ UNCHANGED retryManagerVars /\ UNCHANGED operatorVars
    BY <1>4 DEF SubmitterFrame
  <2>2. Others("Submitter")
    BY <1>1, <2>1, HandsUnchanged
  <2>3. HandsApart'
    BY <1>1, <1>4, <2>2, SubmitterStepHands, HandsStayApart DEF Names
  <2>4. LostOnlyToKill'
    BY <1>1, <1>2, <1>4, <2>1, SubmitterStepHands, OthersSpared DEF LostOnlyToKill
  <2> QED BY <1>3, <1>4, <2>1, <2>3, <2>4, SubmitterStepHands, PhasesKept DEF HandsInv
<1>5. ASSUME CreateStep \/ CreatorCrash, CreatorFrame PROVE HandsInv'
  <2>1. /\ UNCHANGED submitterVars /\ UNCHANGED trackerVars /\ UNCHANGED accountantVars
        /\ UNCHANGED handlerVars /\ UNCHANGED retryManagerVars /\ UNCHANGED operatorVars
    BY <1>5 DEF CreatorFrame
  <2>2. Others("Creator")
    BY <1>1, <2>1, HandsUnchanged
  <2>3. HandsApart'
    BY <1>1, <1>5, <2>2, CreatorStepHands, HandsStayApart DEF Names
  <2>4. LostOnlyToKill'
    BY <1>1, <1>2, <1>5, <2>1, CreatorStepHands, OthersSpared DEF LostOnlyToKill
  <2>5. ReportsOpen' /\ NeverMarked'
    <3>1. UNCHANGED <<reported, tracked, accounted, rows>>
      BY <1>5, <2>1 DEF submitterVars, trackerVars, accountantVars, CreateStep, CreatorRead,
                        CreatorCommit, CreatorCrash, bossAirVars
    <3> QED BY <1>3, <1>5, <3>1, CreatorStepHands, ReportsStayOpen DEF NeverMarked
  <2> QED BY <1>3, <2>1, <2>3, <2>4, <2>5, PhasesKept DEF HandsInv
<1>6. ASSUME BatchStep, BatchFrame PROVE HandsInv'
  <2>1. /\ UNCHANGED submitterVars /\ UNCHANGED trackerVars /\ UNCHANGED accountantVars
        /\ UNCHANGED handlerVars /\ UNCHANGED retryManagerVars /\ UNCHANGED operatorVars
        /\ UNCHANGED creatorVars /\ UNCHANGED tracked
    BY <1>6 DEF BatchFrame, CreatorFrame, trackerVars
  <2>2. UNCHANGED tableVars /\ NeverMarked'
    BY <1>3, <1>6, <2>1, BatchStepHands
  <2>3. Spares({}) /\ state' = state
    BY <2>2, QuietSpares DEF tableVars
  <2> QED BY <2>1, <2>2, <2>3, NobodysStep
<1>7. ASSUME TrackStep \/ TrackerCrash, TrackerFrame PROVE HandsInv'
  <2>1. /\ UNCHANGED submitterVars /\ UNCHANGED creatorVars /\ UNCHANGED accountantVars
        /\ UNCHANGED handlerVars /\ UNCHANGED retryManagerVars /\ UNCHANGED operatorVars
        /\ UNCHANGED <<reported, accounted>>
    BY <1>7 DEF TrackerFrame, submitterVars, accountantVars
  <2>2. Others("Tracker")
    BY <1>1, <2>1, HandsUnchanged
  <2>3. HandsApart'
    BY <1>1, <1>7, <2>1, <2>2, TrackerStepHands, HandsStayApart DEF Names
  <2>4. LostOnlyToKill'
    BY <1>1, <1>2, <1>7, <2>1, TrackerStepHands, OthersSpared DEF LostOnlyToKill
  <2> QED BY <1>3, <1>7, <2>1, <2>3, <2>4, TrackerStepHands, PhasesKept DEF HandsInv
<1>8. ASSUME AccountStep \/ AccountantCrash, AccountantFrame PROVE HandsInv'
  <2>1. /\ UNCHANGED submitterVars /\ UNCHANGED creatorVars /\ UNCHANGED trackerVars
        /\ UNCHANGED handlerVars /\ UNCHANGED retryManagerVars /\ UNCHANGED operatorVars
        /\ UNCHANGED <<reported, tracked>>
    BY <1>8 DEF AccountantFrame, submitterVars, trackerVars
  <2>2. Others("Accountant")
    BY <1>1, <2>1, HandsUnchanged
  <2>3. HandsApart'
    BY <1>1, <1>8, <2>1, <2>2, AccountantStepHands, HandsStayApart DEF Names
  <2>4. LostOnlyToKill'
    BY <1>1, <1>2, <1>8, <2>1, AccountantStepHands, OthersSpared DEF LostOnlyToKill
  <2>5. NeverMarked'
    <3>1. UNCHANGED <<rows, tracked>>
      BY <1>8, <2>1 DEF AccountStep, AccountantRead, AccountantCommit, AccountantCrash, bossAirVars
    <3> QED BY <1>3, <3>1 DEF NeverMarked
  <2> QED BY <1>3, <1>8, <2>1, <2>3, <2>4, <2>5, AccountantStepHands, PhasesKept DEF HandsInv
<1>9. ASSUME HandleStep \/ HandlerCrash, HandlerFrame PROVE HandsInv'
  <2>1. /\ UNCHANGED submitterVars /\ UNCHANGED creatorVars /\ UNCHANGED trackerVars
        /\ UNCHANGED accountantVars /\ UNCHANGED retryManagerVars /\ UNCHANGED operatorVars
    BY <1>9 DEF HandlerFrame
  <2>2. Others("Handler")
    BY <1>1, <2>1, HandsUnchanged
  <2>3. HandsApart'
    BY <1>1, <1>9, <2>2, HandlerStepHands, HandsStayApart DEF Names
  <2>4. LostOnlyToKill'
    BY <1>1, <1>2, <1>9, <2>1, HandlerStepHands, OthersSpared DEF LostOnlyToKill
  <2>5. ReportsOpen' /\ NeverMarked'
    <3>1. UNCHANGED <<reported, tracked, accounted, rows>>
      BY <1>9, <2>1 DEF submitterVars, trackerVars, accountantVars, HandleStep, HandlerRead, HandlerLoad,
                        HandleFailed, HandleRetryDone, HandlerCrash, bossAirVars
    <3>2. \A j \in Jobs : state'[j] \in {"executing", "complete"} => state'[j] = state[j]
      BY <1>9, HandlerMoves DEF CooloffStates
    <3> QED BY <1>3, <3>1, <3>2, ReportsStayOpen DEF NeverMarked
  <2> QED BY <1>3, <1>9, <2>1, <2>3, <2>4, <2>5, HandlerStepHands, PhasesKept DEF HandsInv
<1>10. ASSUME RetryStep \/ RetryCrash, RetryFrame, UNCHANGED chosen, UNCHANGED rows PROVE HandsInv'
  <2>1. /\ UNCHANGED submitterVars /\ UNCHANGED creatorVars /\ UNCHANGED trackerVars
        /\ UNCHANGED accountantVars /\ UNCHANGED handlerVars /\ UNCHANGED operatorVars
    BY <1>10 DEF RetryFrame, operatorVars
  <2>2. Others("Retry")
    BY <1>1, <2>1, HandsUnchanged
  <2>3. HandsApart'
    BY <1>1, <1>10, <2>2, RetryStepHands, HandsStayApart DEF Names
  <2>4. LostOnlyToKill'
    BY <1>1, <1>2, <1>10, <2>1, RetryStepHands, OthersSpared DEF LostOnlyToKill
  <2>5. ReportsOpen' /\ NeverMarked'
    <3>1. UNCHANGED <<reported, tracked, accounted>>
      BY <2>1 DEF submitterVars, trackerVars, accountantVars
    <3> QED BY <1>3, <1>10, <3>1, RetryStepHands, ReportsStayOpen DEF NeverMarked
  <2> QED BY <1>3, <2>1, <2>3, <2>4, <2>5, PhasesKept DEF HandsInv
<1>11. ASSUME OperatorStep, RetryFrame, UNCHANGED retryManagerVars, UNCHANGED rows PROVE HandsInv'
  <2>1. /\ UNCHANGED submitterVars /\ UNCHANGED creatorVars /\ UNCHANGED trackerVars
        /\ UNCHANGED accountantVars /\ UNCHANGED handlerVars /\ UNCHANGED retryManagerVars
    BY <1>11 DEF RetryFrame
  <2>2. Others("Operator")
    BY <1>1, <2>1, HandsUnchanged
  <2>3. HandsApart'
    BY <1>1, <1>11, <2>2, OperatorStepHands, HandsStayApart DEF Names
  <2>4. LostOnlyToKill'
    BY <1>1, <1>2, <1>11, <2>1, OperatorStepHands, OthersSpared DEF LostOnlyToKill
  <2>5. ReportsOpen' /\ NeverMarked'
    <3>1. UNCHANGED <<reported, tracked, accounted>>
      BY <2>1 DEF submitterVars, trackerVars, accountantVars
    <3> QED BY <1>3, <1>11, <3>1, OperatorStepHands, ReportsStayOpen DEF NeverMarked
  <2> QED BY <1>3, <2>1, <2>3, <2>4, <2>5, PhasesKept DEF HandsInv
<1>12. RetryStep \/ RetryCrash => UNCHANGED chosen /\ UNCHANGED rows
  BY DEF RetryStep, RetryRead, RetrySelect, RetryCommit, RetryCrash, bossAirVars
<1>13. OperatorStep => UNCHANGED retryManagerVars /\ UNCHANGED rows
  BY DEF OperatorStep, OperatorLists, OperatorMoves, bossAirVars
<1>14. ASSUME ArchiveStep \/ ArchiverCrash, ArchiverFrame PROVE HandsInv'
  <2>1. /\ UNCHANGED submitterVars /\ UNCHANGED creatorVars /\ UNCHANGED trackerVars
        /\ UNCHANGED accountantVars /\ UNCHANGED handlerVars /\ UNCHANGED retryManagerVars
        /\ UNCHANGED operatorVars
    BY <1>14 DEF ArchiverFrame
  <2>2. /\ UNCHANGED <<rows, retry, path>>
        /\ \A j \in Jobs : state'[j] = state[j] \/ state'[j] = "cleanout"
    BY <1>14 DEF ArchiveStep, ArchiverRead, ArchiverCommit, ArchiverCrash, bossAirVars, tableVars, StateSet
  <2>3. Spares({}) /\ NeverMarked'
    BY <1>3, <2>1, <2>2 DEF Spares, NeverMarked, trackerVars
  <2> QED BY <2>1, <2>2, <2>3, NobodysStep
<1>15. ASSUME KillStep \/ KillCrash, KillFrame PROVE HandsInv'
  <2>1. /\ UNCHANGED trackerVars /\ UNCHANGED accountantVars /\ UNCHANGED handlerVars
        /\ UNCHANGED retryManagerVars /\ UNCHANGED operatorVars /\ UNCHANGED tracked
    BY <1>15 DEF KillFrame, trackerVars
  <2>2. /\ Spares({}) /\ NeverMarked' /\ UNCHANGED submitterVars /\ UNCHANGED creatorVars
        /\ \A j \in Jobs : state'[j] = state[j] \/ state'[j] = "killed"
    BY <1>3, <1>15, <2>1, KillStepHands
  <2> QED BY <2>1, <2>2, NobodysStep
<1>16. ASSUME UNCHANGED vars PROVE HandsInv'
  <2>1. /\ UNCHANGED submitterVars /\ UNCHANGED creatorVars /\ UNCHANGED trackerVars
        /\ UNCHANGED accountantVars /\ UNCHANGED handlerVars /\ UNCHANGED retryManagerVars
        /\ UNCHANGED operatorVars /\ UNCHANGED tableVars /\ UNCHANGED rows
    BY <1>16 DEF vars, bossAirVars
  <2>2. Spares({}) /\ NeverMarked' /\ state' = state
    BY <1>3, <2>1, QuietSpares DEF NeverMarked, trackerVars, tableVars
  <2> QED BY <2>1, <2>2, NobodysStep
<1> QED BY <1>4, <1>5, <1>6, <1>7, <1>8, <1>9, <1>10, <1>11, <1>12, <1>13, <1>14, <1>15, <1>16
        DEF Next, Steps, Crashes

(* The invariant behind the next two theorems.                             *)
THEOREM HandsInvariant == Spec => [](TypeOK /\ HandsInv)
<1>1. Init => HandsInv
  <2> SUFFICES ASSUME Init PROVE HandsInv
    OBVIOUS
  <2>1. Cached = {}
    BY DEF Init, SubmitterInit, EmptyCache, Cached
  <2>2. /\ badJobs = {} /\ reported = {} /\ accepted = {} /\ rejected = {} /\ creating = {} /\ tracked = {}
        /\ accounted = {} /\ listed = {} /\ loaded = {} /\ cooling = {} /\ counts = {} /\ chosen = {}
        /\ rows = {} /\ step = "idle" /\ handling = "idle"
    BY DEF Init, SubmitterInit, CreatorInit, TrackerInit, AccountantInit, HandlerInit, RetryManagerInit,
           BossAirInit
  <2>3. LostOnlyToKill
    BY <2>1, <2>2 DEF LostOnlyToKill, SubmitterKeeps, CreatorKeeps, TrackerKeeps, AccountantKeeps,
                      HandlerKeeps, RetryKeeps, OperatorKeeps
  <2>4. HandsApart
    BY <2>1, <2>2 DEF HandsApart, HandOf, JobsOf
  <2> QED BY <2>1, <2>2, <2>3, <2>4 DEF HandsInv, OneBadEach, ReportsOpen, SubmitterPhases, HandlerPhases,
                                        NeverMarked
<1>2. TypeOK /\ HandsInv /\ [Next]_vars => HandsInv'
  BY NextHands
<1> QED BY <1>1, <1>2, TypeCorrect, PTL DEF Spec

(* A kill runs beside everyone, without a lock and without a transaction,  *)
(* and a component may write over it later.  Even so no two components act *)
(* on one job: in every state, whatever was killed, retried or crashed,    *)
(* what a component holds is what the table says, or a kill came between.  *)
THEOREM NothingElseIsLost == Spec => []LostOnlyToKill
<1>1. HandsInv => LostOnlyToKill
  BY DEF HandsInv
<1> QED BY <1>1, HandsInvariant, PTL

-----------------------------------------------------------------------------
(* Retry counts.                                                           *)

(* Who leaves retry counts alone, and lets no job cool off.                *)
LEMMA NoRetries ==
  ASSUME TypeOK,
         \/ SubmitStep \/ SubmitterCrash \/ Abort \/ CreateStep \/ CreatorCrash \/ BatchStep
         \/ TrackStep \/ TrackerCrash \/ AccountStep \/ AccountantCrash \/ HandlerCrash
         \/ OperatorStep \/ ArchiveStep \/ ArchiverCrash
  PROVE  /\ retry' = retry
         /\ \A j \in Jobs : state'[j] \in CooloffStates => state'[j] = state[j]
<1>1. CASE SubmitStep \/ SubmitterCrash \/ Abort
  BY <1>1 DEF SubmitStep, SkipRefresh, Refresh, RegisterReports, EndCycle, CommitBatch, FailBadJobs,
              SubmitBatch, SubmitterCrash, Abort, tableVars, StateSet, CooloffStates
<1>2. CASE CreateStep \/ CreatorCrash \/ BatchStep
  BY <1>2 DEF CreateStep, CreatorRead, CreatorCommit, CreatorCrash, BatchStep, Track, Timeout, ProcessEnds,
              ProcessHeld, tableVars, CooloffStates
<1>3. CASE TrackStep \/ TrackerCrash \/ AccountStep \/ AccountantCrash
  <2>1. CASE TrackerCommit
    <3>1. retry' = retry /\ \E S : state' = StateSet(S, "jobfailed") \/ state' = StateSet(S, "complete")
      BY <2>1 DEF TrackerCommit
    <3> QED BY <3>1 DEF StateSet, CooloffStates
  <2>2. CASE \E slice \in SUBSET accounted : AccountantCommit(slice)
    BY <2>2 DEF AccountantCommit, CooloffStates
  <2> QED BY <1>3, <2>1, <2>2 DEF TrackStep, TrackerRead, TrackerCrash, AccountStep, AccountantRead,
                                  AccountantCrash, tableVars
<1>4. CASE HandlerCrash \/ OperatorStep \/ ArchiveStep \/ ArchiverCrash
  BY <1>4 DEF HandlerCrash, OperatorStep, OperatorLists, OperatorMoves, ArchiveStep, ArchiverRead,
              ArchiverCommit, ArchiverCrash, tableVars, StateSet, CooloffStates
<1> QED BY <1>1, <1>2, <1>3, <1>4

LEMMA NextRetries ==
  ASSUME TypeOK, HandsInv, RetriesBounded, RetryLeft, [Next]_vars
  PROVE  RetriesBounded' /\ RetryLeft'
<1> DEFINE Kept1 == RetriesBounded' /\ RetryLeft'
<1>1. /\ \A j \in Jobs : retry[j] \in Nat /\ AtMost(retry[j], MaxRetries)
      /\ \A j \in InState(CooloffStates) \cup JobsOf(cooling) : AtMost(retry[j], MaxRetries - 1)
      /\ \A s \in counts : AtMost(s.retry, MaxRetries - 1)
      /\ killStep # "idle" => ~Pristine
      /\ MaxRetries \in Nat /\ KillIncrement \in Nat /\ MaxRetries < KillIncrement
  BY ErrorHandlerAssumption, KillIncrementAssumption, AgentJobsAssumption
     DEF TypeOK, TableTypeOK, RetriesBounded, RetryLeft
<1>2. \A r, limit : AtMost(r, limit) => AtMost(r, limit)'
  BY PristineBefore DEF AtMost
<1>3. ASSUME retry' = retry, cooling' = cooling, counts' = counts, killStep' = killStep,
             \A j \in Jobs : state'[j] \in CooloffStates =>
                               state'[j] = state[j] \/ AtMost(retry[j], MaxRetries - 1)
      PROVE  Kept1
  <2>1. \A j \in Jobs : state'[j] \in CooloffStates => AtMost(retry[j], MaxRetries - 1)
    BY <1>1, <1>3 DEF InState
  <2> QED BY <1>1, <1>2, <1>3, <2>1, PristineBefore DEF RetriesBounded, RetryLeft, InState, JobsOf
<1>4. ASSUME HandleStep, HandlerFrame PROVE Kept1
  <2>1. cooling' = cooling /\ counts' = counts /\ killStep' = killStep /\ retry' = retry
    BY <1>4, HandlerMoves DEF HandlerFrame, retryManagerVars, killVars
  <2>2. CASE HandleFailed
    <3>1. ASSUME NEW j \in Jobs, state'[j] \in CooloffStates, state'[j] # state[j]
          PROVE  AtMost(retry[j], MaxRetries - 1)
      <4> DEFINE s == CHOOSE s \in loaded : s.job = j
      <4>1. j \in JobsOf(loaded) /\ state'[j] = Verdict(s)
        BY <2>2, <3>1 DEF HandleFailed
      <4>2. s \in loaded /\ s.job = j
        BY <4>1, SnapshotChosen
      <4>3. s.retry \in Nat /\ Counted(j, s.retry)
        BY <4>2 DEF TypeOK, HandlerTypeOK, HandsInv, LostOnlyToKill, HandlerKeeps, As
      <4> HIDE DEF s
      <4>4. ~Spent(s)
        BY <3>1, <4>1 DEF Verdict, CooloffStates
      <4>5. s.retry < MaxRetries
        BY <1>1, <4>3, <4>4 DEF Spent
      <4> QED BY <1>1, <4>3, <4>5 DEF Counted, AtMost
    <3> QED BY <1>3, <2>1, <3>1
  <2>3. CASE ~HandleFailed
    <3>1. \A j \in Jobs : state'[j] \in CooloffStates => state'[j] = state[j]
      BY <1>4, <2>3 DEF HandleStep, HandlerRead, HandlerLoad, HandleRetryDone, StateSet, CooloffStates,
                        tableVars
    <3> QED BY <1>3, <2>1, <3>1
  <2> QED BY <2>2, <2>3
<1>5. ASSUME RetryStep \/ RetryCrash, RetryFrame PROVE Kept1
  <2>1. killStep' = killStep
    BY <1>5 DEF RetryFrame, killVars
  <2>2. CASE RetryCommit
    <3>1. /\ retry' = RetryWritten(counts, 1) /\ cooling' = {} /\ counts' = {}
          /\ state' = [j \in Jobs |-> IF j \in JobsOf(counts)
                                      THEN Retried(CHOOSE s \in cooling : s.job = j) ELSE state[j]]
      BY <2>2 DEF RetryCommit
    <3>2. ASSUME NEW j \in JobsOf(counts)
          PROVE  /\ retry'[j] = CountIn(counts, j) + 1 /\ CountIn(counts, j) \in Nat
                 /\ AtMost(CountIn(counts, j), MaxRetries - 1)
                 /\ state'[j] \notin CooloffStates
      <4> DEFINE c == CHOOSE c \in counts : c.job = j
                 s == CHOOSE s \in cooling : s.job = j
      <4>1. c \in counts /\ c.job = j
        BY SnapshotChosen
      <4>2. c.retry \in Nat /\ j \in Jobs /\ j \in JobsOf(cooling)
        BY <4>1 DEF TypeOK, RetryManagerTypeOK, Attempts, JobsOf
      <4>3. s \in cooling
        BY <4>2, SnapshotChosen
      <4>4. s.state \in CooloffStates
        BY <4>3 DEF TypeOK, RetryManagerTypeOK, Cooling
      <4>5. state'[j] = Retried(s)
        BY <3>1, <4>2
      <4>6. retry'[j] = CountIn(counts, j) + 1 /\ CountIn(counts, j) = c.retry
        BY <3>1, <4>2 DEF RetryWritten, CountIn
      <4> HIDE DEF c, s
      <4>7. state'[j] \notin CooloffStates
        BY <4>4, <4>5, RetriedType DEF PausedStates, CooloffStates
      <4> QED BY <1>1, <4>1, <4>2, <4>6, <4>7
    <3>3. \A j \in Jobs : AtMost(retry'[j], MaxRetries)
      <4>1. \A j \in JobsOf(counts) : AtMost(retry'[j], MaxRetries)
        BY <1>1, <3>2 DEF AtMost
      <4> QED BY <1>1, <3>1, <4>1 DEF RetryWritten
    <3>4. \A j \in Jobs : state'[j] \in CooloffStates => AtMost(retry'[j], MaxRetries - 1)
      BY <1>1, <3>1, <3>2 DEF RetryWritten, InState
    <3> QED BY <1>1, <1>2, <2>1, <3>1, <3>3, <3>4, PristineBefore DEF RetriesBounded, RetryLeft, InState, JobsOf
  <2>3. CASE ~RetryCommit
    <3>1. UNCHANGED tableVars
      BY <1>5, <2>3 DEF RetryStep, RetryRead, RetrySelect, RetryCrash
    <3>2. ASSUME NEW j \in JobsOf(cooling') PROVE AtMost(retry[j], MaxRetries - 1)
      <4>1. CASE RetryRead
        <5>1. j \in InState(CooloffStates)
          BY <3>2, <4>1 DEF RetryRead, JobsOf
        <5> QED BY <1>1, <5>1
      <4> QED BY <1>1, <1>5, <2>3, <3>2, <4>1 DEF RetryStep, RetrySelect, RetryCrash, JobsOf
    <3>3. ASSUME NEW s \in counts', s \notin counts PROVE AtMost(s.retry, MaxRetries - 1)
      <4>1. PICK ready \in SUBSET MayBeReady : counts' = counts \cup {Now(j) : j \in JobsOf(ready)}
        BY <1>5, <2>3, <3>3 DEF RetryStep, RetryRead, RetrySelect, RetryCrash
      <4>2. PICK j \in JobsOf(ready) : s = Now(j)
        BY <3>3, <4>1
      <4>3. j \in JobsOf(cooling)
        BY <4>2 DEF JobsOf, MayBeReady
      <4> QED BY <1>1, <4>2, <4>3 DEF Now
    <3> QED BY <1>1, <1>2, <2>1, <3>1, <3>2, <3>3, PristineBefore DEF RetriesBounded, RetryLeft, InState, tableVars
  <2> QED BY <2>2, <2>3
<1>6. ASSUME KillStep \/ KillCrash, KillFrame PROVE Kept1
  <2>1. cooling' = cooling /\ counts' = counts /\ (killStep' # "idle" => ~Pristine')
    BY <1>1, <1>6, PristineBefore DEF KillFrame, retryManagerVars, KillStep, KillRead, KillFiles, KillBatch, KillSelect,
                   KillIncrementRetry, KillSetState, KillCrash, Pristine
  <2>2. \A j \in Jobs : state'[j] \in CooloffStates => state'[j] = state[j]
    BY <1>6 DEF KillStep, KillRead, KillBatch, KillBatchJobs, KillSelect, KillIncrementRetry, KillSetState,
                KillCrash, tableVars, StateSet, CooloffStates
  <2>3. \A j \in Jobs : retry'[j] = retry[j] \/ (~Pristine' /\ retry'[j] >= KillIncrement)
    <3>1. CASE KillIncrementRetry
      <4>1. Spares({})
        BY <1>6, <3>1, KillStepHands DEF HandsInv, KillFrame, trackerVars
      <4>2. ~Pristine'
        BY <1>1, <3>1, PristineBefore DEF KillIncrementRetry
      <4> QED BY <4>1, <4>2 DEF Spares
    <3>2. CASE ~KillIncrementRetry
      BY <1>6, <3>2 DEF KillStep, KillRead, KillBatch, KillBatchJobs, KillSelect, KillSetState, KillCrash,
                        tableVars
    <3> QED BY <3>1, <3>2
  <2>4. \A j \in Jobs : \A limit : AtMost(retry[j], limit) =>
           retry'[j] <= limit \/ (~Pristine' /\ retry'[j] >= KillIncrement)
    BY <2>3, PristineBefore DEF AtMost
  <2>5. RetriesBounded'
    BY <1>1, <2>4 DEF RetriesBounded, AtMost
  <2>6. \A j \in InState(CooloffStates)' \cup JobsOf(cooling) :
           j \in Jobs /\ (retry'[j] <= MaxRetries - 1 \/ (~Pristine' /\ retry'[j] >= KillIncrement))
    <3>1. \A j \in InState(CooloffStates)' : j \in InState(CooloffStates)
      BY <2>2 DEF InState
    <3>2. InState(CooloffStates) \cup JobsOf(cooling) \subseteq Jobs
      BY DEF InState, JobsOf, TypeOK, RetryManagerTypeOK, Cooling
    <3> QED BY <1>1, <2>4, <3>1, <3>2
  <2>7. \A s \in counts : s.retry <= MaxRetries - 1 \/ (~Pristine' /\ s.retry >= KillIncrement)
    BY <1>1, PristineBefore DEF AtMost
  <2> QED BY <2>1, <2>5, <2>6, <2>7 DEF RetryLeft, AtMost, JobsOf
<1>7. ASSUME \/ (SubmitStep \/ SubmitterCrash \/ Abort) /\ SubmitterFrame
             \/ (CreateStep \/ CreatorCrash) /\ CreatorFrame
             \/ BatchStep /\ BatchFrame
             \/ (TrackStep \/ TrackerCrash) /\ TrackerFrame
             \/ (AccountStep \/ AccountantCrash) /\ AccountantFrame
             \/ HandlerCrash /\ HandlerFrame
             \/ OperatorStep /\ RetryFrame
             \/ (ArchiveStep \/ ArchiverCrash) /\ ArchiverFrame
      PROVE  Kept1
  <2>1. cooling' = cooling /\ counts' = counts /\ killStep' = killStep
    BY <1>7 DEF SubmitterFrame, CreatorFrame, BatchFrame, TrackerFrame, AccountantFrame, HandlerFrame,
                RetryFrame, ArchiverFrame, OperatorStep, OperatorLists, OperatorMoves, retryManagerVars,
                killVars
  <2> QED BY <1>3, <1>7, <2>1, NoRetries
<1>8. CASE UNCHANGED vars
  BY <1>3, <1>8 DEF vars, tableVars, retryManagerVars, killVars
<1> QED BY <1>4, <1>5, <1>6, <1>7, <1>8 DEF Next, Steps, Crashes

(* ErrorHandler's limit, RetryManager's increment and the kill's, which are*)
(* three components' business, fit together: no job ever has more retries  *)
(* than maxRetries unless it carries a kill - for every limit, either      *)
(* plugin, any crashes, and however the reads and writes of the retry      *)
(* counts fall between each other.                                         *)
THEOREM RetriesBoundedHolds == Spec => []RetriesBounded
<1>1. Init => RetriesBounded /\ RetryLeft
  BY ErrorHandlerAssumption
     DEF Init, TableInit, RetryManagerInit, KillInit, RetriesBounded, RetryLeft, AtMost, InState, JobsOf,
         CooloffStates
<1>2. TypeOK /\ HandsInv /\ RetriesBounded /\ RetryLeft /\ [Next]_vars
         => (RetriesBounded /\ RetryLeft)'
  BY NextRetries
<1> QED BY <1>1, <1>2, HandsInvariant, PTL DEF Spec
=============================================================================
