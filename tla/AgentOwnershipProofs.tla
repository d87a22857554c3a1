------------------------ MODULE AgentOwnershipProofs -------------------------
(***************************************************************************)
(* Ownership, for every value of the constants.  The argument is that the  *)
(* job states are shared out among the components: a step of a component   *)
(* writes only jobs whose state is one of ITS states (OnlyIn), and what    *)
(* the others hold are jobs in theirs.                                     *)
(***************************************************************************)
EXTENDS AgentTypeProofs

(* A step that leaves alone every job whose state is not one of names, but *)
(* may say where the report of a job is that failed in submission.         *)
OnlyIn(names) ==
  \A j \in Jobs : state[j] \notin names =>
    /\ state'[j] = state[j] /\ retry'[j] = retry[j]
    /\ path'[j] = path[j] \/ \E s \in reported : s.job = j /\ path'[j] = s.retry

(* A step that moves jobs along the transition table only, and kills none. *)
Legal ==
  \A j \in Jobs :
    \/ state'[j] = state[j] /\ retry'[j] = retry[j]
    \/ /\ state'[j] \in Transitions[state[j]] \ {"killed"}
       /\ retry'[j] = retry[j] + RetryIncrement(state[j], state'[j])

(* What holds while Pristine.                                              *)
Tidy == /\ EveryoneOwns /\ SubmitterPhases /\ LateReports /\ HandlerPhases /\ NeverMarked
        /\ NothingKilled

-----------------------------------------------------------------------------
(* A write to jobs in the states of one component disturbs no other.       *)

LEMMA SubmitterUndisturbed ==
  ASSUME TypeOK, SubmitterOwns, SubmitterPhases, UNCHANGED submitterVars,
         NEW names, OnlyIn(names), "created" \notin names
  PROVE  SubmitterOwns' /\ SubmitterPhases'
<1>1. SubmitterPhases'
  BY DEF SubmitterPhases, submitterVars, Cached
<1>2. \A j \in Cached : Waiting(j, cache[j])'
  BY DEF TypeOK, TableTypeOK, SubmitterOwns, Waiting, OnlyIn, Cached, submitterVars
<1>3. \A s \in badJobs \cup rejected \cup accepted : s.job \in Jobs
  BY DEF TypeOK, SubmitterTypeOK, Attempts, Processes
<1>4. \A s \in badJobs \cup rejected \cup accepted : Waiting(s.job, s.retry)'
  BY <1>3 DEF SubmitterOwns, Waiting, OnlyIn
<1> QED BY <1>1, <1>2, <1>4 DEF SubmitterOwns, submitterVars, Cached

LEMMA ReportsUndisturbed ==
  ASSUME TypeOK, LateReports, UNCHANGED submitterVars, Legal,
         NEW names, OnlyIn(names), "created" \notin names
  PROVE  LateReports'
<1> SUFFICES ASSUME NEW s \in reported
             PROVE  /\ state'[s.job] \in {"submitfailed", "submitcooloff", "submitpaused", "created",
                                          "retrydone", "exhausted", "cleanout"}
                    /\ state'[s.job] = "submitfailed" => retry'[s.job] = s.retry
  BY DEF LateReports, submitterVars
<1>1. s.job \in Jobs
  BY DEF TypeOK, SubmitterTypeOK, Attempts
<1>2. CASE state'[s.job] = state[s.job] /\ retry'[s.job] = retry[s.job]
  BY <1>2 DEF LateReports
<1>3. CASE state'[s.job] \in Transitions[state[s.job]] \ {"killed"} /\ state[s.job] # "created"
  BY <1>3 DEF LateReports, Transitions
<1> QED BY <1>1, <1>2, <1>3 DEF Legal, OnlyIn

LEMMA CreatorUndisturbed ==
  ASSUME TypeOK, CreatorOwns, UNCHANGED creatorVars,
         NEW names, OnlyIn(names), "new" \notin names
  PROVE  CreatorOwns'
BY DEF TypeOK, CreatorTypeOK, CreatorOwns, creatorVars, OnlyIn

LEMMA TrackerUndisturbed ==
  ASSUME TypeOK, TrackerOwns, UNCHANGED trackerVars,
         NEW names, OnlyIn(names), "executing" \notin names
  PROVE  TrackerOwns'
<1>1. \A x \in tracked : x.job \in Jobs
  BY DEF TypeOK, TrackerTypeOK, Rows
<1> QED BY <1>1 DEF TrackerOwns, trackerVars, OnlyIn

LEMMA AccountantUndisturbed ==
  ASSUME TypeOK, AccountantOwns, LateReports, UNCHANGED accountantVars,
         NEW names, OnlyIn(names), "complete" \notin names
  PROVE  AccountantOwns'
<1>1. \A s \in accounted : s.job \in Jobs
  BY DEF TypeOK, AccountantTypeOK
<1>2. \A s \in accounted, r \in reported : r.job # s.job
  BY DEF AccountantOwns, LateReports
<1> QED BY <1>1, <1>2 DEF AccountantOwns, accountantVars, OnlyIn

LEMMA HandlerUndisturbed ==
  ASSUME TypeOK, HandlerOwns, HandlerPhases, LateReports, UNCHANGED handlerVars,
         NEW names, OnlyIn(names), (FailedStates \cup {"retrydone"}) \cap names = {}
  PROVE  HandlerOwns' /\ HandlerPhases'
<1>1. listed \subseteq Jobs /\ \A s \in loaded : s.job \in Jobs
  BY DEF TypeOK, HandlerTypeOK
<1>2. handling \notin names \/ (listed = {} /\ loaded = {})
  BY DEF TypeOK, HandlerTypeOK, HandlerPhases
<1>3. \A s \in loaded, r \in reported : r.job = s.job =>
         handling \notin {"createfailed", "jobfailed"} /\ (handling = "submitfailed" => r.retry = s.retry)
  BY DEF HandlerOwns, LateReports
<1>4. /\ \A j \in listed : state'[j] = handling
      /\ \A s \in loaded : state'[s.job] = handling /\ retry'[s.job] = s.retry
  BY <1>1, <1>2 DEF HandlerOwns, OnlyIn
<1>5. \A s \in loaded : \/ path'[s.job] = path[s.job]
                         \/ \E r \in reported : r.job = s.job /\ path'[s.job] = r.retry
  BY <1>1, <1>2 DEF HandlerOwns, OnlyIn
<1>6. HandlerOwns'
  BY <1>3, <1>4, <1>5 DEF HandlerOwns, handlerVars
<1> QED BY <1>6 DEF HandlerPhases, handlerVars

LEMMA RetryUndisturbed ==
  ASSUME TypeOK, RetryOwns, UNCHANGED retryManagerVars,
         NEW names, OnlyIn(names), CooloffStates \cap names = {}
  PROVE  RetryOwns'
<1>1. \A s \in cooling : s.job \in Jobs /\ s.state \in CooloffStates
  BY DEF TypeOK, RetryManagerTypeOK, Cooling
<1>2. \A s \in counts : s.job \in Jobs /\ state[s.job] \in CooloffStates
  <2>1. \A s \in counts : \E c \in cooling : c.job = s.job
    BY DEF TypeOK, RetryManagerTypeOK, JobsOf
  <2> QED BY <1>1, <2>1 DEF RetryOwns
<1> QED BY <1>1, <1>2 DEF RetryOwns, retryManagerVars, OnlyIn

LEMMA OperatorUndisturbed ==
  ASSUME TypeOK, OperatorOwns, UNCHANGED operatorVars,
         NEW names, OnlyIn(names), PausedStates \cap names = {}
  PROVE  OperatorOwns'
BY DEF TypeOK, RetryManagerTypeOK, OperatorOwns, operatorVars, OnlyIn

LEMMA ArchiverUndisturbed ==
  ASSUME TypeOK, ArchiverOwns, UNCHANGED archiverVars,
         NEW names, OnlyIn(names), {"success", "exhausted"} \cap names = {}
  PROVE  ArchiverOwns'
BY DEF TypeOK, ArchiverTypeOK, ArchiverOwns, archiverVars, OnlyIn

-----------------------------------------------------------------------------
(* Facts that every component's proof uses.                                *)

LEMMA QuietStep ==
  ASSUME UNCHANGED tableVars
  PROVE  Legal /\ \A names : OnlyIn(names)
BY DEF tableVars, Legal, OnlyIn

(* A move that costs no retry.                                             *)
LEMMA FreeMove ==
  ASSUME NEW old, NEW new, old \notin CooloffStates, new # "killed"
  PROVE  RetryIncrement(old, new) = 0
BY DEF RetryIncrement

LEMMA NothingKilledKept ==
  ASSUME TypeOK, NothingKilled, Legal, UNCHANGED killVars
  PROVE  NothingKilled'
BY DEF NothingKilled, Legal, InState, killVars

LEMMA DeactivatedUnmarked ==
  ASSUME rows \subseteq Rows, NeverMarked, NEW S \in SUBSET rows,
         rows' = Deactivated(rows, S), UNCHANGED tracked
  PROVE  NeverMarked'
<1>1. ASSUME NEW x \in rows PROVE ~([x EXCEPT !.active = FALSE]).timeout
  BY <1>1 DEF NeverMarked, Rows
<1> QED BY <1>1 DEF NeverMarked, Deactivated

(* What is cached after a purge and a refill.                              *)
LEMMA CachedAfter ==
  ASSUME TypeOK, NEW J, NEW new, cache' = CacheWith(J, new)
  PROVE  \A j \in Cached' : \/ j \in new /\ cache'[j] = retry[j]
                            \/ j \in J \cap Cached /\ cache'[j] = cache[j]
BY DEF CacheWith, Cached

-----------------------------------------------------------------------------
(* Each component keeps what everybody holds true, and moves jobs legally. *)

LEMMA SubmitterStepTidy ==
  ASSUME TypeOK, Tidy, SubmitStep \/ SubmitterCrash \/ Abort, SubmitterFrame
  PROVE  Tidy' /\ Legal /\ OnlyIn({"created"})
<1> DEFINE Mine == /\ SubmitterOwns' /\ SubmitterPhases' /\ LateReports' /\ NeverMarked'
                   /\ OnlyIn({"created"}) /\ Legal
<1>0. /\ SubmitterOwns /\ SubmitterPhases /\ LateReports /\ NeverMarked
      /\ UNCHANGED tracked
  BY DEF Tidy, EveryoneOwns, SubmitterFrame, trackerVars
<1>1. ASSUME NEW J \in SUBSET Cached, cache' = CacheWith(J, {}), UNCHANGED tableVars,
             UNCHANGED rows, UNCHANGED <<badJobs, reported, accepted, rejected>>,
             step \in {"idle", "assign"}, step' \in {"idle", "assign"}
      PROVE  Mine
  <2>1. \A j \in Cached' : j \in Cached /\ cache'[j] = cache[j]
    BY <1>1, CachedAfter
  <2>2. SubmitterPhases'
    BY <1>0, <1>1, <2>1 DEF SubmitterPhases
  <2>3. SubmitterOwns'
    BY <1>0, <1>1, <2>1 DEF SubmitterOwns, Waiting, tableVars
  <2>4. LateReports'
    BY <1>0, <1>1 DEF SubmitterPhases, LateReports
  <2> QED BY <1>0, <1>1, <2>2, <2>3, <2>4, QuietStep DEF NeverMarked
<1>2. ASSUME SkipRefresh PROVE Mine
  <2>1. PICK named \in Listed : \E keep \in Kept(named) : cache' = CacheWith(keep, {})
    BY <1>2 DEF SkipRefresh
  <2>3. PICK keep \in Kept(named) : cache' = CacheWith(keep, {})
    BY <2>1
  <2>2. keep \subseteq Cached
    BY DEF Kept
  <2> QED BY <1>1, <1>2, <2>2, <2>3 DEF SkipRefresh, bossAirVars
<1>3. ASSUME EndCycle PROVE Mine
  <2>1. PICK batch \in SUBSET Cached : cache' = CacheWith(Cached \ batch, {})
    BY <1>3 DEF EndCycle
  <2> QED BY <1>1, <1>3, <2>1 DEF EndCycle, bossAirVars
<1>4. ASSUME Refresh PROVE Mine
  <2> DEFINE Taken(before, now, keep, bad, new) ==
           /\ cache' = CacheWith(keep \cap Readable(now), new)
           /\ badJobs' = {Now(j) : j \in bad}
           /\ step' = IF bad = {} THEN "assign" ELSE "bad"
  <2>0. PICK before \in Listed, now \in Listed : \E keep \in Kept(before) :
           \E bad \in SUBSET (Readable(now) \ keep) :
           \E new \in SUBSET (Readable(now) \ (keep \cup bad)) : Taken(before, now, keep, bad, new)
    BY <1>4 DEF Refresh
  <2> DEFINE readable == Readable(now)
  <2>1. PICK keep, bad, new :
           /\ keep \in Kept(before) /\ bad \subseteq readable \ keep
           /\ new \subseteq readable \ (keep \cup bad)
           /\ Taken(before, now, keep, bad, new)
    BY <2>0
  <2>2. /\ step = "idle" /\ UNCHANGED <<reported, accepted, rejected, rows, tableVars>>
    BY <1>4 DEF Refresh, bossAirVars
  <2>3. \A j \in readable : j \in Jobs /\ state[j] = "created"
    BY DEF Readable, InState
  <2> HIDE DEF readable
  <2>4. \A j \in Cached' : \/ j \in new /\ cache'[j] = retry[j]
                           \/ j \in keep \cap Cached /\ cache'[j] = cache[j]
    BY <2>1, CachedAfter
  <2>5. accepted = {} /\ rejected = {} /\ reported = {}
    BY <1>0, <2>2 DEF SubmitterPhases
  <2>6. SubmitterPhases' /\ LateReports'
    <3>1. \A s \in badJobs' : s.job \in bad
      BY <2>1 DEF Now
    <3>2. \A j \in bad : j \notin Cached'
      BY <2>1, <2>4
    <3>3. step' # "bad" => badJobs' = {}
      BY <2>1
    <3> QED BY <2>2, <2>5, <3>1, <3>2, <3>3 DEF SubmitterPhases, LateReports
  <2>7. SubmitterOwns'
    <3>1. \A j \in Cached' : Waiting(j, cache[j])'
      BY <1>0, <2>1, <2>2, <2>3, <2>4 DEF SubmitterOwns, Waiting, tableVars
    <3>2. \A s \in badJobs' : Waiting(s.job, s.retry)'
      BY <2>1, <2>2, <2>3 DEF Now, Waiting, tableVars
    <3> QED BY <2>2, <2>5, <3>1, <3>2 DEF SubmitterOwns
  <2> QED BY <1>0, <2>2, <2>6, <2>7, QuietStep DEF NeverMarked
<1>5. ASSUME NEW bad \in SUBSET badJobs, NEW saved \in SUBSET bad,
             NEW result \in {"retry", "noRetry"}, FailBadJobs(bad, saved, result)
      PROVE  Mine
  <2>1. /\ step = "bad" /\ badJobs' = badJobs \ bad /\ reported' = saved /\ step' = "path"
        /\ state' = StateSet(JobsOf(bad), "submitfailed")
        /\ UNCHANGED <<retry, path, rows, cache, accepted, rejected>>
    BY <1>5 DEF FailBadJobs
  <2>2. accepted = {} /\ rejected = {}
    BY <1>0, <2>1 DEF SubmitterPhases
  <2>3. \A s \in badJobs : s.job \in Jobs /\ Waiting(s.job, s.retry) /\ s.job \notin Cached
    BY <1>0 DEF SubmitterOwns, SubmitterPhases, TypeOK, SubmitterTypeOK, Attempts
  <2>4. \A j \in JobsOf(bad) : j \in Jobs /\ state[j] = "created" /\ j \notin Cached
    BY <2>3 DEF JobsOf, Waiting
  <2>5. \A j \in Jobs : state'[j] = IF j \in JobsOf(bad) THEN "submitfailed" ELSE state[j]
    BY <2>1 DEF StateSet
  <2>7. OnlyIn({"created"})
    BY <2>1, <2>4, <2>5 DEF OnlyIn
  <2>8. Legal
    <3>1. "submitfailed" \in Transitions["created"] \ {"killed"}
          /\ RetryIncrement("created", "submitfailed") = 0
      BY FreeMove DEF Transitions, CooloffStates
    <3> QED BY <2>1, <2>4, <2>5, <3>1 DEF Legal, TypeOK, TableTypeOK
  <2>9. SubmitterPhases' /\ SubmitterOwns'
    <3>1. Cached' = Cached /\ Cached \subseteq Jobs
      BY <2>1 DEF Cached
    <3>2. \A s \in badJobs \ bad : s.job \notin JobsOf(bad)
      <4>1. \A s, t \in badJobs : s.job = t.job => s = t
        BY <2>3 DEF Waiting, TypeOK, SubmitterTypeOK, Attempts
      <4> QED BY <4>1 DEF JobsOf
    <3>3. \A s \in badJobs' : Waiting(s.job, s.retry)'
      BY <2>1, <2>3, <2>5, <3>2 DEF Waiting
    <3>4. \A j \in Cached' : Waiting(j, cache[j])'
      BY <1>0, <2>1, <2>4, <2>5, <3>1 DEF SubmitterOwns, Waiting
    <3> QED BY <2>1, <2>2, <2>3, <3>1, <3>3, <3>4 DEF SubmitterPhases, SubmitterOwns
  <2>10. LateReports'
    <3>1. ASSUME NEW s \in saved
          PROVE  state'[s.job] = "submitfailed" /\ retry'[s.job] = s.retry
      BY <2>1, <2>3, <2>5 DEF JobsOf, Waiting
    <3> QED BY <2>1, <3>1 DEF LateReports
  <2> QED BY <1>0, <2>1, <2>7, <2>8, <2>9, <2>10 DEF NeverMarked
<1>12. ASSUME RegisterReports PROVE Mine
  <2>1. /\ step = "path" /\ path' = PathSet(reported) /\ reported' = {}
        /\ step' = IF badJobs = {} THEN "assign" ELSE "bad"
        /\ UNCHANGED <<state, retry, rows, cache, badJobs, accepted, rejected>>
    BY <1>12 DEF RegisterReports, bossAirVars
  <2>2. ASSUME NEW j \in Jobs
        PROVE  path'[j] = path[j] \/ \E s \in reported : s.job = j /\ path'[j] = s.retry
    <3>1. CASE j \in JobsOf(reported)
      <4> DEFINE s == CHOOSE s \in reported : s.job = j
      <4>1. s \in reported /\ s.job = j
        BY <3>1, SnapshotChosen
      <4>2. path'[j] = s.retry
        BY <2>1, <3>1 DEF PathSet, CountIn
      <4> QED BY <4>1, <4>2
    <3>2. CASE j \notin JobsOf(reported)
      BY <2>1, <3>2 DEF PathSet
    <3> QED BY <3>1, <3>2
  <2>3. OnlyIn({"created"}) /\ Legal
    BY <2>1, <2>2 DEF OnlyIn, Legal
  <2>4. Cached' = Cached
    BY <2>1 DEF Cached
  <2>5. SubmitterPhases' /\ SubmitterOwns' /\ LateReports'
    BY <1>0, <2>1, <2>4 DEF SubmitterPhases, SubmitterOwns, Waiting, LateReports
  <2> QED BY <1>0, <2>1, <2>3, <2>5 DEF NeverMarked
<1>6. ASSUME NEW batch \in SUBSET Cached, NEW good \in SUBSET batch, SubmitBatch(batch, good)
      PROVE  Mine
  <2>1. /\ step = "assign" /\ step' = "commit" /\ UNCHANGED <<badJobs, reported>>
        /\ cache' = CacheWith(Cached \ batch, {})
        /\ rejected' = {[job |-> j, retry |-> cache[j]] : j \in batch \ good}
        /\ UNCHANGED <<rows, tableVars>>
    BY <1>6 DEF SubmitBatch
  <2>2. PICK copy : accepted' = {[job |-> j, retry |-> cache[j], copy |-> copy[j],
                                  held |-> FALSE] : j \in good}
    BY <1>6 DEF SubmitBatch
  <2>3. \A s \in accepted' \cup rejected' : s.job \in batch /\ s.retry = cache[s.job]
    BY <2>1, <2>2
  <2>4. \A j \in Cached' : j \in Cached \ batch /\ cache'[j] = cache[j]
    BY <2>1, CachedAfter
  <2>5. badJobs' = {} /\ reported' = {}
    BY <1>0, <2>1 DEF SubmitterPhases
  <2>6. SubmitterPhases' /\ LateReports'
    BY <2>1, <2>3, <2>4, <2>5 DEF SubmitterPhases, LateReports
  <2>7. SubmitterOwns'
    BY <1>0, <2>1, <2>3, <2>4, <2>5 DEF SubmitterOwns, Waiting, tableVars
  <2> QED BY <1>0, <2>1, <2>6, <2>7, QuietStep DEF NeverMarked
<1>7. ASSUME CommitBatch PROVE Mine
  <2>1. /\ step = "commit" /\ step' = "idle" /\ accepted' = {} /\ rejected' = {}
        /\ rows' = RowsWith(accepted)
        /\ state' = [j \in Jobs |-> IF j \in JobsOf(rejected) THEN "submitfailed"
                                    ELSE IF j \in JobsOf(accepted) THEN "executing"
                                    ELSE state[j]]
        /\ UNCHANGED <<retry, path, cache, badJobs, reported>>
    BY <1>7 DEF CommitBatch
  <2>2. badJobs = {} /\ reported = {}
    BY <1>0, <2>1 DEF SubmitterPhases
  <2>3. \A j \in JobsOf(rejected) \cup JobsOf(accepted) : state[j] = "created" /\ j \notin Cached
    BY <1>0 DEF JobsOf, SubmitterOwns, SubmitterPhases, Waiting
  <2>4. OnlyIn({"created"})
    BY <2>1, <2>3 DEF OnlyIn
  <2>5. Legal
    <3>1. /\ {"submitfailed", "executing"} \subseteq Transitions["created"] \ {"killed"}
          /\ RetryIncrement("created", "submitfailed") = 0
          /\ RetryIncrement("created", "executing") = 0
      BY FreeMove DEF Transitions, CooloffStates
    <3> QED BY <2>1, <2>3, <3>1 DEF Legal, TypeOK, TableTypeOK
  <2>6. SubmitterPhases' /\ SubmitterOwns' /\ LateReports'
    <3>1. Cached' = Cached /\ Cached \subseteq Jobs
      BY <2>1 DEF Cached
    <3> QED BY <1>0, <2>1, <2>2, <2>3, <3>1 DEF SubmitterPhases, SubmitterOwns, Waiting, LateReports
  <2>7. NeverMarked'
    BY <1>0, <2>1 DEF NeverMarked, RowsWith
  <2> QED BY <2>4, <2>5, <2>6, <2>7
<1>8. ASSUME SubmitterCrash PROVE Mine
  <2>1. Cached' = {}
    BY <1>8 DEF SubmitterCrash, EmptyCache, Cached
  <2> QED BY <1>0, <1>8, <2>1, QuietStep
          DEF SubmitterCrash, SubmitterPhases, SubmitterOwns, LateReports, NeverMarked
<1>9. ASSUME Abort PROVE Mine
  <2>1. UNCHANGED submitterVars /\ UNCHANGED tableVars /\ UNCHANGED rows
    BY <1>9 DEF Abort, bossAirVars
  <2>2. OnlyIn({}) /\ OnlyIn({"created"}) /\ Legal
    BY <2>1, QuietStep
  <2>3. SubmitterOwns' /\ SubmitterPhases'
    BY <1>0, <2>1, <2>2, SubmitterUndisturbed
  <2>4. LateReports'
    BY <1>0, <2>1, <2>2, ReportsUndisturbed
  <2> QED BY <1>0, <2>1, <2>2, <2>3, <2>4 DEF NeverMarked
<1>10. Mine
  BY <1>2, <1>3, <1>4, <1>5, <1>6, <1>7, <1>8, <1>9, <1>12 DEF SubmitStep
<1>11. /\ UNCHANGED creatorVars /\ UNCHANGED trackerVars /\ UNCHANGED accountantVars
       /\ UNCHANGED handlerVars /\ UNCHANGED retryManagerVars /\ UNCHANGED operatorVars
       /\ UNCHANGED archiverVars /\ UNCHANGED killVars
  BY DEF SubmitterFrame
<1>13. CreatorOwns' /\ TrackerOwns' /\ AccountantOwns' /\ HandlerOwns' /\ HandlerPhases'
       /\ RetryOwns' /\ OperatorOwns' /\ ArchiverOwns'
  BY <1>10, <1>11, CreatorUndisturbed, TrackerUndisturbed, AccountantUndisturbed,
     HandlerUndisturbed, RetryUndisturbed, OperatorUndisturbed, ArchiverUndisturbed
     DEF Tidy, EveryoneOwns, FailedStates, CooloffStates, PausedStates
<1> QED BY <1>10, <1>11, <1>13, NothingKilledKept DEF Tidy, EveryoneOwns

LEMMA CreatorStepTidy ==
  ASSUME TypeOK, Tidy, CreateStep \/ CreatorCrash, CreatorFrame
  PROVE  Tidy' /\ Legal /\ OnlyIn({"new"})
<1> DEFINE Mine == CreatorOwns' /\ UNCHANGED rows /\ OnlyIn({"new"}) /\ Legal
<1>1. CreatorOwns
  BY DEF Tidy, EveryoneOwns
<1>2. ASSUME CreatorRead PROVE Mine
  BY <1>2, QuietStep DEF CreatorRead, CreatorOwns, InState, bossAirVars, tableVars
<1>3. ASSUME NEW bad \in SUBSET creating, NEW saved \in SUBSET bad, CreatorCommit(bad, saved)
      PROVE  Mine
  <2>1. /\ state' = [j \in Jobs |-> IF j \in bad THEN "createfailed"
                                    ELSE IF j \in creating THEN "created" ELSE state[j]]
        /\ path' = [j \in Jobs |-> IF j \in saved THEN 0 ELSE path[j]]
        /\ creating' = {}
        /\ UNCHANGED <<retry, rows>>
    BY <1>3 DEF CreatorCommit
  <2>2. OnlyIn({"new"})
    BY <1>1, <2>1 DEF OnlyIn, CreatorOwns
  <2>3. {"created", "createfailed"} \subseteq Transitions["new"] \ {"killed"}
        /\ RetryIncrement("new", "created") = 0 /\ RetryIncrement("new", "createfailed") = 0
    BY FreeMove DEF Transitions, CooloffStates
  <2>4. Legal
    BY <1>1, <2>1, <2>3 DEF Legal, CreatorOwns, TypeOK, TableTypeOK
  <2> QED BY <2>1, <2>2, <2>4 DEF CreatorOwns
<1>4. ASSUME CreatorCrash PROVE Mine
  BY <1>4, QuietStep DEF CreatorCrash, CreatorOwns, bossAirVars
<1>5. Mine
  BY <1>2, <1>3, <1>4 DEF CreateStep
<1>6. /\ UNCHANGED submitterVars /\ UNCHANGED trackerVars /\ UNCHANGED accountantVars
      /\ UNCHANGED handlerVars /\ UNCHANGED retryManagerVars /\ UNCHANGED operatorVars
      /\ UNCHANGED archiverVars /\ UNCHANGED killVars
  BY DEF CreatorFrame
<1>7. SubmitterOwns' /\ SubmitterPhases' /\ LateReports' /\ TrackerOwns' /\ AccountantOwns' /\ HandlerOwns'
      /\ HandlerPhases' /\ RetryOwns' /\ OperatorOwns' /\ ArchiverOwns'
  BY <1>5, <1>6, SubmitterUndisturbed, ReportsUndisturbed, TrackerUndisturbed, AccountantUndisturbed,
     HandlerUndisturbed, RetryUndisturbed, OperatorUndisturbed, ArchiverUndisturbed
     DEF Tidy, EveryoneOwns, FailedStates, CooloffStates, PausedStates
<1>8. NeverMarked'
  BY <1>5, <1>6 DEF Tidy, NeverMarked, trackerVars
<1> QED BY <1>5, <1>6, <1>7, <1>8, NothingKilledKept DEF Tidy, EveryoneOwns

LEMMA BatchStepTidy ==
  ASSUME TypeOK, Tidy, BatchStep, BatchFrame
  PROVE  Tidy' /\ Legal /\ OnlyIn({})
<1>1. /\ UNCHANGED submitterVars /\ UNCHANGED creatorVars /\ UNCHANGED trackerVars
      /\ UNCHANGED accountantVars /\ UNCHANGED handlerVars /\ UNCHANGED retryManagerVars
      /\ UNCHANGED operatorVars /\ UNCHANGED archiverVars /\ UNCHANGED killVars
  BY DEF BatchFrame, CreatorFrame
<1>2. UNCHANGED tableVars
  BY DEF BatchStep, ProcessEnds, ProcessHeld, Track, Timeout
<1>3. OnlyIn({}) /\ Legal
  BY <1>2, QuietStep
<1>4. NeverMarked'
  <2>1. NeverMarked /\ rows \subseteq Rows /\ UNCHANGED tracked
    BY <1>1 DEF Tidy, TypeOK, BossAirTypeOK, trackerVars
  <2>2. CASE UNCHANGED rows
    BY <2>1, <2>2 DEF NeverMarked
  <2>3. CASE Track
    <3>1. {x \in Active : Over(x)} \in SUBSET rows
      BY DEF Active
    <3> QED BY <2>1, <2>3, <3>1, DeactivatedUnmarked DEF Track
  <2>4. CASE Timeout
    <3>1. PICK late \in SUBSET {x \in Active : ~Over(x)} : rows' = Deactivated(rows, late)
      BY <2>4 DEF Timeout
    <3>2. late \in SUBSET rows
      BY DEF Active
    <3> QED BY <2>1, <3>1, <3>2, DeactivatedUnmarked
  <2> QED BY <2>2, <2>3, <2>4 DEF BatchStep, ProcessEnds, ProcessHeld
<1>5. SubmitterOwns' /\ SubmitterPhases' /\ LateReports' /\ CreatorOwns' /\ TrackerOwns' /\ AccountantOwns'
      /\ HandlerOwns' /\ HandlerPhases' /\ RetryOwns' /\ OperatorOwns' /\ ArchiverOwns'
  BY <1>1, <1>3, SubmitterUndisturbed, ReportsUndisturbed, CreatorUndisturbed, TrackerUndisturbed,
     AccountantUndisturbed, HandlerUndisturbed, RetryUndisturbed, OperatorUndisturbed,
     ArchiverUndisturbed DEF Tidy, EveryoneOwns
<1> QED BY <1>1, <1>3, <1>4, <1>5, NothingKilledKept DEF Tidy, EveryoneOwns

LEMMA TrackerStepTidy ==
  ASSUME TypeOK, Tidy, TrackStep \/ TrackerCrash, TrackerFrame
  PROVE  Tidy' /\ Legal /\ OnlyIn({"executing"})
<1> DEFINE Mine == TrackerOwns' /\ NeverMarked' /\ OnlyIn({"executing"}) /\ Legal
<1>1. TrackerOwns /\ NeverMarked
  BY DEF Tidy, EveryoneOwns
<1>2. ASSUME TrackerRead PROVE Mine
  BY <1>1, <1>2, QuietStep
     DEF TrackerRead, CompleteRows, TrackerOwns, NeverMarked, bossAirVars, tableVars
<1>3. ASSUME TrackerCommit PROVE Mine
  <2>1. {x \in tracked : ~x.timeout} = tracked
    BY <1>1 DEF NeverMarked
  <2>2. /\ state' = StateSet(JobsOf(tracked), "complete") /\ path' = PathSet(tracked)
        /\ tracked' = {} /\ UNCHANGED <<retry, rows>>
    <3>1. tracked # {}
      BY <1>3, <2>1 DEF TrackerCommit
    <3> QED BY <1>3, <2>1, <3>1 DEF TrackerCommit
  <2>3. \A j \in JobsOf(tracked) : state[j] = "executing"
    BY <1>1 DEF TrackerOwns, JobsOf
  <2>4. OnlyIn({"executing"})
    BY <2>2, <2>3 DEF OnlyIn, StateSet, PathSet
  <2>5. "complete" \in Transitions["executing"] \ {"killed"}
        /\ RetryIncrement("executing", "complete") = 0
    BY FreeMove DEF Transitions, CooloffStates
  <2>6. Legal
    BY <2>2, <2>3, <2>5 DEF Legal, StateSet, TypeOK, TableTypeOK
  <2> QED BY <1>1, <2>2, <2>4, <2>6 DEF TrackerOwns, NeverMarked
<1>4. ASSUME TrackerCrash PROVE Mine
  BY <1>1, <1>4, QuietStep DEF TrackerCrash, TrackerOwns, NeverMarked, bossAirVars
<1>5. Mine
  BY <1>2, <1>3, <1>4 DEF TrackStep
<1>6. /\ UNCHANGED submitterVars /\ UNCHANGED creatorVars /\ UNCHANGED accountantVars
      /\ UNCHANGED handlerVars /\ UNCHANGED retryManagerVars /\ UNCHANGED operatorVars
      /\ UNCHANGED archiverVars /\ UNCHANGED killVars
  BY DEF TrackerFrame
<1>7. SubmitterOwns' /\ SubmitterPhases' /\ LateReports' /\ CreatorOwns' /\ AccountantOwns' /\ HandlerOwns'
      /\ HandlerPhases' /\ RetryOwns' /\ OperatorOwns' /\ ArchiverOwns'
  BY <1>5, <1>6, SubmitterUndisturbed, ReportsUndisturbed, CreatorUndisturbed, AccountantUndisturbed,
     HandlerUndisturbed, RetryUndisturbed, OperatorUndisturbed, ArchiverUndisturbed
     DEF Tidy, EveryoneOwns, FailedStates, CooloffStates, PausedStates
<1> QED BY <1>5, <1>6, <1>7, NothingKilledKept DEF Tidy, EveryoneOwns

LEMMA AccountantStepTidy ==
  ASSUME TypeOK, Tidy, AccountStep \/ AccountantCrash, AccountantFrame
  PROVE  Tidy' /\ Legal /\ OnlyIn({"complete"})
<1> DEFINE Mine == AccountantOwns' /\ UNCHANGED rows /\ OnlyIn({"complete"}) /\ Legal
<1>1. AccountantOwns
  BY DEF Tidy, EveryoneOwns
<1>2. ASSUME AccountantRead PROVE Mine
  <2>1. /\ accounted' = {[job |-> j, path |-> path[j]] : j \in InState({"complete"})}
        /\ UNCHANGED rows /\ UNCHANGED tableVars
    BY <1>2 DEF AccountantRead, bossAirVars
  <2> QED BY <2>1, QuietStep DEF AccountantOwns, InState, tableVars
<1>3. ASSUME NEW slice \in SUBSET accounted, AccountantCommit(slice) PROVE Mine
  <2>1. PICK good \in SUBSET slice :
           /\ state' = [j \in Jobs |-> IF j \in JobsOf(good) THEN "success"
                                       ELSE IF j \in JobsOf(slice) THEN "jobfailed"
                                       ELSE state[j]]
           /\ accounted' = accounted \ slice
           /\ UNCHANGED <<retry, path, rows>>
    <3> DEFINE good == {s \in slice : ReportAt(s.job, s.path) = {"success"}}
    <3>1. good \in SUBSET slice
      OBVIOUS
    <3> HIDE DEF good
    <3> QED BY <1>3, <3>1 DEF AccountantCommit, good, bossAirVars
  <2>2. JobsOf(good) \subseteq JobsOf(slice)
        /\ \A j \in JobsOf(slice) : state[j] = "complete"
    BY <1>1 DEF JobsOf, AccountantOwns
  <2>3. OnlyIn({"complete"})
    BY <2>1, <2>2 DEF OnlyIn
  <2>4. {"success", "jobfailed"} \subseteq Transitions["complete"] \ {"killed"}
        /\ RetryIncrement("complete", "success") = 0 /\ RetryIncrement("complete", "jobfailed") = 0
    BY FreeMove DEF Transitions, CooloffStates
  <2>5. Legal
    BY <2>1, <2>2, <2>4 DEF Legal, TypeOK, TableTypeOK
  <2>6. AccountantOwns'
    <3>1. ASSUME NEW s \in accounted, s \notin slice
          PROVE  s.job \notin JobsOf(slice) /\ s.job \in Jobs
      <4>1. ASSUME NEW t \in slice, t.job = s.job PROVE t = s
        BY <1>1, <4>1 DEF AccountantOwns, TypeOK, AccountantTypeOK
      <4> QED BY <3>1, <4>1 DEF JobsOf, TypeOK, AccountantTypeOK
    <3> QED BY <1>1, <2>1, <2>2, <3>1 DEF AccountantOwns
  <2> QED BY <2>1, <2>3, <2>5, <2>6
<1>4. ASSUME AccountantCrash PROVE Mine
  <2>1. accounted' \subseteq accounted /\ UNCHANGED tableVars /\ UNCHANGED rows
    BY <1>4 DEF AccountantCrash, bossAirVars
  <2> QED BY <1>1, <2>1, QuietStep DEF AccountantOwns, tableVars
<1>5. Mine
  BY <1>2, <1>3, <1>4 DEF AccountStep
<1>6. /\ UNCHANGED submitterVars /\ UNCHANGED creatorVars /\ UNCHANGED trackerVars
      /\ UNCHANGED handlerVars /\ UNCHANGED retryManagerVars /\ UNCHANGED operatorVars
      /\ UNCHANGED archiverVars /\ UNCHANGED killVars
  BY DEF AccountantFrame
<1>7. SubmitterOwns' /\ SubmitterPhases' /\ LateReports' /\ CreatorOwns' /\ TrackerOwns' /\ HandlerOwns'
      /\ HandlerPhases' /\ RetryOwns' /\ OperatorOwns' /\ ArchiverOwns'
  BY <1>5, <1>6, SubmitterUndisturbed, ReportsUndisturbed, CreatorUndisturbed, TrackerUndisturbed,
     HandlerUndisturbed, RetryUndisturbed, OperatorUndisturbed, ArchiverUndisturbed
     DEF Tidy, EveryoneOwns, FailedStates, CooloffStates, PausedStates
<1>8. NeverMarked'
  BY <1>5, <1>6 DEF Tidy, NeverMarked, trackerVars
<1> QED BY <1>5, <1>6, <1>7, <1>8, NothingKilledKept DEF Tidy, EveryoneOwns

LEMMA RetryManagerStepTidy ==
  ASSUME TypeOK, Tidy, RetryStep \/ RetryCrash \/ OperatorStep, RetryFrame
  PROVE  Tidy' /\ Legal /\ OnlyIn(CooloffStates \cup PausedStates)
<1> DEFINE Theirs == CooloffStates \cup PausedStates
           Mine   == RetryOwns' /\ OperatorOwns' /\ UNCHANGED rows /\ OnlyIn(Theirs) /\ Legal
<1>1. RetryOwns /\ OperatorOwns
  BY DEF Tidy, EveryoneOwns
<1>2. ASSUME RetryRead PROVE Mine
  <2>1. /\ cooling' = {[job |-> j, retry |-> retry[j], state |-> state[j]] :
                          j \in InState(CooloffStates)}
        /\ UNCHANGED <<counts, chosen>> /\ UNCHANGED rows /\ UNCHANGED tableVars
    BY <1>2 DEF RetryRead, bossAirVars
  <2> QED BY <1>1, <2>1, QuietStep DEF RetryOwns, OperatorOwns, tableVars
<1>3. ASSUME RetryCommit PROVE Mine
  <2> DEFINE snapshot(j) == CHOOSE s \in cooling : s.job = j
  <2>1. /\ state' = [j \in Jobs |-> IF j \in JobsOf(counts) THEN Retried(snapshot(j)) ELSE state[j]]
        /\ retry' = RetryWritten(counts, 1)
        /\ cooling' = {} /\ counts' = {} /\ UNCHANGED <<chosen, path, rows>>
    BY <1>3 DEF RetryCommit, bossAirVars
  <2>2. ASSUME NEW j \in JobsOf(counts)
        PROVE  state[j] = snapshot(j).state /\ state[j] \in CooloffStates
    <3>1. snapshot(j) \in cooling /\ snapshot(j).job = j
      BY SnapshotChosen DEF TypeOK, RetryManagerTypeOK
    <3> QED BY <1>1, <3>1 DEF RetryOwns, TypeOK, RetryManagerTypeOK, Cooling
  <2>7. \A j \in Jobs : retry'[j] = IF j \in JobsOf(counts) THEN retry[j] + 1 ELSE retry[j]
    <3>1. \A j \in JobsOf(counts) : CountIn(counts, j) = retry[j]
      BY <1>1, SnapshotChosen DEF CountIn, RetryOwns
    <3> QED BY <2>1, <3>1 DEF RetryWritten
  <2>3. \A j \in JobsOf(counts) : Retried(snapshot(j)) \in Transitions[state[j]] \ {"killed"}
    BY <2>2 DEF Retried, Transitions, PauseOf, CooloffStates
  <2>4. OnlyIn(Theirs)
    BY <2>1, <2>2, <2>7 DEF OnlyIn
  <2>5. Legal
    <3>1. ASSUME NEW j \in Jobs, j \in JobsOf(counts)
          PROVE  /\ state'[j] \in Transitions[state[j]] \ {"killed"}
                 /\ retry'[j] = retry[j] + RetryIncrement(state[j], state'[j])
      BY <2>1, <2>2, <2>3, <2>7, <3>1 DEF RetryIncrement
    <3> QED BY <2>1, <2>7, <3>1 DEF Legal
  <2>6. RetryOwns' /\ OperatorOwns'
    <3>1. \A j \in chosen : j \in Jobs /\ j \notin JobsOf(counts)
      BY <1>1, <2>2 DEF OperatorOwns, TypeOK, RetryManagerTypeOK, CooloffStates, PausedStates
    <3> QED BY <1>1, <2>1, <3>1 DEF RetryOwns, OperatorOwns
  <2> QED BY <2>1, <2>4, <2>5, <2>6
<1>11. ASSUME NEW ready \in SUBSET MayBeReady, RetrySelect(ready) PROVE Mine
  <2>1. /\ counts' = counts \cup {Now(j) : j \in JobsOf(ready)}
        /\ UNCHANGED cooling /\ UNCHANGED chosen /\ UNCHANGED rows /\ UNCHANGED tableVars
    BY <1>11 DEF RetrySelect, bossAirVars
  <2>2. \A s \in counts' : retry'[s.job] = s.retry
    BY <1>1, <2>1 DEF RetryOwns, Now, tableVars
  <2> QED BY <1>1, <2>1, <2>2, QuietStep DEF RetryOwns, OperatorOwns, tableVars
<1>4. ASSUME RetryCrash PROVE Mine
  BY <1>1, <1>4, QuietStep DEF RetryCrash, RetryOwns, OperatorOwns, bossAirVars, tableVars
<1>5. ASSUME OperatorLists PROVE Mine
  <2>1. /\ chosen' \subseteq InState(PausedStates)
        /\ UNCHANGED <<cooling, counts>> /\ UNCHANGED rows /\ UNCHANGED tableVars
    BY <1>5 DEF OperatorLists, retryManagerVars, bossAirVars
  <2> QED BY <1>1, <2>1, QuietStep DEF RetryOwns, OperatorOwns, InState, tableVars
<1>6. ASSUME NEW j \in chosen, NEW new \in {"created", "retrydone"}, OperatorMoves(j, new)
      PROVE  Mine
  <2>1. /\ state' = [i \in Jobs |-> IF i \in {j} THEN new ELSE state[i]]
        /\ chosen' = chosen \ {j} /\ UNCHANGED <<retry, path, cooling, counts, rows>>
    BY <1>6 DEF OperatorMoves, StateSet, retryManagerVars, bossAirVars
  <2>2. state[j] \in PausedStates
    BY <1>1 DEF OperatorOwns
  <2>3. OnlyIn(Theirs)
    BY <2>1, <2>2 DEF OnlyIn
  <2>4. new \in Transitions[state[j]] \ {"killed"} /\ RetryIncrement(state[j], new) = 0
    BY <2>2, FreeMove DEF Transitions, CooloffStates, PausedStates
  <2>5. Legal
    BY <2>1, <2>4 DEF Legal, TypeOK, TableTypeOK
  <2>6. RetryOwns'
    <3>1. \A s \in cooling : s.job # j /\ s.job \in Jobs
      BY <1>1, <2>2 DEF RetryOwns, TypeOK, RetryManagerTypeOK, Cooling, CooloffStates, PausedStates
    <3> QED BY <1>1, <2>1, <3>1 DEF RetryOwns
  <2>7. OperatorOwns'
    BY <1>1, <2>1 DEF OperatorOwns, TypeOK, RetryManagerTypeOK
  <2> QED BY <2>1, <2>3, <2>5, <2>6, <2>7
<1>7. Mine
  BY <1>2, <1>3, <1>4, <1>5, <1>6, <1>11 DEF RetryStep, OperatorStep
<1>8. /\ UNCHANGED submitterVars /\ UNCHANGED creatorVars /\ UNCHANGED trackerVars
      /\ UNCHANGED accountantVars /\ UNCHANGED handlerVars
      /\ UNCHANGED archiverVars /\ UNCHANGED killVars
  BY DEF RetryFrame
<1>9. SubmitterOwns' /\ SubmitterPhases' /\ LateReports' /\ CreatorOwns' /\ TrackerOwns' /\ AccountantOwns'
      /\ HandlerOwns' /\ HandlerPhases' /\ ArchiverOwns'
  BY <1>7, <1>8, SubmitterUndisturbed, ReportsUndisturbed, CreatorUndisturbed, TrackerUndisturbed,
     AccountantUndisturbed, HandlerUndisturbed, ArchiverUndisturbed
     DEF Tidy, EveryoneOwns, FailedStates, CooloffStates, PausedStates
<1>10. NeverMarked'
  BY <1>7, <1>8 DEF Tidy, NeverMarked, trackerVars
<1> QED BY <1>7, <1>8, <1>9, <1>10, NothingKilledKept DEF Tidy, EveryoneOwns

LEMMA ArchiverStepTidy ==
  ASSUME TypeOK, Tidy, ArchiveStep \/ ArchiverCrash, ArchiverFrame
  PROVE  Tidy' /\ Legal /\ OnlyIn({"success", "exhausted"})
<1> DEFINE Theirs == {"success", "exhausted"}
           Mine   == ArchiverOwns' /\ UNCHANGED rows /\ OnlyIn(Theirs) /\ Legal
<1>1. ArchiverOwns /\ InState({"killed"}) = {}
  BY DEF Tidy, EveryoneOwns, NothingKilled
<1>2. ASSUME ArchiverRead PROVE Mine
  <2>1. /\ archiving' = InState({"success", "exhausted", "killed"})
        /\ UNCHANGED rows /\ UNCHANGED tableVars
    BY <1>2 DEF ArchiverRead, bossAirVars
  <2> QED BY <1>1, <2>1, QuietStep DEF ArchiverOwns, InState, tableVars
<1>3. ASSUME ArchiverCommit PROVE Mine
  <2>1. /\ state' = [j \in Jobs |-> IF j \in archiving THEN "cleanout" ELSE state[j]]
        /\ archiving' = {} /\ UNCHANGED <<retry, path, rows>>
    BY <1>3 DEF ArchiverCommit, StateSet
  <2>2. OnlyIn(Theirs)
    BY <1>1, <2>1 DEF OnlyIn, ArchiverOwns
  <2>3. \A old \in Theirs : /\ "cleanout" \in Transitions[old] \ {"killed"}
                            /\ RetryIncrement(old, "cleanout") = 0
    BY FreeMove DEF Transitions, CooloffStates
  <2>4. Legal
    BY <1>1, <2>1, <2>3 DEF Legal, ArchiverOwns, TypeOK, TableTypeOK
  <2> QED BY <2>1, <2>2, <2>4 DEF ArchiverOwns
<1>4. ASSUME ArchiverCrash PROVE Mine
  BY <1>1, <1>4, QuietStep DEF ArchiverCrash, ArchiverOwns
<1>5. Mine
  BY <1>2, <1>3, <1>4 DEF ArchiveStep
<1>6. /\ UNCHANGED submitterVars /\ UNCHANGED creatorVars /\ UNCHANGED trackerVars
      /\ UNCHANGED accountantVars /\ UNCHANGED handlerVars /\ UNCHANGED retryManagerVars
      /\ UNCHANGED operatorVars /\ UNCHANGED killVars
  BY DEF ArchiverFrame
<1>7. SubmitterOwns' /\ SubmitterPhases' /\ LateReports' /\ CreatorOwns' /\ TrackerOwns' /\ AccountantOwns'
      /\ HandlerOwns' /\ HandlerPhases' /\ RetryOwns' /\ OperatorOwns'
  BY <1>5, <1>6, SubmitterUndisturbed, ReportsUndisturbed, CreatorUndisturbed, TrackerUndisturbed,
     AccountantUndisturbed, HandlerUndisturbed, RetryUndisturbed, OperatorUndisturbed
     DEF Tidy, EveryoneOwns, FailedStates, CooloffStates, PausedStates
<1>8. NeverMarked'
  BY <1>5, <1>6 DEF Tidy, NeverMarked, trackerVars
<1> QED BY <1>5, <1>6, <1>7, <1>8, NothingKilledKept DEF Tidy, EveryoneOwns

(* No report asks for a job to be passed on without cooling off.           *)
NoPass == \A r \in reports : r.result # "pass"

(* A verdict follows the table, unless a report says "pass"; and only a job*)
(* with a retry left cools off.                                            *)
LEMMA VerdictLegal ==
  ASSUME handling \in FailedStates, NEW s
  PROVE  /\ Verdict(s) # "killed"
         /\ Verdict(s) \in {"retrydone", "created", CooloffOf[handling]}
         /\ NoPass => Verdict(s) \in Transitions[handling]
         /\ Verdict(s) \in CooloffStates => ~(s.retry >= MaxRetries)
<1>1. Verdict(s) \in {"retrydone", "created"} \cup CooloffStates
  BY VerdictType
<1>2. /\ CooloffOf[handling] \in Transitions[handling]
      /\ "retrydone" \in Transitions[handling]
  BY DEF CooloffOf, Transitions, FailedStates
<1>3. NoPass => ReportAt(s.job, s.path) # {"pass"}
  BY DEF NoPass, ReportAt, Of
<1>4. NoPass => Verdict(s) \in Transitions[handling]
  BY <1>2, <1>3 DEF Verdict
<1>5. Verdict(s) \in CooloffStates => ~(s.retry >= MaxRetries)
  <2>1. "retrydone" \notin CooloffStates
    BY DEF CooloffStates
  <2> QED BY <2>1 DEF Verdict, Spent
<1>6. Verdict(s) \in {"retrydone", "created", CooloffOf[handling]}
  BY DEF Verdict
<1> QED BY <1>1, <1>4, <1>5, <1>6 DEF CooloffStates

LEMMA HandlerStepTidy ==
  ASSUME TypeOK, Tidy, HandleStep \/ HandlerCrash, HandlerFrame
  PROVE  /\ Tidy'
         /\ NoPass => Legal
         /\ retry' = retry
         /\ \A j \in Jobs : state'[j] \in CooloffStates =>
               state[j] \in CooloffStates \/ retry[j] < MaxRetries
         /\ OnlyIn(FailedStates \cup {"retrydone"})
<1> DEFINE Theirs == FailedStates \cup {"retrydone"}
           Cools  == \A j \in Jobs : state'[j] \in CooloffStates =>
                        state[j] \in CooloffStates \/ retry[j] < MaxRetries
           Mine   == /\ HandlerOwns' /\ HandlerPhases' /\ LateReports' /\ UNCHANGED rows /\ OnlyIn(Theirs)
                     /\ NoPass => Legal
                     /\ NothingKilled' /\ retry' = retry /\ Cools
<1>1. HandlerOwns /\ HandlerPhases /\ LateReports /\ NothingKilled
  BY DEF Tidy, EveryoneOwns
<1>2. UNCHANGED killVars /\ UNCHANGED killStep /\ UNCHANGED submitterVars /\ reported' = reported
  BY DEF HandlerFrame, killVars, submitterVars
<1>3. ASSUME UNCHANGED tableVars
      PROVE  OnlyIn(Theirs) /\ Legal /\ NothingKilled' /\ LateReports' /\ retry' = retry /\ Cools
  <2>1. OnlyIn(Theirs) /\ OnlyIn({}) /\ Legal
    BY <1>3, QuietStep
  <2>2. NothingKilled' /\ LateReports'
    BY <1>1, <1>2, <2>1, NothingKilledKept, ReportsUndisturbed
  <2> QED BY <1>3, <2>1, <2>2 DEF tableVars
<1>4. ASSUME HandlerRead PROVE Mine
  <2>1. PICK kind \in FailedStates \cup {"retrydone"} :
           handling' = kind /\ listed' = InState({kind})
    BY <1>4 DEF HandlerRead
  <2>2. handling = "idle" /\ UNCHANGED loaded /\ UNCHANGED rows /\ UNCHANGED tableVars
    BY <1>4 DEF HandlerRead, bossAirVars
  <2>3. loaded = {} /\ kind # "idle"
    BY <1>1, <2>2 DEF HandlerPhases, FailedStates
  <2>4. HandlerPhases'
    BY <2>1, <2>2, <2>3 DEF HandlerPhases
  <2>5. HandlerOwns'
    BY <2>1, <2>2, <2>3 DEF HandlerOwns, InState, tableVars
  <2> QED BY <1>3, <2>2, <2>4, <2>5
<1>5. ASSUME NEW slice \in SUBSET listed, HandlerLoad(slice) PROVE Mine
  <2>1. /\ loaded' = {[job |-> j, retry |-> retry[j], path |-> path[j]] : j \in slice}
        /\ listed' = listed \ slice /\ slice # {}
        /\ UNCHANGED handling /\ UNCHANGED rows /\ UNCHANGED tableVars
    BY <1>5 DEF HandlerLoad, bossAirVars
  <2>2. handling # "idle"
    BY <1>1, <2>1 DEF HandlerPhases
  <2> QED BY <1>1, <1>3, <2>1, <2>2 DEF HandlerOwns, HandlerPhases, tableVars
<1>6. ASSUME handling \in Theirs, loaded # {}, loaded' = {}, handling' = StageAfter(listed),
             UNCHANGED <<listed, retry, path, rows>>,
             \A j \in Jobs : j \notin JobsOf(loaded) => state'[j] = state[j]
      PROVE  /\ HandlerOwns' /\ HandlerPhases' /\ OnlyIn(Theirs)
             /\ \A j \in JobsOf(loaded) : j \in Jobs /\ state[j] = handling
  <2>1. \A j \in JobsOf(loaded) : j \in Jobs /\ state[j] = handling /\ j \notin listed
    BY <1>1 DEF JobsOf, HandlerOwns, HandlerPhases, TypeOK, HandlerTypeOK
  <2>2. OnlyIn(Theirs)
    BY <1>6, <2>1 DEF OnlyIn
  <2>3. HandlerOwns'
    <3>1. \A j \in listed : j \in Jobs /\ state'[j] = state[j]
      BY <1>6, <2>1 DEF TypeOK, HandlerTypeOK
    <3>2. listed' = listed /\ loaded' = {} /\ (listed # {} => handling' = handling)
      BY <1>6 DEF StageAfter
    <3>3. \A j \in listed' : state'[j] = handling'
      BY <1>1, <3>1, <3>2 DEF HandlerOwns
    <3> QED BY <3>2, <3>3 DEF HandlerOwns
  <2>4. HandlerPhases'
    <3>1. handling # "idle" /\ listed' = listed /\ loaded' = {}
      BY <1>6 DEF FailedStates
    <3> QED BY <1>6, <3>1 DEF HandlerPhases, StageAfter
  <2> QED BY <2>1, <2>2, <2>3, <2>4
<1>7. ASSUME HandleFailed PROVE Mine
  <2>1. /\ handling \in FailedStates /\ loaded # {} /\ loaded' = {}
        /\ handling' = StageAfter(listed) /\ UNCHANGED <<listed, retry, path, rows>>
        /\ state' = [j \in Jobs |-> IF j \in JobsOf(loaded)
                                    THEN Verdict(CHOOSE s \in loaded : s.job = j) ELSE state[j]]
    BY <1>7 DEF HandleFailed, bossAirVars
  <2>2. /\ HandlerOwns' /\ HandlerPhases' /\ OnlyIn(Theirs)
        /\ \A j \in JobsOf(loaded) : j \in Jobs /\ state[j] = handling
    BY <1>6, <2>1
  <2>3. ASSUME NEW j \in JobsOf(loaded)
        PROVE  /\ state'[j] # "killed"
               /\ state'[j] \in {"retrydone", "created", CooloffOf[handling]}
               /\ NoPass => state'[j] \in Transitions[state[j]]
               /\ state'[j] \in CooloffStates => retry[j] < MaxRetries
    <3> DEFINE s == CHOOSE s \in loaded : s.job = j
    <3>1. s \in loaded /\ s.job = j
      BY SnapshotChosen
    <3>2. state'[j] = Verdict(s) /\ state[j] = handling
      BY <2>1, <2>2
    <3> HIDE DEF s
    <3>3. retry[j] = s.retry /\ retry[j] \in Nat
      BY <1>1, <2>2, <3>1 DEF HandlerOwns, TypeOK, TableTypeOK
    <3> QED BY <2>1, <3>2, <3>3, VerdictLegal, ErrorHandlerAssumption
  <2>4. NoPass => Legal
    <3>1. \A new : new # "killed" => RetryIncrement(handling, new) = 0
      BY <2>1, FreeMove DEF FailedStates, CooloffStates
    <3>2. ASSUME NoPass, NEW j \in JobsOf(loaded)
          PROVE  /\ state'[j] \in Transitions[state[j]] \ {"killed"}
                 /\ retry'[j] = retry[j] + RetryIncrement(state[j], state'[j])
      <4>1. state[j] = handling /\ state'[j] # "killed" /\ retry[j] \in Nat /\ retry' = retry
        BY <2>1, <2>2, <2>3 DEF TypeOK, TableTypeOK
      <4> QED BY <2>3, <3>1, <3>2, <4>1
    <3>3. \A j \in Jobs : j \notin JobsOf(loaded) => state'[j] = state[j] /\ retry'[j] = retry[j]
      BY <2>1
    <3> QED BY <3>2, <3>3 DEF Legal
  <2>5. NothingKilled'
    BY <1>1, <1>2, <2>1, <2>3 DEF NothingKilled, InState
  <2>7. LateReports'
    <3>1. ASSUME NEW s \in reported, s.job \in JobsOf(loaded)
          PROVE  state'[s.job] \in {"retrydone", "created", "submitcooloff"}
      <4>1. handling = "submitfailed"
        BY <1>1, <2>1, <2>2, <3>1 DEF LateReports, FailedStates
      <4> QED BY <2>3, <3>1, <4>1 DEF CooloffOf
    <3>2. ASSUME NEW s \in reported, s.job \notin JobsOf(loaded)
          PROVE  state'[s.job] = state[s.job] /\ retry'[s.job] = retry[s.job]
      <4>1. s.job \in Jobs
        BY DEF TypeOK, SubmitterTypeOK, Attempts
      <4> QED BY <2>1, <3>2, <4>1
    <3> QED BY <1>1, <1>2, <3>1, <3>2 DEF LateReports
  <2>6. Cools
    BY <2>1, <2>3
  <2> QED BY <2>1, <2>2, <2>4, <2>5, <2>6, <2>7
<1>8. ASSUME HandleRetryDone PROVE Mine
  <2>1. /\ handling = "retrydone" /\ loaded # {} /\ loaded' = {}
        /\ handling' = StageAfter(listed) /\ UNCHANGED <<listed, retry, path, rows>>
        /\ state' = [j \in Jobs |-> IF j \in JobsOf(loaded) THEN "exhausted" ELSE state[j]]
    BY <1>8 DEF HandleRetryDone, StateSet, bossAirVars
  <2>2. /\ HandlerOwns' /\ HandlerPhases' /\ OnlyIn(Theirs)
        /\ \A j \in JobsOf(loaded) : j \in Jobs /\ state[j] = handling
    BY <1>6, <2>1
  <2>3. /\ "exhausted" \in Transitions["retrydone"] \ {"killed"}
        /\ RetryIncrement("retrydone", "exhausted") = 0
    BY FreeMove DEF Transitions, CooloffStates
  <2>4. Legal
    BY <2>1, <2>2, <2>3 DEF Legal, TypeOK, TableTypeOK
  <2>5. NothingKilled' /\ LateReports'
    <3>1. "created" \notin Theirs
      BY DEF FailedStates
    <3> QED BY <1>1, <1>2, <2>2, <2>4, <3>1, NothingKilledKept, ReportsUndisturbed
  <2>6. Cools
    BY <2>1 DEF CooloffStates
  <2> QED BY <2>1, <2>2, <2>4, <2>5, <2>6
<1>9. ASSUME HandlerCrash PROVE Mine
  <2>1. handling' = "idle" /\ listed' = {} /\ loaded' = {} /\ UNCHANGED rows
        /\ UNCHANGED tableVars
    BY <1>9 DEF HandlerCrash, bossAirVars
  <2> QED BY <1>3, <2>1 DEF HandlerOwns, HandlerPhases
<1>10. Mine
  BY <1>4, <1>5, <1>7, <1>8, <1>9 DEF HandleStep
<1>11. /\ UNCHANGED submitterVars /\ UNCHANGED creatorVars /\ UNCHANGED trackerVars
       /\ UNCHANGED accountantVars /\ UNCHANGED retryManagerVars /\ UNCHANGED operatorVars
       /\ UNCHANGED archiverVars
  BY DEF HandlerFrame
<1>12. SubmitterOwns' /\ SubmitterPhases' /\ CreatorOwns' /\ TrackerOwns' /\ AccountantOwns'
       /\ RetryOwns' /\ OperatorOwns' /\ ArchiverOwns'
  BY <1>10, <1>11, SubmitterUndisturbed, CreatorUndisturbed, TrackerUndisturbed,
     AccountantUndisturbed, RetryUndisturbed, OperatorUndisturbed, ArchiverUndisturbed
     DEF Tidy, EveryoneOwns, FailedStates, CooloffStates, PausedStates
<1>13. NeverMarked'
  BY <1>10, <1>11 DEF Tidy, NeverMarked, trackerVars
<1> QED BY <1>10, <1>12, <1>13 DEF Tidy, EveryoneOwns

-----------------------------------------------------------------------------
(* A kill is under way only after it removed the files of the workflow.    *)
LEMMA KillStepNotPristine ==
  ASSUME Tidy, KillStep \/ KillCrash
  PROVE  ~Pristine'
<1>1. killStep = "idle"
  BY DEF Tidy, NothingKilled
<1>2. KillRead
  BY <1>1 DEF KillStep, KillBatch, KillSelect, KillIncrementRetry, KillSetState, KillCrash
<1> QED BY <1>2 DEF KillRead, KillFiles, Pristine

(* Nobody gives the files back.                                            *)
LEMMA PristineBefore ==
  ASSUME [Next]_vars, Pristine'
  PROVE  Pristine
<1>1. CASE Steps
  <2>1. ASSUME KillStep PROVE Pristine
    BY <2>1 DEF Pristine, KillStep, KillRead, KillFiles, KillBatch, KillSelect,
                KillIncrementRetry, KillSetState
  <2>2. ASSUME CreateStep PROVE Pristine
    BY <2>2 DEF Pristine, CreateStep, CreatorRead, CreatorCommit
  <2> QED BY <1>1, <2>1, <2>2 DEF Steps, Pristine, SubmitterFrame, BatchFrame, TrackerFrame,
             AccountantFrame, HandlerFrame, RetryFrame, ArchiverFrame
<1>2. CASE Crashes
  BY <1>2 DEF Crashes, CreatorCrash, KillCrash, Pristine, SubmitterFrame, TrackerFrame,
              AccountantFrame, HandlerFrame, RetryFrame, ArchiverFrame
<1>3. CASE UNCHANGED vars
  BY <1>3 DEF vars, Pristine
<1> QED BY <1>1, <1>2, <1>3 DEF Next

LEMMA NextOwnership ==
  ASSUME TypeOK, OwnershipInv, [Next]_vars
  PROVE  OwnershipInv'
<1> SUFFICES ASSUME Pristine' PROVE Tidy'
  BY DEF OwnershipInv, Tidy
<1>1. Tidy
  BY PristineBefore DEF OwnershipInv, Tidy
<1>2. CASE Steps
  <2>1. ~KillStep
    BY <1>1, KillStepNotPristine
  <2> QED BY <1>1, <1>2, <2>1, SubmitterStepTidy, CreatorStepTidy, BatchStepTidy, TrackerStepTidy,
             AccountantStepTidy, HandlerStepTidy, RetryManagerStepTidy, ArchiverStepTidy DEF Steps
<1>3. CASE Crashes
  <2>1. ~KillCrash
    BY <1>1, KillStepNotPristine
  <2> QED BY <1>1, <1>3, <2>1, SubmitterStepTidy, CreatorStepTidy, TrackerStepTidy,
             AccountantStepTidy, HandlerStepTidy, RetryManagerStepTidy, ArchiverStepTidy DEF Crashes
<1>4. CASE UNCHANGED vars
  <2>1. /\ UNCHANGED tableVars /\ UNCHANGED rows /\ UNCHANGED submitterVars
        /\ UNCHANGED creatorVars /\ UNCHANGED trackerVars /\ UNCHANGED accountantVars
        /\ UNCHANGED handlerVars /\ UNCHANGED retryManagerVars /\ UNCHANGED operatorVars
        /\ UNCHANGED archiverVars /\ UNCHANGED killVars
    BY <1>4 DEF vars, bossAirVars
  <2>2. OnlyIn({}) /\ Legal
    BY <2>1, QuietStep
  <2>3. NeverMarked'
    BY <1>1, <2>1 DEF Tidy, NeverMarked, trackerVars
  <2>4. SubmitterOwns' /\ SubmitterPhases' /\ LateReports' /\ CreatorOwns' /\ TrackerOwns' /\ AccountantOwns'
        /\ HandlerOwns' /\ HandlerPhases' /\ RetryOwns' /\ OperatorOwns' /\ ArchiverOwns'
    BY <1>1, <2>1, <2>2, SubmitterUndisturbed, ReportsUndisturbed, CreatorUndisturbed, TrackerUndisturbed,
       AccountantUndisturbed, HandlerUndisturbed, RetryUndisturbed, OperatorUndisturbed,
       ArchiverUndisturbed DEF Tidy, EveryoneOwns
  <2> QED BY <1>1, <2>1, <2>2, <2>3, <2>4, NothingKilledKept DEF Tidy, EveryoneOwns
<1> QED BY <1>2, <1>3, <1>4 DEF Next

LEMMA InitOwnership == Init => OwnershipInv
<1> SUFFICES ASSUME Init PROVE Tidy
  BY DEF OwnershipInv, Tidy
<1>1. Cached = {}
  BY DEF Init, SubmitterInit, EmptyCache, Cached
<1>2. SubmitterOwns /\ SubmitterPhases /\ LateReports
  BY <1>1 DEF Init, SubmitterInit, SubmitterOwns, SubmitterPhases, LateReports
<1>3. CreatorOwns /\ TrackerOwns /\ AccountantOwns /\ HandlerOwns /\ HandlerPhases
  BY DEF Init, CreatorInit, TrackerInit, AccountantInit, HandlerInit, CreatorOwns, TrackerOwns,
         AccountantOwns, HandlerOwns, HandlerPhases
<1>4. RetryOwns /\ OperatorOwns /\ ArchiverOwns
  BY DEF Init, RetryManagerInit, ArchiverInit, RetryOwns, OperatorOwns, ArchiverOwns
<1>5. NeverMarked /\ NothingKilled
  BY DEF Init, BossAirInit, TrackerInit, TableInit, KillInit, NeverMarked, NothingKilled, InState
<1> QED BY <1>2, <1>3, <1>4, <1>5 DEF Tidy, EveryoneOwns

(* In every state until a kill begins, every component owns the jobs it    *)
(* remembers, the submitter and the error handler stand where their cycle  *)
(* says, no row is marked as timed out and nothing is killed: the          *)
(* strengthening of Ownership that every step of every component keeps.    *)
THEOREM OwnershipInvariant == Spec => [](TypeOK /\ OwnershipInv)
<1>1. Init => TypeOK /\ OwnershipInv
  BY InitTypes, InitOwnership
<1>2. TypeOK /\ OwnershipInv /\ [Next]_vars => (TypeOK /\ OwnershipInv)'
  BY NextTypes, NextOwnership
<1> QED BY <1>1, <1>2, PTL DEF Spec

(* Until a kill begins, what any component of the agent remembers about a  *)
(* job is what the table says when the component acts on it: the UPDATEs   *)
(* that name a job by its id only lose nothing, however many jobs there    *)
(* are, however batches and slices fall, and whatever crashes.             *)
THEOREM OwnershipHolds == Spec => []Ownership
<1>1. OwnershipInv => Ownership
  BY DEF OwnershipInv, Ownership
<1> QED BY <1>1, OwnershipInvariant, PTL

=============================================================================
