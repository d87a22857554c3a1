----------------------------- MODULE JobSubmitter ----------------------------
(***************************************************************************)
(* JobSubmitterPoller: the priority cache of jobs read in "created", the   *)
(* assignment of cached jobs to sites, and the submission, which reaches   *)
(* the batch system before the transaction that records it commits.        *)
(*                                                                         *)
(* Site thresholds, drain and abort lists and priorities only decide WHICH *)
(* cached jobs go out in a cycle: any subset may.                          *)
(***************************************************************************)
EXTENDS BossAir

CONSTANT NoJob            \* the cache holds nothing for a job

VARIABLES aborted,        \* ReqMgr lists the workflow as aborted (external)
          step,           \* where the submitter's cycle stands
          cache,          \* jobDataCache: the retry count each job was cached with
          badJobs,        \* jobs refreshCache found unfit to be submitted
          reported,       \* those of an error code whose report is not registered yet
          accepted,       \* processes the plugin created, not yet recorded
          rejected        \* attempts the plugin could not submit

submitterVars == <<step, cache, badJobs, reported, accepted, rejected>>

SubmitterTypeOK ==
  /\ aborted \in BOOLEAN
  /\ step \in {"idle", "bad", "path", "assign", "commit"}
  /\ cache \in [Jobs -> Nat \cup {NoJob}]
  /\ badJobs  \subseteq Attempts
  /\ reported \subseteq Attempts
  /\ accepted \subseteq Processes
  /\ rejected \subseteq Attempts

EmptyCache == [j \in Jobs |-> NoJob]
Cached     == {j \in Jobs : cache[j] # NoJob}

SubmitterInit == /\ aborted = FALSE /\ step = "idle" /\ cache = EmptyCache
                 /\ badJobs = {} /\ reported = {} /\ accepted = {} /\ rejected = {}

(* Mutation: nothing is ever purged from the cache.                        *)
CacheNeverPurged(J, new) == [j \in Jobs |-> IF j \in new THEN retry[j] ELSE cache[j]]

(* The cache once the jobs of J are all it may keep, and those of new have *)
(* been read from the database.                                            *)
CacheWith(J, new) == [j \in Jobs |-> IF j \in new THEN retry[j]
                                     ELSE IF j \in J THEN cache[j] ELSE NoJob]

(* Does the list of aborted workflows that GenericDataCache.getData returns*)
(* name the workflow?  When ReqMgr cannot be asked, it is an older list, or*)
(* the empty one that the component starts with.                           *)
Listed == {aborted, FALSE}

(* removeAbortedForceCompletedWorkflowFromCache, then getThresholds, which *)
(* empties the cache when the set of draining or aborted sites changed.    *)
Kept(named) == IF named THEN {{}} ELSE {{}, Cached}

(* hasToRefreshCache said no: the cycle goes on with the cache it has.     *)
SkipRefresh ==
  /\ step = "idle"
  /\ \E named \in Listed : \E keep \in Kept(named) :
       keep # {} /\ cache' = CacheWith(keep, {})
  /\ step' = "assign"
  /\ UNCHANGED <<aborted, badJobs, reported, accepted, rejected, bossAirVars, tableVars>>

(* ListForSubmitter, less the jobs of aborted workflows.                   *)
Readable(named) == IF named THEN {} ELSE InState({"created"})

(* refreshCache looks at the list a second time.  Created jobs of a        *)
(* workflow it does not name are read; one that is cached stays as it is, a*)
(* new one is cached, is bad (no site, no job pickle), or waits for a      *)
(* draining site; anything not read is purged.                             *)
Refresh ==
  /\ step = "idle"
  /\ \E before, now \in Listed : \E keep \in Kept(before) :
     \E bad \in SUBSET (Readable(now) \ keep) :
     \E new \in SUBSET (Readable(now) \ (keep \cup bad)) :
        /\ cache' = CacheWith(keep \cap Readable(now), new)
        /\ badJobs' = {Now(j) : j \in bad}
        /\ step' = IF bad = {} THEN "assign" ELSE "bad"
  /\ UNCHANGED <<aborted, reported, accepted, rejected, bossAirVars, tableVars>>

(* _handleSubmitFailedJobs, once for each error code.  A job gets a report,*)
(* unless its directory cannot be written, with a code that may be one of  *)
(* the no-retry codes; propagate commits the new state ...                 *)
FailBadJobs(bad, saved, result) ==
  /\ step = "bad"
  /\ bad # {} /\ bad \subseteq badJobs
  /\ saved \subseteq bad /\ result \in {"retry", "noRetry"}
  /\ state' = StateSet(JobsOf(bad), "submitfailed")
  /\ reports' = Written(reports, saved, result)
  /\ badJobs' = badJobs \ bad /\ reported' = saved
  /\ step' = "path"
  /\ UNCHANGED <<aborted, retry, path, rows, queue, cache, accepted, rejected>>

(* ... and only then, in a transaction of its own, where the report is.    *)
RegisterReports ==
  /\ step = "path"
  /\ path' = PathSet(reported)
  /\ reported' = {}
  /\ step' = IF badJobs = {} THEN "assign" ELSE "bad"
  /\ UNCHANGED <<aborted, state, retry, bossAirVars, cache, badJobs, accepted, rejected>>

(* assignJobLocations pops a batch from the cache; submitJobs opens its    *)
(* transaction and BossAir submits it.  Nothing is recorded yet.           *)
SubmitBatch(batch, good) ==
  LET attempt(j) == [job |-> j, retry |-> cache[j]]
  IN  /\ step = "assign"
      /\ batch # {} /\ batch \subseteq Cached /\ good \subseteq batch
      /\ \E copy \in [good -> Copies] :
           /\ \A j \in good : copy[j] \in FreeCopies(attempt(j))
           /\ accepted' = {[job |-> j, retry |-> cache[j], copy |-> copy[j],
                            held |-> FALSE] : j \in good}
      /\ queue' = queue \cup accepted'
      /\ rejected' = {attempt(j) : j \in batch \ good}
      /\ cache' = CacheWith(Cached \ batch, {})
      /\ step' = "commit"
      /\ UNCHANGED <<aborted, badJobs, reported, rows, reports, tableVars>>

(* Nothing fits a site this cycle, or the micro-architectures could not be *)
(* fetched: in the latter case the batch is gone from the cache.           *)
EndCycle ==
  /\ step = "assign"
  /\ \E batch \in SUBSET Cached : cache' = CacheWith(Cached \ batch, {})
  /\ step' = "idle"
  /\ UNCHANGED <<aborted, badJobs, reported, accepted, rejected, bossAirVars, tableVars>>

(* The rest of the transaction: bl_runjob rows, then the two propagates.   *)
CommitBatch ==
  /\ step = "commit"
  /\ rows' = RowsWith(accepted)
  /\ state' = [j \in Jobs |-> IF j \in JobsOf(rejected) THEN "submitfailed"
                              ELSE IF j \in JobsOf(accepted) THEN "executing"
                              ELSE state[j]]
  /\ accepted' = {} /\ rejected' = {} /\ step' = "idle"
  /\ UNCHANGED <<aborted, retry, path, queue, reports, cache, badJobs, reported>>

(* The process dies or a transaction fails: memory is lost.  What was      *)
(* handed to the batch system stays there, and so do reports that were     *)
(* saved on disk before the state was.                                     *)
SubmitterCrash ==
  /\ step # "idle" \/ Cached # {}
  /\ \E saved \in SUBSET badJobs, result \in {"retry", "noRetry"} :
       reports' = Written(reports, saved, result)
  /\ step' = "idle" /\ cache' = EmptyCache
  /\ badJobs' = {} /\ reported' = {} /\ accepted' = {} /\ rejected' = {}
  /\ UNCHANGED <<aborted, rows, queue, tableVars>>

(* ReqMgr: an operator aborts or force-completes the request.              *)
Abort == /\ ~aborted
         /\ aborted' = TRUE
         /\ UNCHANGED <<submitterVars, bossAirVars, tableVars>>
=============================================================================
