# WMCore: requests, work queues, jobs and files, in TLA+

WMCore is the workload management of the CMS experiment. *ReqMgr* takes
requests, the *MicroServices* place and clean up their data, the *global
WorkQueue* hands out pieces of them, and many *agents* (WMAgent) turn these into
jobs, run them in a batch system and record what they produced. An agent is about
fifteen Unix processes ("components") that share one MySQL or Oracle database
(WMBS, BossAir, DBS buffer tables) and a CouchDB, and poll it on timers of
their own.

This project models the way of a request through the system, in four parts.
*WorkQueues* is the request itself: ReqMgr2 and the global queue split it into
elements, several agents compete for them over CouchDB replication, and it is
completed, or cancelled, by what comes back. *SubscriptionFiles* is the life of a
workflow's files in one agent, from their injection to the moment all its
subscriptions are finished. *AgentJobs* is the life of a job, from the moment its
files are taken until it is archived, in the hands of ten components and an
operator, with crashes, rollbacks, time-outs and kills. *BlockUploads* is the way of
the files that jobs wrote into the data catalogues, DBS and Rucio: two components on
one set of tables, a pool of processes and two services that may fail after they did
what they were asked for.

What is modelled is in `PROJECT.json` under `map`, definition by definition; paths
below are relative to `src/src/python/WMCore` (`WMCore/`) and
`src/src/python/WMComponent` (`WMComponent/`).

## 1. Inventory

| Component | State it keeps | Operations | Talks to |
|---|---|---|---|
| Job state machine (`JobStateMachine/Transitions.py`, `ChangeState.py`) | `wmbs_job.state`, `retry_count`, `fwjr_path` | `propagate` = check the table, record in Couch, `persist` | every job component |
| JobCreator | WMBS job groups | split the files of a subscription, advance jobs to `created` / `createfailed` | WMBS, job state machine |
| JobSubmitter | in-memory priority cache of created jobs | refresh / purge the cache, pick sites, submit, fail | BossAir, ResourceControl |
| BossAir (`BossAir/BossAirAPI.py`, plugins) | `bl_runjob` | submit, track, complete, kill, getComplete, update | the batch system (HTCondor) |
| JobStatusLite (StatusPoller) | – | `track`, then time-outs | BossAir |
| JobTracker | – | executing jobs whose row is no longer active become complete | BossAir, job state machine |
| JobAccountant | – | read job reports; success or jobfailed; files, DBS buffer | WMBS, DBS buffer |
| ErrorHandler | – | failed jobs: cooloff, created, retrydone; retrydone: exhausted | ACDC, job state machine |
| RetryManager | – | cooloff jobs: created or paused, one more retry | job state machine, `bin/paused-jobs` |
| JobArchiver | – | finished jobs: clean, `cleanout`; workflow bookkeeping | WMBS |
| Workflow kill (`WorkQueue/WMBSHelper.py`, WorkQueueManagerCleaner) | – | settle the files of a workflow, kill its live jobs | WMBS, BossAir, ReqMgr |
| WMBS files and subscriptions | `wmbs_sub_files_*`, `wmbs_subscription.finished` | available, acquired, complete, failed; close | JobCreator, JobAccountant, ErrorHandler, TaskArchiver |
| Global WorkQueue (`WorkQueue/WorkQueue.py`, its CherryPy threads) | elements and the request's own inbox element, in CouchDB | queue, add and close work; results; cancel; delete | ReqMgr2, CouchDB replication |
| Local WorkQueue (WorkQueueManager, JobArchiver, TaskArchiver) | inbox elements (replicated), local elements, WMBS | pull, split, get work, done, cancel, delete | global queue, WMBS, ReqMgr2 |
| ReqMgr request status (`ReqMgr/`) | request documents | PUT, `StatusChangeTasks`, cascades | work queue |
| MicroServices | Mongo documents, Rucio rules | transferor, monitor, output, rule cleaner, unmerged, pile-up | ReqMgr, Rucio, DBS |
| DBS3Upload (`DBS3Buffer/`) | `dbsbuffer_block`, `dbsbuffer_file.block_id`, `.status`; in memory `blockCache`, `filesToUpdate`, `queuedBlocks`; a pool of processes | load, put files into blocks, close blocks, write blocks and files, upload, record | DBS, RucioInjector (by the tables) |
| RucioInjector | `dbsbuffer_file.in_phedex`, `dbsbuffer_block.status`; `filesToRecover` in memory | inject replicas, mark them, close blocks; delete replicas and rules | Rucio, DBS3Upload (by the tables) |
| TaskArchiver | – | finish and delete subscriptions | WMBS, WorkQueue |
| AgentWatchdog, Harness, ThreadPool, WorkerThreads | timers, threads | start, stop, pause, restart components | all components |
| AgentStatusWatcher, JobUpdater, WorkflowUpdater, AnalyticsDataCollector, ArchiveDataReporter | thresholds, priorities, monitoring | – | ReqMgr, WMStats |
| WMSpec, WMRuntime, Storage, FwkJobReport | – | what runs on a worker node | – |
| JobSplitting | – | files to jobs (algorithms) | JobCreator |
| Services, REST, WebTools, couchapps | – | clients, request handling, presentation | – |

`PROJECT.json` lists each of them with its status and, if it is left out, the
reason.

### What is hard here

* **Nothing is locked.** `ChangeState.persist` runs `UPDATE wmbs_job SET state = … WHERE id = …`
  (`WMBS/MySQL/Jobs/ChangeState.py:15`). `ChangeState.check` compares the new
  state with the state the *caller* believes the job is in. What keeps two
  components from acting on one job is a convention: each state is listed by
  one component only. The kill does not follow it.
* **Read, think, write.** Every component lists jobs, works, possibly for
  minutes, and writes back. The JobSubmitter keeps a cache between cycles.
* **The batch system is outside the transaction.** Jobs are handed to the schedd
  before the transaction that records them commits (`JobSubmitterPoller.py:773`).
* **Two tables for one attempt.** `wmbs_job.retry_count` and
  `bl_runjob.retry_count` are joined to find finished jobs; `INSERT IGNORE` keeps
  an old row of the same attempt.
* **Kills are statement by statement**, in autocommit, repeated by a cleaner, and
  race with everybody. The retry count is incremented by a SELECT and an UPDATE of
  what was computed from it (`WMBS/MySQL/Jobs/IncrementRetry.py:22-31`), by the kill
  and the RetryManager alike.
* **Two commits for one fact.** The submitter commits that a job failed in submission
  and then, in another transaction, where its report is
  (`JobSubmitterPoller.py:526-527`).
* **Cached lists of other systems.** Which workflows are aborted is asked of ReqMgr
  through a cache that keeps what it has, at first nothing, when ReqMgr does not
  answer (`WMCore/Cache/GenericDataCache.py:36-47`).
* **Files have no lock either.** Four tables per subscription say where a file is;
  JobCreator, JobAccountant, ErrorHandler and the kill move its row from one to
  another. Several jobs read one file, and the last to succeed settles it.
* **The end is a conjunction of polls.** JobArchiver marks a workflow as injected and
  closes its output filesets, TaskArchiver marks subscriptions as finished; each asks
  the tables the others write, and none of these marks is ever taken back.
* **CouchDB is two databases that agree later.** An inbox element is edited in the
  agent and in the global queue; replication keeps both versions, one of them is
  read, and `fixConflicts` merges them when it sees them. Views are read stale.
* **Blind writes.** A PUT validates a transition, cancels the elements and then
  writes the status without comparing; `updateElements` saves with `force`.
* **Two catalogues outside any transaction.** A block is inserted in DBS, then its
  files and itself are recorded in the buffer; files are attached in Rucio, then
  marked. What is recorded may be lost, what was done is not; and the cache that says
  which file goes into which block outlives a cycle that failed.
* **Partial failure**: an exception ends a cycle, drops one slice or rolls one of
  two transactions back.

`PROJECT.json` lists these under `hazards` with the line where each bites and the
properties that cover it.

### What makes each component correct

* Job state machine: a job moves only along the table, and its retry count with
  it (`ImplementsLifecycle`).
* JobSubmitter: a job is submitted once per attempt, and its cache is still true when
  it is used (`Ownership`, `OneProcess`).
* All job components: what one remembers about a job is never made untrue by another
  component, only by a kill (`Ownership` until a kill, `LostOnlyToKill` always).
* BossAir and JobTracker: an executing job has a row; a job is complete only when
  its process is gone (`RowsAgree`, `CompleteMeansGone`).
* JobAccountant, ErrorHandler: a job is judged by the report of the attempt that
  ran (`JudgedByOwnReport`).
* ErrorHandler and RetryManager: no more retries than allowed, kills or not
  (`RetriesBounded`).
* Kill: whatever it raced with, the workflow drains (`KilledDrains`). That what it
  wrote into the retry count is kept (`KilledIsRaised`) is what a test says and the code
  does not do (section 3).
* WMBS files and subscriptions: a file is in one table, and the table says what its
  jobs did (`EveryFileOnce`, `VerdictsAgree`); a closed fileset gets no file, a
  finished subscription no work, and no output is left behind (`NoLateOutput`,
  `FinishedIsFinal`, `NothingLost`).
* WorkQueue: an element is given to one agent and worked on once, whatever
  replication does (`ImplementsAssignment`); `Done` in the global queue means over in
  the agent that has it (`DoneIsOver`); an agent that was told all is injected gets no
  more (`InjectedIsAll`).
* ReqMgr: a request is completed when all its work is, late work included
  (`CompletedIsOver`), and it ends, cancelled or not (`RequestEnds`).
* DBS3Upload: a file is in one block, the same one in the buffer, in what is sent to
  DBS and in DBS (`DBSAgrees`); what is recorded as uploaded is (`RecordedIsTrue`); a
  file gets there after the files it was made of (`ParentsFirst`).
* RucioInjector: Rucio has the files in the same blocks, and a block is closed there
  with all its files but those that Rucio refused to attach (`RucioAgrees`).
* All: every job comes to rest (`AllSettle`), every workflow is finished, or ends
  when it is aborted (`WorkflowFinishes`, `AbortedEnds`), every file is uploaded
  (`AllUploaded`).

## 2. The modules

```
Transitions ── JobLifecycle                      abstract: what one job may do
     └── JobTable                                wmbs_job, and the UPDATEs on it
           └── BossAir                           bl_runjob, batch system, StatusPoller
                 ├── JobCreator, JobSubmitter ── WorkflowKill
                 ├── JobTracker, JobAccountant, ErrorHandler, RetryManager, JobArchiver
                 └──────── AgentJobs             the composition, crashes, fairness
                              └── AgentProperties ── MCAgentJobs (TLC)
                                    └── AgentTypeProofs ── AgentOwnershipProofs
                                              └── AgentLifecycleProofs ── AgentTableProofs

SubscriptionFiles                                the file tables of one workflow
     └── SubscriptionProperties ── MCSubscriptionFiles (TLC)
           └── SubscriptionProofs

RequestStatus, WorkElement ── CouchDocs ── QueueState
           ├── GlobalQueue, RequestManager, LocalQueue
           └──────── WorkQueues                  the composition, replication, fairness
                        └── WorkQueueProperties ── MCWorkQueues (TLC)
                              │   (INSTANCE WorkAssignment: what the queues promise)
                              └── WorkQueueTypeProofs ── WorkQueueProofs

BlockBuffer                                      dbsbuffer_* tables, DBS and Rucio
     ├── DBSUpload, RucioInjector
     └──────── BlockUploads                      the composition, fairness
                  └── BlockProperties ── MCBlockUploads (TLC)
                        └── BlockProofs
```

The parts meet where one is a step of the other. What `SubscriptionFiles` calls a
live job is a job anywhere between `new` and the end of its last attempt in
`AgentJobs`; a file's table depends on a job's last verdict only, and a job's path
never on its files. What `WorkQueues` calls `Finish`, the end of an element's work in
WMBS, is the run of `SubscriptionFiles` from an element's `Inject` to the end of its
subscriptions, and the `MarkInjected` of both is the same line of code. What
`BlockUploads` calls `AddFile` is the accountant's step on a successful job. They are not
composed further: the state of one would only multiply the other's.

| Module | Code | State and actions |
|---|---|---|
| `Transitions` | `JobStateMachine/Transitions.py`, `ChangeState.persist`, the name tables of the pollers | the table and the retry increment, as data |
| `JobLifecycle` | the same, as an abstract specification | `Next`: every job stays, or moves along the table with the right increment |
| `JobTable` | `WMBS/MySQL/Jobs/ChangeState.py`, `IncrementRetry.py`, `SetFWJRPath.py` | `state`, `retry`, `path`; `StateSet`, `RetryWritten` (what was read, plus the increment), `PathSet` |
| `BossAir` | `BossAirAPI.py`, `StatusPoller.py`, `SimpleCondorPlugin.py` | `rows` (`bl_runjob`), `queue` (external), `reports`; `Track`, `Timeout`, `KillBatchJobs`, `CompleteRows`, `ProcessEnds`, `ProcessHeld` |
| `JobCreator` | `JobCreatorPoller.py` | `CreatorRead`, `CreatorCommit`, `CreatorCrash` |
| `JobSubmitter` | `JobSubmitterPoller.py`, `Cache/GenericDataCache.py` | `cache` is `jobDataCache`, `reported` the reports not registered yet; `Listed` is what the cached list of aborted workflows may say; `SkipRefresh`, `Refresh`, `FailBadJobs`, `RegisterReports`, `SubmitBatch`, `CommitBatch`, `EndCycle`, `SubmitterCrash` |
| `JobTracker` | `JobTrackerPoller.py` | `TrackerRead`, `TrackerCommit` (twice: `passJobs`, then `failJobs`) |
| `JobAccountant` | `JobAccountantPoller.py`, `AccountantWorker.py` | `AccountantRead`, `AccountantCommit(slice)` |
| `ErrorHandler` | `ErrorHandlerPoller.py` | `HandlerRead`, `HandlerLoad(slice)`, `HandleFailed`, `HandleRetryDone` |
| `RetryManager` | `RetryManagerPoller.py`, `PlugIns/PauseAlgo.py`, `SquaredAlgo.py`, `bin/paused-jobs` | `RetryRead`, `RetrySelect`, `RetryCommit`; `OperatorLists`, `OperatorMoves` |
| `JobArchiver` | `JobArchiverPoller.py` | `ArchiverRead`, `ArchiverCommit` |
| `WorkflowKill` | `WMBSHelper.killWorkflow`, `Jobs/KillWorkflow.py`, `Subscriptions/KillWorkflow.py` | `KillRead`, `KillBatch`, and for the jobs of each state `KillSelect`, `KillIncrementRetry`, `KillSetState` |
| `AgentJobs` | the components as processes | `SubmitStep` … `KillStep`, `Crashes`, `Spec`, `FairSpec` |
| `AgentProperties` | – | every property of `AgentJobs` |
| `SubscriptionFiles` | WMBS file, fileset and subscription DAOs and their callers, below | the file tables of a workflow, from injection to the end |
| `SubscriptionProperties` | – | its properties and its fairness |
| `RequestStatus` | `ReqMgr/DataStructs/RequestStatus.py` | the tables of transitions, as data |
| `WorkElement` | `WorkQueue/DataStructs/WorkQueueElement.py`, `WorkQueueElementResult.py`, `convertWQElementsStatusToWFStatus` | statuses and what is computed from them |
| `CouchDocs` | external: CouchDB; `WorkQueueBackend.fixConflicts`, `CMSCouch` | a document is the set of its leaf revisions; `Save`, `Insert`, `Delete`, `Received`, `Fixed` |
| `QueueState` | – | the state of one request: documents, WMBS, what each task has read |
| `GlobalQueue` | `WorkQueue.py`, `WorkQueueReqMgrInterface.py`, `GlobalWorkQueue/CherryPyThreads/` | below |
| `RequestManager` | `ReqMgr/Service/Request.py`, `CherryPyThreads/StatusChangeTasks.py` | below |
| `LocalQueue` | `WorkQueue.py`, `WorkQueueBackend.py`, WorkQueueManager's pollers, `JobArchiverPoller.py`, `TaskArchiverPoller.py` | below |
| `WorkQueues`, `WorkQueueProperties` | the replications | `ReplicateDown`, `ReplicateUp`, `Spec`, `FairSpec`; the properties |
| `WorkAssignment` | – | abstract: each element to one agent, which works on it once |
| `BlockBuffer` | `DBS3Buffer/MySQL/`, `DBSBufferUtil.py`; external: what DBS accepts, what Rucio has | the tables and the two services; the queries of both components, `SetBlockFiles`, `SetUploaded`, `AddFile` (`AccountantWorker`) |
| `DBSUpload` | `DBS3Buffer/DBSUploadPoller.py`, `DBSBufferBlock.py` | a cycle, the cache, the pool; below |
| `RucioInjector` | `RucioInjector/RucioInjectorPoller.py`, `Services/Rucio/Rucio.py` | a cycle; below |
| `BlockUploads`, `BlockProperties` | – | `Spec`, `FairSpec`; the properties and the inductive invariant |

How the correspondence goes, everywhere: a component's `…Read` action is the DAO
that lists its jobs, its variable is the list in the component's memory, and its
`…Commit` action is the transaction that writes. Anything may happen between the
two. A `…Crash` is the death of the process or the rollback of its transaction:
memory is lost, what went to the batch system or the disk stays. An operator
whose comment begins with "Mutation:" is a wrong variant of the definition after
it; no specification uses it, it is there so that a property can be shown to
notice it.

### SubscriptionFiles

A workflow has a top-level subscription for each element of the local work queue (a
block, say), with a fileset of its own that is closed when its files are in, and a
Merge subscription on the output fileset that all of them share. The tables are
`available`, `acquired`, `complete`, `failed`; each action below is one transaction
(a statement, for the kill).

| Action | Code |
|---|---|
| `Inject`, `SaveElement` | `WMBSHelper.createSubscriptionAndAddFiles`, then `updateElements`: a crash between the two injects the element a second time, and `AddDupsToFileset` must notice. `getWork` works on the list of elements it has and does not ask whether the request is aborted: files may be injected during a kill, and after it |
| `MarkInjected` | `JobArchiverPoller.markInjected`: every element is Running, or the request is gone |
| `SplitterOpens`, `SplitterCommits`, `SplitterEnds` | JobCreator: the job factory reads the available files once (`JobFactory.open`), `Subscription.bulkCommit` makes the jobs of a group and acquires its files. A group is split into at most `MaxPieces` jobs that all read it; a merge job has its files for itself (`ParentlessMergeBySize`) |
| `JobEnds`, `ReportFails` | the job's last attempt ends, with a report or without; the report may say that it failed |
| `Accountant` | `AccountantWorker.__call__` for a slice of jobs: output files into the shared fileset and to its subscribers (`BulkAddByLFN`), outcomes, `CompleteInput`. A report may name skipped files, of a kind that one job reads (`handleSkippedFiles`) |
| `Exhaust` | `ErrorHandlerPoller.exhaustJobs`: `FailInput` |
| `Archive` | `JobArchiverPoller.archiveJobs` |
| `ListClosable`, `MarkClosed`, `CloserCrash` | `pollForClosable`: a query, then the update of what it found |
| `MarkFinished` | TaskArchiver, `MarkNewFinishedSubscriptions`; `old` are jobs whose state is older than `timeOut` |
| `Abort`, `Kill…` | `killWorkflow`: three statements on files and the jobs, each committed alone, repeated while the request is aborted and has an unfinished subscription |

Left out here: filesets with the alternative closing rule (`alt_fs_close`), which
close element by element; `WMBSMergeBySize`, whose `FailOrphanFiles` fails files for
which no sibling is complete; LogCollect and Cleanup subscriptions, which a kill
spares; an agent in drain mode, which asks its own queue whether a workflow is
injected (`JobArchiverPoller.py:309`) and may hear yes before the global queue has
sent the last element.

### WorkQueues

One request. A *document* is the set of its leaf revisions in one database; a
revision is its status, its `ChildQueueUrl` and its *path*: the databases it was
edited in, one after the other. That is what CouchDB compares – a revision is an
ancestor of another if its path is a prefix of the other's – and is enough,
because a database makes at most one edit of a revision (`Save` refuses a revision
that is no leaf). What a read returns is the longest live leaf; of two of one length
CouchDB takes the one with the higher hash, a coin the model flips once
(`GlobalWins`). A deletion is a revision too, and an insertion over it goes on from it.

| Action | Code |
|---|---|
| `QueueWork`, `InsertElement`, `QueueingDone`, `QueueWorkFails` | `WorkQueueReqMgrInterface.queueNewRequests`, `WorkQueue.queueWork`, `processInboundWork`; `insertElements`, one document after the other |
| `AddWork`, `CloseWork` | `WorkQueue.addWork`, `closeWork`, in the thread of the former |
| `SyncGlobal`, `ListToCancel`, `CancelListed` | `performSyncAndCancelAction`, `cancelWork` |
| `DeleteCompletedGlobal`, `DeleteCompletedLocal` | `deleteCompletedWFElements` |
| `PullRead`, `PullSave` | `pullWork`: `availableWork` reads, `_assignToChildQueue` saves |
| `Split`, `SplitFailed`, `Acquire` | `processInboundWork` of the local queue, after `fixConflicts` |
| `FeedRead`, `Inject`, `MarkRunning` | `getWork`, `_wmbsPreparation`, `updateElements` |
| `MarkInjected`, `Finish`, `ArchiveDone` | JobArchiver; the jobs; TaskArchiver's `doneWork` |
| `SyncResults`, `KillWMBS`, `CancelInbox`, `KillForbidden` | `performQueueCleanupActions`, `cancelWork`, `killWorkflow`; the kills of Cleaner and TaskArchiver |
| `UpdateView`, `MoveForward`, `MoveCancelled`, `CancelAgain` | the stale view, `StatusChangeTasks` |
| `Ask`, `WriteStatus` | the PUT of `aborted` or `force-complete`: validate, `cancelWorkflow`, write |
| `GlobalFault`, `ManagerFault`, `AgentFault` | a task dies and forgets what it read; `Dying` names the ones that may, any number of times |

Assumptions the code leaves to time, and the model states as guards: a PUT takes
seconds and the deletion cycle minutes, so nothing is deleted under a PUT that found
the request alive (`asked`, in `DeleteCompletedGlobal` and `…Local`); and a request is not closed
while the view of `StatusChangeTasks` shows it as completed and lacks elements that were
added since (`CloseWork`). `closeWork` (`WorkQueue.py:899-907`) does not look at the view.
It closes a request when `OpenRunningTimeout` passed since data was last found for it,
which is hours when it is set and more than a view needs; when it is 0 or not set, in
the cycle that made the elements, before the agents can have made one `Done` and so before
the view can show `completed`. Everything else may happen with a view that is as old as you
like. `MaxEdits` bounds how often a request that is
already cancelled is cancelled again.

Left out: several requests (they share no element), team and site matching,
priorities, the request types whose elements are made differently (Resubmission,
ACDC), drain mode, the assignment part of ReqMgr and the archiving tasks.

### BlockUploads

The files of a few datasets and the blocks they may get into. A block is a name; a
block that is nowhere yet is a name not in use. A file may have parents, files of
another dataset that it was made of.

| Action | Code |
|---|---|
| `LoadBlocks` | `loadBlocks` (open blocks, and pending ones, into the cache, unless they wait for parents), `loadFiles` (what has no block; `algorithm`'s first half) |
| `PlaceInCached`, `PlaceInNew` | `loadFiles`, file by file: a block of the cache that may take it, or a new one; a block that is full becomes pending |
| `CheckBlockCompletion` | `checkBlockCompletion`: which blocks are over is any choice; an open block without files stops the cycle (`CompletionFails`) |
| `CreateBlocks`, `AssignFiles` | `inputBlocks`: two transactions, then the pending blocks are queued for the pool |
| `Insert`, `InsertFails`, `OrphanInserts` | `uploadWorker`: one process of the pool; an error before or after the insertion; a process that a dead parent left behind |
| `RecordUploads`, `RecordLost` | `retrieveBlocks`: the transaction, and its failing twice |
| `GiveUpWaiting`, `WaitedTooLong` | `retrieveBlocks`, when DBS takes too long, once and the second time |
| `ConnectionLost`, `UploadCrash` | `db_exception_handler`, which keeps the component and its cache; a death, which does not |
| `ListUninjected`, `RecoveryFails` | `insertBlockReplicas`: the recovery of what a deadlock left, then the query |
| `InsertReplicas`, `ReplicasRefused`, `AttachRefused` | `createReplicas` for one block: the files are created and attached; `add_replicas` refuses the call because it has one of several files; `attach_dids` refuses it because one is attached |
| `InsertReplicasFails` | Rucio fails before, between or after the two calls, or the block could not be created |
| `MarkInjected`, `Deadlock` | `_updateLFNState`; a deadlock puts the files into `filesToRecover` |
| `ListMigrated`, `CloseInRucio`, `SetBlockClosed`, `CloseFails` | `closeBlocks` |
| `InjectCrash` | a death of the component |

`Faults` names the kinds of fault that may happen, `MaxFaults` how often. What Rucio
does with a call some of whose files it has already is not to be read from this
repository: it may accept or refuse it, each time anew. What the code makes of the answer
is. A refused `add_replicas` is an error for more than one file, and the cycle neither
attaches nor marks any (`Services/Rucio/Rucio.py:418-426`); a refused `attach_dids` is
taken for a success (lines 378-383), so that files which were not attached are marked.
`replicas` is what Rucio has, `missed` remembers the files that were lost in the second
way.

Left out: locations (one), the deletion of blocks, rules and replicas by
RucioInjector, container and block rules, the upload of one block's metadata
(`DBSBufferBlock`'s contents), the check for duplicate files of a workflow that is
cleaned up.

### What the data was reduced to

* A job is its id. `new` means "its files have not been taken yet": JobCreator
  creates the row and advances it in one transaction, so no one else sees a job in
  `new`.
* One workflow; a kill hits all the jobs.
* A report file is its verdict, one of five; `fwjr_path` is the retry count in its
  name. `readFWJR` is on, as in the standard configuration
  (`src/etc/WMAgentConfig.py:284`), and so are the state time-outs (line 267).
* `bl_runjob` is unique in (`wmbs_id`, `retry_count`), which the `INSERT IGNORE` of
  `BossAir/MySQL/NewJobs.py:21` presupposes; the schema itself is in another
  repository (`wmcoredb`). Under Oracle the insert is plain
  (`BossAir/Oracle/NewJobs.py:18`), and fails where MySQL ignores; the model is
  the MySQL one.
* A file that a job writes goes by the name of the job; a top-level job writes one.
  An element is the set of its files.
* Which jobs a cycle picks – thresholds, priorities, drain lists, waits – is any
  choice. This makes the safety results stronger than the code needs, and is why
  liveness needs strong fairness (section 4).
* `KillIncrement` stands for 99999; what matters is only that it is larger than
  every legal retry count, which `AgentJobsAssumption` says.

## 3. What the runs show

The runs of `MCAgentJobs`. Bounds common to them: `MaxFaults` crashes or
rollbacks in a behaviour, of the components in `Dying`; `MaxCopies` processes of one
attempt alive at a time (two are needed to see a double submission); `MaxRetries`
retries. `AllowKill` lets kills happen, `AllowAbort` lets ReqMgr name the workflow as
aborted. The two are apart because the kill starts from elements that are
`CancelRequested`, the submitter from its own list of aborted workflows.

| Run | Instance | Shows |
|---|---|---|
| `retries` | 1 job, 1 retry, PauseAlgo, 2 faults, 2 copies, fair | `TypeOK`; `Ownership`; `TableInv` (the inductive form of `RowsAgree`, with the processes of the batch system); `JudgedByOwnReport`; `RetriesBounded`; `OneProcess`; `CompleteMeansGone`; the agent implements `JobLifecycle`; `AllSettle` |
| `kill_races` | 1 job, 1 retry, kills at any moment while the submitter's list never names the workflow, `passExitCodes`, 1 fault of any component or of the kill | `LostOnlyToKill` and `RetriesBounded`, in every state; until the kill, `RowsAgree` and `OwnershipInv` (the inductive form of `Ownership`) |
| `kill_drains` | 1 job, 1 retry, abort and kills, processes on hold, the fairness of the kill alone (section 4) | `KilledDrains` |

One job already meets all components, so one job shows every race between
components. A second one matters for what lists do: batches and slices that
split, a submit with one job accepted and one rejected, a cache that keeps one and
purges the other. Every safety property here is proved for any number of jobs
(section 5), so no run has two. One retry already puts a report and a row of an old
attempt beside those of the next. Two faults cover every crash point, and a crash of one component
while another still recovers; the properties that are proved (section 5) hold for
any number. The runs with kills have one process of an attempt at a time, and
`kill_drains` no fault, because their graphs are the largest here: a kill takes a job out of
everyone's hands in every state, and each of them may write over it later. The second
process of an attempt is in `retries`; all of it together is covered by the proofs of what
`kill_races` checks, and `KilledDrains` also passes TLC with a kill that dies once and
no retry.

Where a job may be submitted twice depends on the fault: `OneProcess` is claimed
without crashes only, since a submitter that dies between the schedd and its
commit leaves a process behind, and the job is submitted again
(`JobSubmitterPoller.py:773`). `RowsAgree` and `JudgedByOwnReport` still hold
then: the agent's tables do not go wrong, a job is just run twice.

The runs of `MCSubscriptionFiles`:

| Run | Instance | Shows |
|---|---|---|
| `subscription_files` | one element of two files (symmetric), split into up to 2 jobs | `EveryFileOnce`; `VerdictsAgree`; `FinishedIsFinal`; `NothingLost`; `NoLateOutput` |
| `workflow_ends` | one element of one file, jobs may time out, abort at any moment, injection before, during or after the kill, fair | `FilesTypeOK`; the inductive `FilesInv`; `WorkflowFinishes`; `AbortedEnds` |

Two files and two jobs on a file give every pattern of shared input there is between
two jobs: the same files, one file in two groups of its own, a group whose jobs end
differently. (The jobs of one group read the same files; two jobs that share only a part
of their files are not modelled.) One file already takes the whole way through every
component to the end of a workflow, or to exhaustion, which is what liveness is
about; the graph of more files is too large for it. A workflow of two elements, one
injected while the other is already over, is covered by the proofs. The sets of files and jobs are
finite, so no other bound is needed; deadlock is not checked, because a workflow that
is finished is where this system stops.

The runs of `MCWorkQueues`:

| Run | Instance | Shows |
|---|---|---|
| `wq_agents` | 2 agents (symmetric), 1 element, force-complete, splitting may fail, `MaxEdits` 4 | `ImplementsAssignment`; `DoneIsOver` |
| `wq_late` | 1 agent, 2 elements, the second found later, no cancellation | `QueueTypeOK`; `CompletedIsOver`; `InjectedIsAll` |
| `wq_ends` | 1 agent, 1 element, force-complete at any moment, `MaxEdits` 7, fair | `RequestEnds` |

Two agents and one element is the competition for an element; conflicts need one
element and two databases, and the four edits of `wq_agents` put a result and a
cancellation on either side of a replication. What two elements add is an order: one
is worked on while the other is being made. Aborting takes the same code as
force-completing but for the last status. In the fair run seven edits leave room for the
whole life of an element and for cancelling it twice. Deadlock is not checked: a
request that is over is where this system stops.

The run of `MCBlockUploads`:

| Run | Instance | Shows |
|---|---|---|
| `uploads` | a file, and two of a second dataset, one made of the first; one block name for the first dataset, two for the second; one fault of any kind; fair | `BlockTypeOK`; `DBSAgrees`; `RecordedIsTrue`; `ParentsFirst`; `RucioAgrees`; the inductive `BlockInv`; `AllUploaded` |

Two datasets are needed for parents, and two files of one dataset, with two names, for
a file that goes into a block others are in, or into another. One that joins a block
whose other file is attached and not yet marked is what Rucio may refuse: the run has
blocks that are closed without a file of `missed`, and files whose replicas are refused
in every cycle. One fault is every
crash point of either component with the other at any place; the safety properties
are proved for any number. Deadlock is
not checked: when all is uploaded and closed nothing is left to do.

### Where code and documentation differ

Each of three runs checks one statement of a comment or a test, and TLC finds a
behaviour of the code that does otherwise (`findings`):

* `kill_forgotten` – `KilledIsRaised`. `IncrementRetry` selects the retry count, adds
  to it, and writes the sum. A kill that commits between the two statements of the
  RetryManager is overwritten: 99999 becomes the old count plus one, and the job is
  killed all the same. This does not depend on the isolation level; under REPEATABLE READ
  (MySQL's default) the window is wider and begins where the RetryManager's transaction
  first read. The other way round, the kill writes over the RetryManager's increment.
  What this cannot do is what `RetriesBounded` and `LostOnlyToKill` say, and the workflow
  drains all the same (`KilledDrains`).
* `partial_split` – `EverythingQueued`. A global queue that dies after it saved the
  first of a request's elements takes the request for split when it comes back
  (`WorkQueue.py:1139`), and the request is completed without the others.
* `lost_connection` – `TriedLater`. A connection lost between putting a file into a
  block of the cache and telling the buffer: the next cycle loads the file again and
  may put it into a second block; DBS takes the first and refuses the second in every
  cycle. This is why the properties of the blocks hold until `interrupted`.

Seen while modelling, without a run of their own.

In the jobs:
`BossAirAPI.update` reloads the rows by id before it writes, so the `Timeout` that
`StatusPoller` set is lost and JobTracker passes the job on as complete (its report
fails it later); with `passExitCodes`, a job passed straight to `created` meets its
old, inactive row at the next submission, and `LoadComplete` may return it while its
process runs; a kill that overlaps another
component's list changes a state in a way the table does not have, such as
`complete → killed`, since `check` compares with the state the caller believes in; a
held process is in the global state `Error`, which `track` completes at the next poll,
so that the Error time-out is never reached (`SimpleCondorPlugin.py:260`); a killed job may
be submitted: while the submitter's list of aborted workflows is old, or was never
read, a job that a kill is about to set to `killed` is still `created` and is cached with
the count the kill wrote.

In the files: `killWorkflow` says it marks files as failed, while
`Subscriptions/KillWorkflow.py:17` marks them as complete; the docstring of
`MarkNewFinishedSubscriptions` asks for "no unfinished child subscriptions", which
the query does not look at.

In the queues:

* After `cancelGraceTime` the elements are set to `Canceled` in memory, and then
  those that are *not* in an end state are saved: none (`WorkQueue.py:597`). A
  cancellation an agent never answers waits for ever.
* An aborted request whose elements are all `Failed` has the status `failed` in the
  view, for which `StatusChangeTasks` (lines 57-76) has no branch: it stays `aborted`.
* A PUT writes the status it validated some time ago (`Request.py:517-570`): a request
  that went from `running-closed` to `completed` meanwhile becomes `aborted`. And a
  PUT that fails after `cancelWorkflow` leaves the elements cancelled: a request that
  nobody cancelled is then completed without its work. `CompletedIsOver` therefore
  speaks of requests that nobody asked to cancel.
* `cancelWork` of `WorkQueueReqMgrInterface` (lines 137-150) passes the request's name
  where element ids are expected.
* `updateBulkDocumentsWithConflictHandle` always returns an empty list
  (`CMSCouch.py:386-401`), so its caller never sees that a document was not saved.
* `WorkQueueElementResult.status` raises for a mixture of `Negotiating` and `Done`;
  the cycle that meets it does nothing for this request.
* An element whose splitting failed in the agent ends `Failed`, and the request is
  completed, not failed.

In the blocks:

* A death between the two transactions of `inputBlocks` leaves an open block without
  files. It is loaded, has no start time, and `checkBlockCompletion` compares a number
  with `None`: a `TypeError` ends this cycle and every later one until a file is put
  into the block (`CompletionGoesOn`, which no run checks, is violated with
  `Faults = {"upload crash"}`; `Forgotten` in `AllUploaded` is this state).
* `attachDIDs` takes "file already attached" for a success of the whole call. If Rucio
  refuses the whole call, a RucioInjector that died before it marked files leaves them
  attached, the next cycle attaches none of the others and marks all: the block is closed
  without them (`missed`, which `RucioAgrees` has to except).
* `createReplicas` has the opposite answer for more than one file: it returns `False`
  when Rucio has one of them ("FIXME", `Rucio.py:423`). If Rucio does so each time, the
  same files are listed and refused in every cycle, and the block is never closed
  (`Refused` in `AllUploaded`).
* A lost connection followed by a crash may record a file as `InDBS` which DBS does
  not have (`RecordedIsTrue` after `interrupted`).
* When the wait for DBS is given up, the answers taken so far are dropped, but their
  blocks stay in `queuedBlocks` and are not uploaded or recorded before a restart
  (`Dropped`). When the transaction that records uploads fails twice, the cached block
  keeps the status `InDBS`, in which no step looks at it (`Unrecorded`).
* The query of `GetOpenBlocks` has `OR` and `AND` without parentheses: open blocks are
  loaded whatever their parents (`OpenBlocks`).
* Not modelled: `deleteBlocks` resets its list of deleted rules in the loop over
  the rules; `GetUnsubscribedBlocks` does not look at `deleted`.

## 4. Fairness

Every component is a poller that `Harness` and its worker thread run again and
again, and a failed cycle is followed by the next. So each component's steps are
weakly fair (`WF`). A process in the batch system ends (`EndsJob`). Strong fairness
is assumed for choices the model leaves open but the code does not refuse forever:

* `CachesJob`, `SubmitsJob` – a created job finds, some cycle, a site with a free
  slot. Weak fairness is not enough: other cycles empty the cache in between.
* `RetriesJob` – a job that cools off has waited long enough in some cycle. There
  is none for jobs that carry a kill in their retry count (`MayBeReady`).
* `HandlesKind` – one cycle of the ErrorHandler visits all the failure states.

The kill is fair while the request is aborted or a kill is under way. `KilledDrains` needs
nothing but this, and the weak fairness of the accountant and the archiver
(`KillFairness`): a kill takes jobs in every state but `new` and those that these two
take on, so that it does not matter whether any other component ever does anything again.

No fairness for `Abort`, `OperatorStep`, `Timeout`, `ProcessHeld` or a crash: nothing
forces an abort or an operator. With `MaxFaults` faults, crashes are finite, as
"eventually no more crashes" must be for any of this to be true.

In `SubscriptionFiles` the pollers are weakly fair too. Injection is while the request
is not aborted – it may still happen then, and need not – and the kill while some
subscription is unfinished, which is what the Cleaner asks (`WorkQueueManagerCleaner.py:53-73`). Strong fairness where
another poller, or a rollback, disables a step again and again but not for ever:
the splitter, which visits one subscription after the other and must commit what it
reads from a *closed* fileset (`forceMerge`, and no such duty while it is open);
`MarkClosed` and the kill's statements, which a crash may precede. `MarkFinished`
needs no time-out, and no job is assumed to succeed.

In `WorkQueues` one weak fairness is enough: the queues, ReqMgr2 and the agents do not
all stop while one of them has something to do. Everything they do leads
somewhere, so nothing stronger is needed. There is none for new input, the operator or a death; a PUT
that is under way ends.

In `BlockUploads` the pollers, the pool and the jobs are weakly fair; strongly, that
open blocks reach a limit some day, while other cycles pass (`CheckBlockCompletion(Blocks)`).
Nobody waits for what a dead process left behind (`OrphanInserts`), and no fault has to
happen.

## 5. What is proved

### AgentJobs

All for any set of jobs, any `MaxRetries`, any bound on faults, either retry plugin,
with or without aborts and kills, and whatever list of aborted workflows the submitter has,
unless the theorem says otherwise. The assumptions are the named `ASSUME`s of the modules, and say only
that constants are numbers or booleans, and `MaxRetries < KillIncrement`.

* **`TypeCorrect`** (`AgentTypeProofs`): `Spec => []TypeOK`. One lemma per
  component: its steps keep the type of the tables and of its memory, its frame the
  rest.
* **`OwnershipHolds`** (`AgentOwnershipProofs`): `Spec => []Ownership`. Until a
  kill begins, everything any component remembers about a job is what the table
  says. There is one exception, and `HandlerOwns` states it: the error handler may have
  loaded a job that failed in submission before the submitter registered its report, and
  hold the older path. `Ownership` is not inductive; `OwnershipInv` adds where the submitter and
  the error handler stand (`SubmitterPhases`, `HandlerPhases`), what may become of a job
  whose report is still to be registered (`LateReports`: it may be retried and exhausted by
  then, but it was not submitted again), that no row is
  marked as timed out (`NeverMarked`: the mark never reaches the table), and that
  nothing is killed yet (`NothingKilled`). The argument is the partition: each
  component's lemma `…StepTidy` shows that its step only moves jobs out of states
  that are its own (`OnlyIn`), and the lemmas `…Undisturbed` show that a component
  whose own states are not touched keeps its memory true.
* **`AgentImplementsLifecycle`** (`AgentLifecycleProofs`): if no workflow is
  killed and no `passExitCodes` are configured, `Spec => Lifecycle!Spec`. The
  same `…StepTidy` lemmas show that each step is `Legal`. The two conditions are
  where the code leaves the table: a kill overlaps lists (section 3),
  and `jobfailed → created` is a move the table does not have (`propagate` accepts it
  because it is told that the job was `new`, `ErrorHandlerPoller.py:203`).


`AgentTableProofs` relates the tables to each other and to the batch system, and then
says what holds when a kill has broken ownership:

* **`RowsInvariant`**: `Spec => []RowsInv`, and **`RowsAgreeHolds`**. `RowsAgree`, that
  an executing job has the row of its attempt and an active row is of an executing job,
  is not inductive. `RowsInv` adds that an attempt has one row (`OneEach`; the insert ignores
  a second one) and one place in a batch, that no job is both accepted and rejected, and
  that what the tracker holds are rows no longer active. It rests on ownership: the job the
  tracker completes is still the executing job whose row it saw.
* **`ReportsAreOwn`**: `Spec => []JudgedByOwnReport`, until a kill: the path is written in
  the transaction that makes the job complete, and the retry count moves only after the
  judgement, on what `Ownership` says is still the same job. A report that the submitter
  registers late is of a job that did not run since (`LateReports`).
* **`TablesAgree`**: `Spec => []TableInv`, that is `RowsInv` with `ProcessInv`: until
  something crashes, every process that is not about to be recorded has the active row
  of its copy, and a job that has not begun its attempt has no process. The first needs
  that every step is `Legal` (`LegalBegun`), which is why it comes after the life cycle.
* **`OneProcessHolds`**, **`CompleteIsGone`**: `OneProcess` and `CompleteMeansGone`, from
  `TablesAgree`.
* **`NothingElseIsLost`**: `Spec => []LostOnlyToKill`, in every state. After a kill a
  component may hold what is no longer so, and will write it; but only the kill did that:
  the table still says what the component remembers, or the count was raised, or the job
  was set to `killed` (and put away by the archiver since). The inductive form `HandsInv`
  (**`HandsInvariant`**) is that the hands of the components are apart (`HandsApart`): the
  partition of the states, stated about what is in memory and not about the table, which a
  kill can change and memory not. One lemma `…StepHands` per component, and the lemmas
  `…Spared` for those that do not move.
* **`RetriesBoundedHolds`**: `Spec => []RetriesBounded`, in every state. Through `RetryLeft`:
  a job that cools off has a retry left, in the table and in what the RetryManager selected,
  or carries a kill. What the ErrorHandler compared with the limit is still the retry count
  when it writes, or a kill raised it; and of two increments that meet, one of which is
  lost, neither adds to a count that is at the limit, except the kill's.

### SubscriptionFiles

For any elements with any files (which may even share files), any number of jobs
made of a group, with time-outs and with aborts. The assumption is that the Merge
subscription is not an element.

* **`FilesTypeCorrect`**: `Spec => []FilesTypeOK`.
* **`FilesInvariant`**: `Spec => [](FilesTypeOK /\ FilesInv)`. `FilesInv` is
  `EveryFileOnce`, `VerdictsAgree` and, until an abort, `JobsMatch` and `Gates`.
  Neither of the first two is inductive: that the accountant settles a file which is
  *acquired*, and not failed already, needs the verdict (a failed file has an exhausted
  reader, which is not among the successful ones); that the verdict stays true needs
  jobs and outcomes to agree (`JobsMatch`); and that output goes to a Merge
  subscription which is still at work needs the gates: the output fileset is closed,
  or on the closing list, only when all top-level subscriptions are `Quiet`. Lemma
  `ReaderKnows` is the pivot: a job that has not succeeded finds its input acquired or
  failed. One lemma `…Calm` per action.
* **`FilesArePartitioned`**, **`VerdictsHold`**, **`FinishedStaysFinal`**,
  **`NothingIsLost`**, **`NoOutputIsLate`**: the properties of the runs, from
  `FilesInvariant`. `NothingIsLost` shows that the time-out of TaskArchiver cannot
  finish the Merge subscription over a job that has not ended: as long as one is live,
  its file is acquired.

### WorkQueues

For any number of agents and elements and, unless a theorem says otherwise, any operator, any
faults, splitting that fails or not, either tie-break of CouchDB. Assumed is that the
global queue is no agent.

* **`QueueTypeCorrect`** (`WorkQueueTypeProofs`): `Spec => []QueueTypeOK`, where a
  document is a set of revisions of any length.
* **`HoldingCorrect`** (`WorkQueueProofs`): the inductive invariant `Holding`, in three
  parts. `OneHolder`: an element is free, with one revision in the global queue, or
  one agent has it, and then every revision in every database names this agent, none
  is `Available`, and none is `Done` unless WMBS says so. `ReadFree`: what a pulling
  agent has read names no agent – so if the element was taken meanwhile, the revision
  read is no longer a leaf, and `Save` refuses it. `NoneDeleted`: nothing is deleted
  while elements may still be inserted, for an insertion over a deleted document would
  offer the element again. None of the three is inductive without the others. One
  lemma per action.
* **`DoneOver`**: `Spec => []DoneIsOver`, from `Holding`.
* **`AssignmentImplemented`**: `Spec => Assignment!Spec`. Every step of the queues is
  `Assign`, `Open`, `Close` or a stutter of `WorkAssignment`.
* **`UncancelledCorrect`**, **`CompletedAreOver`**, **`InjectedAreAll`**: `CompletedIsOver` and
  `InjectedIsAll`, until the operator asks for a cancellation. `Uncancelled` has four parts.
  `DocsPlain`: an element has one live revision per database, the inbox revision
  descends from the global one (so replication either brings what is further on or nothing,
  and there is no conflict to merge), what is `Running` has begun in WMBS, and only what is
  over is deleted. `GoesOn`: no status is one of a cancellation or a failure, so none of those
  steps is taken. `Insertions`: elements are inserted only while the request is open; the
  request is not beyond `running-open` then. `Ends`: where the request is completed, or closed
  and its view shows `completed`, all is over – the view may be old, and `CloseWork` is the
  step where it must not show `completed` unless the elements do; where an agent was told *injected*, the request
  is closed and all has begun. Each needs the others: that a late element does not come after
  `completed` needs `Insertions`, which needs the request status, which needs the view; that
  the view is true needs `DocsPlain`, and `DoneIsOver` from `Holding`.

  The hypothesis is `QueuesOnce`: splitting does not fail for good, and either the task that
  queues does not die in the middle or a request has at most one first element. Without the
  first `CompletedIsOver` is false, for a failed element counts as ended. Without the second
  both are: TLC finds that the task dies once the inbox element is made, `CloseWork` closes it
  with no element in the queue, the next attempt inserts the first element, and this one runs
  to the end, is reported and completes the request before the second is inserted.

### BlockUploads

For any files, blocks, datasets and parents, any kinds and number of faults.

* **`BlockTypesCorrect`**: `Spec => []BlockTypeOK`.
* **`BlocksAgree`**: `Spec => [](BlockTypeOK /\ BlockInv)`. `BlockInv` says, until a
  connection is lost, where a file may be while it is on its way: `CycleInv` and
  `PlacedInv`, files are put into blocks nobody was told of and before the buffer is
  written; `CacheInv`, a cached block has the files of the buffer and those put into it
  in this cycle; `SentInv`, what is on its way to DBS has what the buffer has and
  takes no more files – the heart of it, for a process that a crash left behind may insert
  at any time later; `RecordInv` and `ParentInv`. None is inductive alone: `SentInv` needs
  that an open block of the cache was not sent (`MayTakeUnsent`), which needs `CacheInv`
  and the buffer's status. `RucioInv` says that what is marked, or about to be, is attached
  or `missed`, and needs that what is on a list of RucioInjector is in the block it was
  listed for.
* **`DBSAgreesHolds`**, **`RecordsAreTrue`**, **`ParentsAreFirst`**, **`RucioAgreesHolds`**: the
  properties of the run, without further hypotheses. The last is as good as its exception:
  that files only get into `missed` by a call Rucio refused because of files it has
  attached already is what `AttachRefused` says, no theorem.

### Only model-checked

Liveness under fairness is beyond the prover: `AllSettle`, `KilledDrains`,
`WorkflowFinishes`, `AbortedEnds`, `RequestEnds`, `AllUploaded`. Every safety property of
the passing runs is a theorem, some under the hypotheses named above. The properties
of the three runs that show a divergence are false, of course.

## 6. What is not modelled

The map covers a small part of the repository's lines. Most of the rest is not
state that changes under concurrency: REST and web pages, clients of services, the
description of workloads (WMSpec), what runs on a worker node, splitting algorithms,
monitoring. These are pure input/output, or data the model takes as any choice.

Besides the components marked so in section 1: Couch documents, logs and
alerts; job splitting; site selection; file input and output; more than one
batch plugin at a time; what section 2 leaves out of `SubscriptionFiles`; two kills of one workflow at the same time (the cleaner is
one thread); the retry plugins `LinearAlgo`, `ExponentialAlgo` (they differ in the
wait only) and `ProcessingAlgo`; a JobCreator transaction that commits a group with
a job left in `new` after an unexpected exception (`JobCreatorPoller.py:682`).

## 7. Plan

Modules, most important first:

1. *Done:* the modules of section 2.
2. *Done:* the DBS buffer. Left of it: deletion of blocks and rules, more than one
   location.
3. The rest of `WorkQueues`: drain mode, cascades of the request status over parents and
   children, the assignment and archiving tasks.
4. The rest of `SubscriptionFiles`: drain mode, `alt_fs_close`, `WMBSMergeBySize` with
   `FailOrphanFiles`, a chain of tasks, the deletion of finished workflows by TaskArchiver,
   and the ACDC documents of failed files.
5. `RuleCleaner`: the MSRuleCleaner pipelines, each step of which may be repeated.
6. `WorkerThreads` and `Watchdog`: pause, resume and terminate of worker threads;
   timers that restart a component.
7. Operators checked against reference definitions over bounded inputs: the retry
   plugins, submit thresholds, simple job splitters.
8. BossAir with more than one plugin (`BossAirAPI.submit`), and the JobCreator's
   group that is committed half advanced.

Theorems: *done:* section 5. Left is `InjectedIsAll` with splitting that fails (TLC finds it
true on the instance of `wq_late`), and whatever the modules above add.
