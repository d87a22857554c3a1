-------------------------- MODULE SubscriptionFiles --------------------------
(***************************************************************************)
(* The files of one workflow in the agent's database (WMBS), from their    *)
(* injection to the verdict.  A subscription keeps its input files in four *)
(* tables: wmbs_sub_files_available, _acquired, _complete and _failed.     *)
(* There is one top-level subscription for each element of the local work  *)
(* queue, with a fileset of its own, and one Merge subscription, whose     *)
(* input is the output fileset that all top-level subscriptions share.     *)
(*                                                                         *)
(* An element is the set of its input files.  A job is the subscription,   *)
(* the files it reads and its number among the jobs these files are split  *)
(* into; the file a top-level job writes goes by the name of the job.  The *)
(* attempts of a job are the matter of AgentJobs: a job is "live" here     *)
(* until its last attempt ends.                                            *)
(***************************************************************************)
EXTENDS Integers

CONSTANTS
  Elements,       \* the elements of the workflow, each the set of its files
  Merge,          \* the Merge subscription
  MaxPieces,      \* bound: how many jobs one group of files is split into
  TimesOut,       \* may a job keep its state longer than TaskArchiver.timeOut?
  AllowAbort      \* may the request be aborted?

ASSUME ElementsAssumption == Merge \notin Elements
ASSUME PiecesAssumption == MaxPieces \in Nat \ {0}
ASSUME FilesSwitchesAssumption == TimesOut \in BOOLEAN /\ AllowAbort \in BOOLEAN

Subs      == Elements \cup {Merge}
Inputs    == UNION Elements
TopJobs   == [sub : Elements, files : SUBSET Inputs, piece : 1..MaxPieces]
MergeJobs == [sub : {Merge}, files : SUBSET TopJobs, piece : 1..MaxPieces]
Jobs      == TopJobs \cup MergeJobs
Files     == Inputs \cup TopJobs

JobStates == {"live", "complete", "success", "failed", "exhausted", "killed", "cleanout"}

VARIABLES
  injecting,      \* per element: "queued", "inWMBS" (committed), "Running"
  injected,       \* wmbs_workflow.injected
  available, acquired, complete, failed,    \* wmbs_sub_files_*
  open,           \* wmbs_fileset.open of the shared output fileset
  output,         \* its files
  state,          \* state of the jobs there are
  good,           \* jobs with outcome 1
  finished,       \* wmbs_subscription.finished
  splitting,      \* JobCreator: the files its job factory read
  closing,        \* JobArchiver: the output fileset is in its list
  aborted,        \* the request is aborted or force-complete
  killStep        \* killWorkflow: its next statement

tables  == <<available, acquired, complete, failed>>
queue   == <<injecting, injected>>
fileset == <<open, output>>
jobs    == <<state, good>>
kill    == <<aborted, killStep>>
vars    == <<queue, tables, fileset, jobs, finished, splitting, closing, kill>>

NoFiles == [s \in Subs |-> {}]
Created == DOMAIN state
Fed     == {e \in Elements : injecting[e] # "queued"}
Exists(s) == IF s = Merge THEN Fed # {} ELSE s \in Fed
Closed(s) == Exists(s) /\ (s = Merge => ~open)
InputOf(s) == IF s = Merge THEN output ELSE IF s \in Fed THEN s ELSE {}
Readers(s, f) == {j \in Created : j.sub = s /\ f \in j.files}
Uncleaned(s)  == {j \in Created : j.sub = s /\ state[j] # "cleanout"}
Empty(s)      == available[s] = {} /\ acquired[s] = {}

Init ==
  /\ injecting = [e \in Elements |-> "queued"] /\ injected = FALSE
  /\ available = NoFiles /\ acquired = NoFiles /\ complete = NoFiles /\ failed = NoFiles
  /\ open = FALSE /\ output = {}
  /\ state = [j \in {} |-> "live"] /\ good = {}
  /\ finished = {} /\ splitting = NoFiles /\ closing = FALSE
  /\ aborted = FALSE /\ killStep = "idle"

-----------------------------------------------------------------------------
(* The work queue.                                                         *)

(* AddDupsToFileset.  Mutation: files that are in the fileset already are  *)
(* inserted again.                                                         *)
NewFilesOrOld(e) == e
NewFiles(e) == e \ InputOf(e)

(* createSubscriptionAndAddFiles, one transaction; it runs again for an    *)
(* element whose status was not saved.  getWork leaves out the workflows   *)
(* of a cached list of aborted ones and looks at nothing else, so an       *)
(* aborted workflow may still get files, before, during or after its kill. *)
Inject(e) ==
  /\ injecting[e] # "Running"
  /\ available' = [available EXCEPT ![e] = @ \cup NewFiles(e)]
  /\ open' = TRUE
  /\ injecting' = [injecting EXCEPT ![e] = "inWMBS"]
  /\ UNCHANGED <<injected, acquired, complete, failed, output, jobs, finished, splitting,
                 closing, kill>>

(* updateElements(Status = 'Running')                                      *)
SaveElement(e) ==
  /\ injecting[e] = "inWMBS"
  /\ injecting' = [injecting EXCEPT ![e] = "Running"]
  /\ UNCHANGED <<injected, tables, fileset, jobs, finished, splitting, closing, kill>>

(* getWMBSInjectionStatus: Running, or canceled.  Mutation: the elements   *)
(* that are in the database.                                               *)
SomeInjected == Fed # {}
AllInjected == aborted \/ \A e \in Elements : injecting[e] = "Running"

MarkInjected ==
  /\ ~injected /\ Fed # {} /\ AllInjected
  /\ injected' = TRUE
  /\ UNCHANGED <<injecting, tables, fileset, jobs, finished, splitting, closing, kill>>

-----------------------------------------------------------------------------
(* JobCreator: it reads the available files of a subscription and commits  *)
(* the jobs made of them group by group.                                   *)

SplitterIdle == splitting = NoFiles

SplitterOpens(s) ==
  /\ SplitterIdle /\ available[s] # {}
  /\ splitting' = [splitting EXCEPT ![s] = available[s]]
  /\ UNCHANGED <<queue, tables, fileset, jobs, finished, closing, kill>>

(* A merge job has its files for itself.                                   *)
Pieces(s) == IF s = Merge THEN {1} ELSE 1..MaxPieces

(* bulkCommit *)
SplitterCommits(s) ==
  \E group \in (SUBSET splitting[s]) \ {{}}, n \in Pieces(s) :
    LET new == {[sub |-> s, files |-> group, piece |-> i] : i \in 1..n}
    IN  /\ state' = [j \in Created \cup new |-> IF j \in new THEN "live" ELSE state[j]]
        /\ acquired' = [acquired EXCEPT ![s] = @ \cup group]
        /\ available' = [available EXCEPT ![s] = @ \ group]
        /\ splitting' = [splitting EXCEPT ![s] = @ \ group]
        /\ UNCHANGED <<queue, complete, failed, fileset, good, finished, closing, kill>>

(* The splitter waits for more files of an open fileset; or it crashes.    *)
SplitterEnds ==
  /\ ~SplitterIdle
  /\ splitting' = NoFiles
  /\ UNCHANGED <<queue, tables, fileset, jobs, finished, closing, kill>>

-----------------------------------------------------------------------------
(* Jobs end; the accountant settles the files of those that succeeded.     *)

(* The last attempt ends: its report is there, or it never came to that.   *)
JobEnds(j) ==
  /\ state[j] = "live"
  /\ \E result \in {"complete", "failed"} : state' = [state EXCEPT ![j] = result]
  /\ UNCHANGED <<queue, tables, fileset, good, finished, splitting, closing, kill>>

(* The report says that the job failed.                                    *)
ReportFails(j) ==
  /\ state[j] = "complete"
  /\ state' = [state EXCEPT ![j] = "failed"]
  /\ UNCHANGED <<queue, tables, fileset, good, finished, splitting, closing, kill>>

(* CompleteInput: the files of a slice whose readers have all succeeded.   *)
(* Mutation: the files of the slice, whoever else reads them.              *)
FilesOf(s, slice) == UNION {j.files : j \in {k \in slice : k.sub = s}}
SettledAnyhow(s, slice, outcomes) == FilesOf(s, slice)
Settled(s, slice, outcomes) == {f \in FilesOf(s, slice) : Readers(s, f) \subseteq outcomes}

(* Files that a report may skip: those of a single job (handleSkippedFiles) *)
Skippable(slice) == {f \in UNION {j.files : j \in slice} :
                       \A s \in Subs : \A j, k \in Readers(s, f) : j = k}

(* BulkAddByLFN: the files of top-level jobs go to the output fileset.     *)
(* Mutation: and so do merged ones.                                        *)
WrittenByAll(slice) == slice
Written(slice) == {j \in slice : j.sub # Merge}

(* AccountantWorker.__call__, one transaction for a slice of jobs.         *)
AccountantSaves(slice, skipped) ==
  LET settled(s) == Settled(s, slice, good \cup slice)
  IN  /\ slice # {}
      /\ good' = good \cup slice
      /\ state' = [j \in Created |-> IF j \in slice THEN "success" ELSE state[j]]
      /\ output' = output \cup Written(slice)
      /\ available' = [available EXCEPT ![Merge] = @ \cup Written(slice)]
      /\ acquired' = [s \in Subs |-> acquired[s] \ settled(s)]
      /\ complete' = [s \in Subs |-> complete[s] \cup (settled(s) \ skipped)]
      /\ failed' = [s \in Subs |-> (failed[s] \ (settled(s) \ skipped))
                                        \cup (settled(s) \cap skipped)]
      /\ UNCHANGED <<queue, open, finished, splitting, closing, kill>>

Accountant ==
  \E slice \in SUBSET {j \in Created : state[j] = "complete"} :
    \E skipped \in SUBSET Skippable(slice) : AccountantSaves(slice, skipped)

(* FailInput.  Mutation: the acquired row is left.                         *)
AcquiredAnyhow(s, fs) == acquired[s]
AcquiredWithout(s, fs) == acquired[s] \ fs

(* ErrorHandler.exhaustJobs: failInputFiles for the files not failed yet.  *)
Exhaust(j) ==
  LET fs == j.files \ failed[j.sub]
  IN  /\ state[j] = "failed"
      /\ state' = [state EXCEPT ![j] = "exhausted"]
      /\ acquired' = [acquired EXCEPT ![j.sub] = AcquiredWithout(j.sub, fs)]
      /\ complete' = [complete EXCEPT ![j.sub] = @ \ fs]
      /\ failed' = [failed EXCEPT ![j.sub] = @ \cup fs]
      /\ UNCHANGED <<queue, available, fileset, good, finished, splitting, closing, kill>>

-----------------------------------------------------------------------------
(* JobArchiver and TaskArchiver.                                           *)

(* Mutation: killed jobs are not archived.                                 *)
ArchivableWhenEnded == {j \in Created : state[j] \in {"success", "exhausted"}}
Archivable == {j \in Created : state[j] \in {"success", "exhausted", "killed"}}
Archive ==
  /\ Archivable # {}
  /\ state' = [j \in Created |-> IF j \in Archivable THEN "cleanout" ELSE state[j]]
  /\ UNCHANGED <<queue, tables, fileset, good, finished, splitting, closing, kill>>

(* ListClosable.  Mutation: jobs that are not archived are not counted.    *)
ClosableByFiles == open /\ injected /\ \A e \in Fed : Empty(e)
Closable == open /\ injected /\ \A e \in Fed : Empty(e) /\ Uncleaned(e) = {}

(* pollForClosable: a query, and the update of what it found.              *)
ListClosable ==
  /\ ~closing /\ Closable
  /\ closing' = TRUE
  /\ UNCHANGED <<queue, tables, fileset, jobs, finished, splitting, kill>>

MarkClosed ==
  /\ closing
  /\ open' = FALSE /\ closing' = FALSE
  /\ UNCHANGED <<queue, tables, output, jobs, finished, splitting, kill>>

CloserCrash ==
  /\ closing
  /\ closing' = FALSE
  /\ UNCHANGED <<queue, tables, fileset, jobs, finished, splitting, kill>>

(* MarkNewFinishedSubscriptions; old are the jobs that have not changed    *)
(* for timeOut.  Mutation: the fileset may be open.                        *)
NewFinishedWhenEmpty(old) ==
  {s \in Subs : Exists(s) /\ injected /\ Empty(s) /\ Uncleaned(s) \subseteq old}
NewFinished(old) ==
  {s \in Subs : Closed(s) /\ injected /\ Empty(s) /\ Uncleaned(s) \subseteq old}

MayBeOld == IF TimesOut THEN SUBSET {j \in Created : state[j] # "cleanout"} ELSE {{}}

MarkFinished ==
  \E old \in MayBeOld :
    /\ ~(NewFinished(old) \subseteq finished)
    /\ finished' = finished \cup NewFinished(old)
    /\ UNCHANGED <<queue, tables, fileset, jobs, splitting, closing, kill>>

-----------------------------------------------------------------------------
(* killWorkflow.  WorkQueueManagerCleaner and TaskArchiver repeat it while *)
(* the request is aborted, the former as long as some subscription is not  *)
(* finished; its statements commit one by one.                             *)

Abort ==
  /\ AllowAbort /\ ~aborted
  /\ aborted' = TRUE
  /\ UNCHANGED <<queue, tables, fileset, jobs, finished, splitting, closing, killStep>>

KillCompletes ==
  /\ aborted /\ killStep = "idle"
  /\ complete' = [s \in Subs |-> complete[s] \cup (InputOf(s) \ failed[s])]
  /\ killStep' = "acquired"
  /\ UNCHANGED <<queue, available, acquired, failed, fileset, jobs, finished, splitting,
                 closing, aborted>>

KillAcquired ==
  /\ killStep = "acquired"
  /\ acquired' = NoFiles /\ killStep' = "available"
  /\ UNCHANGED <<queue, available, complete, failed, fileset, jobs, finished, splitting,
                 closing, aborted>>

KillAvailable ==
  /\ killStep = "available"
  /\ available' = NoFiles /\ killStep' = "jobs"
  /\ UNCHANGED <<queue, acquired, complete, failed, fileset, jobs, finished, splitting,
                 closing, aborted>>

KillJobs ==
  /\ killStep = "jobs"
  /\ state' = [j \in Created |-> IF state[j] \in {"live", "failed"} THEN "killed" ELSE state[j]]
  /\ killStep' = "idle"
  /\ UNCHANGED <<queue, tables, fileset, good, finished, splitting, closing, aborted>>

KillCrash ==
  /\ killStep # "idle"
  /\ killStep' = "idle"
  /\ UNCHANGED <<queue, tables, fileset, jobs, finished, splitting, closing, aborted>>

-----------------------------------------------------------------------------
Next ==
  \/ \E e \in Elements : Inject(e) \/ SaveElement(e)
  \/ MarkInjected
  \/ \E s \in Subs : SplitterOpens(s) \/ SplitterCommits(s)
  \/ SplitterEnds
  \/ \E j \in Created : JobEnds(j) \/ ReportFails(j) \/ Exhaust(j)
  \/ Accountant \/ Archive
  \/ ListClosable \/ MarkClosed \/ CloserCrash
  \/ MarkFinished
  \/ Abort \/ KillCompletes \/ KillAcquired \/ KillAvailable \/ KillJobs \/ KillCrash

Spec == Init /\ [][Next]_vars
=============================================================================
