----------------------- MODULE SubscriptionProperties -----------------------
(***************************************************************************)
(* What the tables of one workflow's files promise.  The properties that   *)
(* begin with ~aborted hold as long as the request is not aborted: a kill  *)
(* settles files without asking what their jobs did.                       *)
(***************************************************************************)
EXTENDS SubscriptionFiles

(* The type of the tables and of what the components remember.             *)
FilesFor(s) == IF s = Merge THEN TopJobs ELSE Inputs
TableOK(t) == t \in [Subs -> SUBSET Files] /\ \A s \in Subs : t[s] \subseteq FilesFor(s)
FilesTypeOK ==
  /\ injecting \in [Elements -> {"queued", "inWMBS", "Running"}] /\ injected \in BOOLEAN
  /\ TableOK(available) /\ TableOK(acquired) /\ TableOK(complete) /\ TableOK(failed)
  /\ TableOK(splitting)
  /\ open \in BOOLEAN /\ output \subseteq TopJobs
  /\ Created \subseteq Jobs /\ state \in [Created -> JobStates] /\ good \subseteq Created
  /\ finished \subseteq Subs /\ closing \in BOOLEAN
  /\ aborted \in BOOLEAN /\ killStep \in {"idle", "acquired", "available", "jobs"}

(* Every file of a subscription's fileset is in exactly one of its four    *)
(* tables, although four components move it, a row at a time and with      *)
(* INSERT IGNORE: none is lost, none is processed twice.                   *)
Partition(s) ==
  /\ InputOf(s) = available[s] \cup acquired[s] \cup complete[s] \cup failed[s]
  /\ available[s] \cap (acquired[s] \cup complete[s] \cup failed[s]) = {}
  /\ acquired[s] \cap (complete[s] \cup failed[s]) = {}
  /\ complete[s] \cap failed[s] = {}
EveryFileOnce == ~aborted => \A s \in Subs : Partition(s)

(* The table a file is in says what its jobs did: acquired means that some *)
(* job is still to succeed and none is exhausted, complete that all have   *)
(* succeeded, failed that one is exhausted or the only one skipped it, and *)
(* an available file has no job yet.                                       *)
GaveUp(j) == \/ state[j] = "exhausted"
             \/ state[j] = "cleanout" /\ j \notin good
Verdict(s) ==
  /\ \A f \in available[s] : Readers(s, f) = {}
  /\ \A f \in acquired[s]  : /\ ~(Readers(s, f) \subseteq good)
                             /\ \A j \in Readers(s, f) : ~GaveUp(j)
  /\ \A f \in complete[s]  : Readers(s, f) # {} /\ Readers(s, f) \subseteq good
  /\ \A f \in failed[s]    : \/ \E j \in Readers(s, f) : GaveUp(j)
                             \/ \E j \in good : Readers(s, f) = {j}
VerdictsAgree == ~aborted => \A s \in Subs : Verdict(s)

(* The output fileset gets no file once it is closed: its subscribers may  *)
(* take what they have for everything there will be.                       *)
NoLateOutput == [][output' # output => open \/ aborted']_vars

(* A subscription that is finished has nothing to do, and will never have: *)
(* no file will reach it and no job will be made for it.                   *)
FinishedIsFinal ==
  ~aborted => \A s \in finished : Closed(s) /\ Empty(s) /\ splitting[s] = {}

(* When the Merge subscription is finished, the work is: every job of the  *)
(* workflow has ended, time-outs or not, and every file a job wrote has    *)
(* been merged or given up.                                                *)
NothingLost ==
  ~aborted /\ Merge \in finished =>
    /\ \A j \in Created : state[j] \in {"success", "exhausted", "cleanout"}
    /\ (good \ MergeJobs) \subseteq complete[Merge] \cup failed[Merge]

(* What makes these inductive.  Jobs: they read files of their own         *)
(* subscription, a merge job alone; outcome and state agree, and the       *)
(* output fileset holds what the top-level jobs with outcome 1 wrote.      *)
JobsMatch ==
  /\ \A j \in Created : /\ j.files # {} /\ j.files \subseteq InputOf(j.sub)
                        /\ state[j] # "killed"
                        /\ state[j] = "success" => j \in good
  /\ \A j \in good : state[j] \in {"success", "cleanout"}
  /\ \A f \in Files : \A j, k \in Readers(Merge, f) : j = k
  /\ output = {j \in good : j.sub # Merge}

(* The top-level subscriptions are through: nothing will be written.       *)
Quiet == injected /\ \A e \in Elements : Empty(e) /\ Uncleaned(e) = {}

(* The gates of a workflow's end: injected only when every element is,     *)
(* the output fileset closed (or about to be) only when it is quiet, and   *)
(* what a splitter has read is still available.                            *)
Gates ==
  /\ injected => \A e \in Elements : injecting[e] = "Running"
  /\ closing \/ Closed(Merge) => Quiet
  /\ \A s \in Subs : splitting[s] \subseteq available[s]
  /\ \A s \in finished : Closed(s) /\ Empty(s) /\ injected
  /\ killStep = "idle"

FilesInv == EveryFileOnce /\ VerdictsAgree /\ (~aborted => JobsMatch /\ Gates)

-----------------------------------------------------------------------------
(* Fairness: every poller runs again and again, and a transaction is not   *)
(* rolled back for ever.  A splitter may wait for more files of an open    *)
(* fileset, not of a closed one; an aborted workflow need not be injected, *)
(* and nobody need kill it again once all there is of it is finished.      *)
AllFinished == \A s \in Subs : Exists(s) => s \in finished

FilesFairness ==
  /\ \A e \in Elements : /\ WF_vars(Inject(e) /\ injecting[e] = "queued" /\ ~aborted)
                        /\ WF_vars(SaveElement(e))
  /\ WF_vars(MarkInjected)
  /\ \A s \in Subs : SF_vars(SplitterOpens(s)) /\ SF_vars(Closed(s) /\ SplitterCommits(s))
  /\ WF_vars(SplitterEnds)
  /\ WF_vars(\E j \in Created : JobEnds(j)) /\ WF_vars(\E j \in Created : Exhaust(j))
  /\ WF_vars(Accountant) /\ WF_vars(Archive)
  /\ WF_vars(ListClosable) /\ SF_vars(MarkClosed) /\ WF_vars(MarkFinished)
  /\ WF_vars(KillCompletes /\ ~AllFinished)
  /\ SF_vars(KillAcquired) /\ SF_vars(KillAvailable) /\ SF_vars(KillJobs)

FairFiles == Spec /\ FilesFairness

(* Unless the request is aborted, the workflow is finished in the end.     *)
WorkflowFinishes == <>(aborted \/ finished = Subs)

(* A workflow that is aborted ends all the same, whenever its files were   *)
(* injected and however the kill fell among the other components: nothing  *)
(* of it is left to run for ever, and what was injected is finished.       *)
AbortedEnds == aborted ~> [](AllFinished /\ \A j \in Created : state[j] = "cleanout")
=============================================================================
