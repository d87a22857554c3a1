------------------------------- MODULE BossAir -------------------------------
(***************************************************************************)
(* BossAir: the bl_runjob table, the batch system behind it (external),    *)
(* and the status poller that keeps the one in line with the other.        *)
(*                                                                         *)
(* A batch process is [job, retry, copy, held].  "copy" stands for the     *)
(* grid id: it tells apart processes submitted for one and the same attempt*)
(* of a job.  A row of bl_runjob is unique in (wmbs_id, retry_count) and   *)
(* remembers the copy it was created for.  A framework job report is a file*)
(* Report.<retry>.pkl in the job's cache directory, kept by its verdict:   *)
(*   "success"  the task is successful                                     *)
(*   "retry"    failed, with an exit code that may be retried              *)
(*   "noRetry"  failed, with an exit code (or run time) not to be retried  *)
(*   "pass"     failed, with one of ErrorHandler's passExitCodes           *)
(*   "timeout"  killed by the status poller; may be retried                *)
(***************************************************************************)
EXTENDS JobTable

CONSTANTS MaxCopies,     \* bound: processes of one attempt known at a time
          PassCodes,     \* is ErrorHandler.passExitCodes configured?
          Holds          \* does the batch system put jobs on hold?

ASSUME BossAirAssumption == /\ MaxCopies \in Nat
                            /\ PassCodes \in BOOLEAN
                            /\ Holds \in BOOLEAN

VARIABLES rows, queue, reports

bossAirVars == <<rows, queue, reports>>

JobResults == {"success", "retry", "noRetry"} \cup (IF PassCodes THEN {"pass"} ELSE {})
Verdicts   == {"success", "retry", "noRetry", "pass", "timeout"}
Copies     == 1..MaxCopies

Rows      == [job : Jobs, retry : Nat, copy : Copies, active : BOOLEAN, timeout : BOOLEAN]
Processes == [job : Jobs, retry : Nat, copy : Copies, held : BOOLEAN]
Reports   == [job : Jobs, retry : Nat, result : Verdicts]

BossAirTypeOK == /\ rows    \subseteq Rows
                 /\ queue   \subseteq Processes
                 /\ reports \subseteq Reports

BossAirInit == rows = {} /\ queue = {} /\ reports = {}

Attempt(x)        == [job |-> x.job, retry |-> x.retry]
Of(X, a)          == {x \in X : x.job = a.job /\ x.retry = a.retry}
ProcessOf(x)      == {p \in queue : p.job = x.job /\ p.retry = x.retry /\ p.copy = x.copy}
FreeCopies(a)     == Copies \ {x.copy : x \in Of(rows, a) \cup Of(queue, a)}
Deactivated(X, S) == (X \ S) \cup {[x EXCEPT !.active = FALSE] : x \in S}

(* The report files after one was written for each attempt in A.           *)
Written(R, A, result) ==
  {r \in R : Attempt(r) \notin A}
    \cup {[job |-> a.job, retry |-> a.retry, result |-> result] : a \in A}

(* BossAirAPI.kill adds its error to a report that is there: a code that   *)
(* decides about retries still decides.                                    *)
KillReports(A, result) ==
  Written(reports, {a \in A : \A r \in Of(reports, a) : r.result \notin {"noRetry", "pass"}},
          result)

(* What a component finds at fwjr_path: a verdict, or nothing.             *)
ReportAt(j, p) == {r.result : r \in Of(reports, [job |-> j, retry |-> p])}

(* Mutation: the key of the table is the job alone.                        *)
RowsKeyedByJob(new) ==
  rows \cup {[job |-> p.job, retry |-> p.retry, copy |-> p.copy,
              active |-> TRUE, timeout |-> FALSE] :
                p \in {q \in new : \A x \in rows : x.job # q.job}}

(* createNewJobs: INSERT IGNORE.  A row that exists already for the        *)
(* attempt stays as it is, inactive or not.                                *)
RowsWith(new) ==
  rows \cup {[job |-> p.job, retry |-> p.retry, copy |-> p.copy,
              active |-> TRUE, timeout |-> FALSE] :
                p \in {q \in new : Of(rows, q) = {}}}

-----------------------------------------------------------------------------
(* The batch system.  A process that ends leaves a report or none; one on  *)
(* hold stays in the queue until it is released or removed.                *)

ProcessEnds(p) ==
  /\ p \in queue /\ ~p.held
  /\ queue' = queue \ {p}
  /\ \/ \E result \in JobResults : reports' = Written(reports, {Attempt(p)}, result)
     \/ UNCHANGED reports
  /\ UNCHANGED <<rows, tableVars>>

ProcessHeld(p) ==
  /\ Holds
  /\ p \in queue
  /\ \/ queue' = (queue \ {p}) \cup {[p EXCEPT !.held = ~p.held]}
     \/ p.held /\ queue' = queue \ {p}
  /\ UNCHANGED <<rows, reports, tableVars>>

-----------------------------------------------------------------------------
(* The status poller.                                                      *)

Active == {x \in rows : x.active}

(* Mutation: a failed schedd query is taken for an empty queue.            *)
OverIfUnanswered(x) == x \in rows

(* SimpleCondorPlugin.track: a row whose process the schedd does not know  *)
(* is complete, and so is one whose process is on hold.                    *)
Over(x) == \A p \in ProcessOf(x) : p.held

(* BossAirAPI.track, with plugin.complete (a failing report is written     *)
(* where there is none, until something goes wrong) and _completeKill,     *)
(* which is done even then.                                                *)
Track ==
  LET over    == {x \in Active : Over(x)}
      missing == {Attempt(x) : x \in {y \in over : Of(reports, y) = {}}}
  IN  /\ over # {}
      /\ rows' = Deactivated(rows, over)
      /\ \E told \in SUBSET missing : reports' = Written(reports, told, "retry")
      /\ UNCHANGED <<queue, tableVars>>

(* StatusPoller.checkStatus, second half: jobs too long in their state are *)
(* removed from the batch system, completed, and their report says why.    *)
(* The poller sets job['status'] = 'Timeout' before, but BossAirAPI.update *)
(* reloads the rows by id and writes back what it loaded, so the row's     *)
(* timeout mark stays what it was.                                         *)
Timeout ==
  \E late \in SUBSET {x \in Active : ~Over(x)} :
    /\ late # {}
    /\ queue' = queue \ UNION {ProcessOf(x) : x \in late}
    /\ rows' = Deactivated(rows, late)
    /\ reports' = KillReports({Attempt(x) : x \in late}, "timeout")
    /\ UNCHANGED tableVars

(* Mutation: the row's status is not looked at.                            *)
CompleteRowsOfAnyStatus == {x \in rows : state[x.job] = "executing" /\ retry[x.job] = x.retry}

(* getComplete / LoadComplete: rows no longer active whose job is still    *)
(* executing with the same retry count.                                    *)
CompleteRows == {x \in rows : ~x.active /\ state[x.job] = "executing"
                                        /\ retry[x.job] = x.retry}

(* BossAirAPI.kill for a whole workflow: the rows of the attempts given    *)
(* are completed, then everything the workflow has in the batch system is  *)
(* removed - but only if there was a row at all.                           *)
KillBatchJobs(A) ==
  LET found == {x \in rows : Attempt(x) \in A}
  IN  /\ rows' = Deactivated(rows, found)
      /\ \/ found = {} /\ UNCHANGED queue
         \/ found # {} /\ queue' = {}
         \/ found # {} /\ UNCHANGED queue      \* the schedd refused; only logged
      /\ reports' = KillReports({Attempt(x) : x \in found}, "retry")
      /\ UNCHANGED tableVars
=============================================================================
