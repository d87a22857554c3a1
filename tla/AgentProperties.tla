--------------------------- MODULE AgentProperties ---------------------------
(***************************************************************************)
(* What the job components of an agent promise together.  The lock that    *)
(* keeps two of them from acting on one job is not in the database: it is  *)
(* the partition of the job states among the components, and these         *)
(* properties say how far it carries.  Pristine ends when the first kill   *)
(* of the workflow begins: a kill takes jobs out of the hands of everyone. *)
(***************************************************************************)
EXTENDS AgentJobs

Pristine == ~filesKilled

(* Every variable has its type: the tables of the agent, and the memory of *)
(* each component.                                                         *)
TypeOK == /\ TableTypeOK /\ BossAirTypeOK /\ SubmitterTypeOK /\ CreatorTypeOK
          /\ TrackerTypeOK /\ AccountantTypeOK /\ HandlerTypeOK /\ RetryManagerTypeOK
          /\ ArchiverTypeOK /\ KillTypeOK /\ faults \in Nat

-----------------------------------------------------------------------------
(* Ownership.  ChangeState writes a state by job id and never compares it  *)
(* with the one in the row, so each component relies on its list still     *)
(* being true when it writes: until a kill, it is.  (The one exception is  *)
(* the report of a job that failed in submission, which is registered after*)
(* its state was set: the error handler may have loaded the path before.)  *)

Waiting(j, r) == state[j] = "created" /\ retry[j] = r

SubmitterOwns ==
  /\ \A j \in Cached : Waiting(j, cache[j])
  /\ \A s \in badJobs \cup rejected \cup accepted : Waiting(s.job, s.retry)

CreatorOwns    == \A j \in creating : state[j] = "new"
TrackerOwns    == \A x \in tracked : state[x.job] = "executing" /\ retry[x.job] = x.retry
AccountantOwns == \A s \in accounted : state[s.job] = "complete" /\ path[s.job] = s.path
HandlerOwns    ==
  /\ \A j \in listed : state[j] = handling
  /\ \A s \in loaded : state[s.job] = handling /\ retry[s.job] = s.retry
  /\ handling \in {"createfailed", "jobfailed"} => \A s \in loaded : path[s.job] = s.path
  /\ handling = "submitfailed" => \A s \in loaded : path[s.job] \in {s.path, s.retry}
RetryOwns      ==
  /\ \A s \in cooling : state[s.job] = s.state /\ retry[s.job] = s.retry
  /\ \A s \in counts : retry[s.job] = s.retry
OperatorOwns   == \A j \in chosen : state[j] \in PausedStates
ArchiverOwns   == \A j \in archiving : state[j] \in {"success", "exhausted"}

EveryoneOwns == /\ SubmitterOwns /\ CreatorOwns /\ TrackerOwns /\ AccountantOwns
                /\ HandlerOwns /\ RetryOwns /\ OperatorOwns /\ ArchiverOwns

(* Until a kill begins, whatever a component holds in memory about a job - *)
(* in a list, in a cache, between batch submission and commit - is what    *)
(* the table says: no other component has touched the job since.           *)
Ownership == Pristine => EveryoneOwns

(* What makes it inductive: where the submitter and the error handler are  *)
(* in their cycles, a job is in one of their lists at a time, a job whose  *)
(* report is still to be registered was not submitted again since, no row  *)
(* is ever marked as timed out, and nothing was killed yet.                *)
SubmitterPhases ==
  /\ step # "commit" => accepted = {} /\ rejected = {}
  /\ step \notin {"bad", "path"} => badJobs = {}
  /\ step # "path" => reported = {}
  /\ \A s \in badJobs \cup reported \cup accepted \cup rejected : s.job \notin Cached
LateReports ==
  \A s \in reported :
    /\ state[s.job] \in {"submitfailed", "submitcooloff", "submitpaused", "created",
                         "retrydone", "exhausted", "cleanout"}
    /\ state[s.job] = "submitfailed" => retry[s.job] = s.retry
HandlerPhases ==
  /\ handling = "idle" => listed = {} /\ loaded = {}
  /\ \A s \in loaded : s.job \notin listed
NeverMarked == \A x \in rows \cup tracked : ~x.timeout
NothingKilled == killStep = "idle" /\ InState({"killed"}) = {}

(* Until a kill begins, every component owns the jobs it remembers, and    *)
(* the above holds: the strengthening of Ownership that each step keeps.   *)
OwnershipInv == Pristine => /\ EveryoneOwns /\ SubmitterPhases /\ LateReports
                            /\ HandlerPhases /\ NeverMarked /\ NothingKilled

-----------------------------------------------------------------------------
(* A kill takes jobs out of the hands of everyone, and a component writes  *)
(* over the kill later.  Even so no two components ever act on one job:    *)
(* what one holds in memory is what the table says, or else a kill raised  *)
(* the retry count or set the state since, and the archiver at most put    *)
(* the job away.                                                           *)
In(j, names)    == state[j] \in names \cup {"killed", "cleanout"}
Counted(j, r)   == retry[j] = r \/ retry[j] >= KillIncrement
As(j, r, names) == In(j, names) /\ Counted(j, r)

SubmitterKeeps ==
  /\ \A j \in Cached : As(j, cache[j], {"created"})
  /\ \A s \in badJobs \cup rejected \cup accepted : As(s.job, s.retry, {"created"})

CreatorKeeps    == \A j \in creating : In(j, {"new"})
TrackerKeeps    == \A x \in tracked : As(x.job, x.retry, {"executing"})
AccountantKeeps == \A s \in accounted : In(s.job, {"complete"}) /\ path[s.job] = s.path
HandlerKeeps    == /\ \A j \in listed : In(j, {handling})
                   /\ \A s \in loaded : As(s.job, s.retry, {handling})
RetryKeeps      == /\ \A s \in cooling : As(s.job, s.retry, {s.state})
                   /\ \A s \in counts : Counted(s.job, s.retry)
OperatorKeeps   == \A j \in chosen : In(j, PausedStates)

LostOnlyToKill == /\ SubmitterKeeps /\ CreatorKeeps /\ TrackerKeeps /\ AccountantKeeps
                  /\ HandlerKeeps /\ RetryKeeps /\ OperatorKeeps

(* What makes it inductive: no two components hold a job, a component has  *)
(* one snapshot of a job to write from, a job whose report is still to be  *)
(* registered is not tracked or accounted, and OwnershipInv's phases, which*)
(* a kill does not change.                                                 *)
HandOf == [Submitter  |-> Cached \cup JobsOf(badJobs \cup rejected \cup accepted),
           Creator    |-> creating,
           Tracker    |-> JobsOf(tracked),
           Accountant |-> JobsOf(accounted),
           Handler    |-> listed \cup JobsOf(loaded),
           Retry      |-> JobsOf(cooling),
           Operator   |-> chosen]

HandsApart == \A c, d \in DOMAIN HandOf : c # d => HandOf[c] \cap HandOf[d] = {}
OneBadEach == \A s, t \in badJobs : s.job = t.job => s = t
ReportsOpen ==
  \A s \in reported : /\ state[s.job] \notin {"executing", "complete"}
                      /\ s.job \notin JobsOf(tracked) \cup JobsOf(accounted)

HandsInv == /\ LostOnlyToKill /\ HandsApart /\ OneBadEach /\ ReportsOpen
            /\ SubmitterPhases /\ HandlerPhases /\ NeverMarked

-----------------------------------------------------------------------------
(* The two tables.                                                         *)

(* Until a kill begins, a job is executing only with a bl_runjob row for   *)
(* its present attempt, and an active row is one of an executing job's     *)
(* present attempt: LoadComplete joins the tables on the job id and the    *)
(* retry count, and a job without such a row would execute forever.        *)
RowsAgree ==
  Pristine => /\ \A j \in InState({"executing"}) : Of(rows, Now(j)) # {}
              /\ \A x \in Active : state[x.job] = "executing" /\ retry[x.job] = x.retry

(* What makes it inductive: an attempt has one row, and one process in a   *)
(* batch, where no job is both accepted and rejected; and what the tracker *)
(* remembers are rows that are no longer active.                           *)
OneEach(X) == \A x, y \in X : Attempt(x) = Attempt(y) => x = y

RowsInv ==
  /\ RowsAgree
  /\ Pristine => /\ OneEach(rows) /\ OneEach(accepted)
                 /\ JobsOf(accepted) \cap JobsOf(rejected) = {}
                 /\ tracked \subseteq rows \ Active

(* A job has at most as many retries as the ErrorHandler's limit, or else  *)
(* it carries a kill: no crash and no interleaving of ErrorHandler,        *)
(* RetryManager and kill gives a job a retry more than it is allowed - not *)
(* even where one of the two writes over the other's count.                *)
AtMost(r, limit) == r <= limit \/ (~Pristine /\ r >= KillIncrement)

RetriesBounded == \A j \in Jobs : AtMost(retry[j], MaxRetries)

(* What makes it inductive: a job that cools off has a retry left, and so  *)
(* has one that RetryManager holds; and there is no kill before the first. *)
RetryLeft == /\ \A j \in InState(CooloffStates) \cup JobsOf(cooling) : AtMost(retry[j], MaxRetries - 1)
             /\ \A s \in counts : AtMost(s.retry, MaxRetries - 1)
             /\ killStep # "idle" => ~Pristine

(* Until a kill begins, the report a job is judged by, once it ran, is the *)
(* report of the attempt that ran, not one that an earlier attempt left    *)
(* behind in fwjr_path.                                                    *)
JudgedByOwnReport ==
  Pristine => \A j \in InState({"complete", "success", "jobfailed"}) : path[j] = retry[j]

(* Nothing has crashed so far, no process is ever put on hold, and no      *)
(* failure is let pass as a success by its exit code.                      *)
Undisturbed == Pristine /\ faults = 0 /\ ~Holds /\ ~PassCodes

(* Until something crashes, what is in the batch system is one process for *)
(* a job at most: of its present attempt, and the job is executing or      *)
(* about to be recorded as such.                                           *)
OneProcess ==
  Undisturbed => \A p \in queue :
                   /\ retry[p.job] = p.retry
                   /\ state[p.job] = "executing" \/ Attempt(p) \in {Attempt(a) : a \in accepted}
                   /\ \A q \in queue : q.job = p.job => q = p

(* Until then, a job is complete, in WMBS, only when its attempt left the  *)
(* batch system ("the schedd doesn't know the job").                       *)
CompleteMeansGone == Undisturbed => \A j \in InState({"complete"}) : Of(queue, Now(j)) = {}

(* What makes the two inductive: where a row is of a job's present attempt *)
(* the attempt has begun, and whatever is in the batch system, and is not  *)
(* about to be recorded, has the active row of its copy.                   *)
Begun == {"executing", "complete", "success", "jobfailed", "jobcooloff", "retrydone", "exhausted",
          "cleanout"}

ProcessInv ==
  Undisturbed =>
    /\ \A p \in queue \cup accepted : ~p.held
    /\ \A x \in rows : x.retry < retry[x.job] \/ (x.retry = retry[x.job] /\ state[x.job] \in Begun)
    /\ \A p \in queue \ accepted : \E x \in Active : Attempt(x) = Attempt(p) /\ x.copy = p.copy

(* The rows, the batch system and the jobs, together.                      *)
TableInv == RowsInv /\ ProcessInv

(* A killed job carries the kill in its retry count, so that no retry      *)
(* algorithm ever finds it ready again.                                    *)
KilledIsRaised == \A j \in InState({"killed"}) : retry[j] >= KillIncrement

-----------------------------------------------------------------------------
(* What a step may do.                                                     *)

(* As long as no workflow is killed, the agent does what the job state     *)
(* machine says and nothing else.                                          *)
Lifecycle == INSTANCE JobLifecycle WITH Jobs <- Jobs, state <- state, retry <- retry
ImplementsLifecycle == Lifecycle!Spec

-----------------------------------------------------------------------------
(* What happens eventually, under fairness.                                *)

(* Every job comes to rest: archived, or paused for an operator.           *)
AllSettle == <>[](\A j \in Jobs : state[j] \in PausedStates \cup {"cleanout"})

(* An aborted workflow drains: every job that was created is archived.     *)
KilledDrains == <>[](aborted => \A j \in Jobs : state[j] \in {"new", "cleanout"})
=============================================================================
