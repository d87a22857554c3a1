------------------------------ MODULE JobTable -------------------------------
(***************************************************************************)
(* The wmbs_job table, the one piece of state all the job components of an *)
(* agent share, and the two statements ChangeState.persist runs on it.     *)
(*                                                                         *)
(* The UPDATE of Jobs.ChangeState names a job by its id only: it does not  *)
(* look at the state the row is in.  ChangeState.check compares the new    *)
(* state with the state the CALLER believes the job has.  So a component   *)
(* that acts on a list it read earlier overwrites whatever happened since. *)
(*                                                                         *)
(* retry_count is kept as the number it is; fwjr_path is kept as the retry *)
(* count in its file name (Report.<retry>.pkl), NoPath when it is NULL.    *)
(***************************************************************************)
EXTENDS Transitions

CONSTANT Jobs

VARIABLES state, retry, path

tableVars == <<state, retry, path>>

NoPath == -1

TableTypeOK == /\ state \in [Jobs -> States]
               /\ retry \in [Jobs -> Nat]
               /\ path  \in [Jobs -> Nat \cup {NoPath}]

TableInit == /\ state = [j \in Jobs |-> "new"]
             /\ retry = [j \in Jobs |-> 0]
             /\ path  = [j \in Jobs |-> NoPath]

(* A snapshot of a job: its id and the retry count it had when it was read *)
Attempts  == [job : Jobs, retry : Nat]
JobsOf(S) == {s.job : s \in S}
Now(j)    == [job |-> j, retry |-> retry[j]]

InState(names) == {j \in Jobs : state[j] \in names}

(* The tables after the UPDATEs: every job of S gets the new state, and the*)
(* retry count that was read - in S - plus an increment: the SELECT and the*)
(* UPDATE of IncrementRetry are two statements.                            *)
StateSet(S, new) == [j \in Jobs |-> IF j \in S THEN new ELSE state[j]]

CountIn(S, j) == (CHOOSE s \in S : s.job = j).retry

(* Mutation: a kill counts as one retry.                                   *)
RetryWrittenByOne(S, inc) == [j \in Jobs |-> IF j \in JobsOf(S) THEN CountIn(S, j) + 1 ELSE retry[j]]

RetryWritten(S, inc) == [j \in Jobs |-> IF j \in JobsOf(S) THEN CountIn(S, j) + inc ELSE retry[j]]

(* Mutation: a path that is set is kept.                                   *)
PathSetOnce(S) ==
  [j \in Jobs |-> IF j \in JobsOf(S) /\ path[j] = NoPath
                  THEN CountIn(S, j) ELSE path[j]]

(* Jobs.SetFWJRPath: the report of the attempt in S.                       *)
PathSet(S) ==
  [j \in Jobs |-> IF j \in JobsOf(S) THEN CountIn(S, j) ELSE path[j]]
=============================================================================
