----------------------------- MODULE ErrorHandler ----------------------------
(***************************************************************************)
(* ErrorHandlerPoller: failed jobs go to cooloff, are given up (retrydone),*)
(* or are resubmitted at once; jobs given up are exhausted, with their     *)
(* input failed and an ACDC document made.                                 *)
(*                                                                         *)
(* A cycle lists the ids of one state, loads a slice of them, and decides  *)
(* each job of the slice in one transaction.  The load does not look at    *)
(* the state again.                                                        *)
(***************************************************************************)
EXTENDS BossAir

CONSTANT MaxRetries       \* ErrorHandler.maxRetries

ASSUME ErrorHandlerAssumption == MaxRetries \in Nat

VARIABLES handling,       \* the state whose jobs were listed, or "idle"
          listed,         \* the ids listed and not yet loaded
          loaded          \* the slice loaded

handlerVars == <<handling, listed, loaded>>

HandlerTypeOK ==
  /\ handling \in FailedStates \cup {"retrydone", "idle"}
  /\ listed \subseteq Jobs
  /\ loaded \subseteq [job : Jobs, retry : Nat, path : Nat \cup {NoPath}]

HandlerInit == handling = "idle" /\ listed = {} /\ loaded = {}

(* The next stage of the cycle begins only when this one has no job left.  *)
StageAfter(rest) == IF rest = {} THEN "idle" ELSE handling

HandlerRead ==
  /\ handling = "idle"
  /\ \E kind \in FailedStates \cup {"retrydone"} :
       /\ InState({kind}) # {}
       /\ handling' = kind /\ listed' = InState({kind})
  /\ UNCHANGED <<loaded, bossAirVars, tableVars>>

HandlerLoad(slice) ==
  /\ loaded = {}
  /\ slice # {} /\ slice \subseteq listed
  /\ loaded' = {[job |-> j, retry |-> retry[j], path |-> path[j]] : j \in slice}
  /\ listed' = listed \ slice
  /\ UNCHANGED <<handling, bossAirVars, tableVars>>

(* Mutation: off by one.                                                   *)
SpentLate(s) == s.retry > MaxRetries \/ handling = "createfailed"

(* No retry is left - and a job that could not be created has none.        *)
Spent(s) == s.retry >= MaxRetries \/ handling = "createfailed"

(* processRetries and readFWJRForErrors.  Submit and job failures that may *)
(* still be retried are judged by their report; without one they cool off. *)
Verdict(s) ==
  IF Spent(s) THEN "retrydone"
  ELSE CASE ReportAt(s.job, s.path) = {"noRetry"} -> "retrydone"
         [] ReportAt(s.job, s.path) = {"pass"}    -> "created"
         [] OTHER                                 -> CooloffOf[handling]

HandleFailed ==
  /\ handling \in FailedStates /\ loaded # {}
  /\ state' = [j \in Jobs |-> IF j \in JobsOf(loaded)
                              THEN Verdict(CHOOSE s \in loaded : s.job = j) ELSE state[j]]
  /\ loaded' = {} /\ handling' = StageAfter(listed)
  /\ UNCHANGED <<listed, retry, path, bossAirVars>>

(* exhaustJobs                                                             *)
HandleRetryDone ==
  /\ handling = "retrydone" /\ loaded # {}
  /\ state' = StateSet(JobsOf(loaded), "exhausted")
  /\ loaded' = {} /\ handling' = StageAfter(listed)
  /\ UNCHANGED <<listed, retry, path, bossAirVars>>

HandlerCrash ==
  /\ handling # "idle"
  /\ handling' = "idle" /\ listed' = {} /\ loaded' = {}
  /\ UNCHANGED <<bossAirVars, tableVars>>
=============================================================================
