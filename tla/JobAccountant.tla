---------------------------- MODULE JobAccountant ----------------------------
(***************************************************************************)
(* JobAccountantPoller and AccountantWorker: a complete job is a success   *)
(* or jobfailed, as the report at its fwjr_path says.  A report that is    *)
(* missing or unreadable is a failure.  (What the accountant does to files *)
(* and to the DBS buffer is not part of this module.)                      *)
(***************************************************************************)
EXTENDS BossAir

VARIABLE accounted        \* the [job, path] pairs GetFWJRByState returned

accountantVars == <<accounted>>

AccountantTypeOK == accounted \subseteq [job : Jobs, path : Nat \cup {NoPath}]

AccountantInit == accounted = {}

AccountantRead ==
  /\ accounted = {}
  /\ InState({"complete"}) # {}
  /\ accounted' = {[job |-> j, path |-> path[j]] : j \in InState({"complete"})}
  /\ UNCHANGED <<bossAirVars, tableVars>>

(* One slice of the list, in one transaction.                              *)
AccountantCommit(slice) ==
  LET good == {s \in slice : ReportAt(s.job, s.path) = {"success"}}
  IN  /\ slice # {} /\ slice \subseteq accounted
      /\ state' = [j \in Jobs |-> IF j \in JobsOf(good) THEN "success"
                                  ELSE IF j \in JobsOf(slice) THEN "jobfailed"
                                  ELSE state[j]]
      /\ accounted' = accounted \ slice
      /\ UNCHANGED <<retry, path, bossAirVars>>

(* CouchConnectionError skips a slice, any other error ends the cycle.     *)
AccountantCrash ==
  /\ accounted # {}
  /\ \E left \in SUBSET accounted : left # accounted /\ accounted' = left
  /\ UNCHANGED <<bossAirVars, tableVars>>
=============================================================================
