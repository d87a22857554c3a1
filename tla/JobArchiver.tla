----------------------------- MODULE JobArchiver -----------------------------
(***************************************************************************)
(* JobArchiverPoller.archiveJobs: finished jobs lose their cache directory *)
(* and become cleanout.  (The old state propagate is given depends on the  *)
(* job's outcome, but it only has to pass the table, which it always does.)*)
(***************************************************************************)
EXTENDS BossAir

VARIABLE archiving        \* the jobs findFinishedJobs returned

archiverVars == <<archiving>>

ArchiverTypeOK == archiving \subseteq Jobs

ArchiverInit == archiving = {}

ArchiverRead ==
  /\ archiving = {}
  /\ InState({"success", "exhausted", "killed"}) # {}
  /\ archiving' = InState({"success", "exhausted", "killed"})
  /\ UNCHANGED <<bossAirVars, tableVars>>

Cleaned == {r \in reports : r.job \notin archiving}

(* cleanWorkArea, then the transaction.                                    *)
ArchiverCommit ==
  /\ archiving # {}
  /\ state' = StateSet(archiving, "cleanout")
  /\ reports' = Cleaned
  /\ archiving' = {}
  /\ UNCHANGED <<retry, path, rows, queue>>

ArchiverCrash ==
  /\ archiving # {}
  /\ archiving' = {}
  /\ reports' = Cleaned
  /\ UNCHANGED <<rows, queue, tableVars>>
=============================================================================
