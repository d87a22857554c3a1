------------------------------ MODULE JobTracker -----------------------------
(***************************************************************************)
(* JobTrackerPoller: jobs executing in WMBS whose bl_runjob row is no      *)
(* longer active are complete - or jobfailed, if the row says "Timeout".   *)
(***************************************************************************)
EXTENDS BossAir

VARIABLE tracked          \* the rows getComplete returned

trackerVars == <<tracked>>

TrackerTypeOK == tracked \subseteq Rows

TrackerInit == tracked = {}

TrackerRead ==
  /\ tracked = {}
  /\ CompleteRows # {}
  /\ tracked' = CompleteRows
  /\ UNCHANGED <<bossAirVars, tableVars>>

(* passJobs and failJobs: each has a transaction of its own, passJobs first*)
TrackerCommit ==
  LET passed   == {x \in tracked : ~x.timeout}
      settled  == IF passed = {} THEN tracked ELSE passed
      new      == IF passed = {} THEN "jobfailed" ELSE "complete"
      unloaded == {Attempt(x) : x \in {y \in settled \ passed : Of(reports, y) = {}}}
  IN  /\ settled # {}
      /\ state' = StateSet(JobsOf(settled), new)
      /\ path' = PathSet(settled)
      /\ reports' = Written(reports, unloaded, "retry")
      /\ tracked' = tracked \ settled
      /\ UNCHANGED <<retry, rows, queue>>

TrackerCrash ==
  /\ tracked # {}
  /\ tracked' = {}
  /\ UNCHANGED <<bossAirVars, tableVars>>
=============================================================================
