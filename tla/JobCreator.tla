------------------------------ MODULE JobCreator -----------------------------
(***************************************************************************)
(* JobCreatorPoller: one transaction takes the files of a subscription,    *)
(* splits them into jobs and leaves each job created, or createfailed when *)
(* the job could not be built.  A job in state "new" is one whose files    *)
(* have not been taken yet.                                                *)
(***************************************************************************)
EXTENDS BossAir

VARIABLES creating,       \* the jobs of the transaction under way
          filesKilled     \* Subscriptions.KillWorkflow has removed the files

creatorVars == <<creating>>

CreatorTypeOK == creating \subseteq Jobs /\ filesKilled \in BOOLEAN

CreatorInit == creating = {} /\ filesKilled = FALSE

(* The splitter acquires files; it finds none once a kill removed them.    *)
CreatorRead ==
  /\ creating = {} /\ ~filesKilled
  /\ creating' \in SUBSET InState({"new"}) /\ creating' # {}
  /\ UNCHANGED <<filesKilled, bossAirVars, tableVars>>

(* advanceJobGroup and generateCreateFailedReports, before one commit.  A  *)
(* report that cannot be saved leaves fwjr_path unset.                     *)
CreatorCommit(bad, saved) ==
  /\ creating # {}
  /\ bad \subseteq creating /\ saved \subseteq bad
  /\ state' = [j \in Jobs |-> IF j \in bad THEN "createfailed"
                              ELSE IF j \in creating THEN "created" ELSE state[j]]
  /\ path' = [j \in Jobs |-> IF j \in saved THEN 0 ELSE path[j]]
  /\ reports' = Written(reports, [job : saved, retry : {0}], "retry")
  /\ creating' = {}
  /\ UNCHANGED <<filesKilled, retry, rows, queue>>

CreatorCrash ==
  /\ creating # {}
  /\ creating' = {}
  /\ UNCHANGED <<filesKilled, bossAirVars, tableVars>>
=============================================================================
