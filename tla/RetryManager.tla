----------------------------- MODULE RetryManager ----------------------------
(***************************************************************************)
(* RetryManagerPoller with the SquaredAlgo or PauseAlgo plugin: a job that *)
(* cooled off long enough is created again, with one more retry - or is    *)
(* paused, also with one more retry, until an operator resumes or fails it.*)
(*                                                                         *)
(* The jobs are listed and loaded first; propagate then runs once for each *)
(* group of them, all in one transaction.  IncrementRetry SELECTs the retry*)
(* count and then UPDATEs it to what it read plus one: whatever committed  *)
(* in between is lost.  (Under REPEATABLE READ what it reads may be older  *)
(* than its SELECT, never older than the transaction's first statement.)   *)
(***************************************************************************)
EXTENDS BossAir

CONSTANTS Plugin,          \* RetryManager.plugins['default']
          PauseCount       \* PauseAlgo's pauseCount

ASSUME RetryManagerAssumption == /\ Plugin \in {"SquaredAlgo", "PauseAlgo"}
                                 /\ PauseCount \in Nat

VARIABLES cooling,        \* the jobs in cooloff, as they were loaded
          counts,         \* the retry counts IncrementRetry read
          chosen          \* the paused jobs the operator's tool listed

retryManagerVars == <<cooling, counts>>
operatorVars == <<chosen>>

Cooling == [job : Jobs, retry : Nat, state : CooloffStates]

RetryManagerTypeOK == /\ cooling \subseteq Cooling
                      /\ counts \subseteq Attempts /\ JobsOf(counts) \subseteq JobsOf(cooling)
                      /\ chosen \subseteq Jobs

RetryManagerInit == cooling = {} /\ counts = {} /\ chosen = {}

RetryRead ==
  /\ cooling = {}
  /\ InState(CooloffStates) # {}
  /\ cooling' = {[job |-> j, retry |-> retry[j], state |-> state[j]] :
                    j \in InState(CooloffStates)}
  /\ UNCHANGED <<counts, chosen, bossAirVars, tableVars>>

(* The wait grows with retry_count^2: thousands of years after a kill.     *)
MayBeReady == {s \in cooling : s.retry < KillIncrement}

(* PauseAlgo.isReady: pause instead of retrying, every pauseCount retries. *)
Pauses(s) == /\ Plugin = "PauseAlgo"
             /\ \/ PauseCount = 0
                \/ s.retry > 0 /\ s.retry % PauseCount = 0

Retried(s) == IF Pauses(s) THEN PauseOf[s.state] ELSE "created"

(* The SELECT, for a group of jobs that waited long enough.                *)
RetrySelect(ready) ==
  /\ ready # {} /\ ready \subseteq MayBeReady
  /\ JobsOf(ready) \cap JobsOf(counts) = {}
  /\ counts' = counts \cup {Now(j) : j \in JobsOf(ready)}
  /\ UNCHANGED <<cooling, chosen, bossAirVars, tableVars>>

(* The UPDATEs, and the commit.                                            *)
RetryCommit ==
  /\ cooling # {}
  /\ state' = [j \in Jobs |-> IF j \in JobsOf(counts)
                              THEN Retried(CHOOSE s \in cooling : s.job = j) ELSE state[j]]
  /\ retry' = RetryWritten(counts, 1)
  /\ cooling' = {} /\ counts' = {}
  /\ UNCHANGED <<chosen, path, bossAirVars>>

RetryCrash ==
  /\ cooling # {}
  /\ cooling' = {} /\ counts' = {}
  /\ UNCHANGED <<chosen, bossAirVars, tableVars>>

(* bin/paused-jobs: an operator lists paused jobs, and then (after a prompt)*)
(* resumes or fails them one by one.                                       *)
OperatorLists ==
  /\ chosen = {}
  /\ chosen' \in SUBSET InState(PausedStates) /\ chosen' # {}
  /\ UNCHANGED <<retryManagerVars, bossAirVars, tableVars>>

OperatorMoves(j, new) ==
  /\ j \in chosen
  /\ new \in {"created", "retrydone"}
  /\ state' = StateSet({j}, new)
  /\ chosen' = chosen \ {j}
  /\ UNCHANGED <<retry, path, retryManagerVars, bossAirVars>>
=============================================================================
