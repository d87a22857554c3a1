----------------------------- MODULE Transitions -----------------------------
(***************************************************************************)
(* The job state machine (JSM) of the agent as data: the table of allowed  *)
(* transitions (Transitions.py) and the retry bookkeeping that goes with a *)
(* transition (ChangeState.persist).                                       *)
(***************************************************************************)
EXTENDS Integers

CONSTANT KillIncrement    \* what a kill adds to retry_count (99999 in the code)

ASSUME KillIncrementAssumption == KillIncrement \in Nat \ {0}

CooloffStates == {"createcooloff", "submitcooloff", "jobcooloff"}
PausedStates  == {"createpaused", "submitpaused", "jobpaused"}
FailedStates  == {"createfailed", "submitfailed", "jobfailed"}

States == {"new", "created", "executing", "complete", "success", "retrydone",
           "exhausted", "killed", "cleanout"}
            \cup FailedStates \cup CooloffStates \cup PausedStates

(* State names come in families, one per step of a job's life.  This is    *)
(* the string surgery '%sfailed' / '%scooloff' / pauseMap of the pollers.  *)
(* Mutations of the next definition: a misspelt name, a swapped family.    *)
MisspeltCooloffOf == [createfailed |-> "createcooloff", submitfailed |-> "submitcooloff",
                      jobfailed |-> "jobcoolof"]
SwappedCooloffOf  == [createfailed |-> "createcooloff", submitfailed |-> "jobcooloff",
                      jobfailed |-> "submitcooloff"]

CooloffOf == [createfailed |-> "createcooloff", submitfailed |-> "submitcooloff",
              jobfailed |-> "jobcooloff"]
PauseOf   == [createcooloff |-> "createpaused", submitcooloff |-> "submitpaused",
              jobcooloff |-> "jobpaused"]

(* The table has no row for "cleanout": nothing may leave it.              *)
Transitions ==
  [new           |-> {"created", "createfailed", "killed"},
   created       |-> {"executing", "submitfailed", "createfailed", "killed"},
   executing     |-> {"complete", "jobfailed", "killed"},
   complete      |-> {"jobfailed", "success"},
   createfailed  |-> {"createcooloff", "retrydone", "killed"},
   submitfailed  |-> {"submitcooloff", "retrydone", "killed"},
   jobfailed     |-> {"jobcooloff", "retrydone", "killed"},
   createcooloff |-> {"created", "createpaused", "retrydone", "killed"},
   submitcooloff |-> {"created", "submitpaused", "retrydone", "killed"},
   jobcooloff    |-> {"created", "jobpaused", "retrydone", "killed"},
   success       |-> {"cleanout"},
   retrydone     |-> {"exhausted", "killed"},
   exhausted     |-> {"cleanout"},
   killed        |-> {"cleanout", "killed"},
   jobpaused     |-> {"created", "retrydone", "killed"},
   createpaused  |-> {"created", "retrydone", "killed"},
   submitpaused  |-> {"created", "retrydone", "killed"},
   cleanout      |-> {}]

(* How much a transition adds to retry_count.                              *)
RetryIncrement(old, new) ==
  IF new = "killed" THEN KillIncrement
  ELSE IF old \in CooloffStates THEN 1 ELSE 0
=============================================================================
