----------------------------- MODULE WorkElement -----------------------------
(***************************************************************************)
(* The status of a work queue element, and what is computed from statuses: *)
(* the result of a set of elements for their parent, the merge of versions *)
(* in conflict, the status of the request.                                 *)
(***************************************************************************)
EXTENDS Naturals

(* STATES, each with its index: an element is not set back by a result.    *)
Rank == [Available |-> 0, Negotiating |-> 1, Acquired |-> 2, Running |-> 3,
         Done |-> 4, Failed |-> 5, CancelRequested |-> 6, Canceled |-> 7]

Statuses  == DOMAIN Rank
EndStates == {"Done", "Failed", "Canceled"}

(* WorkQueueElementResult.status, "error" where it raises.                 *)
ResultStatus(statuses, parent) ==
  CASE statuses = {} -> parent
    [] statuses # {} /\ statuses \subseteq EndStates ->
         (CASE "Canceled" \in statuses -> "Canceled"
            [] "Canceled" \notin statuses /\ "Failed" \in statuses -> "Failed"
            [] OTHER -> "Done")
    [] OTHER ->
         (CASE "CancelRequested" \in statuses -> "CancelRequested"
            [] "CancelRequested" \notin statuses /\ "Running" \in statuses -> "Running"
            [] statuses \cap {"CancelRequested", "Running"} = {}
               /\ statuses \cap {"Acquired", "Available"} # {} -> "Acquired"
            [] OTHER -> IF statuses = {"Negotiating"} THEN "Negotiating" ELSE "error")

(* updateWithResult: only ever upwards.                                    *)
UpdatedWith(status, result) ==
  IF result \in Statuses /\ Rank[result] > Rank[status] THEN result ELSE status

(* fixElementConflicts: the most advanced of the versions.                 *)
Merged(statuses) == CHOOSE s \in statuses : \A t \in statuses : Rank[t] <= Rank[s]

(* convertWQElementsStatusToWFStatus, "None" where it has no answer.       *)
RequestStatusOf(S) ==
  CASE S = {}                                                    -> "None"
    [] S = {"CancelRequested"}                                   -> "canceled"
    [] S = {"Acquired"}                                          -> "running-open"
    [] S = {"Running"}                                           -> "running-closed"
    [] S = {"Failed"}                                            -> "failed"
    [] OTHER ->
       IF S \subseteq {"Available", "Negotiating", "Failed"}     THEN "acquired"
       ELSE IF S \subseteq EndStates                             THEN "completed"
       ELSE IF S \subseteq EndStates \cup {"CancelRequested"}    THEN "canceled"
       ELSE IF S \cap {"Available", "Negotiating", "Acquired"} # {} THEN "running-open"
       ELSE "running-closed"
=============================================================================
