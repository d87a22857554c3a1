---------------------------- MODULE RequestStatus ----------------------------
(***************************************************************************)
(* The life of a request in ReqMgr2: the transitions that are allowed, the *)
(* moves ReqMgr2 makes by itself, and the request status that the elements *)
(* of a request in the global work queue amount to.                        *)
(***************************************************************************)
EXTENDS Sequences

RequestTransition(s) ==
  CASE s = "new"                 -> {"new", "assignment-approved", "rejected"}
    [] s = "assignment-approved" -> {"assigned", "rejected"}
    [] s = "assigned"            -> {"staging", "aborted"}
    [] s = "staging"             -> {"staged", "aborted"}
    [] s = "staged"              -> {"acquired", "aborted", "failed"}
    [] s = "acquired"            -> {"running-open", "aborted", "failed"}
    [] s = "running-open"        -> {"running-closed", "force-complete", "aborted"}
    [] s = "running-closed"      -> {"force-complete", "completed", "aborted"}
    [] s = "force-complete"      -> {"completed"}
    [] s = "failed"              -> {"rejected", "assigned"}
    [] s = "completed"           -> {"closed-out", "rejected"}
    [] s = "closed-out"          -> {"announced", "rejected"}
    [] s = "announced"           -> {"rejected", "normal-archived"}
    [] s = "aborted"             -> {"aborted-completed"}
    [] s = "aborted-completed"   -> {"aborted-archived"}
    [] s = "rejected"            -> {"rejected-archived"}
    [] s = "normal-archived"     -> {"rejected-archived"}
    [] OTHER                     -> {}

RequestStates ==
  {"new", "assignment-approved", "assigned", "staging", "staged", "acquired",
   "running-open", "running-closed", "force-complete", "failed", "completed",
   "closed-out", "announced", "aborted", "aborted-completed", "rejected",
   "normal-archived", "aborted-archived", "rejected-archived"}

CheckAllowedTransition(pre, post) == post \in RequestTransition(pre)

(* What ReqMgr2 may do by itself, in this order.                           *)
AutoTransition(s) ==
  CASE s = "staged"         -> <<"acquired", "running-open", "running-closed", "completed">>
    [] s = "acquired"       -> <<"running-open", "running-closed", "completed">>
    [] s = "running-open"   -> <<"running-closed", "completed">>
    [] s = "running-closed" -> <<"completed">>
    [] OTHER                -> <<>>

CancelStates == {"aborted", "force-complete"}

CancelAutoTransition(s) == IF s = "aborted" THEN "aborted-completed" ELSE "completed"

(* The work queues delete the elements of a request in one of these.       *)
DeletableStates ==
  {"completed", "closed-out", "failed", "announced", "aborted-completed", "rejected",
   "normal-archived", "aborted-archived", "rejected-archived"}
=============================================================================
