---------------------------- MODULE RequestManager ---------------------------
(***************************************************************************)
(* ReqMgr2: StatusChangeTasks, which moves a request by what its elements  *)
(* amount to, and the PUT with which an operator aborts or force-completes *)
(* it.  A PUT is validated, cancels the elements and then writes the       *)
(* status, without looking at it again.                                    *)
(***************************************************************************)
EXTENDS QueueState

(* cancelWorkflow: closes the request and asks to cancel every element     *)
(* that is not over, also those that no agent has taken.                   *)
CancelWorkflow ==
  /\ parent' = [parent EXCEPT !.open = FALSE]
  /\ gq' = [e \in Elements |->
              IF e \in Queued /\ Status(gq[e]) \notin EndStates \cup {"CancelRequested"}
              THEN SetStatus(gq[e], Global, "CancelRequested") ELSE gq[e]]

(* The view is read "stale: update_after", for the requests that may move: *)
(* it shows what its index had.                                            *)
UpdateView ==
  /\ status \in CancelStates \/ AutoTransition(status) # <<>>
  /\ shown # RequestStatusOf(ElementStatuses)
  /\ shown' = RequestStatusOf(ElementStatuses)
  /\ UNCHANGED <<status, parent, documents, agentWork, queueing, cancelling, asked, pollers>>

(* getWorkflowStatusFromWQE, and moveOpenRequests: not beyond running-open *)
(* while new data may come.                                                *)
WQEStatus ==
  IF parent.open /\ shown \in {"running-closed", "completed"} THEN "running-open" ELSE shown

(* moveForwardStatus: the next of the statuses up to the one computed.     *)
Forward ==
  CASE WQEStatus = "failed" /\ status = "staged"   -> {"acquired"}
    [] WQEStatus = "failed" /\ status = "acquired" -> {"failed"}
    [] WQEStatus \in Range(AutoTransition(status)) -> {Head(AutoTransition(status))}
    [] OTHER                                       -> {}

MoveForward ==
  /\ status' \in Forward
  /\ UNCHANGED <<parent, documents, agentWork, tasks, pollers>>

(* Mutation: an element that was set back is left alone.                   *)
StillWaits == WQEStatus = "acquired"

StillGoesOn == WQEStatus \in {"acquired", "running-open", "running-closed"}

(* moveToCompletedForNoWQJobs: a cancelled request is over when its        *)
(* elements are, and until then its elements are cancelled again.          *)
MoveCancelled ==
  /\ status \in CancelStates /\ WQEStatus \in {"completed", "None"}
  /\ status' = CancelAutoTransition(status)
  /\ UNCHANGED <<parent, documents, agentWork, tasks, pollers>>

CancelAgain ==
  /\ status \in CancelStates /\ StillGoesOn
  /\ WithinBound
  /\ CancelWorkflow
  /\ UNCHANGED <<status, inbox, agentWork, tasks, pollers>>

(* The operator's PUT: the status allows it, the elements are cancelled    *)
(* and then the new status is written.                                     *)
Ask(what) ==
  /\ asked = "nothing" \/ (asked = "failed" /\ WithinBound)
  /\ what \in AllowCancel
  /\ CheckAllowedTransition(status, what)
  /\ asked' = what
  /\ CancelWorkflow
  /\ UNCHANGED <<status, inbox, agentWork, queueing, cancelling, shown, pollers>>

WriteStatus ==
  /\ asked \in CancelStates
  /\ status' = asked
  /\ asked' = "answered"
  /\ UNCHANGED <<parent, documents, agentWork, queueing, cancelling, shown, pollers>>

(* The call ends early: nothing is left of it but what it cancelled.       *)
ManagerFault ==
  /\ "asking" \in Dying /\ asked \in CancelStates /\ asked' = "failed"
  /\ UNCHANGED <<status, parent, documents, agentWork, queueing, cancelling, shown, pollers>>

ManagerNext ==
  \/ UpdateView
  \/ MoveForward
  \/ MoveCancelled
  \/ CancelAgain
  \/ \E what \in CancelStates : Ask(what)
  \/ WriteStatus
  \/ ManagerFault
=============================================================================
