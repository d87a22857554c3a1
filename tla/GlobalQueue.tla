----------------------------- MODULE GlobalQueue -----------------------------
(***************************************************************************)
(* The tasks of the global work queue.  ReqMgrInteractionTask closes open  *)
(* requests, adds elements to them and queues the staged ones, in one      *)
(* thread; CleanUpTask deletes the elements of requests that are over and  *)
(* cancels.                                                                *)
(***************************************************************************)
EXTENDS QueueState

SetElements(es, s) == [e \in Elements |->
                         IF e \in es /\ Exists(gq[e]) THEN SetStatus(gq[e], Global, s) ELSE gq[e]]

(* queueWork of a staged request: its inbox element is made, or found.  If *)
(* it has elements already, the splitting counts as done.                  *)
QueueWork ==
  /\ ~queueing.on /\ status = "staged" /\ Queued = {}
  /\ parent' = IF parent.status = "none"
               THEN [status |-> "Negotiating", open |-> TRUE, processed |-> {}] ELSE parent
  /\ queueing' = [on |-> TRUE, left |-> FirstElements]
  /\ UNCHANGED <<status, documents, agentWork, cancelling, shown, asked, pollers>>

(* A TERMINAL_EXCEPTION of the splitting fails the request.                *)
QueueWorkFails ==
  /\ SplitFails /\ queueing = [on |-> TRUE, left |-> FirstElements]
  /\ parent' = [parent EXCEPT !.status = IF @ = "none" THEN @ ELSE "Failed"]
  /\ status' = IF CheckAllowedTransition(status, "failed") THEN "failed" ELSE status
  /\ queueing' = NotQueueing
  /\ UNCHANGED <<documents, agentWork, cancelling, shown, asked, pollers>>

(* insertElements: one document at a time.                                 *)
InsertElement(e) ==
  /\ queueing.on /\ e \in queueing.left
  /\ gq' = [gq EXCEPT ![e] = IF Exists(@) THEN @ ELSE Insert(@, Global, "Available")]
  /\ queueing' = [queueing EXCEPT !.left = @ \ {e}]
  /\ UNCHANGED <<status, parent, inbox, agentWork, cancelling, shown, asked, pollers>>

(* Then the inbox element is Acquired, whatever it was meanwhile.          *)
QueueingDone ==
  /\ queueing = [on |-> TRUE, left |-> {}]
  /\ parent' = IF parent.status = "none" THEN parent
               ELSE [parent EXCEPT !.status = "Acquired", !.processed = FirstElements]
  /\ queueing' = NotQueueing
  /\ UNCHANGED <<status, documents, agentWork, cancelling, shown, asked, pollers>>

(* addWork: input that appeared since becomes elements of an open request. *)
AddWork(e) ==
  /\ ~queueing.on /\ parent.open
  /\ e \in Elements \ parent.processed /\ ~Exists(gq[e])
  /\ gq' = [gq EXCEPT ![e] = Insert(@, Global, "Available")]
  /\ parent' = [parent EXCEPT !.processed = @ \cup {e}]
  /\ UNCHANGED <<status, inbox, agentWork, tasks, pollers>>

(* closeWork.  Assumption: a request is not closed while the view of       *)
(* StatusChangeTasks shows it as completed and lacks elements that were    *)
(* added since.  Without an OpenRunningTimeout it is closed in the cycle   *)
(* that made its elements, before any is Done; otherwise hours after data  *)
(* was last found, when the view has what was added.                       *)
CloseWork ==
  /\ ~queueing.on /\ parent.open
  /\ shown = "completed" => RequestStatusOf(ElementStatuses) = "completed"
  /\ parent' = [parent EXCEPT !.open = FALSE]
  /\ UNCHANGED <<status, documents, agentWork, tasks, pollers>>

(* deleteCompletedWFElements: what is read of each document is deleted.    *)
(* Assumption: a PUT takes seconds and this cycle minutes, so a PUT that   *)
(* found the request running is over.                                      *)
DeleteCompletedGlobal ==
  /\ ~cancelling.on /\ asked \notin CancelStates
  /\ status \in DeletableStates
  /\ Queued # {} \/ parent.status # "none"
  /\ gq' = [e \in Elements |-> IF e \in Queued THEN Delete(gq[e], Global) ELSE gq[e]]
  /\ parent' = NoParent
  /\ UNCHANGED <<status, inbox, agentWork, tasks, pollers>>

(* performSyncAndCancelAction: the result of the elements for the parent.  *)
GlobalResult == ResultStatus(ElementStatuses, parent.status)

GlobalCancels ==
  /\ GlobalResult # "error"
  /\ "CancelRequested" \in {GlobalResult, UpdatedWith(parent.status, GlobalResult)}

SyncGlobal ==
  /\ ~cancelling.on
  /\ parent.status # "none" /\ ~GlobalCancels
  /\ GlobalResult \notin {"Negotiating", "error", parent.status}
  /\ parent' = [parent EXCEPT !.status = UpdatedWith(@, GlobalResult)]
  /\ UNCHANGED <<status, documents, agentWork, tasks, pollers>>

(* cancelWork, first its lists: elements no agent has are to be canceled,  *)
(* the agents are to be asked to cancel the others.                        *)
Direct == {e \in Queued : Child(gq[e]) = NoAgent /\ Status(gq[e]) # "Canceled"}

ToAsk == {e \in Queued : /\ Child(gq[e]) # NoAgent
                         /\ Status(gq[e]) \notin EndStates \cup {"CancelRequested"}}

ListToCancel ==
  /\ ~cancelling.on
  /\ parent.status # "none" /\ GlobalCancels /\ WithinBound
  /\ Direct # {} \/ ToAsk # {} \/ parent.status \notin EndStates \cup {"CancelRequested"}
  /\ cancelling' = [on |-> TRUE, direct |-> Direct, ask |-> ToAsk]
  /\ UNCHANGED <<status, parent, documents, agentWork, queueing, shown, asked, pollers>>

(* After cancelGraceTime the elements are set to Canceled in memory and    *)
(* those among them that are not in an end state are saved: none is.       *)
SavedAfterGrace(es) == {e \in es : "Canceled" \notin EndStates}

CancelListed ==
  /\ cancelling.on
  /\ gq' = [e \in Elements |->
              IF e \in cancelling.direct \cup SavedAfterGrace(cancelling.ask)
              THEN SetElements({e}, "Canceled")[e]
              ELSE SetElements(cancelling.ask, "CancelRequested")[e]]
  /\ parent' = [parent EXCEPT !.status =
                  IF @ \in EndStates \cup {"CancelRequested", "none"} THEN @ ELSE "CancelRequested"]
  /\ cancelling' = NotCancelling
  /\ UNCHANGED <<status, inbox, agentWork, queueing, shown, asked, pollers>>

(* A task dies, or CouchDB fails it: it starts over in its next cycle.     *)
GlobalFault ==
  /\ \/ "queueing" \in Dying /\ queueing.on
        /\ queueing' = NotQueueing /\ UNCHANGED cancelling
     \/ "cancelling" \in Dying /\ cancelling.on
        /\ cancelling' = NotCancelling /\ UNCHANGED queueing
  /\ UNCHANGED <<status, parent, documents, agentWork, shown, asked, pollers>>

GlobalNext ==
  \/ QueueWork
  \/ QueueWorkFails
  \/ \E e \in Elements : InsertElement(e)
  \/ QueueingDone
  \/ \E e \in Elements : AddWork(e)
  \/ CloseWork
  \/ DeleteCompletedGlobal
  \/ SyncGlobal
  \/ ListToCancel
  \/ CancelListed
  \/ GlobalFault
=============================================================================
