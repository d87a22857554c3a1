------------------------------ MODULE WorkQueues -----------------------------
(***************************************************************************)
(* The work queue of a request: ReqMgr2, the global queue and the agents,  *)
(* with the continuous replications AgentStatusWatcher keeps up between    *)
(* the global queue and each inbox.                                        *)
(***************************************************************************)
EXTENDS GlobalQueue, RequestManager, LocalQueue

Init ==
  /\ status = "staged"
  /\ parent = NoParent
  /\ gq = [e \in Elements |-> {}]
  /\ inbox = [a \in Agents |-> [e \in Elements |-> {}]]
  /\ local = [a \in Agents |-> [e \in Elements |-> "none"]]
  /\ wmbs = [a \in Agents |-> [e \in Elements |-> "none"]]
  /\ injected = [a \in Agents |-> FALSE]
  /\ queueing = NotQueueing
  /\ cancelling = NotCancelling
  /\ shown = "None"
  /\ asked = "nothing"
  /\ pulled = [a \in Agents |-> {}]
  /\ splitting = [a \in Agents |-> {}]
  /\ feeding = [a \in Agents |-> {}]
  /\ killing = [a \in Agents |-> FALSE]

ReplicateDown(a, e) ==
  /\ inbox' = [inbox EXCEPT ![a][e] = Received(@, gq[e], a)] /\ inbox' # inbox
  /\ UNCHANGED <<globalSide, agentWork, pollers>>

ReplicateUp(a, e) ==
  /\ gq' = [gq EXCEPT ![e] = Received(@, inbox[a][e], a)] /\ gq' # gq
  /\ UNCHANGED <<status, parent, inbox, agentWork, tasks, pollers>>

Next ==
  \/ GlobalNext
  \/ ManagerNext
  \/ \E a \in Agents : LocalNext(a)
  \/ \E a \in Agents, e \in Elements : ReplicateDown(a, e) \/ ReplicateUp(a, e)

Spec == Init /\ [][Next]_queueVars

(* The tasks run in cycles: neither the global side nor an agent with its   *)
(* replications stops while there is something for it to do.  Whether more *)
(* input appears, the operator cancels or a task dies is nobody's duty,    *)
(* but a PUT that is under way ends.                                       *)
GlobalDuty ==
  \/ QueueWork \/ (\E e \in Elements : InsertElement(e)) \/ QueueingDone \/ CloseWork
  \/ DeleteCompletedGlobal \/ SyncGlobal \/ ListToCancel \/ CancelListed
  \/ UpdateView \/ MoveForward \/ MoveCancelled \/ CancelAgain \/ WriteStatus

AgentDuty(a) ==
  \/ PullRead(a) \/ PullSave(a) \/ FeedRead(a) \/ MarkInjected(a) \/ ArchiveDone(a)
  \/ SyncResults(a) \/ KillWMBS(a) \/ CancelInbox(a) \/ KillForbidden(a)
  \/ DeleteCompletedLocal(a)
  \/ \E e \in Elements :
       \/ Split(a, e) \/ Acquire(a, e) \/ Inject(a, e) \/ MarkRunning(a, e) \/ Finish(a, e)
       \/ ReplicateDown(a, e) \/ ReplicateUp(a, e)

FairSpec == Spec /\ WF_queueVars(GlobalDuty \/ \E a \in Agents : AgentDuty(a))
=============================================================================
