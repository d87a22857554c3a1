------------------------------ MODULE LocalQueue -----------------------------
(***************************************************************************)
(* An agent's side of the work queue: WorkPoller takes elements from the   *)
(* global queue and splits what arrives in the inbox, WMBSFileFeeder puts  *)
(* the local elements into WMBS, JobArchiver and TaskArchiver see the work *)
(* to its end, Cleaner brings the inbox up to date, cancels and deletes.   *)
(***************************************************************************)
EXTENDS QueueState

globalSide == <<status, parent, gq, queueing, cancelling, shown, asked>>

Fixes(a) == [e \in Elements |-> Fixed(inbox[a][e], a)]

(* pullWorkConditionCheck: nothing the agent took is still on its way.     *)
MayPull(a) ==
  /\ ~\E e \in Queued : Status(gq[e]) = "Negotiating" /\ Child(gq[e]) = a
  /\ ~\E e \in Held(a) : Status(inbox[a][e]) = "Negotiating"

Takeable ==
  {p \in Elements \X UNION {gq[e] : e \in Elements} :
     p[2] \in gq[p[1]] /\ p[2].status = "Available" /\ p[2] = Winner(gq[p[1]])}

PullRead(a) ==
  /\ pulled[a] = {} /\ MayPull(a)
  /\ \E read \in SUBSET Takeable : read # {} /\ pulled' = [pulled EXCEPT ![a] = read]
  /\ UNCHANGED <<globalSide, inbox, agentWork, splitting, feeding, killing>>

(* _assignToChildQueue: saved only where the revision is still current.    *)
PullSave(a) ==
  /\ pulled[a] # {}
  /\ gq' = [e \in Elements |->
              LET read == {p \in pulled[a] : p[1] = e}
              IN  IF read = {} THEN gq[e]
                  ELSE Save(gq[e], (CHOOSE p \in read : TRUE)[2], Global, "Negotiating", a)]
  /\ pulled' = [pulled EXCEPT ![a] = {}]
  /\ UNCHANGED <<status, parent, inbox, agentWork, tasks, splitting, feeding, killing>>

(* processInboundWork: conflicts are fixed, an inbox element that is being *)
(* negotiated becomes a local one, and then it is Acquired.                *)
Split(a, e) ==
  /\ e \notin splitting[a]
  /\ Exists(inbox[a][e]) /\ Status(Fixes(a)[e]) = "Negotiating" /\ local[a][e] = "none"
  /\ inbox' = [inbox EXCEPT ![a] = Fixes(a)]
  /\ local' = [local EXCEPT ![a][e] = "Available"]
  /\ splitting' = [splitting EXCEPT ![a] = @ \cup {e}]
  /\ UNCHANGED <<globalSide, wmbs, injected, pulled, feeding, killing>>

(* A TERMINAL_EXCEPTION of the splitting.                                  *)
SplitFailed(a, e) ==
  /\ SplitFails /\ e \notin splitting[a]
  /\ Exists(inbox[a][e]) /\ Status(Fixes(a)[e]) = "Negotiating" /\ local[a][e] = "none"
  /\ inbox' = [inbox EXCEPT ![a] = [Fixes(a) EXCEPT ![e] = SetStatus(@, a, "Failed")]]
  /\ UNCHANGED <<globalSide, agentWork, pollers>>

Acquire(a, e) ==
  /\ e \in splitting[a]
  /\ inbox' = [inbox EXCEPT ![a][e] = IF Exists(@) THEN SetStatus(@, a, "Acquired") ELSE @]
  /\ splitting' = [splitting EXCEPT ![a] = @ \ {e}]
  /\ UNCHANGED <<globalSide, agentWork, pulled, feeding, killing>>

(* getWork, but not for the requests that ReqMgr2 has as cancelled.        *)
FeedRead(a) ==
  /\ feeding[a] = {}
  /\ status \notin CancelStates \cup {"aborted-completed"}
  /\ \E e \in Elements : local[a][e] = "Available"
  /\ feeding' = [feeding EXCEPT ![a] = {e \in Elements : local[a][e] = "Available"}]
  /\ UNCHANGED <<globalSide, inbox, agentWork, pulled, splitting, killing>>

(* _wmbsPreparation: the subscription is made and committed ...            *)
Inject(a, e) ==
  /\ e \in feeding[a] /\ wmbs[a][e] = "none"
  /\ wmbs' = [wmbs EXCEPT ![a][e] = "open"]
  /\ UNCHANGED <<globalSide, inbox, local, injected, pollers>>

(* ... and then the element is Running.                                    *)
MarkRunning(a, e) ==
  /\ e \in feeding[a] /\ wmbs[a][e] # "none"
  /\ local' = [local EXCEPT ![a][e] = IF @ = "none" THEN @ ELSE "Running"]
  /\ feeding' = [feeding EXCEPT ![a] = @ \ {e}]
  /\ UNCHANGED <<globalSide, inbox, wmbs, injected, pulled, splitting, killing>>

(* Mutation: without regard to OpenForNewData.                             *)
AllTaken == ElementStatuses \subseteq {"Running", "Done", "Failed", "Canceled"}

(* JobArchiver's markInjected asks the global queue if all is injected: no *)
(* element is left to be taken, and no more are to come.                   *)
AllInjected ==
  ElementStatuses \subseteq {"Running", "Done", "Failed", "Canceled"} /\ ~parent.open

MarkInjected(a) ==
  /\ ~injected[a] /\ \E e \in Elements : wmbs[a][e] # "none"
  /\ AllInjected \/ Queued = {}
  /\ injected' = [injected EXCEPT ![a] = TRUE]
  /\ UNCHANGED <<globalSide, inbox, local, wmbs, pollers>>

(* The jobs of an element have run: its subscription is finished.          *)
Finish(a, e) ==
  /\ wmbs[a][e] = "open" /\ injected[a]
  /\ wmbs' = [wmbs EXCEPT ![a][e] = "over"]
  /\ UNCHANGED <<globalSide, inbox, local, injected, pollers>>

(* Mutation: as soon as nothing more is to come.                           *)
InjectedWorkflow(a) == injected[a]

FinishedWorkflow(a) == injected[a] /\ \A e \in Elements : wmbs[a][e] # "open"

(* TaskArchiver's notifyWorkQueue, for a workflow that is finished.        *)
ArchiveDone(a) ==
  /\ FinishedWorkflow(a) /\ \E e \in Elements : local[a][e] = "Running"
  /\ local' = [local EXCEPT ![a] = [e \in Elements |-> IF @[e] = "Running" THEN "Done" ELSE @[e]]]
  /\ UNCHANGED <<globalSide, inbox, wmbs, injected, pollers>>

(* Cleaner's performSyncAndCancelAction: the inbox elements get the result *)
(* of the local ones, if no cancellation is asked for.                     *)
Synced(a, e) ==
  LET doc    == Fixes(a)[e]
      result == ResultStatus({local[a][e]} \ {"none"}, Status(doc))
      new    == UpdatedWith(Status(doc), result)
  IN  IF ~Exists(doc) \/ result = "Negotiating" \/ new = Status(doc) THEN doc
      ELSE SetStatus(doc, a, new)

CancelAsked(a) == \E e \in Held(a) : Status(Fixes(a)[e]) = "CancelRequested"

SyncResults(a) ==
  /\ ~killing[a] /\ ~CancelAsked(a)
  /\ inbox' = [inbox EXCEPT ![a] = [e \in Elements |-> Synced(a, e)]]
  /\ inbox' # inbox
  /\ UNCHANGED <<globalSide, agentWork, pollers>>

(* cancelWork: first the workflow is over for the agent ...                *)
Killed(a) == [e \in Elements |-> IF wmbs[a][e] = "open" THEN "over" ELSE wmbs[a][e]]

KillWMBS(a) ==
  /\ ~killing[a] /\ CancelAsked(a)
  /\ inbox' = [inbox EXCEPT ![a] = Fixes(a)]
  /\ wmbs' = [wmbs EXCEPT ![a] = Killed(a)]
  /\ killing' = [killing EXCEPT ![a] = TRUE]
  /\ UNCHANGED <<globalSide, local, injected, pulled, splitting, feeding>>

(* ... and then all its inbox elements are Canceled.                       *)
CancelInbox(a) ==
  /\ killing[a]
  /\ inbox' = [inbox EXCEPT ![a] = [e \in Elements |->
                 IF e \in Held(a) THEN SetStatus(@[e], a, "Canceled") ELSE @[e]]]
  /\ killing' = [killing EXCEPT ![a] = FALSE]
  /\ UNCHANGED <<globalSide, agentWork, pulled, splitting, feeding>>

(* What the queue does not cancel: Cleaner and TaskArchiver ask ReqMgr2.   *)
ForbiddenStatus == CancelStates \cup {"aborted-completed", "completed"}

KillForbidden(a) ==
  /\ status \in ForbiddenStatus /\ \E e \in Elements : wmbs[a][e] = "open"
  /\ wmbs' = [wmbs EXCEPT ![a] = Killed(a)]
  /\ UNCHANGED <<globalSide, inbox, local, injected, pollers>>

(* (With the assumption of DeleteCompletedGlobal.)                         *)
DeleteCompletedLocal(a) ==
  /\ ~killing[a] /\ asked \notin CancelStates
  /\ status \in DeletableStates
  /\ Held(a) # {} \/ \E e \in Elements : local[a][e] # "none"
  /\ inbox' = [inbox EXCEPT ![a] = [e \in Elements |->
                 IF e \in Held(a) THEN Delete(@[e], a) ELSE @[e]]]
  /\ local' = [local EXCEPT ![a] = [e \in Elements |-> "none"]]
  /\ UNCHANGED <<globalSide, wmbs, injected, pollers>>

(* A poller dies: it has forgotten what it was about to do.                *)
AgentFault(a) ==
  /\ \/ "pulling" \in Dying /\ pulled[a] # {}
        /\ pulled' = [pulled EXCEPT ![a] = {}] /\ UNCHANGED <<splitting, feeding, killing>>
     \/ "splitting" \in Dying /\ splitting[a] # {}
        /\ splitting' = [splitting EXCEPT ![a] = {}] /\ UNCHANGED <<pulled, feeding, killing>>
     \/ "feeding" \in Dying /\ feeding[a] # {}
        /\ feeding' = [feeding EXCEPT ![a] = {}] /\ UNCHANGED <<pulled, splitting, killing>>
     \/ "killing" \in Dying /\ killing[a]
        /\ killing' = [killing EXCEPT ![a] = FALSE] /\ UNCHANGED <<pulled, splitting, feeding>>
  /\ UNCHANGED <<globalSide, inbox, agentWork>>

LocalNext(a) ==
  \/ PullRead(a)
  \/ PullSave(a)
  \/ \E e \in Elements :
       Split(a, e) \/ SplitFailed(a, e) \/ Acquire(a, e) \/ Inject(a, e)
       \/ MarkRunning(a, e) \/ Finish(a, e)
  \/ FeedRead(a)
  \/ MarkInjected(a)
  \/ ArchiveDone(a)
  \/ SyncResults(a)
  \/ KillWMBS(a)
  \/ CancelInbox(a)
  \/ KillForbidden(a)
  \/ DeleteCompletedLocal(a)
  \/ AgentFault(a)
=============================================================================
