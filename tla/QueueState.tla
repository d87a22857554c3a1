----------------------------- MODULE QueueState ------------------------------
(***************************************************************************)
(* The state of one request in the global work queue and in the agents.    *)
(* The request is split into elements, documents of the global queue; the  *)
(* ones an agent takes are replicated to the inbox of its local queue and  *)
(* back.  The local queue makes one element of each inbox element and puts *)
(* it into WMBS, the agent's database.                                     *)
(*                                                                         *)
(* The tasks of the global queue, of ReqMgr2 and of an agent work on what  *)
(* they have read a while ago: each such list is a variable here.          *)
(***************************************************************************)
EXTENDS CouchDocs, RequestStatus, FiniteSets

CONSTANTS
  Elements,       \* the units of work there is input data for in the end
  FirstElements,  \* those found when the request is first split
  AllowCancel,    \* what the operator may ask for: a subset of CancelStates
  SplitFails,     \* may the splitting fail for good, in the global queue or in an agent?
  Dying,          \* the tasks that may die in the middle, any number of times
  MaxEdits        \* bound: how long a revision may be that is still cancelled again

ASSUME ElementsAssumption == FirstElements \subseteq Elements
ASSUME QueueSwitchesAssumption ==
  /\ AllowCancel \subseteq CancelStates /\ SplitFails \in BOOLEAN
  /\ Dying \subseteq {"queueing", "cancelling", "asking", "pulling", "splitting", "feeding", "killing"}
ASSUME QueueBoundAssumption == MaxEdits \in Nat

VARIABLES
  status,         \* RequestStatus in ReqMgr2
  parent,         \* the request's own element, in the inbox of the global queue
  gq,             \* the elements in the global queue: documents
  inbox,          \* the elements in the inbox of each agent: documents
  local,          \* the element an agent made of it: its status, "none" without one
  wmbs,           \* its work in the agent: "none", "open", "over"
  injected,       \* per agent: wmbs_workflow.injected
  queueing,       \* ReqMgrInteractionTask: where it is, what it still inserts
  cancelling,     \* CleanUpTask: the elements it will cancel
  shown,          \* StatusChangeTasks: the request status its view of the elements shows
  asked,          \* the operator's PUT: what it asks for, and then how it ended
  pulled,         \* per agent, WorkPoller: the revisions it read
  splitting,      \* per agent, WorkPoller: the inbox elements it has split
  feeding,        \* per agent, WMBSFileFeeder: the elements it read
  killing         \* per agent, Cleaner: has it killed, and not yet cancelled in the inbox?

documents == <<gq, inbox>>
agentWork == <<local, wmbs, injected>>
tasks     == <<queueing, cancelling, shown, asked>>
pollers   == <<pulled, splitting, feeding, killing>>
queueVars == <<status, parent, documents, agentWork, tasks, pollers>>

(* Mutation: the status spelt as None is printed.                          *)
NoneParent == [status |-> "None", open |-> FALSE, processed |-> {}]

NoParent == [status |-> "none", open |-> FALSE, processed |-> {}]

Queued           == {e \in Elements : Exists(gq[e])}
Held(a)          == {e \in Elements : Exists(inbox[a][e])}
ElementStatuses  == {Status(gq[e]) : e \in Queued}

WithinBound == \A e \in Queued : Len(Winner(gq[e]).path) < MaxEdits

NotQueueing   == [on |-> FALSE, left |-> {}]
NotCancelling == [on |-> FALSE, direct |-> {}, ask |-> {}]

(* What convertWQElementsStatusToWFStatus may answer.                      *)
Results == {"None", "acquired", "running-open", "running-closed", "completed", "failed", "canceled"}

QueueTypeOK ==
  /\ status \in RequestStates
  /\ parent \in [status : Statuses \cup {"none"}, open : BOOLEAN, processed : SUBSET Elements]
  /\ gq \in [Elements -> SUBSET Revisions]
  /\ inbox \in [Agents -> [Elements -> SUBSET Revisions]]
  /\ local \in [Agents -> [Elements -> {"none", "Available", "Running", "Done"}]]
  /\ wmbs \in [Agents -> [Elements -> {"none", "open", "over"}]]
  /\ injected \in [Agents -> BOOLEAN]
  /\ queueing \in [on : BOOLEAN, left : SUBSET Elements]
  /\ cancelling \in [on : BOOLEAN, direct : SUBSET Elements, ask : SUBSET Elements]
  /\ shown \in Results
  /\ asked \in CancelStates \cup {"nothing", "answered", "failed"}
  /\ pulled \in [Agents -> SUBSET (Elements \X Revisions)]
  /\ splitting \in [Agents -> SUBSET Elements]
  /\ feeding \in [Agents -> SUBSET Elements]
  /\ killing \in [Agents -> BOOLEAN]
=============================================================================
