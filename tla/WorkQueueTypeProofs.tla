------------------------- MODULE WorkQueueTypeProofs --------------------------
(***************************************************************************)
(* Type correctness of the work queues, for any agents, elements, tasks    *)
(* that die and cancellations.                                             *)
(***************************************************************************)
EXTENDS WorkQueueProperties, TLAPS

LEMMA StatusNames ==
  Statuses = {"Available", "Negotiating", "Acquired", "Running", "Done", "Failed",
              "CancelRequested", "Canceled"}
  BY DEF Statuses, Rank

LEMMA Ranks ==
  /\ Rank["Available"] = 0 /\ Rank["Negotiating"] = 1 /\ Rank["Acquired"] = 2
  /\ Rank["Running"] = 3 /\ Rank["Done"] = 4 /\ Rank["Failed"] = 5
  /\ Rank["CancelRequested"] = 6 /\ Rank["Canceled"] = 7
  BY DEF Rank

(* Of any statuses one is the most advanced.                               *)
LEMMA MergedIsOne ==
  ASSUME NEW S \in SUBSET Statuses, S # {}
  PROVE  Merged(S) \in S
<1> DEFINE Top(s) == s \in S /\ \A t \in S : Rank[t] <= Rank[s]
<1>1. \E s \in S : Top(s)
  <2>1. CASE "Canceled" \in S
    <3>1. Top("Canceled") BY <2>1, StatusNames, Ranks
    <3> QED BY <3>1
  <2>2. CASE "Canceled" \notin S /\ "CancelRequested" \in S
    <3>1. Top("CancelRequested") BY <2>2, StatusNames, Ranks
    <3> QED BY <3>1
  <2>3. CASE S \cap {"Canceled", "CancelRequested"} = {} /\ "Failed" \in S
    <3>1. Top("Failed") BY <2>3, StatusNames, Ranks
    <3> QED BY <3>1
  <2>4. CASE S \cap {"Canceled", "CancelRequested", "Failed"} = {} /\ "Done" \in S
    <3>1. Top("Done") BY <2>4, StatusNames, Ranks
    <3> QED BY <3>1
  <2>5. CASE S \subseteq {"Available", "Negotiating", "Acquired", "Running"} /\ "Running" \in S
    <3>1. Top("Running") BY <2>5, StatusNames, Ranks
    <3> QED BY <3>1
  <2>6. CASE S \subseteq {"Available", "Negotiating", "Acquired"} /\ "Acquired" \in S
    <3>1. Top("Acquired") BY <2>6, StatusNames, Ranks
    <3> QED BY <3>1
  <2>7. CASE S \subseteq {"Available", "Negotiating"} /\ "Negotiating" \in S
    <3>1. Top("Negotiating") BY <2>7, StatusNames, Ranks
    <3> QED BY <3>1
  <2>8. CASE S = {"Available"}
    <3>1. Top("Available") BY <2>8, StatusNames, Ranks
    <3> QED BY <3>1
  <2> QED BY <2>1, <2>2, <2>3, <2>4, <2>5, <2>6, <2>7, <2>8, StatusNames
<1> QED BY <1>1 DEF Merged

Kept == Statuses \cup {"deleted"}

Owning == Agents \cup {NoAgent}

LEMMA EditedType ==
  ASSUME NEW l \in Revisions, NEW at \in Databases, NEW s \in Kept, NEW c \in Owning
  PROVE  Edited(l, at, s, c) \in Revisions
  BY DEF Edited, Revision, Revisions, Kept, Owning

LEMMA SaveType ==
  ASSUME NEW doc \in SUBSET Revisions, NEW leaf, NEW at \in Databases, NEW s \in Kept,
         NEW c, leaf \in doc => c \in Owning
  PROVE  Save(doc, leaf, at, s, c) \in SUBSET Revisions
  BY EditedType DEF Save

LEMMA SetStatusType ==
  ASSUME NEW doc \in SUBSET Revisions, NEW at \in Databases, NEW s \in Kept
  PROVE  SetStatus(doc, at, s) \in SUBSET Revisions
<1>1. Winner(doc) \in doc => Child(doc) \in Owning
  BY DEF Child, Revisions, Owning
<1> QED BY <1>1, SaveType DEF SetStatus

LEMMA InsertType ==
  ASSUME NEW doc \in SUBSET Revisions, NEW s \in Kept
  PROVE  Insert(doc, Global, s) \in SUBSET Revisions
<1>1. Global \in Databases /\ NoAgent \in Owning
  BY DEF Databases, Owning
<1>2. Revision(<<Global>>, s, NoAgent) \in Revisions
  BY <1>1 DEF Revision, Revisions, Kept, Owning
<1> QED BY <1>1, <1>2, SaveType DEF Insert

LEMMA ReceivedType ==
  ASSUME NEW doc \in SUBSET Revisions, NEW source \in SUBSET Revisions, NEW a
  PROVE  Received(doc, source, a) \in SUBSET Revisions
  BY DEF Received, Live

LEMMA ResolvedType ==
  ASSUME NEW doc \in SUBSET Revisions, NEW l \in Live(doc)
  PROVE  Resolved(doc, l) \in Kept
<1>1. {m.status : m \in Live(doc)} \in SUBSET Statuses /\ {m.status : m \in Live(doc)} # {}
  BY DEF Live, Revisions
<1> QED BY <1>1, MergedIsOne DEF Resolved, Kept

LEMMA FixedType ==
  ASSUME NEW doc \in SUBSET Revisions, NEW a \in Agents
  PROVE  Fixed(doc, a) \in SUBSET Revisions
<1>1. ASSUME NEW l \in Live(doc) PROVE Edited(l, a, Resolved(doc, l), l.child) \in Revisions
  <2>1. l \in Revisions /\ l.child \in Owning /\ a \in Databases
    BY DEF Live, Revisions, Owning, Databases
  <2> QED BY <2>1, ResolvedType, EditedType
<1> QED BY <1>1 DEF Fixed

(* The documents of the global queue with some of them set to a status.    *)
LEMMA GlobalDocsType ==
  ASSUME QueueTypeOK, NEW e \in Elements, NEW s \in Kept
  PROVE  /\ gq[e] \in SUBSET Revisions /\ SetStatus(gq[e], Global, s) \in SUBSET Revisions
         /\ Insert(gq[e], Global, "Available") \in SUBSET Revisions
<1>1. gq[e] \in SUBSET Revisions /\ Global \in Databases /\ "Available" \in Kept
  BY StatusNames DEF QueueTypeOK, Databases, Kept
<1> QED BY <1>1, SetStatusType, InsertType

LEMMA InboxDocsType ==
  ASSUME QueueTypeOK, NEW a \in Agents, NEW e \in Elements, NEW s \in Kept
  PROVE  /\ inbox[a][e] \in SUBSET Revisions
         /\ SetStatus(inbox[a][e], a, s) \in SUBSET Revisions
         /\ Fixes(a)[e] \in SUBSET Revisions
         /\ SetStatus(Fixes(a)[e], a, s) \in SUBSET Revisions
<1>1. inbox[a][e] \in SUBSET Revisions /\ a \in Databases
  BY DEF QueueTypeOK, Databases
<1>2. Fixes(a)[e] = Fixed(inbox[a][e], a)
  BY DEF Fixes
<1> QED BY <1>1, <1>2, SetStatusType, FixedType

(* Each task of the global queue.                                          *)
LEMMA GlobalTypes ==
  ASSUME QueueTypeOK, GlobalNext
  PROVE  QueueTypeOK'
<1> USE ElementsAssumption
<1>1. CASE QueueWork
  BY <1>1, StatusNames DEF QueueTypeOK, QueueWork, documents, agentWork, pollers
<1>2. CASE QueueWorkFails
  BY <1>2, StatusNames
  DEF QueueTypeOK, QueueWorkFails, NotQueueing, RequestStates, documents, agentWork, pollers
<1>3. ASSUME NEW e \in Elements, InsertElement(e) PROVE QueueTypeOK'
  <2>1. gq' \in [Elements -> SUBSET Revisions]
    BY <1>3, GlobalDocsType, StatusNames DEF QueueTypeOK, InsertElement, Kept
  <2> QED BY <1>3, <2>1 DEF QueueTypeOK, InsertElement, agentWork, pollers
<1>4. CASE QueueingDone
  BY <1>4, StatusNames
  DEF QueueTypeOK, QueueingDone, NotQueueing, documents, agentWork, pollers
<1>5. ASSUME NEW e \in Elements, AddWork(e) PROVE QueueTypeOK'
  <2>1. gq' \in [Elements -> SUBSET Revisions]
    BY <1>5, GlobalDocsType, StatusNames DEF QueueTypeOK, AddWork, Kept
  <2> QED BY <1>5, <2>1 DEF QueueTypeOK, AddWork, agentWork, tasks, pollers
<1>6. CASE CloseWork
  BY <1>6 DEF QueueTypeOK, CloseWork, documents, agentWork, tasks, pollers
<1>7. CASE DeleteCompletedGlobal
  <2>1. gq' \in [Elements -> SUBSET Revisions]
    BY <1>7, GlobalDocsType DEF QueueTypeOK, DeleteCompletedGlobal, Delete, Kept
  <2> QED BY <1>7, <2>1 DEF QueueTypeOK, DeleteCompletedGlobal, NoParent, agentWork, tasks, pollers
<1>8. CASE SyncGlobal
  BY <1>8 DEF QueueTypeOK, SyncGlobal, UpdatedWith, documents, agentWork, tasks, pollers
<1>9. CASE ListToCancel
  BY <1>9 DEF QueueTypeOK, ListToCancel, Direct, ToAsk, Queued, documents, agentWork, pollers
<1>10. CASE CancelListed
  <2>1. ASSUME NEW e \in Elements, NEW es, NEW s \in Kept
        PROVE  SetElements(es, s)[e] \in SUBSET Revisions
    BY <2>1, GlobalDocsType DEF SetElements
  <2>2. gq' \in [Elements -> SUBSET Revisions]
    BY <1>10, <2>1, StatusNames DEF CancelListed, Kept
  <2>3. parent' \in [status : Statuses \cup {"none"}, open : BOOLEAN, processed : SUBSET Elements]
    BY <1>10, StatusNames DEF QueueTypeOK, CancelListed
  <2> QED
    BY <1>10, <2>2, <2>3 DEF QueueTypeOK, CancelListed, NotCancelling, agentWork, pollers
<1>11. CASE GlobalFault
  <2>1. /\ queueing' = queueing \/ queueing' = NotQueueing
        /\ cancelling' = cancelling \/ cancelling' = NotCancelling
    BY <1>11 DEF GlobalFault
  <2>2. UNCHANGED <<status, parent, gq, inbox, agentWork, shown, asked, pollers>>
    BY <1>11 DEF GlobalFault, documents
  <2>3. queueing' \in [on : BOOLEAN, left : SUBSET Elements]
    <3>1. NotQueueing \in [on : BOOLEAN, left : SUBSET Elements]
      BY DEF NotQueueing
    <3> QED BY <2>1, <3>1 DEF QueueTypeOK
  <2>4. cancelling' \in [on : BOOLEAN, direct : SUBSET Elements, ask : SUBSET Elements]
    <3>1. NotCancelling \in [on : BOOLEAN, direct : SUBSET Elements, ask : SUBSET Elements]
      BY DEF NotCancelling
    <3> QED BY <2>1, <3>1 DEF QueueTypeOK
  <2> QED BY <2>2, <2>3, <2>4 DEF QueueTypeOK, agentWork, pollers
<1> QED
  BY <1>1, <1>2, <1>3, <1>4, <1>5, <1>6, <1>7, <1>8, <1>9, <1>10, <1>11 DEF GlobalNext

LEMMA ViewType == RequestStatusOf(ElementStatuses) \in Results
  BY DEF RequestStatusOf, Results

LEMMA ForwardType == Forward \subseteq RequestStates
  BY DEF Forward, AutoTransition, RequestStates, Range

LEMMA CancelWorkflowType ==
  ASSUME QueueTypeOK, CancelWorkflow
  PROVE  /\ parent' \in [status : Statuses \cup {"none"}, open : BOOLEAN, processed : SUBSET Elements]
         /\ gq' \in [Elements -> SUBSET Revisions]
<1>1. gq' \in [Elements -> SUBSET Revisions]
  BY GlobalDocsType, StatusNames DEF CancelWorkflow, Kept
<1> QED BY <1>1 DEF QueueTypeOK, CancelWorkflow

(* ReqMgr2 and the operator.                                               *)
LEMMA ManagerTypes ==
  ASSUME QueueTypeOK, ManagerNext
  PROVE  QueueTypeOK'
<1>1. CASE UpdateView
  BY <1>1, ViewType DEF QueueTypeOK, UpdateView, documents, agentWork, pollers
<1>2. CASE MoveForward
  BY <1>2, ForwardType DEF QueueTypeOK, MoveForward, documents, agentWork, tasks, pollers
<1>3. CASE MoveCancelled
  BY <1>3
  DEF QueueTypeOK, MoveCancelled, CancelAutoTransition, RequestStates,
      documents, agentWork, tasks, pollers
<1>4. CASE CancelAgain
  BY <1>4, CancelWorkflowType DEF QueueTypeOK, CancelAgain, agentWork, tasks, pollers
<1>5. ASSUME NEW what \in CancelStates, Ask(what) PROVE QueueTypeOK'
  BY <1>5, CancelWorkflowType DEF QueueTypeOK, Ask, agentWork, pollers
<1>6. CASE WriteStatus
  BY <1>6 DEF QueueTypeOK, WriteStatus, CancelStates, RequestStates, documents, agentWork, pollers
<1>7. CASE ManagerFault
  BY <1>7 DEF QueueTypeOK, ManagerFault, documents, agentWork, pollers
<1> QED BY <1>1, <1>2, <1>3, <1>4, <1>5, <1>6, <1>7 DEF ManagerNext

(* An agent's pollers.                                                     *)
LEMMA PullTypes ==
  ASSUME QueueTypeOK, NEW a \in Agents, PullRead(a) \/ PullSave(a)
  PROVE  QueueTypeOK'
<1>1. CASE PullRead(a)
  <2>1. Takeable \subseteq Elements \X Revisions
    BY DEF QueueTypeOK, Takeable
  <2>2. pulled' \in [Agents -> SUBSET (Elements \X Revisions)]
    BY <1>1, <2>1 DEF QueueTypeOK, PullRead
  <2> QED BY <1>1, <2>2 DEF QueueTypeOK, PullRead, globalSide, agentWork
<1>2. CASE PullSave(a)
  <2>1. ASSUME NEW e \in Elements, NEW leaf
        PROVE  Save(gq[e], leaf, Global, "Negotiating", a) \in SUBSET Revisions
    <3>1. gq[e] \in SUBSET Revisions /\ Global \in Databases /\ a \in Owning
          /\ "Negotiating" \in Kept
      BY StatusNames DEF QueueTypeOK, Databases, Owning, Kept
    <3> QED BY <3>1, SaveType
  <2>2. gq' \in [Elements -> SUBSET Revisions]
    BY <1>2, <2>1, GlobalDocsType DEF PullSave, QueueTypeOK
  <2> QED BY <1>2, <2>2 DEF QueueTypeOK, PullSave, agentWork, tasks
<1> QED BY <1>1, <1>2

LEMMA SyncedType ==
  ASSUME QueueTypeOK, NEW a \in Agents, NEW e \in Elements
  PROVE  Synced(a, e) \in SUBSET Revisions
<1> DEFINE doc == Fixes(a)[e]
           result == ResultStatus({local[a][e]} \ {"none"}, Status(doc))
           new == UpdatedWith(Status(doc), result)
<1>1. doc \in SUBSET Revisions
  BY InboxDocsType, StatusNames DEF Kept
<1>2. CASE ~Exists(doc) \/ result = "Negotiating" \/ new = Status(doc)
  BY <1>1, <1>2 DEF Synced
<1>3. CASE ~(~Exists(doc) \/ result = "Negotiating" \/ new = Status(doc))
  <2>1. new \in Kept
    BY <1>3 DEF UpdatedWith, Kept
  <2>2. SetStatus(Fixes(a)[e], a, new) \in SUBSET Revisions
    BY <2>1, InboxDocsType
  <2> QED BY <1>3, <2>2 DEF Synced
<1> QED BY <1>2, <1>3

LEMMA LocalTypes ==
  ASSUME QueueTypeOK, NEW a \in Agents, LocalNext(a)
  PROVE  QueueTypeOK'
<1> USE DEF globalSide, tasks, pollers, documents, agentWork
<1> DEFINE InboxType == inbox' \in [Agents -> [Elements -> SUBSET Revisions]]
<1>0. Fixes(a) \in [Elements -> SUBSET Revisions]
  BY InboxDocsType, StatusNames DEF Fixes, Kept
<1>1. CASE PullRead(a) \/ PullSave(a)
  BY <1>1, PullTypes
<1>2. ASSUME NEW e \in Elements, Split(a, e) PROVE QueueTypeOK'
  <2>1. InboxType BY <1>0, <1>2 DEF QueueTypeOK, Split
  <2> QED BY <1>2, <2>1 DEF QueueTypeOK, Split
<1>3. ASSUME NEW e \in Elements, SplitFailed(a, e) PROVE QueueTypeOK'
  <2>1. SetStatus(Fixes(a)[e], a, "Failed") \in SUBSET Revisions
    BY InboxDocsType, StatusNames DEF Kept
  <2>2. InboxType BY <1>0, <1>3, <2>1 DEF QueueTypeOK, SplitFailed
  <2> QED BY <1>3, <2>2 DEF QueueTypeOK, SplitFailed
<1>4. ASSUME NEW e \in Elements, Acquire(a, e) PROVE QueueTypeOK'
  <2>1. SetStatus(inbox[a][e], a, "Acquired") \in SUBSET Revisions
    BY InboxDocsType, StatusNames DEF Kept
  <2>2. InboxType BY <1>4, <2>1 DEF QueueTypeOK, Acquire
  <2> QED BY <1>4, <2>2 DEF QueueTypeOK, Acquire
<1>5. CASE FeedRead(a)
  BY <1>5 DEF QueueTypeOK, FeedRead
<1>6. ASSUME NEW e \in Elements, Inject(a, e) PROVE QueueTypeOK'
  BY <1>6 DEF QueueTypeOK, Inject
<1>7. ASSUME NEW e \in Elements, MarkRunning(a, e) PROVE QueueTypeOK'
  BY <1>7 DEF QueueTypeOK, MarkRunning
<1>8. CASE MarkInjected(a)
  BY <1>8 DEF QueueTypeOK, MarkInjected
<1>9. ASSUME NEW e \in Elements, Finish(a, e) PROVE QueueTypeOK'
  BY <1>9 DEF QueueTypeOK, Finish
<1>10. CASE ArchiveDone(a)
  BY <1>10 DEF QueueTypeOK, ArchiveDone
<1>11. CASE SyncResults(a)
  <2>1. InboxType BY <1>11, SyncedType DEF QueueTypeOK, SyncResults
  <2> QED BY <1>11, <2>1 DEF QueueTypeOK, SyncResults
<1>12. Killed(a) \in [Elements -> {"none", "open", "over"}]
  BY DEF QueueTypeOK, Killed
<1>13. CASE KillWMBS(a)
  <2>1. InboxType BY <1>0, <1>13 DEF QueueTypeOK, KillWMBS
  <2> QED BY <1>12, <1>13, <2>1 DEF QueueTypeOK, KillWMBS
<1>14. CASE CancelInbox(a)
  <2>1. InboxType BY <1>14, InboxDocsType, StatusNames DEF QueueTypeOK, CancelInbox, Kept
  <2> QED BY <1>14, <2>1 DEF QueueTypeOK, CancelInbox
<1>15. CASE KillForbidden(a)
  BY <1>12, <1>15 DEF QueueTypeOK, KillForbidden
<1>16. CASE DeleteCompletedLocal(a)
  <2>1. InboxType BY <1>16, InboxDocsType DEF QueueTypeOK, DeleteCompletedLocal, Delete, Kept
  <2> QED BY <1>16, <2>1 DEF QueueTypeOK, DeleteCompletedLocal
<1>17. CASE AgentFault(a)
  <2>1. /\ pulled' \in [Agents -> SUBSET (Elements \X Revisions)]
        /\ splitting' \in [Agents -> SUBSET Elements] /\ feeding' \in [Agents -> SUBSET Elements]
        /\ killing' \in [Agents -> BOOLEAN]
    BY <1>17 DEF QueueTypeOK, AgentFault
  <2> QED BY <1>17, <2>1 DEF QueueTypeOK, AgentFault
<1> QED
  BY <1>1, <1>2, <1>3, <1>4, <1>5, <1>6, <1>7, <1>8, <1>9, <1>10, <1>11, <1>13, <1>14, <1>15,
     <1>16, <1>17 DEF LocalNext

LEMMA ReplicationTypes ==
  ASSUME QueueTypeOK, NEW a \in Agents, NEW e \in Elements, ReplicateDown(a, e) \/ ReplicateUp(a, e)
  PROVE  QueueTypeOK'
<1>1. gq[e] \in SUBSET Revisions /\ inbox[a][e] \in SUBSET Revisions
  BY DEF QueueTypeOK
<1>2. CASE ReplicateDown(a, e)
  <2>1. inbox' \in [Agents -> [Elements -> SUBSET Revisions]]
    BY <1>1, <1>2, ReceivedType DEF QueueTypeOK, ReplicateDown
  <2> QED BY <1>2, <2>1 DEF QueueTypeOK, ReplicateDown, globalSide, agentWork, pollers
<1>3. CASE ReplicateUp(a, e)
  <2>1. gq' \in [Elements -> SUBSET Revisions]
    BY <1>1, <1>3, ReceivedType DEF QueueTypeOK, ReplicateUp
  <2> QED BY <1>3, <2>1 DEF QueueTypeOK, ReplicateUp, agentWork, tasks, pollers
<1> QED BY <1>2, <1>3

(* The state of the queues is what QueueTypeOK says, at all times.         *)
THEOREM QueueTypeCorrect == Spec => []QueueTypeOK
<1>1. Init => QueueTypeOK
  BY DEF Init, QueueTypeOK, RequestStates, NoParent, Results, NotQueueing, NotCancelling
<1>2. QueueTypeOK /\ [Next]_queueVars => QueueTypeOK'
  <2> SUFFICES ASSUME QueueTypeOK, [Next]_queueVars PROVE QueueTypeOK'
    OBVIOUS
  <2>1. CASE Next
    BY <2>1, GlobalTypes, ManagerTypes, LocalTypes, ReplicationTypes DEF Next
  <2>2. CASE UNCHANGED queueVars
    BY <2>2 DEF QueueTypeOK, queueVars, documents, agentWork, tasks, pollers
  <2> QED BY <2>1, <2>2
<1> QED BY <1>1, <1>2, PTL DEF Spec
=============================================================================
