---------------------------- MODULE WorkQueueProofs -----------------------------
(***************************************************************************)
(* The work queues implement the assignment of elements to agents, and     *)
(* what is Done is over, whatever is lost, merged, cancelled or deleted.   *)
(*                                                                         *)
(* The invariant says of each element either that no agent has it, and     *)
(* that the global queue has one revision of it, or which agent has it:    *)
(* every revision anywhere then names this agent, and none is Available,   *)
(* so the revisions other agents have read to take it are out of date.     *)
(* No element is inserted again over a deleted one, which would offer it a *)
(* second time.                                                            *)
(*                                                                         *)
(* The second half is about a request that nobody cancels: it is completed *)
(* only when all its work is over, and what an agent was told is injected  *)
(* has all begun.                                                          *)
(***************************************************************************)
EXTENDS WorkQueueTypeProofs

(* The revisions of a document all name the agent (or none) that has it.   *)
Fine(doc, child, over) ==
  \A l \in doc : /\ l.child = child
                 /\ l.status = "Available" => child = NoAgent
                 /\ l.status = "Done" => over

Single(doc) == \A l, m \in doc : l = m

Untouched(a, e) ==
  inbox[a][e] = {} /\ local[a][e] = "none" /\ wmbs[a][e] = "none" /\ e \notin feeding[a]

Free(e) ==
  /\ Fine(gq[e], NoAgent, FALSE) /\ Single(gq[e])
  /\ \A a \in Agents : Untouched(a, e)

TakenBy(x, e) ==
  /\ gq[e] # {} /\ Fine(gq[e], x, wmbs[x][e] = "over")
  /\ Fine(inbox[x][e], x, wmbs[x][e] = "over")
  /\ local[x][e] = "Running" => wmbs[x][e] # "none"
  /\ local[x][e] = "Done" => wmbs[x][e] = "over"
  /\ \A a \in Agents \ {x} : Untouched(a, e)

OneHolder == \A e \in Elements : Free(e) \/ \E x \in Agents : TakenBy(x, e)

(* What a WorkPoller read was free when it read it.                        *)
ReadFree == \A a \in Agents : \A p \in pulled[a] : p[2].child = NoAgent

(* While elements may be inserted none has been deleted.                   *)
NoneDeleted ==
  /\ parent.open \/ status = "staged" =>
       \A e \in Elements : \A l \in gq[e] : l.status # "deleted"
  /\ queueing.on => \A e \in queueing.left : gq[e] = {}

Holding == OneHolder /\ ReadFree /\ NoneDeleted

(***************************************************************************)
(* What is done with a document keeps it fine.                             *)
(***************************************************************************)
LEMMA SaveFine ==
  ASSUME NEW doc, NEW leaf, NEW at, NEW s, NEW c, NEW child, NEW over,
         Fine(doc, child, over), leaf \in doc => c = child,
         s # "Available", s = "Done" => over
  PROVE  LET new == Save(doc, leaf, at, s, c)
         IN  /\ Fine(new, child, over)
             /\ Single(doc) => Single(new)
             /\ new = {} <=> doc = {}
<1>1. CASE leaf \notin doc
  BY <1>1 DEF Save
<1>2. CASE leaf \in doc
  <2>1. /\ Edited(leaf, at, s, c).child = child /\ Edited(leaf, at, s, c).status = s
    BY <1>2 DEF Edited, Revision
  <2>2. Save(doc, leaf, at, s, c) = (doc \ {leaf}) \cup {Edited(leaf, at, s, c)}
    BY <1>2 DEF Save
  <2>3. Single(doc) => doc \ {leaf} = {}
    BY <1>2 DEF Single
  <2>4. Single(doc) => Single(Save(doc, leaf, at, s, c))
    BY <2>2, <2>3 DEF Single
  <2> QED BY <1>2, <2>1, <2>2, <2>4 DEF Fine
<1> QED BY <1>1, <1>2

LEMMA SetStatusFine ==
  ASSUME NEW doc, NEW at, NEW s, NEW child, NEW over, Fine(doc, child, over),
         s # "Available", s = "Done" => over
  PROVE  LET new == SetStatus(doc, at, s)
         IN  /\ Fine(new, child, over)
             /\ Single(doc) => Single(new)
             /\ new = {} <=> doc = {}
<1>1. Winner(doc) \in doc => Child(doc) = child
  BY DEF Child, Fine
<1> QED BY <1>1, SaveFine DEF SetStatus

LEMMA InsertFine ==
  ASSUME NEW doc, doc = {}
  PROVE  /\ Fine(Insert(doc, Global, "Available"), NoAgent, FALSE)
         /\ Single(Insert(doc, Global, "Available"))
         /\ \A l \in Insert(doc, Global, "Available") : l.status # "deleted"
  BY DEF Insert, Revision, Fine, Single

LEMMA ReceivedRevisions ==
  ASSUME NEW doc, NEW source, NEW a
  PROVE  LET new == Received(doc, source, a)
         IN  /\ new \subseteq doc \cup {l \in Live(source) : l.child = a}
             /\ doc # {} => new # {}
             /\ (\A l \in source : l.child # a) => new = doc
<1> DEFINE come == {l \in Live(source) : l.child = a /\ \A m \in doc : ~IsPrefix(l.path, m.path)}
           left == {m \in doc : \A l \in come : ~IsPrefix(m.path, l.path)}
<1>1. Received(doc, source, a) = left \cup come
  BY DEF Received
<1>2. come \subseteq {l \in Live(source) : l.child = a} /\ left \subseteq doc
  OBVIOUS
<1>3. come = {} => left = doc
  OBVIOUS
<1>4. (\A l \in source : l.child # a) => come = {}
  BY <1>2 DEF Live
<1> HIDE DEF come, left
<1> QED BY <1>1, <1>2, <1>3, <1>4

LEMMA ReceivedFine ==
  ASSUME NEW doc, NEW source, NEW a, NEW child, NEW over,
         Fine(doc, child, over), Fine(source, child, over)
  PROVE  Fine(Received(doc, source, a), child, over)
<1>1. Received(doc, source, a) \subseteq doc \cup source
  BY ReceivedRevisions DEF Live
<1> QED BY <1>1 DEF Fine

LEMMA FixedFine ==
  ASSUME NEW doc \in SUBSET Revisions, NEW at, NEW child, NEW over, Fine(doc, child, over),
         child # NoAgent \/ Single(doc)
  PROVE  /\ Fine(Fixed(doc, at), child, over)
         /\ doc = {} => Fixed(doc, at) = {}
<1> DEFINE live == Live(doc)
           new == {Edited(l, at, Resolved(doc, l), l.child) : l \in live}
<1>0. live \subseteq doc BY DEF Live
<1>1. CASE \A l, m \in live : l = m
  BY <1>1 DEF Fixed
<1>2. CASE ~\A l, m \in live : l = m
  <2>1. child # NoAgent BY <1>0, <1>2 DEF Single
  <2>2. ASSUME NEW l \in live
        PROVE  LET f == Edited(l, at, Resolved(doc, l), l.child)
               IN  f.child = child /\ f.status # "Available" /\ (f.status = "Done" => over)
    <3>1. {m.status : m \in live} \in SUBSET Statuses /\ {m.status : m \in live} # {}
      BY <2>2 DEF Live, Revisions
    <3>2. Merged({m.status : m \in live}) \in {m.status : m \in live}
      BY <3>1, MergedIsOne
    <3>3. Resolved(doc, l) # "Available" /\ (Resolved(doc, l) = "Done" => over)
      BY <1>0, <2>1, <3>2 DEF Fine, Resolved
    <3>4. l.child = child BY <1>0, <2>2 DEF Fine
    <3> QED BY <3>3, <3>4 DEF Edited, Revision
  <2>3. Fine((doc \ live) \cup new, child, over)
    BY <2>2 DEF Fine
  <2>4. doc # {} BY <1>0, <1>2
  <2> QED BY <2>3, <2>4 DEF Fixed
<1> QED BY <1>1, <1>2

(***************************************************************************)
(* An element stays with who has it, in every step but a WorkPoller's save. *)
(***************************************************************************)
Stays(e) == (Free(e) => Free(e)') /\ \A x \in Agents : TakenBy(x, e) => TakenBy(x, e)'

(* A step that edits the global queue's document.                          *)
LEMMA GlobalEdit ==
  ASSUME UNCHANGED <<inbox, local, wmbs, feeding>>, NEW e \in Elements,
         gq'[e] # gq[e] =>
           \E s : s \notin {"Available", "Done"} /\ gq'[e] = SetStatus(gq[e], Global, s)
  PROVE  Stays(e)
<1>1. ASSUME NEW child, NEW over, Fine(gq[e], child, over)
      PROVE  /\ Fine(gq'[e], child, over)
             /\ Single(gq[e]) => Single(gq'[e])
             /\ gq'[e] = {} <=> gq[e] = {}
  BY <1>1, SetStatusFine
<1>2. \A a \in Agents : Untouched(a, e) => Untouched(a, e)'
  BY DEF Untouched
<1>3. Free(e) => Free(e)'
  BY <1>1, <1>2 DEF Free
<1>4. ASSUME NEW x \in Agents, TakenBy(x, e) PROVE TakenBy(x, e)'
  <2>1. gq'[e] # {} /\ Fine(gq'[e], x, wmbs[x][e] = "over")
    BY <1>1, <1>4 DEF TakenBy
  <2> QED BY <1>2, <1>4, <2>1 DEF TakenBy
<1> QED BY <1>3, <1>4 DEF Stays

(* A step of one agent.                                                    *)
LEMMA AgentEdit ==
  ASSUME NEW a \in Agents, NEW e \in Elements, gq'[e] = gq[e],
         \A b \in Agents \ {a} :
           /\ inbox'[b][e] = inbox[b][e] /\ local'[b][e] = local[b][e]
           /\ wmbs'[b][e] = wmbs[b][e]
           /\ e \in feeding'[b] => e \in feeding[b],
         Untouched(a, e) => Untouched(a, e)',
         TakenBy(a, e) =>
           /\ Fine(inbox'[a][e], a, wmbs'[a][e] = "over")
           /\ local'[a][e] = "Running" => wmbs'[a][e] # "none"
           /\ local'[a][e] = "Done" => wmbs'[a][e] = "over"
           /\ wmbs[a][e] = "over" => wmbs'[a][e] = "over"
  PROVE  Stays(e)
<1>1. \A b \in Agents : Untouched(b, e) => Untouched(b, e)'
  BY DEF Untouched
<1>2. Free(e) => Free(e)'
  BY <1>1 DEF Free
<1>3. ASSUME TakenBy(a, e) PROVE TakenBy(a, e)'
  <2>1. Fine(gq[e], a, wmbs[a][e] = "over") => Fine(gq'[e], a, wmbs'[a][e] = "over")
    BY <1>3 DEF Fine
  <2> QED BY <1>1, <1>3, <2>1 DEF TakenBy
<1>4. ASSUME NEW x \in Agents \ {a}, TakenBy(x, e) PROVE TakenBy(x, e)'
  BY <1>1, <1>4 DEF TakenBy
<1> QED BY <1>2, <1>3, <1>4 DEF Stays

LEMMA InsertStays ==
  ASSUME UNCHANGED <<inbox, local, wmbs, feeding>>, NEW e \in Elements, gq[e] = {},
         gq'[e] = Insert(gq[e], Global, "Available")
  PROVE  Stays(e)
<1>1. Fine(gq'[e], NoAgent, FALSE) /\ Single(gq'[e])
  BY InsertFine
<1>2. \A a \in Agents : Untouched(a, e) => Untouched(a, e)'
  BY DEF Untouched
<1>3. \A x \in Agents : ~TakenBy(x, e)
  BY DEF TakenBy
<1> QED BY <1>1, <1>2, <1>3 DEF Stays, Free

LEMMA GlobalStays ==
  ASSUME QueueTypeOK, Holding, GlobalNext, NEW e \in Elements
  PROVE  Stays(e)
<1> USE DEF documents, agentWork, pollers
<1>1. CASE \E d \in Elements : InsertElement(d)
  <2> PICK d \in Elements : InsertElement(d) BY <1>1
  <2>1. UNCHANGED <<inbox, local, wmbs, feeding>> BY DEF InsertElement
  <2>2. gq[d] = {} BY DEF InsertElement, Holding, NoneDeleted
  <2>3. e # d => gq'[e] = gq[e] BY DEF InsertElement, QueueTypeOK
  <2>4. gq'[d] = Insert(gq[d], Global, "Available")
    BY <2>2 DEF InsertElement, QueueTypeOK, Exists, Live
  <2> QED BY <2>1, <2>2, <2>3, <2>4, GlobalEdit, InsertStays
<1>2. CASE \E d \in Elements : AddWork(d)
  <2> PICK d \in Elements : AddWork(d) BY <1>2
  <2>1. UNCHANGED <<inbox, local, wmbs, feeding>> BY DEF AddWork
  <2>2. gq[d] = {} BY DEF AddWork, Holding, NoneDeleted, Exists, Live
  <2>3. e # d => gq'[e] = gq[e] BY DEF AddWork, QueueTypeOK
  <2>4. gq'[d] = Insert(gq[d], Global, "Available")
    BY DEF AddWork, QueueTypeOK
  <2> QED BY <2>1, <2>2, <2>3, <2>4, GlobalEdit, InsertStays
<1>3. CASE DeleteCompletedGlobal
  <2>1. UNCHANGED <<inbox, local, wmbs, feeding>> BY <1>3 DEF DeleteCompletedGlobal
  <2>2. gq'[e] # gq[e] => gq'[e] = SetStatus(gq[e], Global, "deleted")
    BY <1>3 DEF DeleteCompletedGlobal, Delete
  <2> QED BY <2>1, <2>2, GlobalEdit
<1>4. CASE CancelListed
  <2>1. UNCHANGED <<inbox, local, wmbs, feeding>> BY <1>4 DEF CancelListed
  <2>2. gq'[e] # gq[e] => \E s \in {"Canceled", "CancelRequested"} :
                            gq'[e] = SetStatus(gq[e], Global, s)
    BY <1>4 DEF CancelListed, SetElements
  <2> QED BY <2>1, <2>2, GlobalEdit
<1>5. CASE \/ QueueWork \/ QueueWorkFails \/ QueueingDone \/ CloseWork
           \/ SyncGlobal \/ ListToCancel \/ GlobalFault
  <2>1. UNCHANGED <<gq, inbox, local, wmbs, feeding>>
    BY <1>5
    DEF QueueWork, QueueWorkFails, QueueingDone, CloseWork, SyncGlobal, ListToCancel, GlobalFault
  <2> QED BY <2>1, GlobalEdit
<1> QED BY <1>1, <1>2, <1>3, <1>4, <1>5 DEF GlobalNext

LEMMA ManagerStays ==
  ASSUME ManagerNext, NEW e \in Elements
  PROVE  Stays(e)
<1> USE DEF documents, agentWork, pollers
<1>1. CASE CancelAgain \/ \E what \in CancelStates : Ask(what)
  <2>1. UNCHANGED <<inbox, local, wmbs, feeding>> BY <1>1 DEF CancelAgain, Ask
  <2>2. gq'[e] # gq[e] => gq'[e] = SetStatus(gq[e], Global, "CancelRequested")
    BY <1>1 DEF CancelAgain, Ask, CancelWorkflow
  <2> QED BY <2>1, <2>2, GlobalEdit
<1>2. CASE UpdateView \/ MoveForward \/ MoveCancelled \/ WriteStatus \/ ManagerFault
  <2>1. UNCHANGED <<gq, inbox, local, wmbs, feeding>>
    BY <1>2 DEF UpdateView, MoveForward, MoveCancelled, WriteStatus, ManagerFault
  <2> QED BY <2>1, GlobalEdit
<1> QED BY <1>1, <1>2 DEF ManagerNext

LEMMA FixesFine ==
  ASSUME QueueTypeOK, NEW a \in Agents, NEW e \in Elements
  PROVE  /\ inbox[a][e] = {} => Fixes(a)[e] = {}
         /\ TakenBy(a, e) => Fine(Fixes(a)[e], a, wmbs[a][e] = "over")
<1>1. Fixes(a)[e] = Fixed(inbox[a][e], a) /\ inbox[a][e] \in SUBSET Revisions
  BY DEF Fixes, QueueTypeOK
<1>2. a # NoAgent
  BY DatabasesAssumption
<1>3. inbox[a][e] = {} => Fixed(inbox[a][e], a) = {}
  BY DEF Fixed, Live
<1>4. TakenBy(a, e) => Fine(Fixed(inbox[a][e], a), a, wmbs[a][e] = "over")
  BY <1>1, <1>2, FixedFine DEF TakenBy
<1> QED BY <1>1, <1>3, <1>4

LEMMA EmptyDocs ==
  ASSUME NEW at, NEW s
  PROVE  SetStatus({}, at, s) = {} /\ ~Exists({})
  BY DEF SetStatus, Save, Exists, Live

(* A result that says Done comes from a local element that is.             *)
LEMMA SyncedFine ==
  ASSUME QueueTypeOK, NEW a \in Agents, NEW e \in Elements
  PROVE  /\ inbox[a][e] = {} => Synced(a, e) = {}
         /\ TakenBy(a, e) => Fine(Synced(a, e), a, wmbs[a][e] = "over")
<1> DEFINE doc == Fixes(a)[e]
           result == ResultStatus({local[a][e]} \ {"none"}, Status(doc))
           new == UpdatedWith(Status(doc), result)
<1>1. inbox[a][e] = {} => doc = {}
  BY FixesFine
<1>2. doc = {} => Synced(a, e) = {}
  BY EmptyDocs DEF Synced
<1>3. CASE ~Exists(doc) \/ result = "Negotiating" \/ new = Status(doc)
  <2>1. Synced(a, e) = doc BY <1>3 DEF Synced
  <2> QED BY <1>1, <2>1, FixesFine
<1>4. CASE ~(~Exists(doc) \/ result = "Negotiating" \/ new = Status(doc))
  <2>1. Synced(a, e) = SetStatus(doc, a, new) BY <1>4 DEF Synced
  <2>2. new = result BY <1>4 DEF UpdatedWith
  <2>3. local[a][e] \in {"none", "Available", "Running", "Done"}
    BY DEF QueueTypeOK
  <2>4. local[a][e] # "none"
    BY <1>4, <2>2 DEF ResultStatus
  <2>5. new = "Done" => local[a][e] = "Done"
    BY <2>2, <2>3, <2>4 DEF ResultStatus, EndStates
  <2>6. new # "Available"
    BY <2>2, <2>3, <2>4 DEF ResultStatus, EndStates
  <2>7. TakenBy(a, e) => /\ Fine(doc, a, wmbs[a][e] = "over")
                         /\ new = "Done" => wmbs[a][e] = "over"
    BY <2>5, FixesFine DEF TakenBy
  <2> HIDE DEF new, doc
  <2>8. TakenBy(a, e) => Fine(SetStatus(doc, a, new), a, wmbs[a][e] = "over")
    BY <2>6, <2>7, SetStatusFine
  <2> QED BY <1>1, <1>2, <2>1, <2>8
<1> QED BY <1>3, <1>4

(* The steps of an agent that edit its inbox.                              *)
LEMMA InboxStays ==
  ASSUME QueueTypeOK, NEW a \in Agents, NEW e \in Elements,
         \/ \E d \in Elements : Split(a, d) \/ SplitFailed(a, d) \/ Acquire(a, d)
         \/ SyncResults(a) \/ KillWMBS(a) \/ CancelInbox(a) \/ DeleteCompletedLocal(a)
  PROVE  Stays(e)
<1> USE DEF globalSide, agentWork, pollers
<1> DEFINE Known == /\ inbox[a][e] = {} => inbox'[a][e] = {}
                    /\ TakenBy(a, e) => Fine(inbox'[a][e], a, wmbs[a][e] = "over")
           Others == /\ gq' = gq /\ feeding' = feeding
                     /\ \A b \in Agents \ {a} :
                          /\ inbox'[b] = inbox[b] /\ local'[b] = local[b] /\ wmbs'[b] = wmbs[b]
           Same == local' = local /\ wmbs' = wmbs
<1>1. ASSUME NEW s, s \notin {"Available", "Done"}
      PROVE  /\ inbox[a][e] = {} => SetStatus(inbox[a][e], a, s) = {} /\ SetStatus(Fixes(a)[e], a, s) = {}
             /\ TakenBy(a, e) => /\ Fine(SetStatus(inbox[a][e], a, s), a, wmbs[a][e] = "over")
                                 /\ Fine(SetStatus(Fixes(a)[e], a, s), a, wmbs[a][e] = "over")
  <2>1. Fine(inbox[a][e], a, wmbs[a][e] = "over") => Fine(SetStatus(inbox[a][e], a, s), a, wmbs[a][e] = "over")
    BY <1>1, SetStatusFine
  <2>2. Fine(Fixes(a)[e], a, wmbs[a][e] = "over") => Fine(SetStatus(Fixes(a)[e], a, s), a, wmbs[a][e] = "over")
    BY <1>1, SetStatusFine
  <2> QED BY <2>1, <2>2, EmptyDocs, FixesFine DEF TakenBy
<1>2. ASSUME Others, Known, Same PROVE Stays(e)
  <2>1. Untouched(a, e) => Untouched(a, e)'
    BY <1>2 DEF Untouched
  <2>2. TakenBy(a, e) =>
           /\ Fine(inbox'[a][e], a, wmbs'[a][e] = "over")
           /\ local'[a][e] = "Running" => wmbs'[a][e] # "none"
           /\ local'[a][e] = "Done" => wmbs'[a][e] = "over"
           /\ wmbs[a][e] = "over" => wmbs'[a][e] = "over"
    BY <1>2 DEF TakenBy
  <2> QED BY <1>2, <2>1, <2>2, AgentEdit
<1>3. ASSUME NEW d \in Elements, Split(a, d) PROVE Stays(e)
  <2>1. Others BY <1>3 DEF QueueTypeOK, Split
  <2>2. inbox'[a] = Fixes(a) BY <1>3 DEF QueueTypeOK, Split
  <2>3. Untouched(a, e) => Untouched(a, e)'
    <3>1. inbox[a][d] # {} BY <1>3 DEF Split, Exists, Live
    <3> QED BY <1>3, <2>2, <3>1, FixesFine DEF QueueTypeOK, Split, Untouched
  <2>4. /\ wmbs' = wmbs
        /\ local'[a][e] \in {local[a][e], "Available"}
    BY <1>3 DEF QueueTypeOK, Split
  <2>5. TakenBy(a, e) =>
           /\ Fine(inbox'[a][e], a, wmbs'[a][e] = "over")
           /\ local'[a][e] = "Running" => wmbs'[a][e] # "none"
           /\ local'[a][e] = "Done" => wmbs'[a][e] = "over"
           /\ wmbs[a][e] = "over" => wmbs'[a][e] = "over"
    BY <2>2, <2>4, FixesFine DEF TakenBy
  <2> QED BY <2>1, <2>3, <2>5, AgentEdit
<1>4. ASSUME NEW d \in Elements, SplitFailed(a, d) PROVE Stays(e)
  <2>1. Others /\ Same BY <1>4 DEF QueueTypeOK, SplitFailed
  <2>2. inbox'[a][e] = Fixes(a)[e] \/ inbox'[a][e] = SetStatus(Fixes(a)[e], a, "Failed")
    BY <1>4 DEF QueueTypeOK, SplitFailed, Fixes
  <2>3. Known BY <2>2, <1>1, FixesFine
  <2> QED BY <1>2, <2>1, <2>3
<1>5. ASSUME NEW d \in Elements, Acquire(a, d) PROVE Stays(e)
  <2>1. Others /\ Same BY <1>5 DEF QueueTypeOK, Acquire
  <2>2. inbox'[a][e] = inbox[a][e] \/ inbox'[a][e] = SetStatus(inbox[a][e], a, "Acquired")
    BY <1>5 DEF QueueTypeOK, Acquire
  <2>3. Known BY <2>2, <1>1 DEF TakenBy
  <2> QED BY <1>2, <2>1, <2>3
<1>6. CASE SyncResults(a)
  <2>1. Others /\ Same BY <1>6 DEF QueueTypeOK, SyncResults
  <2>2. inbox'[a][e] = Synced(a, e) BY <1>6 DEF QueueTypeOK, SyncResults
  <2>3. Known BY <2>2, SyncedFine
  <2> QED BY <1>2, <2>1, <2>3
<1>7. CASE KillWMBS(a)
  <2>1. Others BY <1>7 DEF QueueTypeOK, KillWMBS
  <2>2. inbox'[a] = Fixes(a) /\ local' = local
        /\ wmbs'[a][e] = IF wmbs[a][e] = "open" THEN "over" ELSE wmbs[a][e]
    BY <1>7 DEF QueueTypeOK, KillWMBS, Killed
  <2>3. Untouched(a, e) => Untouched(a, e)'
    BY <2>1, <2>2, FixesFine DEF Untouched
  <2>4. TakenBy(a, e) => Fine(Fixes(a)[e], a, wmbs'[a][e] = "over")
    BY <2>2, FixesFine DEF Fine
  <2>5. TakenBy(a, e) =>
           /\ Fine(inbox'[a][e], a, wmbs'[a][e] = "over")
           /\ local'[a][e] = "Running" => wmbs'[a][e] # "none"
           /\ local'[a][e] = "Done" => wmbs'[a][e] = "over"
           /\ wmbs[a][e] = "over" => wmbs'[a][e] = "over"
    BY <2>2, <2>4 DEF TakenBy
  <2> QED BY <2>1, <2>3, <2>5, AgentEdit
<1>8. CASE CancelInbox(a)
  <2>1. Others /\ Same BY <1>8 DEF QueueTypeOK, CancelInbox
  <2>2. inbox'[a][e] = inbox[a][e] \/ inbox'[a][e] = SetStatus(inbox[a][e], a, "Canceled")
    BY <1>8 DEF QueueTypeOK, CancelInbox
  <2>3. Known BY <2>2, <1>1 DEF TakenBy
  <2> QED BY <1>2, <2>1, <2>3
<1>9. CASE DeleteCompletedLocal(a)
  <2>1. Others BY <1>9 DEF QueueTypeOK, DeleteCompletedLocal
  <2>2. inbox'[a][e] = inbox[a][e] \/ inbox'[a][e] = SetStatus(inbox[a][e], a, "deleted")
    BY <1>9 DEF QueueTypeOK, DeleteCompletedLocal, Delete
  <2>3. Known BY <2>2, <1>1 DEF TakenBy
  <2>4. local'[a][e] = "none" /\ wmbs' = wmbs BY <1>9 DEF QueueTypeOK, DeleteCompletedLocal
  <2>5. Untouched(a, e) => Untouched(a, e)'
    BY <2>1, <2>3, <2>4 DEF Untouched
  <2>6. TakenBy(a, e) =>
           /\ Fine(inbox'[a][e], a, wmbs'[a][e] = "over")
           /\ local'[a][e] = "Running" => wmbs'[a][e] # "none"
           /\ local'[a][e] = "Done" => wmbs'[a][e] = "over"
           /\ wmbs[a][e] = "over" => wmbs'[a][e] = "over"
    BY <2>3, <2>4
  <2> QED BY <2>1, <2>5, <2>6, AgentEdit
<1> QED BY <1>3, <1>4, <1>5, <1>6, <1>7, <1>8, <1>9

(* Its other steps, but for the WorkPoller's save.                         *)
LEMMA WorkStays ==
  ASSUME QueueTypeOK, NEW a \in Agents, NEW e \in Elements,
         \/ PullRead(a) \/ FeedRead(a) \/ MarkInjected(a) \/ ArchiveDone(a) \/ KillForbidden(a)
         \/ AgentFault(a)
         \/ \E d \in Elements : Inject(a, d) \/ MarkRunning(a, d) \/ Finish(a, d)
  PROVE  Stays(e)
<1> USE DEF globalSide, agentWork, pollers
<1> DEFINE Elsewhere == /\ gq' = gq /\ inbox' = inbox
                        /\ \A b \in Agents \ {a} :
                             /\ local'[b] = local[b] /\ wmbs'[b] = wmbs[b]
                             /\ feeding'[b] = feeding[b]
           Here == /\ Untouched(a, e) => Untouched(a, e)'
                   /\ wmbs[a][e] = "over" => wmbs'[a][e] = "over"
                   /\ TakenBy(a, e) => /\ local'[a][e] = "Running" => wmbs'[a][e] # "none"
                                       /\ local'[a][e] = "Done" => wmbs'[a][e] = "over"
<1>1. ASSUME Elsewhere, Here PROVE Stays(e)
  <2>1. TakenBy(a, e) => Fine(inbox'[a][e], a, wmbs'[a][e] = "over")
    BY <1>1 DEF TakenBy, Fine
  <2> QED BY <1>1, <2>1, AgentEdit
<1>2. CASE PullRead(a)
  BY <1>1, <1>2 DEF PullRead, Untouched, TakenBy
<1>3. CASE FeedRead(a)
  BY <1>1, <1>3 DEF QueueTypeOK, FeedRead, Untouched, TakenBy
<1>4. CASE MarkInjected(a)
  BY <1>1, <1>4 DEF MarkInjected, Untouched, TakenBy
<1>5. CASE ArchiveDone(a)
  <2>1. Elsewhere BY <1>5 DEF QueueTypeOK, ArchiveDone
  <2>2. local'[a][e] = IF local[a][e] = "Running" THEN "Done" ELSE local[a][e]
    BY <1>5 DEF QueueTypeOK, ArchiveDone
  <2>3. wmbs[a][e] \in {"none", "over"} /\ wmbs' = wmbs /\ feeding' = feeding
    BY <1>5 DEF QueueTypeOK, ArchiveDone, FinishedWorkflow
  <2>4. Here BY <2>1, <2>2, <2>3 DEF Untouched, TakenBy
  <2> QED BY <1>1, <2>1, <2>4
<1>6. CASE KillForbidden(a)
  <2>1. Elsewhere BY <1>6 DEF QueueTypeOK, KillForbidden
  <2>2. /\ local' = local /\ feeding' = feeding
        /\ wmbs'[a][e] = IF wmbs[a][e] = "open" THEN "over" ELSE wmbs[a][e]
    BY <1>6 DEF QueueTypeOK, KillForbidden, Killed
  <2>3. Here BY <2>1, <2>2 DEF Untouched, TakenBy
  <2> QED BY <1>1, <2>1, <2>3
<1>7. CASE AgentFault(a)
  <2>1. Elsewhere /\ feeding'[a] \subseteq feeding[a] /\ local' = local /\ wmbs' = wmbs
    BY <1>7 DEF QueueTypeOK, AgentFault
  <2>2. Here BY <2>1 DEF Untouched, TakenBy
  <2> QED BY <1>1, <2>1, <2>2
<1>8. ASSUME NEW d \in Elements, Inject(a, d) PROVE Stays(e)
  <2>1. Elsewhere BY <1>8 DEF QueueTypeOK, Inject
  <2>2. /\ local' = local /\ feeding' = feeding /\ d \in feeding[a] /\ wmbs[a][d] = "none"
        /\ wmbs'[a][e] = IF e = d THEN "open" ELSE wmbs[a][e]
    BY <1>8 DEF QueueTypeOK, Inject
  <2>3. Here BY <2>1, <2>2 DEF Untouched, TakenBy
  <2> QED BY <1>1, <2>1, <2>3
<1>9. ASSUME NEW d \in Elements, MarkRunning(a, d) PROVE Stays(e)
  <2>1. Elsewhere BY <1>9 DEF QueueTypeOK, MarkRunning
  <2>2. /\ wmbs' = wmbs /\ feeding'[a] \subseteq feeding[a] /\ d \in feeding[a]
        /\ wmbs[a][d] # "none"
        /\ \/ local'[a][e] = local[a][e]
           \/ e = d /\ local'[a][e] = "Running"
    BY <1>9 DEF QueueTypeOK, MarkRunning
  <2>3. Here BY <2>1, <2>2 DEF Untouched, TakenBy
  <2> QED BY <1>1, <2>1, <2>3
<1>10. ASSUME NEW d \in Elements, Finish(a, d) PROVE Stays(e)
  <2>1. Elsewhere BY <1>10 DEF QueueTypeOK, Finish
  <2>2. /\ local' = local /\ feeding' = feeding /\ wmbs[a][d] = "open"
        /\ wmbs'[a][e] = IF e = d THEN "over" ELSE wmbs[a][e]
    BY <1>10 DEF QueueTypeOK, Finish
  <2>3. Here BY <2>1, <2>2 DEF Untouched, TakenBy
  <2> QED BY <1>1, <2>1, <2>3
<1> QED BY <1>2, <1>3, <1>4, <1>5, <1>6, <1>7, <1>8, <1>9, <1>10

(* Replication brings an agent nothing that names another one.             *)
LEMMA ReplicationStays ==
  ASSUME QueueTypeOK, Holding, NEW a \in Agents, NEW d \in Elements, NEW e \in Elements,
         ReplicateDown(a, d) \/ ReplicateUp(a, d)
  PROVE  Stays(e)
<1> USE DEF globalSide, agentWork, pollers
<1>1. a # NoAgent BY DatabasesAssumption
<1>2. CASE ReplicateDown(a, d)
  <2>1. /\ UNCHANGED <<gq, local, wmbs, feeding>>
        /\ \A b \in Agents : inbox'[b][e] =
             IF b = a /\ e = d THEN Received(inbox[a][d], gq[d], a) ELSE inbox[b][e]
    BY <1>2 DEF QueueTypeOK, ReplicateDown
  <2>2. ASSUME TakenBy(a, e) PROVE Fine(inbox'[a][e], a, wmbs[a][e] = "over")
    <3>1. e = d => Fine(Received(inbox[a][d], gq[d], a), a, wmbs[a][e] = "over")
      BY <2>2, ReceivedFine DEF TakenBy
    <3> QED BY <2>1, <2>2, <3>1 DEF TakenBy
  <2>3. ASSUME Untouched(a, e), ~TakenBy(a, e) PROVE Untouched(a, e)'
    <3>1. \A l \in gq[e] : l.child # a
      <4>1. CASE Free(e)
        BY <1>1, <4>1 DEF Free, Fine
      <4>2. ASSUME NEW x \in Agents, TakenBy(x, e) PROVE \A l \in gq[e] : l.child # a
        BY <2>3, <4>2 DEF TakenBy, Fine
      <4> QED BY <4>1, <4>2 DEF Holding, OneHolder
    <3>2. Received(inbox[a][e], gq[e], a) = inbox[a][e]
      BY <3>1, ReceivedRevisions
    <3> QED BY <2>1, <2>3, <3>2 DEF Untouched
  <2>4. ASSUME TakenBy(a, e) PROVE Stays(e)
    <3>1. ~Free(e)
      BY <1>1, <2>4 DEF Free, TakenBy, Fine
    <3>2. TakenBy(a, e)'
      BY <2>1, <2>2, <2>4 DEF TakenBy, Untouched
    <3>3. ASSUME NEW x \in Agents, TakenBy(x, e) PROVE x = a
      BY <2>4, <3>3 DEF TakenBy, Fine
    <3> QED BY <3>1, <3>2, <3>3 DEF Stays
  <2>5. ASSUME ~TakenBy(a, e) PROVE Stays(e)
    <3>1. Untouched(a, e) => Untouched(a, e)' BY <2>3, <2>5
    <3> QED BY <2>1, <2>5, <3>1, AgentEdit
  <2> QED BY <2>4, <2>5
<1>3. CASE ReplicateUp(a, d)
  <2>1. /\ UNCHANGED <<inbox, local, wmbs, feeding>>
        /\ gq'[e] = IF e = d THEN Received(gq[d], inbox[a][d], a) ELSE gq[e]
    BY <1>3 DEF QueueTypeOK, ReplicateUp
  <2>2. \A b \in Agents : Untouched(b, e) => Untouched(b, e)'
    BY <2>1 DEF Untouched
  <2>3. ASSUME Free(e) PROVE Free(e)'
    <3>1. inbox[a][e] = {} BY <2>3 DEF Free, Untouched
    <3>2. Received(gq[e], inbox[a][e], a) = gq[e]
      BY <3>1, ReceivedRevisions
    <3> QED BY <2>1, <2>2, <2>3, <3>2 DEF Free
  <2>4. ASSUME NEW x \in Agents, TakenBy(x, e) PROVE TakenBy(x, e)'
    <3>1. Fine(inbox[a][e], x, wmbs[x][e] = "over")
      BY <2>4 DEF TakenBy, Untouched, Fine
    <3>2. /\ Fine(Received(gq[e], inbox[a][e], a), x, wmbs[x][e] = "over")
          /\ Received(gq[e], inbox[a][e], a) # {}
      <4>1. Fine(gq[e], x, wmbs[x][e] = "over") /\ gq[e] # {} BY <2>4 DEF TakenBy
      <4>2. Fine(Received(gq[e], inbox[a][e], a), x, wmbs[x][e] = "over")
        BY <3>1, <4>1, ReceivedFine
      <4> QED BY <4>1, <4>2, ReceivedRevisions
    <3>3. gq'[e] # {} /\ Fine(gq'[e], x, wmbs[x][e] = "over")
      BY <2>1, <2>4, <3>2 DEF TakenBy
    <3> QED BY <2>1, <2>2, <2>4, <3>3 DEF TakenBy
  <2> QED BY <2>3, <2>4 DEF Stays
<1> QED BY <1>2, <1>3

(* What a WorkPoller saves of what it read: the elements still free are    *)
(* its own then, and the others are not touched.                           *)
Won(a) == {e \in Elements : Free(e) /\ \E p \in pulled[a] : p[1] = e /\ p[2] \in gq[e]
                           /\ p = CHOOSE q \in {r \in pulled[a] : r[1] = e} : TRUE}

LEMMA PullSaveTakes ==
  ASSUME QueueTypeOK, Holding, NEW a \in Agents, PullSave(a), NEW e \in Elements
  PROVE  /\ e \in Won(a) => TakenBy(a, e)'
         /\ e \notin Won(a) => Stays(e)
<1> DEFINE read == {p \in pulled[a] : p[1] = e}
           mine == CHOOSE p \in read : TRUE
<1>0. a # NoAgent BY DatabasesAssumption
<1>1. /\ UNCHANGED <<inbox, local, wmbs, feeding>>
      /\ gq'[e] = IF read = {} THEN gq[e] ELSE Save(gq[e], mine[2], Global, "Negotiating", a)
  BY DEF PullSave, agentWork
<1>2. \A b \in Agents : Untouched(b, e) => Untouched(b, e)'
  BY <1>1 DEF Untouched
<1>3. ASSUME e \in Won(a) PROVE TakenBy(a, e)'
  <2>1. Free(e) /\ read # {} /\ mine[2] \in gq[e]
    BY <1>3 DEF Won
  <2>2. gq'[e] = {Edited(mine[2], Global, "Negotiating", a)}
    BY <1>1, <2>1 DEF Save, Free, Single
  <2>3. gq'[e] # {} /\ Fine(gq'[e], a, wmbs[a][e] = "over")
    BY <2>2 DEF Edited, Revision, Fine
  <2>4. Untouched(a, e)' /\ \A b \in Agents \ {a} : Untouched(b, e)'
    BY <1>2, <2>1 DEF Free
  <2>5. Fine(inbox'[a][e], a, wmbs[a][e] = "over")
    BY <2>4 DEF Untouched, Fine
  <2> QED BY <1>1, <2>3, <2>4, <2>5 DEF TakenBy, Untouched
<1>4. ASSUME e \notin Won(a) PROVE Stays(e)
  <2>1. ASSUME NEW x \in Agents, TakenBy(x, e) PROVE gq'[e] = gq[e]
    <3>1. \A l \in gq[e] : l.child # NoAgent
      BY <2>1, DatabasesAssumption DEF TakenBy, Fine
    <3>2. read # {} => mine[2] \notin gq[e]
      BY <3>1 DEF Holding, ReadFree
    <3> QED BY <1>1, <3>2 DEF Save
  <2>2. ASSUME Free(e) PROVE gq'[e] = gq[e]
    <3>1. read # {} => mine \in pulled[a] /\ mine[1] = e
      OBVIOUS
    <3>2. read # {} => mine[2] \notin gq[e]
      BY <1>4, <2>2, <3>1 DEF Won
    <3> QED BY <1>1, <3>2 DEF Save
  <2>3. gq'[e] # gq[e] => ~Free(e) /\ \A x \in Agents : ~TakenBy(x, e)
    BY <2>1, <2>2
  <2>4. CASE gq'[e] = gq[e]
    BY <1>1, <2>4, GlobalEdit
  <2> QED BY <2>3, <2>4 DEF Stays
<1> QED BY <1>3, <1>4

(***************************************************************************)
(* The invariant.                                                          *)
(***************************************************************************)
LEMMA EveryStep ==
  ASSUME QueueTypeOK, Holding, Next, NEW e \in Elements
  PROVE  Stays(e) \/ \E a \in Agents : PullSave(a) /\ e \in Won(a) /\ TakenBy(a, e)'
<1>1. CASE GlobalNext BY <1>1, GlobalStays
<1>2. CASE ManagerNext BY <1>2, ManagerStays
<1>3. ASSUME NEW a \in Agents, LocalNext(a)
      PROVE  Stays(e) \/ (PullSave(a) /\ e \in Won(a) /\ TakenBy(a, e)')
  <2>1. CASE PullSave(a) BY <2>1, PullSaveTakes
  <2>2. CASE ~PullSave(a) BY <1>3, <2>2, InboxStays, WorkStays DEF LocalNext
  <2> QED BY <2>1, <2>2
<1>4. ASSUME NEW a \in Agents, NEW d \in Elements, ReplicateDown(a, d) \/ ReplicateUp(a, d)
      PROVE  Stays(e)
  BY <1>4, ReplicationStays
<1> QED BY <1>1, <1>2, <1>3, <1>4 DEF Next

LEMMA KeepsOneHolder ==
  ASSUME QueueTypeOK, Holding, Next
  PROVE  OneHolder'
  BY EveryStep DEF Holding, OneHolder, Stays

LEMMA KeepsReadFree ==
  ASSUME QueueTypeOK, Holding, Next
  PROVE  ReadFree'
<1> USE DEF documents, agentWork, pollers, tasks, globalSide
<1>1. ASSUME NEW a \in Agents, PullRead(a) PROVE ReadFree'
  <2>1. ASSUME NEW p \in Takeable PROVE p[2].child = NoAgent
    <3>1. p[1] \in Elements /\ p[2] \in gq[p[1]] /\ p[2].status = "Available"
      BY <2>1 DEF Takeable
    <3> QED BY <3>1 DEF Holding, OneHolder, Free, TakenBy, Fine
  <2>2. \A b \in Agents : pulled'[b] \subseteq pulled[b] \cup Takeable
    BY <1>1 DEF QueueTypeOK, PullRead
  <2> QED BY <2>1, <2>2 DEF Holding, ReadFree
<1>2. CASE \A b \in Agents : pulled'[b] \subseteq pulled[b]
  BY <1>2 DEF Holding, ReadFree
<1>3. ASSUME NEW a \in Agents, LocalNext(a), ~PullRead(a)
      PROVE \A b \in Agents : pulled'[b] \subseteq pulled[b]
  BY <1>3
  DEF QueueTypeOK, LocalNext, PullSave, Split, SplitFailed, Acquire, FeedRead, Inject, MarkRunning,
      MarkInjected, Finish, ArchiveDone, SyncResults, KillWMBS, CancelInbox, KillForbidden,
      DeleteCompletedLocal, AgentFault
<1>4. CASE GlobalNext \/ ManagerNext
  <2>1. pulled' = pulled
    BY <1>4
    DEF GlobalNext, QueueWork, QueueWorkFails, InsertElement, QueueingDone, AddWork, CloseWork,
        DeleteCompletedGlobal, SyncGlobal, ListToCancel, CancelListed, GlobalFault, ManagerNext,
        UpdateView, MoveForward, MoveCancelled, CancelAgain, Ask, WriteStatus, ManagerFault
  <2> QED BY <1>2, <2>1
<1>5. ASSUME NEW a \in Agents, NEW d \in Elements, ReplicateDown(a, d) \/ ReplicateUp(a, d)
      PROVE  \A b \in Agents : pulled'[b] \subseteq pulled[b]
  BY <1>5 DEF ReplicateDown, ReplicateUp
<1> QED BY <1>1, <1>2, <1>3, <1>4, <1>5 DEF Next

(* No step but an insertion makes a document, and none but a deletion      *)
(* deletes one.                                                            *)
Quiet == \A e \in Elements :
  /\ gq[e] = {} => gq'[e] = {}
  /\ \A l \in gq'[e] : l.status = "deleted" => l \in gq[e]

LEMMA SetStatusAdds ==
  ASSUME NEW doc, NEW at, NEW s, NEW l \in SetStatus(doc, at, s)
  PROVE  l \in doc \/ l.status = s
  BY DEF SetStatus, Save, Edited, Revision

LEMMA SetQuiet ==
  ASSUME \A e \in Elements : gq'[e] = gq[e] \/ \E s : s # "deleted" /\ gq'[e] = SetStatus(gq[e], Global, s)
  PROVE  Quiet
  BY SetStatusAdds, EmptyDocs DEF Quiet

LEMMA LocalQuiet ==
  ASSUME QueueTypeOK, Holding, NEW a \in Agents,
         LocalNext(a) \/ \E d \in Elements : ReplicateDown(a, d) \/ ReplicateUp(a, d)
  PROVE  Quiet /\ UNCHANGED <<status, parent, queueing>>
<1> USE DEF globalSide, agentWork, tasks
<1>1. CASE PullSave(a)
  <2>1. ASSUME NEW e \in Elements
        PROVE  gq'[e] = gq[e] \/ \E leaf : gq'[e] = Save(gq[e], leaf, Global, "Negotiating", a)
    BY <1>1 DEF PullSave
  <2>2. ASSUME NEW e \in Elements, NEW leaf
        PROVE  /\ gq[e] = {} => Save(gq[e], leaf, Global, "Negotiating", a) = {}
               /\ \A l \in Save(gq[e], leaf, Global, "Negotiating", a) : l.status = "deleted" => l \in gq[e]
    BY DEF Save, Edited, Revision
  <2> QED BY <1>1, <2>1, <2>2 DEF Quiet, PullSave
<1>2. ASSUME NEW d \in Elements, ReplicateUp(a, d) PROVE Quiet /\ UNCHANGED <<status, parent, queueing>>
  <2>1. ASSUME NEW e \in Elements
        PROVE  gq'[e] = IF e = d THEN Received(gq[d], inbox[a][d], a) ELSE gq[e]
    BY <1>2 DEF QueueTypeOK, ReplicateUp
  <2>2. gq[d] = {} => inbox[a][d] = {}
    BY DEF Holding, OneHolder, Free, TakenBy, Untouched
  <2>3. gq[d] = {} => Received(gq[d], inbox[a][d], a) = {}
    BY <2>2, ReceivedRevisions
  <2>4. \A l \in Received(gq[d], inbox[a][d], a) : l.status = "deleted" => l \in gq[d]
    BY ReceivedRevisions DEF Live
  <2> QED BY <1>2, <2>1, <2>3, <2>4 DEF Quiet, ReplicateUp
<1>3. ASSUME UNCHANGED globalSide PROVE Quiet /\ UNCHANGED <<status, parent, queueing>>
  BY <1>3 DEF Quiet
<1>4. CASE LocalNext(a) /\ ~PullSave(a)
  <2>1. UNCHANGED globalSide
    BY <1>4
    DEF LocalNext, PullRead, Split, SplitFailed, Acquire, FeedRead, Inject, MarkRunning, MarkInjected,
        Finish, ArchiveDone, SyncResults, KillWMBS, CancelInbox, KillForbidden, DeleteCompletedLocal,
        AgentFault
  <2> QED BY <1>3, <2>1
<1>5. ASSUME NEW d \in Elements, ReplicateDown(a, d) PROVE UNCHANGED globalSide
  BY <1>5 DEF ReplicateDown
<1> QED BY <1>1, <1>2, <1>3, <1>4, <1>5

LEMMA KeepsNoneDeleted ==
  ASSUME QueueTypeOK, Holding, Next
  PROVE  NoneDeleted'
<1> USE DEF documents, agentWork, pollers, tasks
<1>1. ASSUME Quiet, queueing'.on => queueing'.left = queueing.left /\ queueing.on,
             parent'.open => parent.open, status' = "staged" => status = "staged",
             queueing.left \subseteq Elements
      PROVE  NoneDeleted'
  BY <1>1 DEF Quiet, Holding, NoneDeleted
<1>2. queueing.left \subseteq Elements BY DEF QueueTypeOK
<1>3. ASSUME NEW a \in Agents,
             LocalNext(a) \/ \E d \in Elements : ReplicateDown(a, d) \/ ReplicateUp(a, d)
      PROVE  NoneDeleted'
  BY <1>1, <1>2, <1>3, LocalQuiet
<1>4. CASE ManagerNext
  <2>1. Quiet
    BY <1>4, SetQuiet
    DEF ManagerNext, UpdateView, MoveForward, MoveCancelled, CancelAgain, Ask, CancelWorkflow, WriteStatus,
        ManagerFault
  <2>2. queueing' = queueing /\ (parent'.open => parent.open)
    BY <1>4
    DEF QueueTypeOK, ManagerNext, UpdateView, MoveForward, MoveCancelled, CancelAgain, Ask, CancelWorkflow,
        WriteStatus, ManagerFault
  <2>3. "staged" \notin Forward
    BY DEF Forward, AutoTransition, Range
  <2>4. status' = "staged" => status = "staged"
    BY <1>4, <2>3
    DEF ManagerNext, UpdateView, MoveForward, MoveCancelled, CancelAutoTransition, CancelAgain, Ask,
        WriteStatus, CancelStates, ManagerFault
  <2> QED BY <1>1, <1>2, <2>1, <2>2, <2>4
<1>5. CASE QueueWork
  <2>1. \A e \in Elements : gq[e] = {}
    BY <1>5 DEF QueueWork, Queued, Exists, Live, Holding, NoneDeleted
  <2> QED BY <1>5, <2>1, ElementsAssumption DEF QueueWork, NoneDeleted
<1>6. ASSUME NEW e \in Elements, InsertElement(e) PROVE NoneDeleted'
  <2>1. gq[e] = {} BY <1>6 DEF InsertElement, Holding, NoneDeleted
  <2>2. \A l \in gq'[e] : l.status # "deleted"
    BY <1>6, <2>1, InsertFine DEF InsertElement, QueueTypeOK, Exists, Live
  <2>3. \A d \in Elements \ {e} : gq'[d] = gq[d]
    BY <1>6 DEF InsertElement, QueueTypeOK
  <2>4. queueing'.left = queueing.left \ {e} /\ queueing.on /\ UNCHANGED <<status, parent>>
    BY <1>6 DEF InsertElement, QueueTypeOK
  <2> QED BY <1>2, <2>2, <2>3, <2>4 DEF Holding, NoneDeleted
<1>7. ASSUME NEW e \in Elements, AddWork(e) PROVE NoneDeleted'
  <2>1. gq[e] = {} BY <1>7 DEF AddWork, Holding, NoneDeleted, Exists, Live
  <2>2. \A l \in gq'[e] : l.status # "deleted"
    BY <1>7, <2>1, InsertFine DEF AddWork, QueueTypeOK
  <2>3. \A d \in Elements \ {e} : gq'[d] = gq[d]
    BY <1>7 DEF AddWork, QueueTypeOK
  <2>4. ~queueing'.on /\ parent.open
    BY <1>7 DEF AddWork
  <2> QED BY <2>2, <2>3, <2>4 DEF Holding, NoneDeleted
<1>8. CASE DeleteCompletedGlobal
  <2>1. ~parent'.open /\ status' # "staged" /\ queueing' = queueing
    BY <1>8 DEF DeleteCompletedGlobal, NoParent, DeletableStates
  <2>2. \A e \in Elements : gq[e] = {} => gq'[e] = {}
    BY <1>8, EmptyDocs DEF DeleteCompletedGlobal, Delete
  <2> QED BY <1>2, <2>1, <2>2 DEF Holding, NoneDeleted
<1>9. CASE CancelListed
  <2>1. Quiet
    BY <1>9, SetQuiet DEF CancelListed, SetElements
  <2>2. queueing' = queueing /\ status' = status /\ (parent'.open => parent.open)
    BY <1>9 DEF QueueTypeOK, CancelListed
  <2> QED BY <1>1, <1>2, <2>1, <2>2
<1>10. CASE QueueWorkFails \/ QueueingDone \/ CloseWork \/ SyncGlobal \/ ListToCancel \/ GlobalFault
  <2>1. gq' = gq /\ (queueing' = queueing \/ ~queueing'.on)
    BY <1>10
    DEF QueueWorkFails, QueueingDone, CloseWork, SyncGlobal, ListToCancel, GlobalFault, NotQueueing
  <2>2. parent'.open => parent.open
    BY <1>10
    DEF QueueTypeOK, QueueWorkFails, QueueingDone, CloseWork, SyncGlobal, ListToCancel, GlobalFault
  <2>3. status' = "staged" => status = "staged"
    BY <1>10
    DEF QueueWorkFails, QueueingDone, CloseWork, SyncGlobal, ListToCancel, GlobalFault
  <2>4. Quiet BY <2>1 DEF Quiet
  <2> QED BY <1>1, <1>2, <2>1, <2>2, <2>3, <2>4
<1>11. CASE GlobalNext
  BY <1>5, <1>6, <1>7, <1>8, <1>9, <1>10, <1>11 DEF GlobalNext
<1> QED BY <1>3, <1>4, <1>11 DEF Next

THEOREM HoldingCorrect == Spec => []Holding
<1>1. Init => Holding
  BY DEF Init, Holding, OneHolder, Free, Fine, Single, Untouched, ReadFree, NoneDeleted, NotQueueing
<1>2. QueueTypeOK /\ Holding /\ [Next]_queueVars => Holding'
  <2> SUFFICES ASSUME QueueTypeOK, Holding, [Next]_queueVars PROVE Holding'
    OBVIOUS
  <2>1. CASE Next
    BY <2>1, KeepsOneHolder, KeepsReadFree, KeepsNoneDeleted DEF Holding
  <2>2. CASE UNCHANGED queueVars
    BY <2>2
    DEF queueVars, documents, agentWork, tasks, pollers, Holding, OneHolder, Free, TakenBy, Fine, Single,
        Untouched, ReadFree, NoneDeleted
  <2> QED BY <2>1, <2>2
<1> QED BY <1>1, <1>2, QueueTypeCorrect, PTL DEF Spec

(***************************************************************************)
(* The theorems.                                                           *)
(***************************************************************************)

(* What the global queue shows as Done is over in the agent that has it.   *)
THEOREM DoneOver == Spec => []DoneIsOver
<1>1. QueueTypeOK /\ Holding => DoneIsOver
  <2> SUFFICES ASSUME Holding, NEW e \in Elements, NEW l \in gq[e], l.status = "Done"
               PROVE  l.child \in Agents /\ wmbs[l.child][e] = "over"
    BY DEF DoneIsOver
  <2>1. CASE Free(e)
    BY <2>1 DEF Free, Fine
  <2>2. ASSUME NEW x \in Agents, TakenBy(x, e) PROVE l.child = x /\ wmbs[x][e] = "over"
    BY <2>2 DEF TakenBy, Fine
  <2> QED BY <2>1, <2>2 DEF Holding, OneHolder
<1> QED BY <1>1, QueueTypeCorrect, HoldingCorrect, PTL

(* Who has an element, by its revisions anywhere.                          *)
OwnersKnown ==
  \A e \in Elements :
    /\ Free(e) => Owners(e) \ {NoAgent} = {}
    /\ \A x \in Agents : TakenBy(x, e) => Owners(e) \ {NoAgent} = {x}

LEMMA OwnersAre == OwnersKnown
<1> SUFFICES ASSUME NEW e \in Elements
             PROVE  /\ Free(e) => Owners(e) \ {NoAgent} = {}
                    /\ \A x \in Agents : TakenBy(x, e) => Owners(e) \ {NoAgent} = {x}
  BY DEF OwnersKnown
<1>1. Free(e) => Owners(e) \ {NoAgent} = {}
  BY DEF Free, Fine, Untouched, Owners
<1>2. ASSUME NEW x \in Agents, TakenBy(x, e) PROVE Owners(e) \ {NoAgent} = {x}
  <2>1. x \in {l.child : l \in gq[e]} /\ x # NoAgent
    BY <1>2, DatabasesAssumption DEF TakenBy, Fine
  <2>2. {l.child : l \in gq[e]} \subseteq {x}
    BY <1>2 DEF TakenBy, Fine
  <2>3. \A a \in Agents : {l.child : l \in inbox[a][e]} \subseteq {x}
    BY <1>2 DEF TakenBy, Untouched, Fine
  <2> QED BY <2>1, <2>2, <2>3 DEF Owners
<1> QED BY <1>1, <1>2

OwnersOf  == [e \in Elements |-> Owners(e) \ {NoAgent}]
WorkersOf == [e \in Elements |-> {a \in Agents : wmbs[a][e] # "none"}]
WorkingOf == [e \in Elements |-> {a \in Agents : wmbs[a][e] = "open"}]

LEMMA OwnersStay ==
  ASSUME Holding, OwnersKnown, OwnersKnown', NEW e \in Elements, Stays(e)
  PROVE  OwnersOf'[e] = OwnersOf[e]
<1>1. OwnersOf'[e] = (Owners(e) \ {NoAgent})' /\ OwnersOf[e] = Owners(e) \ {NoAgent}
  BY DEF OwnersOf
<1>2. CASE Free(e)
  <2>1. Free(e)' BY <1>2 DEF Stays
  <2> QED BY <1>1, <1>2, <2>1 DEF OwnersKnown
<1>3. ASSUME NEW x \in Agents, TakenBy(x, e) PROVE OwnersOf'[e] = OwnersOf[e]
  <2>1. TakenBy(x, e)' BY <1>3 DEF Stays
  <2> QED BY <1>1, <1>3, <2>1 DEF OwnersKnown
<1> QED BY <1>2, <1>3 DEF Holding, OneHolder

LEMMA AllOwnersStay ==
  ASSUME Holding, OwnersKnown, OwnersKnown', \A e \in Elements : Stays(e)
  PROVE  OwnersOf' = OwnersOf
<1>1. \A e \in Elements : OwnersOf'[e] = OwnersOf[e] BY OwnersStay
<1> QED BY <1>1 DEF OwnersOf

(* Only the elements it won change hands when a WorkPoller saves.          *)
LEMMA PullSaveAssigns ==
  ASSUME QueueTypeOK, Holding, OwnersKnown, OwnersKnown', NEW a \in Agents, PullSave(a)
  PROVE  /\ Won(a) \subseteq {e \in Elements : OwnersOf[e] = {}}
         /\ OwnersOf' = [e \in Elements |-> IF e \in Won(a) THEN {a} ELSE OwnersOf[e]]
<1>1. Won(a) \subseteq {e \in Elements : OwnersOf[e] = {}}
  BY DEF Won, OwnersOf, OwnersKnown
<1>2. ASSUME NEW e \in Elements
      PROVE  OwnersOf'[e] = IF e \in Won(a) THEN {a} ELSE OwnersOf[e]
  <2>1. CASE e \in Won(a)
    <3>1. TakenBy(a, e)' BY <2>1, PullSaveTakes
    <3>2. (Owners(e) \ {NoAgent})' = {a} BY <3>1 DEF OwnersKnown
    <3> QED BY <2>1, <3>2 DEF OwnersOf
  <2>2. CASE e \notin Won(a)
    BY <2>2, PullSaveTakes, OwnersStay
  <2> QED BY <2>1, <2>2
<1>3. OwnersOf' = [e \in Elements |-> OwnersOf'[e]]
  BY DEF OwnersOf
<1> QED BY <1>1, <1>2, <1>3

(* The steps in which an element's work begins or ends in an agent.        *)
LEMMA InjectOpens ==
  ASSUME QueueTypeOK, Holding, OwnersKnown, NEW a \in Agents, NEW e \in Elements, Inject(a, e)
  PROVE  /\ OwnersOf[e] = {a} /\ WorkersOf[e] = {}
         /\ WorkersOf' = [WorkersOf EXCEPT ![e] = {a}]
         /\ WorkingOf' = [WorkingOf EXCEPT ![e] = {a}]
<1>1. TakenBy(a, e)
  BY DEF Inject, Holding, OneHolder, Free, TakenBy, Untouched
<1>2. \A b \in Agents : wmbs[b][e] = "none"
  BY <1>1 DEF Inject, TakenBy, Untouched
<1>3. \A b \in Agents, d \in Elements :
        wmbs'[b][d] = IF b = a /\ d = e THEN "open" ELSE wmbs[b][d]
  BY DEF Inject, QueueTypeOK
<1>4. OwnersOf[e] = {a} /\ WorkersOf[e] = {}
  BY <1>1, <1>2 DEF OwnersKnown, OwnersOf, WorkersOf
<1>5. ASSUME NEW d \in Elements
      PROVE  /\ {b \in Agents : wmbs'[b][d] # "none"} = IF d = e THEN {a} ELSE WorkersOf[d]
             /\ {b \in Agents : wmbs'[b][d] = "open"} = IF d = e THEN {a} ELSE WorkingOf[d]
  <2>1. CASE d = e
    BY <1>2, <1>3, <2>1
  <2>2. CASE d # e
    <3>1. \A b \in Agents : wmbs'[b][d] = wmbs[b][d] BY <1>3, <2>2
    <3> QED BY <2>2, <3>1 DEF WorkersOf, WorkingOf
  <2> QED BY <2>1, <2>2
<1>6. WorkersOf' = [WorkersOf EXCEPT ![e] = {a}]
  <2>1. WorkersOf' = [d \in Elements |-> IF d = e THEN {a} ELSE WorkersOf[d]]
    BY <1>5 DEF WorkersOf
  <2> QED BY <2>1 DEF WorkersOf
<1>7. WorkingOf' = [WorkingOf EXCEPT ![e] = {a}]
  <2>1. WorkingOf' = [d \in Elements |-> IF d = e THEN {a} ELSE WorkingOf[d]]
    BY <1>5 DEF WorkingOf
  <2> QED BY <2>1 DEF WorkingOf
<1> QED BY <1>4, <1>6, <1>7

Ended(a) == {e \in Elements : wmbs[a][e] = "open" /\ wmbs'[a][e] = "over"}

LEMMA EndingCloses ==
  ASSUME QueueTypeOK, Holding, NEW a \in Agents,
         KillWMBS(a) \/ KillForbidden(a) \/ \E e \in Elements : Finish(a, e)
  PROVE  /\ Ended(a) \subseteq {e \in Elements : WorkingOf[e] = {a}}
         /\ WorkersOf' = WorkersOf
         /\ WorkingOf' = [e \in Elements |-> IF e \in Ended(a) THEN {} ELSE WorkingOf[e]]
<1>1. \A b \in Agents, e \in Elements :
        wmbs'[b][e] = wmbs[b][e] \/ (b = a /\ wmbs[b][e] = "open" /\ wmbs'[b][e] = "over")
  BY DEF QueueTypeOK, KillWMBS, KillForbidden, Killed, Finish
<1>2. ASSUME NEW e \in Elements, wmbs[a][e] = "open"
      PROVE  \A b \in Agents \ {a} : wmbs[b][e] = "none"
  BY <1>2 DEF Holding, OneHolder, Free, TakenBy, Untouched
<1>3. Ended(a) \subseteq {e \in Elements : WorkingOf[e] = {a}}
  BY <1>2 DEF Ended, WorkingOf
<1>4. WorkersOf' = WorkersOf
  BY <1>1 DEF WorkersOf
<1>5. ASSUME NEW e \in Elements
      PROVE  {b \in Agents : wmbs'[b][e] = "open"} = IF e \in Ended(a) THEN {} ELSE WorkingOf[e]
  BY <1>1, <1>2 DEF Ended, WorkingOf
<1>6. WorkingOf' = [e \in Elements |-> IF e \in Ended(a) THEN {} ELSE WorkingOf[e]]
  BY <1>5 DEF WorkingOf
<1> QED BY <1>3, <1>4, <1>6

LEMMA WorkUnchanged ==
  ASSUME wmbs' = wmbs
  PROVE  WorkersOf' = WorkersOf /\ WorkingOf' = WorkingOf
  BY DEF WorkersOf, WorkingOf

LEMMA StepAssigns ==
  ASSUME QueueTypeOK, Holding, OwnersKnown, OwnersKnown', Next
  PROVE  [Assignment!Next]_(Assignment!assignment)
<1>1. ASSUME OwnersOf' = OwnersOf, WorkersOf' = WorkersOf, WorkingOf' = WorkingOf
      PROVE  UNCHANGED Assignment!assignment
  BY <1>1 DEF Assignment!assignment, OwnersOf, WorkersOf, WorkingOf
<1>2. ASSUME \A e \in Elements : Stays(e), wmbs' = wmbs
      PROVE  UNCHANGED Assignment!assignment
  BY <1>1, <1>2, AllOwnersStay, WorkUnchanged
<1>3. ASSUME NEW a \in Agents, PullSave(a) PROVE Assignment!Next
  <2>1. WorkersOf' = WorkersOf /\ WorkingOf' = WorkingOf
    BY <1>3, WorkUnchanged DEF PullSave, agentWork
  <2>2. Assignment!Assign(a)
    <3>1. Won(a) \in SUBSET {e \in Elements : OwnersOf[e] = {}}
      BY <1>3, PullSaveAssigns
    <3>2. OwnersOf' = [e \in Elements |-> IF e \in Won(a) THEN {a} ELSE OwnersOf[e]]
      BY <1>3, PullSaveAssigns
    <3> HIDE DEF Won
    <3> QED BY <2>1, <3>1, <3>2 DEF Assignment!Assign, OwnersOf, WorkersOf, WorkingOf
  <2> QED BY <2>2 DEF Assignment!Next
<1>4. ASSUME NEW a \in Agents, NEW e \in Elements, Inject(a, e) PROVE Assignment!Next
  <2>1. \A d \in Elements : Stays(d) BY <1>4, WorkStays
  <2>2. OwnersOf' = OwnersOf BY <2>1, AllOwnersStay
  <2>3. Assignment!Open(a, e)
    BY <1>4, <2>2, InjectOpens DEF Assignment!Open, OwnersOf, WorkersOf, WorkingOf
  <2> QED BY <2>3 DEF Assignment!Next
<1>5. ASSUME NEW a \in Agents, KillWMBS(a) \/ KillForbidden(a) \/ \E e \in Elements : Finish(a, e)
      PROVE  Assignment!Next
  <2>1. \A d \in Elements : Stays(d) BY <1>5, WorkStays, InboxStays
  <2>2. OwnersOf' = OwnersOf BY <2>1, AllOwnersStay
  <2>3. Assignment!Close(a)
    <3>1. /\ Ended(a) \in SUBSET {e \in Elements : WorkingOf[e] = {a}}
          /\ WorkersOf' = WorkersOf
          /\ WorkingOf' = [e \in Elements |-> IF e \in Ended(a) THEN {} ELSE WorkingOf[e]]
      BY <1>5, EndingCloses
    <3> QED BY <2>2, <3>1 DEF Assignment!Close, OwnersOf, WorkersOf, WorkingOf
  <2> QED BY <2>3 DEF Assignment!Next
<1>6. CASE GlobalNext
  <2>1. wmbs' = wmbs
    BY <1>6
    DEF agentWork, GlobalNext, QueueWork, QueueWorkFails, InsertElement, QueueingDone, AddWork, CloseWork,
        DeleteCompletedGlobal, SyncGlobal, ListToCancel, CancelListed, GlobalFault
  <2> QED BY <1>2, <1>6, <2>1, GlobalStays
<1>7. CASE ManagerNext
  <2>1. wmbs' = wmbs
    BY <1>7
    DEF agentWork, ManagerNext, UpdateView, MoveForward, MoveCancelled, CancelAgain, Ask, WriteStatus,
        ManagerFault
  <2> QED BY <1>2, <1>7, <2>1, ManagerStays
<1>8. ASSUME NEW a \in Agents, LocalNext(a)
      PROVE  Assignment!Next \/ UNCHANGED Assignment!assignment
  <2>1. CASE \/ PullSave(a) \/ KillWMBS(a) \/ KillForbidden(a)
             \/ \E e \in Elements : Inject(a, e) \/ Finish(a, e)
    BY <1>3, <1>4, <1>5, <2>1
  <2>2. CASE \/ PullRead(a) \/ FeedRead(a) \/ MarkInjected(a) \/ ArchiveDone(a) \/ SyncResults(a)
             \/ CancelInbox(a) \/ DeleteCompletedLocal(a) \/ AgentFault(a)
             \/ \E e \in Elements : \/ Split(a, e) \/ SplitFailed(a, e) \/ Acquire(a, e)
                                    \/ MarkRunning(a, e)
    <3>1. wmbs' = wmbs
      BY <2>2
      DEF agentWork, PullRead, FeedRead, MarkInjected, ArchiveDone, SyncResults, CancelInbox,
          DeleteCompletedLocal, AgentFault, Split, SplitFailed, Acquire, MarkRunning
    <3>2. \A e \in Elements : Stays(e) BY <2>2, WorkStays, InboxStays
    <3> QED BY <1>2, <3>1, <3>2
  <2> QED BY <1>8, <2>1, <2>2 DEF LocalNext
<1>9. ASSUME NEW a \in Agents, NEW d \in Elements, ReplicateDown(a, d) \/ ReplicateUp(a, d)
      PROVE  UNCHANGED Assignment!assignment
  <2>1. wmbs' = wmbs BY <1>9 DEF agentWork, ReplicateDown, ReplicateUp
  <2>2. \A e \in Elements : Stays(e) BY <1>9, ReplicationStays
  <2> QED BY <1>2, <2>1, <2>2
<1>10. Assignment!Next \/ UNCHANGED Assignment!assignment
  BY <1>6, <1>7, <1>8, <1>9 DEF Next
<1> QED BY <1>10

(* The queues implement the assignment: an element goes to one agent, once *)
(* and for all, and is put into a database and worked off there, once.     *)
THEOREM AssignmentImplemented == Spec => ImplementsAssignment
<1>1. Init => Assignment!Init
  BY DEF Init, Assignment!Init, Owners
<1>2. /\ QueueTypeOK /\ Holding /\ OwnersKnown /\ OwnersKnown'
      /\ [Next]_queueVars
      => [Assignment!Next]_(Assignment!assignment)
  <2> SUFFICES ASSUME QueueTypeOK, Holding, OwnersKnown, OwnersKnown', [Next]_queueVars
               PROVE  [Assignment!Next]_(Assignment!assignment)
    OBVIOUS
  <2>1. CASE Next
    BY <2>1, StepAssigns
  <2>2. CASE UNCHANGED queueVars
    BY <2>2
    DEF queueVars, documents, agentWork, tasks, pollers, Assignment!assignment, Owners
  <2> QED BY <2>1, <2>2
<1>3. []OwnersKnown
  BY OwnersAre, PTL
<1> QED
  BY <1>1, <1>2, <1>3, QueueTypeCorrect, HoldingCorrect, PTL
  DEF Spec, ImplementsAssignment, Assignment!Spec

(***************************************************************************)
(* A request that nobody cancels.                                          *)
(*                                                                         *)
(* Without a cancellation an element has one live revision in a database,  *)
(* its inbox revision comes from the global one, and its status is never   *)
(* set back: what is read of the elements shows what has begun and what is *)
(* over.  A request is closed when the view agrees with the elements, and  *)
(* moves on by this view; so nothing is inserted any more when it is       *)
(* completed, or when an agent was told that all is injected.              *)
(***************************************************************************)
Plain == {"Available", "Negotiating", "Acquired", "Running", "Done"}

(* The elements that were inserted, be they deleted since; those an agent  *)
(* has put into its database, and those that are over there.               *)
Present    == {e \in Elements : gq[e] # {}}
Started(e) == \E a \in Agents : wmbs[a][e] # "none"
Over(e)    == \E a \in Agents : wmbs[a][e] = "over"

(* Without a cancellation there are no conflicts: a database has one live  *)
(* revision of an element, and the agent's comes from the global queue's.  *)
InLine(e) ==
  /\ Single(Live(gq[e]))
  /\ \A a \in Agents :
       /\ Single(Live(inbox[a][e]))
       /\ \A g \in Live(gq[e]), l \in Live(inbox[a][e]) : IsPrefix(g.path, l.path)

(* Running in a queue is at work in an agent.                              *)
PlainIn(doc, e) == \A l \in Live(doc) : l.status \in Plain /\ (l.status = "Running" => Started(e))

DocPlain(e) ==
  /\ InLine(e)
  /\ PlainIn(gq[e], e) /\ \A a \in Agents : PlainIn(inbox[a][e], e)
  /\ \A l \in gq[e] : l.status = "deleted" => Over(e)

DocsPlain == \A e \in Elements : DocPlain(e)

(* The request goes on.                                                    *)
GoesOn ==
  /\ status \in {"staged", "acquired", "running-open", "running-closed", "completed"}
  /\ parent.status \in Plain \cup {"none"}
  /\ shown \in {"None", "acquired", "running-open", "running-closed", "completed"}
  /\ ~cancelling.on /\ \A a \in Agents : ~killing[a]

(* Elements are only inserted while the request is open, or as the first   *)
(* ones after the queueing had died.                                       *)
Insertions ==
  /\ parent.processed \subseteq Present
  /\ queueing.on => queueing.left \subseteq FirstElements /\ FirstElements \ queueing.left \subseteq Present
  /\ queueing.on /\ queueing.left # {} => parent.open \/ (Present = {} /\ "queueing" \in Dying)
  /\ "queueing" \notin Dying /\ parent.status # "none" /\ ~queueing.on => FirstElements \subseteq Present
  /\ Present = {} => status = "staged" /\ shown = "None"
  /\ parent.open => status \in {"staged", "acquired", "running-open"}

(* All is over when the request is completed, or about to be; and what an  *)
(* agent was told is injected has begun.                                   *)
AllOver == \A e \in Present : Over(e)

Ends ==
  /\ status = "completed" \/ (shown = "completed" /\ ~parent.open) => AllOver
  /\ \A a \in Agents : injected[a] =>
       Present # {} /\ ~parent.open /\ \A e \in Present : Started(e)

Going == DocsPlain /\ GoesOn /\ Insertions /\ Ends

Uncancelled == asked = "nothing" => Going

(* Splitting succeeds, and a request of several elements is not queued in  *)
(* two attempts: between these it may be closed, and its first element may *)
(* complete it before the second is inserted.                              *)
QueuesOnce == ~SplitFails /\ ("queueing" \notin Dying \/ \A d, e \in FirstElements : d = e)

(* The paths of revisions, and documents with one live revision.           *)
LEMMA PrefixOfItself ==
  ASSUME NEW S, NEW s \in Seq(S)
  PROVE  IsPrefix(s, s)
  BY DEF IsPrefix

LEMMA PrefixOfEdit ==
  ASSUME NEW S, NEW s \in Seq(S), NEW t \in Seq(S), NEW x \in S, IsPrefix(s, t)
  PROVE  IsPrefix(s, Append(t, x))
<1>1. Len(s) \in Nat /\ Len(t) \in Nat /\ Len(s) <= Len(t) /\ SubSeq(s, 1, Len(s)) = SubSeq(t, 1, Len(s))
  BY DEF IsPrefix
<1>2. Len(Append(t, x)) = Len(t) + 1
  OBVIOUS
<1>3. SubSeq(Append(t, x), 1, Len(s)) = SubSeq(t, 1, Len(s))
  <2>1. Append(t, x) \in Seq(S)
    OBVIOUS
  <2>2. \A i \in 1..Len(s) : Append(t, x)[i] = t[i]
    BY <1>1
  <2> QED BY <1>1, <1>2, <2>1, <2>2
<1> QED BY <1>1, <1>2, <1>3 DEF IsPrefix

(* The one live revision is the one that is read.                          *)
LEMMA OneIsRead ==
  ASSUME NEW doc, Single(Live(doc)), Exists(doc)
  PROVE  Live(doc) = {Winner(doc)} /\ Winner(doc) \in doc
<1>1. PICK l : Live(doc) = {l}
  BY DEF Single, Exists
<1>2. Before(l, l)
  BY DEF Before
<1>3. Winner(doc) = l
  BY <1>1, <1>2 DEF Winner
<1> QED BY <1>1, <1>3 DEF Live

LEMMA FixedSame ==
  ASSUME NEW doc, NEW at, Single(Live(doc))
  PROVE  Fixed(doc, at) = doc
  BY DEF Fixed, Single

LEMMA FixesSame ==
  ASSUME QueueTypeOK, NEW a \in Agents, \A e \in Elements : Single(Live(inbox[a][e]))
  PROVE  Fixes(a) = inbox[a]
<1>1. \A e \in Elements : Fixed(inbox[a][e], a) = inbox[a][e]
  BY FixedSame
<1> QED BY <1>1 DEF Fixes, QueueTypeOK

(* An edit of the one live revision.                                       *)
LEMMA EditedLine ==
  ASSUME NEW doc \in SUBSET Revisions, NEW at \in Databases, NEW s, Single(Live(doc)), Exists(doc)
  PROVE  LET new == SetStatus(doc, at, s)
         IN  /\ Single(Live(new))
             /\ \A l \in Live(new) : l.status = s
             /\ \A g \in Revisions :
                  (\A l \in Live(doc) : IsPrefix(g.path, l.path)) =>
                     \A l \in Live(new) : IsPrefix(g.path, l.path)
<1> DEFINE w == Winner(doc)
           v == Edited(w, at, s, Child(doc))
<1>1. Live(doc) = {w} /\ w \in doc
  BY OneIsRead
<1>2. CASE Status(doc) = s
  <2>1. SetStatus(doc, at, s) = doc /\ w.status = s
    BY <1>2 DEF SetStatus, Status
  <2> QED BY <1>1, <2>1
<1>3. CASE Status(doc) # s
  <2>1. SetStatus(doc, at, s) = (doc \ {w}) \cup {v}
    BY <1>1, <1>3 DEF SetStatus, Save
  <2>2. Live((doc \ {w}) \cup {v}) \subseteq {v}
    BY <1>1 DEF Live
  <2>3. v.status = s /\ v.path = Append(w.path, at)
    BY DEF Edited, Revision
  <2>4. w.path \in Seq(Databases)
    BY <1>1 DEF Revisions
  <2>5. ASSUME NEW g \in Revisions, \A l \in Live(doc) : IsPrefix(g.path, l.path)
        PROVE  IsPrefix(g.path, v.path)
    <3>1. IsPrefix(g.path, w.path) /\ g.path \in Seq(Databases)
      BY <1>1, <2>5 DEF Revisions
    <3> QED BY <2>3, <2>4, <3>1, PrefixOfEdit
  <2> DEFINE new == SetStatus(doc, at, s)
  <2>6. Live(new) \subseteq {v}
    BY <2>1, <2>2
  <2> HIDE DEF v, w, new
  <2>7. Single(Live(new)) /\ \A l \in Live(new) : l.status = s
    BY <2>3, <2>6 DEF Single
  <2>8. \A g \in Revisions : (\A l \in Live(doc) : IsPrefix(g.path, l.path)) =>
                                \A l \in Live(new) : IsPrefix(g.path, l.path)
    BY <2>5, <2>6
  <2> QED BY <2>7, <2>8 DEF new
<1> QED BY <1>2, <1>3

(* What has begun, or is over, remains so.                                 *)
Begun(e) == (Started(e) => Started(e)') /\ (Over(e) => Over(e)')

LEMMA DocKept ==
  ASSUME NEW e \in Elements, DocPlain(e), Begun(e), gq'[e] = gq[e],
         \A a \in Agents : inbox'[a][e] = inbox[a][e]
  PROVE  DocPlain(e)'
  BY DEF DocPlain, InLine, PlainIn, Begun

LEMMA DocInserted ==
  ASSUME Holding, NEW e \in Elements, gq[e] = {}, gq'[e] = Insert(gq[e], Global, "Available"),
         inbox' = inbox
  PROVE  DocPlain(e)'
<1>1. \A a \in Agents : inbox[a][e] = {}
  BY DEF Holding, OneHolder, Free, TakenBy, Untouched
<1>2. gq'[e] = {Revision(<<Global>>, "Available", NoAgent)}
  BY DEF Insert
<1>3. Single(Live(gq'[e])) /\ \A l \in gq'[e] : l.status = "Available"
  BY <1>2 DEF Single, Live, Revision
<1>4. \A a \in Agents : Live(inbox'[a][e]) = {}
  BY <1>1 DEF Live
<1> QED BY <1>3, <1>4 DEF DocPlain, InLine, PlainIn, Plain, Live, Single

LEMMA DocPulled ==
  ASSUME Holding, NEW e \in Elements, NEW leaf \in gq[e], leaf.child = NoAgent, NEW a,
         gq'[e] = Save(gq[e], leaf, Global, "Negotiating", a), inbox' = inbox
  PROVE  DocPlain(e)'
<1>1. Free(e)
  BY DatabasesAssumption DEF Holding, OneHolder, TakenBy, Fine
<1>2. gq'[e] = {Edited(leaf, Global, "Negotiating", a)}
  BY <1>1 DEF Save, Free, Single
<1>3. Single(Live(gq'[e])) /\ \A l \in gq'[e] : l.status = "Negotiating"
  BY <1>2 DEF Single, Live, Edited, Revision
<1>4. \A b \in Agents : Live(inbox'[b][e]) = {}
  BY <1>1 DEF Free, Untouched, Live
<1> QED BY <1>3, <1>4 DEF DocPlain, InLine, PlainIn, Plain, Live, Single

LEMMA DocDeleted ==
  ASSUME QueueTypeOK, NEW e \in Elements, DocPlain(e), Begun(e), Over(e), Exists(gq[e]),
         gq'[e] = Delete(gq[e], Global), inbox' = inbox
  PROVE  DocPlain(e)'
<1>1. gq[e] \in SUBSET Revisions /\ Global \in Databases /\ Single(Live(gq[e]))
  BY DEF QueueTypeOK, Databases, DocPlain, InLine
<1>2. \A l \in Live(gq'[e]) : l.status = "deleted"
  BY <1>1, EditedLine DEF Delete
<1>3. Live(gq'[e]) = {}
  BY <1>2 DEF Live
<1>4. \A l \in gq'[e] : l.status = "deleted" => Over(e)'
  BY DEF Begun
<1>5. \A a \in Agents : PlainIn(inbox[a][e], e)' /\ Single(Live(inbox'[a][e]))
  BY DEF DocPlain, InLine, PlainIn, Begun
<1> QED BY <1>3, <1>4, <1>5 DEF DocPlain, InLine, PlainIn, Single

LEMMA InboxEdited ==
  ASSUME QueueTypeOK, NEW e \in Elements, DocPlain(e), Begun(e), NEW a \in Agents, gq'[e] = gq[e],
         \A b \in Agents \ {a} : inbox'[b][e] = inbox[b][e],
         NEW s \in Plain \cup {"deleted"}, s = "Running" => Started(e),
         Exists(inbox[a][e]), inbox'[a][e] = SetStatus(inbox[a][e], a, s)
  PROVE  DocPlain(e)'
<1>1. inbox[a][e] \in SUBSET Revisions /\ a \in Databases /\ Single(Live(inbox[a][e]))
  BY DEF QueueTypeOK, Databases, DocPlain, InLine
<1>2. /\ Single(Live(inbox'[a][e]))
      /\ \A l \in Live(inbox'[a][e]) : l.status = s
      /\ \A g \in Revisions :
           (\A l \in Live(inbox[a][e]) : IsPrefix(g.path, l.path)) =>
              \A l \in Live(inbox'[a][e]) : IsPrefix(g.path, l.path)
  BY <1>1, EditedLine
<1>3. Live(gq[e]) \subseteq Revisions
  BY DEF QueueTypeOK, Live
<1>4. PlainIn(inbox[a][e], e)'
  BY <1>2 DEF PlainIn, Begun, Live
<1>5. InLine(e)'
  BY <1>2, <1>3 DEF DocPlain, InLine
<1>6. \A b \in Agents \ {a} : PlainIn(inbox[b][e], e)'
  BY DEF DocPlain, PlainIn, Begun
<1>7. PlainIn(gq[e], e)' /\ \A l \in gq'[e] : l.status = "deleted" => Over(e)'
  BY DEF DocPlain, PlainIn, Begun
<1> QED BY <1>4, <1>5, <1>6, <1>7 DEF DocPlain

(* Replication brings what is further on, or nothing.                      *)
LEMMA ReceivedLine ==
  ASSUME NEW doc \in SUBSET Revisions, NEW source \in SUBSET Revisions, NEW a,
         Single(Live(doc)), Single(Live(source))
  PROVE  LET new == Received(doc, source, a)
         IN  /\ Live(new) \subseteq Live(doc) \cup Live(source)
             /\ (\A l \in Live(source), m \in Live(doc) : IsPrefix(l.path, m.path)) =>
                  Live(new) \subseteq Live(doc) \/ (Live(doc) = {} /\ Live(new) \subseteq Live(source))
             /\ (\A l \in Live(source), m \in Live(doc) : IsPrefix(m.path, l.path)) =>
                  Live(new) \subseteq Live(doc) \/ Live(new) \subseteq Live(source)
             /\ \A l \in new : l.status = "deleted" => l \in doc
<1> DEFINE come == {l \in Live(source) : l.child = a /\ \A m \in doc : ~IsPrefix(l.path, m.path)}
           left == {m \in doc : \A l \in come : ~IsPrefix(m.path, l.path)}
           new  == left \cup come
<1>1. Received(doc, source, a) = new
  BY DEF Received
<1>2. come \subseteq Live(source) /\ left \subseteq doc
  OBVIOUS
<1>3. Live(left) \subseteq Live(doc) /\ Live(new) = Live(left) \cup come
  BY <1>2 DEF Live
<1>4. ASSUME \A l \in Live(source), m \in Live(doc) : IsPrefix(l.path, m.path)
      PROVE  Live(new) \subseteq Live(doc) \/ (Live(doc) = {} /\ Live(new) \subseteq Live(source))
  <2>1. Live(doc) # {} => come = {}
    BY <1>4 DEF Live
  <2> HIDE DEF come, left
  <2> QED BY <1>2, <1>3, <2>1
<1>5. ASSUME \A l \in Live(source), m \in Live(doc) : IsPrefix(m.path, l.path)
      PROVE  Live(new) \subseteq Live(doc) \/ Live(new) \subseteq Live(source)
  <2>1. come # {} => Live(left) = {}
    BY <1>5 DEF Live
  <2> HIDE DEF come, left
  <2> QED BY <1>2, <1>3, <2>1
<1>6. \A l \in new : l.status = "deleted" => l \in doc
  BY <1>2 DEF Live
<1> HIDE DEF come, left
<1> QED BY <1>1, <1>2, <1>3, <1>4, <1>5, <1>6

(* Replication to the inbox, and back.                                     *)
LEMMA DocSentDown ==
  ASSUME QueueTypeOK, NEW e \in Elements, DocPlain(e), Begun(e), NEW a \in Agents, gq'[e] = gq[e],
         \A b \in Agents \ {a} : inbox'[b][e] = inbox[b][e],
         inbox'[a][e] = Received(inbox[a][e], gq[e], a)
  PROVE  DocPlain(e)'
<1>1. /\ gq[e] \in SUBSET Revisions /\ inbox[a][e] \in SUBSET Revisions
      /\ Single(Live(gq[e])) /\ Single(Live(inbox[a][e]))
  BY DEF QueueTypeOK, DocPlain, InLine
<1>2. \A g \in Live(gq[e]), l \in Live(inbox[a][e]) : IsPrefix(g.path, l.path)
  BY DEF DocPlain, InLine
<1>3. \/ Live(inbox'[a][e]) \subseteq Live(inbox[a][e])
      \/ Live(inbox[a][e]) = {} /\ Live(inbox'[a][e]) \subseteq Live(gq[e])
  BY <1>1, <1>2, ReceivedLine
<1>4. \A g \in Live(gq[e]) : IsPrefix(g.path, g.path)
  BY <1>1, PrefixOfItself DEF Live, Revisions
<1>5. /\ Single(Live(inbox'[a][e]))
      /\ \A g \in Live(gq[e]), l \in Live(inbox'[a][e]) : IsPrefix(g.path, l.path)
  <2>1. CASE Live(inbox'[a][e]) \subseteq Live(inbox[a][e])
    BY <1>1, <1>2, <2>1 DEF Single
  <2>2. CASE Live(inbox'[a][e]) \subseteq Live(gq[e])
    BY <1>1, <1>4, <2>2 DEF Single
  <2> QED BY <1>3, <2>1, <2>2
<1>6. InLine(e)'
  BY <1>5 DEF DocPlain, InLine
<1>7. PlainIn(inbox[a][e], e)'
  BY <1>3 DEF DocPlain, PlainIn, Begun
<1>8. \A b \in Agents \ {a} : PlainIn(inbox[b][e], e)'
  BY DEF DocPlain, PlainIn, Begun
<1>9. PlainIn(gq[e], e)' /\ \A l \in gq'[e] : l.status = "deleted" => Over(e)'
  BY DEF DocPlain, PlainIn, Begun
<1> QED BY <1>6, <1>7, <1>8, <1>9 DEF DocPlain

LEMMA DocSentUp ==
  ASSUME QueueTypeOK, Holding, NEW e \in Elements, DocPlain(e), Begun(e), NEW a \in Agents,
         inbox' = inbox, gq'[e] = Received(gq[e], inbox[a][e], a)
  PROVE  DocPlain(e)'
<1>1. /\ gq[e] \in SUBSET Revisions /\ inbox[a][e] \in SUBSET Revisions
      /\ Single(Live(gq[e])) /\ Single(Live(inbox[a][e]))
  BY DEF QueueTypeOK, DocPlain, InLine
<1>2. \A g \in Live(gq[e]), l \in Live(inbox[a][e]) : IsPrefix(g.path, l.path)
  BY DEF DocPlain, InLine
<1>3. \/ Live(gq'[e]) \subseteq Live(gq[e])
      \/ Live(gq'[e]) \subseteq Live(inbox[a][e])
  BY <1>1, <1>2, ReceivedLine
<1>4. \A l \in Live(inbox[a][e]) : IsPrefix(l.path, l.path)
  BY <1>1, PrefixOfItself DEF Live, Revisions
<1>5. Live(inbox[a][e]) # {} => \A b \in Agents \ {a} : Live(inbox[b][e]) = {}
  BY DEF Holding, OneHolder, Free, TakenBy, Untouched, Live
<1>6. InLine(e)'
  <2>1. CASE Live(gq'[e]) \subseteq Live(gq[e])
    BY <2>1 DEF DocPlain, InLine, Single
  <2>2. CASE Live(gq'[e]) \subseteq Live(inbox[a][e])
    <3>1. Single(Live(gq'[e]))
      BY <1>1, <2>2 DEF Single
    <3>2. \A g \in Live(gq'[e]), l \in Live(inbox[a][e]) : IsPrefix(g.path, l.path)
      BY <1>1, <1>4, <2>2 DEF Single
    <3>3. Live(gq'[e]) # {} => \A b \in Agents \ {a} : Live(inbox[b][e]) = {}
      BY <1>5, <2>2
    <3>4. \A b \in Agents : Single(Live(inbox[b][e]))
      BY DEF DocPlain, InLine
    <3> QED BY <3>1, <3>2, <3>3, <3>4 DEF InLine
  <2> QED BY <1>3, <2>1, <2>2
<1>7. PlainIn(gq[e], e)'
  BY <1>3 DEF DocPlain, PlainIn, Begun
<1>8. \A b \in Agents : PlainIn(inbox[b][e], e)'
  BY DEF DocPlain, PlainIn, Begun
<1>9. \A l \in gq'[e] : l.status = "deleted" => Over(e)'
  BY <1>1, ReceivedLine DEF DocPlain, Begun
<1> QED BY <1>6, <1>7, <1>8, <1>9 DEF DocPlain

(* What a step makes of an element's work in an agent.                     *)
LEMMA WorkSteps ==
  ASSUME QueueTypeOK, [Next]_queueVars, NEW a \in Agents, NEW e \in Elements
  PROVE  \/ wmbs'[a][e] = wmbs[a][e]
         \/ Inject(a, e)
         \/ wmbs[a][e] = "open" /\ wmbs'[a][e] = "over"
<1> USE DEF globalSide, agentWork, pollers, tasks
<1>1. ASSUME NEW b \in Agents, NEW d \in Elements, Inject(b, d)
      PROVE  wmbs'[a][e] = wmbs[a][e] \/ Inject(a, e)
  <2>1. \A x \in Agents, y \in Elements :
          wmbs'[x][y] = IF x = b /\ y = d THEN "open" ELSE wmbs[x][y]
    BY <1>1 DEF Inject, QueueTypeOK
  <2> QED BY <1>1, <2>1
<1>2. ASSUME NEW b \in Agents, NEW d \in Elements, Finish(b, d)
      PROVE  wmbs'[a][e] = wmbs[a][e] \/ (wmbs[a][e] = "open" /\ wmbs'[a][e] = "over")
  <2>1. \A x \in Agents, y \in Elements :
          wmbs'[x][y] = IF x = b /\ y = d THEN "over" ELSE wmbs[x][y]
    BY <1>2 DEF Finish, QueueTypeOK
  <2> QED BY <1>2, <2>1 DEF Finish
<1>3. ASSUME NEW b \in Agents, KillWMBS(b) \/ KillForbidden(b)
      PROVE  wmbs'[a][e] = wmbs[a][e] \/ (wmbs[a][e] = "open" /\ wmbs'[a][e] = "over")
  <2>1. \A x \in Agents, y \in Elements :
          wmbs'[x][y] = IF x = b THEN Killed(b)[y] ELSE wmbs[x][y]
    BY <1>3 DEF KillWMBS, KillForbidden, Killed, QueueTypeOK
  <2> QED BY <2>1 DEF Killed
<1>4. GlobalNext \/ ManagerNext \/ UNCHANGED queueVars => wmbs' = wmbs
  BY DEF GlobalNext, QueueWork, QueueWorkFails, InsertElement, QueueingDone, AddWork, CloseWork,
         DeleteCompletedGlobal, SyncGlobal, ListToCancel, CancelListed, GlobalFault,
         ManagerNext, UpdateView, MoveForward, MoveCancelled, CancelAgain, Ask, WriteStatus, ManagerFault,
         queueVars
<1>5. ASSUME NEW b \in Agents, LocalNext(b)
      PROVE  \/ wmbs' = wmbs \/ KillWMBS(b) \/ KillForbidden(b)
             \/ \E d \in Elements : Inject(b, d) \/ Finish(b, d)
  BY <1>5 DEF LocalNext, PullRead, PullSave, Split, SplitFailed, Acquire, FeedRead, MarkRunning,
         MarkInjected, ArchiveDone, SyncResults, CancelInbox, DeleteCompletedLocal, AgentFault
<1>6. ASSUME NEW b \in Agents, NEW d \in Elements, ReplicateDown(b, d) \/ ReplicateUp(b, d)
      PROVE  wmbs' = wmbs
  BY <1>6 DEF ReplicateDown, ReplicateUp
<1> QED BY <1>1, <1>2, <1>3, <1>4, <1>5, <1>6 DEF Next

(* Work that has begun stays begun.                                        *)
LEMMA WorkStaysBegun ==
  ASSUME QueueTypeOK, [Next]_queueVars, NEW e \in Elements
  PROVE  Begun(e)
<1>1. ASSUME NEW a \in Agents
      PROVE  /\ wmbs[a][e] # "none" => wmbs'[a][e] # "none"
             /\ wmbs[a][e] = "over" => wmbs'[a][e] = "over"
  BY WorkSteps DEF Inject
<1> QED BY <1>1 DEF Begun, Started, Over

(* What is read of an element.                                             *)
LEMMA ReadPlain ==
  ASSUME QueueTypeOK, Holding, DocsPlain, NEW e \in Queued
  PROVE  /\ Live(gq[e]) = {Winner(gq[e])} /\ Status(gq[e]) \in Plain
         /\ Status(gq[e]) = "Running" => Started(e)
         /\ Status(gq[e]) = "Done" => Over(e)
<1>1. e \in Elements /\ Exists(gq[e]) /\ DocPlain(e)
  BY DEF Queued, DocsPlain
<1>2. Live(gq[e]) = {Winner(gq[e])} /\ Winner(gq[e]) \in gq[e]
  BY <1>1, OneIsRead DEF DocPlain, InLine
<1>3. Status(gq[e]) = "Done" => Over(e)
  <2>1. CASE Free(e)
    BY <1>2, <2>1 DEF Free, Fine, Status
  <2>2. ASSUME NEW x \in Agents, TakenBy(x, e) PROVE Status(gq[e]) = "Done" => Over(e)
    BY <1>2, <2>2 DEF TakenBy, Fine, Status, Over
  <2> QED BY <1>1, <2>1, <2>2 DEF Holding, OneHolder
<1> QED BY <1>1, <1>2, <1>3 DEF DocPlain, PlainIn, Status

LEMMA HeldPlain ==
  ASSUME DocsPlain, NEW a \in Agents, NEW e \in Held(a)
  PROVE  Status(inbox[a][e]) \in Plain
<1>1. e \in Elements /\ Exists(inbox[a][e]) /\ DocPlain(e)
  BY DEF Held, DocsPlain
<1>2. Live(inbox[a][e]) = {Winner(inbox[a][e])}
  BY <1>1, OneIsRead DEF DocPlain, InLine
<1> QED BY <1>1, <1>2 DEF DocPlain, PlainIn, Status

LEMMA NoConflicts ==
  ASSUME QueueTypeOK, DocsPlain, NEW a \in Agents
  PROVE  Fixes(a) = inbox[a]
  BY FixesSame DEF DocsPlain, DocPlain, InLine

(* An element of which nothing is left is over.                            *)
LEMMA GoneIsOver ==
  ASSUME DocsPlain, NEW e \in Present \ Queued
  PROVE  Over(e)
  BY DEF Present, Queued, Exists, Live, DocsPlain, DocPlain

(* No step is taken for a cancellation.                                    *)
LEMMA NothingCancelled ==
  ASSUME QueueTypeOK, QueuesOnce, Holding, DocsPlain, GoesOn, asked = "nothing", asked' = "nothing"
  PROVE  /\ ~ListToCancel /\ ~CancelListed /\ ~CancelAgain /\ ~MoveCancelled
         /\ ~(\E what \in CancelStates : Ask(what)) /\ ~WriteStatus /\ ~ManagerFault
         /\ ~QueueWorkFails
         /\ \A a \in Agents : ~CancelInbox(a) /\ ~KillWMBS(a) /\ \A e \in Elements : ~SplitFailed(a, e)
<1>1. ElementStatuses \subseteq Plain
  BY ReadPlain DEF ElementStatuses
<1>2. GlobalResult # "CancelRequested" /\ UpdatedWith(parent.status, GlobalResult) # "CancelRequested"
  BY <1>1 DEF GlobalResult, ResultStatus, UpdatedWith, Plain, GoesOn, EndStates
<1>3. ~ListToCancel
  BY <1>2 DEF ListToCancel, GlobalCancels
<1>4. status \notin CancelStates /\ asked \notin CancelStates
  BY DEF GoesOn, CancelStates
<1>5. ~CancelListed /\ ~CancelAgain /\ ~MoveCancelled /\ ~WriteStatus /\ ~ManagerFault /\ ~QueueWorkFails
  BY <1>4
  DEF GoesOn, QueuesOnce, CancelListed, CancelAgain, MoveCancelled, WriteStatus, ManagerFault,
      QueueWorkFails
<1>6. ~(\E what \in CancelStates : Ask(what))
  BY DEF Ask, CancelStates
<1>7. ASSUME NEW a \in Agents
      PROVE  ~CancelInbox(a) /\ ~KillWMBS(a) /\ \A e \in Elements : ~SplitFailed(a, e)
  <2>1. ~CancelAsked(a)
    BY NoConflicts, HeldPlain DEF CancelAsked, Plain
  <2> QED BY <2>1 DEF CancelInbox, KillWMBS, SplitFailed, GoesOn, QueuesOnce
<1> QED BY <1>3, <1>5, <1>6, <1>7

(***************************************************************************)
(* The documents.                                                          *)
(***************************************************************************)
LEMMA GlobalDocs ==
  ASSUME QueueTypeOK, QueuesOnce, Holding, Going, asked = "nothing", asked' = "nothing",
         GlobalNext, NEW e \in Elements, Begun(e)
  PROVE  DocPlain(e)'
<1> USE DEF documents
<1>1. DocPlain(e)
  BY DEF Going, DocsPlain
<1>2. CASE gq'[e] = gq[e] /\ inbox' = inbox
  BY <1>1, <1>2, DocKept
<1>3. ASSUME NEW d \in Elements, InsertElement(d) PROVE DocPlain(e)'
  <2>1. gq[d] = {} BY <1>3 DEF InsertElement, Holding, NoneDeleted
  <2>2. e # d => gq'[e] = gq[e] BY <1>3 DEF InsertElement, QueueTypeOK
  <2>3. gq'[d] = Insert(gq[d], Global, "Available")
    BY <1>3, <2>1 DEF InsertElement, QueueTypeOK, Exists, Live
  <2>4. inbox' = inbox BY <1>3 DEF InsertElement
  <2> QED BY <1>2, <2>1, <2>2, <2>3, <2>4, DocInserted
<1>4. ASSUME NEW d \in Elements, AddWork(d) PROVE DocPlain(e)'
  <2>1. gq[d] = {} BY <1>4 DEF AddWork, Holding, NoneDeleted, Exists, Live
  <2>2. e # d => gq'[e] = gq[e] BY <1>4 DEF AddWork, QueueTypeOK
  <2>3. gq'[d] = Insert(gq[d], Global, "Available")
    BY <1>4 DEF AddWork, QueueTypeOK
  <2>4. inbox' = inbox BY <1>4 DEF AddWork
  <2> QED BY <1>2, <2>1, <2>2, <2>3, <2>4, DocInserted
<1>5. CASE DeleteCompletedGlobal
  <2>1. inbox' = inbox /\ gq'[e] = IF e \in Queued THEN Delete(gq[e], Global) ELSE gq[e]
    BY <1>5 DEF DeleteCompletedGlobal
  <2>2. AllOver
    BY <1>5 DEF DeleteCompletedGlobal, DeletableStates, Going, GoesOn, Ends
  <2>3. e \in Queued => Exists(gq[e]) /\ Over(e)
    BY <2>2 DEF AllOver, Queued, Present, Exists, Live
  <2> QED BY <1>1, <1>2, <2>1, <2>3, DocDeleted
<1>6. CASE QueueWork \/ QueueingDone \/ CloseWork \/ SyncGlobal \/ GlobalFault
  <2>1. UNCHANGED <<gq, inbox>>
    BY <1>6 DEF QueueWork, QueueingDone, CloseWork, SyncGlobal, GlobalFault
  <2> QED BY <1>2, <2>1
<1>7. ~QueueWorkFails /\ ~ListToCancel /\ ~CancelListed
  BY NothingCancelled DEF Going
<1> QED BY <1>3, <1>4, <1>5, <1>6, <1>7 DEF GlobalNext

LEMMA SyncedPlain ==
  ASSUME QueueTypeOK, Holding, DocsPlain, NEW a \in Agents, NEW e \in Elements
  PROVE  \/ Synced(a, e) = inbox[a][e]
         \/ /\ Exists(inbox[a][e])
            /\ \E s \in Plain : /\ s = "Running" => Started(e)
                                /\ Synced(a, e) = SetStatus(inbox[a][e], a, s)
<1> DEFINE doc == Fixes(a)[e]
           result == ResultStatus({local[a][e]} \ {"none"}, Status(doc))
           new == UpdatedWith(Status(doc), result)
<1>1. doc = inbox[a][e]
  BY NoConflicts
<1>2. CASE ~Exists(doc) \/ result = "Negotiating" \/ new = Status(doc)
  BY <1>1, <1>2 DEF Synced
<1>3. CASE ~(~Exists(doc) \/ result = "Negotiating" \/ new = Status(doc))
  <2>1. Synced(a, e) = SetStatus(doc, a, new) BY <1>3 DEF Synced
  <2>2. new = result BY <1>3 DEF UpdatedWith
  <2>3. local[a][e] \in {"none", "Available", "Running", "Done"}
    BY DEF QueueTypeOK
  <2>4. local[a][e] # "none"
    BY <1>3, <2>2 DEF ResultStatus
  <2>5. new \in Plain /\ (new = "Running" => local[a][e] = "Running")
    BY <2>2, <2>3, <2>4 DEF ResultStatus, EndStates, Plain
  <2>6. local[a][e] = "Running" => Started(e)
    BY DEF Holding, OneHolder, Free, TakenBy, Untouched, Started
  <2> HIDE DEF doc, new
  <2> QED BY <1>1, <1>3, <2>1, <2>5, <2>6
<1> QED BY <1>2, <1>3

LEMMA LocalDocs ==
  ASSUME QueueTypeOK, QueuesOnce, Holding, Going, asked = "nothing", asked' = "nothing",
         NEW a \in Agents, LocalNext(a), NEW e \in Elements, Begun(e)
  PROVE  DocPlain(e)'
<1> USE DEF globalSide
<1>1. DocPlain(e)
  BY DEF Going, DocsPlain
<1>2. CASE gq'[e] = gq[e] /\ inbox' = inbox
  BY <1>1, <1>2, DocKept
<1>3. CASE PullSave(a)
  <2> DEFINE read == {p \in pulled[a] : p[1] = e}
             mine == (CHOOSE p \in read : TRUE)[2]
  <2>1. inbox' = inbox /\ gq'[e] = IF read = {} THEN gq[e] ELSE Save(gq[e], mine, Global, "Negotiating", a)
    BY <1>3 DEF PullSave
  <2>2. read # {} => mine.child = NoAgent
    BY DEF Holding, ReadFree
  <2> HIDE DEF read, mine
  <2>3. CASE read # {} /\ mine \in gq[e]
    BY <2>1, <2>2, <2>3, DocPulled
  <2>4. CASE ~(read # {} /\ mine \in gq[e])
    BY <1>2, <2>1, <2>4 DEF Save
  <2> QED BY <2>3, <2>4
<1>4. ASSUME NEW d \in Elements, Split(a, d) PROVE DocPlain(e)'
  <2>1. inbox' = [inbox EXCEPT ![a] = inbox[a]] /\ gq' = gq
    BY <1>4, NoConflicts DEF Split, Going
  <2>2. inbox' = inbox
    BY <2>1 DEF QueueTypeOK
  <2> QED BY <1>2, <2>1, <2>2
<1>5. ASSUME gq' = gq, \A b \in Agents \ {a} : inbox'[b][e] = inbox[b][e],
             \/ inbox'[a][e] = inbox[a][e]
             \/ /\ Exists(inbox[a][e])
                /\ \E s \in Plain \cup {"deleted"} :
                     (s = "Running" => Started(e)) /\ inbox'[a][e] = SetStatus(inbox[a][e], a, s)
      PROVE  DocPlain(e)'
  BY <1>1, <1>5, DocKept, InboxEdited
<1>6. ASSUME NEW d \in Elements, Acquire(a, d) PROVE DocPlain(e)'
  <2>1. \A b \in Agents, x \in Elements :
          inbox'[b][x] = IF b = a /\ x = d
                         THEN IF Exists(inbox[a][d]) THEN SetStatus(inbox[a][d], a, "Acquired") ELSE inbox[a][d]
                         ELSE inbox[b][x]
    BY <1>6 DEF Acquire, QueueTypeOK
  <2>2. gq' = gq
    BY <1>6 DEF Acquire
  <2> QED BY <1>5, <2>1, <2>2 DEF Plain
<1>7. CASE SyncResults(a)
  <2>1. gq' = gq /\ \A b \in Agents : inbox'[b][e] = IF b = a THEN Synced(a, e) ELSE inbox[b][e]
    BY <1>7 DEF SyncResults, QueueTypeOK
  <2> QED BY <1>5, <2>1, SyncedPlain DEF Going
<1>8. CASE DeleteCompletedLocal(a)
  <2>1. gq' = gq /\ \A b \in Agents :
          inbox'[b][e] = IF b = a /\ e \in Held(a) THEN Delete(inbox[b][e], a) ELSE inbox[b][e]
    BY <1>8 DEF DeleteCompletedLocal, QueueTypeOK
  <2> QED BY <1>5, <2>1 DEF Delete, Held
<1>9. CASE \/ PullRead(a) \/ FeedRead(a) \/ MarkInjected(a) \/ ArchiveDone(a)
           \/ KillForbidden(a) \/ AgentFault(a)
           \/ \E d \in Elements : Inject(a, d) \/ MarkRunning(a, d) \/ Finish(a, d)
  <2>1. UNCHANGED <<gq, inbox>>
    BY <1>9
    DEF PullRead, FeedRead, MarkInjected, ArchiveDone, KillForbidden, AgentFault, Inject, MarkRunning, Finish
  <2> QED BY <1>2, <2>1
<1>10. ~CancelInbox(a) /\ ~KillWMBS(a) /\ \A d \in Elements : ~SplitFailed(a, d)
  BY NothingCancelled DEF Going
<1> QED BY <1>3, <1>4, <1>6, <1>7, <1>8, <1>9, <1>10 DEF LocalNext

LEMMA KeepsDocsPlain ==
  ASSUME QueueTypeOK, QueuesOnce, Holding, Going, asked = "nothing", asked' = "nothing", Next
  PROVE  DocsPlain'
<1> SUFFICES ASSUME NEW e \in Elements PROVE DocPlain(e)'
  BY DEF DocsPlain
<1>1. DocPlain(e) /\ Begun(e)
  BY WorkStaysBegun DEF Going, DocsPlain
<1>2. CASE ManagerNext
  <2>1. UpdateView \/ MoveForward
    BY <1>2, NothingCancelled DEF ManagerNext, Going
  <2>2. gq' = gq /\ inbox' = inbox
    BY <2>1 DEF UpdateView, MoveForward, documents
  <2> QED BY <1>1, <2>2, DocKept
<1>3. ASSUME NEW a \in Agents, NEW d \in Elements, ReplicateDown(a, d) PROVE DocPlain(e)'
  <2>1. gq' = gq /\ \A b \in Agents, x \in Elements :
          inbox'[b][x] = IF b = a /\ x = d THEN Received(inbox[a][d], gq[d], a) ELSE inbox[b][x]
    BY <1>3 DEF ReplicateDown, QueueTypeOK, globalSide
  <2>2. CASE e = d
    BY <1>1, <2>1, <2>2, DocSentDown
  <2>3. CASE e # d
    BY <1>1, <2>1, <2>3, DocKept
  <2> QED BY <2>2, <2>3
<1>4. ASSUME NEW a \in Agents, NEW d \in Elements, ReplicateUp(a, d) PROVE DocPlain(e)'
  <2>1. inbox' = inbox /\ gq'[e] = IF e = d THEN Received(gq[d], inbox[a][d], a) ELSE gq[e]
    BY <1>4 DEF ReplicateUp, QueueTypeOK
  <2>2. CASE e = d
    BY <1>1, <2>1, <2>2, DocSentUp
  <2>3. CASE e # d
    BY <1>1, <2>1, <2>3, DocKept
  <2> QED BY <2>2, <2>3
<1> QED BY <1>1, <1>2, <1>3, <1>4, GlobalDocs, LocalDocs DEF Next

(***************************************************************************)
(* The request.                                                            *)
(***************************************************************************)
LEMMA RequestPlain ==
  ASSUME QueueTypeOK, Holding, DocsPlain
  PROVE  LET s == RequestStatusOf(ElementStatuses)
         IN  /\ s \in {"None", "acquired", "running-open", "running-closed", "completed"}
             /\ s = "completed" => AllOver
             /\ Present = {} => s = "None"
<1> DEFINE S == ElementStatuses
<1>1. S \subseteq Plain
  BY ReadPlain DEF ElementStatuses
<1>2. RequestStatusOf(S) \in {"None", "acquired", "running-open", "running-closed", "completed"}
  BY <1>1 DEF RequestStatusOf, Plain, EndStates
<1>3. RequestStatusOf(S) = "completed" => S \subseteq {"Done"}
  BY <1>1 DEF RequestStatusOf, Plain, EndStates
<1>4. S \subseteq {"Done"} => AllOver
  BY ReadPlain, GoneIsOver DEF AllOver, ElementStatuses, Present
<1>5. Present = {} => S = {}
  BY DEF ElementStatuses, Queued, Present, Exists, Live
<1>6. S = {} => RequestStatusOf(S) = "None"
  BY DEF RequestStatusOf
<1> QED BY <1>2, <1>3, <1>4, <1>5, <1>6

LEMMA NoneLost ==
  ASSUME QueueTypeOK, Holding, NEW a \in Agents,
         LocalNext(a) \/ \E d \in Elements : ReplicateDown(a, d) \/ ReplicateUp(a, d)
  PROVE  Present' = Present
<1> USE DEF globalSide
<1>1. \A e \in Elements : gq[e] = {} => gq'[e] = {}
  BY LocalQuiet DEF Quiet
<1>2. CASE PullSave(a)
  BY <1>2 DEF PullSave, Save, Present
<1>3. ASSUME NEW d \in Elements, ReplicateUp(a, d) PROVE \A e \in Elements : gq[e] # {} => gq'[e] # {}
  <2>1. ASSUME NEW doc, NEW source, doc # {} PROVE Received(doc, source, a) # {}
    BY <2>1 DEF Received
  <2>2. \A e \in Elements : gq'[e] = IF e = d THEN Received(gq[d], inbox[a][d], a) ELSE gq[e]
    BY <1>3 DEF ReplicateUp, QueueTypeOK
  <2> QED BY <2>1, <2>2
<1>4. ASSUME NEW d \in Elements, ReplicateDown(a, d) PROVE gq' = gq
  BY <1>4 DEF ReplicateDown
<1>5. CASE LocalNext(a) /\ ~PullSave(a)
  <2>1. gq' = gq
    BY <1>5
    DEF LocalNext, PullRead, Split, SplitFailed, Acquire, FeedRead, Inject, MarkRunning, MarkInjected,
        Finish, ArchiveDone, SyncResults, KillWMBS, CancelInbox, KillForbidden, DeleteCompletedLocal,
        AgentFault
  <2> QED BY <2>1 DEF Present
<1> QED BY <1>1, <1>2, <1>3, <1>4, <1>5 DEF Present

(* Injected is said when all has begun and nothing more is to come.        *)
LEMMA InjectedBegun ==
  ASSUME QueueTypeOK, Holding, DocsPlain, NEW a \in Agents, MarkInjected(a)
  PROVE  Present # {} /\ ~parent.open /\ \A e \in Present : Started(e)
<1>1. PICK d \in Elements : wmbs[a][d] # "none"
  BY DEF MarkInjected
<1>2. d \in Present
  BY <1>1 DEF Holding, OneHolder, Free, TakenBy, Untouched, Present
<1>3. \A e \in Elements : Over(e) => Started(e)
  BY DEF Over, Started
<1>4. \A e \in Present \ Queued : Started(e)
  BY <1>3, GoneIsOver DEF Present
<1>5. CASE AllInjected
  <2>1. \A e \in Queued : Status(gq[e]) \in {"Running", "Done"}
    BY <1>5, ReadPlain DEF AllInjected, ElementStatuses, Plain
  <2>2. \A e \in Queued : Started(e)
    BY <1>3, <2>1, ReadPlain DEF Queued
  <2> QED BY <1>2, <1>4, <1>5, <2>2 DEF AllInjected
<1>6. CASE Queued = {}
  <2>1. \E l \in gq[d] : l.status = "deleted"
    BY <1>2, <1>6 DEF Queued, Present, Exists, Live
  <2>2. ~parent.open
    BY <2>1 DEF Holding, NoneDeleted
  <2> QED BY <1>2, <1>4, <1>6, <2>2
<1> QED BY <1>5, <1>6 DEF MarkInjected

LEMMA AgentsGoOn ==
  ASSUME QueueTypeOK, QueuesOnce, Holding, Going, asked = "nothing", asked' = "nothing",
         NEW a \in Agents, LocalNext(a) \/ \E d \in Elements : ReplicateDown(a, d) \/ ReplicateUp(a, d),
         \A e \in Elements : Begun(e)
  PROVE  GoesOn' /\ Insertions' /\ Ends'
<1> USE DEF globalSide, agentWork, tasks, pollers
<1>1. Present' = Present
  BY NoneLost
<1>2. UNCHANGED <<status, parent, shown, queueing, cancelling>>
  BY
  DEF LocalNext, PullRead, PullSave, Split, SplitFailed, Acquire, FeedRead, Inject, MarkRunning,
      MarkInjected, Finish, ArchiveDone, SyncResults, KillWMBS, CancelInbox, KillForbidden,
      DeleteCompletedLocal, AgentFault, ReplicateDown, ReplicateUp
<1>3. \A b \in Agents : ~killing'[b]
  <2>1. killing' = killing \/ \E b \in Agents : killing' = [killing EXCEPT ![b] = FALSE]
    BY NothingCancelled
    DEF LocalNext, PullRead, PullSave, Split, Acquire, FeedRead, Inject, MarkRunning,
        MarkInjected, Finish, ArchiveDone, SyncResults, KillForbidden,
        DeleteCompletedLocal, AgentFault, ReplicateDown, ReplicateUp, Going
  <2> QED BY <2>1 DEF Going, GoesOn, QueueTypeOK
<1>4. \A b \in Agents : injected'[b] => injected[b] \/ MarkInjected(b)
  BY DEF QueueTypeOK, LocalNext, PullRead, PullSave, Split, SplitFailed, Acquire, FeedRead, Inject, MarkRunning,
      MarkInjected, Finish, ArchiveDone, SyncResults, KillWMBS, CancelInbox, KillForbidden,
      DeleteCompletedLocal, AgentFault, ReplicateDown, ReplicateUp
<1>5. \A b \in Agents : injected'[b] => Present # {} /\ ~parent.open /\ \A e \in Present : Started(e)
  BY <1>4, InjectedBegun DEF Going, Ends
<1>6. GoesOn'
  BY <1>2, <1>3 DEF Going, GoesOn
<1>7. Insertions'
  BY <1>1, <1>2 DEF Going, Insertions
<1>8. AllOver => AllOver'
  BY <1>1 DEF AllOver, Begun, Present
<1>9. \A e \in Present : Started(e) => Started(e)'
  BY DEF Begun, Present
<1>10. Ends'
  BY <1>1, <1>2, <1>5, <1>8, <1>9 DEF Going, Ends
<1> QED BY <1>6, <1>7, <1>10

(* ReqMgr2 moves the request forward by one status.                        *)
LEMMA Forwards ==
  ASSUME GoesOn, NEW s \in Forward
  PROVE  \/ status = "staged" /\ s = "acquired"
            /\ WQEStatus \in {"acquired", "running-open", "running-closed", "completed"}
         \/ status = "acquired" /\ s = "running-open"
            /\ WQEStatus \in {"running-open", "running-closed", "completed"}
         \/ status = "running-open" /\ s = "running-closed" /\ WQEStatus \in {"running-closed", "completed"}
         \/ status = "running-closed" /\ s = "completed" /\ WQEStatus = "completed"
<1>1. WQEStatus \in {"None", "acquired", "running-open", "running-closed", "completed"}
  BY DEF WQEStatus, GoesOn
<1>2. WQEStatus \in Range(AutoTransition(status)) /\ s = Head(AutoTransition(status))
  BY <1>1 DEF Forward
<1>3. Range(<<"acquired", "running-open", "running-closed", "completed">>)
        = {"acquired", "running-open", "running-closed", "completed"}
  BY DEF Range
<1>4. Range(<<"running-open", "running-closed", "completed">>)
        = {"running-open", "running-closed", "completed"}
  BY DEF Range
<1>5. Range(<<"running-closed", "completed">>) = {"running-closed", "completed"}
  BY DEF Range
<1>6. Range(<<"completed">>) = {"completed"} /\ Range(<<>>) = {}
  BY DEF Range
<1>7. CASE status = "staged"
  BY <1>2, <1>3, <1>7 DEF AutoTransition
<1>8. CASE status = "acquired"
  BY <1>2, <1>4, <1>8 DEF AutoTransition
<1>9. CASE status = "running-open"
  BY <1>2, <1>5, <1>9 DEF AutoTransition
<1>10. CASE status = "running-closed"
  BY <1>2, <1>6, <1>10 DEF AutoTransition
<1>11. CASE status = "completed"
  BY <1>2, <1>6, <1>11 DEF AutoTransition
<1> QED BY <1>7, <1>8, <1>9, <1>10, <1>11 DEF GoesOn

LEMMA ManagerGoesOn ==
  ASSUME QueueTypeOK, QueuesOnce, Holding, Going, asked = "nothing", asked' = "nothing", ManagerNext
  PROVE  GoesOn' /\ Insertions' /\ Ends'
<1> USE DEF documents, agentWork, tasks, pollers
<1>1. UpdateView \/ MoveForward
  BY NothingCancelled DEF ManagerNext, Going
<1>2. UNCHANGED <<gq, wmbs, parent, injected, killing, queueing, cancelling>>
  BY <1>1 DEF UpdateView, MoveForward
<1>3. Present' = Present /\ AllOver' = AllOver /\ \A e \in Elements : Started(e)' = Started(e)
  BY <1>2 DEF Present, AllOver, Over, Started
<1>4. CASE UpdateView
  <2>1. status' = status /\ shown' = RequestStatusOf(ElementStatuses)
    BY <1>4 DEF UpdateView
  <2>2. /\ shown' \in {"None", "acquired", "running-open", "running-closed", "completed"}
        /\ shown' = "completed" => AllOver
        /\ Present = {} => shown' = "None"
    BY <2>1, RequestPlain DEF Going
  <2>3. GoesOn'
    BY <1>2, <2>1, <2>2 DEF Going, GoesOn
  <2>4. Insertions'
    BY <1>2, <1>3, <2>1, <2>2 DEF Going, Insertions
  <2>5. Ends'
    BY <1>2, <1>3, <2>1, <2>2 DEF Going, Ends, Present
  <2> QED BY <2>3, <2>4, <2>5
<1>5. CASE MoveForward
  <2>1. shown' = shown /\ status' \in Forward
    BY <1>5 DEF MoveForward
  <2>2. \/ status' = "acquired" /\ shown # "None"
        \/ status' = "running-open" /\ shown # "None"
        \/ status' = "running-closed" /\ shown # "None" /\ ~parent.open
        \/ status' = "completed" /\ shown = "completed" /\ ~parent.open
    BY <2>1, Forwards DEF Going, WQEStatus, GoesOn
  <2>3. GoesOn'
    BY <1>2, <2>1, <2>2 DEF Going, GoesOn
  <2>4. Insertions'
    BY <1>2, <1>3, <2>1, <2>2 DEF Going, Insertions
  <2>5. Ends'
    BY <1>2, <1>3, <2>1, <2>2 DEF Going, Ends, Present
  <2> QED BY <2>3, <2>4, <2>5
<1> QED BY <1>1, <1>4, <1>5

(* The global queue inserts elements, closes the request and deletes.      *)
LEMMA InsertionGoesOn ==
  ASSUME QueueTypeOK, QueuesOnce, Holding, Going, NEW e \in Elements, InsertElement(e) \/ AddWork(e)
  PROVE  GoesOn' /\ Insertions' /\ Ends'
<1> USE DEF documents, agentWork, tasks, pollers
<1>1. gq[e] = {}
  BY DEF InsertElement, AddWork, Holding, NoneDeleted, Exists, Live
<1>2. gq'[e] = Insert(gq[e], Global, "Available")
  BY <1>1 DEF InsertElement, AddWork, QueueTypeOK, Exists, Live
<1>3. \A d \in Elements : d # e => gq'[d] = gq[d]
  BY DEF InsertElement, AddWork, QueueTypeOK
<1>4. gq'[e] # {}
  BY <1>1, <1>2 DEF Insert
<1>5. Present' = Present \cup {e}
  BY <1>3, <1>4 DEF Present
<1>6. UNCHANGED <<status, shown, wmbs, injected, cancelling, killing>>
  BY DEF InsertElement, AddWork
<1>7. parent'.status = parent.status /\ parent'.open = parent.open
  BY DEF InsertElement, AddWork, QueueTypeOK
<1>8. GoesOn'
  BY <1>6, <1>7 DEF Going, GoesOn
<1>9. parent.open \/ (Present = {} /\ "queueing" \in Dying /\ queueing.on /\ e \in FirstElements)
  BY DEF InsertElement, AddWork, Going, Insertions
<1>10. status # "completed" /\ ~(shown = "completed" /\ ~parent.open) /\ \A a \in Agents : ~injected[a]
  BY <1>9 DEF Going, Insertions, Ends
<1>11. Ends'
  BY <1>6, <1>7, <1>10 DEF Ends
<1>12. CASE InsertElement(e)
  <2>1. queueing.on /\ queueing'.on /\ queueing'.left = queueing.left \ {e} /\ parent' = parent
    BY <1>12 DEF InsertElement, QueueTypeOK
  <2>2. queueing'.left # {} => parent.open
    <3>1. CASE \A c, d \in FirstElements : c = d
      BY <1>12, <2>1, <3>1 DEF InsertElement, Going, Insertions
    <3>2. CASE "queueing" \notin Dying
      BY <1>9, <3>2
    <3> QED BY <3>1, <3>2 DEF QueuesOnce
  <2> QED BY <1>5, <1>6, <1>8, <1>11, <2>1, <2>2 DEF Going, Insertions
<1>13. CASE AddWork(e)
  <2>1. queueing' = queueing /\ ~queueing.on /\ parent'.processed = parent.processed \cup {e}
    BY <1>13 DEF AddWork, QueueTypeOK
  <2> QED BY <1>5, <1>6, <1>7, <1>8, <1>11, <2>1 DEF Going, Insertions
<1> QED BY <1>12, <1>13

LEMMA GlobalGoesOn ==
  ASSUME QueueTypeOK, QueuesOnce, Holding, Going, asked = "nothing", asked' = "nothing", GlobalNext,
         \A e \in Elements : ~InsertElement(e) /\ ~AddWork(e)
  PROVE  GoesOn' /\ Insertions' /\ Ends'
<1> USE DEF documents, agentWork, tasks, pollers
<1>1. QueueWork \/ QueueingDone \/ CloseWork \/ SyncGlobal \/ GlobalFault \/ DeleteCompletedGlobal
  BY NothingCancelled DEF GlobalNext, Going
<1>2. UNCHANGED <<status, shown, wmbs, injected, killing>>
  BY <1>1 DEF QueueWork, QueueingDone, CloseWork, SyncGlobal, GlobalFault, DeleteCompletedGlobal
<1>3. Present' = Present
  <2>1. CASE DeleteCompletedGlobal
    <3>1. ASSUME NEW doc PROVE Delete(doc, Global) = {} <=> doc = {}
      BY DEF Delete, SetStatus, Save
    <3>2. \A e \in Elements : gq'[e] = {} <=> gq[e] = {}
      BY <2>1, <3>1 DEF DeleteCompletedGlobal
    <3> QED BY <3>2 DEF Present
  <2>2. CASE ~DeleteCompletedGlobal
    BY <1>1, <2>2 DEF QueueWork, QueueingDone, CloseWork, SyncGlobal, GlobalFault, Present
  <2> QED BY <2>1, <2>2
<1>4. AllOver' = AllOver /\ \A e \in Elements : Started(e)' = Started(e)
  BY <1>2, <1>3 DEF AllOver, Over, Started
<1>5. CASE QueueWork
  <2>1. Present = {}
    BY <1>5 DEF QueueWork, Queued, Present, Exists, Live, Holding, NoneDeleted
  <2>2. queueing' = [on |-> TRUE, left |-> FirstElements] /\ cancelling' = cancelling /\ status = "staged"
    BY <1>5 DEF QueueWork
  <2>3. \/ parent' = parent /\ parent.status # "none"
        \/ parent' = [status |-> "Negotiating", open |-> TRUE, processed |-> {}]
    BY <1>5 DEF QueueWork
  <2>4. "queueing" \notin Dying /\ parent.status # "none" => FirstElements = {}
    BY <1>5, <2>1 DEF QueueWork, Going, Insertions
  <2>5. GoesOn'
    BY <1>2, <2>2, <2>3 DEF Going, GoesOn, Plain
  <2>6. Insertions'
    BY <1>2, <1>3, <2>1, <2>2, <2>3, <2>4 DEF Going, Insertions
  <2>7. Ends'
    BY <1>2, <1>3, <1>4, <2>1, <2>2, <2>3 DEF Going, Ends, Insertions
  <2> QED BY <2>5, <2>6, <2>7
<1>6. CASE QueueingDone
  <2>1. queueing = [on |-> TRUE, left |-> {}] /\ queueing' = NotQueueing /\ cancelling' = cancelling
    BY <1>6 DEF QueueingDone
  <2>2. FirstElements \subseteq Present
    BY <2>1 DEF Going, Insertions
  <2>3. /\ parent'.open = parent.open /\ parent'.status \in {parent.status, "Acquired"}
        /\ parent'.processed \in {parent.processed, FirstElements}
    BY <1>6 DEF QueueingDone, QueueTypeOK
  <2>4. GoesOn'
    BY <1>2, <2>1, <2>3 DEF Going, GoesOn, Plain
  <2>5. Insertions'
    BY <1>2, <1>3, <2>1, <2>2, <2>3 DEF Going, Insertions, NotQueueing
  <2>6. Ends'
    BY <1>2, <1>3, <1>4, <2>3 DEF Going, Ends, Present
  <2> QED BY <2>4, <2>5, <2>6
<1>7. CASE CloseWork
  <2>1. /\ ~queueing.on /\ parent.open
        /\ shown = "completed" => RequestStatusOf(ElementStatuses) = "completed"
        /\ queueing' = queueing /\ cancelling' = cancelling
        /\ ~parent'.open /\ parent'.status = parent.status /\ parent'.processed = parent.processed
    BY <1>7 DEF CloseWork, QueueTypeOK
  <2>2. shown = "completed" => AllOver
    BY <2>1, RequestPlain DEF Going
  <2>3. GoesOn'
    BY <1>2, <2>1 DEF Going, GoesOn
  <2>4. Insertions'
    BY <1>2, <1>3, <2>1 DEF Going, Insertions
  <2>5. Ends'
    BY <1>2, <1>3, <1>4, <2>1, <2>2 DEF Going, Ends, Present
  <2> QED BY <2>3, <2>4, <2>5
<1>8. CASE SyncGlobal
  <2>1. /\ queueing' = queueing /\ cancelling' = cancelling /\ parent.status # "none"
        /\ parent'.status = UpdatedWith(parent.status, GlobalResult)
        /\ parent'.open = parent.open /\ parent'.processed = parent.processed
    BY <1>8 DEF SyncGlobal, QueueTypeOK
  <2>2. ElementStatuses \subseteq Plain
    BY ReadPlain DEF ElementStatuses, Going
  <2>3. parent'.status \in Plain
    BY <2>1, <2>2 DEF GlobalResult, ResultStatus, UpdatedWith, Plain, EndStates, Going, GoesOn, Statuses, Rank
  <2>4. GoesOn'
    BY <1>2, <2>1, <2>3 DEF Going, GoesOn
  <2>5. Insertions'
    BY <1>2, <1>3, <2>1 DEF Going, Insertions
  <2>6. Ends'
    BY <1>2, <1>3, <1>4, <2>1 DEF Going, Ends, Present
  <2> QED BY <2>4, <2>5, <2>6
<1>9. CASE GlobalFault
  <2>1. /\ "queueing" \in Dying /\ queueing' = NotQueueing /\ cancelling' = cancelling /\ parent' = parent
    BY <1>9 DEF GlobalFault, Going, GoesOn
  <2>2. GoesOn'
    BY <1>2, <2>1 DEF Going, GoesOn
  <2>3. Insertions'
    BY <1>2, <1>3, <2>1 DEF Going, Insertions, NotQueueing
  <2>4. Ends'
    BY <1>2, <1>3, <1>4, <2>1 DEF Going, Ends, Present
  <2> QED BY <2>2, <2>3, <2>4
<1>10. CASE DeleteCompletedGlobal
  <2>1. queueing' = queueing /\ cancelling' = cancelling /\ parent' = NoParent /\ status \in DeletableStates
    BY <1>10 DEF DeleteCompletedGlobal
  <2>2. status = "completed" /\ AllOver /\ Present # {}
    BY <2>1 DEF Going, GoesOn, Insertions, Ends, DeletableStates
  <2>3. queueing.on => queueing.left = {}
    BY <2>2 DEF Going, Insertions
  <2>4. GoesOn'
    BY <1>2, <2>1 DEF Going, GoesOn, NoParent
  <2>5. Insertions'
    BY <1>2, <1>3, <2>1, <2>2, <2>3 DEF Going, Insertions, NoParent
  <2>6. Ends'
    BY <1>2, <1>3, <1>4, <2>1, <2>2 DEF Going, Ends, NoParent, Present
  <2> QED BY <2>4, <2>5, <2>6
<1> QED BY <1>1, <1>5, <1>6, <1>7, <1>8, <1>9, <1>10

(***************************************************************************)
(* The theorems about a request that nobody cancels.                       *)
(***************************************************************************)
LEMMA KeepsGoing ==
  ASSUME QueueTypeOK, QueuesOnce, Holding, Going, asked = "nothing", asked' = "nothing", Next
  PROVE  Going'
<1>1. DocsPlain'
  BY KeepsDocsPlain
<1>2. \A e \in Elements : Begun(e)
  BY WorkStaysBegun
<1>3. CASE GlobalNext
  BY <1>1, <1>3, GlobalGoesOn, InsertionGoesOn DEF Going
<1>4. CASE ManagerNext
  BY <1>1, <1>4, ManagerGoesOn DEF Going
<1>5. ASSUME NEW a \in Agents, LocalNext(a) \/ \E d \in Elements : ReplicateDown(a, d) \/ ReplicateUp(a, d)
      PROVE  GoesOn' /\ Insertions' /\ Ends'
  BY <1>2, <1>5, AgentsGoOn
<1> QED BY <1>1, <1>3, <1>4, <1>5 DEF Next, Going

(* Until the operator cancels it, a request, its documents, its insertions *)
(* and its end are as Uncancelled says.                                    *)
THEOREM UncancelledCorrect ==
  ASSUME QueuesOnce PROVE Spec => []Uncancelled
<1>1. Init => Uncancelled
  BY
  DEF Init, Uncancelled, Going, DocsPlain, DocPlain, InLine, PlainIn, Single, Live, GoesOn, Insertions,
      Ends, AllOver, Present, NoParent, NotQueueing, NotCancelling
<1>2. QueueTypeOK /\ Holding /\ Uncancelled /\ [Next]_queueVars => Uncancelled'
  <2> SUFFICES ASSUME QueueTypeOK, Holding, Uncancelled, [Next]_queueVars, asked' = "nothing" PROVE Going'
    BY DEF Uncancelled
  <2>1. asked = "nothing"
    BY
    DEF Next, GlobalNext, QueueWork, QueueWorkFails, InsertElement, QueueingDone, AddWork, CloseWork,
        DeleteCompletedGlobal, SyncGlobal, ListToCancel, CancelListed, GlobalFault, ManagerNext,
        UpdateView, MoveForward, MoveCancelled, CancelAgain, Ask, WriteStatus, ManagerFault, CancelStates,
        LocalNext, PullRead, PullSave, Split, SplitFailed, Acquire, FeedRead, Inject, MarkRunning,
        MarkInjected, Finish, ArchiveDone, SyncResults, KillWMBS, CancelInbox, KillForbidden,
        DeleteCompletedLocal, AgentFault, ReplicateDown, ReplicateUp, globalSide, tasks, queueVars
  <2>2. CASE Next
    BY <2>1, <2>2, KeepsGoing DEF Uncancelled
  <2>3. CASE UNCHANGED queueVars
    BY <2>1, <2>3
    DEF Uncancelled, queueVars, documents, agentWork, tasks, pollers, Going, DocsPlain, DocPlain, InLine,
        PlainIn, Started, Over, GoesOn, Insertions, Ends, AllOver, Present
  <2> QED BY <2>2, <2>3
<1> QED BY <1>1, <1>2, QueueTypeCorrect, HoldingCorrect, PTL DEF Spec

(* A request nobody cancelled is completed only when all its elements,     *)
(* those found later included, are over in the agents.                     *)
THEOREM CompletedAreOver ==
  ASSUME QueuesOnce PROVE Spec => []CompletedIsOver
<1>1. Uncancelled => CompletedIsOver
  BY DEF Uncancelled, Going, Ends, Insertions, AllOver, Over, Present, CompletedIsOver
<1> QED BY <1>1, UncancelledCorrect, PTL

(* What an agent was told is injected has all begun: nothing more of it is *)
(* put into its database.                                                  *)
THEOREM InjectedAreAll ==
  ASSUME QueuesOnce PROVE Spec => InjectedIsAll
<1> DEFINE NotInto == \A a \in Agents, e \in Elements :
             injected[a] /\ asked = "nothing" /\ status # "failed" /\ wmbs[a][e] = "none" =>
               wmbs'[a][e] = "none"
<1>1. QueueTypeOK /\ Holding /\ Uncancelled /\ [Next]_queueVars => [NotInto]_queueVars
  <2> SUFFICES ASSUME QueueTypeOK, Holding, Uncancelled, Next,
                      NEW a \in Agents, NEW e \in Elements,
                      injected[a], asked = "nothing", wmbs[a][e] = "none"
               PROVE  wmbs'[a][e] = "none"
    OBVIOUS
  <2>1. ~Inject(a, e)
    <3>1. SUFFICES ASSUME Inject(a, e) PROVE FALSE
      OBVIOUS
    <3>2. TakenBy(a, e)
      BY <3>1 DEF Inject, Holding, OneHolder, Free, TakenBy, Untouched
    <3>3. e \in Present
      BY <3>2 DEF TakenBy, Present
    <3>4. Started(e)
      BY <3>3 DEF Uncancelled, Going, Ends
    <3> QED BY <3>2, <3>4 DEF Started, TakenBy, Untouched
  <2> QED BY <2>1, WorkSteps
<1> QED BY <1>1, UncancelledCorrect, QueueTypeCorrect, HoldingCorrect, PTL DEF Spec, InjectedIsAll
=============================================================================
