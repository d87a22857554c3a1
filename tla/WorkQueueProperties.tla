------------------------- MODULE WorkQueueProperties -------------------------
(* The correctness properties of the work queues.                          *)
EXTENDS WorkQueues

Owners(e) ==
  {l.child : l \in gq[e]} \cup UNION {{l.child : l \in inbox[a][e]} : a \in Agents}

Assignment == INSTANCE WorkAssignment WITH
  owners  <- [e \in Elements |-> Owners(e) \ {NoAgent}],
  workers <- [e \in Elements |-> {a \in Agents : wmbs[a][e] # "none"}],
  working <- [e \in Elements |-> {a \in Agents : wmbs[a][e] = "open"}]

(* The queues implement the assignment: no element is ever given to a      *)
(* second agent (_assignToChildQueue saves with the revision it read), or  *)
(* worked on by another agent than the one it was given to, or twice.      *)
ImplementsAssignment == Assignment!Spec

(* What the global queue shows as Done was put into the database of the    *)
(* agent that has it, and has finished there: neither a result that comes  *)
(* late nor a conflict that is merged makes work Done that is not.         *)
DoneIsOver ==
  \A e \in Elements : \A l \in gq[e] :
    l.status = "Done" => l.child \in Agents /\ wmbs[l.child][e] = "over"

(* A request nobody cancelled is completed only when all its elements,     *)
(* those found later included, are over in the agents.                     *)
CompletedIsOver ==
  status = "completed" /\ asked = "nothing" =>
    \A e \in Elements :
      gq[e] # {} \/ e \in parent.processed => \E a \in Agents : wmbs[a][e] = "over"

(* An agent that was told a workflow is injected puts no more of it into   *)
(* WMBS, unless it is cancelled.                                           *)
InjectedIsAll ==
  [][\A a \in Agents, e \in Elements :
       injected[a] /\ asked = "nothing" /\ status # "failed" /\ wmbs[a][e] = "none" => wmbs'[a][e] = "none"]_queueVars

(* All units the splitting found become elements: a request is not         *)
(* completed without them ("save inbound work to signal we have completed  *)
(* queueing, if this fails, rerunning will pick up here").                 *)
EverythingQueued ==
  status = "completed" /\ asked = "nothing" => \A e \in FirstElements : gq[e] # {}

(* The request reaches an end for good and no agent works for it any more: *)
(* its work is all done, or its cancellation is honoured, whatever agents  *)
(* had made of the elements, and what they still put into WMBS, by then.   *)
RequestEnds ==
  <>[](/\ status \in {"completed", "failed", "aborted-completed"}
       /\ \A a \in Agents, e \in Elements : wmbs[a][e] # "open")
=============================================================================
