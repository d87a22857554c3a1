---------------------------- MODULE WorkAssignment ---------------------------
(***************************************************************************)
(* What the work queues promise of an element, whatever the replication,   *)
(* the conflicts and the cancellations do: one agent gets it, once and for *)
(* all, only that agent works on it, and works on it once.                 *)
(***************************************************************************)
CONSTANTS Agents, Elements

VARIABLES
  owners,         \* who an element was given to
  workers,        \* who has put it into its database
  working         \* who still has jobs to run for it

assignment == <<owners, workers, working>>

Init ==
  /\ owners = [e \in Elements |-> {}]
  /\ workers = [e \in Elements |-> {}]
  /\ working = [e \in Elements |-> {}]

Assign(a) ==
  /\ \E es \in SUBSET {e \in Elements : owners[e] = {}} :
       owners' = [e \in Elements |-> IF e \in es THEN {a} ELSE owners[e]]
  /\ UNCHANGED <<workers, working>>

Open(a, e) ==
  /\ owners[e] = {a} /\ workers[e] = {}
  /\ workers' = [workers EXCEPT ![e] = {a}]
  /\ working' = [working EXCEPT ![e] = {a}]
  /\ UNCHANGED owners

Close(a) ==
  /\ \E es \in SUBSET {e \in Elements : working[e] = {a}} :
       working' = [e \in Elements |-> IF e \in es THEN {} ELSE working[e]]
  /\ UNCHANGED <<owners, workers>>

Next == \E a \in Agents : Assign(a) \/ Close(a) \/ \E e \in Elements : Open(a, e)

Spec == Init /\ [][Next]_assignment
=============================================================================
