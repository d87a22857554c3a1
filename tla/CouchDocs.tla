------------------------------ MODULE CouchDocs ------------------------------
(***************************************************************************)
(* A work queue element as a CouchDB document.  A database holds the leaf  *)
(* revisions of a document.  A revision is known by the databases its      *)
(* edits were made in, one after the other: a database makes at most one   *)
(* edit of a revision.  A save that does not start from a leaf is a        *)
(* conflict and is refused; replication brings leaves that the other side  *)
(* edited apart, and one of them, the same on both sides, is what          *)
(* everybody reads.  CouchDB itself is external: this is what the code     *)
(* relies on.                                                              *)
(***************************************************************************)
EXTENDS WorkElement, Sequences, SequencesExt

CONSTANTS
  Agents,         \* the agents, each with the database of its local queue
  Global,         \* the database of the global queue
  NoAgent,        \* ChildQueueUrl of an element no agent has taken
  GlobalWins      \* which of two revisions of the same length is read: it depends on a hash

ASSUME DatabasesAssumption == Global \notin Agents /\ NoAgent \notin Agents
ASSUME HashAssumption == GlobalWins \in BOOLEAN

Databases == Agents \cup {Global}

Revision(path, status, child) == [path |-> path, status |-> status, child |-> child]

Revisions == [path : Seq(Databases), status : Statuses \cup {"deleted"},
              child : Agents \cup {NoAgent}]

Edited(leaf, at, status, child) == Revision(Append(leaf.path, at), status, child)

Live(doc)   == {l \in doc : l.status # "deleted"}
Exists(doc) == Live(doc) # {}

(* The revision a read returns: the longest that is not deleted.           *)
Favoured(l)  == (Last(l.path) = Global) = GlobalWins
Before(l, m) == \/ Len(l.path) > Len(m.path)
                \/ Len(l.path) = Len(m.path) /\ (Favoured(l) \/ ~Favoured(m))

Winner(doc) == CHOOSE l \in Live(doc) : \A m \in Live(doc) : Before(l, m)

Status(doc) == Winner(doc).status
Child(doc)  == Winner(doc).child

(* Mutation: a save without the check of the revision.                               *)
SaveBlindly(doc, leaf, at, status, child) ==
  (doc \ {leaf}) \cup {Edited(leaf, at, status, child)}

(* Save a document that was read at the revision `leaf`.                   *)
Save(doc, leaf, at, status, child) ==
  IF leaf \in doc THEN (doc \ {leaf}) \cup {Edited(leaf, at, status, child)} ELSE doc

(* Read the document, set its status and save it, again after a conflict.  *)
SetStatus(doc, at, status) ==
  IF Status(doc) = status THEN doc ELSE Save(doc, Winner(doc), at, status, Child(doc))

Delete(doc, at) == SetStatus(doc, at, "deleted")

(* An insertion; over a deleted document it goes on from the deletion.     *)
Insert(doc, at, status) ==
  IF doc = {} THEN {Revision(<<at>>, status, NoAgent)}
  ELSE Save(doc, CHOOSE l \in doc : \A m \in doc : Before(l, m), at, status, NoAgent)

(* Replication with the queueFilter: what is live in the source, assigned  *)
(* to the agent and no ancestor of a revision here replaces its ancestors. *)
Received(doc, source, a) ==
  LET new == {l \in Live(source) : l.child = a /\ \A m \in doc : ~IsPrefix(l.path, m.path)}
  IN  {m \in doc : \A l \in new : ~IsPrefix(m.path, l.path)} \cup new

(* fixConflicts: the winner gets the merged status, the others go.  It     *)
(* gives up on revisions that differ in their ChildQueueUrl.               *)
Resolved(doc, leaf) == IF leaf = Winner(doc) THEN Merged({l.status : l \in Live(doc)}) ELSE "deleted"

Fixed(doc, at) ==
  LET live == Live(doc)
  IN  IF (\A l, m \in live : l = m) \/ (\E l, m \in live : l.child # m.child) THEN doc
      ELSE (doc \ live) \cup {Edited(l, at, Resolved(doc, l), l.child) : l \in live}
=============================================================================
