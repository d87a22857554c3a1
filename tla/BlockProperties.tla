---------------------------- MODULE BlockProperties --------------------------
(* The correctness properties of the DBS buffer and of what it feeds.      *)
EXTENDS BlockUploads

(* Every variable has its type.                                            *)
BlockTypeOK == BufferTypeOK /\ UploadTypeOK /\ InjectTypeOK

(* What is uploaded is a block as the buffer has it, and what DBS has is   *)
(* what the buffer says it has: no crash, time-out or late insertion puts  *)
(* a file into another block than the one its row names, or into two.      *)
(* Only a connection that was lost halfway through a cycle may.            *)
DBSAgrees ==
  ~interrupted =>
    /\ \A job \in work \cup orphans : job.files = FilesOf(job.block)
    /\ \A b \in Blocks : dbs[b] # {} => dbs[b] = FilesOf(b)

(* A block or a file is recorded as uploaded only if DBS has it, whatever  *)
(* was lost, dropped or inserted late.                                     *)
RecordedIsTrue ==
  ~interrupted =>
    /\ \A b \in Blocks : row[b] \in {"InDBS", "Closed"} => dbs[b] # {}
    /\ \A f \in Files : fileStatus[f] = "InDBS" => \E b \in Blocks : f \in dbs[b]

(* A file is in DBS only when the files it was made of are ("It has no     *)
(* defenses against loading files with unloaded parents").                 *)
ParentsFirst ==
  ~interrupted =>
    \A b \in Blocks : \A f \in dbs[b] : \A p \in Parents[f] : \E c \in Blocks : p \in dbs[c]

(* Rucio has the files in the blocks DBS has them in, and a block that is  *)
(* closed in Rucio, which takes no more files, has them all but those that *)
(* it refused to attach with others: nothing else makes a block incomplete *)
(* for ever, no crash, lost answer, file added late or marked too early.   *)
RucioAgrees ==
  ~interrupted =>
    /\ \A b \in Blocks : attached[b] \subseteq FilesOf(b)
    /\ \A b \in sealed : dbs[b] # {} /\ dbs[b] \subseteq attached[b] \cup missed

-----------------------------------------------------------------------------
(* What makes them inductive, until a connection is lost.                  *)

AssocOf(b) == {f \in Files : assoc[f] = b}

(* The block is in DBS, or on its way.                                     *)
Sent(b) == dbs[b] # {} \/ \E job \in work \cup orphans : job.block = b

(* Where the cycle is: files are loaded and put into blocks in "placing"   *)
(* only, and when the files are assigned, the buffer knows the blocks as   *)
(* the cache does.                                                         *)
CycleInv ==
  /\ phase \in {"idle", "waiting"} => assoc = NoAssoc
  /\ phase # "placing" => todo = {}
  /\ \A f \in todo : fileBlock[f] = NoBlock /\ assoc[f] = NoBlock
  /\ phase = "assigning" => \A b \in Blocks : cached[b] \in {"Open", "Pending"} => row[b] = cached[b]

(* A file that was put into a block is in no other, and nobody was told of *)
(* the block yet.                                                          *)
PlacedInv ==
  \A f \in Files : assoc[f] # NoBlock =>
    fileBlock[f] = NoBlock /\ cached[assoc[f]] \in {"Open", "Pending"} /\ ~Sent(assoc[f])

(* A block of the cache has the files of the buffer and those put into it. *)
CachedWell(b) ==
  /\ cached[b] = "out" => content[b] = {}
  /\ cached[b] # "out" => content[b] = FilesOf(b) \cup AssocOf(b) /\ row[b] \in {"none", "Open", "Pending"}
  /\ cached[b] = "Open" => row[b] # "Pending"
  /\ cached[b] = "InDBS" => content[b] # {}
  /\ b \in inBuff \/ FilesOf(b) # {} => row[b] # "none"
  /\ b \in queued => cached[b] = "Pending" /\ row[b] = "Pending" /\ content[b] # {}

CacheInv == \A b \in Blocks : CachedWell(b)

(* What is sent to DBS is what the buffer has, and takes no more files.    *)
SentInv ==
  /\ \A job \in work \cup orphans : job.files = FilesOf(job.block) /\ job.files # {}
  /\ \A b \in Blocks : dbs[b] # {} => dbs[b] = FilesOf(b)
  /\ \A b \in Blocks : Sent(b) => row[b] \in {"Pending", "InDBS", "Closed"}
  /\ \A job \in work : job.block \in queued
  /\ \A r \in results : r.block \in queued /\ (r.uploaded => dbs[r.block] # {})

(* What is recorded is true.                                               *)
RecordInv ==
  /\ \A b \in Blocks : row[b] \in {"InDBS", "Closed"} => dbs[b] # {}
  /\ \A f \in Files : fileStatus[f] = "InDBS" => fileBlock[f] # NoBlock /\ dbs[fileBlock[f]] # {}
  /\ \A b \in closing : row[b] \in {"InDBS", "Closed"}

(* A file gets into a block when its parents are in DBS.                   *)
ParentInv ==
  /\ \A f \in Files : fileStatus[f] # "absent" => \A p \in Parents[f] : fileStatus[p] # "absent"
  /\ \A f \in Files : f \in todo \/ assoc[f] # NoBlock \/ fileBlock[f] # NoBlock =>
       \A p \in Parents[f] : fileStatus[p] = "InDBS"

(* What is marked as injected is attached to its block, or was refused     *)
(* with others of its call, and so is all of a block that is closed.       *)
RucioInv ==
  /\ \A b \in Blocks : listed[b] \subseteq FilesOf(b) /\ attached[b] \subseteq FilesOf(b)
  /\ \A f \in injected \cup marking \cup recovering : fileBlock[f] # NoBlock /\ f \in attached[fileBlock[f]] \cup missed
  /\ \A b \in closing \cup sealed : dbs[b] # {} /\ FilesOf(b) \subseteq attached[b] \cup missed

UploadInv == CycleInv /\ PlacedInv /\ CacheInv /\ SentInv /\ RecordInv /\ ParentInv

(* Until a connection is lost, the files of the buffer, of the cache, of   *)
(* the jobs on their way, of DBS and of Rucio agree.                       *)
BlockInv == ~interrupted => UploadInv /\ RucioInv

-----------------------------------------------------------------------------
(* Where only another start of DBS3Upload helps, or not even that: answers *)
(* were dropped, an upload could not be recorded, a crash left an open     *)
(* block without files, a connection was lost, or Rucio has some of several *)
(* files that are to be inserted together, and may refuse them all.        *)
Dropped    == queued \ ({job.block : job \in work} \cup Answered)
Unrecorded == {b \in Blocks : cached[b] = "InDBS"}
Forgotten  == {b \in Blocks : row[b] = "Open" /\ FilesOf(b) = {}}
Refused    == {b \in Blocks : Uninjected(b) \cap replicas # {} /\ Cardinality(Uninjected(b)) > 1}
Stuck      == interrupted \/ Dropped \cup Unrecorded \cup Forgotten \cup Refused # {}

AllDone == \A f \in Files : fileStatus[f] = "InDBS" /\ f \in injected /\ row[fileBlock[f]] = "Closed"

(* All files get into DBS, are marked as injected and their blocks are     *)
(* closed, unless one of these cases is there to stay: other crashes,      *)
(* errors of the services and deadlocks are made up for.                   *)
AllUploaded == <>[](AllDone \/ Stuck)

(* They do after a lost connection too ("Temp error will try later").      *)
TriedLater == <>[]AllDone

(* The check for completion meets no open block without files, of which    *)
(* the cycle, and every cycle after it, would die ("Mark Open blocks as    *)
(* Pending if they have timed out or their workflows have completed").     *)
CompletionGoesOn == ~(phase = "placing" /\ todo = {} /\ Timeless)
=============================================================================
