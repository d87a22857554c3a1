------------------------------ MODULE DBSUpload ------------------------------
(***************************************************************************)
(* DBSUploadPoller: a cycle loads what is open, puts new files into blocks *)
(* in its cache, writes the blocks and then which files are in them, hands *)
(* the pending ones to a pool of processes that insert them in DBS, and    *)
(* records the ones that were inserted.                                    *)
(*                                                                         *)
(* The cache outlives the cycle.  A crash loses it, but not what the       *)
(* processes of the pool are at.                                           *)
(***************************************************************************)
EXTENDS BlockBuffer

VARIABLES
  phase,        \* where the cycle is
  todo,         \* the loaded files that are in no block yet
  cached,       \* blockCache: the status of the blocks in it
  content,      \* their files
  inBuff,       \* those that were written into the buffer
  assoc,        \* filesToUpdate: the last block each file was put into
  queued,       \* queuedBlocks
  waiver,       \* timeoutWaiver
  work,         \* the blocks the pool is at, with their files
  results,      \* what it answered
  orphans       \* what a pool without its parent is still at

upload     == <<phase, todo, cached, content, inBuff, assoc, queued, waiver>>
pool       == <<work, results, orphans>>
uploadVars == <<upload, pool>>

Job == [block : Blocks, files : SUBSET Files]

UploadTypeOK ==
  /\ phase \in {"idle", "placing", "creating", "assigning", "waiting"}
  /\ todo \subseteq Files
  /\ cached \in [Blocks -> {"out", "Open", "Pending", "InDBS"}]
  /\ content \in [Blocks -> SUBSET Files]
  /\ inBuff \subseteq Blocks
  /\ assoc \in [Files -> Blocks \cup {NoBlock}]
  /\ queued \subseteq Blocks
  /\ waiver \in BOOLEAN
  /\ work \subseteq Job
  /\ results \subseteq [block : Blocks, uploaded : BOOLEAN]
  /\ orphans \subseteq Job

NoAssoc == [f \in Files |-> NoBlock]

UploadInit ==
  /\ phase = "idle"
  /\ todo = {}
  /\ cached = [b \in Blocks |-> "out"]
  /\ content = [b \in Blocks |-> {}]
  /\ inBuff = {}
  /\ assoc = NoAssoc
  /\ queued = {}
  /\ waiver = TRUE
  /\ work = {}
  /\ results = {}
  /\ orphans = {}

(* loadBlocks, and what loadFiles reads.                                   *)
LoadBlocks ==
  LET new == {b \in OpenBlocks : cached[b] = "out"}
  IN  /\ phase = "idle"
      /\ cached' = [b \in Blocks |-> IF b \in new THEN row[b] ELSE cached[b]]
      /\ content' = [b \in Blocks |-> IF b \in new THEN FilesOf(b) ELSE content[b]]
      /\ inBuff' = inBuff \cup new
      /\ todo' = Loadable
      /\ phase' = "placing"
      /\ UNCHANGED <<assoc, queued, waiver, pool, tables, services, mishaps>>

Cached(d) == {b \in Blocks : cached[b] # "out" /\ Dataset[b] = d}

(* Mutation: whatever the status.                                          *)
TakesAlways(b) == TRUE

(* isBlockOpen.  A block without files has no limits yet, and takes one    *)
(* whatever its status; of another, the limits may or may not take one.    *)
MayTake(b) == content[b] = {} \/ cached[b] = "Open"

Unused == {b \in Blocks : cached[b] = "out" /\ row[b] = "none"}

NewBlock(d) == CHOOSE b \in Unused : Dataset[b] = d

(* getBlock: the blocks passed on the way to the one that takes the file   *)
(* become pending, open or not.                                            *)
Put(f, b, passed) ==
  /\ cached' = [c \in Blocks |-> IF c \in passed THEN "Pending"
                                 ELSE IF c = b /\ cached[b] = "out" THEN "Open" ELSE cached[c]]
  /\ content' = [content EXCEPT ![b] = @ \cup {f}]
  /\ assoc' = [assoc EXCEPT ![f] = b]
  /\ todo' = todo \ {f}
  /\ UNCHANGED <<phase, inBuff, queued, waiver, pool, tables, services, mishaps>>

PlaceInCached(f) ==
  /\ phase = "placing" /\ f \in todo
  /\ \E b \in Cached(Dataset[f]) :
       /\ MayTake(b)
       /\ \E passed \in SUBSET {c \in Cached(Dataset[f]) \ {b} : content[c] # {}} : Put(f, b, passed)

PlaceInNew(f) ==
  /\ phase = "placing" /\ f \in todo
  /\ \E b \in Unused : Dataset[b] = Dataset[f]
  /\ \A c \in Cached(Dataset[f]) : content[c] # {}
  /\ Put(f, NewBlock(Dataset[f]), Cached(Dataset[f]))

(* checkBlockCompletion: of some open blocks the time is up, or their      *)
(* workflows are completed.                                                *)
Timeless == \E b \in Blocks : cached[b] = "Open" /\ content[b] = {}

CheckBlockCompletion(closing) ==
  /\ phase = "placing" /\ todo = {} /\ ~Timeless
  /\ cached' = [b \in Blocks |-> IF b \in closing /\ cached[b] = "Open" THEN "Pending" ELSE cached[b]]
  /\ phase' = "creating"
  /\ UNCHANGED <<todo, content, inBuff, assoc, queued, waiver, pool, tables, services, mishaps>>

(* inputBlocks, first transaction: CreateBlocks and UpdateBlocks.          *)
ToCreate == {b \in Blocks \ (queued \cup inBuff) : cached[b] \in {"Open", "Pending"}}
ToUpdate == {b \in inBuff \ queued : cached[b] = "Pending"}

CreateBlocks ==
  /\ phase = "creating"
  /\ row' = [b \in Blocks |-> IF b \in ToCreate \cup ToUpdate THEN cached[b] ELSE row[b]]
  /\ inBuff' = inBuff \cup ToCreate
  /\ phase' = "assigning"
  /\ UNCHANGED <<todo, cached, content, assoc, queued, waiver, pool, fileBlock, fileStatus,
                 injected, services, mishaps>>

(* Second transaction, SetBlockFiles; then the pending blocks are queued.  *)
ToUpload == {b \in Blocks \ queued : cached[b] = "Pending" /\ content[b] # {}}

AssignFiles ==
  /\ phase = "assigning"
  /\ SetBlockFiles(assoc)
  /\ assoc' = NoAssoc
  /\ work' = work \cup {[block |-> b, files |-> content[b]] : b \in ToUpload}
  /\ queued' = queued \cup ToUpload
  /\ phase' = "waiting"
  /\ UNCHANGED <<todo, cached, content, inBuff, waiver, results, orphans, fileStatus, injected,
                 row, services, mishaps>>

(* The connection is lost: the cycle ends (db_exception_handler) with the  *)
(* cache as it is, and the transaction is rolled back.  filesToUpdate is   *)
(* cleared before the commit.                                              *)
ConnectionLost ==
  /\ phase \in {"placing", "creating", "assigning"} /\ Fault("connection lost")
  /\ phase' = "idle" /\ todo' = {}
  /\ assoc' \in IF phase = "assigning" THEN {assoc, NoAssoc} ELSE {assoc}
  /\ UNCHANGED <<cached, content, inBuff, queued, waiver, pool, tables, services>>

(* uploadWorker: a block that DBS has already is fine, another is inserted.*)
Inserted(job) == IF DBSAccepts(job.block, job.files) THEN [dbs EXCEPT ![job.block] = job.files] ELSE dbs

Insert(job) ==
  /\ job \in work
  /\ dbs' = Inserted(job)
  /\ work' = work \ {job}
  /\ results' = results \cup {[block |-> job.block, uploaded |-> dbs'[job.block] # {}]}
  /\ UNCHANGED <<upload, orphans, tables, attached, sealed, mishaps>>

(* DBS fails, before or after it inserted the block.                       *)
InsertFails(job) ==
  /\ job \in work /\ Fault("DBS error")
  /\ dbs' \in {dbs, Inserted(job)}
  /\ work' = work \ {job}
  /\ results' = results \cup {[block |-> job.block, uploaded |-> FALSE]}
  /\ UNCHANGED <<upload, orphans, tables, attached, sealed>>

OrphanInserts(job) ==
  /\ job \in orphans
  /\ dbs' = Inserted(job)
  /\ orphans' = orphans \ {job}
  /\ UNCHANGED <<upload, work, results, tables, attached, sealed, mishaps>>

(* retrieveBlocks, when there is an answer for every block.                *)
Answered == {r.block : r \in results}
Uploaded == {r.block : r \in {q \in results : q.uploaded}}

RecordUploads ==
  /\ phase = "waiting" /\ work = {}
  /\ SetUploaded(Uploaded)
  /\ queued' = queued \ Answered
  /\ cached' = [b \in Blocks |-> IF b \in Uploaded THEN "out" ELSE cached[b]]
  /\ content' = [b \in Blocks |-> IF b \in Uploaded THEN {} ELSE content[b]]
  /\ inBuff' = inBuff \ Uploaded
  /\ results' = {}
  /\ phase' = "idle"
  /\ UNCHANGED <<todo, assoc, waiver, work, orphans, fileBlock, injected, services, mishaps>>

(* The connection is lost, and lost again ten seconds later.               *)
RecordLost ==
  /\ phase = "waiting" /\ work = {} /\ Uploaded # {} /\ Fault("record lost")
  /\ queued' = queued \ Answered
  /\ cached' = [b \in Blocks |-> IF b \in Uploaded THEN "InDBS" ELSE cached[b]]
  /\ results' = {}
  /\ phase' = "idle"
  /\ UNCHANGED <<todo, content, inBuff, assoc, waiver, work, orphans, tables, services>>

(* DBS takes too long: once in the life of the component the cycle ends    *)
(* without the answers it has.                                             *)
GiveUpWaiting ==
  /\ phase = "waiting" /\ work # {} /\ waiver /\ Fault("timeout")
  /\ waiver' = FALSE
  /\ results' = {}
  /\ phase' = "idle"
  /\ UNCHANGED <<todo, cached, content, inBuff, assoc, queued, work, orphans, tables, services>>

(* The component starts anew, without its memory.                          *)
Restart ==
  /\ phase' = "idle" /\ todo' = {} /\ inBuff' = {} /\ assoc' = NoAssoc /\ queued' = {}
  /\ cached' = [b \in Blocks |-> "out"] /\ content' = [b \in Blocks |-> {}]
  /\ waiver' = TRUE /\ work' = {} /\ results' = {}
  /\ orphans' = orphans \cup work
  /\ UNCHANGED <<tables, services>>

UploadCrash == Fault("upload crash") /\ Restart

(* The second time it gives up for good.                                   *)
WaitedTooLong == phase = "waiting" /\ work # {} /\ ~waiver /\ Restart /\ UNCHANGED mishaps

(* An open block without files has no time limit to compare with.          *)
CompletionFails ==
  /\ phase = "placing" /\ todo = {} /\ Timeless
  /\ Restart /\ UNCHANGED mishaps

UploadStep ==
  \/ LoadBlocks
  \/ \E f \in Files : PlaceInCached(f) \/ PlaceInNew(f)
  \/ CompletionFails
  \/ CreateBlocks
  \/ AssignFiles
  \/ RecordUploads

UploadFault == ConnectionLost \/ RecordLost \/ GiveUpWaiting \/ WaitedTooLong \/ UploadCrash

UploadNext ==
  \/ UploadStep
  \/ \E closing \in SUBSET Blocks : CheckBlockCompletion(closing)
  \/ \E job \in work : Insert(job) \/ InsertFails(job)
  \/ \E job \in orphans : OrphanInserts(job)
  \/ UploadFault
=============================================================================
