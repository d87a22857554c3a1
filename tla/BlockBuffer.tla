----------------------------- MODULE BlockBuffer -----------------------------
(***************************************************************************)
(* The DBS buffer: the tables of an agent that say in which block each of  *)
(* its output files is registered, and the two services that are told so,  *)
(* DBS (the catalogue) and Rucio (the data management), both external.     *)
(*                                                                         *)
(* DBS3Upload makes the blocks and uploads them to DBS, RucioInjector puts *)
(* the files into Rucio and closes the blocks.                             *)
(***************************************************************************)
EXTENDS Naturals, FiniteSets

CONSTANTS
  Files,        \* output files of the agent
  Blocks,       \* names of blocks: each begins with its dataset and ends in a UUID
  NoBlock,      \* block_id of a file that is in no block
  Dataset,      \* the dataset of a file, or of a block
  Parents,      \* the files a file was made of
  Faults,       \* what may go wrong
  MaxFaults     \* bound: how often

AllFaults == {"upload crash", "inject crash", "connection lost", "record lost", "timeout",
              "DBS error", "Rucio error", "deadlock"}

ASSUME BlocksAssumption == NoBlock \notin Blocks
ASSUME ParentsAssumption == Parents \in [Files -> SUBSET Files]
ASSUME FaultsAssumption == Faults \subseteq AllFaults /\ MaxFaults \in Nat

VARIABLES
  fileBlock,    \* dbsbuffer_file.block_id
  fileStatus,   \* dbsbuffer_file.status, "absent" before the job has ended
  injected,     \* the files with in_phedex = 1
  row,          \* dbsbuffer_block.status, "none" without a row
  dbs,          \* external: the files of the blocks DBS has
  attached,     \* external: the files attached to the blocks in Rucio
  sealed,       \* external: the blocks that are closed in Rucio
  faults,       \* how many faults there were
  interrupted   \* whether a lost connection ever ended a cycle of DBS3Upload

tables   == <<fileBlock, fileStatus, injected, row>>
services == <<dbs, attached, sealed>>
mishaps  == <<faults, interrupted>>

BufferTypeOK ==
  /\ fileBlock \in [Files -> Blocks \cup {NoBlock}]
  /\ fileStatus \in [Files -> {"absent", "NOTUPLOADED", "InDBS"}]
  /\ injected \subseteq Files
  /\ row \in [Blocks -> {"none", "Open", "Pending", "InDBS", "Closed"}]
  /\ dbs \in [Blocks -> SUBSET Files]
  /\ attached \in [Blocks -> SUBSET Files]
  /\ sealed \subseteq Blocks
  /\ faults \in Nat /\ interrupted \in BOOLEAN

BufferInit ==
  /\ fileBlock = [f \in Files |-> NoBlock]
  /\ fileStatus = [f \in Files |-> "absent"]
  /\ injected = {}
  /\ row = [b \in Blocks |-> "none"]
  /\ dbs = [b \in Blocks |-> {}]
  /\ attached = [b \in Blocks |-> {}]
  /\ sealed = {}
  /\ faults = 0 /\ interrupted = FALSE

FilesOf(b) == {f \in Files : fileBlock[f] = b}

NotUploaded == {f \in Files : fileStatus[f] = "NOTUPLOADED"}

(* FindDASToUpload: no file of the dataset waits for a parent.             *)
Uploadable(d) == \A f \in NotUploaded : Dataset[f] = d => Parents[f] \cap NotUploaded = {}

(* Mutation: whatever the parents are.                                     *)
LoadableAnyway == {f \in NotUploaded : fileBlock[f] = NoBlock}

(* LoadDBSFilesByDAS, the files among them that are in no block yet.       *)
Loadable == {f \in NotUploaded : fileBlock[f] = NoBlock /\ Uploadable(Dataset[f])}

(* GetOpenBlocks: the pending ones without the blocks whose parents are to *)
(* come.                                                                   *)
AwaitsParents(b) ==
  \E f \in FilesOf(b) : \E p \in Parents[f] :
    fileBlock[p] # NoBlock /\ row[fileBlock[p]] \in {"Open", "Pending"}

(* Mutation: whatever the status.                                          *)
BlocksWithRow == {b \in Blocks : row[b] # "none"}

(* Mutation: only the open ones.                                           *)
OnlyOpenBlocks == {b \in Blocks : row[b] = "Open"}

OpenBlocks == {b \in Blocks : row[b] = "Open" \/ (row[b] = "Pending" /\ ~AwaitsParents(b))}

(* SetBlockFiles                                                           *)
SetBlockFiles(assoc) ==
  fileBlock' = [f \in Files |-> IF assoc[f] = NoBlock THEN fileBlock[f] ELSE assoc[f]]

(* UpdateFiles and UpdateBlocks, for blocks that are in DBS now.           *)
SetUploaded(blocks) ==
  /\ fileStatus' = [f \in Files |-> IF fileBlock[f] \in blocks THEN "InDBS" ELSE fileStatus[f]]
  /\ row' = [b \in Blocks |-> IF b \in blocks THEN "InDBS" ELSE row[b]]

(* insertBulkBlock refuses a block with a file that is in another one.     *)
DBSAccepts(b, files) == dbs[b] = {} /\ \A c \in Blocks : dbs[c] \cap files = {}

(* GetUninjectedFiles                                                      *)
Uninjected(b) == FilesOf(b) \ injected

(* Mutation: some file is injected.                                        *)
MigratedInPart == {b \in Blocks : row[b] = "InDBS" /\ FilesOf(b) \cap injected # {}}

(* GetMigratedBlocks                                                       *)
Migrated == {b \in Blocks : row[b] = "InDBS" /\ FilesOf(b) # {} /\ FilesOf(b) \subseteq injected}

(* JobAccountant: a job has ended, its parents before it.                  *)
AddFile(f) ==
  /\ fileStatus[f] = "absent" /\ \A p \in Parents[f] : fileStatus[p] # "absent"
  /\ fileStatus' = [fileStatus EXCEPT ![f] = "NOTUPLOADED"]
  /\ UNCHANGED <<fileBlock, injected, row, services, mishaps>>

Fault(kind) ==
  /\ kind \in Faults /\ faults < MaxFaults
  /\ faults' = faults + 1
  /\ interrupted' = (interrupted \/ kind = "connection lost")
=============================================================================
