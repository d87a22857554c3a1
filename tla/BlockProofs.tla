----------------------------- MODULE BlockProofs -----------------------------
(***************************************************************************)
(* Proofs about the DBS buffer, for any files, any parentage among them,   *)
(* any blocks, and any number of faults of every kind.                     *)
(***************************************************************************)
EXTENDS BlockProperties, TLAPS

(* A name for a new block is one that is in use nowhere.                   *)
LEMMA NewBlockUnused ==
  ASSUME NEW d, \E b \in Unused : Dataset[b] = d
  PROVE  NewBlock(d) \in Unused /\ Dataset[NewBlock(d)] = d
  BY DEF NewBlock

LEMMA BlockInitTypes == Init => BlockTypeOK
<1> SUFFICES ASSUME Init PROVE BlockTypeOK
  OBVIOUS
<1>1. BufferTypeOK
  <2>1. faults \in Nat /\ interrupted \in BOOLEAN
    BY DEF Init, BufferInit
  <2> QED BY <2>1 DEF Init, BufferInit, BufferTypeOK
<1>2. UploadTypeOK
  BY DEF Init, UploadInit, UploadTypeOK, NoAssoc
<1>3. InjectTypeOK
  BY DEF Init, InjectInit, InjectTypeOK, NothingListed
<1> QED BY <1>1, <1>2, <1>3 DEF BlockTypeOK

-----------------------------------------------------------------------------
(* Types.                                                                  *)

LEMMA FaultTypes ==
  ASSUME BufferTypeOK, NEW kind, Fault(kind)
  PROVE  faults' \in Nat /\ interrupted' \in BOOLEAN
<1>1. faults' \in Nat
  <2>1. faults' = faults + 1 /\ faults \in Nat
    BY Zenon DEF BufferTypeOK, Fault
  <2> QED BY <2>1
<1>2. interrupted' \in BOOLEAN
  BY Zenon DEF Fault
<1> QED BY <1>1, <1>2

LEMMA AddFileTypes ==
  ASSUME BlockTypeOK, NEW f \in Files, AddFile(f), UNCHANGED <<uploadVars, injectVars>>
  PROVE  BlockTypeOK'
  BY DEF BlockTypeOK, BufferTypeOK, UploadTypeOK, InjectTypeOK, AddFile, services, mishaps,
         uploadVars, upload, pool, injectVars

LEMMA LoadBlocksTypes ==
  ASSUME BlockTypeOK, LoadBlocks PROVE BufferTypeOK' /\ UploadTypeOK'
<1>1. \A b \in OpenBlocks : b \in Blocks /\ row[b] \in {"Open", "Pending"}
  BY DEF OpenBlocks
<1>2. Loadable \subseteq Files /\ \A b \in Blocks : FilesOf(b) \subseteq Files
  BY DEF Loadable, NotUploaded, FilesOf
<1> QED BY <1>1, <1>2 DEF BlockTypeOK, BufferTypeOK, UploadTypeOK, LoadBlocks, tables, services,
                          mishaps, pool

LEMMA PutTypes ==
  ASSUME BlockTypeOK, NEW f \in Files, NEW b \in Blocks, NEW passed \in SUBSET Blocks, Put(f, b, passed)
  PROVE  BufferTypeOK' /\ UploadTypeOK'
  BY DEF BlockTypeOK, BufferTypeOK, UploadTypeOK, Put, tables, services, mishaps, pool

LEMMA PlaceTypes ==
  ASSUME BlockTypeOK, NEW f \in Files, PlaceInCached(f) \/ PlaceInNew(f)
  PROVE  BufferTypeOK' /\ UploadTypeOK'
<1>1. CASE PlaceInCached(f)
  <2>1. PICK b \in Blocks, passed \in SUBSET Blocks : Put(f, b, passed)
    BY <1>1 DEF PlaceInCached, Cached
  <2> QED BY <2>1, PutTypes
<1>2. CASE PlaceInNew(f)
  <2>1. NewBlock(Dataset[f]) \in Blocks
    BY <1>2, NewBlockUnused DEF PlaceInNew, Unused
  <2>2. Cached(Dataset[f]) \in SUBSET Blocks
    BY DEF Cached
  <2> QED BY <1>2, <2>1, <2>2, PutTypes DEF PlaceInNew
<1> QED BY <1>1, <1>2

LEMMA RestartTypes ==
  ASSUME BlockTypeOK, Restart, faults' \in Nat, interrupted' \in BOOLEAN
  PROVE  BufferTypeOK' /\ UploadTypeOK'
  BY DEF BlockTypeOK, BufferTypeOK, UploadTypeOK, Restart, NoAssoc, tables, services

LEMMA CycleTypes ==
  ASSUME BlockTypeOK,
         CompletionFails \/ CreateBlocks \/ AssignFiles \/ RecordUploads
           \/ \E closed \in SUBSET Blocks : CheckBlockCompletion(closed)
  PROVE  BufferTypeOK' /\ UploadTypeOK'
<1>1. CASE CompletionFails
  BY <1>1, RestartTypes DEF CompletionFails, BlockTypeOK, BufferTypeOK, mishaps
<1>2. CASE CreateBlocks
  BY <1>2 DEF BlockTypeOK, BufferTypeOK, UploadTypeOK, CreateBlocks, ToCreate, ToUpdate, pool,
              services, mishaps
<1>3. CASE AssignFiles
  <2>1. fileBlock' \in [Files -> Blocks \cup {NoBlock}]
    BY <1>3 DEF AssignFiles, SetBlockFiles, BlockTypeOK, BufferTypeOK, UploadTypeOK
  <2>2. ToUpload \subseteq Blocks /\ {[block |-> b, files |-> content[b]] : b \in ToUpload} \subseteq Job
    BY DEF ToUpload, Job, BlockTypeOK, UploadTypeOK
  <2> QED BY <1>3, <2>1, <2>2 DEF BlockTypeOK, BufferTypeOK, UploadTypeOK, AssignFiles, NoAssoc,
                                  services, mishaps
<1>4. CASE RecordUploads
  BY <1>4 DEF BlockTypeOK, BufferTypeOK, UploadTypeOK, RecordUploads, SetUploaded, services, mishaps
<1>5. CASE \E closed \in SUBSET Blocks : CheckBlockCompletion(closed)
  BY <1>5 DEF BlockTypeOK, BufferTypeOK, UploadTypeOK, CheckBlockCompletion, tables, services,
              mishaps, pool
<1> QED BY <1>1, <1>2, <1>3, <1>4, <1>5

LEMMA InsertedTypes ==
  ASSUME BlockTypeOK, NEW job \in Job PROVE Inserted(job) \in [Blocks -> SUBSET Files]
  BY DEF BlockTypeOK, BufferTypeOK, Inserted, Job

LEMMA PoolTypes ==
  ASSUME BlockTypeOK,
         NEW job \in work \cup orphans, Insert(job) \/ InsertFails(job) \/ OrphanInserts(job)
  PROVE  BufferTypeOK' /\ UploadTypeOK'
<1>1. job \in Job /\ job.block \in Blocks
  BY DEF BlockTypeOK, UploadTypeOK, Job
<1>2. dbs' \in [Blocks -> SUBSET Files]
  BY <1>1, InsertedTypes DEF Insert, InsertFails, OrphanInserts, BlockTypeOK, BufferTypeOK
<1>3. CASE Insert(job)
  <2>1. PICK u \in BOOLEAN : results' = results \cup {[block |-> job.block, uploaded |-> u]}
    BY <1>3, Zenon DEF Insert
  <2>2. results' \subseteq [block : Blocks, uploaded : BOOLEAN]
    BY <1>1, <2>1 DEF BlockTypeOK, UploadTypeOK
  <2> QED
    BY <1>1, <1>2, <1>3, <2>2 DEF BlockTypeOK, BufferTypeOK, UploadTypeOK, Insert, upload, tables, mishaps
<1>4. CASE InsertFails(job)
  <2>1. PICK u \in BOOLEAN : results' = results \cup {[block |-> job.block, uploaded |-> u]}
    BY <1>4, Zenon DEF InsertFails
  <2>2. results' \subseteq [block : Blocks, uploaded : BOOLEAN]
    BY <1>1, <2>1 DEF BlockTypeOK, UploadTypeOK
  <2> QED
    BY <1>1, <1>2, <1>4, <2>2, FaultTypes DEF BlockTypeOK, BufferTypeOK, UploadTypeOK, InsertFails, upload, tables
<1>5. CASE OrphanInserts(job)
  BY <1>1, <1>2, <1>5 DEF BlockTypeOK, BufferTypeOK, UploadTypeOK, OrphanInserts, upload, tables, mishaps
<1> QED BY <1>3, <1>4, <1>5

LEMMA UploadFaultTypes ==
  ASSUME BlockTypeOK, UploadFault PROVE BufferTypeOK' /\ UploadTypeOK'
<1>1. CASE ConnectionLost
  BY <1>1, FaultTypes DEF BlockTypeOK, BufferTypeOK, UploadTypeOK, ConnectionLost, NoAssoc, pool,
                          tables, services
<1>2. CASE RecordLost
  BY <1>2, FaultTypes DEF BlockTypeOK, BufferTypeOK, UploadTypeOK, RecordLost, tables, services
<1>3. CASE GiveUpWaiting
  BY <1>3, FaultTypes DEF BlockTypeOK, BufferTypeOK, UploadTypeOK, GiveUpWaiting, tables, services
<1>4. CASE WaitedTooLong \/ UploadCrash
  BY <1>4, FaultTypes, RestartTypes DEF BlockTypeOK, BufferTypeOK, WaitedTooLong, UploadCrash, mishaps
<1> QED BY <1>1, <1>2, <1>3, <1>4 DEF UploadFault

LEMMA UploadTypes ==
  ASSUME BlockTypeOK, UploadNext, UNCHANGED injectVars PROVE BlockTypeOK'
<1>1. InjectTypeOK'
  BY DEF BlockTypeOK, InjectTypeOK, injectVars
<1>2. BufferTypeOK' /\ UploadTypeOK'
  <2>1. CASE UploadStep
    BY <2>1, LoadBlocksTypes, PlaceTypes, CycleTypes DEF UploadStep
  <2>2. CASE \E closed \in SUBSET Blocks : CheckBlockCompletion(closed)
    BY <2>2, CycleTypes
  <2>3. CASE \E job \in work : Insert(job) \/ InsertFails(job)
    BY <2>3, PoolTypes
  <2>4. CASE \E job \in orphans : OrphanInserts(job)
    BY <2>4, PoolTypes
  <2>5. CASE UploadFault
    BY <2>5, UploadFaultTypes
  <2> QED BY <2>1, <2>2, <2>3, <2>4, <2>5 DEF UploadNext
<1> QED BY <1>1, <1>2 DEF BlockTypeOK

(* What createReplicas may do to the files of a block, whatever Rucio      *)
(* answers.                                                                *)
Insertion(b) == InsertReplicas(b) \/ ReplicasRefused(b) \/ AttachRefused(b) \/ InsertReplicasFails(b)

LEMMA InsertionMoves ==
  ASSUME BlockTypeOK, NEW b \in Blocks, Insertion(b)
  PROVE  /\ UNCHANGED <<step, recovering, closing, tables, dbs, sealed>>
         /\ listed' = [listed EXCEPT ![b] = {}]
         /\ attached' \in {attached, AttachedTo(b)}
         /\ replicas' \in {replicas, replicas \cup listed[b]}
         /\ missed' \in {missed, missed \cup (listed[b] \ attached[b])}
         /\ \/ marking' \in {marking, {}}
            \/ marking' = listed[b] /\ listed[b] \subseteq attached'[b] \cup missed'
         /\ UNCHANGED mishaps \/ Fault("Rucio error")
<1>1. CASE InsertReplicas(b)
  <2>1. b \in sealed \/ listed[b] \subseteq attached'[b]
    BY <1>1 DEF InsertReplicas, AttachedTo, BlockTypeOK, BufferTypeOK
  <2> QED BY <1>1, <2>1 DEF InsertReplicas, Inserting
<1>2. CASE ReplicasRefused(b)
  BY <1>2 DEF ReplicasRefused, Inserting, rucio
<1>3. CASE AttachRefused(b)
  BY <1>3 DEF AttachRefused, Inserting
<1>4. CASE InsertReplicasFails(b)
  BY <1>4 DEF InsertReplicasFails, Inserting
<1> QED BY <1>1, <1>2, <1>3, <1>4 DEF Insertion

LEMMA InjectTypes ==
  ASSUME BlockTypeOK, InjectNext, UNCHANGED uploadVars PROVE BlockTypeOK'
<1>1. UploadTypeOK'
  BY DEF BlockTypeOK, UploadTypeOK, uploadVars, upload, pool
<1>2. \A b \in Blocks : FilesOf(b) \subseteq Files /\ Uninjected(b) \subseteq Files
  BY DEF FilesOf, Uninjected
<1>3. \A b \in Blocks : AttachedTo(b) \in [Blocks -> SUBSET Files]
  BY DEF AttachedTo, BlockTypeOK, BufferTypeOK, InjectTypeOK
<1>4. Migrated \subseteq Blocks
  BY DEF Migrated
<1>5. CASE ListUninjected \/ RecoveryFails
  BY <1>1, <1>2, <1>5 DEF BlockTypeOK, BufferTypeOK, InjectTypeOK, ListUninjected, RecoveryFails,
                          tables, services, mishaps, rucio
<1>7. ASSUME NEW b \in Blocks, Insertion(b) PROVE BlockTypeOK'
  <2>1. UNCHANGED <<step, recovering, closing, tables, dbs, sealed>>
    BY <1>7, InsertionMoves
  <2>2. faults' \in Nat /\ interrupted' \in BOOLEAN
    <3>1. CASE UNCHANGED mishaps
      BY <3>1 DEF mishaps, BlockTypeOK, BufferTypeOK
    <3>2. CASE Fault("Rucio error")
      BY <3>2, FaultTypes DEF BlockTypeOK
    <3> QED BY <1>7, <3>1, <3>2, InsertionMoves
  <2>3. attached' \in [Blocks -> SUBSET Files]
    BY <1>3, <1>7, InsertionMoves DEF BlockTypeOK, BufferTypeOK
  <2>4. /\ listed' \in [Blocks -> SUBSET Files] /\ marking' \subseteq Files
        /\ replicas' \subseteq Files /\ missed' \subseteq Files
    BY <1>7, InsertionMoves DEF BlockTypeOK, InjectTypeOK
  <2> QED BY <1>1, <2>1, <2>2, <2>3, <2>4 DEF BlockTypeOK, BufferTypeOK, InjectTypeOK, tables
<1>8. CASE \E b \in Blocks : CloseInRucio(b) \/ SetBlockClosed(b)
  BY <1>1, <1>8 DEF BlockTypeOK, BufferTypeOK, InjectTypeOK, CloseInRucio, SetBlockClosed, Closed,
                    tables, services, mishaps, injectVars, rucio
<1>9. CASE \E b \in Blocks : CloseFails(b)
  BY <1>1, <1>9, FaultTypes DEF BlockTypeOK, BufferTypeOK, InjectTypeOK, CloseFails, Closed, tables,
                                services, rucio
<1>10. CASE MarkInjected \/ ListMigrated
  BY <1>1, <1>4, <1>10 DEF BlockTypeOK, BufferTypeOK, InjectTypeOK, MarkInjected, ListMigrated,
                           tables, services, mishaps, rucio
<1>11. CASE Deadlock \/ InjectCrash
  BY <1>1, <1>11, FaultTypes DEF BlockTypeOK, BufferTypeOK, InjectTypeOK, Deadlock, InjectCrash,
                                 NothingListed, tables, services, rucio
<1> QED BY <1>5, <1>7, <1>8, <1>9, <1>10, <1>11 DEF InjectNext, InjectStep, Insertion

LEMMA BlockNextTypes == BlockTypeOK /\ [Next]_blockVars => BlockTypeOK'
<1> SUFFICES ASSUME BlockTypeOK, [Next]_blockVars PROVE BlockTypeOK'
  OBVIOUS
<1>1. CASE Next
  BY <1>1, AddFileTypes, UploadTypes, InjectTypes DEF Next
<1>2. CASE UNCHANGED blockVars
  BY <1>2 DEF blockVars, BlockTypeOK, BufferTypeOK, UploadTypeOK, InjectTypeOK, tables, services,
              mishaps, uploadVars, upload, pool, injectVars
<1> QED BY <1>1, <1>2

(* Every variable of the buffer, of the two services and of the two        *)
(* components keeps its type.                                              *)
THEOREM BlockTypesCorrect == Spec => []BlockTypeOK
  BY BlockInitTypes, BlockNextTypes, PTL DEF Spec

-----------------------------------------------------------------------------
(* The files of the cache, of the jobs and of DBS.                         *)

LEMMA BlockInitInv == Init => BlockInv
<1> SUFFICES ASSUME Init PROVE UploadInv /\ RucioInv
  BY DEF BlockInv
<1>1. \A b \in Blocks : FilesOf(b) = {} /\ AssocOf(b) = {}
  BY BlocksAssumption DEF Init, BufferInit, UploadInit, NoAssoc, FilesOf, AssocOf
<1>2. CycleInv /\ PlacedInv /\ CacheInv
  BY <1>1 DEF Init, BufferInit, UploadInit, NoAssoc, CycleInv, PlacedInv, CacheInv, CachedWell
<1>3. SentInv /\ RecordInv /\ ParentInv
  BY <1>1 DEF Init, BufferInit, UploadInit, InjectInit, NoAssoc, SentInv, Sent, RecordInv, ParentInv
<1>4. RucioInv
  BY <1>1 DEF Init, BufferInit, InjectInit, NothingListed, RucioInv
<1> QED BY <1>2, <1>3, <1>4 DEF UploadInv

(* What does not move a file leaves the files of every block.              *)
LEMMA FilesOfKept ==
  ASSUME fileBlock' = fileBlock PROVE \A b : FilesOf(b)' = FilesOf(b)
  BY DEF FilesOf

LEMMA AssocOfKept ==
  ASSUME assoc' = assoc PROVE \A b : AssocOf(b)' = AssocOf(b)
  BY DEF AssocOf

LEMMA NoAssocOf ==
  ASSUME assoc = NoAssoc PROVE \A b \in Blocks : AssocOf(b) = {}
  BY BlocksAssumption DEF AssocOf, NoAssoc

(* A step that sends nothing sends nothing.                                *)
LEMMA SentKept ==
  ASSUME dbs' = dbs, work' \cup orphans' \subseteq work \cup orphans
  PROVE  \A b : Sent(b)' => Sent(b)
  BY DEF Sent

LEMMA AddFileInv ==
  ASSUME BlockTypeOK, UploadInv, NEW f \in Files, AddFile(f), UNCHANGED <<uploadVars, injectVars>>
  PROVE  UploadInv'
<1>1. UNCHANGED <<uploadVars, injectVars, fileBlock, injected, row, dbs, attached, sealed>>
  BY DEF AddFile, services
<1>2. \A b : FilesOf(b)' = FilesOf(b) /\ AssocOf(b)' = AssocOf(b)
  BY <1>1, FilesOfKept, AssocOfKept DEF uploadVars, upload
<1>3. \A b : Sent(b)' <=> Sent(b)
  BY <1>1 DEF Sent, uploadVars, pool
<1>4. \A g \in Files : /\ fileStatus'[g] = "InDBS" => fileStatus[g] = "InDBS"
                       /\ fileStatus[g] = "InDBS" => fileStatus'[g] = "InDBS"
                       /\ fileStatus[g] # "absent" => fileStatus'[g] # "absent"
  BY DEF AddFile, BlockTypeOK, BufferTypeOK
<1>5. ParentInv'
  <2>1. \A g \in Files : fileStatus'[g] # "absent" => \A q \in Parents[g] : fileStatus'[q] # "absent"
    BY <1>4, ParentsAssumption DEF AddFile, BlockTypeOK, BufferTypeOK, UploadInv, ParentInv
  <2>2. \A g \in Files : \A q \in Parents[g] : fileStatus[q] = "InDBS" => fileStatus'[q] = "InDBS"
    BY <1>4, ParentsAssumption
  <2> QED BY <1>1, <2>1, <2>2 DEF UploadInv, ParentInv, uploadVars, upload
<1>6. CycleInv' /\ PlacedInv' /\ CacheInv'
  BY <1>1, <1>2, <1>3 DEF UploadInv, CycleInv, PlacedInv, CacheInv, CachedWell, uploadVars, upload
<1>7. SentInv'
  BY <1>1, <1>2, <1>3 DEF UploadInv, SentInv, uploadVars, upload, pool
<1>8. RecordInv'
  BY <1>1, <1>4 DEF UploadInv, RecordInv, injectVars
<1> QED BY <1>5, <1>6, <1>7, <1>8 DEF UploadInv

LEMMA LoadBlocksInv ==
  ASSUME BlockTypeOK, UploadInv, LoadBlocks, UNCHANGED injectVars PROVE UploadInv'
<1>1. UNCHANGED <<assoc, queued, pool, tables, services, injectVars>> /\ assoc = NoAssoc
  BY DEF LoadBlocks, UploadInv, CycleInv
<1>2. \A b : FilesOf(b)' = FilesOf(b) /\ AssocOf(b)' = AssocOf(b)
  BY <1>1, FilesOfKept, AssocOfKept DEF tables
<1>3. \A b : Sent(b)' <=> Sent(b)
  BY <1>1 DEF Sent, services, pool
<1>4. CycleInv' /\ PlacedInv'
  BY <1>1 DEF LoadBlocks, CycleInv, PlacedInv, NoAssoc, Loadable, NotUploaded, tables
<1>5. CacheInv'
  BY <1>1, <1>2, NoAssocOf DEF LoadBlocks, UploadInv, CacheInv, CachedWell, OpenBlocks, tables,
                               BlockTypeOK, UploadTypeOK
<1>6. SentInv' /\ RecordInv'
  BY <1>1, <1>2, <1>3 DEF UploadInv, SentInv, RecordInv, tables, services, pool, injectVars
<1>7. ParentInv'
  <2>1. ASSUME NEW f \in Loadable, NEW q \in Parents[f] PROVE fileStatus[q] = "InDBS"
    BY ParentsAssumption DEF Loadable, Uploadable, NotUploaded, UploadInv, ParentInv, BlockTypeOK, BufferTypeOK
  <2> QED BY <1>1, <2>1 DEF UploadInv, ParentInv, LoadBlocks, tables
<1> QED BY <1>4, <1>5, <1>6, <1>7 DEF UploadInv

(* A file is put into a block that takes it: nobody was told of that block,*)
(* and it is in the cache, or new.                                         *)
LEMMA PutInv ==
  ASSUME BlockTypeOK, UploadInv, NEW f \in todo, NEW b \in Blocks, NEW passed \in SUBSET Blocks,
         phase = "placing", Put(f, b, passed), UNCHANGED injectVars,
         ~Sent(b), b \notin passed, b \notin queued,
         cached[b] \in {"Open", "Pending"} \/ (cached[b] = "out" /\ row[b] = "none"),
         \A c \in passed : cached[c] # "out" /\ content[c] # {}
  PROVE  UploadInv'
<1>1. /\ UNCHANGED <<phase, inBuff, queued, pool, tables, services, injectVars>>
      /\ f \in Files /\ fileBlock[f] = NoBlock /\ assoc[f] = NoBlock /\ b # NoBlock
      /\ assoc' = [assoc EXCEPT ![f] = b] /\ todo' = todo \ {f}
      /\ content' = [content EXCEPT ![b] = @ \cup {f}]
  BY BlocksAssumption DEF Put, UploadInv, CycleInv, BlockTypeOK, UploadTypeOK
<1>2. \A c \in Blocks : cached'[c] = IF c \in passed THEN "Pending"
                                     ELSE IF c = b /\ cached[b] = "out" THEN "Open" ELSE cached[c]
  BY DEF Put
<1>3. /\ \A c : FilesOf(c)' = FilesOf(c)
      /\ AssocOf(b)' = AssocOf(b) \cup {f}
      /\ \A c \in Blocks \ {b} : AssocOf(c)' = AssocOf(c)
  <2>1. \A c : FilesOf(c)' = FilesOf(c)
    BY <1>1, FilesOfKept DEF tables
  <2>2. \A g \in Files : assoc'[g] = IF g = f THEN b ELSE assoc[g]
    BY <1>1 DEF BlockTypeOK, UploadTypeOK
  <2>3. AssocOf(b)' = AssocOf(b) \cup {f}
    BY <1>1, <2>2 DEF AssocOf
  <2>4. ASSUME NEW c \in Blocks, c # b PROVE AssocOf(c)' = AssocOf(c)
    BY <1>1, <2>2, <2>4, BlocksAssumption DEF AssocOf
  <2> QED BY <2>1, <2>3, <2>4
<1>4. \A c : Sent(c)' <=> Sent(c)
  BY <1>1 DEF Sent, services, pool
<1>5. CycleInv'
  BY <1>1 DEF CycleInv, UploadInv, tables, BlockTypeOK, UploadTypeOK
<1>6. PlacedInv'
  BY <1>1, <1>2, <1>4 DEF PlacedInv, UploadInv, tables, BlockTypeOK, UploadTypeOK
<1>7. CacheInv'
  <2> SUFFICES ASSUME NEW c \in Blocks PROVE CachedWell(c)'
    BY DEF CacheInv
  <2>1. CachedWell(c)
    BY DEF UploadInv, CacheInv
  <2>2. CASE c = b
    <3>1. cached[b] = "out" => content[b] = {} /\ AssocOf(b) = {} /\ FilesOf(b) = {}
      <4>1. \A g \in Files : assoc[g] = b => cached[b] \in {"Open", "Pending"}
        BY <1>1 DEF UploadInv, PlacedInv
      <4> QED BY <2>1, <2>2, <4>1 DEF CachedWell, AssocOf
    <3>2. content'[b] = FilesOf(b) \cup AssocOf(b) \cup {f}
      BY <1>1, <2>1, <2>2, <3>1 DEF CachedWell, BlockTypeOK, UploadTypeOK
    <3> QED BY <1>1, <1>2, <1>3, <2>1, <2>2, <3>1, <3>2 DEF CachedWell, tables
  <2>3. CASE c # b
    BY <1>1, <1>2, <1>3, <2>1, <2>3 DEF CachedWell, tables, BlockTypeOK, UploadTypeOK
  <2> QED BY <2>2, <2>3
<1>8. SentInv' /\ RecordInv'
  BY <1>1, <1>3, <1>4 DEF UploadInv, SentInv, RecordInv, tables, services, pool, injectVars
<1>9. ParentInv'
  BY <1>1 DEF UploadInv, ParentInv, tables, BlockTypeOK, UploadTypeOK
<1> QED BY <1>5, <1>6, <1>7, <1>8, <1>9 DEF UploadInv

(* A block that is open in the cache, or has no files, was not sent.       *)
LEMMA MayTakeUnsent ==
  ASSUME BlockTypeOK, UploadInv, NEW b \in Blocks, cached[b] # "out", MayTake(b)
  PROVE  ~Sent(b) /\ b \notin queued /\ cached[b] \in {"Open", "Pending"}
<1>1. CachedWell(b)
  BY DEF UploadInv, CacheInv
<1>2. FilesOf(b) = {} => ~Sent(b)
  BY DEF UploadInv, SentInv, Sent
<1>3. row[b] \notin {"Pending", "InDBS", "Closed"} => ~Sent(b)
  BY DEF UploadInv, SentInv
<1> QED BY <1>1, <1>2, <1>3 DEF CachedWell, MayTake, BlockTypeOK, UploadTypeOK

LEMMA PlaceInv ==
  ASSUME BlockTypeOK, UploadInv, NEW f \in Files, PlaceInCached(f) \/ PlaceInNew(f), UNCHANGED injectVars
  PROVE  UploadInv'
<1>1. CASE PlaceInCached(f)
  <2>1. PICK b \in Cached(Dataset[f]) :
           /\ MayTake(b)
           /\ \E passed \in SUBSET {c \in Cached(Dataset[f]) \ {b} : content[c] # {}} : Put(f, b, passed)
    BY <1>1 DEF PlaceInCached
  <2>2. PICK passed \in SUBSET {c \in Cached(Dataset[f]) \ {b} : content[c] # {}} : Put(f, b, passed)
    BY <2>1
  <2>3. b \in Blocks /\ ~Sent(b) /\ b \notin queued /\ cached[b] \in {"Open", "Pending"}
    BY <2>1, MayTakeUnsent DEF Cached
  <2>4. passed \in SUBSET Blocks /\ b \notin passed
        /\ \A c \in passed : cached[c] # "out" /\ content[c] # {}
    BY <2>2 DEF Cached
  <2> QED BY <1>1, <2>2, <2>3, <2>4, PutInv DEF PlaceInCached
<1>2. CASE PlaceInNew(f)
  <2> DEFINE b == NewBlock(Dataset[f])
             passed == Cached(Dataset[f])
  <2>1. b \in Blocks /\ cached[b] = "out" /\ row[b] = "none"
    BY <1>2, NewBlockUnused DEF PlaceInNew, Unused
  <2>2. ~Sent(b) /\ b \notin queued
    BY <2>1 DEF UploadInv, SentInv, CacheInv, CachedWell
  <2>3. passed \in SUBSET Blocks /\ b \notin passed
        /\ \A c \in passed : cached[c] # "out" /\ content[c] # {}
    BY <1>2, <2>1 DEF PlaceInNew, Cached
  <2>4. f \in todo /\ phase = "placing" /\ Put(f, b, passed)
    BY <1>2 DEF PlaceInNew
  <2> HIDE DEF b, passed
  <2> QED BY <2>1, <2>2, <2>3, <2>4, PutInv
<1> QED BY <1>1, <1>2

LEMMA CheckInv ==
  ASSUME BlockTypeOK, UploadInv, NEW closed \in SUBSET Blocks, CheckBlockCompletion(closed),
         UNCHANGED injectVars
  PROVE  UploadInv'
<1>1. /\ UNCHANGED <<todo, content, inBuff, assoc, queued, pool, tables, services, injectVars>>
      /\ todo = {} /\ phase' = "creating"
  BY DEF CheckBlockCompletion
<1>2. \A b \in Blocks : cached'[b] = IF b \in closed /\ cached[b] = "Open" THEN "Pending" ELSE cached[b]
  BY DEF CheckBlockCompletion
<1>3. \A b : /\ FilesOf(b)' = FilesOf(b) /\ AssocOf(b)' = AssocOf(b)
             /\ Sent(b)' <=> Sent(b)
  BY <1>1, FilesOfKept, AssocOfKept DEF Sent, tables, services, pool
<1>4. CycleInv' /\ CacheInv'
  BY <1>1, <1>2, <1>3 DEF UploadInv, CycleInv, CacheInv, CachedWell, tables
<1>5. PlacedInv'
  BY <1>1, <1>2, <1>3 DEF UploadInv, PlacedInv, tables, BlockTypeOK, UploadTypeOK
<1>6. SentInv' /\ RecordInv' /\ ParentInv'
  BY <1>1, <1>3 DEF UploadInv, SentInv, RecordInv, ParentInv, tables, services, pool, injectVars
<1> QED BY <1>4, <1>5, <1>6 DEF UploadInv

(* A start without memory: what the pool was at goes on.                   *)
LEMMA RestartInv ==
  ASSUME BlockTypeOK, UploadInv, Restart, UNCHANGED injectVars PROVE UploadInv'
<1>1. /\ UNCHANGED <<tables, services, injectVars>> /\ assoc' = NoAssoc /\ todo' = {}
      /\ phase' = "idle" /\ inBuff' = {} /\ queued' = {} /\ work' = {} /\ results' = {}
      /\ orphans' = orphans \cup work
  BY DEF Restart
<1>2. \A b \in Blocks : cached'[b] = "out" /\ content'[b] = {}
  BY DEF Restart
<1>3. \A b : FilesOf(b)' = FilesOf(b) /\ (Sent(b)' <=> Sent(b))
  BY <1>1, FilesOfKept DEF Sent, tables, services
<1>4. CycleInv' /\ PlacedInv' /\ CacheInv'
  BY <1>1, <1>2, <1>3 DEF UploadInv, CycleInv, PlacedInv, CacheInv, CachedWell, NoAssoc, tables
<1>5. SentInv' /\ RecordInv' /\ ParentInv'
  BY <1>1, <1>3 DEF UploadInv, SentInv, RecordInv, ParentInv, tables, services, injectVars, NoAssoc
<1> QED BY <1>4, <1>5 DEF UploadInv

LEMMA CreateBlocksInv ==
  ASSUME BlockTypeOK, UploadInv, CreateBlocks, UNCHANGED injectVars PROVE UploadInv'
<1>1. /\ UNCHANGED <<todo, cached, content, assoc, queued, pool, fileBlock, fileStatus, services, injectVars>>
      /\ phase = "creating" /\ phase' = "assigning" /\ inBuff' = inBuff \cup ToCreate
  BY DEF CreateBlocks
<1>2. \A b \in Blocks : row'[b] = IF b \in ToCreate \cup ToUpdate THEN cached[b] ELSE row[b]
  BY DEF CreateBlocks
<1>3. \A b : /\ FilesOf(b)' = FilesOf(b) /\ AssocOf(b)' = AssocOf(b)
             /\ Sent(b)' <=> Sent(b)
  BY <1>1, FilesOfKept, AssocOfKept DEF Sent, services, pool
<1>4. \A b \in Blocks : CachedWell(b) /\ cached[b] \in {"out", "Open", "Pending", "InDBS"}
  BY DEF UploadInv, CacheInv, BlockTypeOK, UploadTypeOK
<1>5. \A b \in ToCreate \cup ToUpdate : cached[b] \in {"Open", "Pending"} /\ b \notin queued
  BY DEF ToCreate, ToUpdate
<1>6. CycleInv'
  <2>1. ASSUME NEW b \in Blocks, cached[b] \in {"Open", "Pending"} PROVE row'[b] = cached[b]
    BY <1>2, <1>4, <2>1 DEF CachedWell, ToCreate, ToUpdate, BlockTypeOK, BufferTypeOK
  <2> QED BY <1>1, <2>1 DEF UploadInv, CycleInv
<1>7. CacheInv'
  BY <1>1, <1>2, <1>3, <1>4, <1>5 DEF CacheInv, CachedWell
<1>8. \A b \in Blocks : row[b] \in {"InDBS", "Closed"} <=> row'[b] \in {"InDBS", "Closed"}
  BY <1>2, <1>4, <1>5 DEF CachedWell
<1>9. SentInv'
  <2>1. ASSUME NEW b \in Blocks, Sent(b) PROVE row'[b] \in {"Pending", "InDBS", "Closed"}
    BY <1>2, <1>4, <1>5, <2>1 DEF UploadInv, SentInv, CachedWell
  <2> QED BY <1>1, <1>3, <2>1 DEF UploadInv, SentInv, services, pool
<1>10. RecordInv' /\ PlacedInv' /\ ParentInv'
  BY <1>1, <1>3, <1>8 DEF UploadInv, RecordInv, PlacedInv, ParentInv, services, injectVars, BlockTypeOK, InjectTypeOK
<1> QED BY <1>6, <1>7, <1>9, <1>10 DEF UploadInv

(* Every file goes to the block it was put into, and the blocks that are   *)
(* queued have, in the buffer, the files they have in the cache.           *)
LEMMA AssignFilesMoves ==
  ASSUME BlockTypeOK, UploadInv, AssignFiles
  PROVE  /\ \A f \in Files : fileBlock'[f] = IF assoc[f] = NoBlock THEN fileBlock[f] ELSE assoc[f]
         /\ \A b \in Blocks : FilesOf(b)' = FilesOf(b) \cup AssocOf(b)
         /\ \A b \in Blocks : Sent(b) => FilesOf(b)' = FilesOf(b)
         /\ \A b \in ToUpload : content[b] = FilesOf(b)' /\ content[b] # {} /\ row[b] = "Pending"
<1>1. \A f \in Files : fileBlock'[f] = IF assoc[f] = NoBlock THEN fileBlock[f] ELSE assoc[f]
  BY DEF AssignFiles, SetBlockFiles
<1>2. \A f \in Files : assoc[f] # NoBlock => fileBlock[f] = NoBlock /\ ~Sent(assoc[f])
  BY DEF UploadInv, PlacedInv
<1>3. \A b \in Blocks : FilesOf(b)' = FilesOf(b) \cup AssocOf(b)
  BY <1>1, <1>2, BlocksAssumption DEF FilesOf, AssocOf
<1>4. \A b \in Blocks : Sent(b) => AssocOf(b) = {}
  BY <1>2, BlocksAssumption DEF AssocOf
<1>5. \A b \in ToUpload : content[b] = FilesOf(b) \cup AssocOf(b) /\ content[b] # {} /\ row[b] = "Pending"
  BY DEF AssignFiles, ToUpload, UploadInv, CycleInv, CacheInv, CachedWell
<1> QED BY <1>1, <1>3, <1>4, <1>5 DEF ToUpload

LEMMA AssignFilesInv ==
  ASSUME BlockTypeOK, UploadInv, AssignFiles, UNCHANGED injectVars PROVE UploadInv'
<1>1. /\ UNCHANGED <<todo, cached, content, inBuff, results, orphans, fileStatus, injected, row, dbs,
                     injectVars>>
      /\ assoc' = NoAssoc /\ phase = "assigning" /\ phase' = "waiting" /\ queued' = queued \cup ToUpload
      /\ work' = work \cup {[block |-> b, files |-> content[b]] : b \in ToUpload}
  BY DEF AssignFiles, services
<1>2. /\ \A f \in Files : fileBlock'[f] = IF assoc[f] = NoBlock THEN fileBlock[f] ELSE assoc[f]
      /\ \A b \in Blocks : FilesOf(b)' = FilesOf(b) \cup AssocOf(b)
      /\ \A b \in Blocks : Sent(b) => FilesOf(b)' = FilesOf(b)
      /\ \A b \in ToUpload : content[b] = FilesOf(b)' /\ content[b] # {} /\ row[b] = "Pending"
  BY AssignFilesMoves
<1>3. \A b \in Blocks : AssocOf(b)' = {}
  BY <1>1, BlocksAssumption DEF AssocOf, NoAssoc
<1>4. CycleInv' /\ PlacedInv'
  BY <1>1 DEF UploadInv, CycleInv, PlacedInv, NoAssoc
<1>5. CacheInv'
  <2>1. ASSUME NEW b \in Blocks, NEW f \in AssocOf(b) PROVE row[b] # "none"
    BY <1>1, BlocksAssumption DEF AssocOf, UploadInv, CycleInv, PlacedInv
  <2> QED BY <1>1, <1>2, <1>3, <2>1 DEF UploadInv, CacheInv, CachedWell, ToUpload
<1>6. SentInv'
  <2>1. ASSUME NEW job \in work' \cup orphans'
        PROVE  job.files = FilesOf(job.block)' /\ job.files # {} /\ row[job.block] \in {"Pending", "InDBS", "Closed"}
    <3>1. CASE job \in work \cup orphans
      <4>1. job.block \in Blocks /\ Sent(job.block)
        BY <3>1 DEF Sent, BlockTypeOK, UploadTypeOK, Job
      <4> QED BY <1>2, <3>1, <4>1 DEF UploadInv, SentInv
    <3>2. CASE job \notin work \cup orphans
      BY <1>1, <1>2, <3>2
    <3> QED BY <3>1, <3>2
  <2>2. \A b \in Blocks : dbs[b] # {} => dbs[b] = FilesOf(b)'
    BY <1>2 DEF UploadInv, SentInv, Sent
  <2>3. \A b \in Blocks : Sent(b)' => row[b] \in {"Pending", "InDBS", "Closed"}
    BY <1>1, <2>1 DEF UploadInv, SentInv, Sent
  <2> QED BY <1>1, <2>1, <2>2, <2>3 DEF UploadInv, SentInv
<1>7. RecordInv'
  BY <1>1, <1>2 DEF UploadInv, RecordInv, PlacedInv, injectVars
<1>8. ParentInv'
  BY <1>1, <1>2 DEF UploadInv, ParentInv, NoAssoc
<1> QED BY <1>4, <1>5, <1>6, <1>7, <1>8 DEF UploadInv

LEMMA RecordUploadsInv ==
  ASSUME BlockTypeOK, UploadInv, RecordUploads, UNCHANGED injectVars PROVE UploadInv'
<1>1. /\ UNCHANGED <<todo, assoc, work, orphans, fileBlock, injected, services, injectVars>>
      /\ assoc = NoAssoc /\ phase = "waiting" /\ phase' = "idle" /\ todo = {}
      /\ queued' = queued \ Answered /\ inBuff' = inBuff \ Uploaded /\ results' = {} /\ work = {}
  BY DEF RecordUploads, UploadInv, CycleInv
<1>2. /\ \A b \in Blocks : /\ cached'[b] = IF b \in Uploaded THEN "out" ELSE cached[b]
                           /\ content'[b] = IF b \in Uploaded THEN {} ELSE content[b]
                           /\ row'[b] = IF b \in Uploaded THEN "InDBS" ELSE row[b]
      /\ \A f \in Files : fileStatus'[f] = IF fileBlock[f] \in Uploaded THEN "InDBS" ELSE fileStatus[f]
  BY DEF RecordUploads, SetUploaded
<1>3. \A b \in Uploaded : dbs[b] # {} /\ b \in Answered /\ b \in Blocks
  BY DEF Uploaded, Answered, UploadInv, SentInv, BlockTypeOK, UploadTypeOK
<1>4. \A b : /\ FilesOf(b)' = FilesOf(b) /\ AssocOf(b)' = AssocOf(b)
             /\ Sent(b)' <=> Sent(b)
  BY <1>1, FilesOfKept, AssocOfKept DEF Sent, services
<1>5. \A b \in Blocks : AssocOf(b) = {}
  BY <1>1, NoAssocOf
<1>6. CycleInv' /\ PlacedInv'
  BY <1>1 DEF CycleInv, PlacedInv, NoAssoc
<1>7. CacheInv'
  BY <1>1, <1>2, <1>3, <1>4, <1>5 DEF UploadInv, CacheInv, CachedWell
<1>8. SentInv'
  BY <1>1, <1>2, <1>4 DEF UploadInv, SentInv, services
<1>9. RecordInv'
  <2>1. \A b \in Blocks : row'[b] \in {"InDBS", "Closed"} => dbs[b] # {}
    BY <1>2, <1>3 DEF UploadInv, RecordInv
  <2>2. \A f \in Files : fileStatus'[f] = "InDBS" => fileBlock[f] # NoBlock /\ dbs[fileBlock[f]] # {}
    BY <1>2, <1>3, BlocksAssumption DEF UploadInv, RecordInv
  <2>3. \A b \in closing : row'[b] \in {"InDBS", "Closed"}
    BY <1>2 DEF UploadInv, RecordInv, BlockTypeOK, InjectTypeOK
  <2> QED BY <1>1, <2>1, <2>2, <2>3 DEF RecordInv, services, injectVars
<1>10. ParentInv'
  <2>1. \A f \in Files : fileStatus[f] = "InDBS" => fileStatus'[f] = "InDBS"
    BY <1>2
  <2>2. \A f \in Files : fileStatus[f] # "absent" => fileStatus'[f] # "absent"
    BY <1>2
  <2>3. ASSUME NEW f \in Files, fileBlock[f] \in Uploaded, NEW q \in Parents[f] PROVE fileStatus[q] = "InDBS"
    BY <1>3, <2>3, BlocksAssumption DEF UploadInv, ParentInv
  <2> QED BY <1>1, <1>2, <2>1, <2>2, <2>3, ParentsAssumption DEF UploadInv, ParentInv, NoAssoc
<1> QED BY <1>6, <1>7, <1>8, <1>9, <1>10 DEF UploadInv

LEMMA RecordLostInv ==
  ASSUME BlockTypeOK, UploadInv, RecordLost \/ GiveUpWaiting, UNCHANGED injectVars PROVE UploadInv'
<1>1. /\ UNCHANGED <<todo, content, inBuff, assoc, work, orphans, tables, services, injectVars>>
      /\ assoc = NoAssoc /\ phase = "waiting" /\ phase' = "idle" /\ todo = {} /\ results' = {}
  BY DEF RecordLost, GiveUpWaiting, UploadInv, CycleInv
<1>2. \A b : /\ FilesOf(b)' = FilesOf(b) /\ AssocOf(b)' = AssocOf(b)
             /\ Sent(b)' <=> Sent(b)
  BY <1>1, FilesOfKept, AssocOfKept DEF Sent, services, tables
<1>3. \A b \in Uploaded : b \in queued /\ b \in Answered
  BY DEF Uploaded, Answered, UploadInv, SentInv
<1>4. /\ queued' \subseteq queued
      /\ \A job \in work : job.block \in queued'
      /\ \A b \in Blocks : cached'[b] # cached[b] => /\ cached'[b] = "InDBS" /\ b \notin queued'
                                                     /\ cached[b] = "Pending" /\ content[b] # {}
  <2>1. CASE RecordLost
    BY <1>3, <2>1 DEF RecordLost, UploadInv, CacheInv, CachedWell
  <2>2. CASE GiveUpWaiting
    BY <2>2 DEF GiveUpWaiting, UploadInv, SentInv
  <2> QED BY <2>1, <2>2
<1>5. CycleInv' /\ PlacedInv'
  BY <1>1 DEF UploadInv, CycleInv, PlacedInv, NoAssoc, tables
<1>6. CacheInv'
  BY <1>1, <1>2, <1>4 DEF UploadInv, CacheInv, CachedWell, tables
<1>7. SentInv' /\ RecordInv' /\ ParentInv'
  BY <1>1, <1>2, <1>4 DEF UploadInv, SentInv, RecordInv, ParentInv, tables, services, injectVars
<1> QED BY <1>5, <1>6, <1>7 DEF UploadInv

(* A block is inserted with the files the buffer has in it, or is there.   *)
LEMMA InsertedFiles ==
  ASSUME BlockTypeOK, UploadInv, NEW job \in work \cup orphans
  PROVE  /\ job.block \in Blocks /\ Sent(job.block)
         /\ \A b \in Blocks : /\ dbs[b] # {} => Inserted(job)[b] = dbs[b]
                              /\ Inserted(job)[b] # dbs[b] => b = job.block /\ Inserted(job)[b] = FilesOf(b)
  BY DEF Inserted, DBSAccepts, Sent, UploadInv, SentInv, BlockTypeOK, UploadTypeOK, BufferTypeOK, Job

LEMMA PoolInv ==
  ASSUME BlockTypeOK, UploadInv, NEW job \in work \cup orphans, UNCHANGED injectVars,
         (job \in work /\ (Insert(job) \/ InsertFails(job))) \/ (job \in orphans /\ OrphanInserts(job))
  PROVE  UploadInv'
<1>1. /\ UNCHANGED <<upload, tables, injectVars>> /\ dbs' \in {dbs, Inserted(job)}
      /\ work' \subseteq work /\ orphans' \subseteq orphans
  BY DEF Insert, InsertFails, OrphanInserts
<1>2. \A b : FilesOf(b)' = FilesOf(b) /\ AssocOf(b)' = AssocOf(b)
  BY <1>1, FilesOfKept, AssocOfKept DEF upload, tables
<1>3. \A b \in Blocks : /\ dbs[b] # {} => dbs'[b] = dbs[b]
                        /\ dbs'[b] # {} => dbs'[b] = FilesOf(b) /\ Sent(b)
  BY <1>1, InsertedFiles DEF UploadInv, SentInv, Sent
<1>4. \A b \in Blocks : Sent(b)' => Sent(b)
  BY <1>1, <1>3 DEF Sent
<1>5. \A r \in results' : r.block \in queued /\ (r.uploaded => dbs'[r.block] # {})
  <2>1. \A r \in results : r.block \in Blocks /\ r.block \in queued /\ (r.uploaded => dbs'[r.block] # {})
    BY <1>3 DEF UploadInv, SentInv, BlockTypeOK, UploadTypeOK
  <2>2. CASE job \in work /\ Insert(job)
    <3>1. PICK u \in BOOLEAN : /\ u => dbs'[job.block] # {}
                               /\ results' = results \cup {[block |-> job.block, uploaded |-> u]}
      BY <2>2, Zenon DEF Insert
    <3> QED BY <2>1, <2>2, <3>1 DEF UploadInv, SentInv
  <2>3. CASE job \in work /\ InsertFails(job)
    <3>1. results' = results \cup {[block |-> job.block, uploaded |-> FALSE]}
      BY <2>3, Zenon DEF InsertFails
    <3> QED BY <2>1, <2>3, <3>1 DEF UploadInv, SentInv
  <2>4. CASE OrphanInserts(job)
    BY <2>1, <2>4 DEF OrphanInserts
  <2> QED BY <2>2, <2>3, <2>4
<1>6. CycleInv' /\ CacheInv' /\ ParentInv'
  BY <1>1, <1>2 DEF UploadInv, CycleInv, CacheInv, CachedWell, ParentInv, upload, tables
<1>7. PlacedInv'
  BY <1>1, <1>4 DEF UploadInv, PlacedInv, upload, tables, BlockTypeOK, UploadTypeOK
<1>8. SentInv'
  BY <1>1, <1>2, <1>3, <1>4, <1>5 DEF UploadInv, SentInv, upload, tables
<1>9. RecordInv'
  BY <1>1, <1>3 DEF UploadInv, RecordInv, tables, injectVars, BlockTypeOK, BufferTypeOK
<1> QED BY <1>6, <1>7, <1>8, <1>9 DEF UploadInv

(* RucioInjector changes the status of blocks that are in DBS only.        *)
LEMMA InjectInv ==
  ASSUME BlockTypeOK, UploadInv, InjectNext, UNCHANGED uploadVars PROVE UploadInv'
<1>1. /\ UNCHANGED <<fileBlock, fileStatus, dbs, uploadVars>>
      /\ \A b \in Blocks : row'[b] # row[b] => b \in closing /\ row'[b] = "Closed"
      /\ \A b \in closing' : b \in closing \/ row[b] = "InDBS"
  <2>1. CASE ListUninjected \/ MarkInjected \/ ListMigrated \/ \E b \in Blocks : CloseInRucio(b) \/ SetBlockClosed(b)
    BY <2>1 DEF ListUninjected, CloseInRucio, SetBlockClosed, Closed,
                MarkInjected, ListMigrated, Migrated, tables, services, injectVars, BlockTypeOK, BufferTypeOK
  <2>2. CASE \E b \in Blocks : Insertion(b)
    BY <2>2, InsertionMoves DEF tables
  <2>3. CASE Deadlock \/ RecoveryFails \/ InjectCrash \/ \E b \in Blocks : CloseFails(b)
    BY <2>3 DEF Deadlock, RecoveryFails, InjectCrash, CloseFails, Closed, tables, services
  <2> QED BY <2>1, <2>2, <2>3 DEF InjectNext, InjectStep, Insertion
<1>2. \A b : /\ FilesOf(b)' = FilesOf(b) /\ AssocOf(b)' = AssocOf(b)
             /\ Sent(b)' <=> Sent(b)
  BY <1>1, FilesOfKept, AssocOfKept DEF Sent, uploadVars, upload, pool
<1>3. \A b \in Blocks : row'[b] # row[b] => row[b] \in {"InDBS", "Closed"} /\ row'[b] = "Closed"
  BY <1>1 DEF UploadInv, RecordInv
<1>4. CycleInv'
  BY <1>1, <1>3 DEF UploadInv, CycleInv, CacheInv, CachedWell, uploadVars, upload
<1>5. PlacedInv' /\ ParentInv'
  BY <1>1, <1>2 DEF UploadInv, PlacedInv, ParentInv, uploadVars, upload
<1>6. CacheInv'
  BY <1>1, <1>2, <1>3 DEF UploadInv, CacheInv, CachedWell, uploadVars, upload
<1>7. SentInv'
  BY <1>1, <1>2, <1>3 DEF UploadInv, SentInv, uploadVars, upload, pool
<1>8. RecordInv'
  <2>1. \A b \in closing' : b \in Blocks
    BY InjectTypes DEF BlockTypeOK, InjectTypeOK
  <2> QED BY <1>1, <1>3, <2>1 DEF UploadInv, RecordInv
<1> QED BY <1>4, <1>5, <1>6, <1>7, <1>8 DEF UploadInv

(* Every step of DBS3Upload but a lost connection.                         *)
LEMMA UploadNextInv ==
  ASSUME BlockTypeOK, UploadInv, UploadNext, ~interrupted', UNCHANGED injectVars PROVE UploadInv'
<1>1. CASE UploadStep
  BY <1>1, LoadBlocksInv, PlaceInv, RestartInv, CreateBlocksInv, AssignFilesInv, RecordUploadsInv
     DEF UploadStep, CompletionFails
<1>2. CASE \E closed \in SUBSET Blocks : CheckBlockCompletion(closed)
  BY <1>2, CheckInv
<1>3. CASE \E job \in work : Insert(job) \/ InsertFails(job)
  BY <1>3, PoolInv
<1>4. CASE \E job \in orphans : OrphanInserts(job)
  BY <1>4, PoolInv
<1>5. CASE UploadFault
  <2>1. ~ConnectionLost
    BY Zenon DEF ConnectionLost, Fault
  <2> QED BY <1>5, <2>1, RestartInv, RecordLostInv DEF UploadFault, WaitedTooLong, UploadCrash
<1> QED BY <1>1, <1>2, <1>3, <1>4, <1>5 DEF UploadNext

LEMMA UploadInvStuttering == UploadInv /\ UNCHANGED blockVars => UploadInv'
  BY FilesOfKept, AssocOfKept
     DEF UploadInv, CycleInv, PlacedInv, CacheInv, CachedWell, SentInv, Sent, RecordInv, ParentInv, blockVars,
         tables, services, uploadVars, upload, pool, injectVars

-----------------------------------------------------------------------------
(* Rucio.                                                                  *)

(* DBS3Upload puts files into no block that is in DBS, takes none out, and *)
(* touches nothing of RucioInjector's.                                     *)
LEMMA UploadKeeps ==
  ASSUME BlockTypeOK, UploadInv, UploadNext, UNCHANGED injectVars
  PROVE  /\ UNCHANGED <<injected, attached, sealed>>
         /\ \A f \in Files : fileBlock[f] # NoBlock => fileBlock'[f] = fileBlock[f]
         /\ \A b \in Blocks : dbs[b] # {} => dbs'[b] # {} /\ FilesOf(b)' = FilesOf(b)
<1>1. CASE AssignFiles
  <2>1. \A f \in Files : fileBlock[f] # NoBlock => fileBlock'[f] = fileBlock[f]
    BY <1>1, AssignFilesMoves DEF UploadInv, PlacedInv
  <2>2. \A b \in Blocks : dbs[b] # {} => FilesOf(b)' = FilesOf(b)
    BY <1>1, AssignFilesMoves DEF Sent
  <2> QED BY <1>1, <2>1, <2>2 DEF AssignFiles, services
<1>2. CASE \E job \in work \cup orphans : Insert(job) \/ InsertFails(job) \/ OrphanInserts(job)
  <2>1. PICK job \in work \cup orphans : Insert(job) \/ InsertFails(job) \/ OrphanInserts(job)
    BY <1>2
  <2>2. UNCHANGED <<fileBlock, injected, attached, sealed>> /\ dbs' \in {dbs, Inserted(job)}
    BY <2>1 DEF Insert, InsertFails, OrphanInserts, tables
  <2> QED BY <2>2, InsertedFiles, FilesOfKept
<1>3. CASE ~AssignFiles /\ ~\E job \in work \cup orphans : Insert(job) \/ InsertFails(job) \/ OrphanInserts(job)
  <2>1. UNCHANGED <<fileBlock, injected, dbs, attached, sealed>>
    BY <1>3 DEF UploadNext, UploadStep, UploadFault, LoadBlocks, PlaceInCached, PlaceInNew, Put,
                CompletionFails, CreateBlocks, RecordUploads, CheckBlockCompletion, ConnectionLost,
                RecordLost, GiveUpWaiting, WaitedTooLong, UploadCrash, Restart, tables, services
  <2> QED BY <2>1, FilesOfKept
<1> QED BY <1>1, <1>2, <1>3

LEMMA UploadRucioInv ==
  ASSUME BlockTypeOK, UploadInv, RucioInv, UploadNext, UNCHANGED injectVars
  PROVE  RucioInv'
<1>1. /\ UNCHANGED <<injected, attached, sealed, injectVars>>
      /\ \A f \in Files : fileBlock[f] # NoBlock => fileBlock'[f] = fileBlock[f]
      /\ \A b \in Blocks : dbs[b] # {} => dbs'[b] # {} /\ FilesOf(b)' = FilesOf(b)
  BY UploadKeeps
<1>2. \A b \in Blocks : FilesOf(b) \subseteq FilesOf(b)'
  BY <1>1, BlocksAssumption DEF FilesOf
<1>3. injected \cup marking \cup recovering \subseteq Files /\ closing \cup sealed \subseteq Blocks
  BY DEF BlockTypeOK, BufferTypeOK, InjectTypeOK
<1> QED BY <1>1, <1>2, <1>3 DEF RucioInv, injectVars

LEMMA InjectRucioInv ==
  ASSUME BlockTypeOK, UploadInv, RucioInv, InjectNext, UNCHANGED uploadVars
  PROVE  RucioInv'
<1>1. /\ UNCHANGED <<fileBlock, dbs>>
      /\ \A b \in Blocks : FilesOf(b)' = FilesOf(b) /\ Uninjected(b) \subseteq FilesOf(b)
      /\ closing \cup sealed \subseteq Blocks
  <2>1. UNCHANGED <<fileBlock, dbs>>
    BY InsertionMoves
       DEF InjectNext, InjectStep, Insertion, ListUninjected, CloseInRucio, SetBlockClosed,
           MarkInjected, ListMigrated, CloseFails, Deadlock, RecoveryFails, InjectCrash, tables, services
  <2> QED BY <2>1, FilesOfKept DEF Uninjected, BlockTypeOK, BufferTypeOK, InjectTypeOK
<1>2. CASE ListUninjected \/ RecoveryFails
  <2>1. UNCHANGED <<attached, missed, sealed, closing>> /\ \A b \in Blocks : listed'[b] \subseteq FilesOf(b)
    BY <1>1, <1>2 DEF ListUninjected, RecoveryFails, services, rucio
  <2>2. injected' \cup marking' \cup recovering' = injected \cup marking \cup recovering
    BY <1>2 DEF ListUninjected, RecoveryFails, tables
  <2> QED BY <1>1, <2>1, <2>2 DEF RucioInv
<1>3. ASSUME NEW b \in Blocks, Insertion(b) PROVE RucioInv'
  <2>1. /\ UNCHANGED <<injected, recovering, closing, sealed>>
        /\ attached' \in {attached, AttachedTo(b)}
        /\ listed' = [listed EXCEPT ![b] = {}]
        /\ missed \subseteq missed'
        /\ \/ marking' \in {marking, {}}
           \/ marking' = listed[b] /\ listed[b] \subseteq attached'[b] \cup missed'
    BY <1>3, InsertionMoves DEF tables
  <2>2. \A c \in Blocks : AttachedTo(b)[c] = IF c = b /\ b \notin sealed THEN attached[b] \cup listed[b] ELSE attached[c]
    BY DEF AttachedTo, BlockTypeOK, BufferTypeOK
  <2>3. \A c \in Blocks : attached[c] \subseteq attached'[c] /\ attached'[c] \subseteq FilesOf(c)
                          /\ listed'[c] \subseteq FilesOf(c)
    BY <2>1, <2>2 DEF RucioInv, BlockTypeOK, BufferTypeOK, InjectTypeOK
  <2>4. \A f \in FilesOf(b) : fileBlock[f] = b /\ b # NoBlock
    BY BlocksAssumption DEF FilesOf
  <2>5. \A f \in injected \cup recovering \cup marking : fileBlock[f] \in Blocks
    BY DEF RucioInv, BlockTypeOK, BufferTypeOK, InjectTypeOK
  <2>6. \A f \in marking' : fileBlock[f] # NoBlock /\ f \in attached'[fileBlock[f]] \cup missed'
    BY <2>1, <2>3, <2>4, <2>5 DEF RucioInv
  <2> QED BY <1>1, <2>1, <2>3, <2>5, <2>6 DEF RucioInv
<1>4. CASE MarkInjected \/ Deadlock \/ InjectCrash
  <2>1. UNCHANGED <<attached, missed, sealed>> /\ closing' \subseteq closing
        /\ \A b \in Blocks : listed'[b] = listed[b] \/ listed'[b] = {}
    BY <1>4 DEF MarkInjected, Deadlock, InjectCrash, NothingListed, services, rucio
  <2>2. injected' \cup marking' \cup recovering' \subseteq injected \cup marking \cup recovering
    BY <1>4 DEF MarkInjected, Deadlock, InjectCrash, tables
  <2> QED BY <1>1, <2>1, <2>2 DEF RucioInv
<1>5. CASE ListMigrated
  <2>1. ASSUME NEW b \in Migrated PROVE dbs[b] # {} /\ FilesOf(b) \subseteq attached[b] \cup missed
    <3>1. b \in Blocks /\ row[b] = "InDBS" /\ FilesOf(b) \subseteq injected
      BY DEF Migrated
    <3>2. \A f \in FilesOf(b) : fileBlock[f] = b
      BY DEF FilesOf
    <3> QED BY <3>1, <3>2 DEF UploadInv, RecordInv, RucioInv
  <2>2. UNCHANGED <<attached, missed, sealed, listed>> /\ closing' = Migrated /\ Migrated \subseteq Blocks
    BY <1>5 DEF ListMigrated, services, Migrated, rucio
  <2>3. UNCHANGED <<injected, marking, recovering>>
    BY <1>5 DEF ListMigrated, tables
  <2> QED BY <1>1, <2>1, <2>2, <2>3 DEF RucioInv
<1>6. ASSUME NEW b \in Blocks, CloseInRucio(b) \/ SetBlockClosed(b) \/ CloseFails(b) PROVE RucioInv'
  <2>1. UNCHANGED <<attached, missed, listed, injected, marking, recovering>>
    BY <1>6 DEF CloseInRucio, SetBlockClosed, CloseFails, tables, services, injectVars, rucio
  <2>2. closing' \cup sealed' \subseteq closing \cup sealed
    BY <1>6 DEF CloseInRucio, SetBlockClosed, CloseFails, Closed, services, injectVars
  <2> QED BY <1>1, <2>1, <2>2 DEF RucioInv
<1> QED BY <1>2, <1>3, <1>4, <1>5, <1>6 DEF InjectNext, InjectStep, Insertion

LEMMA RucioInvKept ==
  ASSUME fileBlock' = fileBlock, UNCHANGED <<injected, services, injectVars>>, RucioInv PROVE RucioInv'
  BY FilesOfKept DEF RucioInv, services, injectVars

-----------------------------------------------------------------------------
LEMMA BlockNextInv == BlockTypeOK /\ BlockInv /\ [Next]_blockVars => BlockInv'
<1> SUFFICES ASSUME BlockTypeOK, BlockInv, [Next]_blockVars, ~interrupted'
             PROVE  UploadInv' /\ RucioInv'
  BY DEF BlockInv
<1>1. ~interrupted
  <2>1. CASE interrupted' = interrupted
    BY <2>1
  <2>2. CASE \E kind \in AllFaults : Fault(kind)
    BY <2>2 DEF Fault
  <2>3. (interrupted' = interrupted) \/ \E kind \in AllFaults : Fault(kind)
    <3>1. CASE UNCHANGED blockVars \/ \E f \in Files : AddFile(f)
      BY <3>1 DEF blockVars, mishaps, AddFile
    <3>2. CASE UploadNext
      BY <3>2 DEF UploadNext, UploadStep, UploadFault, LoadBlocks, PlaceInCached, PlaceInNew, Put,
                  CompletionFails, CreateBlocks, AssignFiles, RecordUploads, CheckBlockCompletion,
                  ConnectionLost, RecordLost, GiveUpWaiting, WaitedTooLong, UploadCrash, Insert, InsertFails,
                  OrphanInserts, mishaps, AllFaults
    <3>3. CASE InjectNext
      BY <3>3 DEF InjectNext, InjectStep, ListUninjected, InsertReplicas, ReplicasRefused, AttachRefused,
                  CloseInRucio, SetBlockClosed, MarkInjected, ListMigrated, InsertReplicasFails, CloseFails,
                  Deadlock, RecoveryFails, InjectCrash, mishaps, AllFaults
    <3> QED BY <3>1, <3>2, <3>3 DEF Next
  <2> QED BY <2>1, <2>2, <2>3
<1>2. UploadInv /\ RucioInv
  BY <1>1 DEF BlockInv
<1>3. CASE \E f \in Files : AddFile(f) /\ UNCHANGED <<uploadVars, injectVars>>
  BY <1>2, <1>3, AddFileInv, RucioInvKept DEF AddFile
<1>4. CASE UploadNext /\ UNCHANGED injectVars
  BY <1>2, <1>4, UploadNextInv, UploadRucioInv
<1>5. CASE InjectNext /\ UNCHANGED uploadVars
  BY <1>2, <1>5, InjectInv, InjectRucioInv
<1>6. CASE UNCHANGED blockVars
  BY <1>2, <1>6, UploadInvStuttering, RucioInvKept DEF blockVars, tables
<1> QED BY <1>3, <1>4, <1>5, <1>6 DEF Next

(* Whatever crashes, fails, comes late or is given up, and until the       *)
(* connection is lost between two transactions of DBS3Upload, the buffer,  *)
(* the cache, the jobs of the pool, DBS and Rucio agree as BlockInv says.  *)
THEOREM BlocksAgree == Spec => [](BlockTypeOK /\ BlockInv)
<1>1. Init => BlockTypeOK /\ BlockInv
  BY BlockInitTypes, BlockInitInv
<1>2. BlockTypeOK /\ BlockInv /\ [Next]_blockVars => BlockTypeOK' /\ BlockInv'
  BY BlockNextTypes, BlockNextInv
<1> QED BY <1>1, <1>2, PTL DEF Spec

(* What is sent to DBS, by the pool or by what is left of a crashed one,   *)
(* and what DBS has, is what the buffer has.                               *)
THEOREM DBSAgreesHolds == Spec => []DBSAgrees
<1>1. BlockInv => DBSAgrees
  BY DEF BlockInv, UploadInv, SentInv, DBSAgrees
<1> QED BY <1>1, BlocksAgree, PTL

(* What the buffer records as uploaded is in DBS.                          *)
THEOREM RecordsAreTrue == Spec => []RecordedIsTrue
<1>1. BlockTypeOK /\ BlockInv => RecordedIsTrue
  <2> SUFFICES ASSUME BlockTypeOK, UploadInv
               PROVE  /\ \A b \in Blocks : row[b] \in {"InDBS", "Closed"} => dbs[b] # {}
                      /\ \A f \in Files : fileStatus[f] = "InDBS" => \E b \in Blocks : f \in dbs[b]
    BY DEF BlockInv, RecordedIsTrue
  <2>1. ASSUME NEW f \in Files, fileStatus[f] = "InDBS" PROVE \E b \in Blocks : f \in dbs[b]
    BY <2>1 DEF UploadInv, RecordInv, SentInv, FilesOf, BlockTypeOK, BufferTypeOK
  <2> QED BY <2>1 DEF UploadInv, RecordInv
<1> QED BY <1>1, BlocksAgree, PTL

(* No file is in DBS without those it was made of.                         *)
THEOREM ParentsAreFirst == Spec => []ParentsFirst
<1>1. BlockTypeOK /\ BlockInv => ParentsFirst
  <2> SUFFICES ASSUME BlockTypeOK, UploadInv, NEW b \in Blocks, NEW f \in dbs[b], NEW q \in Parents[f]
               PROVE  \E c \in Blocks : q \in dbs[c]
    BY DEF BlockInv, ParentsFirst
  <2>1. f \in Files /\ fileBlock[f] = b
    BY DEF UploadInv, SentInv, FilesOf
  <2>2. q \in Files /\ fileStatus[q] = "InDBS"
    BY <2>1, ParentsAssumption, BlocksAssumption DEF UploadInv, ParentInv
  <2> QED BY <2>2 DEF UploadInv, RecordInv, SentInv, FilesOf, BlockTypeOK, BufferTypeOK
<1> QED BY <1>1, BlocksAgree, PTL

(* Rucio has the files where DBS has them, and a closed block lacks none   *)
(* but those Rucio refused to attach because it had others of the call.    *)
THEOREM RucioAgreesHolds == Spec => []RucioAgrees
<1>1. BlockTypeOK /\ BlockInv => RucioAgrees
  BY DEF BlockInv, UploadInv, SentInv, RucioInv, RucioAgrees, BlockTypeOK, BufferTypeOK
<1> QED BY <1>1, BlocksAgree, PTL
=============================================================================
