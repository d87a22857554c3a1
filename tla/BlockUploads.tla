----------------------------- MODULE BlockUploads ----------------------------
(***************************************************************************)
(* The way of the output files into DBS and Rucio: JobAccountant adds      *)
(* files, DBS3Upload and RucioInjector work on the same tables.            *)
(***************************************************************************)
EXTENDS DBSUpload, RucioInjector

blockVars == <<tables, services, mishaps, uploadVars, injectVars>>

Init == BufferInit /\ UploadInit /\ InjectInit

Next ==
  \/ \E f \in Files : AddFile(f) /\ UNCHANGED <<uploadVars, injectVars>>
  \/ UploadNext /\ UNCHANGED injectVars
  \/ InjectNext /\ UNCHANGED uploadVars

Spec == Init /\ [][Next]_blockVars

(* Every poller goes through its cycles, the pool through its queue, a job *)
(* ends, and the limits of an open block are reached in the end.  Nobody   *)
(* waits for what is left of a crash.                                      *)
FairSpec ==
  /\ Spec
  /\ WF_blockVars(\E f \in Files : AddFile(f) /\ UNCHANGED <<uploadVars, injectVars>>)
  /\ WF_blockVars(UploadStep /\ UNCHANGED injectVars)
  /\ WF_blockVars((\E job \in work : Insert(job)) /\ UNCHANGED injectVars)
  /\ SF_blockVars(CheckBlockCompletion(Blocks) /\ UNCHANGED injectVars)
  /\ WF_blockVars(InjectStep /\ UNCHANGED uploadVars)
=============================================================================
