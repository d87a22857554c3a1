---------------------------- MODULE RucioInjector ----------------------------
(***************************************************************************)
(* RucioInjectorPoller: a cycle reads which files are not in Rucio yet,    *)
(* attaches them to their blocks there and marks them as injected, block   *)
(* by block; then it closes the blocks that are in DBS and whose files are *)
(* all injected.                                                           *)
(***************************************************************************)
EXTENDS BlockBuffer

VARIABLES
  step,           \* where the cycle is
  listed,         \* uninjectedFiles, by block
  marking,        \* files that were attached and are to be marked
  recovering,     \* filesToRecover: files whose marking failed
  closing,        \* migratedBlocks
  replicas,       \* external: the files that have a replica in Rucio
  missed          \* the files Rucio refused to attach because of others of the call

rucio      == <<attached, replicas, missed>>
injectVars == <<step, listed, marking, recovering, closing, replicas, missed>>

InjectTypeOK ==
  /\ step \in {"idle", "injecting", "closing"}
  /\ listed \in [Blocks -> SUBSET Files]
  /\ marking \subseteq Files
  /\ recovering \subseteq Files
  /\ closing \subseteq Blocks
  /\ replicas \subseteq Files /\ missed \subseteq Files

NothingListed == [b \in Blocks |-> {}]

InjectInit ==
  /\ step = "idle" /\ listed = NothingListed /\ marking = {} /\ recovering = {} /\ closing = {}
  /\ replicas = {} /\ missed = {}

(* First the files whose marking failed are marked.                        *)
ListUninjected ==
  /\ step = "idle"
  /\ injected' = injected \cup recovering
  /\ recovering' = {}
  /\ listed' = [b \in Blocks |-> Uninjected(b) \ recovering]
  /\ step' = "injecting"
  /\ UNCHANGED <<marking, closing, fileBlock, fileStatus, row, services, mishaps, rucio>>

(* Another deadlock: the files are listed, and attached, once more.        *)
RecoveryFails ==
  /\ step = "idle" /\ recovering # {}
  /\ listed' = [b \in Blocks |-> Uninjected(b)]
  /\ step' = "injecting"
  /\ UNCHANGED <<marking, recovering, closing, tables, services, mishaps, rucio>>

(* createReplicas for the files of a block.  Rucio is external: what it    *)
(* does with files it has already is open, what becomes of its answer is   *)
(* not.                                                                    *)
Inserting(b) ==
  /\ step = "injecting" /\ marking = {} /\ listed[b] # {}
  /\ listed' = [listed EXCEPT ![b] = {}]
  /\ UNCHANGED <<step, recovering, closing, tables, dbs, sealed>>

AttachedTo(b) == [attached EXCEPT ![b] = IF b \in sealed THEN @ ELSE @ \cup listed[b]]

(* Nothing is attached, nor marked, in this cycle: add_replicas minds a    *)
(* file it has, unless it is the only one of the call ("FIXME: I think we  *)
(* would have to iterate over every single file").                         *)
ReplicasRefused(b) ==
  /\ listed[b] \cap replicas # {} /\ Cardinality(listed[b]) > 1
  /\ Inserting(b)
  /\ UNCHANGED <<rucio, marking, mishaps>>

(* The replicas are there, or were.  A closed block takes no file;         *)
(* otherwise attach_dids takes them all, some of them a second time,       *)
InsertReplicas(b) ==
  /\ Inserting(b)
  /\ replicas' = replicas \cup listed[b]
  /\ attached' = AttachedTo(b) /\ marking' = IF b \in sealed THEN {} ELSE listed[b]
  /\ UNCHANGED <<missed, mishaps>>

(* or none because of those, which attachDIDs takes for a success.         *)
AttachRefused(b) ==
  /\ listed[b] \cap attached[b] # {} /\ b \notin sealed
  /\ Inserting(b)
  /\ replicas' = replicas \cup listed[b]
  /\ missed' = missed \cup (listed[b] \ attached[b]) /\ marking' = listed[b]
  /\ UNCHANGED <<attached, mishaps>>

(* The block could not be created or Rucio fails, before or after it did   *)
(* what it was asked for.                                                  *)
InsertReplicasFails(b) ==
  /\ Inserting(b) /\ Fault("Rucio error")
  /\ \/ UNCHANGED <<replicas, attached>>
     \/ replicas' = replicas \cup listed[b] /\ attached' \in {attached, AttachedTo(b)}
  /\ UNCHANGED <<missed, marking>>

(* _updateLFNState                                                         *)
MarkInjected ==
  /\ marking # {}
  /\ injected' = injected \cup marking
  /\ marking' = {}
  /\ UNCHANGED <<step, listed, recovering, closing, fileBlock, fileStatus, row, services, mishaps, rucio>>

Deadlock ==
  /\ marking # {} /\ Fault("deadlock")
  /\ recovering' = recovering \cup marking
  /\ marking' = {}
  /\ UNCHANGED <<step, listed, closing, tables, services, rucio>>

(* closeBlocks                                                             *)
ListMigrated ==
  /\ step = "injecting" /\ marking = {} /\ listed = NothingListed
  /\ closing' = Migrated
  /\ step' = IF Migrated = {} THEN "idle" ELSE "closing"
  /\ UNCHANGED <<listed, marking, recovering, tables, services, mishaps, rucio>>

CloseInRucio(b) ==
  /\ b \in closing \ sealed
  /\ sealed' = sealed \cup {b}
  /\ UNCHANGED <<injectVars, tables, dbs, attached, mishaps>>

Closed(b) ==
  /\ closing' = closing \ {b}
  /\ step' = IF closing' = {} THEN "idle" ELSE step

(* SetBlockClosed                                                          *)
SetBlockClosed(b) ==
  /\ b \in closing \cap sealed
  /\ row' = [row EXCEPT ![b] = "Closed"]
  /\ Closed(b)
  /\ UNCHANGED <<listed, marking, recovering, fileBlock, fileStatus, injected, services, mishaps, rucio>>

CloseFails(b) ==
  /\ b \in closing \ sealed /\ Fault("Rucio error")
  /\ Closed(b)
  /\ UNCHANGED <<listed, marking, recovering, tables, services, rucio>>

InjectCrash ==
  /\ Fault("inject crash")
  /\ step' = "idle" /\ listed' = NothingListed /\ marking' = {} /\ recovering' = {} /\ closing' = {}
  /\ UNCHANGED <<tables, services, rucio>>

InjectStep ==
  \/ ListUninjected
  \/ \E b \in Blocks : InsertReplicas(b) \/ ReplicasRefused(b) \/ AttachRefused(b)
                          \/ CloseInRucio(b) \/ SetBlockClosed(b)
  \/ MarkInjected
  \/ ListMigrated

InjectNext ==
  \/ InjectStep
  \/ \E b \in Blocks : InsertReplicasFails(b) \/ CloseFails(b)
  \/ Deadlock \/ RecoveryFails
  \/ InjectCrash
=============================================================================
