-------------------------- MODULE SubscriptionProofs --------------------------
(***************************************************************************)
(* Proofs about the file tables, for any elements with any files, any      *)
(* number of jobs made of them, and any time-out.                          *)
(***************************************************************************)
EXTENDS SubscriptionProperties, TLAPS

(* A job reads files of its own subscription.                              *)
LEMMA JobFiles ==
  ASSUME NEW j \in Jobs
  PROVE  /\ j.sub \in Subs /\ j.files \subseteq FilesFor(j.sub)
         /\ j.sub # Merge => j \in TopJobs
  BY ElementsAssumption DEF Jobs, TopJobs, MergeJobs, Subs, FilesFor

LEMMA FilesForFiles == \A s \in Subs : FilesFor(s) \subseteq Files
  BY DEF FilesFor, Files

(* What the splitter makes are jobs.                                       *)
LEMMA NewJobs ==
  ASSUME NEW s \in Subs, NEW group \in SUBSET FilesFor(s), NEW n \in Pieces(s), NEW i \in 1..n
  PROVE  [sub |-> s, files |-> group, piece |-> i] \in Jobs
<1>1. i \in 1..MaxPieces
  BY PiecesAssumption DEF Pieces
<1>2. CASE s = Merge
  BY <1>1, <1>2 DEF FilesFor, Jobs, MergeJobs
<1>3. CASE s # Merge
  BY <1>1, <1>3 DEF FilesFor, Jobs, TopJobs, Subs
<1> QED BY <1>2, <1>3

(* A table whose rows of one subscription change keeps its type.           *)
LEMMA TableExcept ==
  ASSUME NEW t, TableOK(t), NEW s \in Subs, NEW S, S \subseteq FilesFor(s)
  PROVE  TableOK([t EXCEPT ![s] = S])
  BY FilesForFiles DEF TableOK

-----------------------------------------------------------------------------
LEMMA FilesInitTypes == Init => FilesTypeOK
<1> SUFFICES ASSUME Init PROVE FilesTypeOK
  OBVIOUS
<1>1. TableOK(NoFiles)
  BY DEF NoFiles, TableOK
<1>2. Created = {}
  BY DEF Init, Created
<1> QED BY <1>1, <1>2 DEF Init, FilesTypeOK, Created

LEMMA InjectTypes ==
  ASSUME FilesTypeOK, NEW e \in Elements, Inject(e) \/ SaveElement(e) PROVE FilesTypeOK'
<1>1. CASE Inject(e)
  <2>1. e \in Subs /\ available[e] \cup NewFiles(e) \subseteq FilesFor(e)
    BY ElementsAssumption DEF FilesTypeOK, TableOK, NewFiles, FilesFor, Inputs, Subs
  <2>2. TableOK(available')
    BY <1>1, <2>1, TableExcept DEF FilesTypeOK, Inject
  <2> QED BY <1>1, <2>2 DEF FilesTypeOK, Inject, TableOK, Created, jobs, kill
<1>2. CASE SaveElement(e)
  BY <1>2 DEF FilesTypeOK, SaveElement, TableOK, Created, jobs, kill, tables, fileset
<1> QED BY <1>1, <1>2

LEMMA SplitterTypes ==
  ASSUME FilesTypeOK, NEW s \in Subs, SplitterOpens(s) \/ SplitterCommits(s) PROVE FilesTypeOK'
<1>1. CASE SplitterOpens(s)
  <2>1. TableOK(splitting')
    BY <1>1, TableExcept DEF FilesTypeOK, SplitterOpens, TableOK
  <2> QED BY <1>1, <2>1 DEF FilesTypeOK, SplitterOpens, TableOK, Created, jobs, kill, tables, fileset, queue
<1>2. CASE SplitterCommits(s)
  <2>1. PICK group \in (SUBSET splitting[s]) \ {{}}, n \in Pieces(s) :
           LET new == {[sub |-> s, files |-> group, piece |-> i] : i \in 1..n}
           IN  /\ state' = [j \in Created \cup new |-> IF j \in new THEN "live" ELSE state[j]]
               /\ acquired' = [acquired EXCEPT ![s] = @ \cup group]
               /\ available' = [available EXCEPT ![s] = @ \ group]
               /\ splitting' = [splitting EXCEPT ![s] = @ \ group]
               /\ UNCHANGED <<queue, complete, failed, fileset, good, finished, closing, kill>>
    BY <1>2 DEF SplitterCommits
  <2> DEFINE new == {[sub |-> s, files |-> group, piece |-> i] : i \in 1..n}
  <2>2. group \subseteq FilesFor(s) /\ available[s] \subseteq FilesFor(s)
          /\ acquired[s] \subseteq FilesFor(s) /\ splitting[s] \subseteq FilesFor(s)
    BY DEF FilesTypeOK, TableOK
  <2>3. new \subseteq Jobs
    BY <2>2, NewJobs
  <2>4. state' \in [Created \cup new -> JobStates] /\ Created' = Created \cup new
    BY <2>1 DEF FilesTypeOK, Created, JobStates
  <2>5. TableOK(acquired') /\ TableOK(available') /\ TableOK(splitting')
    BY <2>1, <2>2, TableExcept DEF FilesTypeOK
  <2> HIDE DEF new
  <2> QED BY <2>1, <2>3, <2>4, <2>5 DEF FilesTypeOK, TableOK, kill, fileset, queue
<1> QED BY <1>1, <1>2

LEMMA AccountantTypes ==
  ASSUME FilesTypeOK, NEW slice \in SUBSET {j \in Created : state[j] = "complete"},
         NEW skipped \in SUBSET Skippable(slice), AccountantSaves(slice, skipped)
  PROVE  FilesTypeOK'
<1> DEFINE settled(s) == Settled(s, slice, good \cup slice)
<1>1. \A s \in Subs : settled(s) \subseteq FilesFor(s)
  BY JobFiles DEF FilesTypeOK, Settled, FilesOf
<1>2. Written(slice) \subseteq TopJobs
  BY JobFiles DEF FilesTypeOK, Written
<1>3. TableOK(available')
  <2>1. Merge \in Subs /\ available[Merge] \cup Written(slice) \subseteq FilesFor(Merge)
    BY <1>2 DEF FilesTypeOK, TableOK, FilesFor, Subs
  <2> QED BY <2>1, TableExcept DEF AccountantSaves, FilesTypeOK
<1>4. TableOK(acquired') /\ TableOK(complete') /\ TableOK(failed')
  BY <1>1, FilesForFiles DEF AccountantSaves, FilesTypeOK, TableOK
<1>5. state' \in [Created -> JobStates] /\ Created' = Created
  BY DEF AccountantSaves, FilesTypeOK, Created, JobStates
<1> QED
  BY <1>2, <1>3, <1>4, <1>5 DEF AccountantSaves, FilesTypeOK, TableOK, kill, queue

LEMMA ExhaustTypes ==
  ASSUME FilesTypeOK, NEW j \in Created, Exhaust(j) PROVE FilesTypeOK'
<1>1. j.sub \in Subs /\ j.files \subseteq FilesFor(j.sub)
  BY JobFiles DEF FilesTypeOK
<1>2. TableOK(acquired') /\ TableOK(complete') /\ TableOK(failed')
  BY <1>1, TableExcept DEF Exhaust, FilesTypeOK, TableOK, AcquiredWithout
<1>3. state' \in [Created -> JobStates] /\ Created' = Created
  BY DEF Exhaust, FilesTypeOK, Created, JobStates
<1> QED
  BY <1>2, <1>3 DEF Exhaust, FilesTypeOK, TableOK, fileset, kill, queue

(* Steps that change the state of jobs only.                               *)
LEMMA JobStepTypes ==
  ASSUME FilesTypeOK, Archive \/ KillJobs \/ \E j \in Created : JobEnds(j) \/ ReportFails(j)
  PROVE  FilesTypeOK'
<1>1. state' \in [Created -> JobStates] /\ Created' = Created
  BY DEF Archive, KillJobs, JobEnds, ReportFails, FilesTypeOK, Created, JobStates
<1> QED
  BY <1>1 DEF Archive, KillJobs, JobEnds, ReportFails, FilesTypeOK, TableOK, queue, tables, fileset, kill

(* Steps that change no file and no job.                                   *)
FlagStep == MarkInjected \/ SplitterEnds \/ ListClosable \/ MarkClosed \/ CloserCrash
              \/ MarkFinished \/ Abort \/ KillCrash

LEMMA FlagStepTypes == ASSUME FilesTypeOK, FlagStep PROVE FilesTypeOK'
<1>1. TableOK(NoFiles)
  BY DEF NoFiles, TableOK
<1>2. UNCHANGED <<tables, jobs, output>> /\ (splitting' = splitting \/ splitting' = NoFiles)
  BY DEF FlagStep, MarkInjected, SplitterEnds, ListClosable, MarkClosed, CloserCrash, MarkFinished,
         Abort, KillCrash, fileset
<1>3. finished' \subseteq Subs
  BY DEF FlagStep, MarkInjected, SplitterEnds, ListClosable, MarkClosed, CloserCrash, MarkFinished,
         Abort, KillCrash, NewFinished, FilesTypeOK
<1>4. injecting' = injecting /\ injected' \in BOOLEAN /\ open' \in BOOLEAN /\ closing' \in BOOLEAN
        /\ aborted' \in BOOLEAN /\ killStep' \in {"idle", "acquired", "available", "jobs"}
  BY DEF FlagStep, MarkInjected, SplitterEnds, ListClosable, MarkClosed, CloserCrash, MarkFinished,
         Abort, KillCrash, FilesTypeOK, queue, fileset, kill
<1> QED BY <1>1, <1>2, <1>3, <1>4 DEF FilesTypeOK, TableOK, Created, tables, jobs

LEMMA KillTypes ==
  ASSUME FilesTypeOK, KillCompletes \/ KillAcquired \/ KillAvailable PROVE FilesTypeOK'
<1>1. TableOK(NoFiles)
  BY DEF NoFiles, TableOK
<1>2. \A s \in Subs : InputOf(s) \subseteq FilesFor(s)
  BY DEF InputOf, FilesFor, FilesTypeOK, Inputs, Fed
<1>3. ASSUME KillCompletes PROVE TableOK(complete')
  BY <1>2, <1>3, FilesForFiles DEF KillCompletes, FilesTypeOK, TableOK
<1> QED
  BY <1>1, <1>3 DEF KillCompletes, KillAcquired, KillAvailable, FilesTypeOK, TableOK, Created, queue,
                    fileset, jobs

LEMMA FilesNextTypes == FilesTypeOK /\ [Next]_vars => FilesTypeOK'
<1> SUFFICES ASSUME FilesTypeOK, [Next]_vars PROVE FilesTypeOK'
  OBVIOUS
<1>1. CASE UNCHANGED vars
  BY <1>1 DEF FilesTypeOK, TableOK, Created, vars, queue, tables, fileset, jobs, kill
<1>2. CASE Accountant
  BY <1>2, AccountantTypes DEF Accountant
<1> QED
  BY <1>1, <1>2, InjectTypes, SplitterTypes, ExhaustTypes, JobStepTypes, FlagStepTypes, KillTypes
     DEF Next, FlagStep

(* The tables, the jobs and what the components remember keep their types, *)
(* whatever is killed and whatever crashes.                                *)
THEOREM FilesTypeCorrect == Spec => []FilesTypeOK
<1> QED BY FilesInitTypes, FilesNextTypes, PTL DEF Spec

-----------------------------------------------------------------------------
(* FilesInv, while the request is not aborted.                             *)
Calm == /\ \A s \in Subs : Partition(s) /\ Verdict(s)
        /\ JobsMatch /\ Gates

LEMMA CalmIsInv == FilesInv <=> (~aborted => Calm)
  BY DEF FilesInv, Calm, EveryFileOnce, VerdictsAgree

LEMMA SubsSplit == /\ Merge \in Subs /\ \A e \in Elements : e \in Subs /\ e # Merge
                   /\ \A s \in Subs : s = Merge \/ s \in Elements
  BY ElementsAssumption DEF Subs

(* Steps that leave files and jobs alone leave all but the gates alone.    *)
LEMMA SameFiles ==
  ASSUME Calm, UNCHANGED <<tables, jobs, output>>, Fed' = Fed
  PROVE  (\A s \in Subs : Partition(s) /\ Verdict(s))' /\ JobsMatch'
<1>1. \A s, f : /\ Readers(s, f)' = Readers(s, f) /\ InputOf(s)' = InputOf(s)
  BY DEF Readers, Created, InputOf, jobs
<1>2. \A j : GaveUp(j)' = GaveUp(j)
  BY DEF GaveUp, jobs
<1>3. (\A s \in Subs : Partition(s) /\ Verdict(s))'
  BY <1>1, <1>2 DEF Calm, Partition, Verdict, tables, jobs
<1>4. JobsMatch'
  BY <1>1 DEF Calm, JobsMatch, Created, jobs
<1> QED BY <1>3, <1>4

LEMMA InjectCalm ==
  ASSUME FilesTypeOK, Calm, NEW e \in Elements, Inject(e) PROVE Calm'
<1>1. e \in Subs /\ e # Merge
  BY SubsSplit
<1>2. Fed' = Fed \cup {e} /\ UNCHANGED <<acquired, complete, failed, output, state, good>>
  BY DEF Inject, Fed, FilesTypeOK, jobs
<1>3. \A s \in Subs : s # e => InputOf(s)' = InputOf(s) /\ available'[s] = available[s]
  BY <1>2 DEF Inject, InputOf, FilesTypeOK, TableOK
<1>4. InputOf(e)' = e /\ available'[e] = available[e] \cup (e \ InputOf(e))
  BY <1>1, <1>2 DEF Inject, InputOf, NewFiles, FilesTypeOK, TableOK
<1>5. \A s, f : Readers(s, f)' = Readers(s, f)
  BY <1>2 DEF Readers, Created
<1>6. \A j : GaveUp(j)' = GaveUp(j)
  BY <1>2 DEF GaveUp
<1>7. ASSUME NEW s \in Subs PROVE Partition(s)' /\ Verdict(s)'
  <2>1. CASE s # e
    BY <1>2, <1>3, <1>5, <1>6, <2>1 DEF Calm, Partition, Verdict
  <2>2. CASE s = e /\ e \in Fed
    <3>1. InputOf(e) = e
      BY <1>1, <2>2 DEF InputOf
    <3>2. available'[e] = available[e] /\ InputOf(e)' = InputOf(e)
      BY <1>4, <3>1
    <3> QED BY <1>2, <1>5, <1>6, <2>2, <3>2 DEF Calm, Partition, Verdict
  <2>3. CASE s = e /\ e \notin Fed
    <3>1. InputOf(e) = {}
      BY <1>1, <2>3 DEF InputOf
    <3>2. available[e] = {} /\ acquired[e] = {} /\ complete[e] = {} /\ failed[e] = {}
      BY <1>1, <3>1 DEF Calm, Partition
    <3>3. \A f : Readers(e, f) = {}
      BY <3>1 DEF Calm, JobsMatch, Readers
    <3> QED BY <1>2, <1>4, <1>5, <2>3, <3>1, <3>2, <3>3 DEF Partition, Verdict
  <2> QED BY <2>1, <2>2, <2>3
<1>8. JobsMatch'
  <2>1. \A s : InputOf(s) \subseteq InputOf(s)'
    BY <1>2 DEF InputOf
  <2>2. Created' = Created
    BY <1>2 DEF Created
  <2> QED BY <1>2, <1>5, <2>1, <2>2 DEF Calm, JobsMatch
<1>9. Gates'
  <2>1. ~injected
    BY DEF Inject, Calm, Gates
  <2>2. ~closing /\ finished = {}
    BY <2>1 DEF Calm, Gates, Quiet
  <2>3. ~Closed(Merge)'
    BY DEF Inject, Closed
  <2>4. \A s \in Subs : splitting[s] \subseteq available'[s]
    BY <1>3, <1>4 DEF Calm, Gates
  <2> QED BY <2>1, <2>2, <2>3, <2>4 DEF Calm, Gates, Inject, kill
<1> QED BY <1>7, <1>8, <1>9 DEF Calm

LEMMA SaveElementCalm ==
  ASSUME FilesTypeOK, Calm, NEW e \in Elements, SaveElement(e) PROVE Calm'
<1>1. Fed' = Fed
  BY DEF SaveElement, Fed, FilesTypeOK
<1>2. UNCHANGED <<tables, jobs, output>>
  BY DEF SaveElement, fileset
<1>3. Gates'
  <2>1. ~injected
    BY DEF SaveElement, Calm, Gates
  <2>2. ~closing /\ finished = {} /\ ~Closed(Merge)
    BY <2>1 DEF Calm, Gates, Quiet
  <2>3. ~Closed(Merge)'
    BY <1>1, <2>2 DEF SaveElement, Closed, Exists, fileset
  <2> QED BY <2>1, <2>2, <2>3 DEF Calm, Gates, SaveElement, kill, tables
<1> QED BY <1>1, <1>2, <1>3, SameFiles DEF Calm

LEMMA MarkInjectedCalm ==
  ASSUME FilesTypeOK, Calm, ~aborted, MarkInjected PROVE Calm'
<1>1. Fed' = Fed /\ UNCHANGED <<tables, jobs, output, open, finished, splitting, closing, killStep>>
  BY DEF MarkInjected, Fed, fileset, kill
<1>2. Gates'
  <2>1. finished = {} /\ ~closing /\ ~Closed(Merge)
    BY DEF MarkInjected, Calm, Gates, Quiet
  <2>2. ~Closed(Merge)'
    BY <1>1, <2>1 DEF Closed, Exists
  <2>3. \A e \in Elements : injecting'[e] = "Running"
    BY DEF MarkInjected, AllInjected
  <2> QED BY <1>1, <2>1, <2>2, <2>3 DEF Calm, Gates, tables
<1> QED BY <1>1, <1>2, SameFiles DEF Calm

LEMMA SplitterMemoryCalm ==
  ASSUME FilesTypeOK, Calm, SplitterEnds \/ \E s \in Subs : SplitterOpens(s) PROVE Calm'
<1>1. Fed' = Fed /\ UNCHANGED <<tables, jobs, output, injecting, injected, open, finished, closing, killStep>>
  BY DEF SplitterEnds, SplitterOpens, Fed, fileset, kill, queue
<1>2. \A s \in Subs : splitting'[s] \subseteq available[s]
  BY DEF SplitterEnds, SplitterOpens, Calm, Gates, NoFiles, FilesTypeOK, TableOK
<1>3. Gates'
  <2>1. Quiet' = Quiet /\ \A s : Closed(s)' = Closed(s) /\ Empty(s)' = Empty(s)
    BY <1>1 DEF Quiet, Closed, Exists, Empty, Uncleaned, Created, tables, jobs
  <2> QED BY <1>1, <1>2, <2>1 DEF Calm, Gates, tables
<1> QED BY <1>1, <1>3, SameFiles DEF Calm

(* Steps of the closing components.                                        *)
LEMMA ClosingCalm ==
  ASSUME FilesTypeOK, Calm, ListClosable \/ MarkClosed \/ CloserCrash \/ MarkFinished PROVE Calm'
<1>1. Fed' = Fed /\ UNCHANGED <<tables, jobs, output, injecting, injected, splitting, killStep>>
  BY DEF ListClosable, MarkClosed, CloserCrash, MarkFinished, Fed, fileset, kill, queue
<1>2. Quiet' = Quiet /\ \A s : Empty(s)' = Empty(s)
  BY <1>1 DEF Quiet, Empty, Uncleaned, Created, tables, jobs
<1>3. closing' \/ Closed(Merge)' => Quiet
  <2>1. CASE ListClosable
    <3>1. Quiet
      <4>1. \A e \in Elements : e \in Fed
        BY <2>1 DEF ListClosable, Closable, Calm, Gates, Fed
      <4> QED BY <2>1, <4>1 DEF ListClosable, Closable, Quiet
    <3> QED BY <3>1
  <2>2. CASE MarkClosed
    BY <2>2 DEF MarkClosed, Calm, Gates
  <2>3. CASE CloserCrash \/ MarkFinished
    BY <1>1, <2>3 DEF CloserCrash, MarkFinished, Closed, Exists, Calm, Gates, fileset
  <2> QED BY <2>1, <2>2, <2>3
<1>4. \A s \in finished' : Closed(s)' /\ Empty(s) /\ injected
  <2>1. \A s : Closed(s) => Closed(s)'
    BY <1>1 DEF ListClosable, MarkClosed, CloserCrash, MarkFinished, Closed, Exists, fileset
  <2>2. \A s \in finished' : s \in finished \/ (Closed(s) /\ Empty(s) /\ injected)
    BY DEF ListClosable, MarkClosed, CloserCrash, MarkFinished, NewFinished
  <2> QED BY <2>1, <2>2 DEF Calm, Gates
<1>5. Gates'
  BY <1>1, <1>2, <1>3, <1>4 DEF Calm, Gates, tables
<1> QED BY <1>1, <1>5, SameFiles DEF Calm

(* A step that moves jobs on without settling them.                        *)
LEMMA JobStepCalm ==
  ASSUME FilesTypeOK, Calm, Archive \/ \E j \in Created : JobEnds(j) \/ ReportFails(j) PROVE Calm'
<1>1. Fed' = Fed /\ Created' = Created
        /\ UNCHANGED <<tables, good, fileset, queue, finished, splitting, closing, killStep>>
  BY DEF Archive, JobEnds, ReportFails, Fed, Created, FilesTypeOK, kill, queue
<1>2. \A j \in Created : /\ GaveUp(j)' = GaveUp(j)
                         /\ state[j] = "cleanout" => state'[j] = "cleanout"
                         /\ state'[j] # "killed"
                         /\ state'[j] = "success" => state[j] = "success"
                         /\ j \in good => state'[j] \in {"success", "cleanout"}
  <2>1. CASE Archive
    BY <1>1, <2>1 DEF Archive, Archivable, Calm, JobsMatch, GaveUp
  <2>2. ASSUME NEW k \in Created, JobEnds(k) \/ ReportFails(k)
        PROVE  /\ state[k] \in {"live", "complete"} /\ state'[k] \in {"complete", "failed"}
               /\ \A j \in Created : j # k => state'[j] = state[j]
    BY <2>2 DEF JobEnds, ReportFails, FilesTypeOK
  <2> QED BY <1>1, <2>1, <2>2 DEF Calm, JobsMatch, GaveUp
<1>3. \A s, f : /\ Readers(s, f)' = Readers(s, f) /\ Readers(s, f) \subseteq Created
                /\ InputOf(s)' = InputOf(s)
  BY <1>1 DEF Readers, InputOf, fileset
<1>4. \A s : Uncleaned(s)' \subseteq Uncleaned(s) /\ Empty(s)' = Empty(s) /\ Closed(s)' = Closed(s)
  BY <1>1, <1>2 DEF Uncleaned, Empty, Closed, Exists, tables, fileset
<1>5. ASSUME NEW s \in Subs PROVE Partition(s)' /\ Verdict(s)'
  <2>1. Partition(s)'
    BY <1>1, <1>3 DEF Calm, Partition, tables
  <2>2. Verdict(s)'
    BY <1>1, <1>2, <1>3 DEF Calm, Verdict, tables
  <2> QED BY <2>1, <2>2
<1>6. JobsMatch'
  <2>1. \A j \in Created : state'[j] = "success" => j \in good
    BY <1>2 DEF Calm, JobsMatch
  <2>2. \A j \in good : state'[j] \in {"success", "cleanout"}
    BY <1>2 DEF FilesTypeOK
  <2> QED BY <1>1, <1>2, <1>3, <2>1, <2>2 DEF Calm, JobsMatch, fileset
<1>7. Gates'
  <2>1. Quiet => Quiet'
    BY <1>1, <1>4 DEF Quiet, queue
  <2> QED BY <1>1, <1>4, <2>1 DEF Calm, Gates, queue, tables
<1> QED BY <1>5, <1>6, <1>7 DEF Calm

-----------------------------------------------------------------------------
(* A reader of a file knows where the file is.                             *)
LEMMA ReaderKnows ==
  ASSUME FilesTypeOK, Calm, NEW j \in Created, j \notin good, NEW f \in j.files
  PROVE  /\ f \in acquired[j.sub] \/ f \in failed[j.sub]
         /\ f \notin available[j.sub] /\ f \notin complete[j.sub]
         /\ j.sub \in Subs /\ j \in Readers(j.sub, f)
<1>1. j.sub \in Subs
  BY JobFiles DEF FilesTypeOK
<1>2. f \in InputOf(j.sub) /\ j \in Readers(j.sub, f)
  BY DEF Calm, JobsMatch, Readers
<1> QED BY <1>1, <1>2 DEF Calm, Partition, Verdict

LEMMA SplitterCommitsCalm ==
  ASSUME FilesTypeOK, Calm, NEW s \in Subs, SplitterCommits(s) PROVE Calm'
<1>1. PICK group \in (SUBSET splitting[s]) \ {{}}, n \in Pieces(s) :
         LET new == {[sub |-> s, files |-> group, piece |-> i] : i \in 1..n}
         IN  /\ state' = [j \in Created \cup new |-> IF j \in new THEN "live" ELSE state[j]]
             /\ acquired' = [acquired EXCEPT ![s] = @ \cup group]
             /\ available' = [available EXCEPT ![s] = @ \ group]
             /\ splitting' = [splitting EXCEPT ![s] = @ \ group]
             /\ UNCHANGED <<queue, complete, failed, fileset, good, finished, closing, kill>>
  BY DEF SplitterCommits
<1> DEFINE new == {[sub |-> s, files |-> group, piece |-> i] : i \in 1..n}
<1>2. \A j \in new : j.sub = s /\ j.files = group
  OBVIOUS
<1>3. new # {} /\ (s = Merge => \A j, k \in new : j = k)
  <2>1. n \in Nat /\ n >= 1 /\ (s = Merge => n = 1)
    BY PiecesAssumption DEF Pieces
  <2>2. 1 \in 1..n
    BY <2>1
  <2>3. new # {}
    BY <2>2
  <2>4. ASSUME s = Merge, NEW j \in new, NEW k \in new PROVE j = k
    <3>1. 1..n = {1}
      BY <2>1, <2>4
    <3> QED BY <3>1
  <2> QED BY <2>3, <2>4
<1>4. state' = [j \in Created \cup new |-> IF j \in new THEN "live" ELSE state[j]]
  BY <1>1
<1> HIDE DEF new
<1>5. group # {} /\ group \subseteq available[s] /\ group \subseteq InputOf(s)
  BY <1>1 DEF Calm, Gates, Partition
<1>6. \A f \in group : Readers(s, f) = {}
  BY <1>5 DEF Calm, Verdict
<1>7. \A j \in new : j \notin Created
  BY <1>2, <1>5, <1>6 DEF Readers
<1>8. /\ Created' = Created \cup new
      /\ \A j \in Created : state'[j] = state[j] /\ GaveUp(j)' = GaveUp(j)
      /\ \A j \in new : state'[j] = "live" /\ ~GaveUp(j)' /\ j \notin good
  BY <1>1, <1>4, <1>7 DEF Created, GaveUp, FilesTypeOK
<1>9. \A r, f : Readers(r, f)' = IF r = s /\ f \in group THEN Readers(r, f) \cup new ELSE Readers(r, f)
  BY <1>2, <1>8 DEF Readers
<1>10. /\ \A r \in Subs : r # s => available'[r] = available[r] /\ acquired'[r] = acquired[r]
                                   /\ splitting'[r] = splitting[r]
       /\ available'[s] = available[s] \ group /\ acquired'[s] = acquired[s] \cup group
       /\ splitting'[s] = splitting[s] \ group
  BY <1>1 DEF FilesTypeOK, TableOK
<1>11. Fed' = Fed /\ (\A r : InputOf(r)' = InputOf(r) /\ Closed(r)' = Closed(r))
  BY <1>1 DEF Fed, InputOf, Closed, Exists, queue, fileset
<1>12. ASSUME NEW r \in Subs PROVE Partition(r)' /\ Verdict(r)'
  <2>1. Partition(r)'
    BY <1>1, <1>5, <1>10, <1>11 DEF Calm, Partition
  <2>2. \A f \in available'[r] : Readers(r, f)' = {}
    BY <1>9, <1>10 DEF Calm, Verdict
  <2>3. \A f \in acquired'[r] : /\ ~(Readers(r, f)' \subseteq good')
                                /\ \A j \in Readers(r, f)' : ~GaveUp(j)'
    <3> SUFFICES ASSUME NEW f \in acquired'[r]
                 PROVE  ~(Readers(r, f)' \subseteq good') /\ \A j \in Readers(r, f)' : ~GaveUp(j)'
      OBVIOUS
    <3>1. CASE r = s /\ f \in group
      BY <1>1, <1>3, <1>6, <1>8, <1>9, <3>1
    <3>2. CASE ~(r = s /\ f \in group)
      <4>1. f \in acquired[r] /\ Readers(r, f)' = Readers(r, f)
        BY <1>9, <1>10, <3>2
      <4>2. Readers(r, f) \subseteq Created
        BY DEF Readers
      <4> QED BY <1>1, <1>8, <4>1, <4>2 DEF Calm, Verdict
    <3> QED BY <3>1, <3>2
  <2>4. \A f \in complete[r] \cup failed[r] : Readers(r, f)' = Readers(r, f)
    BY <1>5, <1>9 DEF Calm, Partition
  <2>5. \A f : Readers(r, f) \subseteq Created
    BY DEF Readers
  <2>6. \A f \in complete'[r] : Readers(r, f)' # {} /\ Readers(r, f)' \subseteq good'
    BY <1>1, <2>4 DEF Calm, Verdict
  <2>7. \A f \in failed'[r] : \/ \E j \in Readers(r, f)' : GaveUp(j)'
                              \/ \E j \in good' : Readers(r, f)' = {j}
    BY <1>1, <1>8, <2>4, <2>5 DEF Calm, Verdict
  <2> QED BY <2>1, <2>2, <2>3, <2>6, <2>7 DEF Verdict
<1>13. JobsMatch'
  <2>1. \A f \in Files : \A j, k \in Readers(Merge, f)' : j = k
    BY <1>3, <1>6, <1>9 DEF Calm, JobsMatch
  <2>2. \A j \in good : j \in Created
    BY DEF FilesTypeOK
  <2> QED BY <1>1, <1>2, <1>5, <1>8, <1>11, <2>1, <2>2 DEF Calm, JobsMatch, fileset
<1>14. Gates'
  <2>1. ~Empty(s)
    BY <1>5 DEF Empty
  <2>2. \A r \in Subs : r # s => (Empty(r) => Empty(r)') /\ Uncleaned(r)' = Uncleaned(r)
    BY <1>2, <1>8, <1>10 DEF Empty, Uncleaned
  <2>3. Quiet => Quiet'
    BY <1>1, <2>1, <2>2, SubsSplit DEF Quiet, queue
  <2>4. \A r \in finished : Closed(r) /\ Empty(r)' /\ injected
    BY <2>1, <2>2 DEF Calm, Gates, FilesTypeOK
  <2>5. \A r \in Subs : splitting'[r] \subseteq available'[r]
    BY <1>10 DEF Calm, Gates
  <2> QED BY <1>1, <1>11, <2>3, <2>4, <2>5 DEF Calm, Gates, queue, kill
<1> QED BY <1>12, <1>13, <1>14 DEF Calm

LEMMA AccountantCalm ==
  ASSUME FilesTypeOK, Calm, NEW slice \in SUBSET {j \in Created : state[j] = "complete"},
         NEW skipped \in SUBSET Skippable(slice), AccountantSaves(slice, skipped)
  PROVE  Calm'
<1> DEFINE settled(s) == Settled(s, slice, good \cup slice)
<1>1. /\ Fed' = Fed /\ Created' = Created /\ good' = good \cup slice
      /\ output' = output \cup Written(slice)
      /\ \A j \in slice : state'[j] = "success"
      /\ \A j \in Created \ slice : state'[j] = state[j]
      /\ UNCHANGED <<queue, open, finished, splitting, closing, kill>>
  BY DEF AccountantSaves, Fed, Created, queue
<1>2. \A s \in Subs : /\ available'[s] = IF s = Merge THEN available[s] \cup Written(slice)
                                                     ELSE available[s]
                      /\ acquired'[s] = acquired[s] \ settled(s)
                      /\ complete'[s] = complete[s] \cup (settled(s) \ skipped)
                      /\ failed'[s] = (failed[s] \ (settled(s) \ skipped))
                                                \cup (settled(s) \cap skipped)
  BY DEF AccountantSaves, FilesTypeOK, TableOK
<1>3. slice \cap good = {}
  BY DEF Calm, JobsMatch
<1>4. \A r, f : Readers(r, f)' = Readers(r, f) /\ Readers(r, f) \subseteq Created
  BY <1>1 DEF Readers
<1>5. \A j \in Created : GaveUp(j)' = GaveUp(j) /\ (j \in good \cup slice => ~GaveUp(j))
  BY <1>1 DEF GaveUp, Calm, JobsMatch
<1>6. \A s, f : f \in settled(s) => /\ Readers(s, f) \subseteq good \cup slice
                                   /\ \E j \in slice : j \in Readers(s, f)
  BY DEF Settled, FilesOf, Readers
<1>7. \A s \in Subs : \A f : f \in settled(s) => f \in acquired[s]
  <2> SUFFICES ASSUME NEW s \in Subs, NEW f, f \in settled(s) PROVE f \in acquired[s]
    OBVIOUS
  <2>1. PICK j \in slice : j \in Readers(s, f)
    BY <1>6
  <2>2. j \in Created /\ j \notin good /\ f \in j.files /\ j.sub = s
    BY <1>3, <2>1 DEF Readers
  <2>3. f \in acquired[s] \/ f \in failed[s]
    BY <2>2, ReaderKnows
  <2>4. ~(\E k \in Readers(s, f) : GaveUp(k)) /\ ~(\E k \in good : Readers(s, f) = {k})
    BY <1>4, <1>5, <1>6, <2>1, <2>2
  <2> HIDE DEF settled
  <2> QED BY <2>3, <2>4 DEF Calm, Verdict
<1>8. \A s \in Subs : \A f \in acquired[s] \ settled(s) : ~(Readers(s, f) \subseteq good \cup slice)
  <2> SUFFICES ASSUME NEW s \in Subs, NEW f \in acquired[s], Readers(s, f) \subseteq good \cup slice
               PROVE  f \in settled(s)
    OBVIOUS
  <2>1. PICK j \in Readers(s, f) : j \in slice
    BY DEF Calm, Verdict
  <2> QED BY <2>1 DEF Settled, FilesOf, Readers
<1>9. /\ Written(slice) \subseteq slice /\ Written(slice) \cap output = {}
      /\ \A f \in Written(slice) : Readers(Merge, f) = {}
  <2>1. Written(slice) \subseteq slice /\ Written(slice) \cap output = {}
    BY <1>3 DEF Written, Calm, JobsMatch
  <2>2. \A f : Readers(Merge, f) # {} => f \in output
    BY DEF Readers, Calm, JobsMatch, InputOf
  <2> QED BY <2>1, <2>2
<1>10. \A s \in Subs : InputOf(s)' = IF s = Merge THEN InputOf(s) \cup Written(slice) ELSE InputOf(s)
  BY <1>1 DEF InputOf
<1>11. \A s \in Subs, f \in skipped : \A j, k \in Readers(s, f) : j = k
  BY DEF Skippable
<1> HIDE DEF settled
<1>12. ASSUME NEW s \in Subs PROVE Partition(s)'
  <2>1. Partition(s) /\ settled(s) \subseteq acquired[s]
    BY <1>7 DEF Calm
  <2>2. CASE s # Merge
    BY <1>2, <1>10, <2>1, <2>2 DEF Partition
  <2>3. CASE s = Merge
    <3>1. InputOf(s) = output
      BY <2>3 DEF InputOf
    <3> QED BY <1>2, <1>9, <1>10, <2>1, <2>3, <3>1 DEF Partition
  <2> QED BY <2>2, <2>3
<1>13. ASSUME NEW s \in Subs PROVE Verdict(s)'
  <2>1. \A f \in available'[s] : Readers(s, f)' = {}
    <3>1. \A f \in available[s] : Readers(s, f) = {}
      BY DEF Calm, Verdict
    <3> QED BY <1>2, <1>4, <1>9, <3>1
  <2>2. \A f \in acquired'[s] : /\ ~(Readers(s, f)' \subseteq good')
                                /\ \A j \in Readers(s, f)' : ~GaveUp(j)'
    <3>1. \A f \in acquired[s] : \A j \in Readers(s, f) : ~GaveUp(j)
      BY DEF Calm, Verdict
    <3>2. \A f \in acquired'[s] : f \in acquired[s] \ settled(s)
      BY <1>2
    <3> QED BY <1>1, <1>4, <1>5, <1>8, <3>1, <3>2
  <2>3. \A f \in complete'[s] : Readers(s, f)' # {} /\ Readers(s, f)' \subseteq good'
    <3>1. \A f \in complete[s] : Readers(s, f) # {} /\ Readers(s, f) \subseteq good
      BY DEF Calm, Verdict
    <3>2. \A f \in complete'[s] : f \in complete[s] \/ f \in settled(s)
      BY <1>2
    <3> QED BY <1>1, <1>4, <1>6, <3>1, <3>2
  <2>4. \A f \in failed'[s] : \/ \E j \in Readers(s, f)' : GaveUp(j)'
                              \/ \E j \in good' : Readers(s, f)' = {j}
    <3> SUFFICES ASSUME NEW f \in failed'[s]
                 PROVE  \/ \E j \in Readers(s, f) : GaveUp(j)
                        \/ \E j \in good' : Readers(s, f) = {j}
      BY <1>4, <1>5
    <3>1. CASE f \in failed[s]
      BY <1>1, <3>1 DEF Calm, Verdict
    <3>2. CASE f \in settled(s) /\ f \in skipped
      <4>1. PICK j \in slice : j \in Readers(s, f)
        BY <1>6, <3>2
      <4>2. Readers(s, f) = {j}
        BY <1>11, <3>2, <4>1
      <4> QED BY <1>1, <4>2
    <3> QED BY <1>2, <3>1, <3>2
  <2> QED BY <2>1, <2>2, <2>3, <2>4 DEF Verdict
<1>14. JobsMatch'
  <2>1. \A j \in Created : InputOf(j.sub) \subseteq InputOf(j.sub)'
    BY <1>10, JobFiles DEF FilesTypeOK
  <2>2. \A j \in Created : state'[j] # "killed" /\ (state'[j] = "success" => j \in good')
    BY <1>1 DEF Calm, JobsMatch
  <2>3. \A j \in good' : state'[j] \in {"success", "cleanout"}
    BY <1>1 DEF Calm, JobsMatch, FilesTypeOK
  <2>4. output' = {j \in good' : j.sub # Merge}
    BY <1>1 DEF Written, Calm, JobsMatch
  <2>5. \A f \in Files : \A j, k \in Readers(Merge, f)' : j = k
    BY <1>4 DEF Calm, JobsMatch
  <2>6. \A j \in Created : j.files # {} /\ j.files \subseteq InputOf(j.sub)'
    BY <2>1 DEF Calm, JobsMatch
  <2> QED BY <1>1, <2>2, <2>3, <2>4, <2>5, <2>6 DEF JobsMatch
<1>15. Gates'
  <2>1. \A s : Uncleaned(s)' = Uncleaned(s) /\ Closed(s)' = Closed(s)
    BY <1>1 DEF Uncleaned, Closed, Exists
  <2>2. \A s \in Subs : s # Merge \/ Written(slice) = {} => (Empty(s) => Empty(s)')
    BY <1>2 DEF Empty
  <2>3. Quiet => Quiet' /\ Written(slice) = {}
    <3> SUFFICES ASSUME Quiet PROVE Quiet' /\ Written(slice) = {}
      OBVIOUS
    <3>1. Written(slice) = {}
      <4> SUFFICES ASSUME NEW j \in Written(slice) PROVE FALSE
        OBVIOUS
      <4>1. j \in Created /\ state[j] = "complete" /\ j.sub # Merge
        BY DEF Written
      <4>2. j.sub \in Elements
        BY <4>1, JobFiles DEF FilesTypeOK, TopJobs
      <4> QED BY <4>1, <4>2 DEF Quiet, Uncleaned
    <3> QED BY <1>1, <2>1, <2>2, <3>1, SubsSplit DEF Quiet, queue
  <2>4. \A s \in finished : Closed(s)' /\ Empty(s)' /\ injected
    <3> SUFFICES ASSUME NEW s \in finished PROVE Closed(s)' /\ Empty(s)' /\ injected
      OBVIOUS
    <3>1. s \in Subs /\ Closed(s) /\ Empty(s) /\ injected
      BY DEF Calm, Gates, FilesTypeOK
    <3>2. s = Merge => Written(slice) = {}
      BY <2>3, <3>1 DEF Calm, Gates
    <3> QED BY <2>1, <2>2, <3>1, <3>2
  <2>5. \A s \in Subs : splitting[s] \subseteq available'[s]
    BY <1>2 DEF Calm, Gates
  <2> QED BY <1>1, <2>1, <2>3, <2>4, <2>5 DEF Calm, Gates, queue, kill
<1> QED BY <1>12, <1>13, <1>14, <1>15 DEF Calm

LEMMA ExhaustCalm ==
  ASSUME FilesTypeOK, Calm, NEW j \in Created, Exhaust(j) PROVE Calm'
<1> DEFINE fs == j.files \ failed[j.sub]
<1>1. /\ Fed' = Fed /\ Created' = Created /\ state[j] = "failed" /\ state'[j] = "exhausted"
      /\ \A k \in Created : k # j => state'[k] = state[k]
      /\ UNCHANGED <<queue, available, fileset, good, finished, splitting, closing, kill>>
  BY DEF Exhaust, Fed, Created, FilesTypeOK, queue
<1>2. j \notin good /\ j.sub \in Subs
  BY <1>1, JobFiles DEF Calm, JobsMatch, FilesTypeOK
<1>3. /\ acquired'[j.sub] = acquired[j.sub] \ fs /\ complete'[j.sub] = complete[j.sub] \ fs
      /\ failed'[j.sub] = failed[j.sub] \cup fs
      /\ \A s \in Subs : s # j.sub => /\ acquired'[s] = acquired[s] /\ complete'[s] = complete[s]
                                     /\ failed'[s] = failed[s]
  BY <1>2 DEF Exhaust, AcquiredWithout, FilesTypeOK, TableOK
<1>4. \A f \in j.files : /\ f \in acquired[j.sub] \/ f \in failed[j.sub]
                         /\ f \notin complete[j.sub] /\ j \in Readers(j.sub, f)
  BY <1>2, ReaderKnows
<1>5. fs \subseteq acquired[j.sub] /\ fs \cap complete[j.sub] = {}
  BY <1>4
<1>6. \A r, f : /\ Readers(r, f)' = Readers(r, f) /\ InputOf(r)' = InputOf(r)
                /\ Readers(r, f) \subseteq Created
  BY <1>1 DEF Readers, InputOf, fileset
<1>7. GaveUp(j)' /\ \A k \in Created : /\ k # j => GaveUp(k)' = GaveUp(k)
                                       /\ GaveUp(k) => GaveUp(k)'
  BY <1>1 DEF GaveUp
<1>8. ASSUME NEW s \in Subs PROVE Partition(s)' /\ Verdict(s)'
  <2>1. Partition(s) /\ Verdict(s)
    BY DEF Calm
  <2>2. Partition(s)'
    <3> HIDE DEF fs
    <3>1. CASE s = j.sub
      BY <1>1, <1>3, <1>5, <1>6, <2>1, <3>1 DEF Partition
    <3>2. CASE s # j.sub
      BY <1>1, <1>3, <1>6, <2>1, <3>2 DEF Partition
    <3> QED BY <3>1, <3>2
  <2>3. \A f \in acquired'[s] : f \in acquired[s] /\ j \notin Readers(s, f)
    BY <1>2, <1>3, <2>1 DEF Readers, Partition
  <2>4. \A f \in acquired'[s] : /\ ~(Readers(s, f)' \subseteq good')
                                /\ \A k \in Readers(s, f)' : ~GaveUp(k)'
    BY <1>1, <1>6, <1>7, <2>1, <2>3 DEF Verdict
  <2>5. \A f \in complete'[s] : Readers(s, f)' # {} /\ Readers(s, f)' \subseteq good'
    BY <1>1, <1>3, <1>6, <2>1 DEF Verdict
  <2>6. \A f \in failed'[s] : \/ \E k \in Readers(s, f)' : GaveUp(k)'
                              \/ \E k \in good' : Readers(s, f)' = {k}
    <3> SUFFICES ASSUME NEW f \in failed'[s]
                 PROVE  \/ \E k \in Readers(s, f) : GaveUp(k)'
                        \/ \E k \in good : Readers(s, f) = {k}
      BY <1>1, <1>6
    <3>1. CASE f \in failed[s]
      BY <1>6, <1>7, <2>1, <3>1 DEF Verdict
    <3>2. CASE s = j.sub /\ f \in fs
      BY <1>4, <1>7, <3>2
    <3> QED BY <1>3, <3>1, <3>2
  <2> QED BY <1>1, <1>6, <2>1, <2>2, <2>4, <2>5, <2>6 DEF Verdict
<1>9. JobsMatch'
  BY <1>1, <1>2, <1>6 DEF Calm, JobsMatch, fileset, FilesTypeOK
<1>10. Gates'
  <2>1. \A s : Uncleaned(s)' = Uncleaned(s) /\ Closed(s)' = Closed(s)
    BY <1>1 DEF Uncleaned, Closed, Exists, fileset
  <2>2. \A s \in Subs : Empty(s) => Empty(s)'
    BY <1>1, <1>3 DEF Empty
  <2>3. Quiet => Quiet'
    BY <1>1, <2>1, <2>2, SubsSplit DEF Quiet, queue
  <2> QED BY <1>1, <2>1, <2>2, <2>3 DEF Calm, Gates, FilesTypeOK, queue, kill
<1> QED BY <1>8, <1>9, <1>10 DEF Calm

-----------------------------------------------------------------------------
LEMMA FilesInitInv == Init => FilesInv
<1> SUFFICES ASSUME Init PROVE Calm
  BY CalmIsInv
<1>1. Created = {} /\ Fed = {} /\ good = {} /\ output = {}
  BY DEF Init, Created, Fed
<1>2. \A s, f : InputOf(s) = {} /\ Readers(s, f) = {}
  BY <1>1 DEF InputOf, Readers
<1>3. \A s \in Subs : Partition(s) /\ Verdict(s)
  BY <1>2 DEF Init, NoFiles, Partition, Verdict
<1>4. JobsMatch
  BY <1>1, <1>2 DEF JobsMatch
<1>5. Gates
  BY <1>1 DEF Init, NoFiles, Gates, Closed, Exists
<1> QED BY <1>3, <1>4, <1>5 DEF Calm

(* A request that is aborted stays so: only a step to a calm state counts. *)
LEMMA AbortedStays == FilesTypeOK /\ aborted /\ [Next]_vars => aborted'
<1> SUFFICES ASSUME FilesTypeOK, aborted, [Next]_vars PROVE aborted'
  OBVIOUS
<1>1. CASE UNCHANGED vars
  BY <1>1 DEF vars, kill
<1>2. CASE Next
  <2>1. UNCHANGED aborted \/ Abort
    BY <1>2 DEF Next, Inject, SaveElement, MarkInjected, SplitterOpens, SplitterCommits, SplitterEnds,
                JobEnds, ReportFails, Exhaust, Accountant, AccountantSaves, Archive, ListClosable,
                MarkClosed, CloserCrash, MarkFinished, KillCompletes, KillAcquired, KillAvailable,
                KillJobs, KillCrash, kill
  <2> QED BY <2>1 DEF Abort
<1> QED BY <1>1, <1>2

LEMMA FilesNextInv == FilesTypeOK /\ FilesInv /\ [Next]_vars => FilesInv'
<1> SUFFICES ASSUME FilesTypeOK, FilesInv, [Next]_vars, ~aborted' PROVE Calm'
  BY CalmIsInv DEF FilesInv, EveryFileOnce, VerdictsAgree, Calm
<1>1. ~aborted /\ Calm
  BY AbortedStays, CalmIsInv DEF FilesTypeOK
<1>2. CASE UNCHANGED vars
  <2>1. UNCHANGED <<tables, jobs, output>> /\ Fed' = Fed
    BY <1>2 DEF vars, fileset, Fed, queue
  <2>2. Gates'
    BY <1>1, <1>2 DEF vars, Calm, Gates, Quiet, Closed, Exists, Empty, Uncleaned, Created, Fed, queue,
                      tables, fileset, jobs, kill
  <2> QED BY <1>1, <2>1, <2>2, SameFiles DEF Calm
<1>3. CASE Accountant
  BY <1>1, <1>3, AccountantCalm DEF Accountant
<1>4. ~(Abort \/ KillCompletes \/ KillAcquired \/ KillAvailable \/ KillJobs \/ KillCrash)
  BY <1>1 DEF Abort, KillCompletes, KillAcquired, KillAvailable, KillJobs, KillCrash, Calm, Gates
<1> QED
  BY <1>1, <1>2, <1>3, <1>4, InjectCalm, SaveElementCalm, MarkInjectedCalm, SplitterMemoryCalm,
     SplitterCommitsCalm, JobStepCalm, ExhaustCalm, ClosingCalm DEF Next

(* While the request is not aborted: the partition, the verdicts, and what *)
(* makes them inductive.                                                   *)
THEOREM FilesInvariant == Spec => [](FilesTypeOK /\ FilesInv)
<1>1. FilesTypeOK /\ FilesInv /\ [Next]_vars => (FilesTypeOK /\ FilesInv)'
  BY FilesNextTypes, FilesNextInv
<1>2. Init => FilesTypeOK /\ FilesInv
  BY FilesInitTypes, FilesInitInv
<1> QED BY <1>1, <1>2, PTL DEF Spec

(* Every file is in exactly one of the four tables of its subscription.    *)
THEOREM FilesArePartitioned == Spec => []EveryFileOnce
<1>1. FilesInv => EveryFileOnce
  BY DEF FilesInv
<1> QED BY <1>1, FilesInvariant, PTL

(* The table a file is in says what its jobs did.                          *)
THEOREM VerdictsHold == Spec => []VerdictsAgree
<1>1. FilesInv => VerdictsAgree
  BY DEF FilesInv
<1> QED BY <1>1, FilesInvariant, PTL

(* A finished subscription has nothing to do, nor a splitter at work.      *)
THEOREM FinishedStaysFinal == Spec => []FinishedIsFinal
<1>1. FilesTypeOK /\ FilesInv => FinishedIsFinal
  <2> SUFFICES ASSUME FilesTypeOK, FilesInv, ~aborted, NEW s \in finished
               PROVE  Closed(s) /\ Empty(s) /\ splitting[s] = {}
    BY DEF FinishedIsFinal
  <2>1. s \in Subs /\ Closed(s) /\ Empty(s) /\ splitting[s] \subseteq available[s]
    BY DEF FilesTypeOK, FilesInv, Gates
  <2> QED BY <2>1 DEF Empty
<1> QED BY <1>1, FilesInvariant, PTL

(* When the Merge subscription is finished every job has ended and every   *)
(* file a job wrote has been merged or given up.                           *)
THEOREM NothingIsLost == Spec => []NothingLost
<1>1. FilesTypeOK /\ FilesInv => NothingLost
  <2> SUFFICES ASSUME FilesTypeOK, Calm, Merge \in finished
               PROVE  /\ \A j \in Created : state[j] \in {"success", "exhausted", "cleanout"}
                      /\ (good \ MergeJobs) \subseteq complete[Merge] \cup failed[Merge]
    BY CalmIsInv DEF NothingLost
  <2>1. Closed(Merge) /\ Empty(Merge) /\ Quiet
    BY DEF Calm, Gates
  <2>2. output = complete[Merge] \cup failed[Merge]
    BY <2>1, SubsSplit DEF Calm, Partition, InputOf, Empty
  <2>3. ASSUME NEW j \in Created PROVE state[j] \in {"success", "exhausted", "cleanout"}
    <3>1. CASE j.sub # Merge
      <4>1. j.sub \in Elements
        BY <3>1, JobFiles DEF FilesTypeOK, TopJobs
      <4> QED BY <2>1, <4>1 DEF Quiet, Uncleaned
    <3>2. CASE j.sub = Merge
      <4>1. PICK f \in j.files : f \in output
        BY <3>2 DEF Calm, JobsMatch, InputOf
      <4>2. j \in Readers(Merge, f) /\ f \in Files
        BY <3>2, <4>1 DEF Readers, FilesTypeOK, Files
      <4>3. j \in good \/ GaveUp(j)
        <5>1. CASE f \in complete[Merge]
          BY <4>2, <5>1, SubsSplit DEF Calm, Verdict
        <5>2. CASE f \in failed[Merge]
          <6>1. \/ \E k \in Readers(Merge, f) : GaveUp(k)
                \/ \E k \in good : Readers(Merge, f) = {k}
            BY <5>2, SubsSplit DEF Calm, Verdict
          <6>2. \A k \in Readers(Merge, f) : k = j
            BY <4>2 DEF Calm, JobsMatch
          <6> QED BY <4>2, <6>1, <6>2
        <5> QED BY <2>2, <4>1, <5>1, <5>2
      <4> QED BY <4>3 DEF Calm, JobsMatch, GaveUp
    <3> QED BY <3>1, <3>2
  <2>4. ASSUME NEW j \in good \ MergeJobs PROVE j \in output
    <3>1. j \in TopJobs
      BY DEF FilesTypeOK, Jobs
    <3>2. j.sub # Merge
      BY <3>1, ElementsAssumption DEF TopJobs
    <3> QED BY <3>2 DEF Calm, JobsMatch
  <2> QED BY <2>2, <2>3, <2>4
<1> QED BY <1>1, FilesInvariant, PTL

(* The output fileset gets no file once it is closed.                      *)
THEOREM NoOutputIsLate == Spec => NoLateOutput
<1>1. FilesTypeOK /\ FilesInv /\ [Next]_vars => (output' # output => open \/ aborted')
  <2> SUFFICES ASSUME FilesTypeOK, FilesInv, [Next]_vars, output' # output, ~aborted' PROVE open
    OBVIOUS
  <2>1. Calm
    BY AbortedStays, CalmIsInv DEF FilesTypeOK
  <2>2. Accountant
    BY DEF Next, Inject, SaveElement, MarkInjected, SplitterOpens, SplitterCommits, SplitterEnds,
           JobEnds, ReportFails, Exhaust, Archive, ListClosable, MarkClosed, CloserCrash, MarkFinished,
           Abort, KillCompletes, KillAcquired, KillAvailable, KillJobs, KillCrash, vars, fileset
  <2>3. PICK j \in Created : state[j] = "complete" /\ j.sub # Merge
    BY <2>2 DEF Accountant, AccountantSaves, Written
  <2>4. j.sub \in Elements
    BY <2>3, JobFiles DEF FilesTypeOK, TopJobs
  <2>5. ~Quiet
    BY <2>3, <2>4 DEF Quiet, Uncleaned
  <2>6. j.sub \in Fed
    BY <2>1, <2>4, SubsSplit DEF Calm, JobsMatch, InputOf
  <2> QED BY <2>1, <2>5, <2>6 DEF Calm, Gates, Closed, Exists
<1> QED BY <1>1, FilesInvariant, PTL DEF Spec, NoLateOutput
=============================================================================
