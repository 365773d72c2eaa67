------------------------ MODULE BatchTransferProofs -------------------------
(***************************************************************************)
(* Theorems about push-via-batch and pull-via-batch, for every number of   *)
(* files, every number of permits and every choice of sized files.         *)
(***************************************************************************)
EXTENDS BatchTransfer, FiniteSetTheorems, TLAPS

(***************************************************************************)
(* The inductive invariant.  The properties talk of the end of a run; on   *)
(* the way there a file is at some point between the spawn loop and the    *)
(* index, and what is already known of it depends on that point.           *)
(***************************************************************************)

\* TypeOK without the bounds of the counters, which follow from the counting.
Typed ==
  /\ direction \in Directions /\ resume \in BOOLEAN /\ cancel \in BOOLEAN
  /\ there \in [Files -> Content] /\ part \in [Files -> Content]
  /\ main \in {"off", "spawn", "join", "ended"} /\ next \in 1 .. N + 1
  /\ permits \in Nat
  /\ worker \in [Files -> Working \cup {"none", "queued", "end"}]
  /\ outcome \in [Files -> Outcomes \cup {"none"}]
  /\ count \in [Outcomes -> Nat]
  /\ index \in [Files -> Outcomes \cup {"none"}]
  /\ runs \in 0 .. MaxRuns /\ errors \in 0 .. Errors

\* The spawn loop has handed out the files below next, and a run ends when
\* each of them is through.
LoopInv ==
  /\ main # "off" => \A f \in Files : worker[f] = "none" <=> f >= next
  /\ main = "off" => \A f \in Files : worker[f] = "none"
  /\ main \in {"join", "ended"} => cancel \/ next > N
  /\ main = "ended" => \A f \in Files : worker[f] \in {"none", "end"}

\* The size that the manifest gives makes a pulled file comparable.
Claimed(f) == Pull => f \in Sized

\* What is known of a file where its task is.
FileInv(f) ==
  /\ worker[f] = "end" => index[f] = outcome[f]
  /\ main # "off" /\ worker[f] # "end" => index[f] = "none"
  /\ worker[f] \in {"count", "record", "end"} =>
       /\ outcome[f] \in Outcomes
       /\ outcome[f] = "moved" /\ Claimed(f) => there[f] = "whole"
       /\ outcome[f] = "skipped" /\ Claimed(f) => cancel \/ there[f] = "whole"
  /\ worker[f] \in {"verify", "remove", "rename"} => Pull
  /\ worker[f] \in {"remove", "rename"} /\ f \in Sized => part[f] = "whole"

FilesInv == \A f \in Files : FileInv(f)

\* The tasks that have been counted under o, and those that hold a permit.
Counted(o) == {f \in Files : worker[f] \in {"record", "end"} /\ outcome[f] = o}
Holders == {f \in Files : worker[f] \in Working}

CountInv ==
  main # "off" =>
    /\ \A o \in Outcomes : count[o] = Cardinality(Counted(o))
    /\ permits + Cardinality(Holders) = Parallel

BatchInv == Typed /\ LoopInv /\ FilesInv /\ CountInv

-----------------------------------------------------------------------------
(* Counting. *)

LEMMA Numbers == N \in Nat /\ MaxRuns \in Nat /\ Errors \in Nat /\ Parallel \in Nat
  BY BatchAssumption

LEMMA FilesAreFinite == IsFiniteSet(Files) /\ Cardinality(Files) = N
  <1>1. N \in Nat
    BY BatchAssumption
  <1> QED
    BY <1>1, FS_Interval DEF Files

LEMMA SubsetsOfFiles ==
  ASSUME NEW S \in SUBSET Files
  PROVE  IsFiniteSet(S) /\ Cardinality(S) \in 0 .. N
  <1>1. IsFiniteSet(S) /\ Cardinality(S) <= N
    BY FilesAreFinite, FS_Subset
  <1> QED
    BY <1>1, FS_CardinalityType, Numbers

LEMMA CountedAreFinite ==
  /\ IsFiniteSet(Holders) /\ Cardinality(Holders) \in Nat
  /\ \A o \in Outcomes : /\ IsFiniteSet(Counted(o))
                         /\ Cardinality(Counted(o)) \in 0 .. N
  <1>1. Holders \in SUBSET Files /\ \A o \in Outcomes : Counted(o) \in SUBSET Files
    BY DEF Holders, Counted
  <1> QED
    BY <1>1, SubsetsOfFiles, Numbers

\* A step that neither counts a task nor moves a permit.
LEMMA CountKept ==
  ASSUME CountInv, UNCHANGED <<count, permits, main>>,
         \A f \in Files :
           /\ worker'[f] \in Working <=> worker[f] \in Working
           /\ worker'[f] \in {"record", "end"} <=> worker[f] \in {"record", "end"}
           /\ worker[f] \in {"record", "end"} => outcome'[f] = outcome[f]
  PROVE  CountInv'
  <1>1. Holders' = Holders /\ \A o \in Outcomes : Counted(o)' = Counted(o)
    BY DEF Holders, Counted
  <1> QED
    BY <1>1 DEF CountInv

LEMMA CountAcquire ==
  ASSUME Typed, CountInv, NEW f \in Files, Acquire(f)
  PROVE  CountInv'
  <1> USE DEF Acquire, Goto, WorkerUnchanged, run, tallies
  <1>1. f \notin Holders /\ Holders' = Holders \cup {f}
    BY DEF Holders, Typed, Working
  <1>2. Cardinality(Holders') = Cardinality(Holders) + 1
    BY <1>1, CountedAreFinite, FS_AddElement
  <1>3. \A o \in Outcomes : Counted(o)' = Counted(o)
    BY DEF Counted, Typed
  <1> QED
    BY <1>2, <1>3, CountedAreFinite, BatchAssumption DEF CountInv, Typed

LEMMA CountRecord ==
  ASSUME Typed, CountInv, NEW f \in Files, Record(f)
  PROVE  CountInv'
  <1> USE DEF Record, Goto, run
  <1>1. f \in Holders /\ Holders' = Holders \ {f}
    BY DEF Holders, Typed, Working
  <1>2. Cardinality(Holders') = Cardinality(Holders) - 1
    BY <1>1, CountedAreFinite, FS_RemoveElement
  <1>3. \A o \in Outcomes : Counted(o)' = Counted(o)
    BY DEF Counted, Typed
  <1> QED
    BY <1>2, <1>3, CountedAreFinite, BatchAssumption DEF CountInv, Typed

LEMMA CountCount ==
  ASSUME Typed, CountInv, NEW f \in Files, Count(f), outcome[f] \in Outcomes
  PROVE  CountInv'
  <1> USE DEF Count, Goto, run, Typed
  <1>1. Holders' = Holders
    BY DEF Holders, Working
  <1>2. ASSUME NEW o \in Outcomes, o # outcome[f] PROVE Counted(o)' = Counted(o)
    BY <1>2 DEF Counted
  <1>3. /\ f \notin Counted(outcome[f])
        /\ Counted(outcome[f])' = Counted(outcome[f]) \cup {f}
    BY DEF Counted
  <1>4. Cardinality(Counted(outcome[f])') = Cardinality(Counted(outcome[f])) + 1
    BY <1>3, CountedAreFinite, FS_AddElement
  <1> QED
    BY <1>1, <1>2, <1>4, CountedAreFinite DEF CountInv

-----------------------------------------------------------------------------
(* The invariant. *)

LEMMA BatchInit == Init => BatchInv
  <1> SUFFICES ASSUME Init PROVE BatchInv
    OBVIOUS
  <1>1. Typed
    <2>1. there \in [Files -> Content] /\ part \in [Files -> Content]
      BY DEF Init, Content
    <2>2. runs \in 0 .. MaxRuns /\ errors \in 0 .. Errors /\ next \in 1 .. N + 1
          /\ permits \in Nat
      BY Numbers DEF Init
    <2> QED
      BY <2>1, <2>2 DEF Init, Typed
  <1>2. LoopInv /\ FilesInv /\ CountInv
    BY DEF Init, LoopInv, FilesInv, FileInv, CountInv
  <1> QED
    BY <1>1, <1>2 DEF BatchInv

\* What the steps of one task have in common: they touch only its own file.
Own(f) ==
  /\ UNCHANGED <<direction, resume, main, next, cancel, runs>>
  /\ worker[f] \notin {"none", "end"} /\ worker'[f] # "none"
  /\ \A g \in Files \ {f} :
       /\ worker'[g] = worker[g] /\ outcome'[g] = outcome[g] /\ index'[g] = index[g]
       /\ there'[g] = there[g] /\ part'[g] = part[g]

LEMMA OwnLoop ==
  ASSUME Typed, LoopInv, NEW f \in Files, Own(f)
  PROVE  LoopInv'
  BY DEF Typed, LoopInv, Own

LEMMA OwnFiles ==
  ASSUME FilesInv, NEW f \in Files, Own(f), FileInv(f)'
  PROVE  FilesInv'
  <1>1. ASSUME NEW g \in Files \ {f} PROVE FileInv(g)'
    BY <1>1 DEF FilesInv, FileInv, Own, Claimed, Pull
  <1> QED
    BY <1>1 DEF FilesInv

LEMMA StepTyped ==
  ASSUME Typed, FilesInv, NEW f \in Files, Step(f)
  PROVE  Typed'
  <1> USE BatchAssumption
      DEF Typed, Goto, Finish, MayFail, WorkerUnchanged, run, tallies, disk,
          Working, Outcomes, Content
  <1>1. ASSUME Acquire(f) PROVE Typed'
    BY <1>1 DEF Acquire
  <1>2. ASSUME CheckCancel(f) PROVE Typed'
    BY <1>2 DEF CheckCancel
  <1>3. ASSUME CheckResume(f) PROVE Typed'
    BY <1>3 DEF CheckResume, remote_size_equal
  <1>4. ASSUME MakeDir(f) PROVE Typed'
    BY <1>4 DEF MakeDir
  <1>5. ASSUME StartCurl(f) PROVE Typed'
    BY <1>5 DEF StartCurl
  <1>6. ASSUME UploadEnds(f) PROVE Typed'
    BY <1>6 DEF UploadEnds
  <1>7. ASSUME DownloadEnds(f) PROVE Typed'
    BY <1>7 DEF DownloadEnds
  <1>8. ASSUME VerifySize(f) PROVE Typed'
    BY <1>8 DEF VerifySize
  <1>9. ASSUME RemoveOld(f) PROVE Typed'
    BY <1>9 DEF RemoveOld
  <1>10. ASSUME Rename(f) PROVE Typed'
    BY <1>10 DEF Rename
  <1>11. ASSUME Count(f) PROVE Typed'
    BY <1>11 DEF Count, FilesInv, FileInv
  <1>12. ASSUME Record(f) PROVE Typed'
    BY <1>12 DEF Record, FilesInv, FileInv
  <1> QED
    BY <1>1, <1>2, <1>3, <1>4, <1>5, <1>6, <1>7, <1>8, <1>9, <1>10, <1>11, <1>12
    DEF Step

LEMMA StepInv ==
  ASSUME BatchInv, NEW f \in Files, Step(f)
  PROVE  BatchInv'
  <1>0. Typed'
    BY StepTyped DEF BatchInv
  <1>1. ASSUME Own(f), FileInv(f)', CountInv' PROVE BatchInv'
    BY <1>0, <1>1, OwnLoop, OwnFiles DEF BatchInv
  <1>2. FileInv(f) /\ Typed
    BY DEF BatchInv, FilesInv
  <1> USE DEF Goto, Finish, WorkerUnchanged, run, tallies, disk
  <1>3. ASSUME Acquire(f) PROVE BatchInv'
    <2>1. Own(f)
      BY <1>2, <1>3 DEF Own, Acquire, Typed
    <2>2. FileInv(f)'
      BY <1>2, <1>3 DEF FileInv, Acquire, Typed
    <2> QED
      BY <1>1, <1>3, <2>1, <2>2, CountAcquire DEF BatchInv
  <1>4. ASSUME CheckCancel(f) PROVE BatchInv'
    <2>1. Own(f)
      BY <1>2, <1>4 DEF Own, CheckCancel, Typed
    <2>2. FileInv(f)'
      BY <1>2, <1>4 DEF FileInv, CheckCancel, Typed, Outcomes, Claimed, Pull
    <2>3. CountInv'
      BY <1>2, <1>4, CountKept DEF CheckCancel, Typed, Working, BatchInv
    <2> QED
      BY <1>1, <2>1, <2>2, <2>3
  <1>5. ASSUME CheckResume(f) PROVE BatchInv'
    <2>1. Own(f)
      BY <1>2, <1>5 DEF Own, CheckResume, Typed
    <2>2. FileInv(f)'
      BY <1>2, <1>5
      DEF FileInv, CheckResume, Typed, Outcomes, Claimed, Pull,
          should_skip_existing, remote_size_equal
    <2>3. CountInv'
      BY <1>2, <1>5, CountKept DEF CheckResume, Typed, Working, BatchInv
    <2> QED
      BY <1>1, <2>1, <2>2, <2>3
  <1>6. ASSUME MakeDir(f) PROVE BatchInv'
    <2>1. Own(f)
      BY <1>2, <1>6 DEF Own, MakeDir, Typed
    <2>2. FileInv(f)'
      BY <1>2, <1>6 DEF FileInv, MakeDir, Typed, Outcomes, Claimed, Pull
    <2>3. CountInv'
      BY <1>2, <1>6, CountKept DEF MakeDir, Typed, Working, BatchInv
    <2> QED
      BY <1>1, <2>1, <2>2, <2>3
  <1>7. ASSUME StartCurl(f) PROVE BatchInv'
    <2>1. Own(f)
      BY <1>2, <1>7 DEF Own, StartCurl, Typed
    <2>2. FileInv(f)'
      BY <1>2, <1>7 DEF FileInv, StartCurl, Typed
    <2>3. CountInv'
      BY <1>2, <1>7, CountKept DEF StartCurl, Typed, Working, BatchInv
    <2> QED
      BY <1>1, <2>1, <2>2, <2>3
  <1>8. ASSUME UploadEnds(f) PROVE BatchInv'
    <2>1. Own(f)
      BY <1>2, <1>8 DEF Own, UploadEnds, Typed
    <2>2. FileInv(f)'
      BY <1>2, <1>8 DEF FileInv, UploadEnds, Typed, Outcomes, Claimed, Pull
    <2>3. CountInv'
      BY <1>2, <1>8, CountKept DEF UploadEnds, Typed, Working, BatchInv
    <2> QED
      BY <1>1, <2>1, <2>2, <2>3
  <1>9. ASSUME DownloadEnds(f) PROVE BatchInv'
    <2>1. Own(f)
      BY <1>2, <1>9 DEF Own, DownloadEnds, Typed
    <2>2. FileInv(f)'
      BY <1>2, <1>9 DEF FileInv, DownloadEnds, Typed, Outcomes, Claimed, Pull
    <2>3. CountInv'
      BY <1>2, <1>9, CountKept DEF DownloadEnds, Typed, Working, BatchInv
    <2> QED
      BY <1>1, <2>1, <2>2, <2>3
  <1>10. ASSUME VerifySize(f) PROVE BatchInv'
    <2>1. Own(f)
      BY <1>2, <1>10 DEF Own, VerifySize, Typed
    <2>2. FileInv(f)'
      BY <1>2, <1>10 DEF FileInv, VerifySize, Typed, Outcomes, Claimed, Pull
    <2>3. CountInv'
      BY <1>2, <1>10, CountKept DEF VerifySize, Typed, Working, BatchInv
    <2> QED
      BY <1>1, <2>1, <2>2, <2>3
  <1>11. ASSUME RemoveOld(f) PROVE BatchInv'
    <2>1. Own(f)
      BY <1>2, <1>11 DEF Own, RemoveOld, Typed
    <2>2. FileInv(f)'
      BY <1>2, <1>11 DEF FileInv, RemoveOld, Typed, Outcomes, Claimed, Pull
    <2>3. CountInv'
      BY <1>2, <1>11, CountKept DEF RemoveOld, Typed, Working, BatchInv
    <2> QED
      BY <1>1, <2>1, <2>2, <2>3
  <1>12. ASSUME Rename(f) PROVE BatchInv'
    <2>1. Own(f)
      BY <1>2, <1>12 DEF Own, Rename, Typed
    <2>2. FileInv(f)'
      BY <1>2, <1>12 DEF FileInv, Rename, Typed, Outcomes, Claimed, Pull
    <2>3. CountInv'
      BY <1>2, <1>12, CountKept DEF Rename, Typed, Working, BatchInv
    <2> QED
      BY <1>1, <2>1, <2>2, <2>3
  <1>13. ASSUME Count(f) PROVE BatchInv'
    <2>1. Own(f)
      BY <1>2, <1>13 DEF Own, Count, Typed
    <2>2. FileInv(f)'
      BY <1>2, <1>13 DEF FileInv, Count, Typed, Claimed, Pull
    <2>3. CountInv'
      BY <1>2, <1>13, CountCount DEF BatchInv, FileInv, Count
    <2> QED
      BY <1>1, <2>1, <2>2, <2>3
  <1>14. ASSUME Record(f) PROVE BatchInv'
    <2>1. Own(f)
      BY <1>2, <1>14 DEF Own, Record, Typed
    <2>2. FileInv(f)'
      BY <1>2, <1>14 DEF FileInv, Record, Typed, Claimed, Pull
    <2> QED
      BY <1>1, <1>14, <2>1, <2>2, CountRecord DEF BatchInv
  <1> QED
    BY <1>3, <1>4, <1>5, <1>6, <1>7, <1>8, <1>9, <1>10, <1>11, <1>12, <1>13, <1>14
    DEF Step

LEMMA StartInv == BatchInv /\ Start => BatchInv'
  <1> SUFFICES ASSUME BatchInv, Start PROVE BatchInv'
    OBVIOUS
  <1>1. Typed'
    <2>1. runs' \in 0 .. MaxRuns /\ next' \in 1 .. N + 1 /\ permits' \in Nat
      BY Numbers DEF BatchInv, Typed, Start
    <2> QED
      BY <2>1 DEF BatchInv, Typed, Start, disk
  <1>2. LoopInv'
    BY DEF Start, LoopInv, Files
  <1>3. FilesInv'
    BY DEF Start, FilesInv, FileInv
  <1>4. CountInv'
    <2>1. Holders' = {} /\ \A o \in Outcomes : Counted(o)' = {}
      BY DEF Start, Holders, Counted, Working
    <2> QED
      BY <2>1, FS_EmptySet, Numbers DEF Start, CountInv
  <1> QED
    BY <1>1, <1>2, <1>3, <1>4 DEF BatchInv

LEMMA SpawnInv == BatchInv /\ Spawn => BatchInv'
  <1> SUFFICES ASSUME BatchInv, Spawn PROVE BatchInv'
    OBVIOUS
  <1> USE DEF BatchInv
  <1>1. CASE ~cancel /\ next <= N
    <2>0. /\ worker' = [worker EXCEPT ![next] = "queued"] /\ next' = next + 1
          /\ UNCHANGED <<main, direction, resume, cancel, there, part, count, index,
                         permits, outcome, runs, errors>>
      BY <1>1, BatchAssumption DEF Spawn, Goto, disk, tallies, Typed
    <2>1. next \in Files /\ worker[next] = "none" /\ main = "spawn"
      BY <1>1, BatchAssumption DEF Spawn, Typed, LoopInv, Files
    <2>2. Typed'
      BY <1>1, <2>0, <2>1, BatchAssumption DEF Typed
    <2>3. LoopInv'
      BY <2>0, <2>1, BatchAssumption DEF Typed, LoopInv, Files
    <2>4. FilesInv'
      BY <2>0, <2>1 DEF Typed, FilesInv, FileInv, Claimed, Pull
    <2>5. CountInv'
      BY <2>0, <2>1, CountKept DEF Typed, Working
    <2> QED
      BY <2>2, <2>3, <2>4, <2>5
  <1>2. CASE ~(~cancel /\ next <= N)
    <2>0. /\ main = "spawn" /\ main' = "join" /\ (cancel \/ next > N)
          /\ UNCHANGED <<worker, next, direction, resume, cancel, there, part, count,
                         index, permits, outcome, runs, errors>>
      BY <1>2, BatchAssumption DEF Spawn, disk, tallies, Typed
    <2>1. Typed' /\ LoopInv'
      BY <2>0 DEF Typed, LoopInv
    <2>2. FilesInv'
      BY <2>0 DEF FilesInv, FileInv, Claimed, Pull
    <2>3. CountInv'
      <3>1. Holders' = Holders /\ \A o \in Outcomes : Counted(o)' = Counted(o)
        BY <2>0 DEF Holders, Counted
      <3> QED
        BY <2>0, <3>1 DEF CountInv
    <2> QED
      BY <2>1, <2>2, <2>3
  <1> QED
    BY <1>1, <1>2

\* The other steps of the command move no task.
LEMMA CommandInv == BatchInv /\ (Join \/ CtrlC \/ Crash \/ UNCHANGED vars) => BatchInv'
  <1> SUFFICES ASSUME BatchInv PROVE Join \/ CtrlC \/ Crash \/ UNCHANGED vars => BatchInv'
    OBVIOUS
  <1> USE DEF BatchInv, disk, tallies, run
  <1>1. ASSUME UNCHANGED <<worker, outcome, count, permits>>, main # "off", main' # "off"
        PROVE CountInv'
    <2>1. Holders' = Holders /\ \A o \in Outcomes : Counted(o)' = Counted(o)
      BY <1>1 DEF Holders, Counted
    <2> QED
      BY <1>1, <2>1 DEF CountInv
  <1>2. CASE Join
    BY <1>1, <1>2 DEF Join, Typed, LoopInv, FilesInv, FileInv, Claimed, Pull
  <1>3. CASE CtrlC
    BY <1>1, <1>3 DEF CtrlC, Typed, LoopInv, FilesInv, FileInv, Claimed, Pull
  <1>4. CASE Crash
    BY <1>4 DEF Crash, Typed, LoopInv, FilesInv, FileInv, CountInv
  <1>5. CASE UNCHANGED vars
    <2>1. Holders' = Holders /\ \A o \in Outcomes : Counted(o)' = Counted(o)
      BY <1>5 DEF vars, Holders, Counted
    <2> QED
      BY <1>5, <2>1 DEF vars, Typed, LoopInv, FilesInv, FileInv, Claimed, Pull, CountInv
  <1> QED
    BY <1>2, <1>3, <1>4, <1>5

LEMMA BatchStep == BatchInv /\ [Next]_vars => BatchInv'
  BY StepInv, StartInv, SpawnInv, CommandInv DEF Next

LEMMA BatchInvariant == Spec => []BatchInv
  BY BatchInit, BatchStep, PTL DEF Spec

-----------------------------------------------------------------------------
(* What follows at the end of a run. *)

LEMMA SummaryFollows == BatchInv => SummaryIsTrue
  <1> SUFFICES ASSUME BatchInv, main = "ended" 
               PROVE  /\ \A o \in Outcomes : count[o] = Cardinality(With(o))
                      /\ With("none") = next .. N
                      /\ ~cancel => count["moved"] + count["skipped"] + count["failed"] = N
    BY DEF SummaryIsTrue
  <1> USE Numbers DEF BatchInv
  <1>1. \A f \in Files : /\ worker[f] = "none" => index[f] = "none" /\ f >= next
                         /\ worker[f] # "none" => /\ f < next /\ worker[f] = "end"
                                                  /\ index[f] = outcome[f]
                                                  /\ outcome[f] \in Outcomes
    BY DEF Typed, LoopInv, FilesInv, FileInv, Files
  <1>2. \A o \in Outcomes : With(o) = Counted(o)
    BY <1>1 DEF With, Counted, Outcomes
  <1>3. \A o \in Outcomes : /\ count[o] = Cardinality(With(o))
                            /\ IsFiniteSet(With(o)) /\ Cardinality(With(o)) \in Nat
    BY <1>2, CountedAreFinite DEF CountInv
  <1>4. With("none") = next .. N
    <2>1. \A f \in Files : index[f] = "none" <=> f >= next
      BY <1>1, SMTT(30) DEF Outcomes, Typed, Files
    <2> QED
      BY <2>1 DEF With, Typed, Files
  <1>5. ASSUME ~cancel PROVE count["moved"] + count["skipped"] + count["failed"] = N
    <2>1. \A f \in Files : index[f] \in Outcomes
      BY <1>1, <1>5 DEF LoopInv, Typed, Files
    <2> DEFINE MS == With("moved") \cup With("skipped")
    <2>2. With("moved") \cap With("skipped") = {} /\ MS \cap With("failed") = {}
          /\ MS \cup With("failed") = Files
      BY <2>1 DEF With, Outcomes
    <2>3. IsFiniteSet(MS) /\ Cardinality(MS)
             = Cardinality(With("moved")) + Cardinality(With("skipped"))
      BY <1>3, <2>2, FS_Union, FS_EmptySet DEF Outcomes
    <2>4. Cardinality(MS \cup With("failed"))
             = Cardinality(MS) + Cardinality(With("failed"))
      <3>1. IsFiniteSet(With("failed"))
        BY <1>3 DEF Outcomes
      <3>2. Cardinality(MS) \in Nat /\ Cardinality(With("failed")) \in Nat
        BY <2>3, <3>1, FS_CardinalityType
      <3>3. Cardinality(MS \cap With("failed")) = 0
        BY <2>2, FS_EmptySet
      <3>4. Cardinality(MS \cup With("failed")) = Cardinality(MS)
              + Cardinality(With("failed")) - Cardinality(MS \cap With("failed"))
        <4> HIDE DEF MS
        <4> QED
          BY <2>3, <3>1, FS_Union
      <3> QED
        BY <3>2, <3>3, <3>4
    <2> QED
      BY <1>3, <2>2, <2>3, <2>4, FilesAreFinite DEF Outcomes
  <1> QED
    BY <1>3, <1>4, <1>5

LEMMA CompleteFollows == BatchInv => CleanMeansComplete
  <1> SUFFICES ASSUME BatchInv, main = "ended", ~cancel, count["failed"] = 0,
                      NEW f \in Files, Pull => f \in Sized
               PROVE  there[f] = "whole"
    BY DEF CleanMeansComplete
  <1> USE Numbers DEF BatchInv
  <1>1. worker[f] = "end"
    BY DEF LoopInv, Typed, Files
  <1>2. Counted("failed") = {}
    BY CountedAreFinite, FS_EmptySet DEF CountInv, Outcomes
  <1>3. outcome[f] # "failed"
    BY <1>1, <1>2 DEF Counted
  <1> QED
    BY <1>1, <1>3 DEF FilesInv, FileInv, Claimed, Outcomes

\* What a batch reports is true, for any number of files and permits, through
\* cancellation, failures, crashes and restarts: the summary adds up to the
\* index, and an exit code of 0 means that every file is whole.
THEOREM ReportAlwaysTrue == Spec => []ReportIsTrue
  <1>1. BatchInv => ReportIsTrue
    BY SummaryFollows, CompleteFollows DEF ReportIsTrue
  <1> QED
    BY <1>1, BatchInvariant, PTL

\* The counters stay within the number of files and the permits within the
\* semaphore's, so at most Parallel curls run at a time.
THEOREM TypeCorrect == Spec => []TypeOK
  <1> DEFINE Bounded == count \in [Outcomes -> 0 .. N] /\ permits \in 0 .. Parallel
  <1>1. Init => Bounded
    BY Numbers DEF Init
  <1>2. BatchInv /\ Bounded /\ [Next]_vars => Bounded'
    <2> SUFFICES ASSUME BatchInv, Bounded, [Next]_vars PROVE Bounded'
      OBVIOUS
    <2>1. BatchInv'
      BY BatchStep
    <2>2. CASE main' # "off"
      <3>1. \A o \in Outcomes : Cardinality(Counted(o)') \in 0 .. N
        BY SubsetsOfFiles DEF Counted
      <3>2. Cardinality(Holders') \in Nat
        BY SubsetsOfFiles, Numbers DEF Holders
      <3> QED
        BY <2>1, <2>2, <3>1, <3>2, Numbers DEF BatchInv, CountInv, Typed
    <2>3. CASE main' = "off"
      <3>1. UNCHANGED <<count, permits>>
        <4>1. ASSUME NEW f \in Files, Step(f) PROVE main # "off"
          BY <4>1
          DEF BatchInv, LoopInv, Step, Acquire, CheckCancel, CheckResume, MakeDir,
              StartCurl, UploadEnds, DownloadEnds, VerifySize, RemoveOld, Rename,
              Count, Record
        <4>2. ASSUME NEW f \in Files, Step(f) PROVE UNCHANGED main
          BY <4>2
          DEF Step, Acquire, CheckCancel, CheckResume, MakeDir,
              StartCurl, UploadEnds, DownloadEnds, VerifySize, RemoveOld, Rename,
              Count, Record, WorkerUnchanged, run
        <4> QED
          BY <2>3, <4>1, <4>2
          DEF Next, Start, Spawn, Join, CtrlC, Crash, vars, tallies
      <3> QED
        BY <3>1
    <2> QED
      BY <2>2, <2>3
  <1>3. BatchInv /\ Bounded => TypeOK
    BY DEF BatchInv, Typed, TypeOK
  <1> QED
    BY <1>1, <1>2, <1>3, BatchInvariant, PTL DEF Spec

-----------------------------------------------------------------------------
(***************************************************************************)
(* A pull that resumes.  A task that has got past the check of what is     *)
(* there works on a file that is not whole, until it has put its own copy  *)
(* in place.                                                               *)
(***************************************************************************)
ResumeInv ==
  Pull /\ resume =>
    \A f \in Files :
      /\ worker[f] \in {"mkdir", "start", "curl", "verify", "remove"} => there[f] # "whole"
      /\ worker[f] = "rename" => there[f] = "absent"

LEMMA ResumeInit == Init => ResumeInv
  BY DEF Init, ResumeInv

LEMMA ResumeStep == Typed /\ ResumeInv /\ [Next]_vars => ResumeInv'
  <1> SUFFICES ASSUME Typed, ResumeInv, [Next]_vars PROVE ResumeInv'
    OBVIOUS
  <1> USE DEF Typed, ResumeInv, Pull, Goto, Finish, WorkerUnchanged, run, tallies, disk
  <1>1. CASE Start
    BY <1>1 DEF Start
  <1>2. CASE Spawn \/ Join \/ CtrlC \/ Crash
    BY <1>2 DEF Spawn, Join, CtrlC, Crash
  <1>3. CASE UNCHANGED vars
    BY <1>3 DEF vars
  <1>4. ASSUME NEW f \in Files, Acquire(f) \/ CheckCancel(f) \/ MakeDir(f)
        PROVE ResumeInv'
    BY <1>4, ZenonT(60) DEF Acquire, CheckCancel, MakeDir
  <1>9. ASSUME NEW f \in Files, StartCurl(f) PROVE ResumeInv'
    BY <1>9 DEF StartCurl
  <1>5. ASSUME NEW f \in Files, CheckResume(f) PROVE ResumeInv'
    BY <1>5 DEF CheckResume, should_skip_existing
  <1>6. ASSUME NEW f \in Files, UploadEnds(f) \/ DownloadEnds(f) PROVE ResumeInv'
    BY <1>6, ZenonT(60) DEF UploadEnds, DownloadEnds
  <1>7. ASSUME NEW f \in Files, VerifySize(f) \/ RemoveOld(f) PROVE ResumeInv'
    BY <1>7, ZenonT(60) DEF VerifySize, RemoveOld
  <1>8. ASSUME NEW f \in Files, Rename(f) \/ Count(f) \/ Record(f) PROVE ResumeInv'
    BY <1>8, ZenonT(60) DEF Rename, Count, Record
  <1> QED
    BY <1>1, <1>2, <1>3, <1>4, <1>5, <1>6, <1>7, <1>8, <1>9 DEF Next, Step

\* A pull that resumes never takes a whole file away, not even between the
\* removal and the rename of replace_file.
THEOREM ResumeAlwaysKeepsWhole == Spec => ResumeKeepsWhole
  <1> DEFINE Kept == \A f \in Files : there[f] = "whole" => there'[f] = "whole"
  <1>1. Typed /\ ResumeInv /\ [Next]_vars => (Pull /\ resume => Kept)
    <2> SUFFICES ASSUME Typed, ResumeInv, [Next]_vars, Pull, resume PROVE Kept
      OBVIOUS
    <2> USE DEF Typed, ResumeInv, Pull, disk
    <2>1. ASSUME UNCHANGED there PROVE Kept
      BY <2>1
    <2>2. CASE Start \/ Spawn \/ Join \/ CtrlC \/ Crash \/ UNCHANGED vars
      BY <2>1, <2>2 DEF Start, Spawn, Join, CtrlC, Crash, vars
    <2>3. ASSUME NEW f \in Files, Acquire(f) \/ CheckCancel(f) \/ CheckResume(f)
                 \/ MakeDir(f) \/ StartCurl(f) \/ UploadEnds(f) \/ DownloadEnds(f)
                 \/ VerifySize(f) \/ Count(f) \/ Record(f)
          PROVE Kept
      BY <2>1, <2>3
      DEF Acquire, CheckCancel, CheckResume, MakeDir, StartCurl, UploadEnds,
          DownloadEnds, VerifySize, Count, Record
    <2>4. ASSUME NEW f \in Files, RemoveOld(f) \/ Rename(f) PROVE Kept
      BY <2>4 DEF RemoveOld, Rename
    <2> QED
      BY <2>2, <2>3, <2>4 DEF Next, Step
  <1>2. Typed /\ ResumeInv /\ [Next]_vars
          => [Pull /\ resume => Kept]_vars
    BY <1>1
  <1>3. Spec => [](Typed /\ ResumeInv)
    <2>1. BatchInv => Typed
      BY DEF BatchInv
    <2> QED
      BY <2>1, ResumeInit, ResumeStep, BatchInvariant, PTL DEF Spec
  <1> QED
    BY <1>2, <1>3, PTL DEF Spec, ResumeKeepsWhole

=============================================================================
