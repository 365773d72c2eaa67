---------------------------- MODULE BatchTransfer ----------------------------
(***************************************************************************)
(* push-via-batch and pull-via-batch: a task per file, at most Parallel of  *)
(* them at work, each driving one curl; Ctrl-C, the JSONL index, the        *)
(* summary, resumption, and a machine that may crash in between.            *)
(*                                                                         *)
(* Of a file only its state at the destination counts (the remote server    *)
(* for a push, dest_dir for a pull): absent, partial or whole.  A partial   *)
(* file is shorter than the whole one.                                      *)
(***************************************************************************)
EXTENDS Naturals, FiniteSets

CONSTANTS
    N,            \* number of files, worked on in the order 1 .. N
    Sized,        \* files whose size the manifest of a pull gives
    Directions,   \* {"push", "pull"} or one of them
    Parallel,     \* permits of the semaphore
    MaxRuns,      \* bound: how often the command is started
    Errors        \* bound: file operations and curls that fail

Files == 1 .. N
Content == {"absent", "partial", "whole"}

ASSUME BatchAssumption ==
    /\ {N, MaxRuns, Errors} \subseteq Nat /\ Parallel \in Nat \ {0}
    /\ Sized \subseteq Files /\ Directions \subseteq {"push", "pull"}

VARIABLES
    direction, resume,   \* of the present run
    there,     \* the files at their destination
    part,      \* the .mrsh-part files of a pull
    main,      \* run: "off", "spawn", "join", "ended"
    next,      \* the file the spawn loop is at
    cancel,    \* the flag Ctrl-C sets
    permits,   \* of the semaphore
    worker,    \* where each task is
    outcome,   \* what the task is about to count and to record
    count,     \* uploaded or downloaded ("moved"), skipped, failed
    index,     \* the record of each file in this run's part of the index
    runs, errors   \* how much of the bounds is left

disk == <<there, part>>
run == <<direction, resume, main, next, cancel>>
tallies == <<count, index>>
vars == <<disk, run, tallies, permits, worker, outcome, runs, errors>>

Outcomes == {"moved", "skipped", "failed"}
Working == {"cancelled?", "resume?", "mkdir", "start", "curl", "verify", "remove",
            "rename", "count", "record"}

Pull == direction = "pull"
Goto(f, pc) == worker' = [worker EXCEPT ![f] = pc]
Finish(f, o) == Goto(f, "count") /\ outcome' = [outcome EXCEPT ![f] = o]
MayFail == errors > 0 /\ errors' = errors - 1

-----------------------------------------------------------------------------
(* The command *)

\* run: the files are listed, the proxy started; all counters are new.
Start ==
    /\ main \in {"off", "ended"} /\ runs > 0
    /\ runs' = runs - 1
    /\ resume' \in BOOLEAN
    /\ main' = "spawn" /\ next' = 1 /\ cancel' = FALSE /\ permits' = Parallel
    /\ worker' = [f \in Files |-> "none"] /\ outcome' = [f \in Files |-> "none"]
    /\ count' = [o \in Outcomes |-> 0] /\ index' = [f \in Files |-> "none"]
    /\ UNCHANGED <<direction, disk, errors>>

\* One turn of the spawn loop.
Spawn ==
    /\ main = "spawn"
    /\ \/ ~cancel /\ next <= N /\ Goto(next, "queued") /\ next' = next + 1
          /\ UNCHANGED main
       \/ (cancel \/ next > N) /\ main' = "join" /\ UNCHANGED <<worker, next>>
    /\ UNCHANGED <<direction, resume, cancel, disk, tallies, permits, outcome, runs,
                   errors>>

\* All handles are joined; the footer and the summary are written.
Join ==
    /\ main = "join" /\ \A f \in Files : worker[f] \in {"none", "end"}
    /\ main' = "ended"
    /\ UNCHANGED <<direction, resume, next, cancel, disk, tallies, permits, worker,
                   outcome, runs, errors>>

CtrlC ==
    /\ main \in {"spawn", "join"} /\ ~cancel
    /\ cancel' = TRUE
    /\ UNCHANGED <<direction, resume, main, next, disk, tallies, permits, worker, outcome,
                   runs, errors>>

\* The machine goes down, with the command and its curls (a bound: only if the command
\* can be run again).
Crash ==
    /\ main \in {"spawn", "join"} /\ runs > 0
    /\ main' = "off"
    /\ worker' = [f \in Files |-> "none"]
    /\ UNCHANGED <<direction, resume, next, cancel, disk, tallies, permits, outcome, runs,
                   errors>>

-----------------------------------------------------------------------------
(* One task *)

WorkerUnchanged == <<run, tallies, runs>>

Acquire(f) ==
    /\ worker[f] = "queued" /\ permits > 0
    /\ permits' = permits - 1
    /\ Goto(f, "cancelled?")
    /\ UNCHANGED <<disk, outcome, errors, WorkerUnchanged>>

\* The flag is read once more when the task has its permit.
CheckCancel(f) ==
    /\ worker[f] = "cancelled?"
    /\ IF cancel THEN Finish(f, "skipped") ELSE Goto(f, "resume?") /\ UNCHANGED outcome
    /\ UNCHANGED <<disk, permits, errors, WorkerUnchanged>>

\* A buggy form: a file that is there is never good enough.
should_skip_existing_never(f) == FALSE

\* A pull trusts a file of the size the manifest gives, or any file if it gives none.
should_skip_existing(f) ==
    there[f] = "whole" \/ (f \notin Sized /\ there[f] = "partial")

\* remote_size: the size is equal, or it is not, or HEAD fails and nothing is known.
remote_size_equal(f, equal) ==
    \/ equal = (there[f] = "whole") /\ UNCHANGED errors
    \/ ~equal /\ MayFail

CheckResume(f) ==
    /\ worker[f] = "resume?"
    /\ \/ ~resume /\ Goto(f, IF Pull THEN "mkdir" ELSE "start") /\ UNCHANGED <<outcome, errors>>
       \/ /\ resume /\ Pull
          /\ IF should_skip_existing(f) THEN Finish(f, "skipped")
                                        ELSE Goto(f, "mkdir") /\ UNCHANGED outcome
          /\ UNCHANGED errors
       \/ /\ resume /\ ~Pull
          /\ \E equal \in BOOLEAN :
                /\ remote_size_equal(f, equal)
                /\ IF equal THEN Finish(f, "skipped")
                            ELSE Goto(f, "start") /\ UNCHANGED outcome
    /\ UNCHANGED <<disk, permits, WorkerUnchanged>>

\* create_dir_all of the parent.
MakeDir(f) ==
    /\ worker[f] = "mkdir"
    /\ \/ Goto(f, "start") /\ UNCHANGED <<outcome, errors>>
       \/ MayFail /\ Finish(f, "failed")
    /\ UNCHANGED <<disk, permits, WorkerUnchanged>>

\* curl starts: a download in a fresh .mrsh-part; an upload truncates what is there, if
\* it gets that far.
StartCurl(f) ==
    /\ worker[f] = "start"
    /\ Goto(f, "curl")
    /\ IF Pull THEN part' = [part EXCEPT ![f] = "partial"] /\ UNCHANGED there
               ELSE there' \in {there, [there EXCEPT ![f] = "partial"]} /\ UNCHANGED part
    /\ UNCHANGED <<outcome, permits, errors, WorkerUnchanged>>

\* curl -T ends.
UploadEnds(f) ==
    /\ worker[f] = "curl" /\ ~Pull
    /\ \/ there' = [there EXCEPT ![f] = "whole"] /\ Finish(f, "moved") /\ UNCHANGED errors
       \/ MayFail /\ Finish(f, "failed") /\ UNCHANGED there
    /\ UNCHANGED <<part, permits, WorkerUnchanged>>

\* curl -o ends: well, short without an error (the server gave no length), or badly.
DownloadEnds(f) ==
    /\ worker[f] = "curl" /\ Pull
    /\ \/ part' = [part EXCEPT ![f] = "whole"] /\ Goto(f, "verify")
          /\ UNCHANGED <<outcome, errors>>
       \/ MayFail /\ Goto(f, "verify") /\ UNCHANGED <<part, outcome>>
       \/ MayFail /\ part' = [part EXCEPT ![f] = "absent"] /\ Finish(f, "failed")
    /\ UNCHANGED <<there, permits, WorkerUnchanged>>

\* A buggy form: the size is not compared.
VerifySizeNever(f) ==
    /\ worker[f] = "verify"
    /\ Goto(f, "remove")
    /\ UNCHANGED <<disk, outcome, permits, errors, WorkerUnchanged>>

\* The size of the .mrsh-part, if it can be read, against the manifest's.
VerifySize(f) ==
    /\ worker[f] = "verify"
    /\ \/ /\ f \in Sized /\ part[f] # "whole"
          /\ part' = [part EXCEPT ![f] = "absent"]
          /\ Finish(f, "failed") /\ UNCHANGED errors
       \/ /\ f \notin Sized \/ part[f] = "whole"
          /\ Goto(f, "remove") /\ UNCHANGED <<part, outcome, errors>>
       \/ MayFail /\ Finish(f, "failed") /\ UNCHANGED part
    /\ UNCHANGED <<there, permits, WorkerUnchanged>>

\* replace_file: the destination is removed, ...
RemoveOld(f) ==
    /\ worker[f] = "remove"
    /\ \/ there' = [there EXCEPT ![f] = "absent"] /\ Goto(f, "rename")
          /\ UNCHANGED <<outcome, errors>>
       \/ there[f] # "absent" /\ MayFail /\ Finish(f, "failed") /\ UNCHANGED there
    /\ UNCHANGED <<part, permits, WorkerUnchanged>>

\* ... and the .mrsh-part renamed.
Rename(f) ==
    /\ worker[f] = "rename"
    /\ \/ /\ there' = [there EXCEPT ![f] = part[f]]
          /\ part' = [part EXCEPT ![f] = "absent"]
          /\ Finish(f, "moved") /\ UNCHANGED errors
       \/ MayFail /\ Finish(f, "failed") /\ UNCHANGED disk
    /\ UNCHANGED <<permits, WorkerUnchanged>>

Count(f) ==
    /\ worker[f] = "count"
    /\ count' = [count EXCEPT ![outcome[f]] = @ + 1]
    /\ Goto(f, "record")
    /\ UNCHANGED <<disk, run, index, permits, outcome, runs, errors>>

\* A buggy form: the permit is kept by a task that failed.
RecordKeepingPermit(f) ==
    /\ worker[f] = "record"
    /\ index' = [index EXCEPT ![f] = outcome[f]]
    /\ permits' = IF outcome[f] = "failed" THEN permits ELSE permits + 1
    /\ Goto(f, "end")
    /\ UNCHANGED <<disk, run, count, outcome, runs, errors>>

\* append_index; the task returns and drops its permit.
Record(f) ==
    /\ worker[f] = "record"
    /\ index' = [index EXCEPT ![f] = outcome[f]]
    /\ permits' = permits + 1
    /\ Goto(f, "end")
    /\ UNCHANGED <<disk, run, count, outcome, runs, errors>>

-----------------------------------------------------------------------------
Init ==
    /\ direction \in Directions /\ resume = FALSE
    /\ there \in [Files -> {"absent", "partial"}] /\ part = [f \in Files |-> "absent"]
    /\ main = "off" /\ next = 1 /\ cancel = FALSE /\ permits = Parallel
    /\ worker = [f \in Files |-> "none"] /\ outcome = [f \in Files |-> "none"]
    /\ count = [o \in Outcomes |-> 0] /\ index = [f \in Files |-> "none"]
    /\ runs = MaxRuns /\ errors = Errors

Step(f) ==
    \/ Acquire(f) \/ CheckCancel(f) \/ CheckResume(f) \/ MakeDir(f) \/ StartCurl(f)
    \/ UploadEnds(f) \/ DownloadEnds(f) \/ VerifySize(f) \/ RemoveOld(f) \/ Rename(f)
    \/ Count(f) \/ Record(f)

Next == Start \/ Spawn \/ Join \/ CtrlC \/ Crash \/ \E f \in Files : Step(f)

Spec == Init /\ [][Next]_vars

(* Tasks run when they can; the semaphore is first come, first served.  curl has   *)
(* no time limit in the code: that it ends is assumed of the network.              *)
Fairness == WF_vars(Spawn) /\ WF_vars(Join) /\ \A f \in Files : WF_vars(Step(f))

FairSpec == Spec /\ Fairness

-----------------------------------------------------------------------------
(* Properties *)

\* The type invariant.
TypeOK ==
    /\ direction \in Directions /\ {resume, cancel} \subseteq BOOLEAN
    /\ there \in [Files -> Content] /\ part \in [Files -> Content]
    /\ main \in {"off", "spawn", "join", "ended"} /\ next \in 1 .. N + 1
    /\ permits \in 0 .. Parallel
    /\ worker \in [Files -> Working \cup {"none", "queued", "end"}]
    /\ outcome \in [Files -> Outcomes \cup {"none"}]
    /\ count \in [Outcomes -> 0 .. N]
    /\ index \in [Files -> Outcomes \cup {"none"}]
    /\ runs \in 0 .. MaxRuns /\ errors \in 0 .. Errors

With(o) == {f \in Files : index[f] = o}

\* The summary is true: whatever was cancelled, skipped or failed, its numbers are those
\* of the index, every file that was handed out is in it once, and without Ctrl-C they
\* add up to the total.
SummaryIsTrue ==
    main = "ended" =>
        /\ \A o \in Outcomes : count[o] = Cardinality(With(o))
        /\ With("none") = next .. N
        /\ ~cancel => count["moved"] + count["skipped"] + count["failed"] = N

\* A run that was not cancelled and reports no failure (the exit code is 0) has left
\* every file whole at its destination, whatever earlier runs and crashes left there; of
\* a pull this is claimed for the files whose size is in the manifest.
CleanMeansComplete ==
    main = "ended" /\ ~cancel /\ count["failed"] = 0 =>
        \A f \in Files : (Pull => f \in Sized) => there[f] = "whole"

\* What the command reports is true, the numbers and the exit code.
ReportIsTrue == SummaryIsTrue /\ CleanMeansComplete

\* A pull that resumes never takes away a whole file, not even for the moment between
\* the two steps of replace_file.
ResumeKeepsWhole ==
    [][Pull /\ resume =>
         \A f \in Files : there[f] = "whole" => there'[f] = "whole"]_vars

\* Every batch ends, after Ctrl-C too: no task waits for a permit that never comes.
BatchEnds == <>[](main \in {"off", "ended"})
=============================================================================
