----------------------------- MODULE SelfUpdate -----------------------------
(***************************************************************************)
(* Self-update of a server: the request (from an operator or from the        *)
(* auto-upgrade loop), the swap of the binary on disk, the restart, the      *)
(* status file and pending marker that survive it, and the watchdog that     *)
(* rolls back to the .bak after three failed heartbeats.  The process and    *)
(* the host may crash between any two steps.                                 *)
(*                                                                         *)
(* A binary is its version; Bad versions start but never get a heartbeat    *)
(* through.  On Windows the swap is a batch script outside the process.     *)
(***************************************************************************)
EXTENDS Naturals, FiniteSets

CONSTANTS
    Versions, First,   \* binaries, and the one installed at the start
    Bad,               \* versions whose heartbeats fail
    Operators,         \* updaters that are an operator's request
    AutoLoop,          \* updaters that are a pass of the auto-upgrade loop
    Platforms,         \* where the server may be installed
    Overlaps,          \* may updates be requested while another is not over?
    DiskErrors,        \* bound: file operations that may fail
    Threshold,         \* ROLLBACK_FAILURE_THRESHOLD
    MaxUpdates, MaxCrashes   \* bounds

None == 0
Updaters == Operators \cup AutoLoop

ASSUME UpdateAssumption ==
    /\ Versions \subseteq Nat \ {None} /\ First \in Versions \ Bad
    /\ Platforms \subseteq {"windows", "systemd", "plain"} /\ Overlaps \subseteq BOOLEAN
    /\ Threshold \in Nat \ {0} /\ {DiskErrors, MaxUpdates, MaxCrashes} \subseteq Nat

VARIABLES
    platform,                  \* Windows, Linux with a systemd unit, or without one
    overlap,                   \* updates may be requested while another is not over
    exe, bak, incoming, new,   \* files: the live binary, .bak, .incoming, the sources
    st,                        \* last_update.json
    pending,                   \* last_update.pending
    proc,                      \* version the running process was started from
    stopped,                   \* the service was stopped and not started again
    task,                      \* each updater's thread in the process
    bat,                       \* each updater's batch script
    probe,                     \* the watchdog task
    errors, updates, crashes,  \* how much of the bounds is left
    interrupted,               \* history: a crash in the middle of a rollback
    streak,                    \* history: failed heartbeats in a row
    proven                     \* history: versions that had a heartbeat

files == <<exe, bak, incoming, new>>
status == <<st, pending>>
process == <<proc, stopped, task, probe>>
bounds == <<errors, updates, crashes>>
history == <<streak, proven>>
frame == <<platform, overlap, interrupted>>
vars == <<frame, files, status, process, bat, bounds, history>>

Windows == platform = "windows"   \* schedule_update_windows, not replace_binary_linux
Systemd == platform = "systemd"   \* systemctl restart works, and kills this process

Record(s, armed, fails, prev) ==
    [status |-> s, armed |-> armed, fails |-> fails, prev |-> prev]

-----------------------------------------------------------------------------
(* update_status *)

record_failure == pending' = FALSE /\ st' = Record("failed", FALSE, 0, FALSE)

arm_watchdog == st' = Record(st.status, TRUE, 0, TRUE)

reconcile_on_startup ==
    /\ pending' = FALSE
    /\ st' = IF pending THEN Record("success", st.armed, 0, st.prev) ELSE st

\* The watchdog's state machine; the caller has seen st.armed.
record_heartbeat_outcome(ok) ==
    IF ok THEN st' = Record(st.status, FALSE, 0, st.prev) /\ probe' = "off"
    ELSE IF st.fails + 1 >= Threshold
    THEN st' = Record(st.status, FALSE, 0, st.prev) /\ probe' = "validate"
    ELSE st' = [st EXCEPT !.fails = @ + 1] /\ probe' = probe

-----------------------------------------------------------------------------
(* The process *)

Goto(u, pc) == task' = [task EXCEPT ![u] = pc]
BatGoto(u, pc) == bat' = [bat EXCEPT ![u] = pc]

\* The process is gone, and its threads with it.
Die == proc' = None /\ task' = [u \in Updaters |-> "idle"] /\ probe' = "off"

\* run_server_mode_inner on Windows, in the service as in the tray: while mrsh.exe is
\* there, what updates have left is removed, unless a process still runs from it or
\* writes it.  A source may be called mrsh-new.exe, the blob of the auto-upgrade is.
CleanResiduals ==
    IF Windows
    THEN /\ bak' \in {None, bak} /\ incoming' \in {None, incoming}
         /\ new' \in [Updaters -> {None} \cup {new[u] : u \in Updaters}]
         /\ \A u \in Updaters : new'[u] \in {None, new[u]}
    ELSE UNCHANGED <<bak, incoming, new>>

\* A buggy form: only the first start after the update is watched.
BootProbesOnce ==
    /\ proc = None /\ ~stopped /\ exe # None
    /\ proc' = exe
    /\ CleanResiduals
    /\ reconcile_on_startup
    /\ probe' = IF st'.armed /\ pending THEN "watch" ELSE "off"
    /\ streak' = IF pending THEN 0 ELSE streak
    /\ UNCHANGED <<frame, exe, stopped, task, bat, bounds, proven>>

\* server_mode: residual files, reconcile, then a probe if the watchdog is armed.
Boot ==
    /\ proc = None /\ ~stopped /\ exe # None
    /\ proc' = exe
    /\ CleanResiduals
    /\ reconcile_on_startup
    /\ probe' = IF st'.armed THEN "watch" ELSE "off"
    /\ streak' = IF pending THEN 0 ELSE streak
    /\ UNCHANGED <<frame, exe, stopped, task, bat, bounds, proven>>

\* The tray is a second server process of the same binary, in the user's session: a
\* logon starts it, and the end of the script.
TrayStarts ==
    /\ Windows /\ exe # None
    /\ CleanResiduals
    /\ reconcile_on_startup
    /\ streak' = IF pending THEN 0 ELSE streak
    /\ UNCHANGED <<frame, exe, process, bat, bounds, proven>>

Rolling == probe \notin {"off", "watch"}

ProcessCrash ==
    /\ proc # None /\ crashes > 0
    /\ crashes' = crashes - 1
    /\ interrupted' = (interrupted \/ Rolling)
    /\ Die
    /\ UNCHANGED <<platform, overlap, files, status, stopped, bat, errors, updates, history>>

HostCrash ==
    /\ crashes > 0
    /\ crashes' = crashes - 1
    /\ interrupted' = (interrupted \/ Rolling)
    /\ Die
    /\ stopped' = FALSE
    /\ bat' = [u \in Updaters |-> "none"]
    /\ UNCHANGED <<platform, overlap, files, status, errors, updates, history>>

-----------------------------------------------------------------------------
(* The request *)

Free(u) == task[u] \in {"idle", "over"}

\* No update is under way, waits for its restart or has yet to prove itself.  Nothing in the
\* code asks for this; it is how a careful operator updates.
Quiet ==
    /\ proc = exe /\ proc \in proven /\ ~st.armed /\ ~pending /\ probe = "off"
    /\ \A u \in Updaters : Free(u) /\ bat[u] = "none"

\* An operator's binary has arrived, or the loop's gates (opted in, a newer advert,
\* watchdog clear after the jitter) have passed and the fetch begins.
Request(u, v) ==
    /\ proc # None /\ task[u] = "idle" /\ updates > 0
    /\ overlap \/ Quiet
    /\ updates' = updates - 1
    /\ \/ u \in Operators /\ new' = [new EXCEPT ![u] = v] /\ Goto(u, "pending")
       \/ u \in AutoLoop /\ v > proc /\ ~st.armed /\ Goto(u, "fetch") /\ UNCHANGED new
    /\ UNCHANGED <<frame, exe, bak, incoming, status, proc, stopped, probe, bat, errors, crashes,
                   history>>

\* fetch_verify_and_swap: the blob is written and verified, or refused.
Fetch(u, v) ==
    /\ task[u] = "fetch" /\ v > proc
    /\ \/ new' = [new EXCEPT ![u] = v] /\ Goto(u, "pending")
       \/ new' = [new EXCEPT ![u] = None] /\ Goto(u, "idle")
    /\ UNCHANGED <<frame, exe, bak, incoming, status, proc, stopped, probe, bat, bounds, history>>

\* handle_self_update up to the swap.
WritePending(u) ==
    /\ task[u] = "pending"
    /\ pending' = TRUE
    /\ Goto(u, IF Windows THEN "schedule" ELSE "backup")
    /\ UNCHANGED <<frame, files, st, proc, stopped, probe, bat, bounds, streak, proven>>

\* A file operation may fail while the bound lasts.
MayFail == errors > 0 /\ errors' = errors - 1

\* A step of replace_binary_linux failed; the error is recorded.
SwapFails(u) ==
    /\ task[u] \in {"backup", "stage", "swap"}
    /\ \/ MayFail
       \/ (IF task[u] = "swap" THEN incoming ELSE IF task[u] = "stage" THEN new[u] ELSE exe)
             = None /\ UNCHANGED errors
    /\ record_failure
    /\ bak' = IF task[u] = "backup" THEN None ELSE bak
    /\ incoming' = IF task[u] = "stage" THEN None ELSE incoming
    /\ Goto(u, "idle")
    /\ UNCHANGED <<frame, exe, new, proc, stopped, probe, bat, updates, crashes, history>>

\* .bak is removed, then copied from the live binary.
Backup(u) ==
    /\ task[u] = "backup"
    /\ \/ bak # None /\ bak' = None /\ UNCHANGED task
       \/ bak = None /\ exe # None /\ bak' = exe /\ Goto(u, "stage")
    /\ UNCHANGED <<frame, exe, incoming, new, status, proc, stopped, probe, bat, bounds, history>>

Stage(u) ==
    /\ task[u] = "stage" /\ new[u] # None
    /\ \/ incoming # None /\ incoming' = None /\ UNCHANGED task
       \/ incoming = None /\ incoming' = new[u] /\ Goto(u, "swap")
    /\ UNCHANGED <<frame, exe, bak, new, status, proc, stopped, probe, bat, bounds, history>>

\* A buggy form: the backup is taken once the new binary is in place.
SwapThenBackup(u) ==
    /\ task[u] = "swap" /\ incoming # None
    /\ exe' = incoming /\ bak' = incoming /\ incoming' = None
    /\ new' = [new EXCEPT ![u] = None]
    /\ Goto(u, "restart")
    /\ UNCHANGED <<frame, status, proc, stopped, probe, bat, bounds, history>>

\* A buggy form: the live binary is removed before the new one is renamed.
SwapInTwoSteps(u) ==
    /\ task[u] = "swap" /\ incoming # None
    /\ IF exe # None
       THEN exe' = None /\ UNCHANGED <<incoming, new, task>>
       ELSE /\ exe' = incoming /\ incoming' = None
            /\ new' = [new EXCEPT ![u] = None]
            /\ Goto(u, "restart")
    /\ UNCHANGED <<frame, bak, status, proc, stopped, probe, bat, bounds, history>>

\* rename(.incoming, exe), atomic; then the source is removed.
Swap(u) ==
    /\ task[u] = "swap" /\ incoming # None
    /\ exe' = incoming /\ incoming' = None
    /\ new' = [new EXCEPT ![u] = None]
    /\ Goto(u, "restart")
    /\ UNCHANGED <<frame, bak, status, proc, stopped, probe, bat, bounds, history>>

\* systemctl restart, which takes this process down (SIGTERM is blocked in one thread
\* only) before it returns; without systemd the operator restarts.
Restart(u) ==
    /\ task[u] = "restart"
    /\ \/ Systemd /\ Die
       \/ ~Systemd /\ Goto(u, "arm") /\ UNCHANGED <<proc, probe>>
    /\ UNCHANGED <<frame, files, status, stopped, bat, bounds, history>>

\* schedule_update_windows: the script is started, or could not be.
Schedule(u) ==
    /\ task[u] = "schedule" /\ bat[u] = "none"
    /\ \/ BatGoto(u, "clean") /\ Goto(u, "arm") /\ UNCHANGED <<status, errors>>
       \/ MayFail /\ record_failure /\ Goto(u, "idle") /\ UNCHANGED bat
    /\ UNCHANGED <<frame, files, proc, stopped, probe, updates, crashes, history>>

\* Back in handle_self_update: the watchdog is armed and the response sent; the
\* auto-upgrade loop ends until the restart.
Arm(u) ==
    /\ task[u] = "arm"
    /\ arm_watchdog
    /\ streak' = 0
    /\ Goto(u, IF u \in AutoLoop THEN "over" ELSE "idle")
    /\ UNCHANGED <<frame, files, pending, proc, stopped, probe, bat, bounds, proven>>

\* Somebody restarts the service by hand after an update without systemd.
ManualRestart ==
    /\ ~Windows /\ ~Systemd /\ proc # None /\ proc # exe
    /\ ~Rolling /\ \A u \in Updaters : Free(u)
    /\ Die
    /\ UNCHANGED <<frame, files, status, stopped, bat, bounds, history>>

-----------------------------------------------------------------------------
(* mrsh-update.bat *)

BatUnchanged == <<status, updates, crashes, history>>

BatClean(u) ==
    /\ bat[u] = "clean"
    /\ bak' = None /\ incoming' = None
    /\ BatGoto(u, IF new[u] = None THEN "done" ELSE "stage")
    /\ UNCHANGED <<frame, exe, new, process, errors, BatUnchanged>>

BatStage(u) ==
    /\ bat[u] = "stage"
    /\ \/ new[u] # None /\ incoming' = new[u] /\ BatGoto(u, "aside") /\ UNCHANGED errors
       \/ /\ MayFail \/ (new[u] = None /\ UNCHANGED errors)
          /\ incoming' = None /\ BatGoto(u, "done")
    /\ UNCHANGED <<frame, exe, bak, new, process, BatUnchanged>>

\* ren exe -> .bak.  It fails while .bak exists, while exe is missing or, at first,
\* because a process holds the file: then the service is stopped for a retry.
BatAside(u) ==
    /\ bat[u] \in {"aside", "retry"}
    /\ \/ /\ exe # None /\ bak = None
          /\ bak' = exe /\ exe' = None
          /\ BatGoto(u, "movein")
          /\ UNCHANGED <<errors, process>>
       \/ /\ bat[u] = "aside"
          /\ MayFail \/ ((exe = None \/ bak # None) /\ UNCHANGED errors)
          /\ stopped' = TRUE /\ Die
          /\ BatGoto(u, "retry")
          /\ UNCHANGED <<exe, bak>>
    /\ UNCHANGED <<frame, incoming, new, BatUnchanged>>

\* The last retry failed: clean up and start the service again.
BatGivesUp(u) ==
    /\ bat[u] = "retry"
    /\ MayFail \/ ((exe = None \/ bak # None) /\ UNCHANGED errors)
    /\ incoming' = None
    /\ stopped' = FALSE
    /\ BatGoto(u, "done")
    /\ UNCHANGED <<frame, exe, bak, new, proc, task, probe, BatUnchanged>>

\* ren .incoming -> exe; if it fails the backup goes back and the service starts.
BatMoveIn(u) ==
    /\ bat[u] = "movein"
    /\ \/ /\ incoming # None /\ exe = None
          /\ exe' = incoming /\ incoming' = None
          /\ BatGoto(u, "restart")
          /\ UNCHANGED <<bak, errors, stopped>>
       \/ /\ MayFail \/ ((incoming = None \/ exe # None) /\ UNCHANGED errors)
          /\ IF exe = None THEN exe' = bak /\ bak' = None ELSE UNCHANGED <<exe, bak>>
          /\ incoming' = None
          /\ stopped' = FALSE
          /\ BatGoto(u, "done")
    /\ UNCHANGED <<frame, new, proc, task, probe, BatUnchanged>>

\* net stop; the start and the removal of the source follow.
BatStop(u) ==
    /\ bat[u] = "restart"
    /\ stopped' = TRUE /\ Die
    /\ BatGoto(u, "start")
    /\ UNCHANGED <<frame, files, errors, BatUnchanged>>

BatStart(u) ==
    /\ bat[u] = "start"
    /\ stopped' = FALSE
    /\ new' = [new EXCEPT ![u] = None]
    /\ BatGoto(u, "done")
    /\ UNCHANGED <<frame, exe, bak, incoming, proc, task, probe, errors, BatUnchanged>>

BatEnds(u) ==
    /\ bat[u] = "done"
    /\ BatGoto(u, "none")
    /\ UNCHANGED <<frame, files, process, errors, BatUnchanged>>

-----------------------------------------------------------------------------
(* The watchdog *)

\* Threshold probes are thirty seconds apart, the script lasts a few seconds.
BatIsShort == \A u \in Updaters : bat[u] = "none"

\* run_watchdog_probe: one heartbeat.  A good version's may fail too.
Heartbeat(ok) ==
    /\ proc # None /\ probe = "watch" /\ st.armed
    /\ ok => proc \notin Bad
    /\ ok \/ st.fails + 1 < Threshold \/ BatIsShort
    /\ record_heartbeat_outcome(ok)
    /\ streak' = IF ok THEN 0 ELSE streak + 1
    /\ proven' = IF ok THEN proven \cup {proc} ELSE proven
    /\ UNCHANGED <<frame, files, pending, proc, stopped, task, bat, bounds>>

\* The probe finds the watchdog disarmed.
ProbeEnds ==
    /\ probe = "watch" /\ ~st.armed
    /\ probe' = "off"
    /\ UNCHANGED <<frame, files, status, proc, stopped, task, bat, bounds, history>>

\* execute_rollback: the .bak is checked, ...
ValidateBak ==
    /\ probe = "validate"
    /\ \/ st.prev /\ bak # None /\ probe' = "quarantine" /\ UNCHANGED st
       \/ (~st.prev \/ bak = None) /\ probe' = "off" /\ st' = Record("failed", FALSE, 0, st.prev)
    /\ UNCHANGED <<frame, files, pending, proc, stopped, task, bat, bounds, history>>

\* ... the failed binary renamed (or, if that fails, left to be overwritten), ...
Quarantine ==
    /\ probe = "quarantine"
    /\ \/ exe' = None /\ UNCHANGED errors
       \/ MayFail /\ UNCHANGED exe
    /\ probe' = "promote"
    /\ UNCHANGED <<frame, bak, incoming, new, status, proc, stopped, task, bat, updates, crashes,
                   history>>

\* ... the .bak renamed (or, failing that, copied) into its place, ...
Promote ==
    /\ probe = "promote"
    /\ \/ bak # None /\ exe' = bak /\ bak' \in {None, bak} /\ probe' = "record"
          /\ UNCHANGED <<st, errors>>
       \/ /\ MayFail \/ (bak = None /\ UNCHANGED errors)
          /\ st' = Record("failed", FALSE, 0, st.prev)
          /\ probe' = "off"
          /\ UNCHANGED <<exe, bak>>
    /\ UNCHANGED <<frame, incoming, new, pending, proc, stopped, task, bat, updates, crashes,
                   history>>

\* ... the outcome written and the marker cleared, ...
RecordRollback ==
    /\ probe = "record"
    /\ st' = Record("rolled-back", FALSE, 0, st.prev)
    /\ pending' = FALSE
    /\ probe' = "restart"
    /\ UNCHANGED <<frame, files, proc, stopped, task, bat, bounds, history>>

\* ... and the service restarted, where a service manager does.
RollbackRestart ==
    /\ probe = "restart"
    /\ IF Windows \/ Systemd THEN Die ELSE probe' = "off" /\ UNCHANGED <<proc, task>>
    /\ UNCHANGED <<frame, files, status, stopped, bat, bounds, history>>

-----------------------------------------------------------------------------
Init ==
    /\ platform \in Platforms /\ overlap \in Overlaps /\ interrupted = FALSE
    /\ exe = First /\ bak = None /\ incoming = None /\ new = [u \in Updaters |-> None]
    /\ st = Record("never", FALSE, 0, FALSE) /\ pending = FALSE
    /\ proc = First /\ stopped = FALSE /\ task = [u \in Updaters |-> "idle"]
    /\ bat = [u \in Updaters |-> "none"] /\ probe = "off"
    /\ errors = DiskErrors /\ updates = MaxUpdates /\ crashes = MaxCrashes
    /\ streak = 0 /\ proven = {First}

UpdateStep(u) ==
    \/ WritePending(u) \/ SwapFails(u) \/ Backup(u) \/ Stage(u) \/ Swap(u) \/ Restart(u)
    \/ Schedule(u) \/ Arm(u)
BatStep(u) ==
    \/ BatClean(u) \/ BatStage(u) \/ BatAside(u) \/ BatGivesUp(u) \/ BatMoveIn(u)
    \/ BatStop(u) \/ BatStart(u) \/ BatEnds(u)
RollbackStep ==
    ValidateBak \/ Quarantine \/ Promote \/ RecordRollback \/ RollbackRestart

Next ==
    \/ Boot \/ TrayStarts \/ ProcessCrash \/ HostCrash \/ ManualRestart
    \/ \E u \in Updaters, v \in Versions : Request(u, v) \/ Fetch(u, v)
    \/ \E u \in Updaters : UpdateStep(u) \/ BatStep(u)
    \/ \E ok \in BOOLEAN : Heartbeat(ok)
    \/ ProbeEnds \/ RollbackStep

Spec == Init /\ [][Next]_vars

(* The service manager starts the service, threads and scripts make progress and *)
(* the probe's interval ticks.  Requests, crashes and which heartbeats of a good  *)
(* version fail are up to the environment; an operator told to restart does.      *)
Fairness ==
    /\ WF_vars(Boot) /\ WF_vars(ManualRestart)
    /\ \A u \in Updaters : WF_vars(UpdateStep(u)) /\ WF_vars(BatStep(u))
                           /\ WF_vars(\E v \in Versions : Fetch(u, v))
    /\ WF_vars(\E ok \in BOOLEAN : Heartbeat(ok)) /\ WF_vars(ProbeEnds)
    /\ WF_vars(RollbackStep)

FairSpec == Spec /\ Fairness

-----------------------------------------------------------------------------
(* Properties *)

File == Versions \cup {None}

\* The type invariant.
TypeOK ==
    /\ {exe, bak, incoming} \subseteq File /\ new \in [Updaters -> File]
    /\ st \in [status : {"never", "success", "failed", "rolled-back"}, armed : BOOLEAN,
               fails : 0 .. Threshold - 1, prev : BOOLEAN]
    /\ pending \in BOOLEAN /\ proc \in File /\ stopped \in BOOLEAN
    /\ task \in [Updaters -> {"idle", "fetch", "pending", "schedule", "backup", "stage",
                              "swap", "restart", "arm", "over"}]
    /\ bat \in [Updaters -> {"none", "clean", "stage", "aside", "retry", "movein",
                             "restart", "start", "done"}]
    /\ probe \in {"off", "watch", "validate", "quarantine", "promote", "record", "restart"}
    /\ errors \in 0 .. DiskErrors /\ updates \in 0 .. MaxUpdates
    /\ crashes \in 0 .. MaxCrashes /\ streak \in Nat /\ proven \subseteq Versions
    /\ platform \in Platforms /\ {overlap, interrupted} \subseteq BOOLEAN

\* A rollback is between its two renames, was cut off there by a crash, or could not put
\* the .bak in its place.
RollbackBroken ==
    probe = "promote" \/ interrupted \/ (st.status = "failed" /\ (st.prev \/ overlap))

\* "exe_path is NEVER absent at any instant" (replace_binary_linux), through crashes
\* and failed file operations; only a rollback sets the live binary aside.
ExeNeverAbsent == exe = None /\ ~Windows => RollbackBroken

\* Whatever fails or crashes, in the script or in a rollback: a live binary is there or
\* the .bak to restore it from, and on Linux the live binary is missing only within a
\* rollback.  It takes updates that overlap to lose both or, on Windows, a tray that
\* starts within a rollback and removes the .bak that has just been checked.
Recoverable ==
    /\ exe = None => bak # None \/ overlap \/ (Windows /\ RollbackBroken)
    /\ ExeNeverAbsent

\* A rollback needs Threshold failed heartbeats in a row since the update, counted
\* across restarts: one success in the observation window keeps the binary.
RollbackNeedsStreak ==
    probe = "watch" /\ probe' = "validate" => streak' >= Threshold

\* What a rollback brings back has had a heartbeat, if updates do not overlap: the
\* .bak is the binary that was running, not the one being replaced.
RollbackToProven ==
    probe = "promote" /\ probe' = "record" => exe' \in proven \/ overlap

\* A rollback happens for a reason and to something that works.
SoundRollback == [][RollbackNeedsStreak /\ RollbackToProven]_vars

\* A bad version that runs with the watchdog armed does not stay installed, unless a
\* crash cuts off its rollback, another update disturbs it, a file operation fails or,
\* on Windows, there is no .bak to go back to, as the start of the bad version or of the
\* tray has removed it: then the update ends recorded as failed, the bad binary in place.
BadIsRolledBack ==
    (proc \in Bad /\ st.armed) ~>
        \/ exe \notin Bad \/ interrupted \/ overlap
        \/ st.status = "failed" /\ (Windows \/ errors < DiskErrors)

\* handle_self_update arms the watchdog "so post-restart heartbeat failures can roll back
\* to the .bak we just produced" (selfupdate.rs:70).  On Windows they cannot.
FailuresRollBack == (proc \in Bad /\ st.armed) ~> exe \notin Bad
=============================================================================
