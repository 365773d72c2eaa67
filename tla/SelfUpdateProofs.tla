-------------------------- MODULE SelfUpdateProofs --------------------------
(***************************************************************************)
(* Theorems about the self-update and its watchdog, for every set of       *)
(* versions and updaters, every threshold and any number of updates,       *)
(* crashes and failing file operations.                                    *)
(***************************************************************************)
EXTENDS SelfUpdate, TLAPS

(***************************************************************************)
(* The inductive invariant, in three parts: which steps a platform has,    *)
(* when the live binary may be missing on Linux, and, if updates do not    *)
(* overlap, how far the one update has come and what the files then are.   *)
(***************************************************************************)

\* On Windows the script swaps, elsewhere the process; with systemd the process
\* is gone before it can arm the watchdog; and threads end with the process.
PlatformInv ==
  /\ ~Windows => \A u \in Updaters : bat[u] = "none" /\ task[u] # "schedule"
  /\ Windows => \A u \in Updaters : task[u] \notin {"backup", "stage", "swap", "restart"}
  /\ Systemd => ~st.armed /\ probe = "off" /\ \A u \in Updaters : task[u] # "arm"
  /\ proc = None => probe = "off" /\ \A u \in Updaters : task[u] = "idle"

\* Only Quarantine removes the live binary outside Windows, and no probe starts
\* while it is missing.
LinuxInv == ExeNeverAbsent /\ (exe = None /\ ~Windows => probe \in {"promote", "off"})

Acting(u) == ~Free(u) \/ bat[u] # "none"

\* One update at a time, and none while the watchdog rolls back.
AloneInv ==
  /\ \A u, w \in Updaters : Acting(u) /\ Acting(w) => u = w
  /\ \A u \in Updaters :
       /\ ~Free(u) => probe = "off"
       /\ task[u] \notin {"idle", "over", "arm"} => bat[u] = "none"
       /\ Rolling => bat[u] = "none"

\* On Windows a start of the tray within a rollback can remove the .bak; then the
\* rollback fails or is cut off, and nothing is left to act on the files.
Lost ==
  /\ Windows /\ probe \in {"promote", "off"} /\ \A u \in Updaters : ~Acting(u)
  /\ probe = "promote" \/ interrupted \/ (st.status = "failed" /\ st.prev)

\* Until the swap the live binary is the proven one the update was requested
\* under; the .bak is never anything else.
FilesInv ==
  /\ \A u \in Updaters :
       /\ task[u] \in {"fetch", "pending", "schedule", "backup"} => exe \in proven
       /\ bat[u] \in {"clean", "stage", "aside", "retry"} => exe \in proven
       /\ ~Windows /\ ~Free(u) => exe # None
       /\ bat[u] \notin {"none", "movein"} => exe # None
  /\ bak # None => bak \in proven
  /\ exe = None => bak # None \/ Lost
  /\ probe \in {"quarantine", "promote"} => st.prev /\ (bak # None \/ Windows)

UpdateInv == TypeOK /\ PlatformInv /\ LinuxInv /\ (~overlap => AloneInv /\ FilesInv)

StreakInv == streak >= st.fails

LEMMA Numbers ==
  /\ DiskErrors \in Nat /\ MaxUpdates \in Nat /\ MaxCrashes \in Nat
  /\ Threshold \in Nat /\ Threshold >= 1
  /\ First \in Versions /\ 0 \notin Versions
  BY UpdateAssumption DEF None

Statuses ==
  [status : {"never", "success", "failed", "rolled-back"}, armed : BOOLEAN,
   fails : 0 .. Threshold - 1, prev : BOOLEAN]

LEMMA RecordType ==
  ASSUME NEW s \in {"never", "success", "failed", "rolled-back"}, NEW a \in BOOLEAN,
         NEW p \in BOOLEAN
  PROVE  Record(s, a, 0, p) \in Statuses
  BY Numbers DEF Record, Statuses

LEMMA StatusType ==
  ASSUME TypeOK
  PROVE  /\ st \in Statuses /\ st.status \in {"never", "success", "failed", "rolled-back"}
         /\ st.armed \in BOOLEAN /\ st.prev \in BOOLEAN /\ st.fails \in 0 .. Threshold - 1
  BY DEF TypeOK, Statuses

LEMMA FailureRecord == Record("failed", FALSE, 0, FALSE) \in Statuses
  BY Numbers DEF Record, Statuses

LEMMA HeartbeatStatus ==
  ASSUME TypeOK, NEW ok \in BOOLEAN, Heartbeat(ok)
  PROVE  st' \in Statuses
  <1>1. Record(st.status, FALSE, 0, st.prev) \in Statuses
    BY StatusType, RecordType
  <1>2. st.fails + 1 < Threshold => [st EXCEPT !.fails = @ + 1] \in Statuses
    BY StatusType, Numbers DEF Statuses
  <1>3. st.fails + 1 >= Threshold \/ st.fails + 1 < Threshold
    BY StatusType, Numbers
  <1>4. record_heartbeat_outcome(ok)
    BY DEF Heartbeat
  <1> QED
    BY <1>1, <1>2, <1>3, <1>4 DEF record_heartbeat_outcome

LEMMA UpdateInit == Init => UpdateInv /\ StreakInv
  <1> SUFFICES ASSUME Init PROVE UpdateInv /\ StreakInv
    OBVIOUS
  <1>1. TypeOK
    <2>1. st \in Statuses
      BY RecordType DEF Init
    <2>2. /\ {exe, bak, incoming} \subseteq File /\ new \in [Updaters -> File]
          /\ proc \in File /\ proven \subseteq Versions
      BY Numbers DEF Init, File
    <2>3. /\ errors \in 0 .. DiskErrors /\ updates \in 0 .. MaxUpdates
          /\ crashes \in 0 .. MaxCrashes /\ streak \in Nat
      BY Numbers DEF Init
    <2>4. platform \in Platforms /\ {overlap, interrupted} \subseteq BOOLEAN
      BY UpdateAssumption DEF Init
    <2> QED
      BY <2>1, <2>2, <2>3, <2>4 DEF Init, TypeOK, Statuses
  <1>2. PlatformInv /\ LinuxInv
    BY UpdateAssumption
    DEF Init, PlatformInv, LinuxInv, ExeNeverAbsent, RollbackBroken, Record, None, Systemd
  <1>3. AloneInv /\ FilesInv
    BY UpdateAssumption DEF Init, AloneInv, FilesInv, Lost, Acting, Free, None
  <1>4. StreakInv
    BY DEF Init, StreakInv, Record
  <1> QED
    BY <1>1, <1>2, <1>3, <1>4 DEF UpdateInv

-----------------------------------------------------------------------------
(* Every step keeps each part. *)

LEMMA TypeStep == TypeOK /\ [Next]_vars => TypeOK'
  <1> SUFFICES ASSUME TypeOK, [Next]_vars PROVE TypeOK'
    OBVIOUS
  <1> USE Numbers
      DEF TypeOK, File, None, frame, files, status, process, bounds, history, BatUnchanged
  <1>1. CASE Boot
    <2>1. st' \in Statuses
      BY <1>1, RecordType DEF Boot, reconcile_on_startup, Statuses
    <2>2. {exe', bak', incoming'} \subseteq File /\ new' \in [Updaters -> File] /\ proc' \in File
      BY <1>1 DEF Boot, CleanResiduals
    <2>3. /\ errors' \in 0 .. DiskErrors /\ updates' \in 0 .. MaxUpdates
          /\ crashes' \in 0 .. MaxCrashes /\ streak' \in Nat /\ proven' \subseteq Versions
      BY <1>1 DEF Boot, reconcile_on_startup, Record
    <2>4. /\ pending' \in BOOLEAN /\ stopped' \in BOOLEAN /\ platform' \in Platforms
          /\ {overlap', interrupted'} \subseteq BOOLEAN
      BY <1>1 DEF Boot, reconcile_on_startup, Record
    <2> QED
      BY <1>1, <2>1, <2>2, <2>3, <2>4 DEF Boot, reconcile_on_startup, Record, Statuses
  <1>2. CASE ProcessCrash
    BY <1>2 DEF ProcessCrash, Die
  <1>3. CASE HostCrash
    <2>1. st' \in Statuses
      BY <1>3, RecordType DEF HostCrash, Die, Statuses
    <2>2. {exe', bak', incoming'} \subseteq File /\ new' \in [Updaters -> File] /\ proc' \in File
      BY <1>3 DEF HostCrash, Die
    <2>3. /\ errors' \in 0 .. DiskErrors /\ updates' \in 0 .. MaxUpdates
          /\ crashes' \in 0 .. MaxCrashes /\ streak' \in Nat /\ proven' \subseteq Versions
      BY <1>3 DEF HostCrash, Die
    <2>4. /\ pending' \in BOOLEAN /\ stopped' \in BOOLEAN /\ platform' \in Platforms
          /\ {overlap', interrupted'} \subseteq BOOLEAN
      BY <1>3 DEF HostCrash, Die
    <2> QED
      BY <1>3, <2>1, <2>2, <2>3, <2>4 DEF HostCrash, Die, Statuses
  <1>4. CASE ManualRestart
    BY <1>4 DEF ManualRestart, Die
  <1>5. ASSUME NEW u \in Updaters, NEW v \in Versions, Request(u, v) PROVE TypeOK'
    BY <1>5 DEF Request, Goto, Quiet
  <1>6. ASSUME NEW u \in Updaters, NEW v \in Versions, Fetch(u, v) PROVE TypeOK'
    BY <1>6 DEF Fetch, Goto
  <1>7. ASSUME NEW u \in Updaters, WritePending(u) PROVE TypeOK'
    BY <1>7 DEF WritePending, Goto
  <1>8. ASSUME NEW u \in Updaters, SwapFails(u) PROVE TypeOK'
    <2>1. st' \in Statuses
      BY <1>8, RecordType DEF SwapFails, MayFail, record_failure, Goto, Statuses
    <2>2. {exe', bak', incoming'} \subseteq File /\ new' \in [Updaters -> File] /\ proc' \in File
      BY <1>8 DEF SwapFails, MayFail, record_failure, Record, Goto
    <2>3. /\ errors' \in 0 .. DiskErrors /\ updates' \in 0 .. MaxUpdates
          /\ crashes' \in 0 .. MaxCrashes /\ streak' \in Nat /\ proven' \subseteq Versions
      BY <1>8 DEF SwapFails, MayFail, record_failure, Record, Goto
    <2>4. /\ pending' \in BOOLEAN /\ stopped' \in BOOLEAN /\ platform' \in Platforms
          /\ {overlap', interrupted'} \subseteq BOOLEAN
      BY <1>8 DEF SwapFails, MayFail, record_failure, Record, Goto
    <2> QED
      BY <1>8, <2>1, <2>2, <2>3, <2>4 DEF SwapFails, MayFail, record_failure, Record, Goto, Statuses
  <1>9. ASSUME NEW u \in Updaters, Backup(u) PROVE TypeOK'
    BY <1>9 DEF Backup, Goto
  <1>10. ASSUME NEW u \in Updaters, Stage(u) PROVE TypeOK'
    BY <1>10 DEF Stage, Goto
  <1>11. ASSUME NEW u \in Updaters, Swap(u) PROVE TypeOK'
    BY <1>11 DEF Swap, Goto
  <1>12. ASSUME NEW u \in Updaters, Restart(u) PROVE TypeOK'
    BY <1>12 DEF Restart, Die, Goto
  <1>13. ASSUME NEW u \in Updaters, Schedule(u) PROVE TypeOK'
    <2>1. st' \in Statuses
      <3>1. st' \in {st, Record("failed", FALSE, 0, FALSE)}
        BY <1>13 DEF Schedule, BatGoto, Goto, MayFail, record_failure
      <3> QED
        BY <3>1, StatusType, FailureRecord
    <2>2. {exe', bak', incoming'} \subseteq File /\ new' \in [Updaters -> File] /\ proc' \in File
      BY <1>13 DEF Schedule, BatGoto, Goto, MayFail, record_failure, Record
    <2>3. /\ errors' \in 0 .. DiskErrors /\ updates' \in 0 .. MaxUpdates
          /\ crashes' \in 0 .. MaxCrashes /\ streak' \in Nat /\ proven' \subseteq Versions
      BY <1>13 DEF Schedule, BatGoto, Goto, MayFail, record_failure, Record
    <2>4. /\ pending' \in BOOLEAN /\ stopped' \in BOOLEAN /\ platform' \in Platforms
          /\ {overlap', interrupted'} \subseteq BOOLEAN
      BY <1>13 DEF Schedule, BatGoto, Goto, MayFail, record_failure, Record
    <2> QED
      BY <1>13, <2>1, <2>2, <2>3, <2>4 DEF Schedule, BatGoto, Goto, MayFail, record_failure, Record, Statuses
  <1>14. ASSUME NEW u \in Updaters, Arm(u) PROVE TypeOK'
    BY <1>14 DEF Arm, arm_watchdog, Record, Goto
  <1>15. ASSUME NEW u \in Updaters, BatClean(u) PROVE TypeOK'
    BY <1>15 DEF BatClean, BatGoto
  <1>16. ASSUME NEW u \in Updaters, BatStage(u) PROVE TypeOK'
    BY <1>16 DEF BatStage, BatGoto, MayFail
  <1>17. ASSUME NEW u \in Updaters, BatAside(u) PROVE TypeOK'
    <2>1. st' \in Statuses
      BY <1>17, RecordType DEF BatAside, BatGoto, MayFail, Die, Statuses
    <2>2. {exe', bak', incoming'} \subseteq File /\ new' \in [Updaters -> File] /\ proc' \in File
      BY <1>17 DEF BatAside, BatGoto, MayFail, Die
    <2>3. /\ errors' \in 0 .. DiskErrors /\ updates' \in 0 .. MaxUpdates
          /\ crashes' \in 0 .. MaxCrashes /\ streak' \in Nat /\ proven' \subseteq Versions
      BY <1>17 DEF BatAside, BatGoto, MayFail, Die
    <2>4. /\ pending' \in BOOLEAN /\ stopped' \in BOOLEAN /\ platform' \in Platforms
          /\ {overlap', interrupted'} \subseteq BOOLEAN
      BY <1>17 DEF BatAside, BatGoto, MayFail, Die
    <2> QED
      BY <1>17, <2>1, <2>2, <2>3, <2>4 DEF BatAside, BatGoto, MayFail, Die, Statuses
  <1>18. ASSUME NEW u \in Updaters, BatGivesUp(u) PROVE TypeOK'
    <2>1. st' \in Statuses
      BY <1>18, RecordType DEF BatGivesUp, BatGoto, MayFail, Statuses
    <2>2. {exe', bak', incoming'} \subseteq File /\ new' \in [Updaters -> File] /\ proc' \in File
      BY <1>18 DEF BatGivesUp, BatGoto, MayFail
    <2>3. /\ errors' \in 0 .. DiskErrors /\ updates' \in 0 .. MaxUpdates
          /\ crashes' \in 0 .. MaxCrashes /\ streak' \in Nat /\ proven' \subseteq Versions
      BY <1>18 DEF BatGivesUp, BatGoto, MayFail
    <2>4. /\ pending' \in BOOLEAN /\ stopped' \in BOOLEAN /\ platform' \in Platforms
          /\ {overlap', interrupted'} \subseteq BOOLEAN
      BY <1>18 DEF BatGivesUp, BatGoto, MayFail
    <2> QED
      BY <1>18, <2>1, <2>2, <2>3, <2>4 DEF BatGivesUp, BatGoto, MayFail, Statuses
  <1>19. ASSUME NEW u \in Updaters, BatMoveIn(u) PROVE TypeOK'
    <2>1. st' \in Statuses
      BY <1>19, RecordType DEF BatMoveIn, BatGoto, MayFail, Statuses
    <2>2. {exe', bak', incoming'} \subseteq File /\ new' \in [Updaters -> File] /\ proc' \in File
      BY <1>19 DEF BatMoveIn, BatGoto, MayFail
    <2>3. /\ errors' \in 0 .. DiskErrors /\ updates' \in 0 .. MaxUpdates
          /\ crashes' \in 0 .. MaxCrashes /\ streak' \in Nat /\ proven' \subseteq Versions
      BY <1>19 DEF BatMoveIn, BatGoto, MayFail
    <2>4. /\ pending' \in BOOLEAN /\ stopped' \in BOOLEAN /\ platform' \in Platforms
          /\ {overlap', interrupted'} \subseteq BOOLEAN
      BY <1>19 DEF BatMoveIn, BatGoto, MayFail
    <2> QED
      BY <1>19, <2>1, <2>2, <2>3, <2>4 DEF BatMoveIn, BatGoto, MayFail, Statuses
  <1>20. ASSUME NEW u \in Updaters, BatStop(u) PROVE TypeOK'
    BY <1>20 DEF BatStop, BatGoto, Die
  <1>21. ASSUME NEW u \in Updaters, BatStart(u) PROVE TypeOK'
    BY <1>21 DEF BatStart, BatGoto
  <1>22. ASSUME NEW u \in Updaters, BatEnds(u) PROVE TypeOK'
    BY <1>22 DEF BatEnds, BatGoto
  <1>23. ASSUME NEW ok \in BOOLEAN, Heartbeat(ok) PROVE TypeOK'
    <2>1. st' \in Statuses
      BY <1>23, HeartbeatStatus
    <2>2. {exe', bak', incoming'} \subseteq File /\ new' \in [Updaters -> File] /\ proc' \in File
      BY <1>23 DEF Heartbeat, record_heartbeat_outcome, Record, BatIsShort
    <2>3. /\ errors' \in 0 .. DiskErrors /\ updates' \in 0 .. MaxUpdates
          /\ crashes' \in 0 .. MaxCrashes /\ streak' \in Nat /\ proven' \subseteq Versions
      BY <1>23 DEF Heartbeat, record_heartbeat_outcome, Record, BatIsShort
    <2>4. /\ pending' \in BOOLEAN /\ stopped' \in BOOLEAN /\ platform' \in Platforms
          /\ {overlap', interrupted'} \subseteq BOOLEAN
      BY <1>23 DEF Heartbeat, record_heartbeat_outcome, Record, BatIsShort
    <2> QED
      BY <1>23, <2>1, <2>2, <2>3, <2>4 DEF Heartbeat, record_heartbeat_outcome, Record, BatIsShort, Statuses
  <1>24. CASE ProbeEnds
    BY <1>24 DEF ProbeEnds
  <1>25. CASE ValidateBak
    <2>1. st' \in Statuses
      <3>1. st' \in {st, Record("failed", FALSE, 0, st.prev)}
        BY <1>25 DEF ValidateBak
      <3> QED
        BY <3>1, StatusType, RecordType
    <2>2. {exe', bak', incoming'} \subseteq File /\ new' \in [Updaters -> File] /\ proc' \in File
      BY <1>25 DEF ValidateBak, Record
    <2>3. /\ errors' \in 0 .. DiskErrors /\ updates' \in 0 .. MaxUpdates
          /\ crashes' \in 0 .. MaxCrashes /\ streak' \in Nat /\ proven' \subseteq Versions
      BY <1>25 DEF ValidateBak, Record
    <2>4. /\ pending' \in BOOLEAN /\ stopped' \in BOOLEAN /\ platform' \in Platforms
          /\ {overlap', interrupted'} \subseteq BOOLEAN
      BY <1>25 DEF ValidateBak, Record
    <2> QED
      BY <1>25, <2>1, <2>2, <2>3, <2>4 DEF ValidateBak, Record, Statuses
  <1>26. CASE Quarantine
    BY <1>26 DEF Quarantine, MayFail
  <1>27. CASE Promote
    <2>1. st' \in Statuses
      <3>1. st' \in {st, Record("failed", FALSE, 0, st.prev)}
        BY <1>27 DEF Promote, MayFail
      <3> QED
        BY <3>1, StatusType, RecordType
    <2>2. {exe', bak', incoming'} \subseteq File /\ new' \in [Updaters -> File] /\ proc' \in File
      BY <1>27 DEF Promote, MayFail, Record
    <2>3. /\ errors' \in 0 .. DiskErrors /\ updates' \in 0 .. MaxUpdates
          /\ crashes' \in 0 .. MaxCrashes /\ streak' \in Nat /\ proven' \subseteq Versions
      BY <1>27 DEF Promote, MayFail, Record
    <2>4. /\ pending' \in BOOLEAN /\ stopped' \in BOOLEAN /\ platform' \in Platforms
          /\ {overlap', interrupted'} \subseteq BOOLEAN
      BY <1>27 DEF Promote, MayFail, Record
    <2> QED
      BY <1>27, <2>1, <2>2, <2>3, <2>4 DEF Promote, MayFail, Record, Statuses
  <1>28. CASE RecordRollback
    <2>1. st' \in Statuses
      BY <1>28, RecordType DEF RecordRollback, Statuses
    <2>2. {exe', bak', incoming'} \subseteq File /\ new' \in [Updaters -> File] /\ proc' \in File
      BY <1>28 DEF RecordRollback, Record
    <2>3. /\ errors' \in 0 .. DiskErrors /\ updates' \in 0 .. MaxUpdates
          /\ crashes' \in 0 .. MaxCrashes /\ streak' \in Nat /\ proven' \subseteq Versions
      BY <1>28 DEF RecordRollback, Record
    <2>4. /\ pending' \in BOOLEAN /\ stopped' \in BOOLEAN /\ platform' \in Platforms
          /\ {overlap', interrupted'} \subseteq BOOLEAN
      BY <1>28 DEF RecordRollback, Record
    <2> QED
      BY <1>28, <2>1, <2>2, <2>3, <2>4 DEF RecordRollback, Record, Statuses
  <1>29. CASE RollbackRestart
    BY <1>29 DEF RollbackRestart, Die
  <1>30. CASE UNCHANGED vars
    BY <1>30 DEF vars
  <1>31. CASE TrayStarts
    <2>1. st' \in Statuses
      BY <1>31, RecordType DEF TrayStarts, reconcile_on_startup, Statuses
    <2>2. {exe', bak', incoming'} \subseteq File /\ new' \in [Updaters -> File] /\ proc' \in File
      BY <1>31 DEF TrayStarts, CleanResiduals
    <2>3. /\ errors' \in 0 .. DiskErrors /\ updates' \in 0 .. MaxUpdates
          /\ crashes' \in 0 .. MaxCrashes /\ streak' \in Nat /\ proven' \subseteq Versions
      BY <1>31 DEF TrayStarts
    <2>4. /\ pending' \in BOOLEAN /\ stopped' \in BOOLEAN /\ platform' \in Platforms
          /\ {overlap', interrupted'} \subseteq BOOLEAN
      BY <1>31 DEF TrayStarts, reconcile_on_startup
    <2> QED
      BY <1>31, <2>1, <2>2, <2>3, <2>4 DEF TrayStarts, Statuses
  <1> QED
    BY <1>1, <1>2, <1>3, <1>4, <1>5, <1>6, <1>7, <1>8, <1>9, <1>10, <1>11,
       <1>12, <1>13, <1>14, <1>15, <1>16, <1>17, <1>18, <1>19, <1>20, <1>21,
       <1>22, <1>23, <1>24, <1>25, <1>26, <1>27, <1>28, <1>29, <1>30, <1>31
    DEF Next, UpdateStep, BatStep, RollbackStep

LEMMA PlatformStep == TypeOK /\ PlatformInv /\ [Next]_vars => PlatformInv'
  <1> SUFFICES ASSUME TypeOK, PlatformInv, [Next]_vars PROVE PlatformInv'
    OBVIOUS
  <1> USE UpdateAssumption
      DEF TypeOK, PlatformInv, Windows, Systemd, Free, frame, files, status, process, bounds, history, BatUnchanged
  <1>1. CASE Boot
    BY <1>1 DEF Boot, CleanResiduals, reconcile_on_startup, Record
  <1>2. CASE ProcessCrash
    BY <1>2 DEF ProcessCrash, Die
  <1>3. CASE HostCrash
    BY <1>3 DEF HostCrash, Die
  <1>4. CASE ManualRestart
    BY <1>4 DEF ManualRestart, Die
  <1>5. ASSUME NEW u \in Updaters, NEW v \in Versions, Request(u, v) PROVE PlatformInv'
    BY <1>5 DEF Request, Goto, Quiet
  <1>6. ASSUME NEW u \in Updaters, NEW v \in Versions, Fetch(u, v) PROVE PlatformInv'
    BY <1>6 DEF Fetch, Goto
  <1>7. ASSUME NEW u \in Updaters, WritePending(u) PROVE PlatformInv'
    BY <1>7 DEF WritePending, Goto
  <1>8. ASSUME NEW u \in Updaters, SwapFails(u) PROVE PlatformInv'
    BY <1>8 DEF SwapFails, MayFail, record_failure, Record, Goto
  <1>9. ASSUME NEW u \in Updaters, Backup(u) PROVE PlatformInv'
    BY <1>9 DEF Backup, Goto
  <1>10. ASSUME NEW u \in Updaters, Stage(u) PROVE PlatformInv'
    BY <1>10 DEF Stage, Goto
  <1>11. ASSUME NEW u \in Updaters, Swap(u) PROVE PlatformInv'
    BY <1>11 DEF Swap, Goto
  <1>12. ASSUME NEW u \in Updaters, Restart(u) PROVE PlatformInv'
    BY <1>12 DEF Restart, Die, Goto
  <1>13. ASSUME NEW u \in Updaters, Schedule(u) PROVE PlatformInv'
    BY <1>13 DEF Schedule, BatGoto, Goto, MayFail, record_failure, Record
  <1>14. ASSUME NEW u \in Updaters, Arm(u) PROVE PlatformInv'
    BY <1>14 DEF Arm, arm_watchdog, Record, Goto
  <1>15. ASSUME NEW u \in Updaters, BatClean(u) PROVE PlatformInv'
    BY <1>15 DEF BatClean, BatGoto
  <1>16. ASSUME NEW u \in Updaters, BatStage(u) PROVE PlatformInv'
    BY <1>16 DEF BatStage, BatGoto, MayFail
  <1>17. ASSUME NEW u \in Updaters, BatAside(u) PROVE PlatformInv'
    BY <1>17 DEF BatAside, BatGoto, MayFail, Die
  <1>18. ASSUME NEW u \in Updaters, BatGivesUp(u) PROVE PlatformInv'
    BY <1>18 DEF BatGivesUp, BatGoto, MayFail
  <1>19. ASSUME NEW u \in Updaters, BatMoveIn(u) PROVE PlatformInv'
    BY <1>19 DEF BatMoveIn, BatGoto, MayFail
  <1>20. ASSUME NEW u \in Updaters, BatStop(u) PROVE PlatformInv'
    BY <1>20 DEF BatStop, BatGoto, Die
  <1>21. ASSUME NEW u \in Updaters, BatStart(u) PROVE PlatformInv'
    BY <1>21 DEF BatStart, BatGoto
  <1>22. ASSUME NEW u \in Updaters, BatEnds(u) PROVE PlatformInv'
    BY <1>22 DEF BatEnds, BatGoto
  <1>23. ASSUME NEW ok \in BOOLEAN, Heartbeat(ok) PROVE PlatformInv'
    BY <1>23 DEF Heartbeat, record_heartbeat_outcome, Record, BatIsShort
  <1>24. CASE ProbeEnds
    BY <1>24 DEF ProbeEnds
  <1>25. CASE ValidateBak
    BY <1>25 DEF ValidateBak, Record
  <1>26. CASE Quarantine
    BY <1>26 DEF Quarantine, MayFail
  <1>27. CASE Promote
    BY <1>27 DEF Promote, MayFail, Record
  <1>28. CASE RecordRollback
    BY <1>28 DEF RecordRollback, Record
  <1>29. CASE RollbackRestart
    BY <1>29 DEF RollbackRestart, Die
  <1>30. CASE UNCHANGED vars
    BY <1>30 DEF vars
  <1>31. CASE TrayStarts
    BY <1>31 DEF TrayStarts, CleanResiduals, reconcile_on_startup, Record
  <1> QED
    BY <1>1, <1>2, <1>3, <1>4, <1>5, <1>6, <1>7, <1>8, <1>9, <1>10, <1>11,
       <1>12, <1>13, <1>14, <1>15, <1>16, <1>17, <1>18, <1>19, <1>20, <1>21,
       <1>22, <1>23, <1>24, <1>25, <1>26, <1>27, <1>28, <1>29, <1>30, <1>31
    DEF Next, UpdateStep, BatStep, RollbackStep

LEMMA LinuxStep ==
  TypeOK /\ PlatformInv /\ LinuxInv /\ (~overlap => AloneInv /\ FilesInv) /\ [Next]_vars
    => LinuxInv'
  <1> SUFFICES ASSUME TypeOK, PlatformInv, LinuxInv, ~overlap => AloneInv /\ FilesInv,
                      [Next]_vars
               PROVE  LinuxInv'
    OBVIOUS
  <1> USE UpdateAssumption
      DEF TypeOK, PlatformInv, LinuxInv, ExeNeverAbsent, RollbackBroken, AloneInv, FilesInv, Acting, Free,
          Windows, Systemd, Rolling, frame, files, status, process, bounds, history, BatUnchanged
  <1>1. CASE Boot
    BY <1>1 DEF Boot, CleanResiduals, reconcile_on_startup, Record
  <1>2. CASE ProcessCrash
    BY <1>2 DEF ProcessCrash, Die
  <1>3. CASE HostCrash
    BY <1>3 DEF HostCrash, Die
  <1>4. CASE ManualRestart
    BY <1>4 DEF ManualRestart, Die
  <1>5. ASSUME NEW u \in Updaters, NEW v \in Versions, Request(u, v) PROVE LinuxInv'
    BY <1>5 DEF Request, Goto, Quiet
  <1>6. ASSUME NEW u \in Updaters, NEW v \in Versions, Fetch(u, v) PROVE LinuxInv'
    BY <1>6 DEF Fetch, Goto
  <1>7. ASSUME NEW u \in Updaters, WritePending(u) PROVE LinuxInv'
    BY <1>7 DEF WritePending, Goto
  <1>8. ASSUME NEW u \in Updaters, SwapFails(u) PROVE LinuxInv'
    BY <1>8 DEF SwapFails, MayFail, record_failure, Record, Goto
  <1>9. ASSUME NEW u \in Updaters, Backup(u) PROVE LinuxInv'
    BY <1>9 DEF Backup, Goto
  <1>10. ASSUME NEW u \in Updaters, Stage(u) PROVE LinuxInv'
    BY <1>10 DEF Stage, Goto
  <1>11. ASSUME NEW u \in Updaters, Swap(u) PROVE LinuxInv'
    BY <1>11 DEF Swap, Goto
  <1>12. ASSUME NEW u \in Updaters, Restart(u) PROVE LinuxInv'
    BY <1>12 DEF Restart, Die, Goto
  <1>13. ASSUME NEW u \in Updaters, Schedule(u) PROVE LinuxInv'
    BY <1>13 DEF Schedule, BatGoto, Goto, MayFail, record_failure, Record
  <1>14. ASSUME NEW u \in Updaters, Arm(u) PROVE LinuxInv'
    BY <1>14 DEF Arm, arm_watchdog, Record, Goto
  <1>15. ASSUME NEW u \in Updaters, BatClean(u) PROVE LinuxInv'
    BY <1>15 DEF BatClean, BatGoto
  <1>16. ASSUME NEW u \in Updaters, BatStage(u) PROVE LinuxInv'
    BY <1>16 DEF BatStage, BatGoto, MayFail
  <1>17. ASSUME NEW u \in Updaters, BatAside(u) PROVE LinuxInv'
    BY <1>17 DEF BatAside, BatGoto, MayFail, Die
  <1>18. ASSUME NEW u \in Updaters, BatGivesUp(u) PROVE LinuxInv'
    BY <1>18 DEF BatGivesUp, BatGoto, MayFail
  <1>19. ASSUME NEW u \in Updaters, BatMoveIn(u) PROVE LinuxInv'
    BY <1>19 DEF BatMoveIn, BatGoto, MayFail
  <1>20. ASSUME NEW u \in Updaters, BatStop(u) PROVE LinuxInv'
    BY <1>20 DEF BatStop, BatGoto, Die
  <1>21. ASSUME NEW u \in Updaters, BatStart(u) PROVE LinuxInv'
    BY <1>21 DEF BatStart, BatGoto
  <1>22. ASSUME NEW u \in Updaters, BatEnds(u) PROVE LinuxInv'
    BY <1>22 DEF BatEnds, BatGoto
  <1>23. ASSUME NEW ok \in BOOLEAN, Heartbeat(ok) PROVE LinuxInv'
    BY <1>23 DEF Heartbeat, record_heartbeat_outcome, Record, BatIsShort
  <1>24. CASE ProbeEnds
    BY <1>24 DEF ProbeEnds
  <1>25. CASE ValidateBak
    BY <1>25 DEF ValidateBak, Record
  <1>26. CASE Quarantine
    BY <1>26 DEF Quarantine, MayFail
  <1>27. CASE Promote
    BY <1>27 DEF Promote, MayFail, Record
  <1>28. CASE RecordRollback
    BY <1>28 DEF RecordRollback, Record
  <1>29. CASE RollbackRestart
    BY <1>29 DEF RollbackRestart, Die
  <1>30. CASE UNCHANGED vars
    BY <1>30 DEF vars
  <1>31. CASE TrayStarts
    BY <1>31 DEF TrayStarts, CleanResiduals, reconcile_on_startup, Record
  <1> QED
    BY <1>1, <1>2, <1>3, <1>4, <1>5, <1>6, <1>7, <1>8, <1>9, <1>10, <1>11,
       <1>12, <1>13, <1>14, <1>15, <1>16, <1>17, <1>18, <1>19, <1>20, <1>21,
       <1>22, <1>23, <1>24, <1>25, <1>26, <1>27, <1>28, <1>29, <1>30, <1>31
    DEF Next, UpdateStep, BatStep, RollbackStep

LEMMA AloneStep == TypeOK /\ PlatformInv /\ AloneInv /\ ~overlap /\ [Next]_vars => AloneInv'
  <1> SUFFICES ASSUME TypeOK, PlatformInv, AloneInv, ~overlap, [Next]_vars PROVE AloneInv'
    OBVIOUS
  <1> USE UpdateAssumption
      DEF TypeOK, PlatformInv, AloneInv, Acting, Free,
          Windows, Systemd, Rolling, frame, files, status, process, bounds, history, BatUnchanged
  <1>1. CASE Boot
    BY <1>1 DEF Boot, CleanResiduals, reconcile_on_startup, Record
  <1>2. CASE ProcessCrash
    BY <1>2 DEF ProcessCrash, Die
  <1>3. CASE HostCrash
    BY <1>3 DEF HostCrash, Die
  <1>4. CASE ManualRestart
    BY <1>4 DEF ManualRestart, Die
  <1>5. ASSUME NEW u \in Updaters, NEW v \in Versions, Request(u, v) PROVE AloneInv'
    BY <1>5 DEF Request, Goto, Quiet
  <1>6. ASSUME NEW u \in Updaters, NEW v \in Versions, Fetch(u, v) PROVE AloneInv'
    BY <1>6 DEF Fetch, Goto
  <1>7. ASSUME NEW u \in Updaters, WritePending(u) PROVE AloneInv'
    BY <1>7 DEF WritePending, Goto
  <1>8. ASSUME NEW u \in Updaters, SwapFails(u) PROVE AloneInv'
    BY <1>8 DEF SwapFails, MayFail, record_failure, Record, Goto
  <1>9. ASSUME NEW u \in Updaters, Backup(u) PROVE AloneInv'
    BY <1>9 DEF Backup, Goto
  <1>10. ASSUME NEW u \in Updaters, Stage(u) PROVE AloneInv'
    BY <1>10 DEF Stage, Goto
  <1>11. ASSUME NEW u \in Updaters, Swap(u) PROVE AloneInv'
    BY <1>11 DEF Swap, Goto
  <1>12. ASSUME NEW u \in Updaters, Restart(u) PROVE AloneInv'
    BY <1>12 DEF Restart, Die, Goto
  <1>13. ASSUME NEW u \in Updaters, Schedule(u) PROVE AloneInv'
    BY <1>13 DEF Schedule, BatGoto, Goto, MayFail, record_failure, Record
  <1>14. ASSUME NEW u \in Updaters, Arm(u) PROVE AloneInv'
    BY <1>14 DEF Arm, arm_watchdog, Record, Goto
  <1>15. ASSUME NEW u \in Updaters, BatClean(u) PROVE AloneInv'
    BY <1>15 DEF BatClean, BatGoto
  <1>16. ASSUME NEW u \in Updaters, BatStage(u) PROVE AloneInv'
    BY <1>16 DEF BatStage, BatGoto, MayFail
  <1>17. ASSUME NEW u \in Updaters, BatAside(u) PROVE AloneInv'
    BY <1>17 DEF BatAside, BatGoto, MayFail, Die
  <1>18. ASSUME NEW u \in Updaters, BatGivesUp(u) PROVE AloneInv'
    BY <1>18 DEF BatGivesUp, BatGoto, MayFail
  <1>19. ASSUME NEW u \in Updaters, BatMoveIn(u) PROVE AloneInv'
    BY <1>19 DEF BatMoveIn, BatGoto, MayFail
  <1>20. ASSUME NEW u \in Updaters, BatStop(u) PROVE AloneInv'
    BY <1>20 DEF BatStop, BatGoto, Die
  <1>21. ASSUME NEW u \in Updaters, BatStart(u) PROVE AloneInv'
    BY <1>21 DEF BatStart, BatGoto
  <1>22. ASSUME NEW u \in Updaters, BatEnds(u) PROVE AloneInv'
    BY <1>22 DEF BatEnds, BatGoto
  <1>23. ASSUME NEW ok \in BOOLEAN, Heartbeat(ok) PROVE AloneInv'
    BY <1>23 DEF Heartbeat, record_heartbeat_outcome, Record, BatIsShort
  <1>24. CASE ProbeEnds
    BY <1>24 DEF ProbeEnds
  <1>25. CASE ValidateBak
    BY <1>25 DEF ValidateBak, Record
  <1>26. CASE Quarantine
    BY <1>26 DEF Quarantine, MayFail
  <1>27. CASE Promote
    BY <1>27 DEF Promote, MayFail, Record
  <1>28. CASE RecordRollback
    BY <1>28 DEF RecordRollback, Record
  <1>29. CASE RollbackRestart
    BY <1>29 DEF RollbackRestart, Die
  <1>30. CASE UNCHANGED vars
    BY <1>30 DEF vars
  <1>31. CASE TrayStarts
    BY <1>31 DEF TrayStarts, CleanResiduals, reconcile_on_startup, Record
  <1> QED
    BY <1>1, <1>2, <1>3, <1>4, <1>5, <1>6, <1>7, <1>8, <1>9, <1>10, <1>11,
       <1>12, <1>13, <1>14, <1>15, <1>16, <1>17, <1>18, <1>19, <1>20, <1>21,
       <1>22, <1>23, <1>24, <1>25, <1>26, <1>27, <1>28, <1>29, <1>30, <1>31
    DEF Next, UpdateStep, BatStep, RollbackStep

LEMMA FilesStep == TypeOK /\ PlatformInv /\ AloneInv /\ FilesInv /\ ~overlap /\ [Next]_vars => FilesInv'
  <1> SUFFICES ASSUME TypeOK, PlatformInv, AloneInv, FilesInv, ~overlap, [Next]_vars PROVE FilesInv'
    OBVIOUS
  <1> USE UpdateAssumption
      DEF TypeOK, PlatformInv, AloneInv, FilesInv, Lost, Acting, Free, None,
          Windows, Systemd, Rolling, frame, files, status, process, bounds, history, BatUnchanged
  <1>1. CASE Boot
    BY <1>1 DEF Boot, CleanResiduals, reconcile_on_startup, Record
  <1>2. CASE ProcessCrash
    BY <1>2 DEF ProcessCrash, Die
  <1>3. CASE HostCrash
    BY <1>3 DEF HostCrash, Die
  <1>4. CASE ManualRestart
    BY <1>4 DEF ManualRestart, Die
  <1>5. ASSUME NEW u \in Updaters, NEW v \in Versions, Request(u, v) PROVE FilesInv'
    BY <1>5 DEF Request, Goto, Quiet
  <1>6. ASSUME NEW u \in Updaters, NEW v \in Versions, Fetch(u, v) PROVE FilesInv'
    BY <1>6 DEF Fetch, Goto
  <1>7. ASSUME NEW u \in Updaters, WritePending(u) PROVE FilesInv'
    BY <1>7 DEF WritePending, Goto
  <1>8. ASSUME NEW u \in Updaters, SwapFails(u) PROVE FilesInv'
    BY <1>8 DEF SwapFails, MayFail, record_failure, Record, Goto
  <1>9. ASSUME NEW u \in Updaters, Backup(u) PROVE FilesInv'
    BY <1>9 DEF Backup, Goto
  <1>10. ASSUME NEW u \in Updaters, Stage(u) PROVE FilesInv'
    BY <1>10 DEF Stage, Goto
  <1>11. ASSUME NEW u \in Updaters, Swap(u) PROVE FilesInv'
    BY <1>11 DEF Swap, Goto
  <1>12. ASSUME NEW u \in Updaters, Restart(u) PROVE FilesInv'
    BY <1>12 DEF Restart, Die, Goto
  <1>13. ASSUME NEW u \in Updaters, Schedule(u) PROVE FilesInv'
    BY <1>13 DEF Schedule, BatGoto, Goto, MayFail, record_failure, Record
  <1>14. ASSUME NEW u \in Updaters, Arm(u) PROVE FilesInv'
    BY <1>14 DEF Arm, arm_watchdog, Record, Goto
  <1>15. ASSUME NEW u \in Updaters, BatClean(u) PROVE FilesInv'
    BY <1>15 DEF BatClean, BatGoto
  <1>16. ASSUME NEW u \in Updaters, BatStage(u) PROVE FilesInv'
    BY <1>16 DEF BatStage, BatGoto, MayFail
  <1>17. ASSUME NEW u \in Updaters, BatAside(u) PROVE FilesInv'
    BY <1>17 DEF BatAside, BatGoto, MayFail, Die
  <1>18. ASSUME NEW u \in Updaters, BatGivesUp(u) PROVE FilesInv'
    BY <1>18 DEF BatGivesUp, BatGoto, MayFail
  <1>19. ASSUME NEW u \in Updaters, BatMoveIn(u) PROVE FilesInv'
    BY <1>19 DEF BatMoveIn, BatGoto, MayFail
  <1>20. ASSUME NEW u \in Updaters, BatStop(u) PROVE FilesInv'
    BY <1>20 DEF BatStop, BatGoto, Die
  <1>21. ASSUME NEW u \in Updaters, BatStart(u) PROVE FilesInv'
    BY <1>21 DEF BatStart, BatGoto
  <1>22. ASSUME NEW u \in Updaters, BatEnds(u) PROVE FilesInv'
    BY <1>22 DEF BatEnds, BatGoto
  <1>23. ASSUME NEW ok \in BOOLEAN, Heartbeat(ok) PROVE FilesInv'
    BY <1>23 DEF Heartbeat, record_heartbeat_outcome, Record, BatIsShort
  <1>24. CASE ProbeEnds
    BY <1>24 DEF ProbeEnds
  <1>25. CASE ValidateBak
    BY <1>25 DEF ValidateBak, Record
  <1>26. CASE Quarantine
    BY <1>26 DEF Quarantine, MayFail
  <1>27. CASE Promote
    BY <1>27 DEF Promote, MayFail, Record
  <1>28. CASE RecordRollback
    BY <1>28 DEF RecordRollback, Record
  <1>29. CASE RollbackRestart
    BY <1>29 DEF RollbackRestart, Die
  <1>30. CASE UNCHANGED vars
    BY <1>30 DEF vars
  <1>31. CASE TrayStarts
    BY <1>31 DEF TrayStarts, CleanResiduals, reconcile_on_startup, Record
  <1> QED
    BY <1>1, <1>2, <1>3, <1>4, <1>5, <1>6, <1>7, <1>8, <1>9, <1>10, <1>11,
       <1>12, <1>13, <1>14, <1>15, <1>16, <1>17, <1>18, <1>19, <1>20, <1>21,
       <1>22, <1>23, <1>24, <1>25, <1>26, <1>27, <1>28, <1>29, <1>30, <1>31
    DEF Next, UpdateStep, BatStep, RollbackStep

LEMMA StreakStep == TypeOK /\ StreakInv /\ [Next]_vars => StreakInv'
  <1> SUFFICES ASSUME TypeOK, StreakInv, [Next]_vars PROVE StreakInv'
    OBVIOUS
  <1> USE UpdateAssumption
      DEF TypeOK, StreakInv, frame, files, status, process, bounds, history, BatUnchanged
  <1>1. CASE Boot
    BY <1>1 DEF Boot, CleanResiduals, reconcile_on_startup, Record
  <1>2. CASE ProcessCrash
    BY <1>2 DEF ProcessCrash, Die
  <1>3. CASE HostCrash
    BY <1>3 DEF HostCrash, Die
  <1>4. CASE ManualRestart
    BY <1>4 DEF ManualRestart, Die
  <1>5. ASSUME NEW u \in Updaters, NEW v \in Versions, Request(u, v) PROVE StreakInv'
    BY <1>5 DEF Request, Goto, Quiet
  <1>6. ASSUME NEW u \in Updaters, NEW v \in Versions, Fetch(u, v) PROVE StreakInv'
    BY <1>6 DEF Fetch, Goto
  <1>7. ASSUME NEW u \in Updaters, WritePending(u) PROVE StreakInv'
    BY <1>7 DEF WritePending, Goto
  <1>8. ASSUME NEW u \in Updaters, SwapFails(u) PROVE StreakInv'
    BY <1>8 DEF SwapFails, MayFail, record_failure, Record, Goto
  <1>9. ASSUME NEW u \in Updaters, Backup(u) PROVE StreakInv'
    BY <1>9 DEF Backup, Goto
  <1>10. ASSUME NEW u \in Updaters, Stage(u) PROVE StreakInv'
    BY <1>10 DEF Stage, Goto
  <1>11. ASSUME NEW u \in Updaters, Swap(u) PROVE StreakInv'
    BY <1>11 DEF Swap, Goto
  <1>12. ASSUME NEW u \in Updaters, Restart(u) PROVE StreakInv'
    BY <1>12 DEF Restart, Die, Goto
  <1>13. ASSUME NEW u \in Updaters, Schedule(u) PROVE StreakInv'
    BY <1>13 DEF Schedule, BatGoto, Goto, MayFail, record_failure, Record
  <1>14. ASSUME NEW u \in Updaters, Arm(u) PROVE StreakInv'
    BY <1>14 DEF Arm, arm_watchdog, Record, Goto
  <1>15. ASSUME NEW u \in Updaters, BatClean(u) PROVE StreakInv'
    BY <1>15 DEF BatClean, BatGoto
  <1>16. ASSUME NEW u \in Updaters, BatStage(u) PROVE StreakInv'
    BY <1>16 DEF BatStage, BatGoto, MayFail
  <1>17. ASSUME NEW u \in Updaters, BatAside(u) PROVE StreakInv'
    BY <1>17 DEF BatAside, BatGoto, MayFail, Die
  <1>18. ASSUME NEW u \in Updaters, BatGivesUp(u) PROVE StreakInv'
    BY <1>18 DEF BatGivesUp, BatGoto, MayFail
  <1>19. ASSUME NEW u \in Updaters, BatMoveIn(u) PROVE StreakInv'
    BY <1>19 DEF BatMoveIn, BatGoto, MayFail
  <1>20. ASSUME NEW u \in Updaters, BatStop(u) PROVE StreakInv'
    BY <1>20 DEF BatStop, BatGoto, Die
  <1>21. ASSUME NEW u \in Updaters, BatStart(u) PROVE StreakInv'
    BY <1>21 DEF BatStart, BatGoto
  <1>22. ASSUME NEW u \in Updaters, BatEnds(u) PROVE StreakInv'
    BY <1>22 DEF BatEnds, BatGoto
  <1>23. ASSUME NEW ok \in BOOLEAN, Heartbeat(ok) PROVE StreakInv'
    BY <1>23 DEF Heartbeat, record_heartbeat_outcome, Record, BatIsShort
  <1>24. CASE ProbeEnds
    BY <1>24 DEF ProbeEnds
  <1>25. CASE ValidateBak
    BY <1>25 DEF ValidateBak, Record
  <1>26. CASE Quarantine
    BY <1>26 DEF Quarantine, MayFail
  <1>27. CASE Promote
    BY <1>27 DEF Promote, MayFail, Record
  <1>28. CASE RecordRollback
    BY <1>28 DEF RecordRollback, Record
  <1>29. CASE RollbackRestart
    BY <1>29 DEF RollbackRestart, Die
  <1>30. CASE UNCHANGED vars
    BY <1>30 DEF vars
  <1>31. CASE TrayStarts
    BY <1>31 DEF TrayStarts, CleanResiduals, reconcile_on_startup, Record
  <1> QED
    BY <1>1, <1>2, <1>3, <1>4, <1>5, <1>6, <1>7, <1>8, <1>9, <1>10, <1>11,
       <1>12, <1>13, <1>14, <1>15, <1>16, <1>17, <1>18, <1>19, <1>20, <1>21,
       <1>22, <1>23, <1>24, <1>25, <1>26, <1>27, <1>28, <1>29, <1>30, <1>31
    DEF Next, UpdateStep, BatStep, RollbackStep

LEMMA OverlapIsFixed == [Next]_vars => UNCHANGED overlap
  BY DEF Next, Boot, TrayStarts, ProcessCrash, HostCrash, ManualRestart, Request, Fetch, UpdateStep,
         WritePending, SwapFails, Backup, Stage, Swap, Restart, Schedule, Arm, BatStep,
         BatClean, BatStage, BatAside, BatGivesUp, BatMoveIn, BatStop, BatStart, BatEnds,
         Heartbeat, ProbeEnds, RollbackStep, ValidateBak, Quarantine, Promote,
         RecordRollback, RollbackRestart, vars, frame

LEMMA UpdateInvariant == Spec => [](UpdateInv /\ StreakInv)
  <1>1. UpdateInv /\ StreakInv /\ [Next]_vars => UpdateInv' /\ StreakInv'
    <2> SUFFICES ASSUME UpdateInv, StreakInv, [Next]_vars PROVE UpdateInv' /\ StreakInv'
      OBVIOUS
    <2> USE DEF UpdateInv
    <2>1. TypeOK' /\ PlatformInv' /\ LinuxInv' /\ StreakInv'
      BY TypeStep, PlatformStep, LinuxStep, StreakStep
    <2>2. ~overlap' => AloneInv' /\ FilesInv'
      BY OverlapIsFixed, AloneStep, FilesStep
    <2> QED
      BY <2>1, <2>2
  <1> QED
    BY <1>1, UpdateInit, PTL DEF Spec

-----------------------------------------------------------------------------
\* The state of an update always has its type.
THEOREM TypeCorrect == Spec => []TypeOK
  BY UpdateInvariant, PTL DEF UpdateInv

\* Whatever fails or crashes, any number of times: a live binary or the .bak is
\* there unless updates overlap or, on Windows, a server started within a rollback
\* removed the .bak, and outside Windows the live binary is missing only within a
\* rollback or after one that could not be finished.
THEOREM AlwaysRecoverable == Spec => []Recoverable
  <1>1. UpdateInv => Recoverable
    BY DEF UpdateInv, LinuxInv, ExeNeverAbsent, FilesInv, Lost, RollbackBroken, Recoverable
  <1> QED
    BY <1>1, UpdateInvariant, PTL

\* A rollback comes only after Threshold failed heartbeats in a row, counted
\* across restarts, and, if updates do not overlap, restores a binary that has
\* had a heartbeat.
THEOREM RollbacksAreSound == Spec => SoundRollback
  <1> USE UpdateAssumption
      DEF frame, files, status, process, bounds, history, BatUnchanged
  <1>1. ASSUME UpdateInv, StreakInv, [Next]_vars, probe = "watch", probe' = "validate"
        PROVE  \E ok \in BOOLEAN : Heartbeat(ok)
    BY <1>1
    DEF Next, Boot, TrayStarts, ProcessCrash, HostCrash, ManualRestart, Request, Fetch, UpdateStep,
        WritePending, SwapFails, Backup, Stage, Swap, Restart, Schedule, Arm, BatStep,
        BatClean, BatStage, BatAside, BatGivesUp, BatMoveIn, BatStop, BatStart, BatEnds,
        ProbeEnds, RollbackStep, ValidateBak, Quarantine, Promote, RecordRollback,
        RollbackRestart, vars, Die
  <1>2. ASSUME UpdateInv, StreakInv, [Next]_vars, probe = "watch", probe' = "validate"
        PROVE  streak' >= Threshold
    <2>1. PICK ok \in BOOLEAN : Heartbeat(ok)
      BY <1>1, <1>2
    <2>2. ~ok /\ st.fails + 1 >= Threshold /\ streak' = streak + 1
      BY <1>2, <2>1, StatusType DEF Heartbeat, record_heartbeat_outcome, UpdateInv
    <2> QED
      BY <1>2, <2>2, StatusType, Numbers DEF StreakInv, UpdateInv, TypeOK
  <1>3. ASSUME UpdateInv, [Next]_vars, probe = "promote", probe' = "record"
        PROVE  Promote
    BY <1>3
    DEF Next, Boot, TrayStarts, ProcessCrash, HostCrash, ManualRestart, Request, Fetch, UpdateStep,
        WritePending, SwapFails, Backup, Stage, Swap, Restart, Schedule, Arm, BatStep,
        BatClean, BatStage, BatAside, BatGivesUp, BatMoveIn, BatStop, BatStart, BatEnds,
        Heartbeat, ProbeEnds, RollbackStep, ValidateBak, Quarantine, RecordRollback,
        RollbackRestart, vars, Die
  <1>4. ASSUME UpdateInv, [Next]_vars, probe = "promote", probe' = "record"
        PROVE  exe' \in proven \/ overlap
    <2>1. bak # None /\ exe' = bak
      BY <1>3, <1>4 DEF Promote
    <2> QED
      BY <1>4, <2>1 DEF UpdateInv, FilesInv
  <1>5. UpdateInv /\ StreakInv /\ [Next]_vars
          => [RollbackNeedsStreak /\ RollbackToProven]_vars
    BY <1>2, <1>4 DEF RollbackNeedsStreak, RollbackToProven
  <1> QED
    BY <1>5, UpdateInvariant, PTL DEF Spec, SoundRollback

=============================================================================
