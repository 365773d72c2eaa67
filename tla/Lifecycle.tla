----------------------------- MODULE Lifecycle -----------------------------
(***************************************************************************)
(* The processes of one machine: the service (a Windows service or a        *)
(* systemd unit), the tray, servers started by hand, the installer, and the *)
(* service manager that restarts what failed.  A server that starts first   *)
(* kills every mrsh process that listens on its two TCP ports, then loads   *)
(* its keys, then binds its three listeners, each in a task of its own: a   *)
(* listener that cannot bind is logged and never tried again, and the       *)
(* process goes on with the others.                                         *)
(*                                                                          *)
(* Abstractions.  A port is the base of its server ("svc" for 8822, "tray"  *)
(* for 9822) and a listener; process numbers are not used again while       *)
(* somebody remembers them; the legacy unit runs the same start-up code     *)
(* under the old name; firewall rules and file permissions are left out.    *)
(***************************************************************************)
EXTENDS Naturals, FiniteSets, FiniteSetsExt

CONSTANTS
    Pids,       \* process numbers, a set of positive numbers
    Sites       \* machines: [os, units, task, logged, ops, bad, denied, other, image]; other is
                \* "none", or the program of somebody else that holds the port of the service:
                \* "other", or "lookalike" if its name or path contains "rsh" (powershell.exe)

ASSUME PidsAssumption == Pids \subseteq Nat \ {0} /\ Pids # {}

VARIABLES
    site,       \* one of Sites
    proc,       \* pid -> [role, at, sock, cancel, found, saw]
    unit,       \* unit -> [there, on, pid, wait, gaveUp]: what the service manager keeps
    logonTask,  \* the logon task of the tray: "none", "old" (wrong RunLevel) or "current"
    logged,     \* a user is logged on
    todo        \* what operators and users will still do

siteVars == <<site, proc, unit, logonTask, logged, todo>>

NoPid == 0
Units == {"mrsh", "rsh"}
Listeners == {"command", "stream", "quic"}
Windows == site.os = "windows"
Servers == Units \cup {"tray", "console", "debug"}
Foreign == {"other", "lookalike"}
ASSUME SitesAssumption == \A s \in Sites : s.other \in Foreign \cup {"none"}
\* main: --tray listens on TRAY_PORT, the others on DEFAULT_PORT.
Base(r) == IF r = "tray" THEN "tray" ELSE "svc"

Alive(p) == proc[p].at # "gone"
Closed == [k \in Listeners |-> "none"]
Dead == [role |-> "free", at |-> "gone", sock |-> Closed, cancel |-> FALSE, found |-> {}, saw |-> {}]
ListensOn(p, b, k) == Alive(p) /\ Base(proc[p].role) = b /\ proc[p].sock[k] = "open"

\* main: where a process of each kind begins.
Begin(r) ==
    [Dead EXCEPT !.role = r,
        !.at = CASE r = "mrsh" /\ Windows -> "heal"
                 [] r = "debug" -> "load"
                 [] r \in Foreign \cup {"client"} -> "run"
                 [] r = "install" -> "create"
                 [] OTHER -> "scan1",
        !.sock = IF r \in Foreign THEN [Closed EXCEPT !["command"] = "open"] ELSE Closed]

Fresh(f) == Min({p \in Pids : f[p].at = "gone"})
Spawn(f, r) ==
    [q \in Pids |-> IF q = Fresh(f) THEN Begin(r)
                    ELSE [f[q] EXCEPT !.found = @ \ {Fresh(f)}, !.saw = @ \ {Fresh(f)}]]
RoomFor(f) == \E p \in Pids : f[p].at = "gone"

\* The manager's view of a process that ends: a kill is a failure and is followed by a restart
\* (Restart=on-failure; sc failure restart/5000), an exit with code 0 is not.
UnitsAfterKill(K) ==
    [u \in Units |-> IF unit[u].pid \in K
                     THEN [unit[u] EXCEPT !.pid = NoPid, !.wait = unit[u].on] ELSE unit[u]]
Killed(K, f) ==
    /\ proc' = [p \in Pids |-> IF p \in K THEN Dead ELSE f[p]]
    /\ unit' = UnitsAfterKill(K)
\* service_main and --daemon log an error of the server and end with code 0 all the same.
Exits(p) ==
    /\ proc' = [proc EXCEPT ![p] = Dead]
    /\ unit' = [u \in Units |-> IF unit[u].pid = p
                                THEN [unit[u] EXCEPT !.pid = NoPid, !.gaveUp = unit[u].on] ELSE unit[u]]

SiteInit ==
    /\ site \in Sites
    /\ proc = LET none == [p \in Pids |-> Dead] IN IF site.other = "none" THEN none ELSE Spawn(none, site.other)
    /\ unit = [u \in Units |-> [there |-> u \in site.units, on |-> u \in site.units, pid |-> NoPid,
                                wait |-> u \in site.units, gaveUp |-> FALSE]]
    /\ logonTask = site.task
    /\ logged = site.logged
    /\ todo = site.ops

-----------------------------------------------------------------------------
(* The service manager and the tray task *)

\* Boot, or the restart of a unit that failed.
ManagerStarts(u) ==
    /\ unit[u].on /\ unit[u].wait /\ RoomFor(proc)
    /\ unit' = [unit EXCEPT ![u].pid = Fresh(proc), ![u].wait = FALSE, ![u].gaveUp = FALSE]
    /\ proc' = Spawn(proc, u)
    /\ UNCHANGED <<site, logonTask, logged, todo>>

\* schtasks /run: in the session of the user, one instance at a time (IgnoreNew).
RunTray(f) ==
    IF logged /\ RoomFor(f) /\ ~\E p \in Pids : f[p].role = "tray" THEN Spawn(f, "tray") ELSE f

\* Every mrsh.exe counts, also a client: one is taken for the service itself.
named_mrsh(q) == Alive(q) /\ proc[q].role \notin Foreign
tray_running == Cardinality({p \in Pids : named_mrsh(p)}) > 1

\* At the start of the service, and then by the tray watchdog for as long as it runs.
ensure_tray_task(p) ==
    /\ Windows /\ proc[p].role = "mrsh" /\ Alive(p)
    /\ LET f == IF proc[p].at = "heal" THEN [proc EXCEPT ![p].at = "scan1"] ELSE proc
       IN  \/ logonTask # "current" /\ logonTask' = "current" /\ proc' = RunTray(f)
           \/ logonTask # "current" /\ proc[p].at = "heal" /\ proc' = f /\ UNCHANGED logonTask
           \/ logonTask = "current" /\ proc' = (IF tray_running THEN f ELSE RunTray(f)) /\ UNCHANGED logonTask
    /\ UNCHANGED <<site, unit, logged, todo>>

-----------------------------------------------------------------------------
(* A server starts and runs *)

ScanOf == [scan1 |-> "command", scan2 |-> "stream"]
After == [scan1 |-> "kill1", kill1 |-> "scan2", scan2 |-> "kill2", kill2 |-> "load"]

\* netstat, ss or /proc/net/tcp: who listens at this moment.
find_listeners(p) ==
    /\ proc[p].at \in {"scan1", "scan2"}
    /\ LET found == {q \in Pids \ {p} : ListensOn(q, Base(proc[p].role), ScanOf[proc[p].at])}
       IN  proc' = [proc EXCEPT ![p].found = found, ![p].saw = @ \cup found, ![p].at = After[@]]
    /\ UNCHANGED <<site, unit, logonTask, logged, todo>>

\* "mrsh" or "rsh" anywhere in the name or the path.
is_new_mrsh_process(q) == Alive(q) /\ proc[q].role \notin {"other", "rsh"}
is_mrsh_process(q) == Alive(q) /\ proc[q].role # "other"

\* Whatever was found is killed, whether it is stale or serves well; another user's may refuse.
kill_zombie_listeners(p) ==
    /\ proc[p].at \in {"kill1", "kill2"}
    /\ LET zombies == {q \in proc[p].found : is_mrsh_process(q)}
       IN  \E K \in SUBSET zombies :
              /\ site.denied \/ K = zombies
              /\ Killed(K, [proc EXCEPT ![p].at = After[@], ![p].found = {}])
    /\ UNCHANGED <<site, logonTask, logged, todo>>

\* An unreadable revoked_keys or totp_secrets ends the start; the debug server has no TOTP.
KeysUnreadable(r) == site.bad = "revoked" \/ (site.bad = "totp" /\ r # "debug")
Load(p) ==
    /\ proc[p].at = "load"
    /\ \/ KeysUnreadable(proc[p].role) /\ Exits(p)
       \/ ~KeysUnreadable(proc[p].role) /\ proc' = [proc EXCEPT ![p].at = "serve"] /\ UNCHANGED unit
    /\ UNCHANGED <<site, logonTask, logged, todo>>

\* SO_REUSEADDR: on Windows several sockets listen on one TCP port, elsewhere and for UDP one.
bind_reusable(p, k) ==
    (Windows /\ k # "quic") \/ ~\E q \in Pids : ListensOn(q, Base(proc[p].role), k)
Bind(p, k) ==
    /\ proc[p].at = "serve" /\ proc[p].role \in Servers /\ proc[p].sock[k] = "none"
    /\ proc' = [proc EXCEPT ![p].sock[k] = IF bind_reusable(p, k) THEN "open" ELSE "ended"]
    /\ UNCHANGED <<site, unit, logonTask, logged, todo>>

ListenerEnds(p, k) ==
    /\ proc[p].cancel /\ proc[p].sock[k] = "open"
    /\ proc' = [proc EXCEPT ![p].sock[k] = "ended"]
    /\ UNCHANGED <<site, unit, logonTask, logged, todo>>

\* run_server: the JoinSet is empty.  The tray's process also ends when its message loop does.
run_server_returns(p) ==
    /\ proc[p].at = "serve"
    /\ \/ \A k \in Listeners : proc[p].sock[k] = "ended"
       \/ proc[p].role = "tray" /\ proc[p].cancel
    /\ Exits(p)
    /\ UNCHANGED <<site, logonTask, logged, todo>>

-----------------------------------------------------------------------------
(* Operators and users *)

Do(a) == a \in todo /\ todo' = todo \ {a}

StartByHand ==
    \E r \in {"console", "debug", "client", "install"} :
        /\ Do(r) /\ RoomFor(proc)
        /\ proc' = Spawn(proc, r)
        /\ UNCHANGED <<site, unit, logonTask, logged>>
ClientEnds(p) ==
    /\ proc[p].role = "client"
    /\ proc' = [proc EXCEPT ![p] = Dead]
    /\ UNCHANGED <<site, unit, logonTask, logged, todo>>

\* The menu of the tray; Ctrl+C, which only the debug server handles.
QuitTray ==
    /\ Do("quit")
    /\ \E p \in Pids : proc[p].role = "tray" /\ proc[p].at = "serve"
                       /\ proc' = [proc EXCEPT ![p].cancel = TRUE]
    /\ UNCHANGED <<site, unit, logonTask, logged>>
CtrlC ==
    /\ Do("ctrlc")
    /\ \E p \in Pids :
          \/ proc[p].role = "console" /\ Killed({p}, proc)
          \/ proc[p].role = "debug" /\ proc' = [proc EXCEPT ![p].cancel = TRUE] /\ UNCHANGED unit
    /\ UNCHANGED <<site, logonTask, logged>>

Logon ==
    /\ Do("logon")
    /\ logged' = TRUE
    /\ proc' = IF logonTask # "none" /\ RoomFor(proc) /\ ~\E p \in Pids : proc[p].role = "tray"
               THEN Spawn(proc, "tray") ELSE proc
    /\ UNCHANGED <<site, unit, logonTask>>

\* Stop from the service manager.  SIGTERM is blocked only in the thread that waits for it, so
\* it may end the process at once instead of cancelling the server.
Stopped(u, r) ==
    LET p == unit[u].pid
        off == [unit EXCEPT ![u] = [r EXCEPT !.on = FALSE, !.wait = FALSE]]
    IN  \/ p = NoPid /\ unit' = off /\ UNCHANGED proc
        \/ p # NoPid /\ unit' = off /\ proc' = [proc EXCEPT ![p].cancel = TRUE]
        \/ ~Windows /\ p # NoPid /\ unit' = [off EXCEPT ![u].pid = NoPid]
           /\ proc' = [proc EXCEPT ![p] = Dead]
StopUnit ==
    /\ Do("stop")
    /\ (Windows /\ unit["mrsh"].pid # NoPid) => proc[unit["mrsh"].pid].at # "heal"
    /\ Stopped("mrsh", unit["mrsh"])
    /\ UNCHANGED <<site, logonTask, logged>>
EnableUnit ==
    /\ Do("enable")
    /\ unit["mrsh"].there
    /\ unit' = [unit EXCEPT !["mrsh"].on = TRUE, !["mrsh"].wait = unit["mrsh"].pid = NoPid]
    /\ UNCHANGED <<site, proc, logonTask, logged>>

\* On Windows the service is deleted without being stopped: it runs on, and so does its watchdog.
uninstall_service ==
    /\ Do("uninstall")
    /\ \/ /\ Windows /\ unit["mrsh"].there
          /\ unit' = [unit EXCEPT !["mrsh"].there = FALSE, !["mrsh"].on = FALSE, !["mrsh"].wait = FALSE]
          /\ logonTask' = "none"
          /\ UNCHANGED proc
       \/ ~Windows /\ Stopped("mrsh", [unit["mrsh"] EXCEPT !.there = FALSE]) /\ UNCHANGED logonTask
    /\ UNCHANGED <<site, logged>>

-----------------------------------------------------------------------------
(* The installer *)

\* Windows: create or configure the service, then kill every mrsh.exe, itself too if it has
\* that name, then register the task of the tray and run it.
CreateService(p) ==
    /\ Windows /\ proc[p].at = "create"
    /\ unit' = [unit EXCEPT !["mrsh"].there = TRUE]
    /\ proc' = [proc EXCEPT ![p].at = "taskkill"]
    /\ UNCHANGED <<site, logonTask, logged, todo>>
TaskKill(p) ==
    /\ proc[p].at = "taskkill"
    /\ LET K == {q \in Pids : named_mrsh(q)} \ (IF site.image = "mrsh" THEN {} ELSE {p})
       IN  Killed(K, [proc EXCEPT ![p].at = "register"])
    /\ UNCHANGED <<site, logonTask, logged, todo>>
register_tray_logon_task(p) ==
    /\ proc[p].at = "register"
    /\ logonTask' = "current"
    /\ proc' = RunTray([proc EXCEPT ![p] = Dead])
    /\ UNCHANGED <<site, unit, logged, todo>>

\* Linux: the binary is copied, which fails while the service runs from it; a unit of the old
\* name is stopped and removed; then the new unit is written.
IgnoresLegacy == FALSE
HasLegacy == unit["rsh"].there \/ unit["rsh"].pid # NoPid
CopyBinary(p) ==
    /\ ~Windows /\ proc[p].at = "create"
    /\ proc' = [proc EXCEPT ![p] = IF unit["mrsh"].pid # NoPid THEN Dead ELSE [@ EXCEPT !.at = "legacy"]]
    /\ UNCHANGED <<site, unit, logonTask, logged, todo>>
RemoveLegacy(p) ==
    /\ proc[p].at = "legacy" /\ unit["rsh"].there
    /\ Stopped("rsh", [unit["rsh"] EXCEPT !.there = FALSE])
    /\ UNCHANGED <<site, logonTask, logged, todo>>
WriteUnit(p) ==
    /\ proc[p].at = "legacy" /\ ~HasLegacy
    /\ unit' = [unit EXCEPT !["mrsh"].there = TRUE]
    /\ proc' = [proc EXCEPT ![p] = Dead]
    /\ UNCHANGED <<site, logonTask, logged, todo>>

-----------------------------------------------------------------------------
ServerStep(p) ==
    \/ find_listeners(p) \/ kill_zombie_listeners(p) \/ Load(p)
    \/ \E k \in Listeners : Bind(p, k) \/ ListenerEnds(p, k)
    \/ run_server_returns(p)
InstallStep(p) ==
    \/ CreateService(p) \/ TaskKill(p) \/ register_tray_logon_task(p)
    \/ CopyBinary(p) \/ RemoveLegacy(p) \/ WriteUnit(p)
Operate ==
    StartByHand \/ QuitTray \/ CtrlC \/ Logon \/ StopUnit \/ EnableUnit \/ uninstall_service

SiteNext ==
    \/ \E u \in Units : ManagerStarts(u)
    \/ \E p \in Pids : ensure_tray_task(p) \/ ServerStep(p) \/ InstallStep(p) \/ ClientEnds(p)
    \/ Operate

\* Programs run, the manager restarts what failed, the watchdog's timer fires, commands end.
\* Operators and users need not do anything.
SiteFairness ==
    /\ \A u \in Units : WF_siteVars(ManagerStarts(u))
    /\ WF_siteVars(\E p \in Pids : ensure_tray_task(p))
    /\ \A p \in Pids : WF_siteVars(ServerStep(p) \/ InstallStep(p) \/ ClientEnds(p))

-----------------------------------------------------------------------------
\* No mrsh process that listened when a server started still runs once that server serves,
\* unless it could not be killed; and a program of somebody else is left alone, unless "rsh" is
\* part of its name or path: such a one, powershell.exe for example, is killed like a
\* stale server, although the comment in kill_zombie_listeners says that unrelated ones are not.
StaleGone ==
    /\ \A p \in Pids : proc[p].at \in {"load", "serve"} =>
          \A q \in proc[p].saw : proc[q].role \in Servers => site.denied
    /\ site.other = "other" => \E p \in Pids : proc[p].role = "other"

\* Somebody else may hold a port of the service when it binds.
Contested == site.other # "none" \/ site.ops \cap {"console", "debug"} # {}

AtRest(p) ==
    \/ proc[p].at \in {"gone", "run"}
    \/ /\ proc[p].at = "serve" /\ ~proc[p].cancel
       /\ \A k \in Listeners : proc[p].sock[k] # "none"
       /\ \E k \in Listeners : proc[p].sock[k] = "open"
UnitServed(u) ==
    LET p == unit[u].pid
    IN  \/ /\ p # NoPid /\ proc[p].at = "serve"
           /\ (Contested \/ \A k \in Listeners : proc[p].sock[k] = "open")
        \/ Contested /\ unit[u].gaveUp
\* Servers do not fight for ever: in the end every unit that should run runs and has all its
\* listeners (or lost them to a server started by hand), what was stopped has ended, and where
\* the service runs and a user is logged on there is a tray (or a server by hand, which counts
\* as one).
SiteRest ==
    \/ site.bad # "none"
    \/ /\ \A p \in Pids : AtRest(p)
       /\ \A u \in Units : IF unit[u].on THEN UnitServed(u)
                           ELSE unit[u].pid = NoPid \/ (Windows /\ ~unit[u].there)
       /\ (Windows /\ unit["mrsh"].pid # NoPid /\ logged) =>
              \E p \in Pids : proc[p].role \in {"tray", "console", "debug"}
=============================================================================
