------------------------------ MODULE MCFleet ------------------------------
(***************************************************************************)
(* The adverts alone, with late, lost and overtaken publications, restarts  *)
(* of the rendezvous server, failing updates and rollbacks; the fleet       *)
(* commands, while one machine also upgrades itself; and, on one machine,   *)
(* the servers that start, replace each other and stop, and the tray.       *)
(***************************************************************************)
EXTENDS Fleet, Lifecycle, TrayIcon

CONSTANTS m1, m2, s1, s2

V1 == <<<<1, 0>>, <<1, 0>>>>
V2 == <<<<1, 0>>, <<2, 0>>>>
V3 == <<<<1, 0>>, <<3, 0>>>>
V3rc == <<<<1, 0>>, <<3, 1>>>>

Box(os, legacy, auto, v) ==
    [os |-> os, legacy |-> legacy, cap |-> TRUE, track |-> "stable", auto |-> auto, key |-> TRUE, ver |-> v]
Pub(s, v, kind, signed) ==
    [srv |-> s, plat |-> "linux-glibc", track |-> "stable", ver |-> v, kind |-> kind, signed |-> signed]
Both(a, b) == [m \in Machines |-> IF m = m1 THEN a ELSE b]

MCServers == <<s1, s2>>
Linux == Box("linux", FALSE, TRUE, V1)
Published(list, m) ==
    [machine |-> Both(Linux, [Box("linux", FALSE, FALSE, V3) EXCEPT !.key = FALSE]),
     pubs |-> list, faulty |-> {}, max |-> [restarts |-> m, pulls |-> m, lost |-> 1]]
AdvertOnly ==
    {Published(<<Pub(s1, V3, "linux", TRUE), Pub(s1, V2, "linux", TRUE)>>, 1),
     Published(<<Pub(s2, V2, "linux", TRUE), Pub(s1, V3rc, "none", TRUE), Pub(s1, V3, "linux", TRUE)>>, 0),
     Published(<<Pub(s1, V3rc, "linux", TRUE), Pub(s1, V3, "linux", FALSE)>>, 1),
     Published(<<Pub(s1, NoVersion, "linux", TRUE), Pub(s1, V2, "linux", TRUE)>>, 1),
     \* a version that is rolled back, after a good one; and Windows, where a script may fail
     [Published(<<Pub(s1, V2, "linux", TRUE), Pub(s1, V3, "linux", TRUE)>>, 0) EXCEPT !.faulty = {V3}],
     [Published(<<[Pub(s1, V2, "windows", TRUE) EXCEPT !.plat = "windows-msvc"],
                  [Pub(s1, V3, "windows", TRUE) EXCEPT !.plat = "windows-msvc"]>>, 0)
         EXCEPT !.machine = Both(Box("windows", FALSE, TRUE, V1), Box("linux", FALSE, FALSE, V3))]}
\* A machine that upgrades itself, and an old server, while the operator is at work.
SelfUpgrading ==
    [machine |-> Both(Box("linux", TRUE, TRUE, V1), Box("windows", FALSE, FALSE, V2)),
     pubs |-> <<Pub(s1, V2, "linux", TRUE)>>, faulty |-> {}, max |-> [restarts |-> 0, pulls |-> 0, lost |-> 0]]
OldLinux ==
    [machine |-> Both(Box("linux", TRUE, FALSE, V1), Box("windows", FALSE, FALSE, V2)),
     pubs |-> <<>>, faulty |-> {}, max |-> [restarts |-> 0, pulls |-> 0, lost |-> 1]]
FleetWorlds ==
    [machine : {Both(Box("linux-musl", FALSE, FALSE, V1), Box("linux-aarch64", FALSE, FALSE, V2)),
                Both([Box("windows", FALSE, FALSE, V1) EXCEPT !.cap = FALSE], Box("linux", FALSE, FALSE, V3))},
     pubs : {<<>>}, faulty : {{}}, max : {[restarts |-> 0, pulls |-> 0, lost |-> 1]}]
MCAdvertWorlds == AdvertOnly \cup {SelfUpgrading, OldLinux} \cup FleetWorlds

Host(n, a, i, h) == [name |-> n, at |-> a, id |-> i, hint |-> h]
Job(cmd, blocks, listed, bins) ==
    [cmd |-> cmd, refresh |-> TRUE, dry |-> FALSE, bins |-> bins, conf |-> blocks, listed |-> listed,
     names |-> [m \in Machines |-> m], group |-> {m1}, expected |-> "rdv"]
NoJob == Job("none", <<>>, <<>>, {})
Conf == <<Host(m1, m1, m1, "none"), Host("other", m2, Nobody, "none")>>
Listed1 == [m \in {m1} |-> m1]
Listed2 == [m \in {m2} |-> Nobody]
AllBins == OsKind
Everybody == {Job("update", Conf, Listed1, AllBins), Job("update", Conf, Listed1, {"linux"})}
Unlisted == Job("update", Conf, <<>>, AllBins)
Updates ==
    Everybody \cup
    {Unlisted, Job("update", <<Host(m1, m1, Nobody, "none")>>, Listed2, AllBins),
     [Job("update", Conf, Listed1, AllBins) EXCEPT !.dry = TRUE],
     \* one name for two machines; an address at which another machine answers
     [Job("update", Conf, Listed2, AllBins) EXCEPT !.names = [m \in Machines |-> m1], !.refresh = FALSE],
     Job("update", <<Host(m1, m1, m2, "none")>>, Listed2, AllBins),
     Job("update", <<Host(m1, m1, Nobody, "windows")>>, <<>>, AllBins),
     Job("update", Conf, <<>>, {})}
Others ==
    {Job("status", Conf, Listed2, {}), Job("drift", Conf, Listed1, {}),
     [Job("drift", Conf, Listed1, {}) EXCEPT !.expected = "another"],
     Job("set", <<Host(m1, m1, Nobody, "none")>>, <<>>, {}), Job("discover", Conf, Listed1, {})}
MCFleetJobs == {NoJob} \cup Updates \cup Others

Site(os, units, ops) ==
    [os |-> os, units |-> units, task |-> "none", logged |-> os = "windows", ops |-> ops, bad |-> "none",
     denied |-> FALSE, other |-> "none", image |-> "mrsh"]
NoSite == Site("linux", {}, {})
MCSites ==
    {NoSite,
     Site("linux", {"rsh"}, {"install", "enable"}),
     Site("linux", {"mrsh"}, {"console", "ctrlc", "stop"}),
     Site("linux", {"rsh"}, {"console", "uninstall"}),
     [Site("linux", {"mrsh"}, {"debug", "ctrlc"}) EXCEPT !.other = "other"],
     [Site("windows", {"mrsh"}, {}) EXCEPT !.other = "lookalike"],
     [Site("linux", {"mrsh"}, {"console", "install"}) EXCEPT !.bad = "totp"],
     [Site("windows", {"mrsh"}, {"install", "stop"}) EXCEPT !.task = "old"],
     [Site("windows", {"mrsh"}, {"client", "quit", "logon"}) EXCEPT !.logged = FALSE, !.task = "current"],
     [Site("windows", {"mrsh"}, {"console"}) EXCEPT !.denied = TRUE, !.logged = FALSE],
     Site("windows", {"mrsh"}, {"uninstall"}),
     [Site("windows", {}, {"install", "enable"}) EXCEPT !.image = "setup"]}

\* The three share no state: a behaviour runs the adverts and the fleet command, or the
\* processes of a machine, or the icon of a tray.
QuietFleet == job = NoJob /\ world = OldLinux
QuietTray == tray.on /\ logins = MaxLogins
HostsInit ==
    /\ AdvertInit /\ FleetInit
    /\ \/ job = NoJob /\ world \in AdvertOnly
       \/ job # NoJob /\ world = OldLinux
       \/ job \in Everybody /\ world \in FleetWorlds
       \/ job = Unlisted /\ world = SelfUpgrading
       \/ QuietFleet
    /\ SiteInit /\ (site # NoSite => QuietFleet)
    /\ TrayInit /\ (QuietTray \/ (QuietFleet /\ site = NoSite))
hostsVars == <<advertVars, fleetVars, siteVars, trayVars>>
HostsNext ==
    \/ FleetNext /\ UNCHANGED <<siteVars, trayVars>>
    \/ SiteNext /\ UNCHANGED <<advertVars, fleetVars, trayVars>>
    \/ TrayNext /\ UNCHANGED <<advertVars, fleetVars, siteVars>>
HostsSpec ==
    /\ HostsInit /\ [][HostsNext]_hostsVars
    /\ FleetFairness /\ AdvertFairness /\ SiteFairness /\ TrayFairness

-----------------------------------------------------------------------------
\* Binaries go only to machines on which they start, and the results of a fleet update say
\* what happened on each machine.
FleetTrue == RightBinary /\ ResultsTrue

\* A starting server ends the servers it replaces, and of the programs of others only those it
\* takes for one, and the icon of a tray shows whether somebody is connected.
HostsSound == StaleGone /\ IconTrue

\* In the end the fleet command has returned and the machines have caught up with the adverts,
\* the servers of a machine no longer replace each other and run as the service manager wants
\* them to, and the tray has read all events.
HostsSettle == <>[](FleetRest /\ SiteRest /\ TrayRest)
=============================================================================
