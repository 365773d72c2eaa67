------------------------------- MODULE Fleet -------------------------------
(***************************************************************************)
(* The fleet commands of an operator: `fleet status`, `update`, `config`    *)
(* and `discover`.  `status` probes every configured host and merges the    *)
(* machines the rendezvous server lists; `update` chooses a binary for each *)
(* by what the probe learned, pushes it, asks the machine to update itself  *)
(* and probes it until it answers with another version.  Where only QUIC    *)
(* works a scheduled task replaces the binary instead, and one probe        *)
(* follows.                                                                 *)
(*                                                                         *)
(* A row reaches a machine over its address or over its device id, and the  *)
(* two need not be the same machine: the address of a listed machine is the *)
(* one its registration came from.  Any attempt may fail.                   *)
(***************************************************************************)
EXTENDS Adverts

CONSTANTS
    FleetJobs,      \* set of [cmd, refresh, dry, bins, conf, listed, names, group, expected]
    Target,         \* the operator's own version
    VerifyPolls     \* probes after an update: one every 10 of 60 seconds

Nobody == "nobody"
\* Addresses and ids are those of machines, or nobody's.
ASSUME FleetAssumption ==
    /\ VerifyPolls \in Nat \ {0} /\ Target # NoVersion
    /\ \A j \in FleetJobs :
          /\ DOMAIN j.listed \subseteq Machines
          /\ {j.listed[m] : m \in DOMAIN j.listed} \subseteq Machines \cup {Nobody}
          /\ j.conf \in Seq(Range(j.conf))
          /\ \A c \in Range(j.conf) : {c.at, c.id} \subseteq Machines \cup {Nobody}

VARIABLES
    job,        \* the command line, the local config and what is known of the machines
    conf,       \* the host blocks: sequence of [name, at, id, hint]
    reported,   \* machine -> the version of its last registration
    op,         \* the command: [at, rows, unprobed, i, probes, saw, results, exit]
    sent        \* binaries that have been pushed: set of [to, kind, row]

fleetVars == <<job, conf, reported, op, sent>>

Row(c) == [name |-> c.name, at |-> c.at, id |-> c.id, hint |-> c.hint, inConf |-> TRUE,
           online |-> FALSE, ver |-> NoVersion, caps |-> {}, rdv |-> NoVersion, fresh |-> FALSE]

FleetInit ==
    /\ job \in FleetJobs
    /\ conf = job.conf
    /\ reported = [m \in Machines |-> machine[m].ver]
    /\ op = [at |-> IF job.cmd = "none" THEN "done" ELSE "start", rows |-> <<>>, unprobed |-> {}, i |-> 1,
             plans |-> <<>>, via |-> Nobody, polls |-> 0, saw |-> [online |-> FALSE, ver |-> NoVersion],
             results |-> <<>>, exit |-> "none"]
    /\ sent = {}

Done(e) == [op EXCEPT !.at = "done", !.exit = e]

-----------------------------------------------------------------------------
(* Probing. *)

\* What a server says of itself after the login.
Caps(m) ==
    LET w == world.machine[m]
        kind == machine[m].kind
        own == IF kind = "windows" THEN {"window"} ELSE IF w.legacy THEN {} ELSE {"linux", kind}
    IN  own \cup {"system"} \cup (IF w.cap THEN {"self-update"} ELSE {})

\* The machines a row can lead to: direct TLS, relay, QUIC.
Reaches(r) == ({r.at} \cup {r.id}) \ {Nobody}
Answers(m) == m # Nobody /\ machine[m].up
\* probe_host: the first transport that works, or none.
Probed(r, m) ==
    IF m = Nobody THEN [r EXCEPT !.online = FALSE, !.ver = NoVersion, !.caps = {}]
    ELSE [r EXCEPT !.online = TRUE, !.ver = machine[m].ver, !.caps = Caps(m)]
probe_host(r) == {Probed(r, m) : m \in {x \in Reaches(r) : Answers(x)} \cup {Nobody}}
\* The other ports of the same address.
probe_alt_ports(r) == {Probed(r, m) : m \in {x \in {r.at} : Answers(x)}}
\* A configured host: its probe, the other ports if that failed, then its registration.
ConfRow(r) ==
    {IF ~q.online /\ r.fresh THEN [q EXCEPT !.online = TRUE] ELSE q :
        q \in probe_host(r) \cup (IF job.refresh THEN probe_alt_ports(r) ELSE {})}

-----------------------------------------------------------------------------
(* status_with_opts. *)

\* Every registered machine; nothing if the server is not heard.
handle_list_peers == DOMAIN job.listed
list_peers == {handle_list_peers, {}}

InConf(m) == \E i \in 1 .. Len(conf) : conf[i].id = m
\* A machine the rendezvous server lists: named by its host name, at the address of its
\* registration, never probed.
ListedRow(m, fresh) ==
    [name |-> job.names[m], at |-> job.listed[m], id |-> m, hint |-> "none",
     inConf |-> FALSE, online |-> fresh, ver |-> NoVersion, caps |-> {}, rdv |-> reported[m],
     fresh |-> fresh]

\* Command line, binaries, config; discover_from_hbbs, which may get nothing; the rows.
LoadFails ==
    /\ op.at = "start" /\ job.cmd = "update" /\ job.bins = {}
    /\ op' = Done("error") /\ UNCHANGED <<job, conf, reported, sent>>
Discover ==
    /\ op.at = "start" /\ job.cmd \in {"status", "update", "drift"}
    /\ job.cmd = "update" => job.bins # {}
    /\ \E peers \in list_peers : \E fresh \in SUBSET peers :
          LET known(c) == c.id \in peers
              confRows == [i \in 1 .. Len(conf) |->
                              [Row(conf[i]) EXCEPT
                                 !.rdv = IF known(conf[i]) THEN reported[conf[i].id] ELSE NoVersion,
                                 !.fresh = conf[i].id \in fresh]]
              others == SetToSeq({m \in peers : ~InConf(m)})
          IN  op' = [op EXCEPT !.at = "probing",
                               !.rows = confRows \o [i \in 1 .. Len(others) |->
                                                        ListedRow(others[i], others[i] \in fresh)],
                               !.unprobed = 1 .. Len(conf)]
    /\ UNCHANGED <<job, conf, reported, sent>>

\* The probes run at the same time, and finish in any order.
Probe(i) ==
    /\ op.at = "probing" /\ i \in op.unprobed
    /\ \E r \in ConfRow(op.rows[i]) : op' = [op EXCEPT !.rows[i] = r, !.unprobed = @ \ {i}]
    /\ UNCHANGED <<job, conf, reported, sent>>

needs_relay_probe(r) == r.online /\ r.ver = NoVersion /\ r.id # Nobody
StatusDone ==
    /\ op.at = "probing" /\ op.unprobed = {}
    /\ op' = CASE job.cmd = "status" -> Done("ok")
               [] job.cmd = "drift" -> [op EXCEPT !.at = "drift"]
               [] OTHER -> [op EXCEPT !.at = "again",
                               !.unprobed = {i \in 1 .. Len(op.rows) : needs_relay_probe(op.rows[i])}]
    /\ UNCHANGED <<job, conf, reported, sent>>

\* relay_probe_unprobed: a row is replaced only by a probe that learned the version.
RelayProbe(i) ==
    /\ op.at = "again" /\ i \in op.unprobed
    /\ \E r \in probe_host(op.rows[i]) :
          op' = [op EXCEPT !.rows[i] = IF r.online /\ r.ver # NoVersion THEN r ELSE @,
                           !.unprobed = @ \ {i}]
    /\ UNCHANGED <<job, conf, reported, sent>>

-----------------------------------------------------------------------------
(* plan_fleet_update. *)

WindowsOnly == {"window", "tray", "mouse", "keyboard"}
classify_os(r) ==
    CASE r.hint # "none" -> r.hint
      [] OTHER -> IF "linux-aarch64" \in r.caps THEN "linux-aarch64"
                  ELSE IF "linux-musl" \in r.caps THEN "linux-musl"
                  ELSE IF "linux" \in r.caps \/ (r.caps # {} /\ r.caps \cap WindowsOnly = {}) THEN "linux"
                  ELSE "windows"
\* The binary for a system: glibc's stands in for musl's.
load_optional_binary(os) == os \in job.bins
pick(os) ==
    IF load_optional_binary(os) THEN os
    ELSE IF os = "linux-musl" /\ load_optional_binary("linux") THEN "linux" ELSE "none"

Known(r) == IF r.ver # NoVersion THEN r.ver ELSE r.rdv
Acts(r) ==
    /\ r.online /\ Known(r) # Target
    /\ r.ver # NoVersion            \* probed
    /\ "self-update" \in r.caps
    /\ pick(classify_os(r)) # "none"
plan_fleet_update(rows) ==
    LET plans[i \in 0 .. Len(rows)] ==
            IF i = 0 THEN <<>>
            ELSE IF Acts(rows[i])
            THEN Append(plans[i - 1], [name |-> rows[i].name, os |-> classify_os(rows[i])])
            ELSE plans[i - 1]
    IN  plans[Len(rows)]

\* The plan names its host, and the row is looked up by the name: the last one that has it.
status_by_name(name) ==
    op.rows[CHOOSE i \in 1 .. Len(op.rows) :
               /\ op.rows[i].name = name
               /\ \A j \in i + 1 .. Len(op.rows) : op.rows[j].name # name]

Plan ==
    /\ op.at = "again" /\ op.unprobed = {}
    /\ LET plans == plan_fleet_update(op.rows)
       IN  op' = CASE job.dry -> [Done("ok") EXCEPT !.plans = plans]
                   [] OTHER -> [op EXCEPT !.at = "update", !.plans = plans]
    /\ UNCHANGED <<job, conf, reported, sent>>

-----------------------------------------------------------------------------
(* update_single_host_for_os, one host after the other. *)

ThePlan == op.plans[op.i]
TheRow == status_by_name(ThePlan.name)
\* Mutant: what the last host's probes saw is kept.
ResultUnreset(success, new) ==
    [op EXCEPT !.results = Append(@, [name |-> ThePlan.name, to |-> op.via, success |-> success,
                                      old |-> TheRow.ver, new |-> new]),
               !.at = "update", !.i = @ + 1, !.via = Nobody]
Result(success, new) ==
    [op EXCEPT !.results = Append(@, [name |-> ThePlan.name, to |-> op.via, success |-> success,
                                      old |-> TheRow.ver, new |-> new]),
               !.at = "update", !.i = @ + 1, !.via = Nobody, !.polls = 0,
               !.saw = [online |-> FALSE, ver |-> NoVersion]]

\* connect, then the relay: push to the fixed path.
HostLeft == op.at = "update" /\ op.i <= Len(op.plans)
PushTo(m, next) ==
    /\ Answers(m)
    /\ sent' = sent \cup {[to |-> m, kind |-> pick(ThePlan.os), row |-> ThePlan.name]}
    /\ op' = [op EXCEPT !.at = next, !.via = m]
    /\ UNCHANGED <<job, conf, reported>>
Push == HostLeft /\ \E m \in Reaches(TheRow) : PushTo(m, "pushed")
\* QUIC, at the address of the row, if the binary is for Windows.
PushQuic == HostLeft /\ ThePlan.os = "windows" /\ PushTo(TheRow.at, "pushedQuic")
PushFails ==
    /\ HostLeft /\ op' = Result(FALSE, NoVersion)
    /\ UNCHANGED <<job, conf, reported, sent>>

\* self_update: the machine takes the file over and says so.  Or it refuses, or the request or
\* its answer is lost, which the restart may bring about: all that is told as a failure.
Pushed == [ver |-> Target, kind |-> pick(ThePlan.os)]
SelfUpdate ==
    /\ op.at = "pushed" /\ Answers(op.via)
    /\ handle_self_update(op.via, Pushed, "push")
    /\ op' \in {[op EXCEPT !.at = "verify"], Result(FALSE, NoVersion)}
    /\ UNCHANGED <<world, adverts, wire, pub, task, spent, job, conf, reported, sent>>
SelfUpdateFails ==
    /\ op.at = "pushed" /\ op' = Result(FALSE, NoVersion)
    /\ UNCHANGED machine \/ (Answers(op.via) /\ Disarmed(op.via))
    /\ UNCHANGED <<world, adverts, wire, pub, task, spent, job, conf, reported, sent>>

\* The scheduled task over QUIC: it stops the service, copies the file, or fails to while
\* something else runs from the old one, and starts the service.  No watchdog, no backup.
Schtask(m) ==
    \E b \in {Pushed, Running(m)} :
       machine' = [machine EXCEPT ![m] = [@ EXCEPT !.next = b, !.by = "schtask"]]
\* Both commands are answered with OK even if they failed; and an answer may be lost.
QuicUpdate ==
    /\ op.at = "pushedQuic"
    /\ UNCHANGED machine \/ (Answers(op.via) /\ Schtask(op.via))
    /\ op' \in {[op EXCEPT !.at = "verifyQuic"], Result(FALSE, NoVersion)}
    /\ UNCHANGED <<world, adverts, wire, pub, task, spent, job, conf, reported, sent>>

\* verify_after_update_with_retry: a probe every 10 seconds, until the version is another one.
VerifyPoll ==
    /\ op.at = "verify" /\ op.polls < VerifyPolls
    /\ \E r \in probe_host(TheRow) :
          op' = IF r.online /\ r.ver # TheRow.ver THEN Result(TRUE, r.ver)
                ELSE [op EXCEPT !.polls = @ + 1,
                                !.saw = [online |-> r.online, ver |-> IF r.online THEN r.ver ELSE @.ver]]
    /\ UNCHANGED <<job, conf, reported, sent>>
\* No change in 60 seconds: what the last probe saw.
VerifyEnds ==
    /\ op.at = "verify" /\ op.polls = VerifyPolls
    /\ op' = IF op.saw.online THEN Result(TRUE, op.saw.ver) ELSE Result(FALSE, NoVersion)
    /\ UNCHANGED <<job, conf, reported, sent>>
\* verify_after_update: one probe, whatever version it sees.
VerifyQuic ==
    /\ op.at = "verifyQuic"
    /\ \E r \in probe_host(TheRow) :
          op' = IF r.online THEN Result(TRUE, r.ver) ELSE Result(FALSE, NoVersion)
    /\ UNCHANGED <<job, conf, reported, sent>>

\* The table of results and the status after the update; never an error.
UpdateDone ==
    /\ op.at = "update" /\ op.i > Len(op.plans)
    /\ op' = Done("ok") /\ UNCHANGED <<job, conf, reported, sent>>

-----------------------------------------------------------------------------
(* fleet config, fleet discover. *)

\* The setter: the first block with that name or address, or a new one.
ConfigSet ==
    /\ op.at = "start" /\ job.cmd = "set"
    /\ \E m \in Machines \cup {"bad track"} :
          IF m = "bad track" THEN op' = Done("error") /\ UNCHANGED conf
          ELSE /\ op' = Done("ok")
               /\ conf' = IF \E i \in 1 .. Len(conf) : conf[i].name = m \/ conf[i].at = m THEN conf
                          ELSE Append(conf, [name |-> m, at |-> m, id |-> Nobody, hint |-> "none"])
    /\ UNCHANGED <<job, reported, sent>>

\* The drift check connects again, directly, to every host that is online.
DriftCheck ==
    /\ op.at = "drift"
    /\ \E seen \in [1 .. Len(op.rows) -> {"OK", "DRIFT", "FAILED", "skipped"}] :
          /\ \A i \in 1 .. Len(op.rows) :
                LET r == op.rows[i] IN
                IF ~r.online THEN seen[i] = "skipped"
                ELSE \/ seen[i] = "FAILED"
                     \/ /\ Answers(r.at)
                        /\ seen[i] = IF job.expected \in {"", "rdv"} THEN "OK" ELSE "DRIFT"
          /\ op' = [Done("ok") EXCEPT !.results = seen]
    /\ UNCHANGED <<job, conf, reported, sent>>

\* The registered members of the group.
handle_group_query == handle_list_peers \cap job.group
\* query_group: an error if nothing is heard, or the clocks differ by 5 minutes.
DiscoverGroup ==
    /\ op.at = "start" /\ job.cmd = "discover"
    /\ \/ op' = [Done("ok") EXCEPT !.results = SetToSeq(handle_group_query)]
       \/ op' = Done("error")
    /\ UNCHANGED <<job, conf, reported, sent>>

\* Registrations carry the running version.
Register(m) ==
    /\ machine[m].up /\ m \in handle_list_peers /\ reported[m] # machine[m].ver
    /\ reported' = [reported EXCEPT ![m] = machine[m].ver]
    /\ UNCHANGED <<job, conf, op, sent>>

-----------------------------------------------------------------------------
FleetStep ==
    \/ LoadFails \/ Discover \/ StatusDone \/ Plan \/ UpdateDone
    \/ \E i \in 1 .. Len(op.rows) : Probe(i) \/ RelayProbe(i)
    \/ Push \/ PushQuic \/ PushFails \/ VerifyPoll \/ VerifyEnds \/ VerifyQuic
    \/ ConfigSet \/ DriftCheck \/ DiscoverGroup
UpdateStep == SelfUpdate \/ SelfUpdateFails \/ QuicUpdate
FleetNext ==
    \/ FleetStep /\ UNCHANGED advertVars
    \/ UpdateStep
    \/ \E m \in Machines : Register(m) /\ UNCHANGED advertVars
    \/ AdvertNext /\ UNCHANGED fleetVars
FleetFairness == WF_<<advertVars, fleetVars>>((FleetStep /\ UNCHANGED advertVars) \/ UpdateStep)
FleetSpec ==
    /\ AdvertInit /\ FleetInit
    /\ [][FleetNext]_<<advertVars, fleetVars>>
    /\ FleetFairness /\ AdvertFairness

-----------------------------------------------------------------------------
(* Properties. *)

\* What the operator and the network have to provide: true platform hints, one name for one
\* row, addresses at which the machine itself answers, and binaries published for the platform
\* they run on.
TrueHints == \A i \in 1 .. Len(conf) :
    conf[i].hint # "none" => \A m \in Reaches(conf[i]) : conf[i].hint = world.machine[m].os
DistinctNames == \A i, j \in 1 .. Len(op.rows) : op.rows[i].name = op.rows[j].name => i = j
OwnAddresses == \A i \in 1 .. Len(op.rows) : Cardinality(Reaches(op.rows[i])) <= 1
Apart == {"linux-aarch64", "linux-musl"}    \* the systems the code cannot always tell from glibc's
TruePlatforms == \A n \in 1 .. Len(world.pubs), os \in OsKind \ {"linux-aarch64"} :
    (world.pubs[n].kind # "none" /\ world.pubs[n].plat = canonical_build_platform(os))
       => Fits(world.pubs[n].kind, os)
Orderly == TrueHints /\ DistinctNames /\ OwnAddresses /\ TruePlatforms

\* No machine is given a binary that does not start on it, neither by a push nor by the loop,
\* except the two the code gives up on: musl machines when only the glibc binary is there, and
\* machines on aarch64, which share a platform with x86-64 in the adverts and are not told
\* apart by old servers.
RightBinary ==
    /\ Orderly => \A s \in sent :
          LET w == world.machine[s.to]
          IN  \/ Fits(s.kind, w.os)
              \/ w.os = "linux-musl" /\ s.kind = "linux" /\ "linux-musl" \notin job.bins
              \/ w.os \in Apart /\ w.legacy
    /\ Orderly => \A m \in Machines :
          \/ machine[m].up \/ world.machine[m].os \in Apart

\* What a fleet update reports is true of the machines.  A success names the version a probe saw
\* after the request, and one that changed is the operator's, unless the machine upgraded itself:
\* never one a probe of another host saw.  A machine to which no binary was sent, and that does not
\* upgrade itself, runs what it ran; so a host that failed to connect, or was skipped, or was only
\* looked at in a dry run, is as it was.  (A failure after the binary was sent proves nothing, as
\* its answer may be lost, and neither does a success with the old version: it may be the old
\* process that answered.)
Results == 1 .. Len(op.results)
ByItself(m) == world.machine[m].auto \/ spent.pulls > 0
ResultsTrue ==
    /\ job.dry \/ job.cmd # "update" => sent = {}
    /\ \A s \in sent : \E j \in 1 .. Len(op.plans) : op.plans[j].name = s.row
    /\ (job.cmd = "update" /\ Orderly) => \A j \in Results :
          LET r == op.results[j] IN
          r.success => /\ r.to # Nobody /\ r.new # NoVersion
                       /\ (r.new # r.old /\ ~ByItself(r.to)) => r.new = Target
    /\ \A m \in Machines :
          (machine[m].ver # world.machine[m].ver /\ ~ByItself(m)) => \E s \in sent : s.to = m
    /\ (job.cmd = "update" /\ op.at = "done" /\ op.exit = "ok" /\ ~job.dry) =>
          Len(op.results) = Len(op.plans)

\* Every fleet command ends, and every machine that opted in has what its server offers.
FleetRest == op.at = "done" /\ Caught
=============================================================================
