------------------------------ MODULE Adverts ------------------------------
(***************************************************************************)
(* Version adverts: an operator publishes a version for a platform and a    *)
(* track on a rendezvous server, which keeps it in memory; every machine    *)
(* asks its servers in a loop, and installs a newer version while the       *)
(* watchdog is clear.  `self-update-from-rdv` does the same on request.     *)
(* The watchdog of an installed version either hears a heartbeat and is     *)
(* cleared, or brings the version before it back.                           *)
(*                                                                         *)
(* A version is a sequence of components <<number, text>>: the number it    *)
(* begins with, and 0, or the rank of the whole component among those that  *)
(* are not numbers ("30-rc1" is <<30, k>>).  <<>> is no version.            *)
(* What happens on a machine between the request and the new process is     *)
(* SelfUpdate's; here an update is a binary that waits for a restart, which *)
(* a service manager carries out.                                           *)
(***************************************************************************)
EXTENDS Integers, Sequences, FiniteSets, SequencesExt

CONSTANTS
    Machines,       \* the machines that run a server
    RdvServers,     \* the rendezvous servers, in the order the machines ask them
    AdvertWorlds    \* set of [machine, pubs, faulty, max]: for each machine its [os, legacy, cap,
                    \* track, auto, key, ver]; what is published, in order; the versions that start
                    \* but whose heartbeats never come; and the bounds: restarts of a rendezvous
                    \* server, `self-update-from-rdv` requests, and things that fail on a machine
                    \* (answers and heartbeats it does not get, updates)

VARIABLES
    world,      \* one of AdvertWorlds
    machine,    \* machine -> [ver, kind, up, watch, next, by, old]: what it runs; the watchdog,
                \* which is "clear", "armed" (probing begins with the next start) or "probing";
                \* a binary that waits for the restart, and on whose behalf; the backup
    adverts,    \* server -> key -> entry
    wire,       \* publications on their way, by number
    pub,        \* the publisher: [n, at, reply, told]
    task,       \* machine -> "loop" or "pull" -> [at, want, kind, insecure]
    spent       \* [restarts, pulls, lost]

advertVars == <<world, machine, adverts, wire, pub, task, spent>>

NoVersion == <<>>
OsKind == {"windows", "linux", "linux-musl", "linux-aarch64"}
NoBinary == [ver |-> NoVersion, kind |-> "none"]
NoAdvert == [ver |-> NoVersion, kind |-> "none", signed |-> FALSE]
Idle == [at |-> "idle", want |-> NoVersion, kind |-> "none", insecure |-> FALSE]
Tasks == {"loop", "pull"}

\* Every machine runs one of the systems a binary is built for, and some version of it.
ASSUME AdvertAssumption ==
    /\ Len(RdvServers) > 0 /\ IsFiniteSet(Machines)
    /\ \A w \in AdvertWorlds : \A m \in Machines :
          w.machine[m].os \in OsKind /\ w.machine[m].ver # NoVersion

-----------------------------------------------------------------------------
(* Comparing versions. *)

Component(v, i) == IF i <= Len(v) THEN v[i] ELSE <<0, 0>>
\* The first component that differs decides; missing ones are zero.
FirstDifference(a, b, Greater(_, _), Equal(_, _)) ==
    \E i \in 1 .. IF Len(a) > Len(b) THEN Len(a) ELSE Len(b) :
       /\ Greater(Component(a, i), Component(b, i))
       /\ \A j \in 1 .. i - 1 : Equal(Component(a, j), Component(b, j))
\* The server: components that are not both numbers are compared as texts.
semver_greater(a, b) ==
    LET Greater(x, y) == IF x[2] # 0 \/ y[2] # 0 THEN x[2] > y[2] ELSE x[1] > y[1]
        Equal(x, y) == IF x[2] # 0 \/ y[2] # 0 THEN x[2] = y[2] ELSE x[1] = y[1]
    IN  FirstDifference(a, b, Greater, Equal)
\* The machine, for a pinned version: only the number a component begins with counts.
semver_strictly_greater(a, b) ==
    LET Greater(x, y) == x[1] > y[1]
        Equal(x, y) == x[1] = y[1]
    IN  FirstDifference(a, b, Greater, Equal)

-----------------------------------------------------------------------------
(* Platforms and machines. *)

\* The platform the running binary was built for.  The architecture is not part of it.
canonical_build_platform(kind) ==
    CASE kind = "windows" -> "windows-msvc"
      [] kind = "linux-musl" -> "linux-musl"
      [] OTHER -> "linux-glibc"
Key(m) == <<canonical_build_platform(machine[m].kind), world.machine[m].track>>
Keys ==
    {<<canonical_build_platform(kind), world.machine[m].track>> : kind \in OsKind, m \in Machines}
    \cup {<<world.pubs[n].plat, world.pubs[n].track>> : n \in 1 .. Len(world.pubs)}

\* A static musl binary also runs on glibc.
Fits(kind, os) == kind = os \/ (kind = "linux-musl" /\ os = "linux")

AdvertInit ==
    /\ world \in AdvertWorlds
    /\ machine = [m \in Machines |-> [ver |-> world.machine[m].ver, kind |-> world.machine[m].os,
                                      up |-> TRUE, watch |-> "clear", next |-> NoBinary, by |-> "none",
                                      old |-> NoBinary]]
    /\ adverts = [s \in Range(RdvServers) |-> [k \in Keys |-> NoAdvert]]
    /\ wire = {} /\ pub = [n |-> 1, at |-> "idle", reply |-> "none", told |-> <<>>]
    /\ task = [m \in Machines |-> [t \in Tasks |-> Idle]]
    /\ spent = [restarts |-> 0, pulls |-> 0, lost |-> 0]

-----------------------------------------------------------------------------
(* Publishing: `mrsh rdv publish`. *)

\* One datagram, or a TCP connection if there is a blob.  Either may arrive after the
\* publisher has given up.
publish_version ==
    /\ pub.at = "idle" /\ pub.n <= Len(world.pubs)
    /\ pub' = [pub EXCEPT !.at = "sent"] /\ wire' = wire \cup {pub.n}
    /\ UNCHANGED <<world, machine, adverts, task, spent>>

\* handle_publish_version: whatever was stored is replaced.  The reply may be lost.
handle_publish_version(n) ==
    /\ n \in wire /\ wire' = wire \ {n}
    /\ LET p == world.pubs[n]
           accepted == p.ver # NoVersion
           reply == IF accepted THEN "accepted" ELSE "rejected"
       IN  /\ adverts' = IF accepted
                         THEN [adverts EXCEPT ![p.srv][<<p.plat, p.track>>] =
                                  [ver |-> p.ver, kind |-> p.kind, signed |-> p.signed]]
                         ELSE adverts
           /\ \/ pub.n = n /\ pub' = [pub EXCEPT !.reply = reply]
              \/ UNCHANGED pub
    /\ UNCHANGED <<world, machine, task, spent>>
PublishLost(n) ==
    /\ n \in wire /\ wire' = wire \ {n}
    /\ UNCHANGED <<world, machine, adverts, pub, task, spent>>

\* The answer, or the timeout: there is one server to try.
PublishTold ==
    /\ pub.at = "sent"
    /\ pub' = [n |-> pub.n + 1, at |-> "idle", reply |-> "none",
               told |-> Append(pub.told, IF pub.reply = "accepted" THEN "ok" ELSE "failed")]
    /\ UNCHANGED <<world, machine, adverts, wire, task, spent>>

RdvRestart(s) ==
    /\ spent.restarts < world.max.restarts
    /\ adverts' = [adverts EXCEPT ![s] = [k \in Keys |-> NoAdvert]]
    /\ spent' = [spent EXCEPT !.restarts = @ + 1]
    /\ UNCHANGED <<world, machine, wire, pub, task>>

-----------------------------------------------------------------------------
(* A machine asks.  Servers are tried in order; one that does not answer is passed over. *)

AnsweredBy(s) ==
    \/ s = RdvServers[1] /\ UNCHANGED spent
    \/ /\ s # RdvServers[1] /\ spent.lost < world.max.lost
       /\ spent' = [spent EXCEPT !.lost = @ + 1]

\* handle_query_version
Offer(s, m) ==
    LET e == adverts[s][Key(m)]
    IN  IF e.ver # NoVersion /\ semver_greater(e.ver, machine[m].ver) THEN e.ver ELSE NoVersion
Step(m, t, r) == task' = [task EXCEPT ![m][t] = r]
Doing(m, t, at) == machine[m].up /\ task[m][t].at = at

\* run_auto_upgrade_query_loop: the query and the gates.
LoopQuery(m, s) ==
    /\ Doing(m, "loop", "idle") /\ Offer(s, m) # NoVersion
    /\ world.machine[m].auto /\ machine[m].watch = "clear"
    /\ Step(m, "loop", [Idle EXCEPT !.at = "jitter", !.want = Offer(s, m)])
    /\ AnsweredBy(s) /\ UNCHANGED <<world, machine, adverts, wire, pub>>
LoopJitter(m) ==
    /\ Doing(m, "loop", "jitter")
    /\ Step(m, "loop", IF machine[m].watch # "clear" THEN Idle ELSE [task[m]["loop"] EXCEPT !.at = "fetch"])
    /\ UNCHANGED <<world, machine, adverts, wire, pub, spent>>

\* handle_self_update_from_rdv: the query and the version policy.
Refused(m, offer, pin, allow) ==
    \/ offer = NoVersion
    \/ /\ pin # NoVersion
       /\ \/ offer # pin
          \/ /\ ~semver_strictly_greater(pin, machine[m].ver)
             /\ pin # machine[m].ver /\ ~allow
handle_self_update_from_rdv(m, s, pin, allow, insecure) ==
    /\ Doing(m, "pull", "idle") /\ spent.pulls < world.max.pulls
    /\ spent' = [spent EXCEPT !.pulls = @ + 1]
    /\ IF Refused(m, Offer(s, m), pin, allow) THEN UNCHANGED task
       ELSE Step(m, "pull", [Idle EXCEPT !.at = "fetch", !.want = Offer(s, m), !.insecure = insecure])
    /\ UNCHANGED <<world, machine, adverts, wire, pub>>

\* fetch_verify_and_swap: handle_fetch_binary has the version and its blob, and it verifies.
\* A build without a key can only skip the verification, one with a key never does.
ServedLatest(e, want) == e.kind # "none"     \* mutant: the version is not compared
Served(e, want) == e.ver = want /\ e.kind # "none"
Verified(e, key, insecure) == IF insecure THEN ~key ELSE key /\ e.signed
fetch_binary(m, t, s) ==
    /\ Doing(m, t, "fetch")
    /\ LET e == adverts[s][Key(m)]
           k == task[m][t]
       IN  Step(m, t, IF Served(e, k.want) /\ Verified(e, world.machine[m].key, k.insecure)
                      THEN [k EXCEPT !.at = "swap", !.kind = e.kind, !.want = e.ver] ELSE Idle)
    /\ AnsweredBy(s) /\ UNCHANGED <<world, machine, adverts, wire, pub>>
FetchFails(m, t) ==
    /\ Doing(m, t, "fetch") /\ spent.lost < world.max.lost
    /\ Step(m, t, Idle) /\ spent' = [spent EXCEPT !.lost = @ + 1]
    /\ UNCHANGED <<world, machine, adverts, wire, pub>>
\* handle_self_update: the binary waits for the restart and the watchdog is armed, with what it
\* replaces as the backup.  Elsewhere than on Windows the restart may come before the arming.
Running(m) == [ver |-> machine[m].ver, kind |-> machine[m].kind]
Armed(m) ==
    {IF machine[m].watch = "probing" THEN "probing" ELSE "armed"}
    \cup (IF world.machine[m].os = "windows" THEN {} ELSE {machine[m].watch})
handle_self_update(m, binary, who) ==
    \E w \in Armed(m) :
       machine' = [machine EXCEPT ![m] = [@ EXCEPT !.next = binary, !.by = who, !.watch = w,
                                            !.old = IF machine[m].next = NoBinary THEN Running(m)
                                                    ELSE machine[m].next]]
\* record_failure after a refused update, and the outcome of the heartbeats.
Disarmed(m) ==
    machine' = [machine EXCEPT ![m] = [@ EXCEPT !.watch = "clear", !.old = NoBinary]]

\* The loop returns after a swap, until the next process.
Swap(m, t) ==
    /\ Doing(m, t, "swap")
    /\ Step(m, t, IF t = "loop" THEN [Idle EXCEPT !.at = "over"] ELSE Idle)
    /\ handle_self_update(m, [ver |-> task[m][t].want, kind |-> task[m][t].kind], t)
    /\ UNCHANGED <<world, adverts, wire, pub, spent>>
SwapRefused(m, t) ==
    /\ Doing(m, t, "swap") /\ spent.lost < world.max.lost
    /\ Step(m, t, Idle) /\ Disarmed(m)
    /\ spent' = [spent EXCEPT !.lost = @ + 1]
    /\ UNCHANGED <<world, adverts, wire, pub>>

\* The service restarts: its tasks end, and an armed watchdog probes from now on.  A binary for
\* another system does not start.
Restart(m) ==
    /\ machine[m].up /\ machine[m].next # NoBinary
    /\ LET b == machine[m].next
       IN  machine' = [machine EXCEPT ![m] = [@ EXCEPT !.ver = b.ver, !.kind = b.kind, !.next = NoBinary,
                                                       !.up = Fits(b.kind, world.machine[m].os),
                                                       !.watch = IF machine[m].watch = "clear" THEN "clear"
                                                                 ELSE "probing"]]
    /\ task' = [task EXCEPT ![m] = [t \in Tasks |-> Idle]]
    /\ UNCHANGED <<world, adverts, wire, pub, spent>>
\* The script of the update ends early on Windows: before it has stopped the service, so that
\* the process goes on, or after, and the old binary is started again.
SwapFails(m) ==
    /\ world.machine[m].os = "windows" /\ machine[m].by # "rollback"
    /\ machine[m].up /\ machine[m].next # NoBinary /\ spent.lost < world.max.lost
    /\ \E b \in {NoBinary, Running(m)} :
          machine' = [machine EXCEPT ![m] = [@ EXCEPT !.next = b, !.by = "none"]]
    /\ spent' = [spent EXCEPT !.lost = @ + 1]
    /\ UNCHANGED <<world, adverts, wire, pub, task>>

\* run_watchdog_probe: a heartbeat is heard.
WatchdogClears(m) ==
    /\ machine[m].up /\ machine[m].watch = "probing" /\ machine[m].ver \notin world.faulty
    /\ Disarmed(m)
    /\ UNCHANGED <<world, adverts, wire, pub, task, spent>>
\* Three are not heard: the watchdog is disarmed and the backup, if it is found, waits for the
\* restart.  (Windows has removed it when the new version started.)
Rollback(m) ==
    /\ machine[m].up /\ machine[m].watch = "probing"
    /\ \/ machine[m].ver \in world.faulty /\ UNCHANGED spent
       \/ spent.lost < world.max.lost /\ spent' = [spent EXCEPT !.lost = @ + 1]
    /\ \/ machine' = [machine EXCEPT ![m] = [@ EXCEPT !.watch = "clear", !.next = machine[m].old,
                                                      !.old = NoBinary, !.by = "rollback"]]
       \/ Disarmed(m)
    /\ UNCHANGED <<world, adverts, wire, pub, task>>

-----------------------------------------------------------------------------
MachineSteps(m) ==
    \/ LoopJitter(m) \/ \E t \in Tasks, s \in Range(RdvServers) : fetch_binary(m, t, s)
    \/ \E t \in Tasks : Swap(m, t)
    \/ Restart(m) \/ WatchdogClears(m) \/ Rollback(m)
Pull(m) ==
    \E s \in Range(RdvServers), pin \in {NoVersion} \cup {world.pubs[n].ver : n \in 1 .. Len(world.pubs)},
       allow, insecure \in BOOLEAN : handle_self_update_from_rdv(m, s, pin, allow, insecure)
AdvertNext ==
    \/ publish_version \/ PublishTold
    \/ \E n \in 1 .. Len(world.pubs) : handle_publish_version(n) \/ PublishLost(n)
    \/ \E s \in Range(RdvServers) : RdvRestart(s)
    \/ \E m \in Machines :
          \/ \E s \in Range(RdvServers) : LoopQuery(m, s)
          \/ MachineSteps(m) \/ Pull(m) \/ SwapFails(m)
          \/ \E t \in Tasks : FetchFails(m, t) \/ SwapRefused(m, t)

\* The loop runs on, unless the version is one that cannot be heard; what has begun goes on, and
\* the watchdog decides one way or the other.  Answers are lost now and then.
AdvertFairness ==
    /\ WF_advertVars(publish_version) /\ WF_advertVars(PublishTold)
    /\ \A m \in Machines :
          /\ WF_advertVars(LoopQuery(m, RdvServers[1]) /\ machine[m].ver \notin world.faulty)
          /\ WF_advertVars(LoopJitter(m)) /\ WF_advertVars(Restart(m))
          /\ WF_advertVars(WatchdogClears(m) \/ Rollback(m))
          /\ \A t \in Tasks : /\ WF_advertVars(fetch_binary(m, t, RdvServers[1]))
                              /\ WF_advertVars(Swap(m, t))
AdvertSpec == AdvertInit /\ [][AdvertNext]_advertVars /\ AdvertFairness

-----------------------------------------------------------------------------
(* Properties. *)

\* The loop and `self-update-from-rdv` never take a machine back, in the server's order of
\* versions: not if the advert is replaced by an older one, by a late datagram or by hand,
\* while the machine waits between the query and the fetch.
NeverBack ==
    [][\A m \in Machines :
          (machine[m].by \in Tasks /\ machine'[m].ver # machine[m].ver)
             => semver_greater(machine'[m].ver, machine[m].ver)]_machine

\* In the end no machine that opted in is offered anything by its first server that it could
\* install: whatever was published, overwritten, lost or failed on the way, the loop goes on.
\* It does not settle in two cases.  A version whose heartbeats fail is installed, rolled back,
\* and installed again for as long as it is published, or stays if its backup is gone; and on
\* Windows a script that ends before it has stopped the service leaves an armed watchdog that
\* nobody probes, and after the loop's own update no loop: that machine asks no more until its
\* service is started again.  (An advert without a blob or without a signature is offered for
\* ever.)
Installable(m) ==
    LET s == RdvServers[1]
        e == adverts[s][Key(m)]
    IN  /\ machine[m].up /\ world.machine[m].auto
        /\ Offer(s, m) # NoVersion /\ Served(e, Offer(s, m)) /\ Verified(e, world.machine[m].key, FALSE)
Faulty(m) == {machine[m].ver, Offer(RdvServers[1], m)} \cap world.faulty # {}
GaveUp(m) ==
    /\ world.machine[m].os = "windows"
    /\ machine[m].watch = "armed" \/ task[m]["loop"].at = "over"
Caught == \A m \in Machines : Installable(m) => Faulty(m) \/ GaveUp(m)
=============================================================================
