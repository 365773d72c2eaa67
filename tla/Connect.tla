------------------------------ MODULE Connect ------------------------------
(***************************************************************************)
(* How a client command reaches its host.  One process per invocation of    *)
(* the CLI: it reads the config file, tries the control master's socket,    *)
(* probes the LAN, tries SSH, the ports of the host in parallel, the        *)
(* rendezvous server and the relay, falls back to SSH, saves what the       *)
(* server told it about itself, and runs its command once - or becomes a    *)
(* control master that serves other processes over a Unix socket.           *)
(*                                                                         *)
(* What the network lets through is a rigid record, the "world"; only slow  *)
(* servers and lost answers are left to chance.  Remote commands are their  *)
(* execution, counted per process.                                          *)
(***************************************************************************)
EXTENDS Integers, Sequences, FiniteSets

CONSTANTS
    Procs,          \* client processes
    Scenarios,      \* records [plan, world, config], see MCConnect
    None            \* no port, no block, no process

\* "ka" is the keepalive among the requests of a master.  Port 0 is not a port: on the
\* wire it asks for the tray or the service.
ASSUME ConnectAssumption ==
    /\ IsFiniteSet(Procs) /\ None \notin Procs /\ "ka" \notin Procs \cup {None}
    /\ \A s \in Scenarios : \A x \in Procs : s.plan[x].port # 0

VARIABLES
    scn,        \* the scenario
    p,          \* the client processes
    open,       \* logged-in connections of the processes: <<process, port>>
    file,       \* ~/.mrsh/config: its Host blocks, and whether a write is under way
    sock,       \* socket files of the host's masters, by port: the process that bound it
    m           \* control masters

vars == <<scn, p, open, file, sock, m>>

Plan(x) == scn.plan[x]
World == scn.world

DEFAULT_PORT == 8822
TRAY_PORT == 9822
AUTO_TRY_PORTS == {TRAY_PORT, DEFAULT_PORT, 22}
Ports == AUTO_TRY_PORTS \cup {2222}
ssh_client_available == World.ssh # "missing"

-----------------------------------------------------------------------------
(* The config file. *)

\* A Host block: pattern, explicit Hostname, Port, DeviceID, LanFirst, and whether it
\* holds settings that parse reads and to_string does not write.
Block(pat) == [pattern |-> pat, hostname |-> FALSE, port |-> DEFAULT_PORT, dev |-> None,
               lan |-> "auto", extra |-> FALSE]
match_pattern(pattern, name) == pattern \in {"*", name}

\* Config::parse: lines it does not know are skipped, so a file that is still empty, being
\* rewritten, is a config without hosts.
parse(f) == IF f.torn THEN <<>> ELSE f.blocks
ConfigLoad == parse(file)
\* Config::to_string, read back by parse.
Serialized(blocks) == [i \in DOMAIN blocks |-> [blocks[i] EXCEPT !.extra = FALSE]]

find_host(blocks, name) ==
    LET hits == {i \in DOMAIN blocks : match_pattern(blocks[i].pattern, name)}
    IN  IF hits = {} THEN None ELSE blocks[CHOOSE i \in hits : \A j \in hits : i <= j]

\* update_host_relay_info goes by the exact pattern.
update_host_relay_info(blocks, name, dev) ==
    LET hits == {i \in DOMAIN blocks : blocks[i].pattern = name}
        first == CHOOSE i \in hits : \A j \in hits : i <= j
    IN  IF hits = {} THEN Append(blocks, [Block(name) EXCEPT !.dev = dev])
        ELSE [blocks EXCEPT ![first].dev = dev]

-----------------------------------------------------------------------------
(* The command line, and what of it is settled before any connection. *)

port_explicit(x) == Plan(x).port # None
PortFromConfig(x) ==
    /\ ~port_explicit(x) /\ p[x].block # None
    /\ p[x].block.port # DEFAULT_PORT
auto_try_ports(x) == ~port_explicit(x) /\ ~PortFromConfig(x)
host_is_device_id(x) == Plan(x).target = "devid"
DeviceId(x) ==
    IF p[x].block # None /\ p[x].block.dev # None THEN p[x].block.dev
    ELSE IF host_is_device_id(x) THEN "dev" ELSE None
LanPolicy(x) == IF p[x].block = None THEN "auto" ELSE p[x].block.lan
ProbesLan(x) ==
    /\ Plan(x).target = "name"
    /\ p[x].block = None \/ ~p[x].block.hostname
    /\ LanPolicy(x) # "no"

\* build_mux_request: None for the commands that stream; any command it does not know
\* goes to the master as an exec of its own words.
build_mux_request(cmd) == cmd \notin {"push", "shell", "server-version", "reboot"}
\* The commands run_ssh_command knows.
SshCommands == {"exec", "ping", "push", "pull", "dlog", "shell"}
DesktopCommands == {"screenshot", "window", "clip", "mouse", "key"}

NewProc(x) ==
    [pc |-> IF Plan(x).cmd = "none" THEN "done" ELSE "start", block |-> None, port |-> None,
     route |-> "dns", task |-> [q \in AUTO_TRY_PORTS |-> "idle"], chan |-> None, conn |-> None,
     blocks |-> <<>>, exit |-> "none", ran |-> <<>>, got |-> None, muxlost |-> FALSE, orphan |-> FALSE]
NewMaster == [wire |-> <<>>, replies |-> <<>>, tasks |-> {}, lock |-> None, stop |-> FALSE]

Init ==
    /\ scn \in Scenarios
    /\ p = [x \in Procs |-> NewProc(x)]
    /\ open = {}
    /\ file = [blocks |-> scn.config, torn |-> FALSE]
    /\ sock = [q \in Ports |-> None]
    /\ m = [x \in Procs |-> NewMaster]

Set(x, r) == p' = [p EXCEPT ![x] = r]
At(x, pc) == p[x].pc = pc
Goto(x, pc) == Set(x, [p[x] EXCEPT !.pc = pc])
Exit(x, code) == Set(x, [p[x] EXCEPT !.pc = "done", !.exit = code])
KeepShared == UNCHANGED <<scn, file, sock, m>>
KeepNet == UNCHANGED <<scn, open, file, sock, m>>

Load(x) ==
    LET b == find_host(ConfigLoad, Plan(x).host)
    IN  /\ At(x, "start")
        /\ Set(x, [p[x] EXCEPT
             !.block = b,
             !.port = IF port_explicit(x) THEN Plan(x).port
                      ELSE IF b # None THEN b.port ELSE DEFAULT_PORT,
             !.pc = IF Plan(x).mux /\ Plan(x).cmd # "master" /\ build_mux_request(Plan(x).cmd)
                    THEN "mux" ELSE "route"])
        /\ KeepNet

-----------------------------------------------------------------------------
(* The control master's socket, from the client's side. *)

Listening(x) == x # None /\ p[x].pc = "serve"
\* socket_path, for the port resolved so far.
Socket(x) == sock[p[x].port]
Unlink(x) == sock' = [sock EXCEPT ![p[x].port] = None]

\* try_request and stop_master, the connection to the socket.
TryMux(x) ==
    /\ At(x, "mux")
    /\ IF Listening(Socket(x))
       THEN /\ Goto(x, "muxwait")
            /\ m' = [m EXCEPT ![Socket(x)].tasks = @ \cup {x}]
       ELSE /\ IF Plan(x).cmd = "stop" THEN Exit(x, "fail") ELSE Goto(x, "unlink")
            /\ UNCHANGED m
    /\ UNCHANGED <<scn, open, file, sock>>

\* No master or a stale socket: the file goes, whosoever's it is by now.
RemoveSocket(x) ==
    /\ At(x, "unlink")
    /\ Unlink(x)
    /\ Goto(x, "route")
    /\ UNCHANGED <<scn, open, file, m>>

\* 60 seconds without an answer, or the master is gone: try_request returns None and the
\* command takes the normal path, whether or not the remote side has run it.
MuxLost(x) ==
    /\ At(x, "muxwait")
    /\ IF Plan(x).cmd = "stop" THEN Exit(x, "fail")
       ELSE Set(x, [p[x] EXCEPT !.pc = "route", !.muxlost = TRUE])
    /\ KeepNet

-----------------------------------------------------------------------------
(* The LAN probe, and SSH before everything else. *)

\* read_password: typed at the terminal, or down the pipe within three seconds.
read_password(x) == Plan(x).user /\ Plan(x).pw
\* auth_password: the server knows no password login.
auth_password == FALSE

\* A TLS connection and login over a route; a slow server may or may not answer in the
\* time the caller allows.
Login(x, route, port) ==
    IF route \notin World.routes \/ port \notin World.running THEN {FALSE}
    ELSE IF route \in {"dns", "mdns"} /\ ~Plan(x).quic /\ read_password(x) THEN {auth_password}
    ELSE IF port \in World.slow THEN BOOLEAN ELSE {TRUE}

ConnectedAs(x, via, port) ==
    [p[x] EXCEPT !.conn = [via |-> via, port |-> port], !.pc = "save"]
Opened(x, port) == open' = open \cup {<<x, port>>}

SshFirst(x) ==
    /\ Plan(x).user /\ Plan(x).target = "name" /\ auto_try_ports(x)
    /\ ~Plan(x).tty /\ ssh_client_available

\* probe_lan: <host>.local must resolve and the port must accept a connection.
probe_lan(x) == "mdns" \in World.routes /\ p[x].port \in World.running

Route(x) ==
    /\ At(x, "route")
    /\ IF Plan(x).quic \/ Plan(x).target = "fs" THEN Goto(x, "other")
       ELSE IF ProbesLan(x) /\ ~probe_lan(x) /\ LanPolicy(x) = "yes" THEN Exit(x, "fail")
       ELSE Set(x, [p[x] EXCEPT
              !.route = IF ProbesLan(x) /\ probe_lan(x) THEN "mdns" ELSE "dns",
              !.pc = IF SshFirst(x) THEN "sshfirst" ELSE "connect"])
    /\ KeepNet

\* --quic and fs:// have one way in.
OpenOther(x) ==
    /\ At(x, "other")
    /\ \E ok \in IF Plan(x).quic THEN Login(x, p[x].route, p[x].port) ELSE {World.spool} :
         IF ok THEN /\ Set(x, [ConnectedAs(x, IF Plan(x).quic THEN "quic" ELSE "fs", p[x].port)
                                 EXCEPT !.pc = IF Plan(x).quic THEN "run" ELSE "save"])
                    /\ Opened(x, p[x].port)
         ELSE Exit(x, "fail") /\ UNCHANGED open
    /\ KeepShared

\* SshSession::connect: the key named on the command line, or one key file after the
\* other; load_secret_key_with_fallback passes over those that do not load.
key_candidates(x) == IF Plan(x).key THEN <<World.keys[1]>> ELSE World.keys
Loads(key) == key # "garbled"
SshAccepts(x) ==
    /\ World.ssh = "ok"
    /\ \E i \in DOMAIN key_candidates(x) : Loads(key_candidates(x)[i]) /\ key_candidates(x)[i] = "good"

\* run_ssh_fallback: the native ssh client takes a shell, and its exit code is final;
\* SshSession::connect tries the keys.
SshOpens(x, pc, failpc) ==
    /\ At(x, pc)
    /\ IF (Plan(x).cmd = "shell" /\ World.nativessh) \/ SshAccepts(x)
       THEN Set(x, [p[x] EXCEPT !.pc = "sshrun", !.conn = [via |-> "ssh", port |-> 22]])
       ELSE IF failpc = "done" THEN Exit(x, "fail") ELSE Goto(x, failpc)
    /\ KeepNet
SshFirstOpens(x) == SshOpens(x, "sshfirst", "connect")
SshFallback(x) == SshOpens(x, "ssh", "done")

Ran(x, via, port) == Append(p[x].ran, [via |-> via, port |-> port])
\* What can become of a command on a connection: run and answered, run and the answer
\* lost, the connection lost before it.
Outcomes == {<<TRUE, "ok">>, <<TRUE, "fail">>, <<FALSE, "fail">>}

SshRunPropagates(x) ==
    /\ At(x, "sshrun")
    /\ \E o \in Outcomes :
         Set(x, [p[x] EXCEPT !.pc = IF o[2] = "fail" THEN "connect" ELSE "done",
                             !.exit = IF o[2] = "fail" THEN "none" ELSE "ok",
                             !.ran = IF o[1] THEN Ran(x, "ssh", 22) ELSE @])
    /\ KeepNet

\* Once the command is on its way over SSH every error ends the process.
SshRun(x) ==
    /\ At(x, "sshrun")
    /\ \E o \in IF SshAccepts(x) /\ Plan(x).cmd \in SshCommands THEN Outcomes
                ELSE {<<FALSE, "fail">>} :
         Set(x, [p[x] EXCEPT !.pc = "done", !.exit = o[2],
                             !.ran = IF o[1] THEN Ran(x, "ssh", 22) ELSE @])
    /\ KeepNet

-----------------------------------------------------------------------------
(* The direct connection. *)

\* connect: one port, patiently.
Direct(x) ==
    /\ At(x, "connect") /\ ~host_is_device_id(x) /\ ~auto_try_ports(x)
    /\ \E ok \in Login(x, p[x].route, p[x].port) :
         IF ok THEN Set(x, ConnectedAs(x, "direct", p[x].port)) /\ Opened(x, p[x].port)
         ELSE Goto(x, "failed") /\ UNCHANGED open
    /\ KeepShared

\* connect_auto_try: a task for each port, a channel of capacity one.
AutoTry(x) ==
    /\ At(x, "connect") /\ ~host_is_device_id(x) /\ auto_try_ports(x)
    /\ Set(x, [p[x] EXCEPT !.pc = "race", !.task = [q \in AUTO_TRY_PORTS |-> "trying"]])
    /\ KeepNet

\* A task's login ends, within its three seconds or with an error.
TaskLogsIn(x, q) ==
    /\ p[x].task[q] = "trying" /\ ~At(x, "done")
    /\ \E ok \in Login(x, p[x].route, q) :
         /\ Set(x, [p[x] EXCEPT !.task[q] = IF ok THEN "sending" ELSE "over"])
         /\ IF ok THEN Opened(x, q) ELSE UNCHANGED open
    /\ KeepShared

TaskSendsAndForgets(x, q) ==
    /\ p[x].task[q] = "sending"
    /\ IF At(x, "race") THEN p[x].chan = None ELSE TRUE
    /\ Set(x, [p[x] EXCEPT !.chan = IF At(x, "race") THEN q ELSE @, !.task[q] = "over"])
    /\ UNCHANGED open
    /\ KeepShared

\* tx.send: waits for room; when the receiver is gone the connection is dropped.
TaskSends(x, q) ==
    /\ p[x].task[q] = "sending" /\ ~At(x, "done")
    /\ IF At(x, "race")
       THEN /\ p[x].chan = None
            /\ Set(x, [p[x] EXCEPT !.chan = q, !.task[q] = "over"])
            /\ UNCHANGED open
       ELSE /\ Set(x, [p[x] EXCEPT !.task[q] = "over"])
            /\ open' = open \ {<<x, q>>}
    /\ KeepShared

\* rx.recv: the first connection there is wins; four seconds without one, or every task
\* over, and the direct path has failed.
Receive(x) ==
    /\ At(x, "race")
    /\ IF p[x].chan # None
       THEN Set(x, [ConnectedAs(x, "direct", p[x].chan) EXCEPT !.chan = None, !.port = p[x].chan])
       ELSE /\ \A q \in AUTO_TRY_PORTS : p[x].task[q] = "over" \/ q \in World.slow
            /\ Goto(x, "failed")
    /\ KeepNet

-----------------------------------------------------------------------------
(* connect_via_relay. *)

StartRelay(x) ==
    /\ At(x, "connect") /\ host_is_device_id(x)
    /\ Goto(x, "relay")
    /\ KeepNet

FallbackToSshOnly(x) ==
    /\ At(x, "failed")
    /\ IF ~port_explicit(x) /\ ssh_client_available THEN Goto(x, "ssh") ELSE Exit(x, "fail")
    /\ KeepNet

\* The direct path failed: the relay takes the same port; SSH is for those who named none.
Fallback(x) ==
    /\ At(x, "failed")
    /\ IF DeviceId(x) # None THEN Goto(x, "relay")
       ELSE IF ~port_explicit(x) /\ ssh_client_available THEN Goto(x, "ssh")
       ELSE Exit(x, "fail")
    /\ KeepNet

AfterRelay(x) ==
    IF ~host_is_device_id(x) /\ ~port_explicit(x) /\ ssh_client_available THEN "ssh" ELSE "done"
RelayFails(x) ==
    IF AfterRelay(x) = "done" THEN Exit(x, "fail") ELSE Goto(x, AfterRelay(x))

TrayFirst(x) == 0

target_port(x) == IF auto_try_ports(x) THEN 0 ELSE p[x].port

\* do_punch_hole asks for 15 seconds, again every three.
do_punch_hole == World.rdv # "silent"
\* The server: an entry for the device, and the licence if it asks for one.
handle_punch_hole == World.rdv = "found"
\* Offline, unknown and licence errors are failures.
handle_punch_hole_response == handle_punch_hole
ResolvesTo == do_punch_hole /\ handle_punch_hole_response

\* resolve_with_port: hbbs knows the device or not; the self-loop needs neither.
Resolve(x) ==
    /\ At(x, "relay")
    /\ IF World.self
       THEN \E ok \in Login(x, "loop", p[x].port) :
              IF ok THEN Set(x, ConnectedAs(x, "loop", p[x].port)) /\ Opened(x, p[x].port)
              ELSE RelayFails(x) /\ UNCHANGED open
       ELSE /\ IF ResolvesTo THEN Goto(x, "lanrace") ELSE RelayFails(x)
            /\ UNCHANGED open
    /\ KeepShared

\* The addresses in the peer's network info, if a group token decrypts it.
lan_port(x) == IF target_port(x) # 0 THEN target_port(x) ELSE DEFAULT_PORT
LanRace(x) ==
    /\ At(x, "lanrace")
    /\ \E ok \in Login(x, "netinfo", lan_port(x)) :
         IF ok THEN Set(x, ConnectedAs(x, "netinfo", lan_port(x))) /\ Opened(x, lan_port(x))
         ELSE Goto(x, "p2p") /\ UNCHANGED open
    /\ KeepShared

PeerToPeer(x) ==
    /\ At(x, "p2p")
    /\ \E ok \in Login(x, "p2p", p[x].port) :
         IF ok THEN Set(x, ConnectedAs(x, "p2p", p[x].port)) /\ Opened(x, p[x].port)
         ELSE /\ IF World.relay = "unnamed" THEN RelayFails(x) ELSE Goto(x, "hbbr")
              /\ UNCHANGED open
    /\ KeepShared

\* accept_relay_connection: where the device's service puts a relayed stream.
RelayedTo(target) ==
    IF target \notin {0, DEFAULT_PORT} THEN (IF target \in World.running THEN target ELSE None)
    ELSE IF target = 0 /\ TRAY_PORT \in World.running THEN TRAY_PORT ELSE DEFAULT_PORT

ThroughRelay(x) ==
    LET q == RelayedTo(target_port(x))
    IN  /\ At(x, "hbbr")
        /\ IF World.relay = "ok" /\ q # None
           THEN Set(x, ConnectedAs(x, "relay", q)) /\ Opened(x, q)
           ELSE RelayFails(x) /\ UNCHANGED open
        /\ KeepShared

-----------------------------------------------------------------------------
(* The connected process. *)

\* What a tray reports is not saved: its rendezvous server is localhost.
reported_rdv_is_localhost(x) == p[x].conn.port = TRAY_PORT
SaveLoad(x) ==
    LET new == update_host_relay_info(ConfigLoad, Plan(x).host, "dev")
    IN  /\ At(x, "save")
        /\ IF reported_rdv_is_localhost(x) \/ p[x].conn.via = "fs" \/ new = ConfigLoad
           THEN Goto(x, "gate")
           ELSE Set(x, [p[x] EXCEPT !.pc = "truncate", !.blocks = new])
        /\ KeepNet

\* fs::write empties the file and then fills it.
SaveTruncate(x) ==
    /\ At(x, "truncate")
    /\ file' = [blocks |-> <<>>, torn |-> TRUE]
    /\ Goto(x, "write")
    /\ UNCHANGED <<scn, open, sock, m>>
SaveWrite(x) ==
    /\ At(x, "write")
    /\ file' = [blocks |-> Serialized(p[x].blocks), torn |-> FALSE]
    /\ Goto(x, "gate")
    /\ UNCHANGED <<scn, open, sock, m>>

\* A desktop command is refused on the SYSTEM service; -M becomes a master.
Gate(x) ==
    /\ At(x, "gate")
    /\ IF p[x].conn.port = DEFAULT_PORT /\ Plan(x).cmd \in DesktopCommands
       THEN Exit(x, "blocked")
       ELSE Goto(x, IF Plan(x).cmd = "master" THEN "check" ELSE "run")
    /\ KeepNet

Run(x) ==
    /\ At(x, "run")
    /\ \E o \in Outcomes :
         Set(x, [p[x] EXCEPT !.pc = "done", !.exit = o[2],
                             !.ran = IF o[1] THEN Ran(x, p[x].conn.via, p[x].conn.port) ELSE @])
    /\ KeepNet

-----------------------------------------------------------------------------
(* run_master: check the socket, remove it, bind it, serve. *)

MasterChecks(x) ==
    /\ At(x, "check")
    /\ IF Listening(Socket(x)) THEN Exit(x, "fail") ELSE Goto(x, "remove")
    /\ KeepNet
MasterRemoves(x) ==
    /\ At(x, "remove")
    /\ Unlink(x)
    /\ Goto(x, "bind")
    /\ UNCHANGED <<scn, open, file, m>>
MasterBinds(x) ==
    /\ At(x, "bind")
    /\ IF Socket(x) = None THEN sock' = [sock EXCEPT ![p[x].port] = x] /\ Goto(x, "serve")
       ELSE Exit(x, "fail") /\ UNCHANGED sock
    /\ UNCHANGED <<scn, open, file, m>>

SetMaster(x, r) == m' = [m EXCEPT ![x] = r]

\* handle_mux_client: control-stop, or the lock and one request on the shared connection.
StopCommand(x, y) ==
    /\ At(x, "serve") /\ y \in m[x].tasks /\ Plan(y).cmd = "stop" /\ At(y, "muxwait")
    /\ SetMaster(x, [m[x] EXCEPT !.tasks = @ \ {y}, !.stop = TRUE])
    /\ Exit(y, "ok")
    /\ Unlink(y)
    /\ UNCHANGED <<scn, open, file>>

Forward(x, y) ==
    /\ At(x, "serve") /\ y \in m[x].tasks /\ Plan(y).cmd # "stop" /\ m[x].lock = None
    /\ SetMaster(x, [m[x] EXCEPT !.tasks = @ \ {y}, !.lock = y, !.wire = Append(@, y)])
    /\ UNCHANGED <<scn, p, open, file, sock>>

\* The keepalive task sends a ping every minute under the same lock.
Keepalive(x) ==
    /\ At(x, "serve") /\ m[x].lock = None /\ ~m[x].stop
    /\ World.pings /\ \A y \in Procs : "ka" \notin {m[y].wire[i] : i \in DOMAIN m[y].wire}
    /\ SetMaster(x, [m[x] EXCEPT !.lock = "ka", !.wire = Append(@, "ka")])
    /\ UNCHANGED <<scn, p, open, file, sock>>
KeepaliveTimeout(x) ==
    /\ At(x, "serve") /\ m[x].lock = "ka"
    /\ SetMaster(x, [m[x] EXCEPT !.lock = None, !.stop = TRUE])
    /\ UNCHANGED <<scn, p, open, file, sock>>

\* The server answers the requests of a connection in order; it runs commands.
ServerAnswers(x) ==
    LET y == Head(m[x].wire)
    IN  /\ m[x].wire # <<>>
        /\ SetMaster(x, [m[x] EXCEPT !.wire = Tail(@), !.replies = Append(@, y)])
        /\ IF y = "ka" THEN UNCHANGED p
           ELSE Set(y, [p[y] EXCEPT !.ran = Ran(y, "mux", p[x].conn.port)])
        /\ UNCHANGED <<scn, open, file, sock>>

\* The holder of the lock reads the next answer; a client that left is not there for it.
Returned(x) ==
    LET y == m[x].lock
        waits == y \in Procs /\ At(y, "muxwait")
    IN  /\ At(x, "serve") /\ y # None /\ m[x].replies # <<>>
        /\ SetMaster(x, [m[x] EXCEPT !.lock = None, !.replies = Tail(@)])
        /\ IF waits THEN \E code \in {"ok", "fail"} :
                           Set(y, [p[y] EXCEPT !.pc = "done", !.exit = code,
                                     !.got = Head(m[x].replies), !.orphan = m[x].stop])
           ELSE UNCHANGED p
        /\ UNCHANGED <<scn, open, file, sock>>

\* Ctrl+C, five idle minutes, control-stop or a failed keepalive end the master, whatever
\* its clients wait for; the socket file goes with it, also one that another master bound.
\* A crash leaves the file behind.
MasterStops(x) ==
    /\ At(x, "serve")
    /\ \E crash \in {FALSE, World.crash} :
         IF crash THEN UNCHANGED sock ELSE Unlink(x)
    /\ SetMaster(x, [m[x] EXCEPT !.tasks = {}, !.lock = None])
    /\ Exit(x, "ok")
    /\ UNCHANGED <<scn, open, file>>

-----------------------------------------------------------------------------
Strategy(x) ==
    \/ Load(x) \/ TryMux(x) \/ RemoveSocket(x) \/ Route(x) \/ OpenOther(x)
    \/ SshFirstOpens(x) \/ SshFallback(x) \/ SshRun(x)
    \/ Direct(x) \/ AutoTry(x) \/ Receive(x) \/ StartRelay(x) \/ Fallback(x)
    \/ Resolve(x) \/ LanRace(x) \/ PeerToPeer(x) \/ ThroughRelay(x)
    \/ SaveLoad(x) \/ SaveTruncate(x) \/ SaveWrite(x) \/ Gate(x) \/ Run(x)
    \/ MasterChecks(x) \/ MasterRemoves(x) \/ MasterBinds(x)
Tasks(x) == \E q \in AUTO_TRY_PORTS : TaskLogsIn(x, q) \/ TaskSends(x, q)
Serving(x) ==
    \/ Keepalive(x) \/ KeepaliveTimeout(x) \/ ServerAnswers(x) \/ Returned(x)
    \/ \E y \in Procs : StopCommand(x, y) \/ Forward(x, y)

Next == \E x \in Procs : Strategy(x) \/ Tasks(x) \/ Serving(x) \/ MuxLost(x) \/ MasterStops(x)

\* Every process goes on, a task's login ends in its time, and a client waits for the
\* master no longer than a minute.
Fairness == \A x \in Procs : WF_vars(Strategy(x)) /\ WF_vars(Tasks(x)) /\ WF_vars(MuxLost(x))

Spec == Init /\ [][Next]_vars /\ Fairness

-----------------------------------------------------------------------------
\* Connect.RunsOnce: whichever paths fail, a command runs at most once on the remote side,
\* and exit code 0 means that it ran.  It may run twice if a control master's answer was
\* lost, and the answer of a master that is stopping may be another's (AnswerIsMine).
RunsOnce ==
    \A x \in Procs :
        /\ Len(p[x].ran) <= IF p[x].muxlost THEN 2 ELSE 1
        /\ p[x].exit = "ok" /\ Plan(x).cmd \notin {"master", "stop"} => p[x].ran # <<>> \/ p[x].orphan

\* Connect.PinnedPort: a command with -p runs on that port of the device or not at all,
\* whichever of direct, LAN, peer-to-peer and relay path it took in the end.
PinnedPort ==
    \A x \in Procs : port_explicit(x) /\ ~Plan(x).mux =>
        \A i \in DOMAIN p[x].ran : p[x].ran[i].port = Plan(x).port

\* Connect.AnswerIsMine: the answer a process gets through a control master is the answer
\* to its own request, unless the master was already stopping.
AnswerIsMine ==
    \A x \in Procs : p[x].got \notin {None, x} => p[x].orphan

\* Connect.OwnAnswerOnce: a command runs once, and the answer it reports is its own, through
\* the fallbacks from path to path and with several processes on one control master.
OwnAnswerOnce == RunsOnce /\ AnswerIsMine

\* The ways in that the comments of async_main and connect_via_relay promise, whatever
\* their order: a port of the host that answers, the paths to a known device, SSH.
Fast(x, route, q) == Login(x, route, q) = {TRUE}
PortsTried(x) == IF auto_try_ports(x) THEN AUTO_TRY_PORTS ELSE {p[x].port}
DirectWay(x) ==
    /\ Plan(x).target = "name"
    /\ \E q \in PortsTried(x) :
         Fast(x, "dns", q) \/ (ProbesLan(x) /\ probe_lan(x) /\ Fast(x, "mdns", q))
RelayWay(x) ==
    /\ DeviceId(x) # None
    /\ IF World.self THEN Fast(x, "loop", p[x].port)
       ELSE /\ ResolvesTo
            /\ \/ Fast(x, "netinfo", lan_port(x)) \/ Fast(x, "p2p", p[x].port)
               \/ World.relay = "ok" /\ RelayedTo(target_port(x)) # None
SshWay(x) == Plan(x).target = "name" /\ ~port_explicit(x) /\ SshAccepts(x)
WayIn(x) ==
    /\ p[x].pc # "start" /\ Plan(x).cmd = "exec" /\ Plan(x).target # "fs" /\ ~Plan(x).quic
    /\ LanPolicy(x) # "yes"
    /\ DirectWay(x) \/ RelayWay(x) \/ SshWay(x)

\* Connect.GetsIn: a command whose host can be reached on one of the paths gets to a
\* connection whatever fails before it, and every process but a master ends.
GetsIn ==
    \A x \in Procs :
        /\ WayIn(x) ~> p[x].conn # None \/ p[x].got # None
        /\ <>(p[x].pc \in {"done", "serve"})

\* Connect.LosersHangUp: the connections that lost the race for a port are closed in the
\* end, also if the process lives on as a master: it holds the one it uses.
LosersHangUp ==
    \A x \in Procs : <>[](\A q \in AUTO_TRY_PORTS :
        <<x, q>> \in open /\ ~At(x, "done") => p[x].conn # None /\ p[x].conn.port = q)
=============================================================================
