# Verification of mrsh (rsh)

mrsh is a remote shell: a server on every managed machine, a client that runs
shells, commands, transfers and tunnels over TLS, QUIC, SSH, a relay or a shared
directory, and a pair of daemons (rendezvous and relay) through which machines
behind NAT are reached. This directory holds TLA+ models of its concurrent and
fault-exposed parts, the TLC configurations that check them, and TLAPS proofs.
`PROJECT.json` lists, per definition, the source lines it models.

Paths below are relative to the repository: `relay/` is `crates/mrsh-relay/src`,
`server/` is `crates/mrsh-server/src`, `client/` is `crates/mrsh-client/src`,
`core/` is `crates/mrsh-core/src`, `transfer/` is `crates/mrsh-transfer/src`,
`bin/` is `src/`.

## 1. Inventory

| Component | State | Operations | What is hard about it | What makes it correct |
|---|---|---|---|---|
| Relay server `relay/relay.rs` | waiting room (UUID -> sender), per-IP counters, session semaphore, active/total counters, one task per connection, two copy tasks per bridge | accept, handshake, wait or pair, hand over, bridge, timeouts, cleanup | tasks race on the waiting room; the pairing timeout races the peer; the session timeout detaches copy tasks | streams of different UUIDs never joined; every slot and permit returned once; tasks end |
| Rendezvous server `relay/rendezvous/server*.rs` | peers map (address, net info, stream, last seen) | register by UDP and TCP, expiry, relay request | lost, late, reordered datagrams; half-open streams; two locks per lookup | a device is reachable again and again; a datagram never takes its stream away |
| Device side `relay/rendezvous/client_register.rs`, `bin/server_mode.rs` | UDP and TCP registration loops, bounded request channel | register, keepalive, re-register on interface change, go to the relay | two loops feed one channel, reconnects, full channel | one trip to the relay per request |
| Admission `server/listener.rs`, `server/ratelimit.rs`, `server/handler.rs` | global semaphore, per-IP counters, failure records and bans | accept, access list, MaxStartups, limits, first byte, TLS, ban check, login, service, release | two listeners check, then take; refusal between two limits; deadlines | limits hold and are given back; windows and bans agree |
| Interactive shell `server/shell.rs`, `client/shell.rs`, `core/wire.rs`, `core/terminal.rs` | frame readers, pending output, terminal, reader thread, child | stdin, resize, frames both ways, escapes, exit, disconnect | `select!` drops half-read frames; exit races the last output; blocked writes | bytes complete and in order; all output shown; no child left behind |
| Requests, login, execution, sessions `server/handler.rs`, `server/dispatch.rs`, `server/exec.rs`, `server/session.rs`, `core/auth.rs`, `client/commands.rs`, `bin/dispatch_client.rs` | one request loop per connection, child processes, keys in memory and on disk, session counts, two clipboards | the login by several protocols, every CLI command with its calls and what it makes of their answers, streaming, log queries, session requests, clipboard sync | each kind of failure comes back by another way; output and exit code race; a session killed while attached | exit code 0 means it was done; output complete; counts true; every command ends |
| Transfer `server/sync/*`, `client/sync/*`, `transfer/*`, `bin/dispatch_client.rs` | files on both sides, block cache, chunk loop, what is under way on the connection | push and pull of files and directories, sync-dir, delete, backup, block deltas, the server's sync requests | a push that breaks off leaves the two at different places; the file changes while it is read; stale cache | files arrive exact; success means equal sides; answers belong to requests |
| Batch transfer `client/push_via_batch.rs`, `client/pull_via_batch.rs` | one task per file, semaphore, cancel flag, counters, JSONL index, files at the destination | push, pull, resume, cancel | Ctrl-C and crashes between the steps of several tasks; truncated downloads | the summary is true; exit code 0 means every file is whole |
| Client connection `client/client.rs`, `client/relay_connect.rs`, `client/mux.rs`, `bin/dispatch.rs`, `bin/ssh_fallback.rs`, `core/config.rs` | attempts of a process, logged-in connections, the config file, control masters and their sockets | control master, LAN, parallel ports, rendezvous, peer to peer, relay, SSH, saving what was learned | every path may fail late; losers of the port race; two masters for one socket; a second run after a time-out | a way in is found; the command runs once, on the port asked for; losers hang up |
| Tunnels, SOCKS, mux `client/tunnel.rs`, `client/socks.rs`, `server/tunnel.rs`, `server/mux.rs` | two relay tasks per connection, accept loop, channels of a mux connection | connect, relay, end, cut | reads that are not cancel-safe; full queues; closing | only the end of a stream can be lost; relays end |
| SSH, SCP, SFTP `client/ssh_client.rs`, `server/ssh.rs`, `server/scp.rs` | session channels, remote process, SCP state machine | exec, push, pull, shell; sink, source; open, read, write, list | exit status and end of output in either order; acknowledgements in step after a refused item | success reports are true |
| QUIC `client/quic.rs`, `server/quic/*`, `bin/dispatch_quic.rs` | connection, one stream and task per call | login, exec, push, pull, ls, power, status | a lost or idle connection while the command runs | success reports are true; a command runs once |
| File spool `core/fs_transport.rs`, `server/fs_listener.rs` | numbered chunk files, sentinels, marker files | open, claim, write, close, poll | files appear late and in any order; two listeners | a byte stream in each direction; one server |
| Version adverts `relay/rendezvous/server.rs`, `relay/rendezvous/client_query.rs`, `server/selfupdate.rs`, `bin/server_mode.rs`, `bin/rdv_publish.rs` | adverts per platform and track, the loop and the pull of each machine | publish, query, fetch, verify, swap, heartbeat or rollback | late and overtaken publications, restarts, two orders of versions, a version that is rolled back | the loop never takes a machine back; machines catch up |
| Fleet `client/fleet/*`, `bin/fleet_cmd.rs` | rows of configured and listed machines, plan, results | status, update, drift, set, discover | machines that change meanwhile, an address where another machine answers, a lost answer | the right binary; a success was seen; a machine left alone is as it was |
| Self-update `server/selfupdate.rs`, `server/update_status.rs`, `server/watchdog.rs`, `bin/server_mode.rs` | executable, `.bak`, `.incoming`, `last_update.json`, pending marker, watchdog, batch script | request, fetch, swap, restart, arm, heartbeat, rollback, reconcile | a crash between any two steps; two processes (server and script); failing file operations | a runnable binary is always on disk; only a streak of failures rolls back, to a version that worked |
| Processes of a machine `server/service.rs`, `server/zombie.rs`, `server/tray_watchdog.rs`, `bin/main.rs`, `bin/server_mode.rs` | processes, listeners on ports, units, tray task, installed files | start (kill stale listeners, load keys, bind), stop, restart by the manager, install, enable, uninstall, watchdog | starters kill each other before they bind | a starting server ends the servers it replaces and spares the programs of others; the machine settles |
| Tray icon `server/notify.rs`, `server/tray.rs` | bounded broadcast channel, count, icon | login, end of session, tick | lagging reader | the icon says whether somebody is connected |
| Rest | | | | TLS trust store, installers, terminal interfaces, screen capture, plugins, session log files, Android app |

How they interact: a device keeps itself registered with the rendezvous server;
a client asks that server for the device; if the two cannot connect directly,
both are sent to the relay with one UUID and the relay joins their streams. The
joined stream, or a direct one, is admitted by the server's listener, logged in,
and then served by the request handler, which starts shells, commands,
transfers and tunnels. A server updates itself on an operator's request or when
the rendezvous server advertises a newer version; its heartbeat to the
rendezvous server is what the update watchdog observes.

`PROJECT.json` has one entry per component with its status, and the list of
hazards with the line where each bites.

## 2. Modules

| Module | Models | Kind |
|---|---|---|
| `RelayServer` | `relay/relay.rs` | component |
| `RelayPairing` | what the relay promises: streams that asked for one UUID are paired at most once, until they close | abstract specification |
| `Rendezvous` | rendezvous server, both registration loops of a device, relay requests and the trip to the relay | composition of server, device and network |
| `Admission` | both TCP listeners, the limiter, the rate limiter and the life of a connection | component |
| `ShellRelay` | the client's loop, the connection, the server's loop, reader thread, terminal, child | composition |
| `Requests` | CLI commands, login, request loop, execution, sessions, clipboard sync | composition of clients and server |
| `Delta`, `SyncFiles`, `Transfer` | block delta; files and cache behind the sync requests; transfer commands and the loop that serves them | algorithm, component, composition |
| `Connect` | client processes, control masters, config file, and the world they connect through | composition |
| `BatchTransfer` | `client/push_via_batch.rs`, `client/pull_via_batch.rs` | component |
| `Tunnel` | tunnels, SOCKS, QUIC tunnels and mux channels between an application and its target | composition |
| `FsSpool` | the shared-directory transport and its listeners | composition |
| `ByteStream` | what a transport promises TLS for one direction | abstract specification |
| `SshCommands`, `ScpServer`, `QuicCommands` | commands over SSH; SCP and SFTP served to standard clients; commands over QUIC | compositions |
| `Adverts` | publishers, rendezvous servers, the upgrade loops of machines | composition |
| `Fleet` | the operator's commands; extends `Adverts` | composition |
| `SelfUpdate` | updaters, files, status record, batch script, watchdog, crashes | composition |
| `Lifecycle`, `TrayIcon` | the processes of a machine; the tray's count | components |
| `AdmissionProofs`, `SelfUpdateProofs`, `BatchTransferProofs`, `ConnectProofs`, `RequestsProofs` | theorems about the module of that name | proofs |
| `RelayProofs` | theorems about `RelayServer` and about `Rendezvous` | proofs |
| `StreamsProofs` | theorems about `FsSpool`, `SshCommands`, `ScpServer` and `QuicCommands` | proofs |
| `HostsProofs` | theorems about `Adverts`, `Fleet`, `Lifecycle` and `TrayIcon` | proofs |
| `MC...` | constants and scenarios for TLC; `MCTransfer`, `MCStreams` and `MCFleet` put modules that share no state side by side in one run | instances |

In most of the newer modules a rigid variable (`plan`, `scn`, `job`, `world`,
`site`, `sshJob`, ...) holds the scenario: what the user asks for and what the
outside lets through. Behaviours of all scenarios are explored in one run; what
happens late or by chance (losses, failures, edits, crashes) is an action.

### RelayServer

One connection `c` is one spawned `serve_one` task; `pc[c]` is the place between
two awaits or two lock acquisitions, so every interleaving the runtime can
produce is an interleaving of actions. `waiting` is the waiting room, `carrying`
the sender a task has removed from it and not used yet, `partner` the stream it
was handed, `copies` the copy tasks of its bridge, `stream` the server's end of
the socket. Actions: `Accept` and `Refuse`, `BadHandshake`,
`TakeWaiter`/`EnterRoom`/`RoomFull` under the lock, `Deliver` (the oneshot send,
which fails if the receiver is gone), `PairingTimeout`, `ChannelDropped` and
`RoomCleanup` (which takes the lock again and removes whatever entry has the UUID),
`StartBridge` or `NoPermit`, `CopyEnds`, `BridgeDone`, `SessionTimeout` (drops
the join and so detaches the copy tasks), and the client's `Hangup`. The bytes that a bridge copies are not modelled.

### Rendezvous

One or more devices, each with its interface set, a UDP registration loop with
keepalive, and a TCP registration loop; the server's peers map with expiry; the
network as a set of datagrams that may be lost, delayed or reordered; TCP
connections that may be half-open or torn. A relay request looks up the address
and the stream under two locks, writes the stream with a time limit, falls back
to UDP, and the device's channel (capacity as in the code) takes the request to
the relay. Encryption of net info, group queries and listings only read state
and are left out.

### Admission

The two listeners share one limiter; each handles one accepted connection at a
time (`drop?`, `global?`, `ip?` are the three questions it asks). The spawned
task holds the permit until it is dropped: `DropSlot` and `DropPermit` are the
body of `Drop` and the drop of its field. A connection being served waits for
requests ("serve") or runs one (`Request`, "busy", `Answer`); while a buffered
command runs nobody reads the socket. Failures are kept as time/connection
pairs, so equal times are not merged. `ShouldDrop` gives both outcomes in the
probabilistic range. A record without failures is the absent record.

### ShellRelay

Frames are a length of two digits and a body, so a read can cut a header as well
as a body. A branch of `select!` that fires cancels the read of the other:
`CancelServer`/`CancelClient` keep or lose the half-read frame as the frame
buffer lives outside the future or inside it (`SafeServer`, `SafeClient`). Of
the bytes, only newline, carriage return, tilde, dot, question mark and the
resize prefix, Ctrl-C and DEL mean anything; all others are text. `process_escapes`
and `normalize_shell_input_for_remote` are folds over the bytes, as in the code.
`ServerWritesPty` is `write_windows_shell_input`: DEL becomes backspace, Ctrl-C an
event raised by a helper process, or its byte if the helper fails. The child echoes
its input and may exit at any moment. `edges`, a history variable, remembers where
the reads of stdin ended, so that `InputIntact` can say exactly which cuts show:
between CR and LF, and before a read that looks like a resize message.

### Requests

A connection runs one CLI command, a list of calls (`ArmTables`, one operator
per group of arms of `run_command`), each a request and the answers the client
reads. `cli` and `srv` are the two ends, `up` and `down` what is between them,
`child` the process that exec started. The login (`Hello`, `AuthRequest`,
`LookUp`, `AuthResponse`, `AuthTotp`, `Welcome`) reads keys from memory and disk,
which `KeysAdd` and `KeysRemove` change meanwhile. `Needs` is the permission
table, `Supported` the capability check of the client. `sessions` is the store;
every shell request starts a child of its own, also when it attaches. Of an
output only the order of its pieces is kept, of a log line whether it matches.

### Delta, SyncFiles, Transfer

A file is a sequence of bytes over a small alphabet with an mtime; blocks have
two bytes. `Delta` has the signatures, `compute_delta` with its weak (colliding)
and strong sums, `apply_delta` and the blocks of a pull, as folds and recursive
functions. `SyncFiles` has each sync request that is answered in one step, with
the block cache. `Transfer` has the client's commands step by step (list, walk,
compare, transfer each file, delete, verdict) and the server's chunk loop, with
lost connections, failing file operations and edits by others at any moment;
`pc` is the place of the client, `spc` that of the server. In the scenario "api"
a client outside this repository uses the requests of `SyncFiles`.

### Connect

A process of the CLI goes through `Strategy`: `Load`, `TryMux`, `ProbesLan`,
`SshFirst`, `Direct` or `AutoTry`, `StartRelay` with `Resolve`, `LanRace`,
`PeerToPeer`, `ThroughRelay`, then `Fallback`, `SaveLoad`/`SaveWrite` and its
command. `World` says which routes carry, which servers run, what SSH accepts;
logins may be slow. The tasks of the port race (`TaskLogsIn`, `TaskSends`) run on
their own. A control master (`MasterChecks`, `MasterBinds`, `Forward`,
`MasterStops`) serves the others through socket files that are checked, removed
and bound in separate steps. `ran` counts the executions of each command.

### Tunnel, FsSpool, SshCommands, ScpServer, QuicCommands

`Tunnel` has one shape for all relays, a select over two reads. On TLS a frame is
a header and a body that arrive one after the other; when the other branch wins
the header is dropped (`OutOfStep` follows). QUIC and mux channels carry raw
bytes; `handle_message` is the one reader of a mux connection. `FsSpool` keeps,
per direction, the writer's and the reader's view of the directory; files move
from one to the other in any order, a sentinel perhaps empty or with only the leading
digits of its number (`Leading`); a read may fail, after which any later read reports
an end. In
`SshCommands` an OpenSSH server (external) ends a channel in three messages whose
order varies; the mrsh server, which may refuse a command, is the other alternative. `ScpServer` drives the
sink, the source and the SFTP handlers with standard clients (external), while
another process may shrink, grow or move the file and writes to the disk may fail.
`QuicCommands` maps commands to calls as `dispatch_quic` does, each on a stream
answered by its own task; the server answers a command it does not start
(`ExecRefused`) like one that fails, with OK and an error text.

### Adverts, Fleet

Versions are sequences of numbers with an optional text, as the two comparison
functions need. Publications travel, are lost or arrive late; a rendezvous server
keeps the adverts in memory. The upgrade loop queries each server in turn,
fetches, verifies and swaps in steps, and ends with the swap until the next process;
`self-update-from-rdv` does so on request. What a machine asks for follows from the
binary it runs. An installed version has its watchdog armed (on Linux perhaps not,
as the restart may come first), which then hears a heartbeat or brings the backup
back (`Rollback`); `faulty` versions are never heard, others may be missed. The files
of a swap are in `SelfUpdate`; here an update is a binary that waits for the restart,
which a service manager carries out, and which a Windows script may miss (`SwapFails`).
`Fleet` has the operator's command: rows from the config and from the rendezvous
server, probes over the address or the device id, `plan_fleet_update`, the push,
the update and the verification polls, while machines upgrade themselves. Where only
QUIC works (`PushQuic`) a scheduled task replaces the binary, with neither watchdog nor
backup, and one probe follows. A request that is carried out may be told as a failure,
because its answer was lost.

### Lifecycle, TrayIcon

`proc` are the processes with their place in the start-up code and their
listeners; a start kills what `is_mrsh_process` takes for mrsh on its two ports (a
program of somebody else may be a "lookalike", with "rsh" in its name or path),
loads the keys, binds three listeners, each in a task. `ManagerStarts` is systemd
or the Windows service manager with its restart rule; installers, the logon task,
the minute watchdog and the operator are actions. `TrayIcon` is the broadcast
channel and the loop that drains it once a second.

### SelfUpdate

A binary is its version; `Bad` versions start but get no heartbeat through. The
files are variables. On Linux the swap is a copy to `.bak`, a copy to
`.incoming` and a rename; on Windows it is a batch script that goes on while the
server stops. Any file operation may fail (`DiskErrors` times), the process or
the host may crash between any two steps (`MaxCrashes` times). `platform` is
chosen once: Windows, Linux with a systemd unit (whose restart kills the process
before it returns), or Linux without. A start on Windows removes what updates have left
(`CleanResiduals`): `.bak`, `.incoming` and `mrsh-new.exe`, each unless a process holds
it. The tray is a second server process of the same binary and does the same
(`TrayStarts`); its own probe and upgrade loop, which share the status file with the
service's, are left out. `Quiet` says that no update is requested
while another is not over; the code does not enforce this, so `overlap`, chosen
once as well, lifts it, and the properties that need one update at a time say so.
`interrupted`, `streak` and `proven` are history.

### BatchTransfer

Push and pull share their shape, so one module has both and `direction` says
which. `worker[f]` is where the task of a file is; between two places another
task, Ctrl-C or a crash may come. `there` is the file at the destination, `part`
the `.mrsh-part` file of a pull: absent, partial or whole. `RemoveOld` and
`Rename` are the two steps of `replace_file`. A file operation or a curl fails
`Errors` times at most. The proxy, the listing of the files and the URL encoding
are left out; the remote server is external and keeps what an upload that broke
off has written.

## 3. Runs

| Run | Instance | Shows |
|---|---|---|
| `relay` | 4 connections, 3 of one address, 2 UUIDs, per-IP limit 2, 1 waiting place, 1 session | `CountersAddUp` (slots and sessions), `RoomSound`, `NoCrossedTunnels`; `PairingSpec`: the relay implements `RelayPairing`; `ComesToRest` under fairness |
| `rendezvous` | 1 device that reboots once or changes its interface set once, 2 TCP connections, 1 request | `NeverPairedWithItself`, `StreamKept`; `Recovers` (its stream and its listing) under fairness |
| `admission` | 4 connections, 3 addresses, both ports, global limit 3, per-IP 1, MaxStartups 0..1, 2 failures in a window of 1, ban of 1, 2 clock values | `LimitsAddUp`, `BelowThreshold`; `PermitsComeBack` under fairness |
| `shell` | 5 scripts with text, `~~`, `~x`, `~?`, `~.`, CR LF, DEL, Ctrl-C and reads that look like a resize; reads of 1-2 bytes of stdin and any number from the socket; a terminal that takes 2 bytes at a time; 1 resize | `BytesIntact` (input, output, all output before the exit); `ExitEndsSession`, `DisconnectKillsChild` under fairness |
| `requests` | every command, on a good and a lossy connection, with and without permissions; every way to log in with keys added and removed meanwhile; failing and blocked remote commands; log queries; 3 connections on 2 sessions; clipboard sync with 2 copies | `AnswersTrue` (exit codes, complete output), `CountsAreTrue`; `CommandEnds`, `ClipboardsAgree` under fairness |
| `transfer` | every transfer command; one file with every content up to 3 bytes on both sides, directories of two files with mtimes, among them two pushes of which the first breaks off; 1 fault, 1 edit; 2 requests against the cache. A batch: push or pull of 2 files (of a pull one with a size in the manifest), 1 permit, 2 runs with or without `--resume`, Ctrl-C, a crash, 2 errors | `DataIntact` (pushes exact, answers in step, deltas right), `SuccessMeansSynced`, `PulledIsServed`, of a batch `ReportIsTrue`, `ResumeKeepsWhole`; `CommandEnds`, `BatchEnds` under fairness |
| `transfer_dry` | a directory push with `--dry-run --delete` | violated: remote files are deleted |
| `connect` | one process with every mixture of port, config block, route, rendezvous, relay and SSH; a master with two clients, stops and crashes; two processes that save | `OwnAnswerOnce`, `PinnedPort`; `GetsIn`, `LosersHangUp` under fairness |
| `streams` | the spool (2 listeners, 1 failing operation; sentinels are written to the base 2, so that two chunks make a number of two digits); 11 tunnel scenarios of one or two connections with up to 3 bytes, buffers of 3 elements, 1 broken connection; each SSH, SCP, SFTP and QUIC operation with small data | `SpoolSound` (it implements two `ByteStream`s, is served once, and ends early only after a failed read or on half a sentinel), `TunnelsCarry`, `ChannelsTold`; `StreamsEnd` under fairness |
| `fleet` | 2 machines, 2 rendezvous servers, up to 3 publications, one of them of a faulty version, 1 lost answer, heartbeat or update; 14 fleet commands; 11 sites with up to 4 processes; a tray with a channel of 2 and 3 logins | `FleetTrue`, `HostsSound`, `NeverBack`; `HostsSettle` under fairness |
| `update` | all platforms, 3 versions (one bad), an operator and the auto-upgrade loop, 2 updates, overlapping or not, 2 crashes, 1 failing file operation | `Recoverable`, `SoundRollback`; `BadIsRolledBack` under fairness |
| `update_windows` | Windows, one update to a bad version, no crash, no failing file operation | refutes `FailuresRollBack`: the bad version has removed its own `.bak` |

Some of these properties are conjunctions of named parts, stated one by one in
the module. Each property of a passing run has a mutant of the modelled code that
violates it, listed in `PROJECT.json`.

**Why the bounds are enough.** In `relay` the interesting races need two
connections of one UUID that overlap with a third one of the same UUID (a late
cleanup) and one that is refused at the per-IP limit; limits of 1 make every
refusal reachable. In `rendezvous` a stale stream needs two connections of one
device, a stale entry a reboot, a stale listing two interface sets; a reboot beside a
change of the set (`MaxChanges`) would add only their product. In
`admission` the refusal between the limits needs two connections of one address
and a third for the global limit. In `shell` every cut of a frame and every
cancellation point occurs with messages of one or two bytes; the scripts cover
every branch of the escape automaton and of the conversions; two bytes stand for the
five of a resize message. The sockets of that run hold more than is
in flight; with buffers of 4 bytes both loops can block in a write and neither
reads, and `ExitEndsSession` is not claimed there. In `update` two updates are
needed for a `.bak` that is not the first version, two crashes for one in the
update and one in the rollback. The tasks of a batch meet only at the semaphore
and at the cancel flag, so two files and one permit make one wait for the other;
a second run is what a resumption needs. In `requests` connections meet only in
the session store and the key file: two on one session and one that kills it. In
`transfer` blocks of two bytes and contents of three give empty, short, whole and
short-after-whole blocks with colliding weak sums; one fault or edit anywhere is
what one command must survive, two files what a failed one leaves for the next.
In `connect` a master, the client it serves and one that competes are the three
roles; the paths of one process are independent of other processes. In `streams`
two connections share the accept loop or a mux connection, a queue of one is full
at once. In `fleet` two machines are needed for one that answers in the place of
another, and four processes for a service, a tray, one that starts and one that
is being replaced.

**Fairness.** Weak fairness of the tasks' own steps (the runtime polls ready
tasks) and of deadlines the code sets (pairing, session, first byte, login,
keepalive, operation, idle, verification). Nothing is assumed of clients, users,
operators, networks or crashes, with these exceptions: `Recovers` has as premise
that of the datagrams a device keeps sending, some arrive; strong fairness of a
`select!` branch that is ready again and again (tokio polls the branches in
random order); a restart by hand, where an update tells the operator to restart;
that each curl of a batch ends, as the code sets it no time limit; that a
synchronised directory gets every file across in the end; that the applications
at the ends of a tunnel go on writing and close, as what `StreamsEnd` promises is
that the relays end after them; that a service manager restarts what it is
configured to restart, also after an update and a rollback of the machines of `fleet`; that
a watchdog that probes comes to one end or the other (`HostsSettle` does not assume that a
heartbeat is heard). The TLS handshake of the listener has no deadline and a
buffered command no time limit (`exec.rs:160`), and none is assumed: `PermitsComeBack`
excepts a connection in its handshake and one that is gone while its command runs.

## 4. Proofs

Each theorem holds for every value of the constants that the named assumptions
allow: any number of connections, devices, processes, files, chunks or machines,
and any limits. The invariants of the runs are not inductive alone; every proof
module begins with the strengthening it needs, which TLC checked on the run's
instance before it was proved.

**`RelayProofs`**, the relay: `RelayTypeCorrect`; the invariants of run `relay` as
`TunnelsNeverCross`, `RoomIsSound` and `CountersAlwaysAddUp` (from `SlotsAddUp` and
`SessionsAddUp`); and `RelayImplementsPairing`, its refinement. `PairInv` adds what a
place says of a task's UUID and partner (`PlaceInv`), where senders can be
(`SenderInv`: in the waiting room under the owner's UUID, or in the hands of one
task, and the owner has then not gone past the cleanup) and when streams are open
(`StreamInv`). That a sender is in one place only is what keeps a stream from being
handed over twice, although a late cleanup may remove another task's entry. The
counting theorems add an accounting of which tasks hold a slot or a permit: a step
adds or removes one connection from the holders. Assumptions: a finite set of
connections, limits in Nat.

**`AdmissionProofs`**: `TypeCorrect`, `LimitsAlwaysAddUp`, `AlwaysBelowThreshold`.
The limiter needs accounts of the same kind, kept through every early return and both
halves of `Drop`. `BelowThreshold` says nothing while a ban lasts and so does not
survive the tick that ends one; `RecordInv` says that without a ban an address has
fewer than `MaxFailures` failures on record, and with one, running or run out, only
failures as old as the ban. This needs `Window <= Ban` (60 and 300 seconds in the
code): after a shorter ban an address would have a full window and no ban.

**`SelfUpdateProofs`**: `TypeCorrect`, `AlwaysRecoverable`, `RollbacksAreSound`.
`UpdateInv` follows the files through every place of the updater, the script and the
watchdog. What holds on Linux (the live binary is absent only between the two renames of
a rollback) holds also when updates overlap; which of `.bak`, `.incoming` and the
live binary is there, and which of them has had a heartbeat, only when they do not
(`AloneInv`, `FilesInv`). A tray that starts within a Windows rollback may remove the
`.bak`; `Lost` says what is then left, and that nothing acts on the files any more. `StreakInv` ties the failures counted since the last
heartbeat to the status file, which survives crashes.

**`BatchTransferProofs`**: `TypeCorrect`, `ReportAlwaysTrue`, `ResumeAlwaysKeepsWhole`.
`LoopInv` says which tasks have been spawned and joined, `FilesInv` relates the place
of a task to its file and its outcome, `CountInv` the counters to the number of files
with each outcome. That a resumed pull keeps whole files is `ResumeInv`: a task that
got past the check has found its file not whole.

**`StreamsProofs`**, the spool: `SpoolInvariant`, `SpoolRefines`, `SpoolIsSound`. The state maps to
`ByteStream` once per direction. The invariant says that the bytes of each direction
are written in intervals, one for each chunk number, wherever the chunk is (in the
writer's future, in the directory, on its way to the reader); that the chunk numbers
not consumed yet follow one another (`ChunkInv`); and that a sentinel holds the number
of the last chunk or leading digits of it, and that an end was reported on one of
these or after a failed read (`EndInv`). The end of `ByteStream` is the one reported on
the whole number; for the others `EndsForAReason` says what they are. `ListenerInv`
gives the single server of a session. Writing is a step of `ByteStream`, everything
the directory does in between a stutter.

**`StreamsProofs`**, the command channels: `QuicAlwaysTold`, `SshAlwaysTold`,
`ScpAlwaysTold`, and for the specification of run `streams` `ChannelsAlwaysTold`. What a
client has received is a beginning of what the other side has sent, so each invariant
says what is on its way at which position. `QuicInv`: the answers in a stream belong to the call under
way and carry what that call did, what ran was permitted, and an exec that was not started is
answered by an error text. `SshInv`: the data message
at position j of the channel holds block Len(out) + j of the output (one less after the
exit status, which may be anywhere among them), and eof comes after the last of them. `ScpInv`: client and server of
a copy take turns; it names for each turn (`AckComing`, `FileComing`, `FileAgreed`, ...)
what is in the two pipes, where both sides are in the file, and that both are in the same
directory. That directory is a recursive function (`SentIn`); its equations are shown
by the same least counterexample as for the tray below. `SinkInv` adds that what the
client counts as saved is in the tree, which a later file could replace: `ScpAssumption`
says that a client sends no path twice, and sends a directory before the files in it
(`scp` does; several files for one path are the exception `SinkTold` names).
`QuicAssumption` and `SshAssumption` give the types of the scenarios and bounds.

**`RelayProofs`**, the rendezvous server: `TypeCorrect`, `NeverPaired`, `StreamIsKept`. `OnceInv`: the UUID
of a request is at one place at most, and there once: with the handler, in a stream,
in a datagram, in the device's channel or at the relay. The places are counted by
position, since a stream and a channel are sequences. `StreamIsKept` is an action
property from the same invariant.

**`ConnectProofs`**: `PinnedAlways`, `AnsweredOnceAlways`. `ProcInv` gives each process a
`Credit`, how often its command may have run given where it is and whether a master's
answer was lost, and says that a pinned process never comes to SSH or the port race
and connects to no other port. `MasterInv`
(the request under way at a master is the one of the process that holds its lock) and
`AskedOnce` (a request is at one master, once) are what the answers need: without them
an answer could go to another process. `ConnectAssumption` says besides that no
process is named like the keepalive and that no scenario pins port 0, which on the
wire means the tray's or the service's port.

**`HostsProofs`**: `MachinesNeverGoBack` (an action property), `StaleAlwaysGone`,
`IconAlwaysTrue`, and the same for the specification of run `fleet`,
`HostsAlwaysSound` and `FleetTrueOnHosts`. `AdvertInv`: what a task waits to fetch, and what it left for the
restart, is newer than what runs; only a restart changes that, and it ends the tasks.
The comparison of versions stays unexpanded, so the theorem holds for whatever order
the code uses. `SiteInv`: a server that a starting process has seen on its ports is
gone, or in the list it is about to kill, and no number is given to a new process while
somebody remembers it; installers are nobody's unit, programs of others do nothing. The
theorem spares programs of others whose name and path do not contain "rsh"; the
others may be killed (section 5).
`FleetTrue` (`FleetAlwaysTrue` for the operator alone, `FleetTrueOnHosts` beside the
rest): `Machinery` says that what machines run, keep as a backup, wait to restart with,
report, advertise and have fetched was published or pushed and, where platforms are told
apart (`TruePlatforms`), suits the machine.
`FleetInv` follows the rows of a command through both probes: what is in a row is
true of one of the machines the row leads to, a plan is of a row that stands for it, and
the machine a push has reached is one of them; what the last probe of a row saw is true of
it, and a machine the command has sent nothing to changes only by itself. `Orderly`
excludes untrue hints, the two rows of one name described in section 5, rows that lead
to two machines, and binaries published for a platform they do not run on.
For the tray, `Drained` is a recursive function; that it exists, and what one more
event adds to it, is shown by a least counterexample (`CountsExists`, `CountsUnique`,
from the well-foundedness of the numbers). Assumptions: `PidsAssumption` (there are
process numbers, all positive), `ChannelAssumption`, `AdvertAssumption` and
`FleetAssumption` (types of machines, versions and configurations).

**`RequestsProofs`**: `CountsAlwaysTrue`, `AnswersAlwaysTrue`. `CountInv` says that a
connection at a shell is on a session that has been created, so that `create` never
takes a number somebody is still on; a session that has been killed counts -1 until the
end, whoever leaves it. For the answers, client and server take turns (`Turn`): while the
login lasts one message is on its way or none; between two calls (`Idle`) nothing is, and
the server has carried out the calls up to the client's number; in a call (`Calling`) the
request is on its way, or the child runs, or the chunks from the client's position on and
the message that ends them, or one answer, and an answer that makes a call a success
(`Good`) has been sent only for a call that was carried out. A command that failed or
lost its connection cannot succeed any more (`Hopeless`), one that succeeded stays so
(`Succeeded`). The arms of `run_command` are examined one by one (`ArmGood`); what a log
query sends is a recursive function over the lines, shown by a least counterexample to
be the first `max` of the last `tail` lines that match (`LogQueryIs`).
`PlanAssumption` gives the types of the scenarios: known commands, sessions there can
be, exit codes in Nat (a `u32` in `exec.rs`), any output and any log file.

Only model-checked:

- all liveness properties (`ComesToRest`, `Recovers`, `PermitsComeBack`,
  `BadIsRolledBack`, `BatchEnds`, `CommandEnds`, `GetsIn`, `LosersHangUp`, `StreamsEnd`,
  `HostsSettle`, `ExitEndsSession`, `DisconnectKillsChild`, `ClipboardsAgree`): fairness
  and ENABLED are beyond the prover;
- `BytesIntact` of `ShellRelay`, `DataIntact`, `SuccessMeansSynced`, `PulledIsServed` and
  `DryRunChangesNothing` of the transfers: they are about what folds compute (escapes,
  deltas, whole trees) for every input, and a fold takes an operator as a parameter,
  which none of the provers can instantiate; a recursive function of its own, as in
  `SentIn`, `Drained` and `Matches`, can be reasoned about by a least counterexample;
- `TunnelsCarry`: within reach in part, not proved yet.

## 5. Disagreements found

Run `transfer_dry` refutes a sentence of the repository: `--dry-run` with
`--delete` removes remote files. Run `update_windows` refutes another: on Windows a
new version removes the `.bak` when it starts (`server_mode.rs:211`), so that failed
heartbeats cannot "roll back to the .bak we just produced" (`selfupdate.rs:70`); the
rollback gives up and the bad version stays. These are the "findings" of `PROJECT.json`.
The others the models show, by component; where a passing run's property has an exception, it is
one of these.

Relay, rendezvous, admission, shell, update, batch:

- the cleanup after a pairing timeout removes whatever entry has the UUID: if
  the timed-out entry was taken and a third connection has registered meanwhile,
  that one fails at once (`relay.rs:303`, against `relay.rs:28`);
- the per-IP limit of the relay counts tasks, not connections: a first peer's
  slot is released at the hand-over while its stream lives on in the bridge
  (`relay.rs:47` calls it the maximum of connections);
- a bridge may outlive `session_timeout`, because dropping the join detaches the
  copy tasks (`relay.rs:51`);
- "Always send UDP too" (`server_tcp.rs`, above line 265): the datagram is sent
  only if the stream was not written;
- a successful login removes a running ban (`ratelimit.rs:100`), and
  `AuthRateLimiter::cleanup` has no caller outside its test;
- CR LF cut by the edge of the stdin buffer becomes two newlines
  (`client/shell.rs:589`);
- a read of stdin that begins with 0x01 and has five bytes or more is taken for a
  resize message and is lost (`core/terminal.rs:18`);
- the QUIC client awaits `recv_message` inside `select!` like the Unix server
  (`client/shell.rs:871`);
- a restart between the decision to roll back and the rollback loses the
  decision, as the same write disarms the watchdog (`update_status.rs:418`);
- the index of a batch is not complete after Ctrl-C: files the loop has not
  spawned yet are not in it (`push_via_batch.rs:244` says it is complete);
- an update's batch script that failed is recorded as success (`update_status.rs:311`).
- the Unix shell loop awaits `recv_message` inside `select!` and loses half a
  frame when output wins (`server/shell.rs:645`); lines 926-929 of the same file
  describe this as a bug fixed for Windows;
- on systemd the restart kills the process that is about to arm the watchdog
  (`selfupdate.rs:200`), although `update_status.rs:305` says arming comes before
  the swap;
- a Windows tray that starts while a rollback has checked the `.bak` and not yet renamed it
  removes it, and no binary is left (`server_mode.rs:211`, `watchdog.rs:145`);
- two Windows updates at once can delete both binaries between the renames
  (`selfupdate.rs:328`, against 373-374).

Transfer:

- `--backup` with `--delete` deletes the backups it has just made; a pull sets the
  mtime to now, so that sync-dir then copies the file back;
- `pull_dir` and `sync_dir` exit 0 although files failed;
- `find-and-move` and smart-sync use an index of before the batch; the request
  `push-sigs` is always refused, so that the delta push is never used.

Requests:

- `CLIENT_CAPS` (`client/client.rs:24`) lacks "stream-exec" and "log-query": exec is
  never streamed and `rlog` always fails (`bin/help.rs:199`);
- the binary exec carries 0 or 1, not the exit code that `exec_with_code` promises;
  `dlog` drops it, `lock` and unknown commands take any output for success,
  power commands ignore errors, `status` exits 0 when every ping failed;
- a TOTP key cannot log in by the binary protocol, and a password never does;
- attaching to a session starts a new shell (`server/session.rs`: "can be
  reattached"); a buffered command goes on when its client has left;
- clipboard sync does not transfer a difference that was there at the start, and
  may send a text back and forth.

Connections:

- the control master's time-out or loss lets a command run twice (`client/mux.rs:47`);
  a master on a port found by trial binds a socket its clients do not look for;
  requests it does not know are run as commands;
- `connect_auto_try` says it prefers port 9822 and takes the first to answer; a
  port from the config file still falls back to SSH on 22; the LAN and the
  peer-to-peer paths always use 8822;
- `Config::save` drops keywords it does not know, and neither locks nor renames:
  concurrent clients lose Host blocks.

Streams:

- `recv_message` in the relays of a tunnel is not cancel-safe: data are lost or made
  up (`server/tunnel.rs:134`; "transparent", `client/tunnel.rs:4`); the server
  acknowledges a tunnel before it connects; a half-close ends both directions;
  bulk traffic in both directions can block both relays;
- a mux channel's close drops its queue, and a full queue stops all channels;
- SSH push and pull stop at the end of the output and take a missing exit status
  for 0, although the comment at `client/ssh_client.rs:600` knows better; against
  an mrsh server a push stores an empty file and a pull is lossy for binary data;
- SFTP writes do not truncate, and the listing of a directory with a file in it
  never ends; an SCP source whose file has shrunk waits for ever, and one that walks
  a directory leaves out, in silence, a file that has gone meanwhile; `scp` of several
  files onto a file keeps the last and acknowledges all;
- over QUIC an exec that failed, that the safety guard blocked or that could not be
  started reports success, with an error text as its output
  (`client/quic.rs:78` says otherwise), and the 30 seconds of the client's idle
  limit end long commands ("MaxIdle=60s", `server/quic/server.rs`);
- a spool stream can end early, although `core/fs_transport.rs:188` calls it "a real
  EOF": a failed read sets `read_eof`, so that the read after it reports a clean end,
  and the sentinel is written in place, so that "12" can be read as 1;
- a spool session whose claim fails, or whose writer dies, leaves its peer polling
  for ever; on a synchronised directory two hosts can both claim it.

Fleet and machines:

- `fleet update` pushes whenever versions differ, also a downgrade ("outdated"),
  exits 0 when machines failed, and looks its plan up by name: with two rows of one
  name a binary goes to the wrong machine ("SKIPPED, not misfired",
  `client/fleet/update.rs:418`);
- any version other than the old one counts as success of a push, also one the machine
  fetched by itself, or one of another machine at its address; and at the end of the 60
  seconds the old version does too ("OK, version unchanged"). A failure proves nothing: if
  the restart cuts off the answer, the host is updated and reported as failed. Over QUIC
  both commands are answered OK whatever became of them, and there is no watchdog;
- a version whose heartbeats fail is rolled back and then installed again, for as long as
  it is advertised: the watchdog is disarmed against a loop (`watchdog.rs:13`), but the
  upgrade loop does not know of it. On Windows, without the `.bak`, the version stays;
- the upgrade loop ends with its swap (`server_mode.rs:1383`). If the Windows script gives up
  before it has stopped the service, the loop is over and the watchdog armed with nobody to
  probe: the machine asks for no update until its service is started again;
- the two version orders disagree about suffixes, and the comment above
  `semver_greater` about its own; an advert is overwritten by an older one;
- the test for "is it mrsh" is whether "rsh" occurs in the name or path (`zombie.rs:249`,
  258): `powershell.exe` on a port of the service is killed, against "we don't want to kill
  unrelated services that happen to share a port" (`zombie.rs:26`);
- a start that fails on unreadable keys has already killed the running server, and
  as `--daemon` exits 0 nothing restarts it; a listener that cannot bind is never
  tried again; two enabled units would replace each other for ever;
- after an uninstallation on Windows the running watchdog registers the tray task
  again, and Quit in the tray's menu lasts until its next minute;
- the tray counts the connections of its own process only, and a count that missed
  events stays wrong.

## 6. Not modelled

Cryptography, key and certificate formats, TLS and QUIC themselves, the trust
store, terminal drawing, screen capture, plugins, installer packages and menus,
the Android glue: calls to libraries or the operating system and text formats,
with no protocol of the program's own. Bytes through a relay bridge. The creation
of terminals and processes, execution in a desktop session. SSH port forwarding
and agent requests, exec, shell and UDP channels of a mux connection (no client
opens them), UDP over QUIC. SFTP requests other than open, read, write and list.
Compression and content-defined chunking. The local session log. Most config
keywords and flags; the ones that steer a protocol are in the scenarios.

## 7. Plan

What is left is proof: of run `streams`, the parts of `TunnelsCarry` that do not depend
on what a fold computes.
