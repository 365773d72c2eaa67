----------------------------- MODULE MCStreams -----------------------------
(***************************************************************************)
(* The file spool, the tunnels, and the command channels of SSH, SCP, SFTP  *)
(* and QUIC.  They share no state: a behaviour runs one of them.            *)
(***************************************************************************)
EXTENDS FsSpool, Tunnel, SshCommands, ScpServer, QuicCommands

streamsVars == <<spoolVars, tunnelVars, sshVars, scpVars, quicVars>>

MCBytes == [d \in {"c2s", "s2c"} |-> IF d = "c2s" THEN 2 ELSE 0]

TJob(k, u, d, f) == [kind |-> k, up |-> u, down |-> d, first |-> f]
NoSsh == [op : {"none"}, server : {"mrsh"}, data : {<<>>}, ends : {0}]
NoScp == [mode : {"none"}, dir : {FALSE}, items : {<<>>}, other : {FALSE}]
NoQuic == [cmd : {"none"}, key : {"known"}, perms : {{}}, result : {"fine"}]
NoJob == TJob("none", 0, 0, "any")
Only(j) == [c \in {"a", "b"} |-> IF c = "a" THEN j ELSE NoJob]
Two(j, k) == [c \in {"a", "b"} |-> IF c = "a" THEN j ELSE k]
MCTunnels ==
    {Only(NoJob), Only(TJob("tunnel", 2, 1, "any")), Only(TJob("tunnel", 2, 0, "client")),
     Only(TJob("tunnel", 0, 2, "server")), Only(TJob("socks", 1, 1, "any")),
     Only(TJob("quic", 1, 1, "any")), Only(TJob("quic", 0, 2, "server")),
     Only(TJob("quicsocks", 2, 0, "client")),
     Two(TJob("tunnel", 1, 0, "client"), TJob("tunnel", 0, 0, "client")),
     Two(TJob("mux", 3, 0, "client"), TJob("mux", 0, 0, "client")),
     Only(TJob("mux", 0, 2, "server"))}

MCSsh == NoSsh \cup [op : {"exec", "push", "pull", "pushdir", "shell"}, server : {"openssh", "mrsh"},
          data : {<<"t", "b">>}, ends : {0, 3}]

AFile(n, s) == [k |-> "C", name |-> n, data |-> s]
AMark(k, n) == [k |-> k, name |-> n, data |-> <<>>]
Uploads == {<<AFile("a", <<"1", "2">>)>>, <<AFile("a", <<>>), AFile("b", <<"1">>)>>,
            <<AMark("D", "d"), AFile("a", <<"1">>), AMark("E", ""), AFile("b", <<"2">>)>>,
            <<AMark("T", ""), AFile("a", <<"1">>), AMark("bad", "")>>}
Downloads == {<<AFile("a", <<"1", "2">>)>>,
              <<AMark("D", "d"), AFile("a", <<"1">>), AFile("b", <<>>), AMark("E", "")>>}
MCScp ==
    NoScp \cup [mode : {"sink"}, dir : BOOLEAN, items : Uploads, other : {FALSE}]
    \cup [mode : {"source"}, dir : {TRUE}, items : Downloads, other : BOOLEAN]
    \cup [mode : {"put", "get", "list"}, dir : {TRUE}, items : {<<AFile("a", <<"1", "2">>)>>},
          other : BOOLEAN]
MCStale == <<"x", "y", "z">>

AllPerms == {"exec", "push", "pull", "ls"}
MCQuic ==
    NoQuic \cup [cmd : {"exec", "ss", "push", "pull", "ls", "reboot", "status"}, key : {"known"},
     perms : {AllPerms, {}}, result : {"fine", "fails", "hangs"}]
    \cup [cmd : {"ping", "browse"}, key : {"known", "wrong", "unknown"}, perms : {AllPerms},
          result : {"fine"}]

\* One of the components has something to do.
Busy == << wr["c2s"].at # "unused", job # Only(NoJob), sshJob.op # "none", scpJob.mode # "none",
           quicJob.cmd # "none" >>
StreamsInit ==
    /\ SpoolInit /\ TunnelInit /\ SshInit /\ ScpInit /\ QuicInit
    /\ \E i \in 1 .. 5 : \A j \in 1 .. 5 : Busy[j] = (i = j)

StreamsNext ==
    \/ SpoolNext /\ UNCHANGED <<tunnelVars, sshVars, scpVars, quicVars>>
    \/ TunnelNext /\ UNCHANGED <<spoolVars, sshVars, scpVars, quicVars>>
    \/ SshNext /\ UNCHANGED <<spoolVars, tunnelVars, scpVars, quicVars>>
    \/ ScpNext /\ UNCHANGED <<spoolVars, tunnelVars, sshVars, quicVars>>
    \/ QuicNext /\ UNCHANGED <<spoolVars, tunnelVars, sshVars, scpVars>>

StreamsSpec ==
    /\ StreamsInit /\ [][StreamsNext]_streamsVars
    /\ SpoolFairness /\ TunnelFairness /\ SshFairness /\ ScpFairness /\ QuicFairness

-----------------------------------------------------------------------------
\* A command over SSH, SCP, SFTP or QUIC that reports success has done what it reports, with
\* the exceptions each of the four names, and no QUIC command runs twice.
ChannelsTold == SshTold /\ ScpTold /\ QuicTold /\ QuicRunsOnce

\* Tunnels lose nothing but the end of a stream, apart from the two reads the model names, and
\* nothing at all of a transfer in one direction.
TunnelsCarry == OnlyTheEndIsLost /\ OneWayArrives

\* Every one of them comes to its end: the spool's reader reaches the end of a closed stream,
\* both relays of a tunnel finish, commands return.
StreamsEnd == <>[](SpoolRest /\ TunnelRest /\ SshRest /\ ScpRest /\ QuicRest)
=============================================================================
