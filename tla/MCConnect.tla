----------------------------- MODULE MCConnect -----------------------------
(* Scenarios for Connect: one command against every mixture of reachable paths; a   *)
(* control master and its clients; two commands that save to the config file.        *)
EXTENDS Connect, TLC
CONSTANTS x1, x2, x3

Cmd(cmd) == [cmd |-> cmd, host |-> "h1", port |-> None, target |-> "name", user |-> FALSE,
             tty |-> TRUE, pw |-> FALSE, key |-> FALSE, quic |-> FALSE, mux |-> FALSE]
Idle == Cmd("none")
Net == [running |-> {9822, 8822}, slow |-> {}, routes |-> {"dns"}, rdv |-> "found", relay |-> "ok",
        self |-> FALSE, ssh |-> "down", nativessh |-> FALSE, spool |-> TRUE, pings |-> FALSE,
        crash |-> FALSE, keys |-> <<"garbled", "good">>]
Alone(plan) == [x \in Procs |-> IF x = x1 THEN plan ELSE Idle]
Scene(plans, world, config) == [plan |-> plans, world |-> world, config |-> config]

Blocks == {<<>>, <<[Block("h1") EXCEPT !.dev = "dev"]>>,
           <<[Block("h1") EXCEPT !.dev = "dev", !.port = 2222, !.hostname = TRUE]>>,
           <<[Block("*") EXCEPT !.lan = "yes"]>>, <<[Block("h1") EXCEPT !.lan = "no", !.extra = TRUE]>>}
Paths == {{}, {"dns"}, {"mdns"}, {"netinfo"}, {"p2p"}, {"dns", "mdns", "netinfo", "p2p"}}
Worlds ==
    {[Net EXCEPT !.running = r, !.slow = s, !.routes = ro, !.rdv = v, !.relay = l, !.ssh = h] :
        r \in {{8822}, {9822, 8822}, {2222, 8822}}, s \in {{}, {8822, 2222}},
        ro \in Paths, v \in {"found"}, l \in {"ok", "unnamed"}, h \in {"down", "ok"}}
    \cup {[Net EXCEPT !.routes = ro, !.rdv = v, !.relay = l, !.ssh = h] :
             ro \in {{}, {"dns"}}, v \in {"offline", "silent"}, l \in {"ok", "dead"}, h \in {"down", "ok"}}
Dev == <<[Block("h1") EXCEPT !.dev = "dev"]>>
Plans ==
    {<<[Cmd("exec") EXCEPT !.port = q], b>> : q \in {8822, 2222}, b \in {<<>>, Dev}}
    \cup {<<Cmd("exec"), b>> : b \in Blocks}
    \cup {<<[Cmd("exec") EXCEPT !.port = q, !.target = "devid"], <<>>>> : q \in {None, 2222}}
    \cup {<<[Cmd("exec") EXCEPT !.user = TRUE, !.tty = pw, !.pw = pw, !.key = pw], b>> :
            b \in {<<>>, Dev}, pw \in BOOLEAN}
Oddities ==
    {Scene(Alone([Cmd(c) EXCEPT !.target = t, !.user = u, !.tty = FALSE, !.key = ~n]),
           [Net EXCEPT !.self = s, !.routes = {"loop"} \cup ro, !.ssh = h, !.nativessh = n,
                       !.keys = IF s THEN <<"good">> ELSE @], Dev) :
        c \in {"exec", "shell", "screenshot", "ls"}, t \in {"name", "devid"}, u \in BOOLEAN, s \in BOOLEAN,
        ro \in {{}, {"dns"}}, n \in BOOLEAN, h \in {"missing", "down", "ok"}}
    \cup {Scene(Alone([Cmd(c) EXCEPT !.target = t, !.quic = k]),
                [Net EXCEPT !.running = {8822}, !.spool = n, !.routes = {"dns"}], <<>>) :
        c \in {"exec", "screenshot"}, t \in {"name", "fs"}, k \in BOOLEAN, n \in BOOLEAN}

On8822(cmd) == [Cmd(cmd) EXCEPT !.port = 8822]
Muxed(cmd) == [On8822(cmd) EXCEPT !.mux = TRUE]
Masters ==
    {Scene((x1 :> On8822("master") @@ x2 :> q[1] @@ x3 :> q[2]),
           [Net EXCEPT !.running = {8822}, !.pings = q[3], !.crash = q[4]], Dev) :
        q \in {<<Muxed("exec"), Muxed("exec"), FALSE, FALSE>>, <<Muxed("exec"), Idle, TRUE, FALSE>>,
               <<Muxed("exec"), Muxed("stop"), FALSE, TRUE>>,
               <<On8822("master"), Idle, FALSE, TRUE>>, <<On8822("master"), Muxed("stop"), FALSE, FALSE>>}}
AutoMasters ==
    {Scene((x1 :> Cmd("master") @@ x2 :> [Cmd("ls") EXCEPT !.mux = TRUE] @@ x3 :> Idle),
           [Net EXCEPT !.routes = {"dns"}], <<>>)}
Savers ==
    {Scene((x1 :> On8822("exec") @@ x2 :> [On8822("exec") EXCEPT !.host = "h2"] @@ x3 :> Idle),
           [Net EXCEPT !.running = {8822}], b) :
        b \in {<<[Block("h1") EXCEPT !.lan = "no"]>>, <<[Block("h1") EXCEPT !.extra = TRUE], Block("*")>>}}

MCScenarios ==
    {Scene(Alone(q[1]), w, q[2]) : q \in Plans, w \in Worlds}
    \cup Oddities \cup Masters \cup AutoMasters \cup Savers
=============================================================================
