----------------------------- MODULE MCRequests -----------------------------
(* Scenarios for Requests: every command by itself, on a good and on a lossy      *)
(* connection; the ways to log in; remote commands of every kind; sessions shared *)
(* by three connections; clip sync.                                               *)
EXTENDS Requests, TLC
CONSTANTS c1, c2, c3

MCCaps == {"shell", "self-update", "zstd", "bin-patch", "stream-exec", "log-query", "linux"}
AllPerms == {"exec", "pull", "push", "shell", "clipboard", "gui", "screenshot"}
Remote(kind, out, code) == [kind |-> kind, out |-> out, code |-> code]
Known == [mem |-> TRUE, disk |-> TRUE, revoked |-> FALSE, recovery |-> 1]
Lines == <<TRUE, FALSE, TRUE, TRUE>>

Plan(cmd) ==
    [cmd |-> cmd, proto |-> "binary", signature |-> "good", perms |-> AllPerms, totp |-> "none",
     caps |-> CLIENT_CAPS \cup {"stream-exec", "log-query"}, admin |-> "none", key |-> Known,
     remote |-> Remote("run", <<"o1", "e1", "o2">>, 0), want |-> 0, lossy |-> FALSE,
     log |-> [file |-> "good", lines |-> Lines, tail |-> 0, max |-> 0]]
None == Plan("none")
One(p) == [c \in Conns |-> IF c = c1 THEN p ELSE None]

Remotes == {Remote("run", <<"o1">>, 3), Remote("run", <<>>, 3), Remote("blocked", <<>>, 0)}
Queries == [file : {"good", "missing", "unreadable"}, lines : {Lines}, tail : {0, 2, 3, 9}, max : {0, 1, 2}]
Logins ==
    {[Plan("exec") EXCEPT !.proto = p, !.signature = s, !.totp = t, !.key = k, !.admin = a] :
        p \in {"binary", "json", "password"}, s \in {"good", "bad"}, a \in {"none", "add", "remove"},
        t \in {"none", "nosecret", "code", "recovery", "wrong"},
        k \in {[Known EXCEPT !.mem = FALSE], [Known EXCEPT !.revoked = TRUE],
               [Known EXCEPT !.mem = FALSE, !.disk = FALSE], [Known EXCEPT !.recovery = 0]}}
Attach(id, l) == [Plan("attach") EXCEPT !.want = id, !.lossy = l]
Kill(id) == [Plan("kill") EXCEPT !.want = id]

MCScenarios ==
    {One([Plan(cmd) EXCEPT !.lossy = l, !.perms = p]) :
        cmd \in AllCommands, l \in BOOLEAN, p \in {AllPerms, {}}}
    \cup {One([Plan(cmd) EXCEPT !.remote = r, !.caps = k]) :
        cmd \in {"exec", "stream", "default", "lock"}, r \in Remotes,
        k \in {CLIENT_CAPS, {}, CLIENT_CAPS \cup {"stream-exec"}}}
    \cup {One([Plan("rlog") EXCEPT !.log = q]) : q \in Queries}
    \cup {One(p) : p \in Logins}
    \cup {c1 :> Attach(0, FALSE) @@ c2 :> Attach(1, TRUE) @@ c3 :> p : p \in {Attach(0, FALSE), Attach(1, TRUE), Kill(1)}}
=============================================================================
