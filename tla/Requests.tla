------------------------------ MODULE Requests ------------------------------
(***************************************************************************)
(* A client command and the connection that serves it: the login, the       *)
(* request loop of the server with its dispatch table, the child processes  *)
(* that exec starts, and what the command makes of the answers.             *)
(*                                                                         *)
(* Every connection runs one CLI command, a list of calls; a call is one    *)
(* request and the answers the client reads for it.  The texts are left     *)
(* out: a remote command is its output and its exit code, a clipboard text  *)
(* is a number and whether a newline follows it.                            *)
(***************************************************************************)
EXTENDS Integers, Sequences, FiniteSets

CONSTANTS
    Conns,          \* connections, one client process each
    Scenarios,      \* what the clients do: a set of functions from Conns to Plans
    ServerCaps,     \* ServerContext.caps
    MaxSessions,    \* bound: persistent sessions created
    MaxClipFails,   \* bound: clipboard commands that fail
    MaxCopies       \* bound: texts the users copy while clip sync runs

ASSUME RequestsAssumption ==
    /\ IsFiniteSet(Conns)
    /\ MaxSessions \in Nat /\ MaxClipFails \in Nat /\ MaxCopies \in Nat

VARIABLES
    plan,       \* the scenario
    cli,        \* client processes
    srv,        \* connection tasks of the server
    up, down,   \* messages in flight
    link,       \* "up", or "lost": both ends get an error
    keys,       \* per connection: where the server can find the client's key
    child,      \* the process an exec runs
    sessions,   \* SessionStore: clients attached to each session, or "none"
    clip,       \* the local and the remote clipboard, texts copied so far
    jobs        \* detached jobs: per connection "none", "running", "exited"

vars == <<plan, cli, srv, up, down, link, keys, child, sessions, clip, jobs>>

-----------------------------------------------------------------------------
(* The CLI commands: the calls of an arm of run_command, and what an error does: *)
(* "strict" (the ? operator), "ignored" (.ok()), "counted" (status).             *)

Call(k, what) == [k |-> k, what |-> what]
\* The calls that send one JSON request and read one response; those on the second
\* line are the native ones.
Json(what) == Call("json", what)
Native(what) == Call("json", what)
Strict(calls) == [calls |-> calls, errors |-> "strict"]

CLIENT_CAPS == {"bin-patch", "shell", "self-update", "zstd", "binary-proto"}

BasicArms ==
    [ping |-> Strict(<<Call("ping", "")>>), exec |-> Strict(<<Call("exec_with_code", "user")>>),
     detach |-> Strict(<<Call("exec_with_code", "detach")>>),
     dlog |-> Strict(<<Call("exec_with_code", "dlog")>>),
     ls |-> Strict(<<Json("ls")>>), cat |-> Strict(<<Json("cat")>>)]
SessionArms ==
    [screenshot |-> Strict(<<Json("screenshot")>>), sessions |-> Strict(<<Json("session-list")>>),
     kill |-> Strict(<<Json("session-list"), Json("session-kill")>>),
     attach |-> Strict(<<Json("shell-persistent")>>),
     browse |-> [calls |-> <<Json("ls"), Json("ls")>>, errors |-> "counted"]]
WriteArms ==
    [write |-> Strict(<<Json("write")>>), input |-> Strict(<<Json("input")>>),
     ps |-> Strict(<<Native("native-ps")>>), tail |-> Strict(<<Native("native-tail")>>)]
LogArm == [rlog |-> Strict(<<Call("log_query", "")>>)]
NativeArms ==
    [filever |-> Strict(<<Native("native-filever")>>), info |-> Strict(<<Native("native-info")>>),
     clipget |-> Strict(<<Native("clip-get")>>),
     clipsync |-> [calls |-> <<Native("clip-get")>>, errors |-> "counted"],
     plugin |-> Strict(<<Json("plugin")>>)]
PowerArms ==
    [reboot |-> [calls |-> <<Call("exec", "power")>>, errors |-> "ignored"],
     lock |-> Strict(<<Call("exec", "power")>>)]
StatusArm ==
    [status |-> [calls |-> <<Call("ping", ""), Call("ping", ""), Native("native-info")>>,
                 errors |-> "counted"]]
OtherArms ==
    [tray |-> Strict(<<Json("tray-start")>>), launch |-> Strict(<<Call("exec", "launch")>>),
     default |-> Strict(<<Call("exec", "user")>>)]

\* exec streams its output when the server granted "stream-exec".
StreamArm == [stream |-> Strict(<<Call("exec_stream", "user")>>)]

ArmTables == <<BasicArms, SessionArms, WriteArms, LogArm, NativeArms, PowerArms,
               StatusArm, OtherArms, StreamArm>>
run_command(cmd) ==
    LET t == CHOOSE i \in DOMAIN ArmTables : cmd \in DOMAIN ArmTables[i]
    IN  ArmTables[t][cmd]
AllCommands == UNION {DOMAIN ArmTables[i] : i \in DOMAIN ArmTables}

\* What clients can ask for: a command, a session there can be (0 is none), a remote command
\* and a log file.
ASSUME PlanAssumption ==
    \A s \in Scenarios : \A c \in Conns :
       LET p == s[c] IN
       /\ p.cmd \in AllCommands \cup {"none"} /\ p.want \in 0..MaxSessions
       /\ p.remote \in [kind : STRING, out : Seq(STRING), code : Nat]
       /\ p.log \in [file : STRING, lines : Seq(BOOLEAN), tail : Nat, max : Nat]

-----------------------------------------------------------------------------
(* The server's tables. *)

\* check_permission: the permission a JSON request needs; "unknown" is never given.
Needs(req) ==
    CASE req = "exec" -> "exec"
      [] req \in {"ls", "cat"} -> "pull"
      [] req = "write" -> "push"
      [] req = "shell-persistent" -> "shell"
      [] req \in {"clip-get", "clip-set"} -> "clipboard"
      [] req = "input" -> "gui"
      [] req = "screenshot" -> "screenshot"
      [] req = "tray-start" -> "exec"
      [] req \in {"ping", "session-list", "session-kill"} -> "always"
      [] req \in {"native-ps", "native-tail", "native-info", "native-filever"} -> "always"
      [] OTHER -> "unknown"
check_permission(req, perms) == Needs(req) = "always" \/ Needs(req) \in perms

\* What dispatch may answer: a request the server knows succeeds or fails as the
\* machine decides.
MayAnswer(req) ==
    CASE req \in {"ping", "session-list"} -> {TRUE}
      [] req = "native-filever" -> {FALSE}        \* "unknown native command"
      [] OTHER -> BOOLEAN

\* authenticate, the capabilities granted to a client.
InfoCaps == {"tray", "system", "screenshot", "window", "mouse", "keyboard", "linux"}
GrantedCaps(caps) ==
    (ServerCaps \cap caps) \cup (caps \cap {"binary-proto"}) \cup (ServerCaps \cap InfoCaps)

\* The processes an exec may start: the user's command, or one of the client's own
\* scripts, which works or fails.  A command that is empty, that check_exec blocks or
\* that cannot be spawned starts none.
NoChild == [run |-> "none", out |-> <<>>, sent |-> 0, code |-> 0]
Script(code) == [kind |-> "run", out |-> <<"stdout">>, code |-> code]
Commands(c, call) ==
    IF call.what = "user" THEN {plan[c].remote} ELSE {Script(0), Script(1)}
Spawned(r) == [run |-> "running", out |-> r.out, sent |-> 0, code |-> r.code]

Send(ch, c, m) == [ch EXCEPT ![c] = Append(@, m)]
Take(ch, c) == [ch EXCEPT ![c] = Tail(@)]
Msg(k, n, x) == [k |-> k, n |-> n, x |-> x]
ClientGone(c) == cli[c].at = "done" \/ link[c] = "lost"
ServerGone(c) == srv[c].at = "closed" \/ link[c] = "lost"
Finish(c, exit) == [cli EXCEPT ![c].at = "done", ![c].exit = exit]
Granted(c) == srv[c].caps

-----------------------------------------------------------------------------
(* The login. *)

\* auth_client (binary) and auth_password (JSON, "password"); "json" stands for the
\* clients of earlier versions, which the server still serves.
Hello(c) ==
    /\ cli[c].at = "start" /\ plan[c].cmd # "none"
    /\ up' = Send(up, c, Msg("AUTH_REQUEST", 0, plan[c].proto))
    /\ cli' = [cli EXCEPT ![c].at = "login"]
    /\ UNCHANGED <<plan, srv, down, link, keys, child, sessions, clip, jobs>>

Reject(c) == /\ down' = Send(down, c, Msg("AUTH_FAIL", 0, ""))
             /\ srv' = [srv EXCEPT ![c].at = "closed"]
\* What the server knows of a key: the revocation list and the authorized keys read at
\* the start, and the files, which it reads again.
is_key_revoked(c) == keys[c].revoked
load_authorized_keys(c) == keys[c].disk
verify_ed25519_signature(m) == m.x = "good"
find_totp_secret(c) == plan[c].totp # "nosecret"
verify_totp(c) == plan[c].totp = "code"
check_recovery_code(c) == plan[c].totp = "recovery" /\ keys[c].recovery > 0

\* authenticate up to the challenge: the revocation list and the keys are those read
\* at the start; a key that is not among them is looked for in the files again.
LookUp(c) ==
    \/ plan[c].proto = "password" /\ Reject(c)
    \/ plan[c].proto # "password" /\ is_key_revoked(c) /\ Reject(c)
    \/ /\ plan[c].proto # "password" /\ ~is_key_revoked(c)
       /\ IF keys[c].mem \/ load_authorized_keys(c)
          THEN /\ down' = Send(down, c, Msg("AUTH_CHALLENGE", 0, ""))
               /\ srv' = [srv EXCEPT ![c].at = "challenged"]
          ELSE Reject(c)
AuthRequest(c) ==
    /\ srv[c].at = "new" /\ up[c] # <<>> /\ link[c] = "up"
    /\ up' = Take(up, c)
    /\ LookUp(c)
    /\ UNCHANGED <<plan, cli, link, keys, child, sessions, clip, jobs>>

Welcome(c) ==
    /\ down' = Send(down, c, Msg("AUTH_OK", 0, ""))
    /\ srv' = [srv EXCEPT ![c].at = "loop", ![c].caps = GrantedCaps(plan[c].caps)]
\* The signature is checked, then the key's TOTP option; the TOTP messages are JSON
\* whatever the client speaks.
AuthResponse(c) ==
    /\ srv[c].at = "challenged" /\ up[c] # <<>> /\ link[c] = "up"
    /\ up' = Take(up, c)
    /\ LET good == verify_ed25519_signature(Head(up[c])) IN
       \/ ~good /\ Reject(c)
       \/ good /\ plan[c].totp = "none" /\ Welcome(c)
       \/ /\ good /\ plan[c].totp # "none" /\ ~find_totp_secret(c)
          /\ down' = Send(down, c, Msg("JSON_FAIL", 0, ""))
          /\ srv' = [srv EXCEPT ![c].at = "closed"]
       \/ /\ good /\ plan[c].totp # "none" /\ find_totp_secret(c)
          /\ down' = Send(down, c, Msg("JSON_TOTP", 0, ""))
          /\ srv' = [srv EXCEPT ![c].at = "totp"]
    /\ UNCHANGED <<plan, cli, link, keys, child, sessions, clip, jobs>>

\* The code of the moment, else a recovery code, which is struck off the list.
AuthTotp(c) ==
    /\ srv[c].at = "totp" /\ up[c] # <<>> /\ link[c] = "up"
    /\ up' = Take(up, c)
    /\ \/ verify_totp(c) /\ Welcome(c) /\ UNCHANGED keys
       \/ /\ ~verify_totp(c) /\ check_recovery_code(c) /\ Welcome(c)
          /\ keys' = [keys EXCEPT ![c].recovery = @ - 1]
       \/ /\ ~verify_totp(c) /\ ~check_recovery_code(c) /\ UNCHANGED keys
          /\ down' = Send(down, c, Msg("JSON_FAIL", 0, ""))
          /\ srv' = [srv EXCEPT ![c].at = "closed"]
    /\ UNCHANGED <<plan, cli, link, child, sessions, clip, jobs>>

\* The login takes 30 s at most, and ends when the client is gone.
AuthEnds(c) ==
    /\ srv[c].at \in {"new", "challenged", "totp"} /\ up[c] = <<>> /\ ClientGone(c)
    /\ srv' = [srv EXCEPT ![c].at = "closed"]
    /\ UNCHANGED <<plan, cli, up, down, link, keys, child, sessions, clip, jobs>>

\* authenticate_binary, from the challenge on: any type it does not expect ends it.
TakeAuth(c) ==
    /\ cli[c].at = "login" /\ down[c] # <<>> /\ link[c] = "up"
    /\ down' = Take(down, c)
    /\ LET m == Head(down[c]) IN
       \/ /\ m.k = "AUTH_CHALLENGE"
          /\ up' = Send(up, c, Msg("AUTH_RESPONSE", 0, plan[c].signature))
          /\ UNCHANGED cli
       \/ m.k = "AUTH_OK" /\ cli' = [cli EXCEPT ![c].at = "ready"] /\ UNCHANGED up
       \/ /\ m.k = "JSON_TOTP" /\ plan[c].proto = "json"
          /\ up' = Send(up, c, Msg("TOTP", 0, "")) /\ UNCHANGED cli
       \/ /\ m.k \in {"AUTH_FAIL", "JSON_FAIL"} \/ (m.k = "JSON_TOTP" /\ plan[c].proto # "json")
          /\ cli' = Finish(c, 1) /\ UNCHANGED up
    /\ UNCHANGED <<plan, srv, link, keys, child, sessions, clip, jobs>>

\* "mrsh keys add" and "keys remove" on the server's machine, while it runs.
KeysAdd(c) ==
    /\ plan[c].admin = "add" /\ ~keys[c].disk
    /\ keys' = [keys EXCEPT ![c].disk = TRUE]
    /\ UNCHANGED <<plan, cli, srv, up, down, link, child, sessions, clip, jobs>>
KeysRemove(c) ==
    /\ plan[c].admin = "remove" /\ keys[c].disk
    /\ keys' = [keys EXCEPT ![c].disk = FALSE]
    /\ UNCHANGED <<plan, cli, srv, up, down, link, child, sessions, clip, jobs>>

-----------------------------------------------------------------------------
(* The client's calls. *)

Arm(c) == run_command(plan[c].cmd)
CurrentCall(c) == Arm(c).calls[cli[c].n]
Last(c) == cli[c].n = Len(Arm(c).calls)

\* The end of a call.  After the last one the command returns, or clip sync polls.
NextCall(c, good, code) ==
    IF ~good /\ Arm(c).errors = "strict" THEN Finish(c, 1)
    ELSE IF code # 0 THEN Finish(c, code)
    ELSE IF ~Last(c) THEN [cli EXCEPT ![c].at = "ready"]
    ELSE IF plan[c].cmd = "clipsync" THEN [cli EXCEPT ![c].at = "poll"]
    ELSE Finish(c, 0)

\* The message a call sends: binary where the server granted it.
Request(c, call, n) ==
    LET binary == "binary-proto" \in Granted(c) IN
    CASE call.k = "ping" -> IF binary THEN Msg("PING", n, "") ELSE Msg("JSON", n, "ping")
      [] call.k \in {"exec", "exec_with_code"} ->
            IF binary THEN Msg("EXEC", n, call) ELSE Msg("JSON", n, "exec")
      [] call.k = "exec_stream" -> Msg("EXEC_STREAM", n, call)
      [] call.k = "log_query" -> Msg("LOG_QUERY", n, "")
      [] call.k = "json" -> IF call.what = "clip-get" THEN Msg("JSON_CLIP", n, 0)
                            ELSE Msg("JSON", n, call.what)

\* The capability a command insists on.
Supported(c, call) ==
    /\ call.k = "log_query" => "log-query" \in Granted(c)
    /\ call.k = "exec_stream" => "stream-exec" \in Granted(c)
StartCall(c) ==
    /\ cli[c].at = "ready"
    /\ LET n == cli[c].n + 1
           call == Arm(c).calls[n] IN
       IF Supported(c, call)
       THEN /\ up' = Send(up, c, Request(c, call, n))
            /\ cli' = [cli EXCEPT ![c].at = "wait", ![c].n = n]
       ELSE cli' = Finish(c, 1) /\ UNCHANGED up
    /\ UNCHANGED <<plan, srv, down, link, keys, child, sessions, clip, jobs>>

-----------------------------------------------------------------------------
(* The request loop. *)

At(c, at) == [srv EXCEPT ![c].at = at]
\* did: the calls the server carried out with success.
Did(c, n, ok, at) == [srv EXCEPT ![c].at = at, ![c].did = IF ok THEN @ \cup {n} ELSE @]

\* An exec: handle_exec answers at once when it starts nothing, else the connection
\* waits for the child and reads nothing.
ServeExec(c, m, at) ==
    \E r \in Commands(c, m.x) :
       \/ /\ r.kind = "run"
          /\ child' = [child EXCEPT ![c] = Spawned(r)]
          /\ srv' = [At(c, at) EXCEPT ![c].n = m.n] /\ UNCHANGED down
       \/ /\ r.kind # "run"
          /\ srv' = Did(c, m.n, FALSE, "loop")
          /\ down' = Send(down, c,
                CASE at = "stream" -> Msg("ERROR", m.n, "")
                  [] at = "exec" -> Msg("EXEC_RESULT", m.n, [code |-> 1, empty |-> FALSE])
                  [] at = "json-exec" -> Msg("RESPONSE", m.n, FALSE))
          /\ UNCHANGED child

\* handle_log_query: the lines of the file (whether each matches), the last "tail" of
\* them, at most "max" matches; LOG_DATA for each, then LOG_END with the counts.
Scanned(q) ==
    IF q.tail > 0 /\ q.tail < Len(q.lines)
    THEN SubSeq(q.lines, Len(q.lines) - q.tail + 1, Len(q.lines)) ELSE q.lines
\* After i lines of those scanned: the lines sent, and how many were looked at.
Matches(q) ==
    LET s == Scanned(q)
        F[i \in 0..Len(s)] ==
            IF i = 0 THEN <<<<>>, 0>>
            ELSE LET p == F[i - 1] IN
                 IF q.max > 0 /\ Len(p[1]) >= q.max THEN p
                 ELSE <<IF s[i] THEN Append(p[1], i) ELSE p[1], i>>
    IN  F
log_query(q) == Matches(q)[Len(Scanned(q))]
\* A buggy form: a file that cannot be read is only logged.
ServeLogSilent(c, m) == srv' = At(c, "loop") /\ UNCHANGED down
ServeLog(c, m) ==
    LET q == plan[c].log
        r == log_query(q) IN
    \/ /\ q.file = "good" /\ srv' = Did(c, m.n, TRUE, "loop")
       /\ down' = [down EXCEPT ![c] = @ \o [i \in DOMAIN r[1] |-> Msg("LOG_DATA", m.n, r[1][i])]
                                      \o <<Msg("LOG_END", m.n, r[2])>>]
    \/ /\ q.file = "missing" /\ srv' = Did(c, m.n, FALSE, "loop")
       /\ down' = Send(down, c, Msg("ERROR", m.n, ""))
    \/ q.file = "unreadable" /\ srv' = At(c, "closed") /\ UNCHANGED down

\* SessionStore, each operation under its lock.
has_session(id) == id # 0 /\ sessions.count[id] >= 0
create == [next |-> sessions.next + 1, count |-> [sessions.count EXCEPT ![sessions.next] = 1]]
attach(id) == [sessions EXCEPT !.count[id] = @ + 1]
detach(id) == [sessions EXCEPT !.count[id] = IF @ <= 0 THEN @ ELSE @ - 1]
kill(id) == [sessions EXCEPT !.count[id] = -1]

\* handle_session_command
ServeSession(c, m) ==
    /\ \/ m.x = "session-list" /\ UNCHANGED sessions /\ srv' = Did(c, m.n, TRUE, "loop")
          /\ down' = Send(down, c, Msg("RESPONSE", m.n, TRUE))
       \/ /\ m.x = "session-kill"
          /\ LET id == plan[c].want
                 known == has_session(id) IN
             /\ sessions' = IF known THEN kill(id) ELSE sessions
             /\ srv' = Did(c, m.n, known, "loop")
             /\ down' = Send(down, c, Msg("RESPONSE", m.n, known))
    /\ UNCHANGED <<clip, child>>

\* HijackAction::ShellPersistent: attach to the session named if the store has it,
\* else create one; the shell itself is the module ShellRelay.
ServeShell(c, m) ==
    LET id == plan[c].want
        known == has_session(id)
        mine == IF known THEN id ELSE sessions.next IN
    /\ known \/ sessions.next <= MaxSessions
    /\ sessions' = IF known THEN attach(id) ELSE create
    /\ srv' = [Did(c, m.n, TRUE, "shell") EXCEPT ![c].id = mine]
    /\ down' = Send(down, c, Msg("RESPONSE", m.n, TRUE))
    /\ UNCHANGED <<clip, child>>

\* handle_native_command, the clipboard: Get-Clipboard ends its output with a newline,
\* and either command may fail.  A request names the text it sets, 0 asks for the text.
Text(v, nl) == [v |-> v, nl |-> nl]
ServeClip(c, m) ==
    \/ /\ clip' = IF m.x = 0 THEN clip ELSE [clip EXCEPT !.remote = m.x]
       /\ srv' = Did(c, m.n, TRUE, "loop")
       /\ down' = Send(down, c, Msg("CLIP", m.n, Text(clip.remote, clip.remote # 0)))
       /\ UNCHANGED <<sessions, child>>
    \/ /\ clip.fails < MaxClipFails
       /\ clip' = [clip EXCEPT !.fails = @ + 1]
       /\ srv' = Did(c, m.n, FALSE, "loop") /\ down' = Send(down, c, Msg("RESPONSE", m.n, FALSE))
       /\ UNCHANGED <<sessions, child>>

\* The other JSON requests: dispatch and the answer.
ServeOther(c, m) ==
    \E ok \in MayAnswer(m.x) :
       /\ srv' = Did(c, m.n, ok, "loop") /\ down' = Send(down, c, Msg("RESPONSE", m.n, ok))
       /\ UNCHANGED <<sessions, clip, child>>

ServeJson(c, m) ==
    IF ~check_permission(IF m.k = "JSON_CLIP" THEN "clip-get" ELSE m.x, plan[c].perms)
    THEN /\ srv' = Did(c, m.n, FALSE, "loop") /\ down' = Send(down, c, Msg("RESPONSE", m.n, FALSE))
         /\ UNCHANGED <<sessions, clip, child>>
    ELSE IF m.k = "JSON_CLIP" THEN ServeClip(c, m)
    ELSE IF m.x = "exec"
         THEN /\ ServeExec(c, [m EXCEPT !.x = CurrentCall(c)], "json-exec")
              /\ UNCHANGED <<sessions, clip>>
    ELSE IF m.x \in {"session-list", "session-kill"} THEN ServeSession(c, m)
    ELSE IF m.x = "shell-persistent" THEN ServeShell(c, m)
    ELSE ServeOther(c, m)

Serve(c) ==
    /\ srv[c].at = "loop" /\ up[c] # <<>> /\ link[c] = "up"
    /\ up' = Take(up, c)
    /\ LET m == Head(up[c]) IN
       \/ /\ m.k = "PING" /\ srv' = Did(c, m.n, TRUE, "loop")
          /\ down' = Send(down, c, Msg("PONG", m.n, "")) /\ UNCHANGED <<sessions, clip, child>>
       \/ m.k = "EXEC" /\ ServeExec(c, m, "exec") /\ UNCHANGED <<sessions, clip>>
       \/ m.k = "EXEC_STREAM" /\ ServeExec(c, m, "stream") /\ UNCHANGED <<sessions, clip>>
       \/ m.k = "LOG_QUERY" /\ ServeLog(c, m) /\ UNCHANGED <<sessions, clip, child>>
       \/ m.k \in {"JSON", "JSON_CLIP"} /\ ServeJson(c, m)
    /\ UNCHANGED <<plan, cli, link, keys, jobs>>

\* handle_exec returns: the whole output, and 0 or 1 for the exit code.
ExecDone(c) ==
    /\ srv[c].at \in {"exec", "json-exec"}
    /\ child' = [child EXCEPT ![c].run = "exited"]
    /\ srv' = Did(c, srv[c].n, child[c].code = 0, "loop")
    /\ down' = Send(down, c,
          IF srv[c].at = "exec"
          THEN Msg("EXEC_RESULT", srv[c].n, [code |-> IF child[c].code = 0 THEN 0 ELSE 1,
                                             empty |-> child[c].out = <<>>])
          ELSE Msg("RESPONSE", srv[c].n, child[c].code = 0))
    /\ jobs' = IF plan[c].cmd = "detach" /\ child[c].code = 0
               THEN [jobs EXCEPT ![c] = "running"] ELSE jobs
    /\ UNCHANGED <<plan, cli, up, link, keys, sessions, clip>>

\* A buggy form: the exit code overtakes the output still in the pipes.
StreamExitEarly(c) ==
    /\ srv[c].at = "stream"
    /\ child' = [child EXCEPT ![c].run = "exited"]
    /\ srv' = Did(c, srv[c].n, child[c].code = 0, "loop")
    /\ down' = Send(down, c, Msg("EXEC_EXIT", srv[c].n, child[c].code))
    /\ UNCHANGED <<plan, cli, up, link, keys, sessions, clip, jobs>>
\* handle_exec_stream: a chunk of stdout or stderr, in the order of each stream; the
\* exit code after both streams have ended.
StreamChunk(c) ==
    /\ srv[c].at = "stream" /\ child[c].sent < Len(child[c].out)
    /\ child' = [child EXCEPT ![c].sent = @ + 1]
    /\ down' = Send(down, c, Msg("EXEC_OUT", srv[c].n, child[c].out[child[c].sent + 1]))
    /\ UNCHANGED <<plan, cli, srv, up, link, keys, sessions, clip, jobs>>
StreamExit(c) ==
    /\ srv[c].at = "stream" /\ child[c].sent = Len(child[c].out)
    /\ child' = [child EXCEPT ![c].run = "exited"]
    /\ srv' = Did(c, srv[c].n, child[c].code = 0, "loop")
    /\ down' = Send(down, c, Msg("EXEC_EXIT", srv[c].n, child[c].code))
    /\ UNCHANGED <<plan, cli, up, link, keys, sessions, clip, jobs>>
\* A send to a client that is gone fails at some time: the handler returns and the
\* child is killed as it is dropped.
StreamAbort(c) ==
    /\ srv[c].at = "stream" /\ ClientGone(c)
    /\ child' = [child EXCEPT ![c].run = "killed"]
    /\ srv' = At(c, "closed")
    /\ UNCHANGED <<plan, cli, up, down, link, keys, sessions, clip, jobs>>

\* A buggy form: an error of handle_shell returns before detach.
ShellEndsEarly(c) ==
    /\ srv[c].at = "shell" /\ ClientGone(c)
    /\ srv' = At(c, "closed")
    /\ UNCHANGED <<plan, cli, up, down, link, keys, child, sessions, clip, jobs>>
\* handle_shell returns, by an error too: the client is detached.
ShellEnds(c) ==
    /\ srv[c].at = "shell" /\ ClientGone(c)
    /\ sessions' = detach(srv[c].id)
    /\ srv' = At(c, "closed")
    /\ UNCHANGED <<plan, cli, up, down, link, keys, child, clip, jobs>>

\* The loop ends with the connection, or after 300 s without a request: only a person
\* at a browser keeps a connection idle that long.
LoopEnds(c) ==
    /\ srv[c].at = "loop" /\ up[c] = <<>>
    /\ ClientGone(c) \/ (plan[c].cmd = "browse" /\ cli[c].at = "ready")
    /\ srv' = At(c, "closed")
    /\ UNCHANGED <<plan, cli, up, down, link, keys, child, sessions, clip, jobs>>

-----------------------------------------------------------------------------
(* The answers. *)

\* exec: an error only if the command failed and wrote nothing.
exec(x) == x.code = 0 \/ ~x.empty
\* exec_with_code and exec: the first hands the code on, the second takes any command
\* that wrote something for a success.
ExecResult(c, x) ==
    LET call == CurrentCall(c) IN
    CASE call.k = "exec_with_code" /\ call.what = "user" -> NextCall(c, TRUE, x.code)
      [] call.what = "detach" -> NextCall(c, x.code = 0, 0)     \* the handle is printed
      [] call.what = "dlog" -> NextCall(c, TRUE, 0)
      [] call.what = "launch" -> NextCall(c, x.code = 0, 0)     \* "method=" is printed
      [] OTHER -> NextCall(c, exec(x), 0)

\* What the call does with the next message.  Chunks are printed; anything else ends
\* the call.
Answer(c) ==
    /\ cli[c].at = "wait" /\ down[c] # <<>> /\ link[c] = "up"
    /\ down' = Take(down, c)
    /\ LET m == Head(down[c]) IN
       \/ /\ m.k \in {"EXEC_OUT", "LOG_DATA"}
          /\ cli' = [cli EXCEPT ![c].printed = Append(@, m.x)] /\ UNCHANGED clip
       \/ m.k = "EXEC_EXIT" /\ cli' = NextCall(c, TRUE, m.x) /\ UNCHANGED clip
       \/ m.k = "EXEC_RESULT" /\ cli' = ExecResult(c, m.x) /\ UNCHANGED clip
       \/ m.k \in {"PONG", "LOG_END"} /\ cli' = NextCall(c, TRUE, 0) /\ UNCHANGED clip
       \/ m.k = "ERROR" /\ cli' = NextCall(c, FALSE, 0) /\ UNCHANGED clip
       \/ /\ m.k = "RESPONSE" /\ UNCHANGED clip
          /\ cli' = IF plan[c].cmd = "attach" /\ m.x THEN [cli EXCEPT ![c].at = "shell"]
                    ELSE IF plan[c].cmd = "clipsync" THEN NextCall(c, TRUE, 0)
                    ELSE NextCall(c, m.x, 0)
       \/ /\ m.k = "CLIP" /\ cli' = NextCall(c, TRUE, 0)
          /\ clip' = IF plan[c].cmd = "clipsync" THEN [clip EXCEPT !.lastR = m.x] ELSE clip
    /\ UNCHANGED <<plan, srv, up, link, keys, child, sessions, jobs>>

\* The connection ends under a call: an error like any other.
AnswerLost(c) ==
    /\ cli[c].at \in {"login", "wait"} /\ ServerGone(c)
    /\ link[c] = "lost" \/ down[c] = <<>>
    /\ cli' = IF cli[c].at = "login" THEN Finish(c, 1) ELSE NextCall(c, FALSE, 0)
    /\ UNCHANGED <<plan, srv, up, down, link, keys, child, sessions, clip, jobs>>

\* The operation timeout around run_command; a streamed exec has none.
OperationTimeout(c) ==
    /\ cli[c].at = "wait" /\ srv[c].at \in {"exec", "json-exec"}
    /\ cli' = Finish(c, 1)
    /\ UNCHANGED <<plan, srv, up, down, link, keys, child, sessions, clip, jobs>>

\* The user leaves the shell.
LeaveShell(c) ==
    /\ cli[c].at = "shell"
    /\ cli' = Finish(c, 0)
    /\ UNCHANGED <<plan, srv, up, down, link, keys, child, sessions, clip, jobs>>

-----------------------------------------------------------------------------
(* clip sync: a local text that is new goes to the server, else the server's text is *)
(* fetched and, if new, set locally.  get_local_clipboard trims the text it reads.   *)

PollClipboard(c) ==
    /\ cli[c].at = "poll" /\ link[c] = "up"
    /\ LET text == Text(clip.local.v, FALSE) IN
       \/ /\ text.v # 0 /\ text # clip.lastL
          /\ up' = Send(up, c, Msg("JSON_CLIP", cli[c].n, text.v))
          /\ cli' = [cli EXCEPT ![c].at = "setting"]
          /\ clip' = [clip EXCEPT !.pending = text]
       \/ /\ text.v = 0 \/ text = clip.lastL
          /\ up' = Send(up, c, Msg("JSON_CLIP", cli[c].n, 0))
          /\ cli' = [cli EXCEPT ![c].at = "getting"] /\ UNCHANGED clip
    /\ UNCHANGED <<plan, srv, down, link, keys, child, sessions, jobs>>
\* A buggy form: the text counts as sent whether or not the server took it.
ClipAnswerUnchecked(c) ==
    /\ cli[c].at \in {"setting", "getting"} /\ down[c] # <<>> /\ link[c] = "up"
    /\ down' = Take(down, c)
    /\ cli' = [cli EXCEPT ![c].at = "poll"]
    /\ clip' = IF cli[c].at = "setting" THEN [clip EXCEPT !.lastL = clip.pending] ELSE clip
    /\ UNCHANGED <<plan, srv, up, link, keys, child, sessions, jobs>>
ClipAnswer(c) ==
    /\ cli[c].at \in {"setting", "getting"} /\ down[c] # <<>> /\ link[c] = "up"
    /\ down' = Take(down, c)
    /\ cli' = [cli EXCEPT ![c].at = "poll"]
    /\ LET m == Head(down[c]) IN
       clip' = IF m.k # "CLIP" THEN clip
               ELSE IF cli[c].at = "setting"
               THEN [clip EXCEPT !.lastL = clip.pending, !.lastR = clip.pending]
               ELSE IF m.x.v # 0 /\ m.x # clip.lastR
               THEN [clip EXCEPT !.local = m.x, !.lastL = m.x, !.lastR = m.x]
               ELSE clip
    /\ UNCHANGED <<plan, srv, up, link, keys, child, sessions, jobs>>

\* The users copy something, here or there.
Copy(side) ==
    /\ clip.next <= MaxCopies
    /\ \E c \in Conns : plan[c].cmd = "clipsync" /\ cli[c].at \in {"poll", "setting", "getting"}
    /\ clip' = IF side = "local" THEN [clip EXCEPT !.local = Text(clip.next, FALSE), !.next = @ + 1]
               ELSE [clip EXCEPT !.remote = clip.next, !.next = @ + 1]
    /\ UNCHANGED <<plan, cli, srv, up, down, link, keys, child, sessions, jobs>>

\* The network drops the connection.
LinkLost(c) ==
    /\ plan[c].lossy /\ link[c] = "up" /\ cli[c].at # "done"
    /\ link' = [link EXCEPT ![c] = "lost"]
    /\ up' = [up EXCEPT ![c] = <<>>] /\ down' = [down EXCEPT ![c] = <<>>]
    /\ UNCHANGED <<plan, cli, srv, keys, child, sessions, clip, jobs>>

\* A detached job runs on by itself, whatever becomes of the connection.
JobExits(c) ==
    /\ jobs[c] = "running"
    /\ jobs' = [jobs EXCEPT ![c] = "exited"]
    /\ UNCHANGED <<plan, cli, srv, up, down, link, keys, child, sessions, clip>>

-----------------------------------------------------------------------------
Init ==
    /\ plan \in Scenarios
    /\ cli = [c \in Conns |-> [at |-> "start", n |-> 0, exit |-> -1, printed |-> <<>>]]
    /\ srv = [c \in Conns |-> [at |-> "new", caps |-> {}, did |-> {}, n |-> 0, id |-> 0]]
    /\ up = [c \in Conns |-> <<>>] /\ down = [c \in Conns |-> <<>>]
    /\ link = [c \in Conns |-> "up"]
    /\ keys = [c \in Conns |-> plan[c].key]
    /\ child = [c \in Conns |-> NoChild]
    /\ sessions = [next |-> 1, count |-> [id \in 1..MaxSessions |-> -1]]
    /\ clip = [local |-> Text(0, FALSE), remote |-> 0, next |-> 1, fails |-> 0, pending |-> Text(0, FALSE),
               lastL |-> Text(0, FALSE), lastR |-> Text(0, FALSE)]
    /\ jobs = [c \in Conns |-> "none"]

ClientStep(c) == Hello(c) \/ TakeAuth(c) \/ StartCall(c) \/ Answer(c) \/ AnswerLost(c)
ClipStep(c) == PollClipboard(c) \/ ClipAnswer(c)
ServerStep(c) ==
    \/ AuthRequest(c) \/ AuthResponse(c) \/ AuthTotp(c) \/ AuthEnds(c)
    \/ Serve(c) \/ ExecDone(c) \/ StreamChunk(c) \/ StreamExit(c) \/ ShellEnds(c)
Next ==
    \/ \E c \in Conns :
          \/ ClientStep(c) \/ ClipStep(c) \/ ServerStep(c) \/ StreamAbort(c) \/ LoopEnds(c)
          \/ OperationTimeout(c) \/ LeaveShell(c) \/ LinkLost(c) \/ JobExits(c)
          \/ KeysAdd(c) \/ KeysRemove(c)
    \/ \E side \in {"local", "remote"} : Copy(side)

Spec ==
    /\ Init /\ [][Next]_vars
    /\ \A c \in Conns : WF_vars(ClientStep(c)) /\ WF_vars(ClipStep(c)) /\ WF_vars(ServerStep(c))

-----------------------------------------------------------------------------
Ended(c) == cli[c].at = "done"

\* Commands that report what became of them.  Not among them: an unknown command and
\* lock, which take any output for success, dlog, which drops the exit code, and the
\* commands that ignore or count their errors.
Honest(c) == Arm(c).errors = "strict" /\ plan[c].cmd \notin {"default", "lock", "dlog"}
\* The exit code: 0 from such a command means that the server carried out every one of
\* its calls with success, through refusals, failing children, denied requests, lost
\* connections and the operation timeout.
ExitTruth ==
    \A c \in Conns : plan[c].cmd # "none" /\ Ended(c) /\ cli[c].exit = 0 /\ Honest(c) =>
        srv[c].did = DOMAIN Arm(c).calls

\* What a streamed command or a log query has printed when it ends well is all of it:
\* both streams of the child to their end, and of the last "tail" lines the first
\* "max" that match.
OutputWhole ==
    \A c \in Conns : Ended(c) /\ cli[c].n > 0 =>
        /\ plan[c].cmd = "stream" /\ srv[c].did = {1} /\ cli[c].exit = 0 =>
              cli[c].printed = plan[c].remote.out
        /\ plan[c].cmd = "rlog" /\ cli[c].exit = 0 =>
              LET q == plan[c].log
                  first == IF q.tail = 0 \/ q.tail > Len(q.lines) THEN 0 ELSE Len(q.lines) - q.tail
                  hits == {i \in DOMAIN q.lines : i > first /\ q.lines[i]}
                  kept == {i \in hits : q.max = 0 \/ Cardinality({j \in hits : j <= i}) <= q.max}
              IN  {cli[c].printed[i] + first : i \in DOMAIN cli[c].printed} = kept

\* What a command reports is true: its exit code, and that its output is all there.
AnswersTrue == ExitTruth /\ OutputWhole

\* "attached" and "detached" in the session list are true: the count of a session is
\* the number of connections on it, through attaching, errors and lost connections,
\* and a kill that the attached connections do not see.
CountsAreTrue ==
    \A id \in 1..MaxSessions : sessions.count[id] >= 0 =>
        sessions.count[id] = Cardinality({c \in Conns : srv[c].at = "shell" /\ srv[c].id = id})

\* Every command ends (a shell and clip sync are ended by their user), if the child
\* processes do: a lost connection, an idle timeout or a refused login included.
CommandEnds ==
    \A c \in Conns : plan[c].cmd \in {"none", "attach", "clipsync"} \/ <>Ended(c)

Syncing(c) == plan[c].cmd = "clipsync" /\ "clipboard" \in plan[c].perms /\ ~plan[c].lossy
\* Once somebody has copied something and the users leave the clipboards alone, both
\* hold the same text again, also after both copied at once.
ClipboardsAgree ==
    \A c \in Conns : Syncing(c) => <>[](clip.next > MaxCopies => clip.local.v = clip.remote)
=============================================================================
