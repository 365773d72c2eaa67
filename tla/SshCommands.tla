---------------------------- MODULE SshCommands ----------------------------
(***************************************************************************)
(* The SSH fallback: exec, push, pull and shell of SshSession, one session  *)
(* channel after the other, against an OpenSSH server (external) or the     *)
(* SSH side of an mrsh server.  OpenSSH reports the end of a channel in     *)
(* three messages: eof when the output is drained, exit-status when the     *)
(* process has ended, in either order, and close after both; output may     *)
(* follow the exit-status.                                                  *)
(*                                                                         *)
(* A file is a sequence of blocks, "t" text or "b" not; handle_exec makes   *)
(* text of its output, and a block that is not text becomes "?".            *)
(***************************************************************************)
EXTENDS Integers, Sequences

CONSTANTS
    SshScenarios,   \* set of [op, server, data, ends]: what is asked, of which server
    MaxSshInput     \* bound: what is typed into a shell

ASSUME SshAssumption ==
    /\ MaxSshInput \in Nat
    /\ SshScenarios \subseteq
          [op : {"none", "exec", "push", "pull", "pushdir", "shell"}, server : {"openssh", "mrsh"},
           data : Seq({"t", "b"}), ends : Nat]

VARIABLES
    sshJob,     \* the scenario: op, server, data and the exit code the process ends with
    sshUp,      \* the SSH connection is up
    ssh,        \* the client: call, place in it, what it has seen
    toSshd,     \* messages of the current channel to the server
    toSsh,      \* messages of the current channel to the client
    proc,       \* the remote process of the current channel
    remote,     \* content of the remote file per call, NoFile if it was never opened
    pulled      \* content of the local file of a pull, NoFile if not written

sshVars == <<sshJob, sshUp, ssh, toSshd, toSsh, proc, remote, pulled>>

Msg(k) == [k |-> k]
Block(b) == [k |-> "data", b |-> b]
NoFile == <<"no file">>
ExitStatus(n) == [k |-> "exit", n |-> n]

\* The channels a command opens: push and pull ask `uname -s` first, once per session
\* (is_remote_windows); a directory is pushed file by file.
Calls ==
    CASE sshJob.op = "push" -> <<"probe", "push">>
      [] sshJob.op = "pushdir" -> <<"probe", "push", "push">>
      [] sshJob.op = "pull" -> <<"probe", "pull">>
      [] OTHER -> <<sshJob.op>>
Call == Calls[ssh.call]
LastCall == Len(Calls)

NoProc == [at |-> "none", code |-> 0, out |-> <<>>, pipe |-> <<>>, told |-> {}, refused |-> FALSE]

SshInit ==
    /\ sshJob \in SshScenarios
    /\ sshUp = TRUE
    /\ ssh = [call |-> 1, at |-> IF sshJob.op = "none" THEN "done" ELSE "open",
              left |-> <<>>, code |-> 0, saw |-> {}, out |-> <<>>, typed |-> 0, skipped |-> 0, exit |-> "none"]
    /\ toSshd = <<>> /\ toSsh = <<>> /\ proc = NoProc
    /\ remote = [i \in 1 .. 3 |-> NoFile] /\ pulled = NoFile

-----------------------------------------------------------------------------
(* The client. *)

\* A call is over; failed says whether it returned an error.  The probe's answer picks the
\* command and is never an error; a directory push counts a failed file as skipped.
AfterCall(failed, c) ==
    LET skip == failed /\ sshJob.op = "pushdir" /\ Call = "push"
        stop == failed /\ Call # "probe" /\ ~skip
        told == IF stop THEN "error" ELSE "ok"
    IN  IF stop \/ c.call = LastCall
        THEN [c EXCEPT !.at = "done", !.exit = told, !.skipped = @ + (IF skip THEN 1 ELSE 0)]
        ELSE [c EXCEPT !.call = @ + 1, !.at = "open", !.skipped = @ + (IF skip THEN 1 ELSE 0)]

\* channel_open_session and exec, or request_pty, set_env and request_shell.
OpenChannel ==
    /\ ssh.at = "open"
    /\ IF sshUp
       THEN /\ ssh' = [ssh EXCEPT !.at = IF Call = "push" THEN "send" ELSE "wait",
                                  !.left = IF Call = "push" THEN sshJob.data ELSE <<>>,
                                  !.code = 0, !.saw = {}, !.out = <<>>]
            /\ toSshd' = <<Msg("exec")>> /\ toSsh' = <<>> /\ proc' = NoProc
       ELSE ssh' = AfterCall(TRUE, ssh) /\ UNCHANGED <<toSshd, toSsh, proc>>
    /\ UNCHANGED <<sshJob, sshUp, remote, pulled>>

\* push: the data in chunks, then eof.
PushData ==
    /\ ssh.at = "send"
    /\ IF sshUp
       THEN /\ toSshd' = Append(toSshd, IF ssh.left = <<>> THEN Msg("eof") ELSE Block(Head(ssh.left)))
            /\ ssh' = IF ssh.left = <<>> THEN [ssh EXCEPT !.at = "wait"]
                      ELSE [ssh EXCEPT !.left = Tail(@)]
       ELSE ssh' = AfterCall(TRUE, ssh) /\ UNCHANGED toSshd
    /\ UNCHANGED <<sshJob, sshUp, toSsh, proc, remote, pulled>>

\* The message that ends the wait of a call: exec and exec_streamed read until the channel is
\* closed, push and pull stop at the end of the output, the shell at either.
EndsWait(k) ==
    \/ k = "none"
    \/ k = "close" /\ Call \in {"probe", "exec", "shell"}
    \/ k = "eof" /\ Call \in {"push", "pull", "shell"}

\* Mutant: a missing exit-status counts as exit code 0.
CallFailedDefaultsToZero(c) == Call = "push" /\ c.code # 0
\* What the call returns.  exec without an exit-status is an error; push judges by the code it
\* has, 0 if none came; pull has whatever arrived; the shell returns the code it has.
CallFailed(c) ==
    \/ Call \in {"probe", "exec"} /\ "exit" \notin c.saw
    \/ Call = "push" /\ c.code # 0

\* channel.wait: "none" is the end of the channel, after what was still queued.
WaitMessage ==
    /\ ssh.at = "wait"
    /\ toSsh # <<>> \/ ~sshUp \/ "close" \in ssh.saw
    /\ LET m == IF toSsh = <<>> THEN Msg("none") ELSE Head(toSsh)
           c == [ssh EXCEPT !.saw = @ \cup {m.k},
                            !.code = IF m.k = "exit" THEN m.n ELSE @,
                            !.out = IF m.k = "data" THEN Append(@, m.b) ELSE @]
           refused == m.k = "exit" /\ m.n # 0 /\ Call = "pull"
       IN  /\ ssh' = IF refused THEN AfterCall(TRUE, c)
                     ELSE IF EndsWait(m.k) THEN AfterCall(CallFailed(c), c) ELSE c
           /\ toSsh' = IF toSsh = <<>> THEN toSsh ELSE Tail(toSsh)
           /\ pulled' = IF Call = "pull" /\ EndsWait(m.k) /\ ~refused THEN c.out ELSE pulled
    /\ UNCHANGED <<sshJob, sshUp, toSshd, proc, remote>>

\* relay_shell_channel: input, the end of stdin, and "~.", which hangs up with the code so far.
ShellInput ==
    /\ ssh.at = "wait" /\ Call = "shell" /\ sshUp
    /\ \/ /\ ssh.typed < MaxSshInput
          /\ ssh' = [ssh EXCEPT !.typed = @ + 1]
          /\ toSshd' = Append(toSshd, Block("t"))
       \/ /\ ssh.typed <= MaxSshInput
          /\ ssh' = [ssh EXCEPT !.typed = MaxSshInput + 1]
          /\ toSshd' = Append(toSshd, Msg("eof"))
       \/ /\ ssh' = AfterCall(FALSE, ssh)
          /\ toSshd' = toSshd \o <<Msg("eof"), Msg("close")>>
    /\ UNCHANGED <<sshJob, sshUp, toSsh, proc, remote, pulled>>

-----------------------------------------------------------------------------
(* An OpenSSH server and the process it runs (external). *)

Ask == IF toSshd = <<>> THEN "none" ELSE Head(toSshd).k
Writes == Call = "push"
Output == IF Call = "push" THEN <<>> ELSE sshJob.data
Exits(code) == [proc EXCEPT !.at = "exited", !.code = code]
CallCode == IF Call = "probe" THEN 0 ELSE sshJob.ends

\* The process starts; `cat > file` truncates the file.
ProcStarts ==
    /\ sshJob.server = "openssh" /\ Ask = "exec"
    /\ proc' = [NoProc EXCEPT !.at = "run", !.out = Output]
    /\ remote' = IF Writes THEN [remote EXCEPT ![ssh.call] = <<>>] ELSE remote
    /\ toSshd' = Tail(toSshd)
    /\ UNCHANGED <<sshJob, sshUp, ssh, toSsh, pulled>>
ProcReads ==
    /\ sshJob.server = "openssh" /\ proc.at = "run" /\ Ask = "data"
    /\ remote' = IF Writes THEN [remote EXCEPT ![ssh.call] = Append(@, Head(toSshd).b)] ELSE remote
    /\ toSshd' = Tail(toSshd)
    /\ UNCHANGED <<sshJob, sshUp, ssh, toSsh, proc, pulled>>
ProcWrites ==
    /\ proc.at = "run" /\ proc.out # <<>>
    /\ proc' = [proc EXCEPT !.out = Tail(@), !.pipe = Append(@, Head(proc.out))]
    /\ UNCHANGED <<sshJob, sshUp, ssh, toSshd, toSsh, remote, pulled>>
\* It ends when its input or its work does; one that fails may end at any time, and so does
\* one whose connection is gone.
ProcExits ==
    /\ proc.at = "run"
    /\ \/ CallCode # 0
       \/ IF Call \in {"push", "shell"} THEN Ask = "eof" ELSE proc.out = <<>>
    /\ proc' = Exits(CallCode)
    /\ UNCHANGED <<sshJob, sshUp, ssh, toSshd, toSsh, remote, pulled>>
ProcKilled ==
    /\ proc.at = "run" /\ ~sshUp
    /\ proc' = Exits(129)
    /\ UNCHANGED <<sshJob, sshUp, ssh, toSshd, toSsh, remote, pulled>>

Tells(m, k) ==
    /\ sshUp /\ toSsh' = Append(toSsh, m)
    /\ proc' = [proc EXCEPT !.told = @ \cup {k}, !.pipe = IF k = "data" THEN Tail(@) ELSE @]
    /\ UNCHANGED <<sshJob, sshUp, ssh, toSshd, remote, pulled>>
SshdData == proc.pipe # <<>> /\ Tells(Block(Head(proc.pipe)), "data")
SshdExit == proc.at = "exited" /\ "exit" \notin proc.told /\ Tells(ExitStatus(proc.code), "exit")
SshdEof == /\ proc.at = "exited" /\ proc.pipe = <<>> /\ "eof" \notin proc.told
           /\ Tells(Msg("eof"), "eof")
SshdClose == {"exit", "eof"} \subseteq proc.told /\ "close" \notin proc.told
             /\ Tells(Msg("close"), "close")

-----------------------------------------------------------------------------
(* The SSH side of an mrsh server. *)

\* handle_exec decodes the output: a block that is not text is replaced.
AsText(s) == [i \in 1 .. Len(s) |-> IF s[i] = "t" THEN "t" ELSE "?"]

\* exec_request: the command runs to its end inside the handler, without input, and all of
\* the answer is sent at once: output, exit-status 0 or 1, eof, close.
Asked == sshJob.server = "mrsh" /\ Ask = "exec" /\ sshUp /\ Call # "shell"
exec_request ==
    /\ Asked
    /\ LET ok == CallCode = 0
           said == IF Output = <<>> THEN <<>>
                   ELSE [i \in 1 .. Len(Output) |-> Block(AsText(Output)[i])]
       IN  /\ toSsh' = said \o <<ExitStatus(IF ok THEN 0 ELSE 1), Msg("eof"), Msg("close")>>
           /\ proc' = [Exits(CallCode) EXCEPT !.told = {"data", "exit", "eof", "close"}]
    /\ remote' = IF Writes THEN [remote EXCEPT ![ssh.call] = <<>>] ELSE remote
    /\ toSshd' = Tail(toSshd)
    /\ UNCHANGED <<sshJob, sshUp, ssh, pulled>>
\* The safety guard blocks the command, or it cannot be spawned: it is over before it began.
\* The reason, which goes to stderr, is left out.
ExecBlocked ==
    /\ Asked
    /\ toSsh' = <<ExitStatus(1), Msg("eof"), Msg("close")>>
    /\ proc' = [at |-> "exited", code |-> 1, out |-> Output, pipe |-> <<>>,
                told |-> {"data", "exit", "eof", "close"}, refused |-> TRUE]
    /\ toSshd' = Tail(toSshd)
    /\ UNCHANGED <<sshJob, sshUp, ssh, remote, pulled>>

\* shell_request starts the shell with the channel as its stream; the shell ends with its
\* input (shell.rs), and nobody sends an exit-status.
shell_request ==
    /\ sshJob.server = "mrsh" /\ Ask = "exec" /\ sshUp /\ Call = "shell"
    /\ proc' = [NoProc EXCEPT !.at = "run", !.out = Output, !.told = {"exit"}]
    /\ toSshd' = Tail(toSshd)
    /\ UNCHANGED <<sshJob, sshUp, ssh, toSsh, remote, pulled>>

\* data: blocks for a command are ignored.
IgnoreData ==
    /\ sshJob.server = "mrsh" /\ Ask = "data" /\ proc.at # "none"
    /\ toSshd' = Tail(toSshd)
    /\ UNCHANGED <<sshJob, sshUp, ssh, toSsh, proc, remote, pulled>>

\* channel_eof closes the channel at once, whatever the shell still has to say.
channel_eof ==
    /\ sshJob.server = "mrsh" /\ Ask = "eof" /\ sshUp /\ proc.at = "run"
    /\ toSsh' = Append(toSsh, Msg("close"))
    /\ proc' = [Exits(CallCode) EXCEPT !.pipe = <<>>, !.told = {"exit", "eof", "close"}]
    /\ toSshd' = Tail(toSshd)
    /\ UNCHANGED <<sshJob, sshUp, ssh, remote, pulled>>

-----------------------------------------------------------------------------
\* The connection is lost, and with it the end of what was on its way.
SshLost ==
    /\ sshUp /\ ssh.at # "done"
    /\ sshUp' = FALSE
    /\ \E n \in 0 .. Len(toSsh) : toSsh' = SubSeq(toSsh, 1, n)
    /\ toSshd' = <<>>
    /\ UNCHANGED <<sshJob, ssh, proc, remote, pulled>>

SshClient == OpenChannel \/ PushData \/ WaitMessage
SshServer ==
    \/ ProcStarts \/ ProcReads \/ ProcWrites \/ ProcExits \/ ProcKilled
    \/ SshdData \/ SshdExit \/ SshdEof \/ SshdClose
    \/ exec_request \/ ExecBlocked \/ shell_request \/ IgnoreData \/ channel_eof
SshNext == SshClient \/ ShellInput \/ SshServer \/ SshLost

\* Client and server run; the user of a shell ends it.
SshFairness ==
    /\ WF_sshVars(SshClient) /\ WF_sshVars(SshServer)
    /\ WF_sshVars(ShellInput /\ (ssh'.at = "done" \/ ssh'.typed > MaxSshInput))
SshSpec == SshInit /\ [][SshNext]_sshVars /\ SshFairness

-----------------------------------------------------------------------------
(* Properties. *)

Reported == ssh.at = "done" /\ ssh.exit = "ok"
Whole(s) == s = sshJob.data

\* The exit code of exec is the process's, seen or not at all: a connection that drops makes
\* it an error, never a zero, and so does a command that is refused; while the connection
\* holds the output is complete.
ExecTold ==
    (Reported /\ sshJob.op = "exec") =>
       /\ proc.at = "exited"
       /\ IF sshJob.server = "mrsh" THEN (ssh.code = 0) = (proc.code = 0) ELSE ssh.code = proc.code
       /\ proc.refused => ssh.code # 0
       /\ sshUp => IF sshJob.server = "mrsh" THEN (~proc.refused => ssh.out = AsText(sshJob.data))
                   ELSE (proc.code = 0 => Whole(ssh.out))

\* push and pull stop at eof.  Their word is good if the exit-status came before it, and the
\* server is one that feeds the command its input; without it a push that failed, or was cut
\* off, is a success.
PushTold ==
    (Reported /\ sshJob.op = "push" /\ "exit" \in ssh.saw /\ sshJob.server = "openssh")
       => Whole(remote[LastCall])
PullTold ==
    (Reported /\ sshJob.op = "pull" /\ {"exit", "eof"} \subseteq ssh.saw)
       => pulled = IF sshJob.server = "mrsh" THEN AsText(sshJob.data) ELSE sshJob.data

\* A pull that fails writes no file.
FailedPullWritesNothing == (ssh.at = "done" /\ ssh.exit = "error") => pulled = NoFile

SshTold == ExecTold /\ PushTold /\ PullTold /\ FailedPullWritesNothing

\* Every command ends, whatever the process, the server and the connection do.
SshRest == ssh.at = "done"
=============================================================================
