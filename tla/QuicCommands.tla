---------------------------- MODULE QuicCommands ----------------------------
(***************************************************************************)
(* Commands over QUIC: dispatch_quic maps each command to exec, push, pull  *)
(* or ls, QuicClient opens a stream for each call, and the server answers   *)
(* every stream in a task of its own after the first one authenticated the  *)
(* connection.  (Shell and tunnels over QUIC: ShellRelay, Tunnel.)          *)
(*                                                                         *)
(* A stream carries tokens and, if its writer finished it, ends with "fin";  *)
(* a connection that is lost or idle for 30 seconds ends every stream       *)
(* without one.  Commands are not retried.                                  *)
(***************************************************************************)
EXTENDS Integers, Sequences

CONSTANTS
    QuicScenarios,  \* set of [cmd, key, perms, result]
    StatusCount     \* the pings of `status`

ASSUME QuicAssumption ==
    /\ StatusCount \in Nat \ {0}
    /\ QuicScenarios \subseteq [cmd : STRING, key : {"known", "wrong", "unknown"},
                                perms : SUBSET STRING, result : {"fine", "fails", "hangs"}]

VARIABLES
    quicJob,    \* the scenario
    quicUp,     \* the connection is up
    qc,         \* the client
    qs,         \* the server: the connection, the task of the current stream, and the
                \* number in the last size field sent, the token "size"
    toQs,       \* the current stream to the server
    toQc,       \* the current stream to the client
    stored,     \* the file on the server
    ran         \* commands the server has started

quicVars == <<quicJob, quicUp, qc, qs, toQs, toQc, stored, ran>>

QuicData == <<"1", "2">>
Fin1 == "fin"

-----------------------------------------------------------------------------
(* run: what each command does. *)

Local == {"ping", "server-version"}
NotOverQuic == {"sessions", "attach", "browse", "sftp"}
Power == {"reboot", "shutdown", "sleep"}
\* The calls of a command; "status" repeats its own.  Everything that is not in the list is
\* sent as a command line.
Verb(cmd) ==
    CASE cmd \in {"push", "write"} -> "push"
      [] cmd \in {"pull", "cat"} -> "pull"
      [] cmd = "ls" -> "ls"
      [] OTHER -> "exec"
CallsOf(cmd) == IF cmd = "status" THEN StatusCount ELSE 1
\* Errors of these are counted or dropped.
Forgiving(cmd) == cmd \in Power \cup {"status"}

QuicInit ==
    /\ quicJob \in QuicScenarios
    /\ quicUp = TRUE
    /\ qc = [at |-> IF quicJob.cmd = "none" THEN "done" ELSE "connect", call |-> 1, got |-> <<>>, exit |-> "none"]
    /\ qs = [conn |-> "none", at |-> "none", size |-> 0, data |-> <<>>]
    /\ toQs = <<>> /\ toQc = <<>> /\ ran = 0
    /\ stored = IF Verb(quicJob.cmd) = "push" THEN <<"old">> ELSE QuicData

-----------------------------------------------------------------------------
(* The client: connect, authenticate, the command, close. *)

QuicSays(s) == toQs' = toQs \o s
QuicDone(e) == [qc EXCEPT !.at = "done", !.exit = e]

QuicConnect ==
    /\ qc.at = "connect"
    /\ IF quicUp THEN /\ qc' = [qc EXCEPT !.at = "challenge"] /\ QuicSays(<<"authreq">>)
                      /\ qs' = [qs EXCEPT !.conn = "auth"]
       ELSE qc' = QuicDone("error") /\ UNCHANGED <<toQs, qs>>
    /\ UNCHANGED <<quicJob, quicUp, toQc, stored, ran>>

\* recv_json: a line, or an error if the stream ends.
QuicAuth ==
    /\ qc.at \in {"challenge", "result"}
    /\ toQc # <<>> \/ ~quicUp
    /\ LET line == IF toQc = <<>> THEN "lost" ELSE Head(toQc)
       IN  /\ qc' = IF line = "challenge" THEN [qc EXCEPT !.at = "result"]
                    ELSE IF line = "welcome" THEN [qc EXCEPT !.at = "command"] ELSE QuicDone("error")
           /\ toQs' = IF line = "challenge" /\ quicUp THEN <<"signature", Fin1>> ELSE toQs
           /\ toQc' = IF line = "challenge" THEN Tail(toQc) ELSE <<>>
    /\ UNCHANGED <<quicJob, quicUp, qs, stored, ran>>

\* The command's own checks: local answers, refusals, the question before a power command.
QuicLocal ==
    /\ qc.at = "command"
    /\ \/ quicJob.cmd \in Local /\ qc' = QuicDone("ok")
       \/ quicJob.cmd \in NotOverQuic /\ qc' = QuicDone("error")
       \/ quicJob.cmd \in Power /\ qc' = QuicDone("ok")
    /\ UNCHANGED <<quicJob, quicUp, qs, toQs, toQc, stored, ran>>

\* open_bi, header, body, finish.
QuicCall ==
    /\ qc.at = "command" /\ quicJob.cmd \notin Local \cup NotOverQuic
    /\ IF quicUp
       THEN /\ qc' = [qc EXCEPT !.at = "answer", !.got = <<>>]
            /\ toQs' = CASE Verb(quicJob.cmd) = "push" -> <<"push", "size">> \o QuicData \o <<Fin1>>
                         [] Verb(quicJob.cmd) = "exec" -> <<"exec", "cmd", Fin1>>
                         [] OTHER -> <<Verb(quicJob.cmd), Fin1>>
            /\ toQc' = <<>> /\ qs' = [qs EXCEPT !.at = "header", !.size = Len(QuicData)]
       ELSE /\ qc' = [qc EXCEPT !.at = "answered", !.got = <<"lost">>]
            /\ UNCHANGED <<toQs, toQc, qs>>
    /\ UNCHANGED <<quicJob, quicUp, stored, ran>>

\* exec and push read to the end of the stream, ls a line, pull exactly what is announced.
\* Nothing but a whole answer is taken; a stream that is cut off is an error.
AnswerWhole ==
    LET n == Len(toQc) IN
    n > 0 /\ CASE Verb(quicJob.cmd) \in {"exec", "push"} -> toQc[n] = Fin1
               [] Verb(quicJob.cmd) = "pull" ->
                     \/ toQc[1] = "ERROR"
                     \/ n >= 2 /\ toQc[1] = "OK" /\ n >= 2 + qs.size
               [] OTHER -> TRUE
QuicAnswer ==
    /\ qc.at = "answer"
    /\ AnswerWhole \/ ~quicUp \/ (toQc # <<>> /\ toQc[Len(toQc)] = Fin1)
    /\ qc' = [qc EXCEPT !.at = "answered", !.got = IF AnswerWhole THEN toQc ELSE <<"lost">>]
    /\ UNCHANGED <<quicJob, quicUp, qs, toQs, toQc, stored, ran>>

\* The command takes the answer: OK or an error; status goes on, a screenshot must be base64.
QuicTakes ==
    /\ qc.at = "answered"
    /\ LET ok == /\ qc.got[1] \in {"OK", "json"}
                 /\ quicJob.cmd = "ss" => qc.got[2] # "ERROR"
       IN  qc' = IF qc.call < CallsOf(quicJob.cmd) THEN [qc EXCEPT !.at = "command", !.call = @ + 1]
                 ELSE QuicDone(IF ok \/ Forgiving(quicJob.cmd) THEN "ok" ELSE "error")
    /\ UNCHANGED <<quicJob, quicUp, qs, toQs, toQc, stored, ran>>

-----------------------------------------------------------------------------
(* The server: handle_quic_connection, authenticate_quic_stream. *)

Answers(s) == toQc' = IF quicUp THEN toQc \o s ELSE toQc

AuthRequest ==
    /\ qs.conn = "auth" /\ toQs # <<>> /\ Head(toQs) = "authreq"
    /\ toQs' = Tail(toQs)
    /\ IF quicJob.key = "unknown" THEN qs' = [qs EXCEPT !.conn = "closed"] /\ Answers(<<"refused", Fin1>>)
       ELSE qs' = [qs EXCEPT !.conn = "signed"] /\ Answers(<<"challenge">>)
    /\ UNCHANGED <<quicJob, quicUp, qc, stored, ran>>
AuthVerify ==
    /\ qs.conn = "signed" /\ toQs # <<>> /\ Head(toQs) = "signature"
    /\ toQs' = <<>>
    /\ IF quicJob.key = "wrong" THEN qs' = [qs EXCEPT !.conn = "closed"] /\ Answers(<<"refused", Fin1>>)
       ELSE qs' = [qs EXCEPT !.conn = "open"] /\ Answers(<<"welcome", Fin1>>)
    /\ UNCHANGED <<quicJob, quicUp, qc, stored, ran>>
\* After a refusal the connection is closed, which may overtake the answer.
AuthClose ==
    /\ qs.conn = "closed" /\ quicUp /\ quicUp' = FALSE
    /\ \E n \in 0 .. Len(toQc) : toQc' = SubSeq(toQc, 1, n)
    /\ UNCHANGED <<quicJob, qc, qs, toQs, stored, ran>>

\* handle_quic_stream: the header and the permission for it.
handle_quic_stream ==
    /\ qs.conn = "open" /\ qs.at = "header" /\ toQs # <<>>
    /\ toQs' = Tail(toQs)
    /\ IF Head(toQs) \in quicJob.perms
       THEN qs' = [qs EXCEPT !.at = Head(toQs)] /\ UNCHANGED toQc
       ELSE qs' = [qs EXCEPT !.at = "none"] /\ Answers(<<"ERROR", Fin1>>)
    /\ UNCHANGED <<quicJob, quicUp, qc, stored, ran>>

\* handle_quic_exec: the command is started ...
ExecStarts ==
    /\ qs.at = "exec" /\ toQs # <<>> /\ Head(toQs) = "cmd"
    /\ toQs' = Tail(toQs) /\ ran' = ran + 1
    /\ qs' = [qs EXCEPT !.at = "running"]
    /\ UNCHANGED <<quicJob, quicUp, qc, toQc, stored>>
\* ... or it is not: the safety guard blocks it or it cannot be spawned, which is reported
\* after OK, as is a command that fails; a blank command line is refused without OK.
ExecRefused ==
    /\ qs.at = "exec" /\ toQs # <<>> /\ Head(toQs) = "cmd"
    /\ toQs' = Tail(toQs)
    /\ qs' = [qs EXCEPT !.at = "none"]
    /\ \/ Answers(<<"OK", "ERROR", Fin1>>)
       \/ quicJob.cmd = "exec" /\ Answers(<<"ERROR", Fin1>>)
    /\ UNCHANGED <<quicJob, quicUp, qc, stored, ran>>
ExecEnds ==
    /\ qs.at = "running" /\ quicJob.result # "hangs"
    /\ qs' = [qs EXCEPT !.at = "none"]
    /\ Answers(<<"OK", IF quicJob.result = "fine" THEN "output" ELSE "ERROR", Fin1>>)
    /\ UNCHANGED <<quicJob, quicUp, qc, toQs, stored, ran>>

\* handle_quic_push: size and data complete, then fs::write: truncated, written, answered.
\* A write that fails leaves the truncated file and says so.
PushReads ==
    /\ qs.at = "push"
    /\ \/ Len(toQs) > qs.size /\ stored' = <<>>
          /\ qs' = [qs EXCEPT !.at = "writing", !.data = SubSeq(toQs, 2, 1 + qs.size)]
       \/ Len(toQs) <= qs.size /\ ~quicUp /\ qs' = [qs EXCEPT !.at = "none"] /\ UNCHANGED stored
    /\ UNCHANGED <<quicJob, quicUp, qc, toQs, toQc, ran>>
PushWrites ==
    /\ qs.at = "writing"
    /\ qs' = [qs EXCEPT !.at = "none"]
    /\ IF quicJob.result = "fine"
       THEN stored' = qs.data /\ Answers(<<"OK", "size", Fin1>>)
       ELSE UNCHANGED stored /\ Answers(<<"ERROR", Fin1>>)
    /\ UNCHANGED <<quicJob, quicUp, qc, toQs, ran>>

\* handle_quic_pull reads the whole file first.
PullReads ==
    /\ qs.at = "pull" /\ qs' = [qs EXCEPT !.at = "none", !.size = Len(stored)]
    /\ Answers(IF quicJob.result = "fine" THEN <<"OK", "size">> \o stored \o <<Fin1>>
               ELSE <<"ERROR", Fin1>>)
    /\ UNCHANGED <<quicJob, quicUp, qc, toQs, stored, ran>>
ListDir ==
    /\ qs.at = "ls" /\ qs' = [qs EXCEPT !.at = "none"]
    /\ Answers(<<IF quicJob.result = "fine" THEN "json" ELSE "ERROR", Fin1>>)
    /\ UNCHANGED <<quicJob, quicUp, qc, toQs, stored, ran>>

-----------------------------------------------------------------------------
\* The connection is lost, or idle for 30 seconds: streams end without "fin", with part of
\* what was sent.
Cutoff ==
    /\ quicUp' = FALSE
    /\ \E n \in 0 .. Len(toQc), m \in 0 .. Len(toQs) :
          toQc' = SubSeq(toQc, 1, n) /\ toQs' = SubSeq(toQs, 1, m)
    /\ UNCHANGED <<quicJob, qc, qs, stored, ran>>
QuicLost == quicUp /\ qc.at # "done" /\ Cutoff
QuicIdle == quicUp /\ qc.at = "answer" /\ qs.at = "running" /\ Cutoff

QuicClient == QuicConnect \/ QuicAuth \/ QuicLocal \/ QuicCall \/ QuicAnswer \/ QuicTakes
QuicServer ==
    \/ AuthRequest \/ AuthVerify \/ AuthClose \/ handle_quic_stream
    \/ ExecStarts \/ ExecRefused \/ ExecEnds \/ PushReads \/ PushWrites \/ PullReads \/ ListDir
QuicNext == QuicClient \/ QuicServer \/ QuicLost \/ QuicIdle
QuicFairness ==
    WF_quicVars(QuicClient) /\ WF_quicVars(QuicServer) /\ WF_quicVars(QuicIdle)
QuicSpec == QuicInit /\ [][QuicNext]_quicVars /\ QuicFairness

-----------------------------------------------------------------------------
(* Properties. *)

QuicOk == qc.at = "done" /\ qc.exit = "ok"
Asks == quicJob.cmd \notin Local

\* A success has happened: the file is there, the answer is complete, and a command whose
\* answer is not an error message was run, once, and succeeded.  An exec that failed, or was
\* refused before it began, is answered with OK as well and reported as a success with an
\* error text.  Power commands and status claim nothing: they are successful whatever comes
\* back.
QuicTold ==
    (QuicOk /\ Asks /\ ~Forgiving(quicJob.cmd)) =>
       CASE Verb(quicJob.cmd) = "push" -> stored = QuicData
         [] Verb(quicJob.cmd) = "pull" -> SubSeq(qc.got, 3, 2 + qs.size) = QuicData
         [] Verb(quicJob.cmd) = "ls" -> quicJob.result = "fine"
         [] OTHER -> qc.got[2] # "ERROR" => ran = 1 /\ quicJob.result = "fine"

\* No command is run twice for one call, and none without the permission or with another key.
QuicRunsOnce ==
    /\ ran <= qc.call
    /\ ran > 0 => "exec" \in quicJob.perms /\ quicJob.key = "known"

\* Every command ends: also one that hangs, after the idle timeout.
QuicRest == qc.at = "done"
=============================================================================
