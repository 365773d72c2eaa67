------------------------------ MODULE Transfer ------------------------------
(***************************************************************************)
(* One transfer command of the client (push, pull, of a file or a directory,*)
(* sync-dir) over one connection, and the server's request loop that serves *)
(* it: chunked pushes, delta pulls, walks, listings and the commands the    *)
(* client has the server run.  The connection may be lost, file operations  *)
(* fail, and somebody may edit a file on either side at any moment.         *)
(*                                                                         *)
(* In one more scenario ("api") a client of the sync protocol that is not   *)
(* part of this repository uses the requests of SyncFiles, one at a time.   *)
(***************************************************************************)
EXTENDS SyncFiles, SequencesExt

CONSTANTS
    Starts,   \* where a behaviour begins: the files L and R, and the job: op, unix, dry,
              \* delete, backup, excluded, and bad, the names the server refuses
    Edits,    \* what an edit may leave in a file
    Contents, \* what the "api" scenario writes
    Faults,   \* bound: losses of the connection and failed file operations
    MaxEdits, \* bound: edits by others
    MaxCalls  \* bound: requests in the "api" scenario

ASSUME TransferAssumption == {Faults, MaxEdits, MaxCalls} \subseteq Nat

VARIABLES
    begin,    \* where the behaviour began, a member of Starts
    L,        \* the files of the client
    open,     \* the connection is up
    up, down, \* its messages, to the server and to the client
    pc,       \* where the client is
    todo,     \* the files still to be transferred: pairs of a direction and a file
    size,     \* of the local file when it was looked up
    sent,     \* what has been sent of the file that is being pushed
    base,     \* the local content a pull started from
    got,      \* what has been received of the file that is being pulled
    spc,      \* where the server is: "requests", "chunks", "closed"
    into, sbuf,       \* the file being pushed, and what has arrived of it
    served,   \* ghost: what the server read for the pull it served last
    failed,   \* files the command has reported as failed
    exit,     \* "running", "ok" or "fail"
    faults, edits, calls,   \* how much of the bounds is left
    touched   \* ghost: some file has been edited by others

job == begin.job
client == <<pc, todo, size, sent, base, got>>
wires == <<open, up, down>>
server == <<spc, into, sbuf, served>>
result == <<failed, exit>>
cacheVars == <<files, blocks, report>>
env == <<faults, edits, calls, touched>>
transferVars == <<begin, L, R, client, wires, server, result, cacheVars, env>>

Waiting == {"mkdir", "backup", "sigs", "ack", "done", "ls", "isdir", "walk", "pullack",
            "blocks", "extras", "deleting"}

Breaks == faults > 0 /\ faults' = faults - 1 /\ UNCHANGED <<edits, calls, touched>>
Works == UNCHANGED env

\* Paths built with a backslash name another file on a Unix server.
remote_path(f) ==
    IF job.unix /\ job.op \in {"pull_dir", "sync_dir"} THEN f + MaxFile ELSE f

\* The server lists what is in the directory: the files and their backups.
InDir == Originals \cup {Backup(f) : f \in Originals}
handle_walk == [n \in InDir |-> IF Exists(R[n]) THEN <<[size |-> Len(Data(R[n])),
                                                       mtime |-> Mtime(R[n])]>> ELSE None]

LocalWalk == {n \in Names : Exists(L[n])}
is_excluded(f) == f \in job.excluded

Ok(out) == [t |-> "resp", ok |-> TRUE, out |-> out]
Error == [t |-> "resp", ok |-> FALSE, out |-> None]

-----------------------------------------------------------------------------
(* The client: helpers *)

\* A request into a dead connection fails when its answer is awaited.
Ask(m, where) ==
    /\ up' = IF open THEN Append(up, m) ELSE up
    /\ pc' = where
    /\ UNCHANGED <<open, down>>
Arrived == down # << >>
Msg == Head(down)
Taken == down' = Tail(down) /\ UNCHANGED <<open, up>>
\* The process ends, and with it the connection.
Exit(code) ==
    /\ pc' = "exit" /\ exit' = code /\ open' = FALSE
    /\ up' = << >> /\ down' = << >> /\ UNCHANGED <<todo, failed>>
TakenAndAsk(m, where) ==
    /\ down' = Tail(down) /\ up' = IF open THEN Append(up, m) ELSE up
    /\ pc' = where /\ UNCHANGED open

\* pull_dir and sync_dir go on with the next file; the others give up.
ItemFails(taken) ==
    IF job.op \in {"pull_dir", "sync_dir"}
    THEN /\ failed' = failed \cup {Head(todo)[2]}
         /\ pc' = "item" /\ todo' = Tail(todo)
         /\ down' = IF taken THEN Tail(down) ELSE down
         /\ UNCHANGED <<open, up, exit>>
    ELSE Exit("fail")

quiet == <<begin, R, server, cacheVars>>

-----------------------------------------------------------------------------
(* The client: commands *)

Queue(what, fs) == {[i \in DOMAIN s |-> <<what, s[i]>>] : s \in SetToSeqs(fs)}

\* push of a file that does not exist ends at once; a dry run of push_dir, or one of an
\* empty directory, goes straight on to what follows the pushes.
StartPush ==
    /\ pc = "start" /\ job.op = "push"
    /\ IF ~Exists(L[1]) \/ job.dry
       THEN Exit(IF Exists(L[1]) THEN "ok" ELSE "fail")
       ELSE pc' = "item" /\ todo' = <<<<"push", 1>>>> /\ UNCHANGED <<wires, result>>
    /\ UNCHANGED <<quiet, env, L, size, sent, base, got>>

StartPushDir ==
    /\ pc = "start" /\ job.op = "push_dir"
    /\ LET fs == {f \in Originals : Exists(L[f])}
       IN  IF fs = {} \/ job.dry
           THEN pc' = "item" /\ todo' = << >> /\ UNCHANGED wires
           ELSE todo' \in Queue("push", fs) /\ Ask([t |-> "exec", what |-> "mkdir"], "mkdir")
    /\ UNCHANGED <<quiet, env, result, L, size, sent, base, got>>

\* The answers to exec requests are ignored.
DirsMade ==
    /\ pc = "mkdir" /\ Arrived
    /\ Taken /\ pc' = "item"
    /\ UNCHANGED <<quiet, env, result, L, todo, size, sent, base, got>>

StartPull ==
    /\ pc = "start" /\ job.op \in {"pull", "pull_dir"}
    /\ Ask([t |-> "ls"], "isdir")
    /\ UNCHANGED <<quiet, env, result, L, todo, size, sent, base, got>>

\* What cannot be listed is taken for a file; a directory cannot be pulled as one (the
\* server's error to that is not a step of its own).
PullAsFile ==
    IF job.dry \/ job.op = "pull_dir"
    THEN Exit(IF job.dry THEN "ok" ELSE "fail")
    ELSE /\ pc' = "item" /\ todo' = <<<<"pull", 1>>>>
         /\ down' = << >> /\ UNCHANGED <<open, up, result>>

IsDir ==
    /\ pc = "isdir" /\ Arrived
    /\ IF Msg.ok THEN TakenAndAsk([t |-> "walk"], "walk") /\ UNCHANGED <<result, todo>>
                 ELSE PullAsFile
    /\ UNCHANGED <<quiet, env, L, size, sent, base, got>>

StartSyncDir ==
    /\ pc = "start" /\ job.op = "sync_dir"
    /\ Ask([t |-> "walk"], "walk")
    /\ UNCHANGED <<quiet, env, result, L, todo, size, sent, base, got>>

\* A buggy form: the older file wins.
Verdict_older(l, r) ==
    IF ~Exists(l) THEN "pull" ELSE IF ~Exists(r) THEN "push"
    ELSE IF Len(Data(l)) = r[1].size /\ (0 \in {Mtime(l), r[1].mtime} \/ Mtime(l) = r[1].mtime)
    THEN "same" ELSE IF r[1].mtime > Mtime(l) THEN "push" ELSE "pull"

\* sync_dir on one file: l the local file, r its entry in the walk.  Equal sizes and equal
\* or unknown mtimes mean equal files; the newer wins; in doubt the remote one.
Verdict(l, r) ==
    CASE ~Exists(l) -> "pull"
      [] ~Exists(r) -> "push"
      [] OTHER ->
            IF Len(Data(l)) = r[1].size
               /\ (0 \in {Mtime(l), r[1].mtime} \/ Mtime(l) = r[1].mtime)
            THEN "same"
            ELSE IF 0 \notin {Mtime(l), r[1].mtime} /\ Mtime(l) > r[1].mtime
            THEN "push" ELSE "pull"

\* The walk has arrived; the local directory is walked now, and the files that are to be
\* transferred are known (directories with backups in them are not pulled here).
Walked ==
    /\ pc = "walk" /\ Arrived
    /\ LET r == Msg.out
           fs == {n \in Originals : ~is_excluded(n) /\ (n \in LocalWalk \/ Exists(r[n]))}
           Of(what) == {f \in fs : Verdict(L[f], r[f]) = what}
       IN  \/ ~Msg.ok /\ Exit("fail")
           \/ Msg.ok /\ job.dry /\ Exit("ok")
           \/ /\ Msg.ok /\ ~job.dry /\ Taken /\ pc' = "item"
              /\ IF job.op = "pull_dir"
                 THEN todo' \in Queue("pull", {f \in Originals : Exists(r[f])})
                 ELSE \E a \in Queue("pull", Of("pull")), b \in Queue("push", Of("push")) :
                         todo' = a \o b
              /\ UNCHANGED result
    /\ UNCHANGED <<quiet, env, L, size, sent, base, got>>

\* Nothing is left to transfer: --delete still looks for files to remove.
AllDone ==
    /\ pc = "item" /\ todo = << >>
    /\ IF job.op = "push_dir" /\ job.delete
       THEN Ask([t |-> "walk"], "extras") /\ UNCHANGED <<todo, result>>
       ELSE Exit("ok")
    /\ UNCHANGED <<quiet, env, L, size, sent, base, got>>

\* delete_remote_extras: a failed walk is no error; the removal is one exec, whose answer
\* nobody looks at.
Extras ==
    /\ pc = "extras" /\ Arrived
    /\ LET r == Msg.out
           gone == {n \in InDir : Exists(r[n]) /\ n \notin LocalWalk}
       IN  IF ~Msg.ok \/ gone = {} THEN Exit("ok")
           ELSE /\ TakenAndAsk([t |-> "exec", what |-> "delete", names |-> gone], "deleting")
                /\ UNCHANGED <<todo, result>>
    /\ UNCHANGED <<quiet, env, L, size, sent, base, got>>

Deleted ==
    /\ pc = "deleting" /\ Arrived
    /\ Exit("ok")
    /\ UNCHANGED <<quiet, env, L, size, sent, base, got>>

-----------------------------------------------------------------------------
(* The client: one file *)

Cur == Head(todo)[2]

\* push_file.  push_dir skips a file that has gone, push_file makes an error of it.
PushItem ==
    /\ pc = "item" /\ todo # << >> /\ Head(todo)[1] = "push"
    /\ LET skip == ~Exists(L[Cur]) /\ job.op = "push_dir"
       IN  \/ skip /\ todo' = Tail(todo) /\ UNCHANGED <<pc, wires, result, size>>
           \/ ~skip /\ ~Exists(L[Cur]) /\ ItemFails(FALSE) /\ UNCHANGED size
           \/ /\ Exists(L[Cur]) /\ size' = Len(Data(L[Cur]))
              /\ IF job.op = "push_dir" /\ job.backup
                 THEN Ask([t |-> "exec", what |-> "backup", names |-> {Cur}], "backup")
                 ELSE Ask([t |-> "push-sigs"], "sigs")
              /\ UNCHANGED <<todo, result>>
    /\ UNCHANGED <<quiet, env, L, sent, base, got>>

BackedUp ==
    /\ pc = "backup" /\ Arrived
    /\ TakenAndAsk([t |-> "push-sigs"], "sigs")
    /\ UNCHANGED <<quiet, env, result, L, todo, size, sent, base, got>>

\* This server denies push-sigs, as every request it does not know: a full push follows.
\* (push_delta, for signatures, is not reached.)
Signatures ==
    /\ pc = "sigs" /\ Arrived /\ ~Msg.ok
    /\ TakenAndAsk([t |-> "push-chunked", name |-> remote_path(Cur)], "ack")
    /\ UNCHANGED <<quiet, env, result, L, todo, size, sent, base, got>>

\* push_full_streaming: the file is opened after the ack.
PushAccepted ==
    /\ pc = "ack" /\ Arrived
    /\ \/ Msg.ok /\ Exists(L[Cur]) /\ Taken /\ pc' = "send" /\ sent' = << >>
          /\ Works /\ UNCHANGED <<todo, result>>
       \/ ~(Msg.ok /\ Exists(L[Cur])) /\ ItemFails(TRUE) /\ Works /\ UNCHANGED sent
    /\ UNCHANGED <<quiet, L, size, base, got>>

\* The chunks are read one by one, from the file as it is by then.
SendChunk ==
    /\ pc = "send"
    /\ LET data == DataOr(L[Cur], << >>)
           chunk == BlockAt(data, Len(sent))
       IN  \/ /\ Len(sent) < Len(data)
              /\ Ask([t |-> "D", bytes |-> chunk], "send") /\ sent' = sent \o chunk
              /\ Works /\ UNCHANGED <<todo, result>>
           \/ /\ Len(sent) >= Len(data) /\ Ask([t |-> "E"], "done")
              /\ Works /\ UNCHANGED <<sent, todo, result>>
           \/ Breaks /\ ItemFails(FALSE) /\ UNCHANGED sent
    /\ UNCHANGED <<quiet, L, size, base, got>>

Pushed ==
    /\ pc = "done" /\ Arrived
    /\ \/ /\ Msg.ok /\ job.op = "push"
          /\ TakenAndAsk([t |-> "ls"], "ls") /\ UNCHANGED <<todo, result>>
       \/ /\ Msg.ok /\ job.op # "push"
          /\ Taken /\ pc' = "item" /\ todo' = Tail(todo) /\ UNCHANGED result
       \/ ~Msg.ok /\ ItemFails(TRUE)
    /\ UNCHANGED <<quiet, env, L, size, sent, base, got>>

\* push looks its file up in the listing; a listing that fails proves nothing.
Verify ==
    /\ pc = "ls" /\ Arrived
    /\ Exit(IF Msg.ok /\ (~Exists(Msg.out[1]) \/ Msg.out[1][1].size # size)
            THEN "fail" ELSE "ok")
    /\ UNCHANGED <<quiet, env, L, size, sent, base, got>>

\* pull: the local file is read, and its signatures go along.
PullItem ==
    /\ pc = "item" /\ todo # << >> /\ Head(todo)[1] = "pull"
    /\ base' = DataOr(L[Cur], << >>) /\ got' = << >>
    /\ L' = IF job.op = "pull_dir" /\ job.backup /\ Exists(L[Cur])
            THEN [L EXCEPT ![Backup(Cur)] = L[Cur]] ELSE L
    /\ Ask([t |-> "pull-delta", name |-> remote_path(Cur),
            sigs |-> compute_signatures(DataOr(L[Cur], << >>))], "pullack")
    /\ UNCHANGED <<quiet, env, result, todo, size, sent>>

PullAccepted ==
    /\ pc = "pullack" /\ Arrived
    /\ IF Msg.ok THEN Taken /\ pc' = "blocks" /\ UNCHANGED <<todo, result>>
                        ELSE ItemFails(TRUE)
    /\ UNCHANGED <<quiet, env, L, size, sent, base, got>>

PullBlock ==
    /\ pc = "blocks" /\ Arrived /\ Msg.t \in {"M", "D"}
    /\ got' = got \o (IF Msg.t = "D" THEN Msg.bytes
                      ELSE BlockAt(base, Msg.index * BLOCK_SIZE))
    /\ Taken
    /\ UNCHANGED <<quiet, env, result, L, pc, todo, size, sent, base>>

\* The whole file is written; if that fails it is left as it was or cut short, pull_dir
\* reports it and goes on, the others end.
PullEnds ==
    /\ pc = "blocks" /\ Arrived /\ Msg.t = "E"
    /\ \/ /\ L' = [L EXCEPT ![Cur] = File(got, Now)] /\ Works
          /\ Taken /\ pc' = "item" /\ todo' = Tail(todo) /\ UNCHANGED result
       \/ /\ Breaks
          /\ L' \in {L, [L EXCEPT ![Cur] = File(BlockAt(got, 0), Now)]}
          /\ IF job.op = "pull_dir" THEN ItemFails(TRUE) ELSE Exit("fail")
    /\ UNCHANGED <<quiet, size, sent, base, got>>

\* The connection is gone, and whatever had arrived has been taken.
ConnectionLost ==
    /\ ~open /\ down = << >> /\ pc \in Waiting \cup {"send"}
    /\ CASE pc = "mkdir" -> pc' = "item" /\ UNCHANGED <<todo, wires, result>>
         [] pc = "backup" -> pc' = "sigs" /\ UNCHANGED <<todo, wires, result>>
         [] pc \in {"ls", "deleting"} -> Exit("ok")
         [] pc = "isdir" -> PullAsFile
         [] pc \in {"walk", "extras"} -> Exit("fail")
         [] OTHER -> ItemFails(FALSE)
    /\ UNCHANGED <<quiet, env, L, size, sent, base, got>>

-----------------------------------------------------------------------------
(* The server *)

Answer(ms) == up' = Tail(up) /\ down' = down \o ms /\ UNCHANGED open
still == <<begin, L, client, result, cacheVars>>

\* An exec request: PowerShell commands only do something on Windows.
exec(m) ==
    CASE m.what = "mkdir" \/ job.unix -> R
      [] m.what = "backup" /\ ~job.unix ->
            [n \in Names |-> IF \E f \in m.names : n = Backup(f) /\ Exists(R[f])
                             THEN R[n - 2 * MaxFile]
                             ELSE IF n \in m.names THEN None ELSE R[n]]
      [] m.what = "delete" /\ ~job.unix ->
            [n \in Names |-> IF n \in m.names THEN None ELSE R[n]]

\* A request that is answered at once.  pull is of a file unless the command says so.
ServeRequest ==
    /\ spc = "requests" /\ up # << >> /\ Head(up).t \in {"push-sigs", "ls", "walk", "exec"}
    /\ \/ Head(up).t = "push-sigs" /\ Answer(<<Error>>) /\ Works /\ UNCHANGED R
       \/ /\ Head(up).t = "ls" /\ Works /\ UNCHANGED R
          /\ Answer(<<IF job.op = "pull" THEN Error ELSE Ok(handle_walk)>>)
       \/ Head(up).t = "walk" /\ Answer(<<Ok(handle_walk)>>) /\ Works /\ UNCHANGED R
       \/ Head(up).t = "exec" /\ R' = exec(Head(up)) /\ Answer(<<Ok(None)>>) /\ Works
       \/ /\ Head(up).t \in {"ls", "walk", "exec"} /\ Breaks
          /\ Answer(<<Error>>) /\ UNCHANGED R
    /\ UNCHANGED <<still, server>>

\* The file is read once; then its blocks follow the ack, and the end marker.
handle_pull_delta(m) ==
    /\ Answer(<<Ok(None)>> \o PullBlocks(Data(R[m.name]), m.sigs) \o <<[t |-> "E"]>>)
    /\ served' = Data(R[m.name])

\* A name the server refuses gets no answer at all.
ServePull ==
    /\ spc = "requests" /\ up # << >> /\ Head(up).t = "pull-delta"
    /\ LET m == Head(up)
       IN  \/ m.name \in job.bad /\ Answer(<< >>) /\ Works /\ UNCHANGED served
           \/ m.name \notin job.bad /\ Exists(R[m.name]) /\ handle_pull_delta(m) /\ Works
           \/ /\ m.name \notin job.bad
              /\ IF Exists(R[m.name]) THEN Breaks ELSE Works
              /\ Answer(<<Error>>) /\ UNCHANGED served
    /\ UNCHANGED <<still, R, spc, into, sbuf>>

\* A buggy form: what an earlier push left in the buffer stays there.
AcceptPush_unclean(name) == spc' = "chunks" /\ into' = name /\ UNCHANGED sbuf

AcceptPush(name) == spc' = "chunks" /\ into' = name /\ sbuf' = << >>

\* handle_push_chunked up to its ack; the parent directory may not be to be had.
ServePush ==
    /\ spc = "requests" /\ up # << >> /\ Head(up).t = "push-chunked"
    /\ LET m == Head(up)
       IN  \/ m.name \in job.bad /\ Answer(<< >>) /\ Works /\ UNCHANGED <<spc, into, sbuf>>
           \/ m.name \notin job.bad /\ Answer(<<Ok(None)>>) /\ Works /\ AcceptPush(m.name)
           \/ /\ m.name \notin job.bad /\ Breaks /\ Answer(<<Error>>)
              /\ UNCHANGED <<spc, into, sbuf>>
    /\ UNCHANGED <<still, R, served>>

\* A buggy form: a message that does not belong to the push is passed over.
UnexpectedMessage_skip == Answer(<< >>) /\ UNCHANGED spc

UnexpectedMessage == Answer(<<Error>>) /\ spc' = "requests"

\* The rest of it: chunks, the end marker, or a message that does not belong here, which
\* ends the push.  A write that fails leaves the old file or a short one.
ServeChunk ==
    /\ spc = "chunks" /\ up # << >>
    /\ \/ /\ Head(up).t = "D" /\ sbuf' = sbuf \o Head(up).bytes
          /\ Answer(<< >>) /\ Works /\ UNCHANGED <<R, spc>>
       \/ /\ Head(up).t = "E" /\ spc' = "requests" /\ UNCHANGED sbuf
          /\ \/ R' = Put(into, sbuf) /\ Answer(<<Ok(None)>>) /\ Works
             \/ R' \in {R, Put(into, BlockAt(sbuf, 0))} /\ Answer(<<Error>>) /\ Breaks
       \/ /\ Head(up).t \notin {"D", "E"} /\ UnexpectedMessage
          /\ Works /\ UNCHANGED <<R, sbuf>>
    /\ UNCHANGED <<still, into, served>>

\* The handler of a connection that is gone ends, without writing what it has.
Hangup ==
    /\ ~open /\ spc # "closed"
    /\ spc' = "closed"
    /\ UNCHANGED <<still, R, env, wires, into, sbuf, served>>

\* The request loop waits 300 s for a request (a client that has the next move makes it in
\* less), then the connection is closed.
IdleTimeout ==
    /\ open /\ spc = "requests" /\ up = << >> /\ pc \in Waiting /\ down = << >>
    /\ open' = FALSE /\ spc' = "closed"
    /\ UNCHANGED <<still, R, env, up, down, into, sbuf, served>>

-----------------------------------------------------------------------------
(* The environment *)

\* The connection breaks; what was on its way to the client may still arrive.
Cut ==
    /\ open /\ pc # "exit" /\ job.op # "api" /\ Breaks
    /\ open' = FALSE /\ up' = << >> /\ down' \in {down, << >>}
    /\ UNCHANGED <<still, R, server>>

Edit(f, data) ==
    /\ edits > 0 /\ edits' = edits - 1 /\ touched' = TRUE /\ pc # "exit"
    /\ \/ R' = [R EXCEPT ![f] = data] /\ UNCHANGED L
       \/ L' = [L EXCEPT ![f] = data] /\ UNCHANGED R
    /\ report' = << >>
    /\ UNCHANGED <<begin, client, wires, server, result, files, blocks, faults, calls>>

-----------------------------------------------------------------------------
(* The sync requests no command of this client makes *)

Api == pc = "api" /\ calls > 0 /\ calls' = calls - 1
apiStill == <<begin, wires, server, result, faults, edits, touched, pc, size>>

\* The signatures of f as it is now: what a patch of it is worked out from.
ApiSignatures(f) ==
    /\ Api
    /\ got' = handle_batch_signatures({f})[f] /\ base' = DataOr(R[f], << >>)
    /\ todo' = <<<<"sigs", f>>>>
    /\ report' = << >>
    /\ UNCHANGED <<apiStill, R, L, files, blocks, sent>>

\* The new content as a delta against those signatures, by itself or in a batch.
ApiPatch(new) ==
    /\ Api /\ todo # << >>
    /\ LET ops == compute_delta(new, got)
       IN  \/ R' = handle_apply_patch(Cur, ops)
           \/ \E backup \in BOOLEAN : R' = handle_batch_patch([n \in {Cur} |-> ops], backup)
    /\ todo' = << >>
    /\ report' = IF DataOr(R[Cur], << >>) = base THEN <<<<Cur, new, "patched">>>> ELSE << >>
    /\ UNCHANGED <<apiStill, L, files, blocks, sent, base, got>>

\* A pull by delta: the server compares its file with the signatures of the client's.
ApiDelta(f) ==
    /\ Api /\ Exists(R[f])
    /\ LET mine == DataOr(L[f], << >>)
       IN  L' = [L EXCEPT ![f] = File(apply_delta(mine,
                                        handle_compute_delta(f, compute_signatures(mine))), Now)]
    /\ report' = <<<<f, Data(R[f]), "pulled">>>>
    /\ UNCHANGED <<apiStill, R, files, blocks, todo, sent, base, got>>

\* The contents of several files in one blob; some of the names may be refused.
ApiPatchBin(contents, bad) ==
    /\ Api
    /\ R' = handle_batch_patch_bin([n \in Originals |-> [name |-> n, size |-> Len(contents[n])]],
                                   FlattenSeq(contents), bad)
    /\ report' = [f \in Originals |-> <<f, contents[f], IF f \in bad THEN "refused" ELSE "patched">>]
    /\ UNCHANGED <<apiStill, L, files, blocks, todo, sent, base, got>>

ApiSmartSync(items) ==
    /\ Api
    /\ LET s == handle_smart_sync(items)
       IN  R' = s.disk /\ files' = s.cache.rec /\ blocks' = s.cache.src /\ report' = s.said
    /\ UNCHANGED <<apiStill, L, todo, sent, base, got>>

ApiFindAndMove(items) ==
    /\ Api
    /\ LET s == handle_find_and_move(items) IN R' = s.disk /\ report' = s.said
    /\ UNCHANGED <<apiStill, L, files, blocks, todo, sent, base, got>>

\* index-dir, perhaps after a cleanup of what has not been used for long.
ApiIndexDir(old) ==
    /\ Api
    /\ LET c == handle_index_dir(cleanup(Cache, old)) IN files' = c.rec /\ blocks' = c.src
    /\ UNCHANGED <<apiStill, R, L, report, todo, sent, base, got>>

Items == {<<[dest |-> 1, hash |-> d]>> : d \in Contents}
         \cup {<<[dest |-> 1, hash |-> d], [dest |-> 2, hash |-> e]>> : d, e \in Contents}

ApiNext ==
    \/ \E f \in Originals : ApiSignatures(f) \/ ApiDelta(f)
    \/ \E new \in Contents : ApiPatch(new)
    \/ \E c \in [Originals -> Contents], bad \in SUBSET Originals : ApiPatchBin(c, bad)
    \/ \E items \in Items : ApiSmartSync(items) \/ ApiFindAndMove(items)
    \/ \E old \in SUBSET Originals : ApiIndexDir(old)

-----------------------------------------------------------------------------

TransferInit ==
    /\ begin \in Starts /\ L = begin.L /\ R = begin.R
    /\ files = [n \in Names |-> None] /\ blocks = {} /\ report = << >>
    /\ open = TRUE /\ up = << >> /\ down = << >>
    /\ pc = (IF job.op = "api" THEN "api" ELSE "start")
    /\ todo = << >> /\ size = 0 /\ sent = << >> /\ base = << >> /\ got = << >>
    /\ spc = "requests" /\ into = 1 /\ sbuf = << >> /\ served = << >>
    /\ failed = {} /\ exit = "running"
    /\ faults = Faults /\ edits = MaxEdits /\ calls = MaxCalls /\ touched = FALSE

ClientNext ==
    \/ StartPush \/ StartPushDir \/ DirsMade \/ StartPull \/ IsDir \/ StartSyncDir
    \/ Walked \/ AllDone \/ Extras \/ Deleted \/ PushItem \/ BackedUp \/ Signatures
    \/ PushAccepted \/ SendChunk \/ Pushed \/ Verify \/ PullItem \/ PullAccepted
    \/ PullBlock \/ PullEnds \/ ConnectionLost

ServerNext == ServeRequest \/ ServePull \/ ServePush \/ ServeChunk \/ Hangup

TransferNext ==
    \/ ClientNext \/ ServerNext \/ IdleTimeout \/ Cut
    \/ \E f \in Originals, data \in Edits : Edit(f, data)
    \/ ApiNext

\* Both processes run on; the timer of the request loop fires.
TransferFairness ==
    WF_transferVars(ClientNext) /\ WF_transferVars(ServerNext) /\ WF_transferVars(IdleTimeout)

-----------------------------------------------------------------------------
(* Properties *)

\* What a pull writes is, byte for byte, what the server read for it, whatever the local
\* file held before and whichever blocks of it were reused.
PulledIsServed ==
    [][\A f \in Originals : L'[f] # L[f] /\ pc = "blocks" /\ exit' # "fail" /\ failed' = failed
          /\ touched' = touched /\ edits' = edits => Data(L'[f]) = served]_transferVars

\* When the server reports a push as done, the file holds all of what the client read from
\* its file, in that order, also if an earlier push on this connection broke off in the
\* middle (unless somebody has changed it since).
PushedIsSent ==
    pc = "done" /\ down # << >> /\ Msg.ok /\ ~touched
    => DataOr(R[remote_path(Cur)], None) = sent

\* When the client makes a request, no message of an earlier one is left on the
\* connection: an answer is never taken for that to another request.
InStep ==
    open /\ pc \in {"start", "item"} => down = << >> /\ (spc = "requests" => up = << >>)

\* What sync-dir cannot tell apart.
LooksEqual(l, r) ==
    /\ Len(Data(l)) = Len(Data(r))
    /\ 0 \in {Mtime(l), Mtime(r)} \/ Mtime(l) = Mtime(r)

\* The content sync-dir settles on: the newer one, or the only one.
Newer(f) ==
    LET l == begin.L[f] r == begin.R[f]
    IN  IF ~Exists(r) \/ (Exists(l) /\ Mtime(l) > Mtime(r) /\ Mtime(r) > 0) THEN l ELSE r

\* A command that reports success has made the two sides equal: push and push_dir have put
\* the local file over the remote one, pull and pull_dir (if they list no failure) the
\* remote one over the local one, and sync-dir (with a Windows server) the newer over the
\* older, for every file it can tell to differ.
SuccessMeansSynced ==
    exit = "ok" /\ ~job.dry /\ ~touched /\ failed = {}
    => \A f \in Originals :
          /\ job.op \in {"push", "push_dir"} /\ Exists(begin.L[f])
             => DataOr(R[f], None) = Data(begin.L[f])
          /\ job.op \in {"pull", "pull_dir"} /\ Exists(begin.R[f])
             => DataOr(L[f], None) = Data(begin.R[f])
          /\ job.op = "sync_dir" /\ ~job.unix /\ f \notin job.excluded
             /\ (Exists(begin.L[f]) \/ Exists(begin.R[f]))
             => \/ /\ Exists(L[f]) /\ Exists(R[f])
                   /\ Data(L[f]) = Data(R[f]) /\ Data(L[f]) = Data(Newer(f))
                \/ /\ Exists(begin.L[f]) /\ Exists(begin.R[f])
                   /\ LooksEqual(begin.L[f], begin.R[f])

\* A delta worked out against the signatures of a file gives the new content when it is
\* applied to that file; one blob gives every file that is not refused its own content.
PatchedIsNew ==
    \A k \in DOMAIN report :
        /\ report[k][3] = "patched" => DataOr(R[report[k][1]], None) = report[k][2]
        /\ report[k][3] = "pulled" => DataOr(L[report[k][1]], None) = report[k][2]

\* What is reported as transferred arrived whole, by push, delta and batch, and every answer
\* was read by the request it belongs to.
DataIntact == PushedIsSent /\ InStep /\ PatchedIsNew

\* Every command comes to an end, also if the server never answers a request.
CommandEnds == job.op # "api" => <>(exit # "running")

\* cli.rs of --dry-run: nothing is done.  push_dir returns early, but --delete follows.
DryRunChangesNothing == [][job.dry /\ edits' = edits => R' = R /\ L' = L]_transferVars
=============================================================================
