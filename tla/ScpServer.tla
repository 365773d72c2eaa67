----------------------------- MODULE ScpServer -----------------------------
(***************************************************************************)
(* File transfer of standard SSH clients with an mrsh server: handle_scp    *)
(* (sink and source) and the SFTP subsystem.  The clients, scp and sftp,    *)
(* are external.                                                            *)
(*                                                                         *)
(* The SCP streams carry tokens: headers "T", "D", "E" and "C" with a size,  *)
(* blocks of a file, the zero that is an acknowledgement and the end of a   *)
(* file, "err".  A path is a sequence of names, <<"t">> the path on the     *)
(* command line.  A file is a sequence of blocks.                           *)
(***************************************************************************)
EXTENDS Integers, Sequences

CONSTANTS
    ScpScenarios,   \* set of [mode, dir, items, other]; mode sink, source, put, get, list or none
    Stale           \* content of a file that was there before

VARIABLES
    scpJob,     \* the scenario
    dirs,       \* directories on the server
    tree,       \* files on the server: a set of [path, data]
    up,         \* tokens to the server
    down,       \* tokens to the client
    gone,       \* the client has hung up
    sv,         \* the server's task
    cl,         \* the client
    meddled     \* what another process did to the file: "no", "shrunk", "grown", "moved"

scpVars == <<scpJob, dirs, tree, up, down, gone, sv, cl, meddled>>

Tok(k) == [k |-> k]
Zero == Tok("zero")
Blk(b) == [k |-> "blk", b |-> b]
Blks(s) == [i \in 1 .. Len(s) |-> Blk(s[i])]
Front1(s) == IF s = <<>> THEN s ELSE SubSeq(s, 1, Len(s) - 1)
Item(i) == scpJob.items[i]
Stored(p) == {f.data : f \in {g \in tree : g.path = p}}
Store(p, s) == {f \in tree : f.path # p} \cup {[path |-> p, data |-> s]}
Content(p) == CHOOSE s \in Stored(p) : TRUE
Top == <<"t">>
Source == scpJob.mode = "source"

\* The directory a client is in once it has sent an item, before its i-th item, and the path of
\* that one.
DirAfter(dir, it) ==
    IF it.k = "D" THEN Append(dir, it.name) ELSE IF it.k = "E" THEN Front1(dir) ELSE dir
SentIn(items) ==
    LET d[i \in Nat] == IF i <= 1 THEN Top ELSE DirAfter(d[i - 1], items[i - 1]) IN d
PathOf(items, i) == Append(SentIn(items)[i], items[i].name)

\* What clients do: sftp has one file; scp sends no path twice, and a directory before the
\* files in it.
ASSUME ScpAssumption ==
    /\ Stale \in Seq(STRING)
    /\ ScpScenarios \subseteq
          [mode : {"sink", "source", "put", "get", "list", "none"}, dir : BOOLEAN, other : BOOLEAN,
           items : Seq([k : {"C", "D", "E", "T", "bad"}, name : STRING, data : Seq(STRING)])]
    /\ \A s \in ScpScenarios :
          LET Of(k) == {i \in 1 .. Len(s.items) : s.items[i].k = k}
          IN  /\ s.mode \in {"put", "get"} => Len(s.items) = 1 /\ s.items[1].k = "C"
              /\ s.mode = "sink" =>
                    /\ \A i, j \in Of("C") : PathOf(s.items, i) = PathOf(s.items, j) => i = j
                    /\ ~s.dir /\ Of("D") # {} => \A i \in Of("C") : \E d \in Of("D") : d < i

ScpInit ==
    /\ scpJob \in ScpScenarios
    /\ dirs = {<<>>} \cup (IF scpJob.dir THEN {Top} ELSE {})
    /\ tree = {[path |-> Append(Top, Item(i).name),
                data |-> IF scpJob.mode \in {"source", "get"} THEN Item(i).data ELSE Stale]
               : i \in {j \in DOMAIN scpJob.items : Item(j).k = "C" /\ scpJob.mode # "sink"}}
    /\ up = <<>> /\ down = <<>> /\ gone = FALSE /\ meddled = "no"
    /\ sv = [at |-> "start", i |-> 1, dir |-> Top, path |-> <<>>, left |-> 0, exit |-> "none"]
    /\ cl = [at |-> IF scpJob.mode = "none" THEN "done" ELSE IF Source THEN "ack" ELSE "first", i |-> 1, dir |-> Top, path |-> <<>>,
             left |-> 0, got |-> <<>>, saved |-> {}, exit |-> "none"]

-----------------------------------------------------------------------------
(* The scp client (external): sends the items one by one, or receives them. *)

ClSends(ts, c) == up' = up \o ts /\ cl' = c
ClTakes == down' = Tail(down)
ClFails == cl' = [cl EXCEPT !.at = "done", !.exit = "error"] /\ gone' = TRUE /\ up' = up

\* An acknowledgement: the next item, or the data of this one, or the end.
ClientSink ==
    /\ scpJob.mode = "sink" /\ cl.at \in {"first", "header", "data"} /\ down # <<>> /\ ClTakes
    /\ LET it == Item(cl.i)
           ok == Head(down) = Zero
           sendsData == cl.at = "header" /\ it.k = "C"
           i == IF cl.at = "first" THEN 1 ELSE cl.i + 1
           dir == IF cl.at = "header" THEN DirAfter(cl.dir, it) ELSE cl.dir
           saved == IF cl.at = "data"
                    THEN cl.saved \cup {[path |-> Append(cl.dir, it.name), data |-> it.data]}
                    ELSE cl.saved
       IN  \/ ~ok /\ ClFails
           \/ /\ ok /\ sendsData
              /\ ClSends(Append(Blks(it.data), Zero), [cl EXCEPT !.at = "data"]) /\ UNCHANGED gone
           \/ /\ ok /\ ~sendsData /\ i <= Len(scpJob.items)
              /\ ClSends(<<[k |-> Item(i).k, name |-> Item(i).name, n |-> Len(Item(i).data)]>>,
                         [cl EXCEPT !.at = "header", !.i = i, !.dir = dir, !.saved = saved])
              /\ UNCHANGED gone
           \/ /\ ok /\ ~sendsData /\ i > Len(scpJob.items)
              /\ cl' = [cl EXCEPT !.at = "done", !.exit = "ok", !.saved = saved]
              /\ gone' = TRUE /\ UNCHANGED up
    /\ UNCHANGED <<scpJob, dirs, tree, sv, meddled>>

\* A source: the first acknowledgement, then headers are answered and n tokens taken for the
\* file, whatever they are; the token after them must be the zero.
ClientSource ==
    /\ Source /\ cl.at # "done"
    /\ IF cl.at = "ack" THEN ClSends(<<Zero>>, [cl EXCEPT !.at = "line"]) /\ UNCHANGED <<down, gone>>
       ELSE /\ down # <<>> /\ ClTakes
            /\ LET t == Head(down)
                   path == Append(cl.dir, t.name)
               IN  \/ /\ cl.at = "line" /\ t.k = "C"
                      /\ ClSends(<<Zero>>, [cl EXCEPT !.at = IF t.n = 0 THEN "status" ELSE "data",
                                                      !.left = t.n, !.got = <<>>, !.path = path])
                      /\ UNCHANGED gone
                   \/ /\ cl.at = "line" /\ t.k \in {"D", "E"}
                      /\ ClSends(<<Zero>>, [cl EXCEPT !.dir = IF t.k = "D" THEN path ELSE Front1(@)])
                      /\ UNCHANGED gone
                   \/ /\ cl.at = "data"
                      /\ cl' = [cl EXCEPT !.left = @ - 1, !.at = IF cl.left = 1 THEN "status" ELSE @,
                                          !.got = Append(@, IF t.k = "blk" THEN t.b ELSE "junk")]
                      /\ UNCHANGED <<gone, up>>
                   \/ /\ cl.at = "status" /\ t = Zero
                      /\ ClSends(<<Zero>>, [cl EXCEPT !.at = "line",
                                                      !.saved = @ \cup {[path |-> cl.path, data |-> cl.got]}])
                      /\ UNCHANGED gone
                   \/ /\ (cl.at = "status" /\ t # Zero) \/ (cl.at = "line" /\ t.k \in {"err", "blk"})
                      /\ ClFails
    /\ UNCHANGED <<scpJob, dirs, tree, sv, meddled>>

\* The server's stream has ended.
ClientEof ==
    /\ cl.at # "done" /\ sv.at = "over" /\ down = <<>> /\ scpJob.mode \in {"sink", "source"}
    /\ cl' = [cl EXCEPT !.at = "done", !.exit = IF Source /\ cl.at = "line" THEN "ok" ELSE "error"]
    /\ gone' = TRUE
    /\ UNCHANGED <<scpJob, dirs, tree, up, down, sv, meddled>>

\* The client or its connection goes away; the tail of what it sent may be lost with it.
ClientGone ==
    /\ ~gone /\ cl.at # "done"
    /\ gone' = TRUE /\ cl' = [cl EXCEPT !.at = "done", !.exit = "lost"]
    /\ \E n \in 0 .. Len(up) : up' = SubSeq(up, 1, n)
    /\ UNCHANGED <<scpJob, dirs, tree, down, sv, meddled>>

-----------------------------------------------------------------------------
(* The server: scp_sink and receive_file. *)

ScpOver(code) == [sv EXCEPT !.at = "over", !.exit = code]
Replies(t) == down' = IF gone THEN down ELSE Append(down, t)
ReadsOne == up # <<>> /\ up' = Tail(up)

\* The first acknowledgement: a write that fails ends the task.
SinkStarts ==
    /\ scpJob.mode = "sink" /\ sv.at = "start"
    /\ sv' = IF gone THEN ScpOver(1) ELSE [sv EXCEPT !.at = "line"]
    /\ Replies(Zero)
    /\ UNCHANGED <<scpJob, dirs, tree, up, gone, cl, meddled>>

\* read_line at the end of the stream: done, successfully.
SinkEof ==
    /\ scpJob.mode = "sink" /\ sv.at = "line" /\ up = <<>> /\ gone
    /\ sv' = ScpOver(0)
    /\ UNCHANGED <<scpJob, dirs, tree, up, down, gone, cl, meddled>>

\* Where a file goes: into the directory, if there is one, else it is the file itself.
file_path(name) == IF sv.dir \in dirs THEN Append(sv.dir, name) ELSE sv.dir

\* A header: it is acknowledged before the file is created.
SinkHeader ==
    /\ scpJob.mode = "sink" /\ sv.at = "line" /\ ReadsOne
    /\ LET h == Head(up)
           sub == Append(sv.dir, h.name)
       IN  \/ /\ h.k = "C"
              /\ sv' = [sv EXCEPT !.at = "create", !.path = file_path(h.name), !.left = h.n]
              /\ Replies(Zero) /\ UNCHANGED dirs
           \/ /\ h.k = "D" /\ sv' = [sv EXCEPT !.dir = sub] /\ Replies(Zero)
              /\ dirs' = dirs \cup {Front1(sub), sub}
           \/ h.k = "D" /\ sv' = ScpOver(1) /\ Replies(Tok("err")) /\ UNCHANGED dirs
           \/ h.k = "E" /\ sv' = [sv EXCEPT !.dir = Front1(@)] /\ Replies(Zero) /\ UNCHANGED dirs
           \/ h.k = "T" /\ UNCHANGED <<sv, dirs>> /\ Replies(Zero)
           \/ h.k = "bad" /\ sv' = ScpOver(1) /\ Replies(Tok("err")) /\ UNCHANGED dirs
    /\ UNCHANGED <<scpJob, tree, gone, cl, meddled>>
SinkCreates ==
    /\ scpJob.mode = "sink" /\ sv.at = "create"
    /\ \/ /\ tree' = Store(sv.path, <<>>)
          /\ sv' = [sv EXCEPT !.at = IF sv.left = 0 THEN "trail" ELSE "data"]
          /\ UNCHANGED down
       \/ sv' = ScpOver(1) /\ Replies(Tok("err")) /\ UNCHANGED tree
    /\ UNCHANGED <<scpJob, dirs, up, gone, cl, meddled>>
\* Data until the announced size; the end of the stream before that is an error, and so is a
\* write to the disk that fails.
SinkData ==
    /\ scpJob.mode = "sink" /\ sv.at = "data"
    /\ \/ /\ ReadsOne
          /\ tree' = Store(sv.path, Append(Content(sv.path), Head(up).b))
          /\ sv' = [sv EXCEPT !.left = @ - 1, !.at = IF sv.left = 1 THEN "trail" ELSE @]
          /\ UNCHANGED down
       \/ /\ ReadsOne \/ (up = <<>> /\ gone /\ UNCHANGED up)
          /\ sv' = ScpOver(1) /\ Replies(Tok("err")) /\ UNCHANGED tree
    /\ UNCHANGED <<scpJob, dirs, gone, cl, meddled>>
\* The trailing zero is read, or its absence ignored, and the file acknowledged.
SinkTrail ==
    /\ scpJob.mode = "sink" /\ sv.at = "trail"
    /\ ReadsOne \/ (up = <<>> /\ gone /\ UNCHANGED up)
    /\ sv' = IF gone THEN ScpOver(1) ELSE [sv EXCEPT !.at = "line"]
    /\ Replies(Zero)
    /\ UNCHANGED <<scpJob, dirs, tree, gone, cl, meddled>>

-----------------------------------------------------------------------------
(* The server: scp_source, send_file, send_dir.  items is the sorted walk.  *)

SourcePath == Append(sv.dir, Item(sv.i).name)
NextItem == IF sv.i = Len(scpJob.items) THEN ScpOver(0) ELSE [sv EXCEPT !.i = @ + 1, !.at = "send"]
Acked == up # <<>> /\ Head(up) = Zero /\ up' = Tail(up)

SourceStarts ==
    /\ Source /\ sv.at = "start" /\ Acked /\ sv' = [sv EXCEPT !.at = "send"]
    /\ UNCHANGED <<scpJob, dirs, tree, down, gone, cl, meddled>>
\* The header, with the size the file has now.  A file that is gone is an error if it is all
\* that was asked for, and passed over in silence in the walk of a directory.
InWalk == Item(1).k = "D"
SourceHeader ==
    /\ Source /\ sv.at = "send"
    /\ LET it == Item(sv.i)
           there == it.k # "C" \/ Stored(SourcePath) # {}
           n == IF it.k = "C" /\ there THEN Len(Content(SourcePath)) ELSE 0
       IN  IF there
           THEN /\ sv' = IF gone THEN ScpOver(1)
                         ELSE [sv EXCEPT !.at = IF it.k = "C" THEN "read" ELSE "acked"]
                /\ Replies([k |-> it.k, name |-> it.name, n |-> n])
           ELSE IF InWalk THEN sv' = NextItem /\ UNCHANGED down
           ELSE sv' = ScpOver(1) /\ Replies(Tok("err"))
    /\ UNCHANGED <<scpJob, dirs, tree, up, gone, cl, meddled>>
\* After the acknowledgement the file is read: it need not be the one the header announced.
SourceData ==
    /\ Source /\ sv.at = "read" /\ Acked
    /\ IF Stored(SourcePath) = {} THEN sv' = ScpOver(1) /\ Replies(Tok("err"))
       ELSE /\ sv' = IF gone THEN ScpOver(1) ELSE [sv EXCEPT !.at = "acked"]
            /\ down' = IF gone THEN down ELSE down \o Append(Blks(Content(SourcePath)), Zero)
    /\ UNCHANGED <<scpJob, dirs, tree, gone, cl, meddled>>
SourceAcked ==
    /\ Source /\ sv.at = "acked" /\ Acked
    /\ sv' = NextItem
    /\ UNCHANGED <<scpJob, dirs, tree, down, gone, cl, meddled>>
\* read_exact fails, or the acknowledgement is not a zero.
SourceFails ==
    /\ Source /\ sv.at \in {"start", "read", "acked"} /\ up = <<>> /\ gone
    /\ sv' = ScpOver(1)
    /\ UNCHANGED <<scpJob, dirs, tree, up, down, gone, cl, meddled>>

-----------------------------------------------------------------------------
(* The SFTP subsystem.  A handle is the path itself, every request opens    *)
(* the file again; open looks at no flag.                                   *)

SftpFile == Append(Top, Item(1).name)
\* seek and write: beyond the end the gap is filled, before it the bytes are replaced, and
\* what follows stays.
WriteAt(s, off, b) == [i \in 1 .. (IF Len(s) > off THEN Len(s) ELSE off + 1) |->
                          IF i = off + 1 THEN b ELSE IF i <= Len(s) THEN s[i] ELSE "hole"]
Old == IF Stored(SftpFile) = {} THEN <<>> ELSE Content(SftpFile)

SftpWrite ==
    /\ scpJob.mode = "put" /\ cl.at # "done"
    /\ IF cl.left = Len(Item(1).data)
       THEN cl' = [cl EXCEPT !.at = "done", !.exit = "ok"] /\ UNCHANGED tree
       ELSE \/ /\ tree' = Store(SftpFile, WriteAt(Old, cl.left, Item(1).data[cl.left + 1]))
               /\ cl' = [cl EXCEPT !.left = @ + 1]
            \/ cl' = [cl EXCEPT !.at = "done", !.exit = "error"] /\ UNCHANGED tree
    /\ UNCHANGED <<scpJob, dirs, up, down, gone, sv, meddled>>
SftpRead ==
    /\ scpJob.mode = "get" /\ cl.at # "done"
    /\ cl' = IF Stored(SftpFile) = {} THEN [cl EXCEPT !.at = "done", !.exit = "error"]
             ELSE IF Len(cl.got) >= Len(Old) THEN [cl EXCEPT !.at = "done", !.exit = "ok"]
             ELSE [cl EXCEPT !.got = Append(@, Old[Len(@) + 1])]
    /\ UNCHANGED <<scpJob, dirs, tree, up, down, gone, sv, meddled>>
\* readdir gives every entry each time; the end is reported for an empty directory only.
SftpReaddir ==
    /\ scpJob.mode = "list" /\ cl.at # "done"
    /\ cl' = IF tree = {} THEN [cl EXCEPT !.at = "done", !.exit = "ok"]
             ELSE [cl EXCEPT !.saved = tree]
    /\ UNCHANGED <<scpJob, dirs, tree, up, down, gone, sv, meddled>>

\* Another process: a file shrinks, grows, or is removed or renamed away.
Meddle ==
    /\ scpJob.other /\ meddled = "no" /\ scpJob.mode # "sink"
    /\ \E f \in tree :
          \/ f.data # <<>> /\ tree' = Store(f.path, Front1(f.data)) /\ meddled' = "shrunk"
          \/ tree' = Store(f.path, Append(f.data, "new")) /\ meddled' = "grown"
          \/ tree' = tree \ {f} /\ meddled' = "moved"
    /\ UNCHANGED <<scpJob, dirs, up, down, gone, sv, cl>>

-----------------------------------------------------------------------------
ScpClient == ClientSink \/ ClientSource \/ ClientEof
ScpTask ==
    \/ SinkStarts \/ SinkEof \/ SinkHeader \/ SinkCreates \/ SinkData \/ SinkTrail
    \/ SourceStarts \/ SourceHeader \/ SourceData \/ SourceAcked \/ SourceFails
Sftp == SftpWrite \/ SftpRead \/ SftpReaddir
ScpNext == ScpClient \/ ClientGone \/ ScpTask \/ Sftp \/ Meddle
ScpFairness ==
    WF_scpVars(ScpClient) /\ WF_scpVars(ScpTask) /\ WF_scpVars(Sftp)
ScpSpec == ScpInit /\ [][ScpNext]_scpVars /\ ScpFairness

-----------------------------------------------------------------------------
(* Properties. *)

\* A file whose transfer was acknowledged is on the server, whole and in the directory the
\* client was in.  Exception: several files for a path that is no directory; -d is ignored
\* and each one replaces the one before.
SinkTold ==
    (scpJob.mode = "sink" /\ (scpJob.dir \/ \E i \in DOMAIN scpJob.items : Item(i).k = "D"))
       => cl.saved \subseteq tree
\* What a client of the source keeps is what the file held, unless the file was changed
\* between the header and the read.
SourceTold ==
    (Source /\ meddled = "no") =>
       \A f \in cl.saved : \E i \in DOMAIN scpJob.items :
          Item(i).k = "C" /\ f.data = Item(i).data
\* A put replaces the beginning of the file and leaves the rest of a longer one; a get of a
\* file nobody touches is complete.
SftpTold ==
    (cl.at = "done" /\ cl.exit = "ok" /\ meddled = "no") =>
       /\ scpJob.mode = "put" => Old = Item(1).data \o SubSeq(Stale, Len(Item(1).data) + 1, Len(Stale))
       /\ scpJob.mode = "get" => cl.got = Item(1).data
ScpTold == SinkTold /\ SourceTold /\ SftpTold

\* The server's task ends, and the client's transfer with it; a source whose file has become
\* shorter since the header waits for an acknowledgement while the client waits for data, and
\* the listing of a directory with a file in it never ends.
ScpRest ==
    \/ meddled = "shrunk" \/ scpJob.mode = "list"
    \/ cl.at = "done" /\ (scpJob.mode \in {"sink", "source"} => sv.at = "over")
=============================================================================
