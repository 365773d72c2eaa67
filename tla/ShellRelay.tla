----------------------------- MODULE ShellRelay -----------------------------
(***************************************************************************)
(* One interactive shell: the client's relay loop, the two directions of    *)
(* the connection, the server's relay loop, the thread that reads the       *)
(* pseudo-terminal and the child behind it.                                 *)
(*                                                                         *)
(* Both loops are a tokio::select!.  A branch that fires drops the future   *)
(* of the other branches; a loop whose frame buffer lives outside the       *)
(* future (SafeServer, SafeClient) keeps the bytes already read, a loop     *)
(* that awaits wire::recv_message loses them.  The Windows TLS server and   *)
(* the TLS client are of the first kind, the Unix TLS server, the QUIC      *)
(* servers and the QUIC client of the second.                               *)
(*                                                                         *)
(* A frame is a two-byte header, most significant byte first, and a body.   *)
(*                                                                         *)
(* What the user's bytes go through on the way to the terminal: tilde       *)
(* escapes and, for a Windows server, newlines on the client; frames that   *)
(* look like a resize, DEL and Ctrl-C on the server.                        *)
(***************************************************************************)
EXTENDS Naturals, Sequences, FiniteSets, SequencesExt

CONSTANTS
    Scripts,      \* the byte streams the user may type or pipe in
    SafeServer,   \* the server's frame buffer survives cancellation
    SafeClient,   \* so does the client's
    Windows,      \* the server runs ConPTY; the client normalises newlines
    Resizes,      \* bound: terminal resizes
    MaxChunk,     \* bound: bytes one read of stdin returns
    SockCap,      \* bytes one direction of the connection buffers
    PtyCap,       \* bytes one direction of the pseudo-terminal buffers
    ChanCap,      \* chunks the output channel holds (32 in the code)
    MaxMessage    \* MAX_MESSAGE_SIZE

ASSUME RelayAssumption ==
    /\ SafeServer \in BOOLEAN /\ SafeClient \in BOOLEAN /\ Windows \in BOOLEAN
    /\ {Resizes, MaxChunk, SockCap, PtyCap, ChanCap, MaxMessage} \subseteq Nat

VARIABLES
    typed,        \* bytes the stdin thread has still to read
    esc,          \* [nl, esc]: after_newline and in_escape
    outbound,     \* pending_outbound, pending_resize and the frame being sent
    bye,          \* pending_disconnect
    resizes,      \* resizes still to come
    exit,         \* how the client's loop ended
    crd, srd,     \* the frame readers of client and server
    up, down,     \* bytes in flight to the server and to the client
    srv,          \* the server's loop
    drained,      \* the server's loop ended because the output was at its end
    sin, sout,    \* what the server is writing to the terminal, to the client
    closed,       \* conpty_closed
    ptyIn, ptyOut,\* the terminal's buffers
    rx,           \* the channel from the reader thread
    rxOpen,       \* the reader thread holds its sender
    child,        \* the child process runs
    entered,      \* history: bytes written to the terminal and Ctrl-C events raised
    edges,        \* history: where in the output of process_escapes a read ended
    produced,     \* history: bytes the child wrote
    shown,        \* history: bytes written to the user's stdout
    script        \* history: what the user types

clientVars == <<typed, esc, outbound, bye, resizes, exit, crd, shown, edges>>
serverVars == <<srv, drained, srd, sin, sout, closed, entered>>
childVars  == <<ptyIn, ptyOut, rx, rxOpen, child, produced>>
vars == <<clientVars, serverVars, childVars, up, down, script>>

\* Bytes that mean something to the relay; every other number is text.
LF == 10
CR == 13
Tilde == 14
Dot == 15
Help == 16
ResizePrefix == 1
CtrlC == 3
Backspace == 8
Delete == 7           \* stands for 0x7F
Interrupt == 18       \* in entered: a Ctrl-C event, no byte
Base == 20            \* stands for 256
ResizeLength == 2     \* stands for the five bytes of encode_resize

-----------------------------------------------------------------------------
(* Escapes, newlines, frames *)

\* process_escapes on one byte.
EscapeByte(s, b) ==
    CASE s.act = "Disconnect" -> s
      [] s.act # "Disconnect" /\ s.esc ->
            IF b = Dot THEN [s EXCEPT !.esc = FALSE, !.act = "Disconnect"]
            ELSE IF b = Tilde
            THEN [s EXCEPT !.esc = FALSE, !.nl = FALSE, !.out = Append(@, Tilde)]
            ELSE IF b = Help
            THEN [s EXCEPT !.esc = FALSE, !.nl = TRUE, !.act = "Help"]
            ELSE [s EXCEPT !.esc = FALSE, !.nl = b \in {CR, LF},
                           !.out = @ \o <<Tilde, b>>]
      [] s.act # "Disconnect" /\ ~s.esc ->
            IF s.nl /\ b = Tilde THEN [s EXCEPT !.esc = TRUE]
            ELSE [s EXCEPT !.nl = b \in {CR, LF}, !.out = Append(@, b)]

\* A buggy form: the tilde state is forgotten between two reads.
process_escapes_per_chunk(e, input) ==
    FoldLeft(EscapeByte, [nl |-> e.nl, esc |-> FALSE, out |-> <<>>, act |-> "Continue"],
             input)

process_escapes(e, input) ==
    FoldLeft(EscapeByte, [nl |-> e.nl, esc |-> e.esc, out |-> <<>>, act |-> "Continue"],
             input)

NormalizeByte(s, b) ==
    CASE b = CR -> [out |-> Append(s.out, LF), cr |-> TRUE]
      [] b = LF -> [out |-> IF s.cr THEN s.out ELSE Append(s.out, LF), cr |-> FALSE]
      [] OTHER  -> [out |-> Append(s.out, b), cr |-> FALSE]

\* normalize_shell_input_for_remote: CR and CR LF become LF, chunk by chunk.
normalize_shell_input_for_remote(input) ==
    IF Windows THEN FoldLeft(NormalizeByte, [out |-> <<>>, cr |-> FALSE], input).out
    ELSE input

Frame(body) == <<Len(body) \div Base, Len(body) % Base>> \o body
EofFrame == Frame(<<>>)
ResizeFrame == Frame(<<ResizePrefix, 0>>)
parse_resize(body) == Len(body) >= ResizeLength /\ body[1] = ResizePrefix

\* write_windows_shell_input: the key of a Linux terminal becomes the one ConPTY knows.
DeleteToBackspace(input) ==
    IF Windows THEN [i \in DOMAIN input |-> IF input[i] = Delete THEN Backspace ELSE input[i]]
    ELSE input

\* A frame reader: the bytes of the header and of the body read so far.
FreshReader == [head |-> <<>>, body |-> <<>>]
FrameLength(rd) == rd.head[1] * Base + rd.head[2]
Wanted(rd) == IF Len(rd.head) < 2 THEN 2 - Len(rd.head)
              ELSE FrameLength(rd) - Len(rd.body)
Fill(rd, bytes) == IF Len(rd.head) < 2 THEN [rd EXCEPT !.head = @ \o bytes]
                   ELSE [rd EXCEPT !.body = @ \o bytes]

\* A branch of the select! other than the read fires: the read future is dropped.
CancelServer == srd' = IF SafeServer THEN srd ELSE FreshReader
CancelClient == crd' = IF SafeClient THEN crd ELSE FreshReader

-----------------------------------------------------------------------------
(* The client *)

ClientLoops == exit = "no" /\ outbound = <<>> /\ ~bye

\* The top of the client's loop: what the last branch left is written out.
ClientSends ==
    /\ exit = "no" /\ outbound # <<>>
    /\ Len(up) + Len(Head(outbound)) <= SockCap
    /\ up' = up \o Head(outbound)
    /\ outbound' = Tail(outbound)
    /\ UNCHANGED <<typed, esc, bye, resizes, exit, crd, shown, edges, serverVars, childVars,
                   down, script>>

\* ~. : the empty frame is sent and the loop returns.
ClientDisconnects ==
    /\ exit = "no" /\ outbound = <<>> /\ bye
    /\ up' = up \o EofFrame
    /\ exit' = "Disconnect"
    /\ UNCHANGED <<typed, esc, outbound, bye, resizes, crd, shown, edges, serverVars,
                   childVars, down, script>>

\* stdin_rx.recv: one chunk of the user's input.
ClientStdin ==
    /\ ClientLoops
    /\ \E n \in 1 .. MaxChunk :
          /\ n <= Len(typed)
          /\ LET s == process_escapes(esc, SubSeq(typed, 1, n))
                 out == normalize_shell_input_for_remote(s.out)
             IN  /\ esc' = [nl |-> s.nl, esc |-> s.esc]
                 /\ bye' = (s.act = "Disconnect")
                 /\ outbound' = IF out = <<>> \/ s.act = "Disconnect" THEN <<>>
                                ELSE <<Frame(out)>>
                 /\ edges' = edges \cup {Max(edges \cup {0}) + Len(s.out)}
          /\ typed' = SubSeq(typed, n + 1, Len(typed))
    /\ CancelClient
    /\ UNCHANGED <<resizes, exit, shown, serverVars, childVars, up, down, script>>

\* next_resize.
ClientResize ==
    /\ ClientLoops /\ resizes > 0
    /\ resizes' = resizes - 1
    /\ outbound' = <<ResizeFrame>>
    /\ CancelClient
    /\ UNCHANGED <<typed, esc, bye, exit, shown, edges, serverVars, childVars, up, down,
                   script>>

\* The read branch: n of the bytes it still wants.
ClientReads ==
    /\ ClientLoops
    /\ \E n \in 1 .. Len(down) :
          /\ n <= Wanted(crd)
          /\ LET rd == Fill(crd, SubSeq(down, 1, n))
                 whole == Len(rd.head) = 2
             IN  IF whole /\ (FrameLength(rd) = 0 \/ FrameLength(rd) > MaxMessage)
                 THEN exit' = "ServerEof" /\ crd' = FreshReader /\ UNCHANGED shown
                 ELSE IF whole /\ Wanted(rd) = 0
                 THEN shown' = shown \o rd.body /\ crd' = FreshReader /\ UNCHANGED exit
                 ELSE crd' = rd /\ UNCHANGED <<exit, shown>>
          /\ down' = SubSeq(down, n + 1, Len(down))
    /\ UNCHANGED <<typed, esc, outbound, bye, resizes, edges, serverVars, childVars, up, script>>

\* The server's end is closed: a read returns 0, a write fails.
ClientSeesClose ==
    /\ exit = "no" /\ srv = "ended"
    /\ \/ ClientLoops /\ down = <<>> /\ exit' = "ServerEof"
       \/ outbound # <<>> /\ exit' = "Error"
    /\ UNCHANGED <<typed, esc, outbound, bye, resizes, crd, shown, edges, serverVars, childVars,
                   up, down, script>>

\* The client dies, or its connection is reset, with any of its bytes delivered.
ClientLost ==
    /\ exit = "no"
    /\ exit' = "Lost"
    /\ \E n \in 0 .. Len(up) : up' = SubSeq(up, 1, n)
    /\ UNCHANGED <<typed, esc, outbound, bye, resizes, crd, shown, edges, serverVars, childVars,
                   down, script>>

-----------------------------------------------------------------------------
(* The server *)

ServerLoops == srv = "loop" /\ sin = <<>> /\ sout = <<>>

\* The loop is left: the terminal is closed and the child killed, EOF is sent.
Leave(d) ==
    /\ srv' = "ending"
    /\ drained' = d

\* A whole frame has been read.
ServerFrame(body) ==
    IF parse_resize(body) THEN UNCHANGED <<srv, drained, sin>>
    ELSE IF closed \/ (~Windows /\ ~child)
    THEN Leave(FALSE) /\ UNCHANGED sin
    ELSE sin' = DeleteToBackspace(body) /\ UNCHANGED <<srv, drained>>

ServerReads ==
    /\ ServerLoops
    /\ \E n \in 1 .. Len(up) :
          /\ n <= Wanted(srd)
          /\ LET rd == Fill(srd, SubSeq(up, 1, n))
                 whole == Len(rd.head) = 2
             IN  IF whole /\ (FrameLength(rd) = 0 \/ FrameLength(rd) > MaxMessage)
                 THEN Leave(FALSE) /\ srd' = FreshReader /\ UNCHANGED sin
                 ELSE IF whole /\ Wanted(rd) = 0
                 THEN ServerFrame(rd.body) /\ srd' = FreshReader
                 ELSE srd' = rd /\ UNCHANGED <<srv, drained, sin>>
          /\ up' = SubSeq(up, n + 1, Len(up))
    /\ UNCHANGED <<sout, closed, entered, clientVars, childVars, down, script>>

\* A buggy form: only a failed write is noticed.
ServerSeesFailedWrite ==
    /\ srv = "loop" /\ exit # "no" /\ sout # <<>>
    /\ Leave(FALSE)
    /\ sout' = <<>>
    /\ UNCHANGED <<srd, sin, closed, entered, clientVars, childVars, up, down, script>>

\* The client's end is closed: a read returns 0, a write fails.
ServerSeesClose ==
    /\ srv = "loop" /\ exit # "no"
    /\ (ServerLoops /\ up = <<>>) \/ sout # <<>>
    /\ Leave(FALSE)
    /\ sout' = <<>>
    /\ UNCHANGED <<srd, sin, closed, entered, clientVars, childVars, up, down, script>>

\* A byte of a frame: write_all to the terminal, which blocks the loop while the
\* terminal's buffer is full.  On Windows Ctrl-C is raised as an event by a helper
\* process and its byte is not written, unless the helper fails.
ServerWritesPty ==
    /\ srv = "loop" /\ sin # <<>>
    /\ IF child
       THEN /\ \/ /\ Len(ptyIn) < PtyCap
                  /\ ptyIn' = Append(ptyIn, Head(sin))
                  /\ entered' = Append(entered, Head(sin))
               \/ /\ Windows /\ Head(sin) = CtrlC
                  /\ entered' = Append(entered, Interrupt)
                  /\ UNCHANGED ptyIn
            /\ sin' = Tail(sin)
            /\ UNCHANGED <<srv, drained>>
       ELSE /\ sin' = <<>>
            /\ Leave(FALSE) \/ (Windows /\ UNCHANGED <<srv, drained>>)
            /\ UNCHANGED <<ptyIn, entered>>
    /\ UNCHANGED <<srd, sout, closed, ptyOut, rx, rxOpen, child, produced, clientVars,
                   up, down, script>>

\* rx.recv gives a chunk.
ServerTakesOutput ==
    /\ ServerLoops /\ rx # <<>>
    /\ sout' = Frame(Head(rx))
    /\ rx' = Tail(rx)
    /\ CancelServer
    /\ UNCHANGED <<srv, drained, sin, closed, entered, ptyIn, ptyOut, rxOpen, child,
                   produced, clientVars, up, down, script>>

ServerSends ==
    /\ srv = "loop" /\ sout # <<>>
    /\ Len(down) + Len(sout) <= SockCap
    /\ down' = down \o sout
    /\ sout' = <<>>
    /\ UNCHANGED <<srv, drained, srd, sin, closed, entered, clientVars, childVars, up,
                   script>>

\* rx.recv gives None.
OutputEnds ==
    /\ ServerLoops /\ rx = <<>> /\ ~rxOpen
    /\ Leave(TRUE)
    /\ UNCHANGED <<srd, sin, sout, closed, entered, clientVars, childVars, up, down,
                   script>>

\* A buggy form: the input is dropped and the console left open.
ProcExitKeepsConsole ==
    /\ Windows /\ ServerLoops /\ ~child /\ ~closed
    /\ CancelServer
    /\ UNCHANGED <<srv, drained, sin, sout, closed, entered, clientVars, childVars, up,
                   down, script>>

\* proc_exit_rx: ConPTY is closed, its input dropped.
ProcExit ==
    /\ Windows /\ ServerLoops /\ ~child /\ ~closed
    /\ closed' = TRUE
    /\ CancelServer
    /\ UNCHANGED <<srv, drained, sin, sout, entered, clientVars, childVars, up, down,
                   script>>

\* After the loop: the child dies with its terminal, the client gets an EOF frame.
ServerEnds ==
    /\ srv = "ending"
    /\ \/ exit = "no" /\ Len(down) + Len(EofFrame) <= SockCap /\ down' = down \o EofFrame
       \/ exit # "no" /\ UNCHANGED down
    /\ srv' = "ended"
    /\ child' = FALSE
    /\ closed' = Windows
    /\ UNCHANGED <<drained, srd, sin, sout, entered, ptyIn, ptyOut, rx, rxOpen, produced,
                   clientVars, up, script>>

-----------------------------------------------------------------------------
(* The child (external: any program that echoes) and the reader thread *)

ChildEchoes ==
    /\ child /\ srv = "loop"
    /\ ptyIn # <<>> /\ Len(ptyOut) < PtyCap
    /\ ptyIn' = Tail(ptyIn)
    /\ ptyOut' = Append(ptyOut, Head(ptyIn))
    /\ produced' = Append(produced, Head(ptyIn))
    /\ UNCHANGED <<rx, rxOpen, child, clientVars, serverVars, up, down, script>>

ChildExits ==
    /\ child /\ srv = "loop"
    /\ child' = FALSE
    /\ UNCHANGED <<ptyIn, ptyOut, rx, rxOpen, produced, clientVars, serverVars, up, down,
                   script>>

ReaderThread ==
    /\ ptyOut # <<>> /\ Len(rx) < ChanCap
    /\ rx' = Append(rx, ptyOut)
    /\ ptyOut' = <<>>
    /\ UNCHANGED <<ptyIn, rxOpen, child, produced, clientVars, serverVars, up, down,
                   script>>

\* EIO on Unix, the end of the pipe once ConPTY is closed on Windows.
ReaderThreadEnds ==
    /\ rxOpen /\ ptyOut = <<>> /\ ~child /\ (Windows => closed)
    /\ rxOpen' = FALSE
    /\ UNCHANGED <<ptyIn, ptyOut, rx, child, produced, clientVars, serverVars, up, down,
                   script>>

-----------------------------------------------------------------------------
Init ==
    /\ script \in Scripts /\ typed = script
    /\ esc = [nl |-> TRUE, esc |-> FALSE]
    /\ outbound = <<>> /\ bye = FALSE /\ resizes = Resizes /\ exit = "no"
    /\ crd = FreshReader /\ srd = FreshReader
    /\ up = <<>> /\ down = <<>>
    /\ srv = "loop" /\ drained = FALSE /\ sin = <<>> /\ sout = <<>> /\ closed = FALSE
    /\ ptyIn = <<>> /\ ptyOut = <<>> /\ rx = <<>> /\ rxOpen = TRUE /\ child = TRUE
    /\ entered = <<>> /\ produced = <<>> /\ shown = <<>> /\ edges = {}

ClientStep == \/ ClientSends \/ ClientDisconnects \/ ClientStdin \/ ClientResize
              \/ ClientReads \/ ClientSeesClose \/ ClientLost
ServerStep == \/ ServerReads \/ ServerSeesClose \/ ServerWritesPty
              \/ ServerTakesOutput \/ ServerSends \/ OutputEnds \/ ProcExit \/ ServerEnds
ReaderStep == ReaderThread \/ ReaderThreadEnds

Next == ClientStep \/ ServerStep \/ ReaderStep \/ ChildEchoes \/ ChildExits

Spec == Init /\ [][Next]_vars

(* The loops and the reader thread run; tokio's select! polls its branches in   *)
(* random order (the client's puts the read first), so the read and the output  *)
(* branch are each taken if they stay ready.  The user need not type and the     *)
(* child need not exit, but a child that runs reads its terminal.                *)
Fairness ==
    /\ WF_vars(ClientSends) /\ WF_vars(ClientDisconnects) /\ WF_vars(ClientReads)
    /\ WF_vars(ClientSeesClose)
    /\ WF_vars(ServerSeesClose) /\ WF_vars(ServerWritesPty) /\ WF_vars(ServerSends)
    /\ WF_vars(ServerEnds) /\ SF_vars(ServerReads) /\ SF_vars(ServerTakesOutput)
    /\ SF_vars(OutputEnds) /\ SF_vars(ProcExit)
    /\ WF_vars(ReaderStep) /\ WF_vars(ChildEchoes)

FairSpec == Spec /\ Fairness

-----------------------------------------------------------------------------
(* Properties *)

\* What the user means: everything typed, with the escapes taken out.
Meant == process_escapes([nl |-> TRUE, esc |-> FALSE], script).out

\* Positions i and j of it came in one read of stdin.
SameRead(i, j) == \A e \in edges : (i <= e) <=> (j <= e)

\* A Windows server gets one newline for CR LF, unless a read ended between the two.
OfNewline(meant, i) ==
    Windows /\ i > 1 /\ meant[i] = LF /\ meant[i - 1] = CR /\ SameRead(i - 1, i)

\* The read of position i went off as a frame that the server takes for a resize.
TakenForResize(meant, i) ==
    LET sent == {j \in DOMAIN meant : SameRead(i, j) /\ ~OfNewline(meant, j)}
    IN  Cardinality(sent) >= ResizeLength /\ meant[Min(sent)] = ResizePrefix

\* The key the terminal is given for a byte.
KeyOf(b) ==
    CASE Windows /\ b = CR -> LF
      [] Windows /\ b = Delete -> Backspace
      [] OTHER -> b

Expected ==
    LET meant == Meant
        kept == SelectSeq([i \in DOMAIN meant |-> i],
                    LAMBDA i : ~OfNewline(meant, i) /\ ~TakenForResize(meant, i))
    IN  [n \in DOMAIN kept |-> KeyOf(meant[kept[n]])]

\* handle_shell, relay_loop_with_io: whatever the cuts between the reads of the
\* socket, whatever output or resize interrupts a frame halfway, the terminal is given
\* the typed keys in order, with none lost, repeated or made up; a Ctrl-C may come as
\* an event instead of a byte.  The cuts between the reads of stdin never break an
\* escape.  They show in two places only: a CR LF that a read ends in between comes as
\* two newlines, and a read that begins with the resize byte and is as long as a
\* resize message never reaches the terminal.
InputIntact ==
    IsPrefix([n \in DOMAIN entered |->
                 IF entered[n] = Interrupt THEN CtrlC ELSE entered[n]], Expected)

\* The same for the output on its way to the user's screen.
OutputIntact == IsPrefix(shown, produced)

\* A session that ends because the child's output has ended has shown all of it:
\* the loop outlives the child until the reader thread has drained the terminal,
\* and the EOF frame travels behind the last output.
ExitShowsAllOutput ==
    (exit = "ServerEof" /\ drained /\ down = <<>>) => shown = produced

\* The bytes of a session: neither direction loses, repeats or makes up any, and the
\* output is complete when the session ends by itself.
BytesIntact == InputIntact /\ OutputIntact /\ ExitShowsAllOutput

\* A child that exits ends the session on both sides.
ExitEndsSession == <>[](child \/ (exit # "no" /\ srv = "ended"))

\* A client that goes away (~. or a lost connection) never leaves a child behind.
DisconnectKillsChild == <>[](exit = "no" \/ ~child)
=============================================================================
