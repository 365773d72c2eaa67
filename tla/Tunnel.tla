------------------------------- MODULE Tunnel -------------------------------
(***************************************************************************)
(* Forwarded connections: a local application, the client's listener and    *)
(* relay task, the mrsh connection, the server's relay task and the target. *)
(* Both relays have one shape (relay_tunnel, relay_socks5,                  *)
(* relay_bidirectional, the copies over QUIC): a select over "read from the *)
(* socket" and "read from the mrsh stream".                                 *)
(*                                                                         *)
(* On the TLS connection a block of data is a frame, a header and a body    *)
(* that arrive one after the other; the zero header is the end marker.      *)
(* recv_message is not cancel-safe: a header that was read when the other   *)
(* branch of the select wins is gone, and the stream is out of step.  On    *)
(* QUIC and on a mux channel the bytes are raw.  A byte is its number;      *)
(* bytes written into a local socket count as delivered.                    *)
(***************************************************************************)
EXTENDS Integers, Sequences, FiniteSets

CONSTANTS
    Conns,          \* forwarded connections
    TunnelScenarios,\* set of [Conns -> [kind, up, down, first]]: bytes, who closes first
    WireCap,        \* frames elements a transport buffers in one direction
    ChannelBuffer,  \* CHANNEL_BUFFER of a mux channel
    MaxCuts         \* bound: mrsh connections that break

ASSUME TunnelAssumption ==
    /\ IsFiniteSet(Conns) /\ WireCap \in Nat /\ ChannelBuffer \in Nat /\ MaxCuts \in Nat

VARIABLES
    job,        \* the scenario
    loop,       \* the accept loop: "free", or the connection it is busy with
    peer,       \* per connection and end: the application beside the relay
    relay,      \* per connection and end: the relay task
    wire,       \* per connection and end: what this end has sent on the mrsh stream
    muxIn,      \* frames of the mux connection the server has not read
    intact,     \* connections on which no byte was dropped by the relays' own reads
    cuts        \* connections broken so far

tunnelVars == <<job, loop, peer, relay, wire, muxIn, intact, cuts>>

Ends == {"client", "server"}
Other(e) == IF e = "client" THEN "server" ELSE "client"
Junk == 0       \* a byte that nobody sent

Hdr == [k |-> "hdr"]
Eof == [k |-> "eof"]
Fin == [k |-> "fin"]
Body(b) == [k |-> "body", b |-> b]

\* The applications: a local connection (client end) and the target (server end).  left:
\* bytes still to write; rdy: written and not read by the relay; shut: it has closed its side;
\* got: received; end: it has seen the end of the stream or a reset.
Peer(n) == [left |-> n, next |-> 1, rdy |-> <<>>, shut |-> FALSE, got |-> <<>>, end |-> FALSE,
            reply |-> "none"]

Kind(c) == job[c].kind
Framed(c) == Kind(c) \in {"tunnel", "socks"}
Quic(c) == Kind(c) \in {"quic", "quicsocks"}
Socks(c) == Kind(c) \in {"socks", "quicsocks"}

TunnelInit ==
    /\ job \in TunnelScenarios
    /\ loop = "free" /\ muxIn = <<>> /\ intact = Conns /\ cuts = 0
    /\ peer = [c \in Conns |-> [e \in Ends |->
                  Peer(IF e = "client" THEN job[c].up ELSE job[c].down)]]
    /\ relay = [c \in Conns |-> [e \in Ends |->
                  [at |-> IF e = "server" THEN "none"
                          ELSE IF Kind(c) = "none" THEN "done"
                          ELSE IF Kind(c) = "mux" THEN "channel" ELSE "queued",
                   met |-> FALSE, part |-> "hdr", out |-> <<>>]]]
    /\ wire = [c \in Conns |-> [e \in Ends |-> <<>>]]

-----------------------------------------------------------------------------
(* The applications. *)

PeerOpen(c, e) == e = "client" \/ relay[c]["server"].at \in {"relay", "closing"}

PeerWrites(c, e) ==
    /\ relay[c][e].at # "done" /\ PeerOpen(c, e)
    /\ e = "client" /\ Socks(c) => peer[c][e].reply = "success"
    /\ peer[c][e].left > 0 /\ ~peer[c][e].shut
    /\ peer' = [peer EXCEPT ![c][e].left = @ - 1, ![c][e].next = @ + 1,
                            ![c][e].rdy = Append(@, peer[c][e].next)]
    /\ UNCHANGED <<job, loop, relay, wire, muxIn, intact, cuts>>

\* It closes because it saw the end, or, if it is not the one that waits for the other,
\* when it has written everything.
PeerShuts(c, e) ==
    /\ Kind(c) # "none" /\ PeerOpen(c, e) /\ ~peer[c][e].shut
    /\ peer[c][e].end \/ (peer[c][e].left = 0 /\ job[c].first \in {e, "any"})
    /\ peer' = [peer EXCEPT ![c][e].shut = TRUE, ![c][e].left = 0]
    /\ UNCHANGED <<job, loop, relay, wire, muxIn, intact, cuts>>

-----------------------------------------------------------------------------
(* The end of a relay: both sockets are dropped.                           *)

\* A socket dropped with data it has not read resets the connection, and what is on its
\* way to the other side may be lost; so may it when the tunnel command over QUIC exits, which
\* closes the QUIC connection.
Dropped(c, e, out) ==
    LET kept == wire[c][e] \o out
        tail == wire[c][Other(e)] # <<>> \/ (Kind(c) = "quic" /\ e = "client")
    IN  {Append(kept, Fin)} \cup (IF tail THEN {<<Fin>>} ELSE {})

\* relay and peer after the task of end e is over.
Over(c, e) == [relay EXCEPT ![c][e].at = "done", ![c][e].out = <<>>]
SeesEnd(c, e, p) == [p EXCEPT ![c][e].end = TRUE]

\* Mutant: the task ends but keeps its half of the mrsh stream open.
EndRelayUnclosed(c, e) == relay' = Over(c, e) /\ UNCHANGED wire
EndRelay(c, e) ==
    /\ relay' = Over(c, e)
    /\ wire' \in {[wire EXCEPT ![c][e] = w] : w \in Dropped(c, e, <<>>)}

-----------------------------------------------------------------------------
(* The client's listeners: run_tunnel, run_tunnel_persistent,              *)
(* run_multi_tunnel, run_socks5, and the listeners of dispatch_quic.       *)

SetClient(c, at) == [relay EXCEPT ![c]["client"].at = at]

\* listener.accept; connect_fn is awaited in the loop, except over QUIC, where the
\* connection is there already.
Accept(c) ==
    /\ relay[c]["client"].at = "queued" /\ loop = "free"
    /\ loop' = IF Quic(c) THEN loop ELSE c
    /\ relay' = SetClient(c, IF Quic(c) THEN IF Socks(c) THEN "greeting" ELSE "open" ELSE "connecting")
    /\ UNCHANGED <<job, peer, wire, muxIn, intact, cuts>>

\* connect_fn: the tunnel's loop goes on to the request, a SOCKS connection gets its task.
ConnectFn(c) ==
    /\ relay[c]["client"].at = "connecting"
    /\ \/ /\ relay' = SetClient(c, IF Socks(c) THEN "greeting" ELSE "open")
          /\ loop' = IF Socks(c) THEN "free" ELSE loop
          /\ UNCHANGED peer
       \/ /\ relay' = SetClient(c, "done") /\ peer' = SeesEnd(c, "client", peer)
          /\ loop' = "free"
    /\ UNCHANGED <<job, wire, muxIn, intact, cuts>>

\* handle_socks5_client, handle_quic_socks5_conn up to the target: a CONNECT request, or
\* something else, which is refused.
SocksHandshake(c) ==
    /\ relay[c]["client"].at = "greeting"
    /\ \/ relay' = SetClient(c, "open") /\ UNCHANGED peer
       \/ /\ relay' = SetClient(c, "done")
          /\ peer' = SeesEnd(c, "client", [peer EXCEPT ![c]["client"].reply = "failure"])
    /\ UNCHANGED <<job, loop, wire, muxIn, intact, cuts>>

\* The connect request, or open_tunnel's header.
SendConnect(c) ==
    /\ relay[c]["client"].at = "open"
    /\ relay' = [relay EXCEPT ![c]["client"].at = "waiting", ![c]["server"].at = "asked"]
    /\ UNCHANGED <<job, loop, peer, wire, muxIn, intact, cuts>>

\* The loop of run_tunnel_persistent takes the next connection when this one has its answer.
Freed(c) == IF loop = c THEN "free" ELSE loop

\* What is left of the wire when the answer has been read.  open_tunnel reads the line
\* through a BufReader and gives back the stream without the buffer: whatever came with the
\* line is dropped.
AfterOk(c) ==
    LET w == wire[c]["server"]
        data(k) == \A i \in 2 .. k - 1 : w[i].k = "body"
    IN  IF Quic(c) THEN {SubSeq(w, k, Len(w)) : k \in {j \in 2 .. Len(w) + 1 : data(j)}}
        ELSE {Tail(w)}

\* The answer: ack and relay, or the connection ends.
ClientAnswered(c) ==
    /\ relay[c]["client"].at = "waiting" /\ wire[c]["server"] # <<>>
    /\ loop' = Freed(c)
    /\ LET ok == Head(wire[c]["server"]).k = "ok"
       IN  \/ /\ ok
              /\ \E w \in AfterOk(c) :
                    /\ wire' = [wire EXCEPT ![c]["server"] = w]
                    /\ intact' = IF w = Tail(wire[c]["server"]) THEN intact ELSE intact \ {c}
              /\ relay' = [relay EXCEPT ![c]["client"].at = "relay", ![c]["client"].met = TRUE]
              /\ peer' = [peer EXCEPT ![c]["client"].reply = "success"]
           \/ /\ ~ok
              /\ relay' = Over(c, "client")
              /\ wire' = [wire EXCEPT ![c]["client"] = Append(@, Fin)]
              /\ peer' = SeesEnd(c, "client", [peer EXCEPT ![c]["client"].reply = "failure"])
              /\ UNCHANGED intact
    /\ UNCHANGED <<job, muxIn, cuts>>

-----------------------------------------------------------------------------
(* The server: "connect" in the request loop, handle_quic_stream,          *)
(* handle_channel_open.                                                    *)

Says(c, k) == [wire EXCEPT ![c]["server"] = Append(@, [k |-> k])]
SetServer(c, at) == [relay EXCEPT ![c]["server"].at = at]

\* A key without the tunnel permission is answered with an error.
Denied(c) ==
    /\ relay[c]["server"].at = "asked" /\ Kind(c) # "mux"
    /\ relay' = SetServer(c, "done")
    /\ wire' = [wire EXCEPT ![c]["server"] = @ \o <<[k |-> "error"], Fin>>]
    /\ peer' = SeesEnd(c, "server", peer)
    /\ UNCHANGED <<job, loop, muxIn, intact, cuts>>

\* The TLS request loop acknowledges before it looks at the target ...
AckFirst(c) ==
    /\ relay[c]["server"].at = "asked" /\ Framed(c)
    /\ wire' = Says(c, "ok") /\ relay' = SetServer(c, "connecting")
    /\ UNCHANGED <<job, loop, peer, muxIn, intact, cuts>>
\* ... the others connect first.
ConnectFirst(c) ==
    /\ relay[c]["server"].at = "asked" /\ ~Framed(c)
    /\ relay' = SetServer(c, "connecting")
    /\ UNCHANGED <<job, loop, peer, wire, muxIn, intact, cuts>>

\* handle_connect: is_tunnel_allowed, is_blocked_target, TcpStream::connect.
TargetConnects(c) ==
    /\ relay[c]["server"].at = "connecting"
    /\ wire' = IF Framed(c) THEN wire ELSE Says(c, "ok")
    /\ relay' = [relay EXCEPT ![c]["server"].at = "relay", ![c]["server"].met = TRUE]
    /\ UNCHANGED <<job, loop, peer, muxIn, intact, cuts>>
TargetRefuses(c) ==
    /\ relay[c]["server"].at = "connecting"
    /\ relay' = Over(c, "server") /\ peer' = SeesEnd(c, "server", peer)
    /\ wire' \in IF Framed(c)
                 THEN {[wire EXCEPT ![c]["server"] = w] : w \in Dropped(c, "server", <<>>)}
                 ELSE {[wire EXCEPT ![c]["server"] = @ \o <<[k |-> "error"], Fin>>]}
    /\ UNCHANGED <<job, loop, muxIn, intact, cuts>>

-----------------------------------------------------------------------------
(* The relay loop at end e.                                                *)

Idle(c, e) == relay[c][e].at = "relay" /\ relay[c][e].out = <<>>
In(c, e) == wire[c][Other(e)]
Taken(c, e, n) == [wire EXCEPT ![c][Other(e)] = SubSeq(@, n + 1, Len(@))]

\* The read of the socket wins: a header that recv_message has read is dropped with it.
SocketRead(c, e) ==
    /\ Idle(c, e) /\ peer[c][e].rdy # <<>>
    /\ LET b == Body(Head(peer[c][e].rdy))
       IN  relay' = [relay EXCEPT ![c][e].out = IF Framed(c) THEN <<Hdr, b>> ELSE <<b>>,
                                  ![c][e].part = "hdr"]
    /\ peer' = [peer EXCEPT ![c][e].rdy = Tail(@)]
    /\ intact' = IF relay[c][e].part = "body" THEN intact \ {c} ELSE intact
    /\ UNCHANGED <<job, loop, wire, muxIn, cuts>>

\* send_message: the select is not polled while the frame is written.
Push(c, e) ==
    /\ relay[c][e].at \in {"relay", "closing"} /\ relay[c][e].out # <<>>
    /\ Len(wire[c][e]) < WireCap
    /\ wire' = [wire EXCEPT ![c][e] = Append(@, Head(relay[c][e].out))]
    /\ relay' = [relay EXCEPT ![c][e].out = Tail(@)]
    /\ UNCHANGED <<job, loop, peer, muxIn, intact, cuts>>

\* The other end or the connection is gone: a write fails and the relay returns the error.
PushFails(c, e) ==
    /\ relay[c][e].at \in {"relay", "closing"} /\ relay[c][e].out # <<>>
    /\ relay[c][Other(e)].at = "done" \/ (\E i \in DOMAIN In(c, e) : In(c, e)[i] = Fin)
    /\ EndRelay(c, e) /\ peer' = SeesEnd(c, e, peer)
    /\ UNCHANGED <<job, loop, muxIn, intact, cuts>>

\* The application has closed: the end marker, and the relay is over, whatever the other
\* direction still carries.
SocketEof(c, e) ==
    /\ Idle(c, e) /\ peer[c][e].rdy = <<>> /\ peer[c][e].shut
    /\ relay' = [relay EXCEPT ![c][e].at = "closing",
                              ![c][e].out = IF Framed(c) \/ Kind(c) = "mux" THEN <<Eof>> ELSE <<>>]
    /\ UNCHANGED <<job, loop, peer, wire, muxIn, intact, cuts>>
Closes(c, e) ==
    /\ relay[c][e].at = "closing" /\ relay[c][e].out = <<>>
    /\ EndRelay(c, e) /\ peer' = SeesEnd(c, e, peer)
    /\ UNCHANGED <<job, loop, muxIn, intact, cuts>>

\* The elements the next complete read takes, 0 if it is not there.
Complete(c, e) ==
    LET n == IF Framed(c) /\ relay[c][e].part = "hdr" THEN 2 ELSE 1
        w == In(c, e)
    IN  IF relay[c][e].part # "lost" /\ Len(w) >= n /\ w[n].k = "body"
           /\ (Framed(c) /\ relay[c][e].part = "hdr" => w[1].k = "hdr")
        THEN n ELSE 0

\* recv_message reads a header whose body is not there yet.
RecvHeader(c, e) ==
    /\ Idle(c, e) /\ Framed(c) /\ relay[c][e].part = "hdr"
    /\ In(c, e) # <<>> /\ Head(In(c, e)) = Hdr /\ Complete(c, e) = 0
    /\ wire' = Taken(c, e, 1)
    /\ relay' = [relay EXCEPT ![c][e].part = "body"]
    /\ UNCHANGED <<job, loop, peer, muxIn, intact, cuts>>

\* A block is written to the application; one that is gone makes the write fail.
RecvData(c, e) ==
    /\ Idle(c, e) /\ Complete(c, e) > 0
    /\ LET n == Complete(c, e) IN
          \/ /\ wire' = Taken(c, e, n)
             /\ peer' = [peer EXCEPT ![c][e].got = Append(@, In(c, e)[n].b)]
             /\ relay' = [relay EXCEPT ![c][e].part = "hdr"]
          \/ /\ peer[c][e].shut
             /\ EndRelay(c, e) /\ peer' = SeesEnd(c, e, peer)
    /\ UNCHANGED <<job, loop, muxIn, intact, cuts>>

Misread(c, e) ==
    LET k == Head(In(c, e)).k
    IN  IF relay[c][e].part = "lost" THEN k # "fin"
        ELSE Framed(c) /\ relay[c][e].part = "hdr" /\ k = "body"

\* A body read as a header: a length beyond the limit is an error; a smaller one makes a
\* message of the bytes that follow, complete or never complete.
OutOfStep(c, e) ==
    /\ Idle(c, e) /\ In(c, e) # <<>> /\ Misread(c, e)
    /\ LET rest == SelectSeq(In(c, e), LAMBDA x : x.k = "fin")
           eaten == [wire EXCEPT ![c][Other(e)] = rest]
       IN  \/ EndRelay(c, e) /\ peer' = SeesEnd(c, e, peer)
           \/ /\ wire' = eaten /\ peer' = [peer EXCEPT ![c][e].got = Append(@, Junk)]
              /\ relay' = [relay EXCEPT ![c][e].part = "hdr"]
           \/ /\ wire' = eaten /\ relay' = [relay EXCEPT ![c][e].part = "lost"]
              /\ UNCHANGED peer
    /\ UNCHANGED <<job, loop, muxIn, intact, cuts>>

\* The end marker, or the end of the stream: the application's side is shut, the relay over.
\* A mux channel has no use for the marker (eof_recv).
RecvEnd(c, e) ==
    /\ Idle(c, e) /\ In(c, e) # <<>>
    /\ Head(In(c, e)).k = "fin" \/ (relay[c][e].part # "lost" /\ Head(In(c, e)).k = "eof")
    /\ wire' \in {[Taken(c, e, 1) EXCEPT ![c][e] = w] : w \in Dropped(c, e, <<>>)}
    /\ relay' = Over(c, e) /\ peer' = SeesEnd(c, e, peer)
    /\ UNCHANGED <<job, loop, muxIn, intact, cuts>>

-----------------------------------------------------------------------------
(* The mux connection (ServerMuxConn): one reader for all channels.  Its   *)
(* client is not part of the repository; it opens a channel, sends data    *)
(* and closes the channel when the application has closed.                 *)

MuxFrame(c, x) == muxIn' = Append(muxIn, [c |-> c, x |-> x])
MuxRoom == Len(muxIn) < WireCap

MuxOpens(c) ==
    /\ relay[c]["client"].at = "channel" /\ MuxRoom
    /\ MuxFrame(c, [k |-> "open"])
    /\ relay' = [relay EXCEPT ![c]["client"].at = "relay", ![c]["client"].met = TRUE]
    /\ UNCHANGED <<job, loop, peer, wire, intact, cuts>>
MuxSends(c) ==
    /\ Kind(c) = "mux" /\ relay[c]["client"].at = "relay" /\ MuxRoom
    /\ IF peer[c]["client"].rdy # <<>>
       THEN /\ MuxFrame(c, Body(Head(peer[c]["client"].rdy)))
            /\ peer' = [peer EXCEPT ![c]["client"].rdy = Tail(@)]
            /\ UNCHANGED relay
       ELSE /\ peer[c]["client"].shut
            /\ MuxFrame(c, Fin)
            /\ relay' = SetClient(c, "done") /\ peer' = SeesEnd(c, "client", peer)
    /\ UNCHANGED <<job, loop, wire, intact, cuts>>
\* Data, the confirmation and the end of the channel, as they come.
MuxReceives(c) ==
    /\ Kind(c) = "mux" /\ relay[c]["client"].at = "relay" /\ In(c, "client") # <<>>
    /\ LET x == Head(In(c, "client"))
           closed == x.k \in {"fin", "error"}
       IN  /\ peer' = [peer EXCEPT ![c]["client"].got = IF x.k = "body" THEN Append(@, x.b) ELSE @,
                                   ![c]["client"].end = @ \/ closed]
           /\ relay' = IF closed THEN SetClient(c, "done") ELSE relay
    /\ wire' = Taken(c, "client", 1)
    /\ UNCHANGED <<job, loop, muxIn, intact, cuts>>

\* Mutant: try_send instead of send: data for a full queue is dropped.
MuxDataTrySend(c, x) ==
    wire' = IF relay[c]["server"].at = "done" \/ Len(wire[c]["client"]) >= ChannelBuffer THEN wire
            ELSE [wire EXCEPT ![c]["client"] = Append(@, x)]
\* Data for a channel whose queue is full is waited for with the reader; data for a channel
\* that is gone is dropped.
MuxData(c, x) ==
    LET gone == relay[c]["server"].at = "done"
    IN  /\ gone \/ Len(wire[c]["client"]) < ChannelBuffer
        /\ wire' = IF gone THEN wire ELSE [wire EXCEPT ![c]["client"] = Append(@, x)]

\* read_loop and handle_message.  A close drops what is queued.
handle_message ==
    /\ muxIn # <<>>
    /\ LET c == Head(muxIn).c
           x == Head(muxIn).x
       IN  \/ /\ x.k = "open"
              /\ relay' = SetServer(c, "asked") /\ UNCHANGED wire
           \/ x.k = "body" /\ MuxData(c, x) /\ UNCHANGED relay
           \/ /\ x.k = "fin"
              /\ wire' = [wire EXCEPT ![c]["client"] = <<Fin>>]
              /\ UNCHANGED relay
    /\ muxIn' = Tail(muxIn)
    /\ UNCHANGED <<job, loop, peer, intact, cuts>>

\* The mrsh connection breaks.  What was sent may arrive in part.
Cut(c) ==
    /\ cuts < MaxCuts /\ Kind(c) \notin {"none", "mux"}
    /\ relay[c]["server"].at \notin {"none", "done"}
    /\ cuts' = cuts + 1
    /\ wire' = [wire EXCEPT ![c] = [e \in Ends |-> <<Fin>>]]
    /\ relay' = [relay EXCEPT ![c]["server"].at = IF @ = "asked" THEN "done" ELSE @]
    /\ UNCHANGED <<job, loop, peer, muxIn, intact>>

-----------------------------------------------------------------------------
RelayStep(c, e) ==
    \/ SocketRead(c, e) \/ Push(c, e) \/ PushFails(c, e) \/ SocketEof(c, e) \/ Closes(c, e)
    \/ RecvHeader(c, e) \/ RecvData(c, e) \/ OutOfStep(c, e) \/ RecvEnd(c, e)
\* The client of a mux channel is not a relay.
Relays(c) == IF Kind(c) = "mux" THEN {"server"} ELSE Ends
ClientStep(c) ==
    \/ Accept(c) \/ ConnectFn(c) \/ SocksHandshake(c) \/ SendConnect(c) \/ ClientAnswered(c)
ServerStep(c) == AckFirst(c) \/ ConnectFirst(c) \/ TargetConnects(c) \/ TargetRefuses(c) \/ Denied(c)
MuxClient(c) == MuxOpens(c) \/ MuxSends(c) \/ MuxReceives(c)

TunnelNext ==
    \/ \E c \in Conns :
          \/ ClientStep(c) \/ ServerStep(c) \/ MuxClient(c) \/ Cut(c)
          \/ \E e \in Ends : PeerWrites(c, e) \/ PeerShuts(c, e)
          \/ \E e \in Relays(c) : RelayStep(c, e)
    \/ handle_message

\* The tasks run, a connect and a handshake come to an end, and the applications go on
\* writing and closing.
TunnelFairness ==
    /\ WF_tunnelVars(handle_message)
    /\ \A c \in Conns :
          /\ WF_tunnelVars(ClientStep(c)) /\ WF_tunnelVars(ServerStep(c))
          /\ WF_tunnelVars(MuxClient(c))
          /\ \A e \in Ends : /\ WF_tunnelVars(PeerWrites(c, e)) /\ WF_tunnelVars(PeerShuts(c, e))
                            /\ WF_tunnelVars(e \in Relays(c) /\ RelayStep(c, e))

TunnelSpec == TunnelInit /\ [][TunnelNext]_tunnelVars /\ TunnelFairness

-----------------------------------------------------------------------------
(* Properties. *)

\* What a peer has received is the beginning of what the other peer wrote.
Prefix(c, e) ==
    /\ peer[c][e].got = [i \in 1 .. Len(peer[c][e].got) |-> i]
    /\ Len(peer[c][e].got) < peer[c][Other(e)].next

\* The only places where a byte in the middle can be lost are the two reads that drop what
\* they have: a frame header when the other branch of the select wins, and the buffer of
\* open_tunnel.  Everything else, blocked writes, breaking connections, full mux queues and
\* closing channels, only ever cuts off the end.
OnlyTheEndIsLost == \A c \in intact, e \in Ends : Prefix(c, e)

\* A transfer in one direction arrives complete: the sender closes when it has written
\* everything, the receiver waits for the end.  The two uploads that may lose their tail are
\* the QUIC tunnel command, which exits, and a mux channel, whose close drops its queue.
OneWay(c, e) == /\ job[c].first = e
                /\ (IF e = "client" THEN job[c].down ELSE job[c].up) = 0
                /\ ~(e = "client" /\ Kind(c) \in {"quic", "mux"})
Arrived(c, e) ==
    /\ peer[c][Other(e)].end
    /\ Len(peer[c][Other(e)].got) = (IF e = "client" THEN job[c].up ELSE job[c].down)
Met(c) == \A e \in Ends : relay[c][e].met
OneWayArrives ==
    \A c \in intact, e \in Ends :
       (OneWay(c, e) /\ Met(c) /\ cuts = 0 /\ \A f \in Ends : relay[c][f].at = "done")
       => Arrived(c, e)

\* When the applications close, both relays end and the accept loop is free again, whatever
\* was refused, lost or out of step.
TunnelRest ==
    /\ loop = "free"
    /\ \A c \in Conns : relay[c]["client"].at = "done" /\ relay[c]["server"].at \in {"none", "done"}
=============================================================================
