------------------------------ MODULE Rendezvous ------------------------------
(***************************************************************************)
(* The rendezvous server (hbbs), the registration loop of a device and the *)
(* delivery of relay notifications: crates/mrsh-relay/src/rendezvous.      *)
(*                                                                         *)
(* A device registers by UDP every ten seconds and keeps one TCP           *)
(* connection open, over which hbbs tells it that a client wants to meet   *)
(* it at the relay (hbbr).  hbbs handles every TCP connection in a task of *)
(* its own; the peers map is locked for single look-ups and inserts only.  *)
(* Datagrams may be lost, delayed and reordered; a device may crash and    *)
(* come back; the two ends of a TCP connection learn of its end separately.*)
(***************************************************************************)
EXTENDS Integers, Sequences, FiniteSets

CONSTANTS
  Devices,     \* device ids
  Requests,    \* relay requests, each with a UUID of its own
  TargetOf,    \* TargetOf[u]: the device request u asks for
  MaxBoots,    \* bound: boots of each device
  MaxChanges,  \* bound: its boots and interface sets together
  MaxConns,    \* bound: TCP notification connections over all devices
  MaxIfaces,   \* bound: changes of a device's interface set
  Expiry,      \* PEER_EXPIRY, in ticks of the cleanup task
  RelayCap     \* capacity of the relay_tx channel (16 in server_mode.rs)

ASSUME TargetAssumption == TargetOf \in [Requests -> Devices]
ASSUME BoundsAssumption ==
  {MaxBoots, MaxChanges, MaxConns, MaxIfaces, Expiry, RelayCap} \subseteq Nat \ {0}

VARIABLES
  phase,    \* "down", "boot" (net info collected) or "up" (loop running)
  boots,    \* boots of each device; the loop's socket is <<d, boots[d]>>
  ifaces,   \* the device's interface set, as a version number
  advert,   \* the interface set in reg_shared, the bytes being registered
  sig,      \* last_iface_sig
  tcp,      \* the device's end of its notification connection, 0 for none
  inbox,    \* the relay_tx channel
  conns,    \* every TCP connection made so far, by number
  entry,    \* hbbs: the peers map
  regs,     \* RegisterPeer datagrams in flight
  notes,    \* RelayResponse datagrams in flight
  req,      \* hbbs: the task that handles each RequestRelay
  joins     \* the ends that came to hbbr with each request's UUID, in order

vars == <<phase, boots, ifaces, advert, sig, tcp, inbox, conns, entry, regs,
          notes, req, joins>>

device == <<phase, boots, ifaces, advert, sig, inbox>>

\* A socket address: the loop's socket of a boot, or one that nobody reads
\* (number 0): the ephemeral socket of register_once, or a TCP peer address.
NoAddr == <<>>
NoEntry == [addr |-> NoAddr, tcp |-> 0, net |-> 0, age |-> 0]
Live(d) == <<d, boots[d]>>

\* srv is what hbbs did with its end: "reading" the first frame, "kept" in a
\* PeerEntry or in a handler, "closed".  torn: a frame was cut short by the
\* five second write timeout, so what follows it cannot be decoded.
NewConn(d, n) == [dev |-> d, net |-> n, srv |-> "reading", torn |-> FALSE,
                  buf |-> <<>>]
ConnIds == 1 .. MaxConns

Idle == [pc |-> "idle", addr |-> NoAddr, tcp |-> 0]

Init ==
  /\ phase = [d \in Devices |-> "down"]
  /\ boots = [d \in Devices |-> 0]
  /\ ifaces = [d \in Devices |-> 1]
  /\ advert = [d \in Devices |-> 1]
  /\ sig = [d \in Devices |-> 1]
  /\ tcp = [d \in Devices |-> 0]
  /\ inbox = [d \in Devices |-> <<>>]
  /\ conns = <<>>
  /\ entry = [d \in Devices |-> NoEntry]
  /\ regs = {}
  /\ notes = {}
  /\ req = [u \in Requests |-> Idle]
  /\ joins = [u \in Requests |-> <<>>]

-----------------------------------------------------------------------------
(***************************************************************************)
(* The device: server_mode.rs and run_registration_loop.                   *)
(***************************************************************************)

\* server_mode.rs collects and encrypts the net info for the Client.
Boot(d) ==
  /\ phase[d] = "down"
  /\ boots[d] < MaxBoots /\ boots[d] + ifaces[d] < MaxChanges
  /\ boots' = [boots EXCEPT ![d] = @ + 1]
  /\ phase' = [phase EXCEPT ![d] = "boot"]
  /\ advert' = [advert EXCEPT ![d] = ifaces[d]]
  /\ UNCHANGED <<ifaces, sig, tcp, inbox, conns, entry, regs, notes, req, joins>>

\* The loop binds its socket, resolves the servers and then takes the
\* signature that changes are compared with from a snapshot of its own.
StartLoop(d) ==
  /\ phase[d] = "boot"
  /\ phase' = [phase EXCEPT ![d] = "up"]
  /\ sig' = [sig EXCEPT ![d] = ifaces[d]]
  /\ UNCHANGED <<boots, ifaces, advert, tcp, inbox, conns, entry, regs, notes,
                 req, joins>>

\* Environment: an interface goes up or down (WiFi, dock, VPN).
IfaceChange(d) ==
  /\ phase[d] # "down"
  /\ ifaces[d] < MaxIfaces /\ boots[d] + ifaces[d] < MaxChanges
  /\ ifaces' = [ifaces EXCEPT ![d] = @ + 1]
  /\ UNCHANGED <<phase, boots, advert, sig, tcp, inbox, conns, entry, regs,
                 notes, req, joins>>

\* Environment: the device stops.  hbbs is not told.
Crash(d) ==
  /\ phase[d] # "down"
  /\ phase' = [phase EXCEPT ![d] = "down"]
  /\ tcp' = [tcp EXCEPT ![d] = 0]
  /\ inbox' = [inbox EXCEPT ![d] = <<>>]
  /\ UNCHANGED <<boots, ifaces, advert, sig, conns, entry, regs, notes, req,
                 joins>>

Register(d, a, n) == regs' = regs \cup {[dev |-> d, addr |-> a, net |-> n]}

\* Mutant: the registration is sent once, not at every tick.
KeepaliveAtStart(d) ==
  /\ phase[d] = "up"
  /\ entry[d] = NoEntry
  /\ Register(d, Live(d), advert[d])
  /\ UNCHANGED <<device, tcp, conns, entry, notes, req, joins>>

\* interval.tick(): the registration is sent from the loop's socket.
Keepalive(d) ==
  /\ phase[d] = "up"
  /\ Register(d, Live(d), advert[d])
  /\ UNCHANGED <<device, tcp, conns, entry, notes, req, joins>>

\* net_refresh.tick() after a change: new bytes, sent at once.
NetRefresh(d) ==
  /\ phase[d] = "up"
  /\ sig[d] # ifaces[d]
  /\ sig' = [sig EXCEPT ![d] = ifaces[d]]
  /\ advert' = [advert EXCEPT ![d] = ifaces[d]]
  /\ Register(d, Live(d), ifaces[d])
  /\ UNCHANGED <<phase, boots, ifaces, tcp, inbox, conns, entry, notes, req,
                 joins>>

\* register_once by the watchdog probe: same id, an ephemeral socket and the
\* net info of the boot.  At most one such datagram in flight.
Probe(d) ==
  /\ phase[d] = "up"
  /\ ~ \E r \in regs : r.dev = d /\ r.addr = <<d, 0>>
  /\ Register(d, <<d, 0>>, 1)
  /\ UNCHANGED <<device, tcp, conns, entry, notes, req, joins>>

\* tcp_notify_loop: connect and write the RegisterPeer frame.  Connection
\* numbers that nobody holds any more are used again.
Held(c) ==
  \/ \E d \in Devices : tcp[d] = c \/ entry[d].tcp = c
  \/ \E u \in Requests : req[u].tcp = c
  \/ conns[c].srv = "reading"

TcpConnect(d) ==
  /\ phase[d] = "up"
  /\ tcp[d] = 0
  /\ LET free == {c \in DOMAIN conns : ~Held(c)}
         c == IF free # {} THEN CHOOSE x \in free : TRUE ELSE Len(conns) + 1
     IN /\ c <= MaxConns
        /\ conns' = IF c \in free
                    THEN [conns EXCEPT ![c] = NewConn(d, advert[d])]
                    ELSE Append(conns, NewConn(d, advert[d]))
        /\ tcp' = [tcp EXCEPT ![d] = c]
  /\ UNCHANGED <<device, entry, regs, notes, req, joins>>

\* relay_tx.send(..).await: the receiving loop waits while the channel is full.
HasRoom(d) == phase[d] = "up" /\ Len(inbox[d]) < RelayCap

\* The TCP loop decodes a RelayResponse and sends it to relay_tx.
TcpReceive(d) ==
  /\ HasRoom(d)
  /\ tcp[d] # 0
  /\ conns[tcp[d]].buf # <<>>
  /\ inbox' = [inbox EXCEPT ![d] = Append(@, Head(conns[tcp[d]].buf))]
  /\ conns' = [conns EXCEPT ![tcp[d]].buf = Tail(@)]
  /\ UNCHANGED <<phase, boots, ifaces, advert, sig, tcp, entry, regs, notes,
                 req, joins>>

\* hbbs holds its end of c: reading, in an entry, or in a handler's hands.
ServerHolds(c) ==
  \/ conns[c].srv = "reading"
  \/ \E d \in Devices : entry[d].tcp = c
  \/ \E u \in Requests : req[u].tcp = c

\* decode_frame fails: hbbs dropped its end, or what follows a torn frame
\* makes no sense as a frame header.
TcpEnd(d) ==
  /\ tcp[d] # 0
  /\ \/ ~ServerHolds(tcp[d]) /\ conns[tcp[d]].buf = <<>>
     \/ conns[tcp[d]].torn
  /\ tcp' = [tcp EXCEPT ![d] = 0]
  /\ UNCHANGED <<device, conns, entry, regs, notes, req, joins>>

\* The UDP loop receives a RelayResponse on its socket.
UdpReceive(d, u) ==
  /\ HasRoom(d)
  /\ [to |-> Live(d), uuid |-> u] \in notes
  /\ notes' = notes \ {[to |-> Live(d), uuid |-> u]}
  /\ inbox' = [inbox EXCEPT ![d] = Append(@, u)]
  /\ UNCHANGED <<phase, boots, ifaces, advert, sig, tcp, conns, entry, regs,
                 req, joins>>

\* accept_relay_connection: the device goes to hbbr.  There is no memory of
\* the UUIDs already served.
AcceptRelay(d) ==
  /\ phase[d] = "up"
  /\ inbox[d] # <<>>
  /\ joins' = [joins EXCEPT ![Head(inbox[d])] = Append(@, d)]
  /\ inbox' = [inbox EXCEPT ![d] = Tail(@)]
  /\ UNCHANGED <<phase, boots, ifaces, advert, sig, tcp, conns, entry, regs,
                 notes, req>>

-----------------------------------------------------------------------------
(***************************************************************************)
(* hbbs.                                                                   *)
(***************************************************************************)

\* Mutant: the entry written for a datagram has no notification stream.
DeliverRegisterForgetful(r) ==
  /\ r \in regs
  /\ regs' = regs \ {r}
  /\ entry' = [entry EXCEPT ![r.dev] =
                 [addr |-> r.addr, tcp |-> 0, net |-> r.net, age |-> 0]]
  /\ UNCHANGED <<device, tcp, conns, notes, req, joins>>

\* handle_message(RegisterPeer): the entry is written anew, except for the
\* notification stream.
DeliverRegister(r) ==
  /\ r \in regs
  /\ regs' = regs \ {r}
  /\ entry' = [entry EXCEPT ![r.dev] =
                 [addr |-> r.addr, tcp |-> @.tcp, net |-> r.net, age |-> 0]]
  /\ UNCHANGED <<device, tcp, conns, notes, req, joins>>

\* Environment: a datagram is lost, or reaches a socket nobody reads.
LoseRegister(r) ==
  /\ r \in regs
  /\ regs' = regs \ {r}
  /\ UNCHANGED <<device, tcp, conns, entry, notes, req, joins>>

LoseNote(m) ==
  /\ m \in notes
  /\ notes' = notes \ {m}
  /\ UNCHANGED <<device, tcp, conns, entry, regs, req, joins>>

\* handle_tcp_relay_request(RegisterPeer): the stream goes into the entry and
\* the address of an existing entry stays.  The device may be gone by now.
TcpRegister(c) ==
  /\ c \in DOMAIN conns
  /\ conns[c].srv = "reading"
  /\ conns' = [conns EXCEPT ![c].srv = "kept"]
  /\ entry' = [entry EXCEPT ![conns[c].dev] =
                 [addr |-> IF @.addr = NoAddr THEN <<conns[c].dev, 0>>
                           ELSE @.addr,
                  tcp |-> c, net |-> conns[c].net, age |-> 0]]
  /\ UNCHANGED <<device, tcp, regs, notes, req, joins>>

\* decode_frame fails or takes ten seconds: the connection is dropped.
TcpReadFails(c) ==
  /\ c \in DOMAIN conns
  /\ conns[c].srv = "reading"
  /\ tcp[conns[c].dev] # c
  /\ conns' = [conns EXCEPT ![c].srv = "closed"]
  /\ UNCHANGED <<device, tcp, entry, regs, notes, req, joins>>

\* Time passes for the entries that nobody refreshes.
Tick ==
  /\ \E d \in Devices : entry[d] # NoEntry /\ entry[d].age < Expiry
  /\ entry' = [d \in Devices |->
                 IF entry[d] = NoEntry \/ entry[d].age = Expiry THEN entry[d]
                 ELSE [entry[d] EXCEPT !.age = @ + 1]]
  /\ UNCHANGED <<device, tcp, conns, regs, notes, req, joins>>

\* The cleanup task: retain what was seen within PEER_EXPIRY.
Cleanup ==
  /\ \E d \in Devices : entry[d].age = Expiry
  /\ entry' = [d \in Devices |->
                 IF entry[d].age = Expiry THEN NoEntry ELSE entry[d]]
  /\ UNCHANGED <<device, tcp, conns, regs, notes, req, joins>>

(***************************************************************************)
(* RequestRelay: the client made the UUID and goes to hbbr without waiting *)
(* for an answer; hbbs looks the device up twice, under two locks.         *)
(***************************************************************************)
ClientJoins(u) ==
  /\ req[u].pc # "idle"
  /\ ~ \E i \in DOMAIN joins[u] : joins[u][i] = "client"
  /\ joins' = [joins EXCEPT ![u] = Append(@, "client")]
  /\ UNCHANGED <<device, tcp, conns, entry, regs, notes, req>>

FindAddr(u) ==
  /\ req[u].pc = "idle"
  /\ req' = [req EXCEPT ![u].pc = "found",
                        ![u].addr = entry[TargetOf[u]].addr]
  /\ UNCHANGED <<device, tcp, conns, entry, regs, notes, joins>>

FindTcp(u) ==
  /\ req[u].pc = "found"
  /\ LET t == IF req[u].addr = NoAddr THEN 0 ELSE entry[TargetOf[u]].tcp IN
       req' = [req EXCEPT
                 ![u].tcp = t,
                 ![u].pc = IF req[u].addr = NoAddr THEN "end"
                           ELSE IF t = 0 THEN "udp" ELSE "write"]
  /\ UNCHANGED <<device, tcp, conns, entry, regs, notes, joins>>

\* Mutant: after a successful write the datagram is sent too, as the comment
\* in the code has it.
TcpWriteThenUdp(u) ==
  /\ req[u].pc = "write"
  /\ LET c == req[u].tcp IN
       conns' = IF tcp[conns[c].dev] = c /\ ~conns[c].torn
                THEN [conns EXCEPT ![c].buf = Append(@, u)] ELSE conns
  /\ req' = [req EXCEPT ![u].pc = "udp", ![u].tcp = 0]
  /\ UNCHANGED <<device, tcp, entry, regs, notes, joins>>

\* write_all succeeds: the bytes are in the kernel, whoever reads them.
TcpWrite(u) ==
  /\ req[u].pc = "write"
  /\ LET c == req[u].tcp IN
       conns' = IF tcp[conns[c].dev] = c /\ ~conns[c].torn
                THEN [conns EXCEPT ![c].buf = Append(@, u)] ELSE conns
  /\ req' = [req EXCEPT ![u].pc = "end", ![u].tcp = 0]
  /\ UNCHANGED <<device, tcp, entry, regs, notes, joins>>

\* write_all fails, or is cut off after five seconds.
TcpWriteFails(u) ==
  /\ req[u].pc = "write"
  /\ conns' = [conns EXCEPT ![req[u].tcp].torn = TRUE]
  /\ req' = [req EXCEPT ![u].pc = "udp", ![u].tcp = 0]
  /\ UNCHANGED <<device, tcp, entry, regs, notes, joins>>

SendUdp(u) ==
  /\ req[u].pc = "udp"
  /\ notes' = notes \cup {[to |-> req[u].addr, uuid |-> u]}
  /\ req' = [req EXCEPT ![u].pc = "end"]
  /\ UNCHANGED <<device, tcp, conns, entry, regs, joins>>

Handle(u) ==
  FindTcp(u) \/ TcpWrite(u) \/ TcpWriteFails(u) \/ SendUdp(u)

DeviceStep(d) ==
  \/ Boot(d) \/ StartLoop(d) \/ IfaceChange(d) \/ Crash(d)
  \/ Keepalive(d) \/ NetRefresh(d) \/ Probe(d)
  \/ TcpConnect(d) \/ TcpReceive(d) \/ TcpEnd(d)
  \/ (\E u \in Requests : UdpReceive(d, u)) \/ AcceptRelay(d)

Next ==
  \/ \E d \in Devices : DeviceStep(d)
  \/ \E r \in regs : DeliverRegister(r) \/ LoseRegister(r)
  \/ \E m \in notes : LoseNote(m)
  \/ \E c \in ConnIds : TcpRegister(c) \/ TcpReadFails(c)
  \/ Tick \/ Cleanup
  \/ \E u \in Requests : ClientJoins(u) \/ FindAddr(u) \/ Handle(u)

Spec == Init /\ [][Next]_vars

(***************************************************************************)
(* Fairness: a running device runs its two loops and hbbs runs its tasks.  *)
(* Nothing is assumed of crashes, of probes, of interface changes or of    *)
(* clients, and a device need not notice that its stream is torn.          *)
(***************************************************************************)
Fairness ==
  /\ \A d \in Devices :
       /\ WF_vars(StartLoop(d))
       /\ WF_vars(Keepalive(d))
       /\ WF_vars(NetRefresh(d))
       /\ WF_vars(TcpConnect(d))
       /\ WF_vars(TcpReceive(d))
       /\ WF_vars(TcpEnd(d) /\ ~ServerHolds(tcp[d]))
       /\ WF_vars(AcceptRelay(d))
  /\ \A c \in ConnIds : WF_vars(TcpRegister(c) \/ TcpReadFails(c))
  /\ \A u \in Requests : WF_vars(Handle(u))
  /\ WF_vars(Cleanup)

FairSpec == Spec /\ Fairness

-----------------------------------------------------------------------------
(***************************************************************************)
(* Properties.                                                             *)
(***************************************************************************)

\* A device goes to hbbr at most once for a UUID, so it is never paired with
\* itself: hbbs may try a TCP stream and then fall back to UDP, and nothing on
\* the device remembers the UUIDs it has served (server_tcp.rs, RequestRelay;
\* client_register.rs and tcp_notify_loop feed the same channel).
NeverPairedWithItself ==
  \A u \in Requests :
    Cardinality({i \in DOMAIN joins[u] : joins[u][i] # "client"}) <= 1

\* A stream that a running device is reading leaves its entry only because
\* the entry expired or another connection of the device was registered: the
\* keepalives, probes and reordered datagrams that rewrite the entry all the
\* time keep it (server.rs, RegisterPeer, existing_tcp).
StreamKept ==
  [][\A d \in Devices :
       (tcp[d] # 0 /\ entry[d].tcp = tcp[d] /\ tcp'[d] = tcp[d]) =>
         \/ entry'[d].tcp = tcp[d]
         \/ entry[d].age = Expiry /\ entry'[d] = NoEntry
         \/ \E c \in DOMAIN conns : conns[c].srv = "reading" /\ entry'[d].tcp = c]_vars

Reachable(d) == entry[d].addr # NoAddr /\ tcp[d] # 0 /\ entry[d].tcp = tcp[d]

StaysUp(d) == <>[](phase[d] = "up")
NeverTorn(d) == [](tcp[d] # 0 => ~conns[tcp[d]].torn)

\* A device that stays up is again and again listed with the stream it is
\* reading, even if none of its datagrams ever arrives: an entry that expires
\* takes its stream with it, which makes the device reconnect and register
\* (the cleanup task of server.rs against tcp_notify_loop).
StreamRecovers ==
  \A d \in Devices : (StaysUp(d) /\ NeverTorn(d)) => []<>Reachable(d)

\* Of the registrations a device sends over and over some arrive.
SomeArrive(d) ==
  SF_vars(\E r \in regs :
            /\ r.dev = d /\ r.addr = Live(d) /\ r.net = advert[d]
            /\ DeliverRegister(r))

\* A device that stays up, and some of whose datagrams arrive, is again and
\* again listed under the socket it is listening on and with the net info it
\* last announced, although probes, late datagrams and TCP registrations
\* overwrite its entry.
ListingRecovers ==
  \A d \in Devices :
    (StaysUp(d) /\ SomeArrive(d)) =>
      []<>(entry[d].addr = Live(d) /\ entry[d].net = advert[d])

\* Whatever is lost or overwritten, a device that stays up becomes reachable
\* again, by its stream and by its listing.
Recovers == StreamRecovers /\ ListingRecovers
=============================================================================
