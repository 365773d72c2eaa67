----------------------------- MODULE RelayServer -----------------------------
(***************************************************************************)
(* The relay server (hbbr) of crates/mrsh-relay/src/relay.rs: it pairs two *)
(* TCP connections that present the same UUID and bridges them.            *)
(*                                                                         *)
(* Each accepted connection is served by its own task running serve_one;   *)
(* pc[c] is that task's place.  The tasks share the waiting room (a map    *)
(* from UUID to the oneshot sender of the connection that came first), the *)
(* per-IP counters, the session semaphore and the active counter.  One     *)
(* action is one stretch of a task between two points where another task   *)
(* can run (an await, or the release of the waiting-room lock).            *)
(***************************************************************************)
EXTENDS Integers, FiniteSets

CONSTANTS
  Conns,        \* connections that may reach the listener, each at most once
  Uuids,        \* non-empty relay UUIDs
  Ips,          \* peer addresses
  NoConn,       \* "no connection": an absent entry, an absent partner
  NoUuid,       \* the uuid of a connection that has not sent its handshake
  IpOf,         \* IpOf[c] is the address connection c comes from
  MaxPerIp,     \* RelayLimits::max_per_ip
  MaxWaiting,   \* RelayLimits::max_waiting
  MaxSessions   \* RelayLimits::max_sessions

ASSUME ConnsAssumption ==
  /\ IsFiniteSet(Conns)
  /\ NoConn \notin Conns
  /\ NoUuid \notin Uuids
  /\ IpOf \in [Conns -> Ips]

ASSUME LimitsAssumption ==
  /\ MaxPerIp \in Nat
  /\ MaxWaiting \in Nat
  /\ MaxSessions \in Nat

VARIABLES
  pc,        \* place of each connection's task
  uuid,      \* the UUID each connection asked for
  waiting,   \* the waiting room: UUID -> the connection whose sender is stored
  partner,   \* the connection whose stream was put into c's oneshot channel
  carrying,  \* for a task about to call sender.send: the receiver's connection
  stream,    \* the server's end of each TCP stream
  copies,    \* the running copy tasks of c's bridge: subset of {"fwd", "rev"}
  hungup,    \* connections whose client closed its end
  ipCount,   \* IpTracker::counts, absent entries being 0
  permits,   \* permits left in session_semaphore
  active,    \* the active counter that stats() reports
  total      \* the sessions started since the server came up

relayVars == <<pc, uuid, waiting, partner, carrying, stream, copies, hungup,
               ipCount, permits, active, total>>

(***************************************************************************)
(* "idle"       not accepted yet                                           *)
(* "handshake"  reading the framed RequestRelay                            *)
(* "wait"       sender stored in the waiting room, awaiting the receiver   *)
(* "cleanup"    receiver dropped, about to lock the waiting room           *)
(* "send"       holds another connection's sender, about to send           *)
(* "permit"     received its partner's stream, about to take a permit      *)
(* "bridge"     both copy tasks spawned, joined under the session timeout  *)
(* "end"        serve_one returned and the per-IP slot was released        *)
(***************************************************************************)
Places == {"idle", "handshake", "wait", "cleanup", "send", "permit", "bridge",
           "end"}

\* Tasks between try_acquire and release of their per-IP slot.
Serving(c) == pc[c] \in Places \ {"idle", "end"}

RelayInit ==
  /\ pc = [c \in Conns |-> "idle"]
  /\ uuid = [c \in Conns |-> NoUuid]
  /\ waiting = [u \in Uuids |-> NoConn]
  /\ partner = [c \in Conns |-> NoConn]
  /\ carrying = [c \in Conns |-> NoConn]
  /\ stream = [c \in Conns |-> "none"]
  /\ copies = [c \in Conns |-> {}]
  /\ hungup = {}
  /\ ipCount = [i \in Ips |-> 0]
  /\ permits = MaxSessions
  /\ active = 0
  /\ total = 0

(***************************************************************************)
(* The accept loop: IpTracker::try_acquire, then spawn, else drop.         *)
(***************************************************************************)
try_acquire(ip) ==
  /\ ipCount[ip] < MaxPerIp
  /\ ipCount' = [ipCount EXCEPT ![ip] = @ + 1]

\* saturating_sub: the counter never goes below zero.
release(ip) ==
  ipCount' = [ipCount EXCEPT ![ip] = IF @ = 0 THEN 0 ELSE @ - 1]

Accept(c) ==
  /\ pc[c] = "idle"
  /\ try_acquire(IpOf[c])
  /\ pc' = [pc EXCEPT ![c] = "handshake"]
  /\ stream' = [stream EXCEPT ![c] = "open"]
  /\ UNCHANGED <<uuid, waiting, partner, carrying, copies, hungup, permits,
                 active, total>>

Refuse(c) ==
  /\ pc[c] = "idle"
  /\ ipCount[IpOf[c]] >= MaxPerIp
  /\ pc' = [pc EXCEPT ![c] = "end"]
  /\ stream' = [stream EXCEPT ![c] = "closed"]
  /\ UNCHANGED <<uuid, waiting, partner, carrying, copies, hungup, ipCount,
                 permits, active, total>>

(***************************************************************************)
(* serve_one.                                                              *)
(***************************************************************************)

\* Mutant: the per-IP slot is not released on the early returns.
LeaveKeepingSlot(c) ==
  /\ pc' = [pc EXCEPT ![c] = "end"]
  /\ stream' = [stream EXCEPT ![c] = "closed"]
  /\ UNCHANGED ipCount

\* serve_one returns without passing c's stream on, and the slot is released.
Leave(c) ==
  /\ pc' = [pc EXCEPT ![c] = "end"]
  /\ stream' = [stream EXCEPT ![c] = "closed"]
  /\ release(IpOf[c])

\* Timeout, undecodable frame, other message, empty UUID or wrong key: bail.
BadHandshake(c) ==
  /\ pc[c] = "handshake"
  /\ Leave(c)
  /\ UNCHANGED <<uuid, waiting, partner, carrying, copies, hungup, permits,
                 active, total>>

\* Mutant: any waiting connection is taken, not the one with the same UUID.
TakeAnyWaiter(c, u) ==
  /\ pc[c] = "handshake"
  /\ \E v \in Uuids :
       /\ waiting[v] # NoConn
       /\ carrying' = [carrying EXCEPT ![c] = waiting[v]]
       /\ waiting' = [waiting EXCEPT ![v] = NoConn]
  /\ uuid' = [uuid EXCEPT ![c] = u]
  /\ pc' = [pc EXCEPT ![c] = "send"]
  /\ UNCHANGED <<partner, stream, copies, hungup, ipCount, permits, active,
                 total>>

\* A sender is stored for the UUID: take it out, unlock, and go on to send.
TakeWaiter(c, u) ==
  /\ pc[c] = "handshake"
  /\ waiting[u] # NoConn
  /\ uuid' = [uuid EXCEPT ![c] = u]
  /\ carrying' = [carrying EXCEPT ![c] = waiting[u]]
  /\ waiting' = [waiting EXCEPT ![u] = NoConn]
  /\ pc' = [pc EXCEPT ![c] = "send"]
  /\ UNCHANGED <<partner, stream, copies, hungup, ipCount, permits, active, total>>

WaitingRoom == {u \in Uuids : waiting[u] # NoConn}

RoomFull(c, u) ==
  /\ pc[c] = "handshake"
  /\ waiting[u] = NoConn
  /\ Cardinality(WaitingRoom) >= MaxWaiting
  /\ Leave(c)
  /\ UNCHANGED <<uuid, waiting, partner, carrying, copies, hungup, permits, active, total>>

EnterRoom(c, u) ==
  /\ pc[c] = "handshake"
  /\ waiting[u] = NoConn
  /\ Cardinality(WaitingRoom) < MaxWaiting
  /\ uuid' = [uuid EXCEPT ![c] = u]
  /\ waiting' = [waiting EXCEPT ![u] = c]
  /\ pc' = [pc EXCEPT ![c] = "wait"]
  /\ UNCHANGED <<partner, carrying, stream, copies, hungup, ipCount, permits,
                 active, total>>

\* Mutant: the receiver is assumed to be there.
DeliverUnchecked(c) ==
  /\ pc[c] = "send"
  /\ partner' = [partner EXCEPT ![carrying[c]] = c]
  /\ pc' = [pc EXCEPT ![c] = "end", ![carrying[c]] = "permit"]
  /\ carrying' = [carrying EXCEPT ![c] = NoConn]
  /\ release(IpOf[c])
  /\ UNCHANGED <<uuid, waiting, stream, copies, hungup, permits, active, total>>

(***************************************************************************)
(* sender.send(stream): the receiver is still there and takes the stream,  *)
(* or it was dropped by a timeout and the stream is dropped with it.       *)
(* Either way the sending task returns and releases its per-IP slot.       *)
(***************************************************************************)
Deliver(c) ==
  /\ pc[c] = "send"
  /\ LET d == carrying[c] IN
       /\ \/ /\ pc[d] = "wait"
             /\ partner' = [partner EXCEPT ![d] = c]
             /\ pc' = [pc EXCEPT ![c] = "end", ![d] = "permit"]
             /\ UNCHANGED stream
          \/ /\ pc[d] # "wait"
             /\ pc' = [pc EXCEPT ![c] = "end"]
             /\ stream' = [stream EXCEPT ![c] = "closed"]
             /\ UNCHANGED partner
       /\ carrying' = [carrying EXCEPT ![c] = NoConn]
       /\ release(IpOf[c])
       /\ UNCHANGED <<uuid, waiting, copies, hungup, permits, active, total>>

\* c's sender is alive: in the waiting room, or in the hands of a task.
SenderAlive(c) ==
  \/ \E u \in Uuids : waiting[u] = c
  \/ \E d \in Conns : carrying[d] = c

\* PAIRING_TIMEOUT elapses; the receiver is dropped.
PairingTimeout(c) ==
  /\ pc[c] = "wait"
  /\ SenderAlive(c)
  /\ pc' = [pc EXCEPT ![c] = "cleanup"]
  /\ UNCHANGED <<uuid, waiting, partner, carrying, stream, copies, hungup,
                 ipCount, permits, active, total>>

\* The receiver resolves to an error because c's sender was dropped.
ChannelDropped(c) ==
  /\ pc[c] = "wait"
  /\ ~SenderAlive(c)
  /\ pc' = [pc EXCEPT ![c] = "cleanup"]
  /\ UNCHANGED <<uuid, waiting, partner, carrying, stream, copies, hungup,
                 ipCount, permits, active, total>>

\* Mutant: a timed-out task leaves its entry in the waiting room.
CleanupKeepingEntry(c) ==
  /\ pc[c] = "cleanup"
  /\ Leave(c)
  /\ UNCHANGED <<uuid, waiting, partner, carrying, copies, hungup, permits,
                 active, total>>

\* waiting.lock().await.remove(&uuid): whatever is stored there now goes.
RoomCleanup(c) ==
  /\ pc[c] = "cleanup"
  /\ waiting' = [waiting EXCEPT ![uuid[c]] = NoConn]
  /\ Leave(c)
  /\ UNCHANGED <<uuid, partner, carrying, copies, hungup, permits, active, total>>

\* try_acquire_owned succeeds: count the session and spawn the copy tasks.
StartBridge(c) ==
  /\ pc[c] = "permit"
  /\ permits > 0
  /\ permits' = permits - 1
  /\ active' = active + 1
  /\ total' = total + 1
  /\ copies' = [copies EXCEPT ![c] = {"fwd", "rev"}]
  /\ pc' = [pc EXCEPT ![c] = "bridge"]
  /\ UNCHANGED <<uuid, waiting, partner, carrying, stream, hungup, ipCount>>

\* No permit left: bail, dropping both streams.
NoPermit(c) ==
  /\ pc[c] = "permit"
  /\ permits = 0
  /\ pc' = [pc EXCEPT ![c] = "end"]
  /\ stream' = [stream EXCEPT ![c] = "closed", ![partner[c]] = "closed"]
  /\ release(IpOf[c])
  /\ UNCHANGED <<uuid, waiting, partner, carrying, copies, hungup, permits,
                 active, total>>

\* A copy task ends: its reader saw end-of-file, or a write to a closed peer
\* failed.  The streams close when the last task that shares them is gone.
CopyEnds(c, t) ==
  /\ t \in copies[c]
  /\ {c, partner[c]} \cap hungup # {}
  /\ copies' = [copies EXCEPT ![c] = @ \ {t}]
  /\ stream' = IF copies[c] = {t}
               THEN [stream EXCEPT ![c] = "closed", ![partner[c]] = "closed"]
               ELSE stream
  /\ UNCHANGED <<pc, uuid, waiting, partner, carrying, hungup, ipCount,
                 permits, active, total>>

\* active.fetch_sub, the permit is dropped, serve_one returns.
EndSession(c) ==
  /\ pc' = [pc EXCEPT ![c] = "end"]
  /\ active' = active - 1
  /\ permits' = permits + 1
  /\ release(IpOf[c])
  /\ UNCHANGED <<uuid, waiting, partner, carrying, stream, copies, hungup, total>>

\* Both copy tasks were joined.
BridgeDone(c) ==
  /\ pc[c] = "bridge"
  /\ copies[c] = {}
  /\ EndSession(c)

\* Mutant: the bridge is awaited without a timeout.
SessionTimeoutNever(c) == FALSE /\ EndSession(c)

\* session_timeout elapses: the join future and with it the two JoinHandles
\* are dropped, which detaches the copy tasks and does not abort them.
SessionTimeout(c) ==
  /\ pc[c] = "bridge"
  /\ copies[c] # {}
  /\ EndSession(c)

\* Environment: the client at the other end of c closes its socket.
Hangup(c) ==
  /\ stream[c] = "open"
  /\ c \notin hungup
  /\ hungup' = hungup \cup {c}
  /\ UNCHANGED <<pc, uuid, waiting, partner, carrying, stream, copies,
                 ipCount, permits, active, total>>

Serve(c) ==
  \/ BadHandshake(c)
  \/ \E u \in Uuids : TakeWaiter(c, u) \/ RoomFull(c, u) \/ EnterRoom(c, u)
  \/ Deliver(c)
  \/ PairingTimeout(c)
  \/ ChannelDropped(c)
  \/ RoomCleanup(c)
  \/ StartBridge(c)
  \/ NoPermit(c)
  \/ BridgeDone(c)
  \/ SessionTimeout(c)

RelayNext ==
  \E c \in Conns :
    \/ Accept(c)
    \/ Refuse(c)
    \/ Serve(c)
    \/ \E t \in {"fwd", "rev"} : CopyEnds(c, t)
    \/ Hangup(c)

RelaySpec == RelayInit /\ [][RelayNext]_relayVars

(***************************************************************************)
(* Fairness: the runtime polls a ready task, its timers fire, and a copy   *)
(* task whose two clients have both gone ends.  Nothing is assumed of the  *)
(* clients: they need not connect, send or hang up.                        *)
(***************************************************************************)
RelayFairness ==
  \A c \in Conns :
    /\ WF_relayVars(Serve(c))
    /\ \A t \in {"fwd", "rev"} :
         WF_relayVars(CopyEnds(c, t) /\ {c, partner[c]} \subseteq hungup)

RelayFairSpec == RelaySpec /\ RelayFairness

-----------------------------------------------------------------------------
(***************************************************************************)
(* Properties.                                                             *)
(***************************************************************************)

\* Type correctness of the relay's state (relay.rs, RelayServer and the
\* locals of serve_one).
RelayTypeOK ==
  /\ pc \in [Conns -> Places]
  /\ uuid \in [Conns -> Uuids \cup {NoUuid}]
  /\ waiting \in [Uuids -> Conns \cup {NoConn}]
  /\ partner \in [Conns -> Conns \cup {NoConn}]
  /\ carrying \in [Conns -> Conns \cup {NoConn}]
  /\ stream \in [Conns -> {"none", "open", "closed"}]
  /\ copies \in [Conns -> SUBSET {"fwd", "rev"}]
  /\ hungup \subseteq Conns
  /\ ipCount \in [Ips -> Nat]
  /\ permits \in Nat
  /\ active \in Int
  /\ total \in Nat

ServedFrom(i) == {c \in Conns : Serving(c) /\ IpOf[c] = i}

Driving == {c \in Conns : pc[c] = "bridge"}

\* The per-IP counter counts exactly the tasks being served from that
\* address, however each of them leaves serve_one (bail, delivery, timeout,
\* end of the bridge): no slot is leaked and none is given back twice.
SlotAccounting ==
  \A i \in Ips :
    /\ ipCount[i] = Cardinality(ServedFrom(i))
    /\ ipCount[i] <= MaxPerIp

\* The active counter and the semaphore agree on the sessions being driven,
\* so the session limit is neither exceeded nor eroded by failed sessions.
SessionAccounting ==
  /\ active = Cardinality(Driving)
  /\ permits + active = MaxSessions

\* No entry of the waiting room outlives its task: an entry's owner asked for
\* that UUID and is still waiting or about to clean up, although any task may
\* remove any entry of its UUID; and the room never exceeds its limit.
RoomSound ==
  /\ \A u \in Uuids :
       waiting[u] # NoConn =>
         /\ uuid[waiting[u]] = u
         /\ pc[waiting[u]] \in {"wait", "cleanup"}
  /\ Cardinality(WaitingRoom) <= MaxWaiting

\* What the relay counts is true: per-IP slots and sessions.
CountersAddUp == SlotAccounting /\ SessionAccounting

\* Two streams are bridged only if both asked for the same UUID, no stream is
\* handed to two tasks, and a handed-over stream drives no bridge itself:
\* timeouts, stale senders and repeated UUIDs cannot cross two tunnels.
NoCrossedTunnels ==
  \A c \in Conns :
    partner[c] # NoConn =>
      /\ partner[c] # c
      /\ uuid[partner[c]] = uuid[c]
      /\ uuid[c] # NoUuid
      /\ \A d \in Conns : partner[d] = partner[c] => d = c
      /\ partner[partner[c]] = NoConn
      /\ pc[partner[c]] = "end"

\* Whatever the clients do, the relay comes to rest: every accepted
\* connection's task ends and gives its slot back, none waits for ever on a
\* peer, a channel or a permit, and a bridge whose two clients have gone is
\* closed, even if the session timeout has detached its copy tasks before.
ComesToRest ==
  <>[](\A c \in Conns :
         /\ ~Serving(c)
         /\ copies[c] # {} => ~({c, partner[c]} \subseteq hungup))

Bridged == {<<c, partner[c]>> : c \in {d \in Conns : partner[d] # NoConn}}

Closed == {c \in Conns : stream[c] = "closed"}

\* The relay implements the abstract pairing service.
Pairing == INSTANCE RelayPairing WITH
  ask   <- uuid,
  pairs <- Bridged,
  gone  <- Closed

\* Every behaviour of the relay, its races on the waiting room included, is a
\* behaviour of the abstract pairing service of module RelayPairing.
PairingSpec == Pairing!Spec
=============================================================================
