----------------------------- MODULE RelayProofs -----------------------------
(***************************************************************************)
(* Theorems about the two servers of mrsh-relay, each for itself: the      *)
(* relay server, for every number of connections and every value of the    *)
(* limits; then the rendezvous server and the registration loop of a       *)
(* device, for any number of devices, requests, connections and boots.     *)
(***************************************************************************)
EXTENDS RelayServer, Rendezvous, FiniteSetTheorems, TLAPS

(***************************************************************************)
(* The inductive invariant.  The properties of RelayServer talk of what a  *)
(* task holds; what makes them inductive is where a sender can be: in the  *)
(* waiting room under its owner's UUID or in the hands of exactly one      *)
(* task, and its owner has then not moved past the cleanup.                *)
(***************************************************************************)
\* What a task's place says of its UUID, of its partner and of its stream.
PlaceInv ==
  \A c \in Conns :
    /\ pc[c] \in {"idle", "handshake"} => uuid[c] = NoUuid
    /\ pc[c] \in {"wait", "cleanup", "send", "permit", "bridge"} => uuid[c] \in Uuids
    /\ pc[c] \in {"idle", "handshake", "wait", "cleanup", "send"} => partner[c] = NoConn
    /\ pc[c] \in {"permit", "bridge"} => partner[c] \in Conns
    /\ copies[c] # {} => partner[c] \in Conns
    /\ pc[c] = "permit" => copies[c] = {}

\* Where senders are: at most one copy of each, and whose they are.
SenderInv ==
  /\ \A u \in Uuids :
       waiting[u] # NoConn =>
         /\ uuid[waiting[u]] = u
         /\ pc[waiting[u]] \in {"wait", "cleanup"}
  /\ \A c \in Conns :
       /\ pc[c] # "send" => carrying[c] = NoConn
       /\ pc[c] = "send" =>
            /\ carrying[c] \in Conns
            /\ carrying[c] # c
            /\ uuid[carrying[c]] = uuid[c]
            /\ pc[carrying[c]] \in {"wait", "cleanup", "end"}
            /\ \A u \in Uuids : waiting[u] # carrying[c]
            /\ \A d \in Conns : carrying[d] = carrying[c] => d = c

\* The server's end of a stream: open while a task or a bridge uses it.
StreamInv ==
  \A c \in Conns :
    /\ pc[c] = "idle" => stream[c] = "none"
    /\ Serving(c) /\ pc[c] # "bridge" => stream[c] = "open"
    /\ copies[c] # {} => stream[c] = "open"
    /\ partner[c] # NoConn => stream[c] = stream[partner[c]]

PairInv == RelayTypeOK /\ PlaceInv /\ SenderInv /\ StreamInv /\ NoCrossedTunnels

LEMMA PairInit == RelayInit => PairInv
  BY LimitsAssumption, ConnsAssumption
  DEF RelayInit, PairInv, RelayTypeOK, PlaceInv, SenderInv, StreamInv, NoCrossedTunnels,
      Places, Serving

LEMMA PairStep == PairInv /\ [RelayNext]_relayVars => PairInv'
  <1> SUFFICES ASSUME PairInv, [RelayNext]_relayVars PROVE PairInv'
    OBVIOUS
  <1> USE ConnsAssumption DEF PairInv, RelayTypeOK, Places
  <1>1. ASSUME NEW c \in Conns, Accept(c)
       PROVE PairInv'
    <2>1. RelayTypeOK'
      BY <1>1 DEF Accept, try_acquire, PlaceInv, SenderInv
    <2>2. PlaceInv'
      BY <1>1, <2>1 DEF Accept, try_acquire, PlaceInv, SenderInv
    <2>3. SenderInv'
      BY <1>1, <2>1 DEF Accept, try_acquire, PlaceInv, SenderInv
    <2>4. StreamInv'
      BY <1>1, <2>1 DEF Accept, try_acquire, PlaceInv, SenderInv, StreamInv, NoCrossedTunnels, Serving
    <2>5. NoCrossedTunnels'
      BY <1>1, <2>1 DEF Accept, try_acquire, PlaceInv, SenderInv, NoCrossedTunnels
    <2> QED
      BY <2>1, <2>2, <2>3, <2>4, <2>5 DEF PairInv
  <1>2. ASSUME NEW c \in Conns, Refuse(c)
       PROVE PairInv'
    <2>1. RelayTypeOK'
      BY <1>2 DEF Refuse, PlaceInv, SenderInv
    <2>2. PlaceInv'
      BY <1>2, <2>1 DEF Refuse, PlaceInv, SenderInv
    <2>3. SenderInv'
      BY <1>2, <2>1 DEF Refuse, PlaceInv, SenderInv
    <2>4. StreamInv'
      BY <1>2, <2>1 DEF Refuse, PlaceInv, SenderInv, StreamInv, NoCrossedTunnels, Serving
    <2>5. NoCrossedTunnels'
      BY <1>2, <2>1 DEF Refuse, PlaceInv, SenderInv, NoCrossedTunnels
    <2> QED
      BY <2>1, <2>2, <2>3, <2>4, <2>5 DEF PairInv
  <1>3. ASSUME NEW c \in Conns, BadHandshake(c)
       PROVE PairInv'
    <2>1. RelayTypeOK'
      BY <1>3 DEF BadHandshake, Leave, release, PlaceInv, SenderInv
    <2>2. PlaceInv'
      BY <1>3, <2>1 DEF BadHandshake, Leave, release, PlaceInv, SenderInv
    <2>3. SenderInv'
      BY <1>3, <2>1 DEF BadHandshake, Leave, release, PlaceInv, SenderInv
    <2>4. StreamInv'
      BY <1>3, <2>1 DEF BadHandshake, Leave, release, PlaceInv, SenderInv, StreamInv, NoCrossedTunnels, Serving
    <2>5. NoCrossedTunnels'
      BY <1>3, <2>1 DEF BadHandshake, Leave, release, PlaceInv, SenderInv, NoCrossedTunnels
    <2> QED
      BY <2>1, <2>2, <2>3, <2>4, <2>5 DEF PairInv
  <1>4. ASSUME NEW c \in Conns, NEW u \in Uuids, TakeWaiter(c, u)
       PROVE PairInv'
    <2>1. RelayTypeOK'
      BY <1>4 DEF TakeWaiter, PlaceInv, SenderInv
    <2>2. PlaceInv'
      BY <1>4, <2>1 DEF TakeWaiter, PlaceInv, SenderInv
    <2>3. SenderInv'
      BY <1>4, <2>1 DEF TakeWaiter, PlaceInv, SenderInv
    <2>4. StreamInv'
      BY <1>4, <2>1 DEF TakeWaiter, PlaceInv, SenderInv, StreamInv, NoCrossedTunnels, Serving
    <2>5. NoCrossedTunnels'
      BY <1>4, <2>1 DEF TakeWaiter, PlaceInv, SenderInv, NoCrossedTunnels
    <2> QED
      BY <2>1, <2>2, <2>3, <2>4, <2>5 DEF PairInv
  <1>5. ASSUME NEW c \in Conns, NEW u \in Uuids, RoomFull(c, u)
       PROVE PairInv'
    <2>1. RelayTypeOK'
      BY <1>5 DEF RoomFull, Leave, release, PlaceInv, SenderInv
    <2>2. PlaceInv'
      BY <1>5, <2>1 DEF RoomFull, Leave, release, PlaceInv, SenderInv
    <2>3. SenderInv'
      BY <1>5, <2>1 DEF RoomFull, Leave, release, PlaceInv, SenderInv
    <2>4. StreamInv'
      BY <1>5, <2>1 DEF RoomFull, Leave, release, PlaceInv, SenderInv, StreamInv, NoCrossedTunnels, Serving
    <2>5. NoCrossedTunnels'
      BY <1>5, <2>1 DEF RoomFull, Leave, release, PlaceInv, SenderInv, NoCrossedTunnels
    <2> QED
      BY <2>1, <2>2, <2>3, <2>4, <2>5 DEF PairInv
  <1>6. ASSUME NEW c \in Conns, NEW u \in Uuids, EnterRoom(c, u)
       PROVE PairInv'
    <2>1. RelayTypeOK'
      BY <1>6 DEF EnterRoom, PlaceInv, SenderInv
    <2>2. PlaceInv'
      BY <1>6, <2>1 DEF EnterRoom, PlaceInv, SenderInv
    <2>3. SenderInv'
      BY <1>6, <2>1 DEF EnterRoom, PlaceInv, SenderInv
    <2>4. StreamInv'
      BY <1>6, <2>1 DEF EnterRoom, PlaceInv, SenderInv, StreamInv, NoCrossedTunnels, Serving
    <2>5. NoCrossedTunnels'
      BY <1>6, <2>1 DEF EnterRoom, PlaceInv, SenderInv, NoCrossedTunnels
    <2> QED
      BY <2>1, <2>2, <2>3, <2>4, <2>5 DEF PairInv
  <1>7. ASSUME NEW c \in Conns, Deliver(c)
       PROVE PairInv'
    <2>1. RelayTypeOK'
      BY <1>7, SMTT(30) DEF Deliver, release, PlaceInv, SenderInv
    <2>2. PlaceInv'
      BY <1>7, <2>1 DEF Deliver, release, PlaceInv, SenderInv
    <2>3. SenderInv'
      BY <1>7, <2>1 DEF Deliver, release, PlaceInv, SenderInv
    <2>4. StreamInv'
      BY <1>7, <2>1 DEF Deliver, release, PlaceInv, SenderInv, StreamInv, NoCrossedTunnels, Serving
    <2>5. NoCrossedTunnels'
      BY <1>7, <2>1 DEF Deliver, release, PlaceInv, SenderInv, NoCrossedTunnels
    <2> QED
      BY <2>1, <2>2, <2>3, <2>4, <2>5 DEF PairInv
  <1>8. ASSUME NEW c \in Conns, PairingTimeout(c)
       PROVE PairInv'
    <2>1. RelayTypeOK'
      BY <1>8 DEF PairingTimeout, PlaceInv, SenderInv
    <2>2. PlaceInv'
      BY <1>8, <2>1 DEF PairingTimeout, PlaceInv, SenderInv
    <2>3. SenderInv'
      BY <1>8, <2>1 DEF PairingTimeout, PlaceInv, SenderInv
    <2>4. StreamInv'
      BY <1>8, <2>1 DEF PairingTimeout, PlaceInv, SenderInv, StreamInv, NoCrossedTunnels, Serving
    <2>5. NoCrossedTunnels'
      BY <1>8, <2>1 DEF PairingTimeout, PlaceInv, SenderInv, NoCrossedTunnels
    <2> QED
      BY <2>1, <2>2, <2>3, <2>4, <2>5 DEF PairInv
  <1>9. ASSUME NEW c \in Conns, ChannelDropped(c)
       PROVE PairInv'
    <2>1. RelayTypeOK'
      BY <1>9 DEF ChannelDropped, PlaceInv, SenderInv
    <2>2. PlaceInv'
      BY <1>9, <2>1 DEF ChannelDropped, PlaceInv, SenderInv
    <2>3. SenderInv'
      BY <1>9, <2>1 DEF ChannelDropped, PlaceInv, SenderInv
    <2>4. StreamInv'
      BY <1>9, <2>1 DEF ChannelDropped, PlaceInv, SenderInv, StreamInv, NoCrossedTunnels, Serving
    <2>5. NoCrossedTunnels'
      BY <1>9, <2>1 DEF ChannelDropped, PlaceInv, SenderInv, NoCrossedTunnels
    <2> QED
      BY <2>1, <2>2, <2>3, <2>4, <2>5 DEF PairInv
  <1>10. ASSUME NEW c \in Conns, RoomCleanup(c)
       PROVE PairInv'
    <2>1. RelayTypeOK'
      BY <1>10 DEF RoomCleanup, Leave, release, PlaceInv, SenderInv
    <2>2. PlaceInv'
      BY <1>10, <2>1 DEF RoomCleanup, Leave, release, PlaceInv, SenderInv
    <2>3. SenderInv'
      BY <1>10, <2>1 DEF RoomCleanup, Leave, release, PlaceInv, SenderInv
    <2>4. StreamInv'
      BY <1>10, <2>1 DEF RoomCleanup, Leave, release, PlaceInv, SenderInv, StreamInv, NoCrossedTunnels, Serving
    <2>5. NoCrossedTunnels'
      BY <1>10, <2>1 DEF RoomCleanup, Leave, release, PlaceInv, SenderInv, NoCrossedTunnels
    <2> QED
      BY <2>1, <2>2, <2>3, <2>4, <2>5 DEF PairInv
  <1>11. ASSUME NEW c \in Conns, StartBridge(c)
       PROVE PairInv'
    <2>1. RelayTypeOK'
      BY <1>11 DEF StartBridge, PlaceInv, SenderInv
    <2>2. PlaceInv'
      BY <1>11, <2>1 DEF StartBridge, PlaceInv, SenderInv
    <2>3. SenderInv'
      BY <1>11, <2>1 DEF StartBridge, PlaceInv, SenderInv
    <2>4. StreamInv'
      BY <1>11, <2>1 DEF StartBridge, PlaceInv, SenderInv, StreamInv, NoCrossedTunnels, Serving
    <2>5. NoCrossedTunnels'
      BY <1>11, <2>1 DEF StartBridge, PlaceInv, SenderInv, NoCrossedTunnels
    <2> QED
      BY <2>1, <2>2, <2>3, <2>4, <2>5 DEF PairInv
  <1>12. ASSUME NEW c \in Conns, NoPermit(c)
       PROVE PairInv'
    <2>1. RelayTypeOK'
      BY <1>12 DEF NoPermit, release, PlaceInv, SenderInv
    <2>2. PlaceInv'
      BY <1>12, <2>1 DEF NoPermit, release, PlaceInv, SenderInv
    <2>3. SenderInv'
      BY <1>12, <2>1 DEF NoPermit, release, PlaceInv, SenderInv
    <2>4. StreamInv'
      BY <1>12, <2>1 DEF NoPermit, release, PlaceInv, SenderInv, StreamInv, NoCrossedTunnels, Serving
    <2>5. NoCrossedTunnels'
      BY <1>12, <2>1 DEF NoPermit, release, PlaceInv, SenderInv, NoCrossedTunnels
    <2> QED
      BY <2>1, <2>2, <2>3, <2>4, <2>5 DEF PairInv
  <1>13. ASSUME NEW c \in Conns, NEW t \in {"fwd", "rev"}, CopyEnds(c, t)
       PROVE PairInv'
    <2>1. RelayTypeOK'
      BY <1>13 DEF CopyEnds, PlaceInv, SenderInv
    <2>2. PlaceInv'
      BY <1>13, <2>1 DEF CopyEnds, PlaceInv, SenderInv
    <2>3. SenderInv'
      BY <1>13, <2>1 DEF CopyEnds, PlaceInv, SenderInv
    <2>4. StreamInv'
      BY <1>13, <2>1 DEF CopyEnds, PlaceInv, SenderInv, StreamInv, NoCrossedTunnels, Serving
    <2>5. NoCrossedTunnels'
      BY <1>13, <2>1 DEF CopyEnds, PlaceInv, SenderInv, NoCrossedTunnels
    <2> QED
      BY <2>1, <2>2, <2>3, <2>4, <2>5 DEF PairInv
  <1>14. ASSUME NEW c \in Conns, pc[c] = "bridge", EndSession(c)
       PROVE PairInv'
    <2>1. RelayTypeOK'
      BY <1>14 DEF EndSession, release, PlaceInv, SenderInv
    <2>2. PlaceInv'
      BY <1>14, <2>1 DEF EndSession, release, PlaceInv, SenderInv
    <2>3. SenderInv'
      BY <1>14, <2>1 DEF EndSession, release, PlaceInv, SenderInv
    <2>4. StreamInv'
      BY <1>14, <2>1 DEF EndSession, release, PlaceInv, SenderInv, StreamInv, NoCrossedTunnels, Serving
    <2>5. NoCrossedTunnels'
      BY <1>14, <2>1 DEF EndSession, release, PlaceInv, SenderInv, NoCrossedTunnels
    <2> QED
      BY <2>1, <2>2, <2>3, <2>4, <2>5 DEF PairInv
  <1>15. ASSUME NEW c \in Conns, Hangup(c)
       PROVE PairInv'
    <2>1. RelayTypeOK'
      BY <1>15 DEF Hangup, PlaceInv, SenderInv
    <2>2. PlaceInv'
      BY <1>15, <2>1 DEF Hangup, PlaceInv, SenderInv
    <2>3. SenderInv'
      BY <1>15, <2>1 DEF Hangup, PlaceInv, SenderInv
    <2>4. StreamInv'
      BY <1>15, <2>1 DEF Hangup, PlaceInv, SenderInv, StreamInv, NoCrossedTunnels, Serving
    <2>5. NoCrossedTunnels'
      BY <1>15, <2>1 DEF Hangup, PlaceInv, SenderInv, NoCrossedTunnels
    <2> QED
      BY <2>1, <2>2, <2>3, <2>4, <2>5 DEF PairInv
  <1>16. CASE UNCHANGED relayVars
    BY <1>16 DEF relayVars, PlaceInv, SenderInv, StreamInv, NoCrossedTunnels, Serving
  <1> QED
    BY <1>1, <1>2, <1>3, <1>4, <1>5, <1>6, <1>7, <1>8, <1>9, <1>10, <1>11, <1>12, <1>13, <1>14, <1>15, <1>16
    DEF RelayNext, Serve, BridgeDone, SessionTimeout

LEMMA PairInvariant == RelaySpec => []PairInv
  BY PairInit, PairStep, PTL DEF RelaySpec

\* The state of the relay always has its type: in particular the number of
\* free permits and the counters never go below zero.
THEOREM RelayTypeCorrect == RelaySpec => []RelayTypeOK
  BY PairInvariant, PTL DEF PairInv

\* Whatever the interleaving of arrivals, timeouts and cleanups, no tunnel
\* joins two UUIDs and no stream is in two tunnels.
THEOREM TunnelsNeverCross == RelaySpec => []NoCrossedTunnels
  BY PairInvariant, PTL DEF PairInv

-----------------------------------------------------------------------------
(***************************************************************************)
(* Counting.  A task enters a counted set or leaves it one at a time, and  *)
(* the counter moves with it.                                              *)
(***************************************************************************)
LEMMA OneMore ==
  ASSUME NEW S, IsFiniteSet(S), NEW x, x \notin S
  PROVE  IsFiniteSet(S \cup {x}) /\ Cardinality(S \cup {x}) = Cardinality(S) + 1
  BY FS_AddElement

LEMMA OneLess ==
  ASSUME NEW S, IsFiniteSet(S), NEW x \in S
  PROVE  IsFiniteSet(S \ {x}) /\ Cardinality(S \ {x}) = Cardinality(S) - 1
  BY FS_RemoveElement

LEMMA CountedSetsAreFinite ==
  /\ \A i \in Ips : IsFiniteSet(ServedFrom(i)) /\ Cardinality(ServedFrom(i)) \in Nat
  /\ IsFiniteSet(Driving) /\ Cardinality(Driving) \in Nat
  BY ConnsAssumption, FS_Subset, FS_CardinalityType DEF ServedFrom, Driving

CountInv == RelayTypeOK /\ SlotAccounting /\ SessionAccounting

LEMMA CountInit == RelayInit => CountInv
  <1> SUFFICES ASSUME RelayInit PROVE CountInv
    OBVIOUS
  <1>1. RelayTypeOK
    BY PairInit DEF PairInv
  <1>2. Driving = {} /\ \A i \in Ips : ServedFrom(i) = {}
    BY DEF RelayInit, Driving, ServedFrom, Serving
  <1>3. SlotAccounting
    BY <1>2, FS_EmptySet, LimitsAssumption DEF RelayInit, SlotAccounting
  <1>4. SessionAccounting
    BY <1>2, FS_EmptySet, LimitsAssumption DEF RelayInit, SessionAccounting
  <1> QED
    BY <1>1, <1>3, <1>4 DEF CountInv

\* A task that starts being served takes one slot of its address.
LEMMA SlotTaken ==
  ASSUME RelayTypeOK, SlotAccounting, NEW c \in Conns, pc[c] = "idle",
         pc' = [pc EXCEPT ![c] = "handshake"], try_acquire(IpOf[c])
  PROVE  SlotAccounting'
  <1> USE ConnsAssumption, LimitsAssumption DEF RelayTypeOK, Places
  <1>1. ASSUME NEW i \in Ips
        PROVE ipCount'[i] = Cardinality(ServedFrom(i)') /\ ipCount'[i] <= MaxPerIp
    <2>1. CASE i = IpOf[c]
      <3>1. c \notin ServedFrom(i) /\ ServedFrom(i)' = ServedFrom(i) \cup {c}
        BY <2>1 DEF ServedFrom, Serving
      <3>2. Cardinality(ServedFrom(i)') = Cardinality(ServedFrom(i)) + 1
        BY <3>1, OneMore, CountedSetsAreFinite
      <3> QED
        BY <2>1, <3>2 DEF SlotAccounting, try_acquire
    <2>2. CASE i # IpOf[c]
      <3>1. ServedFrom(i)' = ServedFrom(i)
        BY <2>2 DEF ServedFrom, Serving
      <3> QED
        BY <2>2, <3>1 DEF SlotAccounting, try_acquire
    <2> QED
      BY <2>1, <2>2
  <1> QED
    BY <1>1 DEF SlotAccounting

\* A task that ends gives one slot of its address back.
LEMMA SlotReturned ==
  ASSUME RelayTypeOK, SlotAccounting, NEW c \in Conns, Serving(c), ~Serving(c)',
         \A d \in Conns \ {c} : Serving(d)' <=> Serving(d), release(IpOf[c])
  PROVE  SlotAccounting'
  <1> USE ConnsAssumption, LimitsAssumption DEF RelayTypeOK
  <1>1. ASSUME NEW i \in Ips
        PROVE ipCount'[i] = Cardinality(ServedFrom(i)') /\ ipCount'[i] <= MaxPerIp
    <2>1. CASE i = IpOf[c]
      <3>1. c \in ServedFrom(i) /\ ServedFrom(i)' = ServedFrom(i) \ {c}
        BY <2>1 DEF ServedFrom
      <3>2. Cardinality(ServedFrom(i)') = Cardinality(ServedFrom(i)) - 1
        BY <3>1, OneLess, CountedSetsAreFinite
      <3>3. Cardinality(ServedFrom(i)) # 0
        BY <3>1, FS_EmptySet, CountedSetsAreFinite
      <3> QED
        BY <2>1, <3>2, <3>3 DEF SlotAccounting, release
    <2>2. CASE i # IpOf[c]
      <3>1. ServedFrom(i)' = ServedFrom(i)
        BY <2>2 DEF ServedFrom
      <3> QED
        BY <2>2, <3>1 DEF SlotAccounting, release
    <2> QED
      BY <2>1, <2>2
  <1> QED
    BY <1>1 DEF SlotAccounting

\* A step between two served places, or of no task at all, moves no slot.
LEMMA SlotKept ==
  ASSUME SlotAccounting, \A d \in Conns : Serving(d)' <=> Serving(d),
         UNCHANGED ipCount
  PROVE  SlotAccounting'
  <1>1. \A i \in Ips : ServedFrom(i)' = ServedFrom(i)
    BY DEF ServedFrom
  <1> QED
    BY <1>1 DEF SlotAccounting

LEMMA SessionKept ==
  ASSUME SessionAccounting, UNCHANGED <<permits, active>>,
         \A d \in Conns : pc'[d] = "bridge" <=> pc[d] = "bridge"
  PROVE  SessionAccounting'
  <1>1. Driving' = Driving
    BY DEF Driving
  <1> QED
    BY <1>1 DEF SessionAccounting

LEMMA SessionStarts ==
  ASSUME RelayTypeOK, SessionAccounting, NEW c \in Conns, StartBridge(c)
  PROVE  SessionAccounting'
  <1>1. c \notin Driving /\ Driving' = Driving \cup {c}
    BY DEF StartBridge, Driving, RelayTypeOK
  <1>2. Cardinality(Driving') = Cardinality(Driving) + 1
    BY <1>1, OneMore, CountedSetsAreFinite
  <1> QED
    BY <1>2, CountedSetsAreFinite, LimitsAssumption
    DEF StartBridge, SessionAccounting, RelayTypeOK

LEMMA SessionEnds ==
  ASSUME RelayTypeOK, SessionAccounting, NEW c \in Conns, pc[c] = "bridge",
         EndSession(c)
  PROVE  SessionAccounting'
  <1>1. c \in Driving /\ Driving' = Driving \ {c}
    BY DEF EndSession, Driving, RelayTypeOK
  <1>2. Cardinality(Driving') = Cardinality(Driving) - 1
    BY <1>1, OneLess, CountedSetsAreFinite
  <1> QED
    BY <1>2, CountedSetsAreFinite, LimitsAssumption
    DEF EndSession, SessionAccounting, RelayTypeOK

LEMMA CountStep == PairInv /\ CountInv /\ [RelayNext]_relayVars => CountInv'
  <1> SUFFICES ASSUME PairInv, CountInv, [RelayNext]_relayVars PROVE CountInv'
    OBVIOUS
  <1>0. RelayTypeOK'
    BY PairStep DEF PairInv
  <1> USE DEF CountInv, RelayTypeOK, Places
  <1>1. ASSUME NEW c \in Conns, Accept(c) PROVE SlotAccounting' /\ SessionAccounting'
    BY <1>1, SlotTaken, SessionKept DEF Accept
  <1>2. ASSUME NEW c \in Conns, Refuse(c) PROVE SlotAccounting' /\ SessionAccounting'
    BY <1>2, SlotKept, SessionKept DEF Refuse, Serving
  <1>3. ASSUME NEW c \in Conns, pc[c] \in {"handshake", "cleanup"}, Leave(c),
               UNCHANGED <<permits, active>>
        PROVE SlotAccounting' /\ SessionAccounting'
    BY <1>3, SlotReturned, SessionKept DEF Leave, Serving
  <1>4. ASSUME NEW c \in Conns, NEW u \in Uuids, TakeWaiter(c, u) \/ EnterRoom(c, u)
        PROVE SlotAccounting' /\ SessionAccounting'
    BY <1>4, SlotKept, SessionKept DEF TakeWaiter, EnterRoom, Serving
  <1>5. ASSUME NEW c \in Conns, Deliver(c) PROVE SlotAccounting' /\ SessionAccounting'
    <2>1. carrying[c] \in Conns /\ carrying[c] # c
      BY <1>5 DEF Deliver, PairInv, SenderInv
    <2> QED
      BY <1>5, <2>1, SlotReturned, SessionKept DEF Deliver, Serving
  <1>6. ASSUME NEW c \in Conns, PairingTimeout(c) \/ ChannelDropped(c)
        PROVE SlotAccounting' /\ SessionAccounting'
    BY <1>6, SlotKept, SessionKept DEF PairingTimeout, ChannelDropped, Serving
  <1>7. ASSUME NEW c \in Conns, StartBridge(c) PROVE SlotAccounting' /\ SessionAccounting'
    BY <1>7, SlotKept, SessionStarts DEF StartBridge, Serving
  <1>8. ASSUME NEW c \in Conns, NoPermit(c) PROVE SlotAccounting' /\ SessionAccounting'
    BY <1>8, SlotReturned, SessionKept DEF NoPermit, Serving
  <1>9. ASSUME NEW c \in Conns, NEW t \in {"fwd", "rev"}, CopyEnds(c, t)
        PROVE SlotAccounting' /\ SessionAccounting'
    BY <1>9, SlotKept, SessionKept DEF CopyEnds, Serving
  <1>10. ASSUME NEW c \in Conns, pc[c] = "bridge", EndSession(c)
         PROVE SlotAccounting' /\ SessionAccounting'
    BY <1>10, SlotReturned, SessionEnds DEF EndSession, Serving
  <1>11. ASSUME NEW c \in Conns, Hangup(c) PROVE SlotAccounting' /\ SessionAccounting'
    BY <1>11, SlotKept, SessionKept DEF Hangup, Serving
  <1>12. CASE UNCHANGED relayVars
    BY <1>12, SlotKept, SessionKept DEF relayVars, Serving
  <1> QED
    BY <1>0, <1>1, <1>2, <1>3, <1>4, <1>5, <1>6, <1>7, <1>8, <1>9, <1>10,
       <1>11, <1>12
    DEF RelayNext, Serve, BridgeDone, SessionTimeout, BadHandshake, RoomFull, RoomCleanup

LEMMA CountInvariant == RelaySpec => []CountInv
  BY CountInit, CountStep, PairInvariant, PTL DEF RelaySpec

\* No per-IP slot is ever leaked or given back twice, so the counter bounds
\* the tasks of an address by max_per_ip.
THEOREM SlotsAddUp == RelaySpec => []SlotAccounting
  BY CountInvariant, PTL DEF CountInv

\* The sessions being driven and the free permits always add up to
\* max_sessions, and stats() reports the former.
THEOREM SessionsAddUp == RelaySpec => []SessionAccounting
  BY CountInvariant, PTL DEF CountInv

\* What the relay counts is true: per-IP slots and sessions.
THEOREM CountersAlwaysAddUp == RelaySpec => []CountersAddUp
  BY SlotsAddUp, SessionsAddUp, PTL DEF CountersAddUp

RoomInv ==
  /\ IsFiniteSet(WaitingRoom)
  /\ Cardinality(WaitingRoom) \in Nat
  /\ Cardinality(WaitingRoom) <= MaxWaiting

LEMMA RoomInit == RelayInit => RoomInv
  <1>1. RelayInit => WaitingRoom = {}
    BY DEF RelayInit, WaitingRoom
  <1> QED
    BY <1>1, FS_EmptySet, LimitsAssumption DEF RoomInv

\* A step that only takes entries out keeps the room within its limit.
LEMMA RoomShrinks ==
  ASSUME RoomInv, WaitingRoom' \subseteq WaitingRoom
  PROVE  RoomInv'
  BY FS_Subset, FS_CardinalityType, LimitsAssumption DEF RoomInv

LEMMA RoomStep == RelayTypeOK /\ RoomInv /\ [RelayNext]_relayVars => RoomInv'
  <1> SUFFICES ASSUME RelayTypeOK, RoomInv, [RelayNext]_relayVars PROVE RoomInv'
    OBVIOUS
  <1>1. ASSUME UNCHANGED waiting PROVE RoomInv'
    BY <1>1, RoomShrinks DEF WaitingRoom
  <1>2. ASSUME NEW c \in Conns, NEW u \in Uuids, TakeWaiter(c, u) PROVE RoomInv'
    BY <1>2, RoomShrinks DEF TakeWaiter, WaitingRoom, RelayTypeOK
  <1>3. ASSUME NEW c \in Conns, RoomCleanup(c) PROVE RoomInv'
    BY <1>3, RoomShrinks DEF RoomCleanup, WaitingRoom, RelayTypeOK
  <1>4. ASSUME NEW c \in Conns, NEW u \in Uuids, EnterRoom(c, u) PROVE RoomInv'
    <2>1. u \notin WaitingRoom /\ WaitingRoom' = WaitingRoom \cup {u}
      BY <1>4, ConnsAssumption DEF EnterRoom, WaitingRoom, RelayTypeOK
    <2>2. IsFiniteSet(WaitingRoom') /\ Cardinality(WaitingRoom') = Cardinality(WaitingRoom) + 1
      BY <2>1, OneMore DEF RoomInv
    <2> QED
      BY <1>4, <2>2, LimitsAssumption DEF EnterRoom, RoomInv
  <1> QED
    BY <1>1, <1>2, <1>3, <1>4
    DEF RelayNext, Serve, BridgeDone, SessionTimeout, EndSession, Accept, Refuse,
        BadHandshake, RoomFull, Deliver, PairingTimeout, ChannelDropped,
        StartBridge, NoPermit, CopyEnds, Hangup, relayVars

\* Every entry of the waiting room belongs to a task that is still waiting or
\* cleaning up, and there are never more than max_waiting of them.
THEOREM RoomIsSound == RelaySpec => []RoomSound
  <1>1. PairInv /\ RoomInv => RoomSound
    BY DEF PairInv, SenderInv, RoomInv, RoomSound
  <1>2. RelaySpec => []RoomInv
    BY RoomInit, RoomStep, RelayTypeCorrect, PTL DEF RelaySpec
  <1> QED
    BY <1>1, <1>2, PairInvariant, PTL

-----------------------------------------------------------------------------
(***************************************************************************)
(* Refinement: the relay implements the abstract pairing service.          *)
(***************************************************************************)
LEMMA PairingInit == RelayInit => Pairing!Init
  BY ConnsAssumption DEF RelayInit, Pairing!Init, Bridged, Closed

\* A connection is in a pair of the abstract service iff it has a partner or
\* is one.
LEMMA PairedMeaning ==
  ASSUME RelayTypeOK, NEW c \in Conns
  PROVE  c \in Pairing!Paired <=>
           (partner[c] # NoConn \/ \E d \in Conns : partner[d] = c)
  <1>1. \A d \in Conns : partner[d] # NoConn => <<d, partner[d]>> \in Bridged
    BY DEF Bridged
  <1>2. \A p \in Bridged : \E d \in Conns :
          partner[d] # NoConn /\ p[1] = d /\ p[2] = partner[d]
    BY DEF Bridged
  <1>3. c \in Pairing!Paired <=> \E p \in Bridged : c = p[1] \/ c = p[2]
    BY DEF Pairing!Paired
  <1>4. ASSUME c \in Pairing!Paired
        PROVE partner[c] # NoConn \/ \E d \in Conns : partner[d] = c
    BY <1>2, <1>3, <1>4
  <1>5. ASSUME partner[c] # NoConn PROVE c \in Pairing!Paired
    <2>1. <<c, partner[c]>> \in Bridged /\ c = <<c, partner[c]>>[1]
      BY <1>1, <1>5
    <2> QED
      BY <1>3, <2>1
  <1>6. ASSUME NEW d \in Conns, partner[d] = c PROVE c \in Pairing!Paired
    <2>1. <<d, partner[d]>> \in Bridged /\ c = <<d, partner[d]>>[2]
      BY <1>1, <1>6, ConnsAssumption
    <2> QED
      BY <1>3, <2>1
  <1> QED
    BY <1>4, <1>5, <1>6

LEMMA PairingStep == PairInv /\ [RelayNext]_relayVars => [Pairing!Next]_(Pairing!vars)
  <1> SUFFICES ASSUME PairInv, [RelayNext]_relayVars
               PROVE  Pairing!Next \/ UNCHANGED Pairing!vars
    BY DEF Pairing!vars
  <1> USE ConnsAssumption DEF PairInv
  \* A step that leaves UUIDs, partners and streams alone is a stutter.
  <1>1. ASSUME UNCHANGED <<uuid, partner, stream>> PROVE UNCHANGED Pairing!vars
    BY <1>1 DEF Pairing!vars, Bridged, Closed
  <1>2. ASSUME NEW c \in Conns, Accept(c) PROVE UNCHANGED Pairing!vars
    <2>1. Closed' = Closed
      BY <1>2 DEF Accept, Closed, RelayTypeOK, StreamInv
    <2> QED
      BY <1>2, <2>1 DEF Accept, Pairing!vars, Bridged
  \* Closing an unpaired connection.
  <1>3. ASSUME NEW c \in Conns, partner[c] = NoConn,
               \A d \in Conns : partner[d] # c, stream[c] # "closed",
               stream' = [stream EXCEPT ![c] = "closed"],
               UNCHANGED <<uuid, partner>>
        PROVE Pairing!Next
    <2>1. c \notin Pairing!Paired
      BY <1>3, PairedMeaning
    <2>2. Closed' = Closed \cup {c} /\ c \notin Closed
      BY <1>3 DEF Closed, RelayTypeOK
    <2>3. Pairing!LetGo({c})
      BY <1>3, <2>1, <2>2 DEF Pairing!LetGo, Bridged
    <2> QED
      BY <2>3 DEF Pairing!Next
  \* Closing a pair.
  <1>4. ASSUME NEW c \in Conns, partner[c] \in Conns, stream[c] = "open",
               stream' = [stream EXCEPT ![c] = "closed", ![partner[c]] = "closed"],
               UNCHANGED <<uuid, partner>>
        PROVE Pairing!Next
    <2>1. stream[partner[c]] = "open"
      BY <1>4 DEF StreamInv
    <2>2. Closed' = Closed \cup {c, partner[c]} /\ {c, partner[c]} \cap Closed = {}
      BY <1>4, <2>1 DEF Closed, RelayTypeOK
    <2>3. <<c, partner[c]>> \in Bridged
      BY <1>4 DEF Bridged
    <2>4. Pairing!LetGo({c, partner[c]})
      BY <1>4, <2>2, <2>3 DEF Pairing!LetGo, Bridged
    <2> QED
      BY <1>4, <2>4 DEF Pairing!Next
  \* Asking for a UUID.
  <1>5. ASSUME NEW c \in Conns, NEW u \in Uuids, pc[c] = "handshake",
               uuid' = [uuid EXCEPT ![c] = u], UNCHANGED <<partner, stream>>
        PROVE Pairing!Next
    <2>1. Pairing!Ask(c, u)
      BY <1>5 DEF Pairing!Ask, Bridged, Closed, PlaceInv, StreamInv, Serving, Places
    <2> QED
      BY <2>1 DEF Pairing!Next
  \* Only an ended task's connection is somebody's partner.
  <1>6. ASSUME NEW c \in Conns, pc[c] # "end"
        PROVE \A d \in Conns : partner[d] # c
    BY <1>6 DEF NoCrossedTunnels
  <1>7. ASSUME NEW c \in Conns, Deliver(c) PROVE Pairing!Next
    <2> DEFINE d == carrying[c]
    <2>1. /\ d \in Conns /\ d # c /\ uuid[d] = uuid[c] /\ uuid[c] \in Uuids
          /\ partner[c] = NoConn /\ stream[c] = "open"
      BY <1>7 DEF Deliver, SenderInv, PlaceInv, StreamInv, Serving, Places
    <2>2. CASE pc[d] = "wait"
      <3>1. partner[d] = NoConn /\ stream[d] = "open"
        BY <2>1, <2>2 DEF PlaceInv, StreamInv, Serving, Places
      <3>2. c \notin Pairing!Paired /\ d \notin Pairing!Paired
        BY <1>6, <1>7, <2>1, <2>2, <3>1, PairedMeaning DEF Deliver
      <3>3. Bridged' = Bridged \cup {<<d, c>>}
        BY <1>7, <2>1, <2>2, <3>1 DEF Deliver, Bridged, RelayTypeOK
      <3>4. Pairing!Pair(d, c)
        BY <1>7, <2>1, <2>2, <3>1, <3>2, <3>3 DEF Deliver, Pairing!Pair, Closed
      <3> QED
        BY <2>1, <3>4 DEF Pairing!Next
    <2>3. CASE pc[d] # "wait"
      BY <1>3, <1>6, <1>7, <2>1, <2>3 DEF Deliver
    <2> QED
      BY <2>2, <2>3
  <1>8. ASSUME NEW c \in Conns, Refuse(c) \/ BadHandshake(c) \/ RoomCleanup(c)
                 \/ \E u \in Uuids : RoomFull(c, u)
        PROVE Pairing!Next
    <2>1. partner[c] = NoConn /\ stream[c] # "closed" /\ pc[c] # "end"
      BY <1>8 DEF Refuse, BadHandshake, RoomCleanup, RoomFull, PlaceInv, StreamInv,
                  Serving, Places
    <2> QED
      BY <1>3, <1>6, <1>8, <2>1 DEF Refuse, BadHandshake, RoomCleanup, RoomFull, Leave
  <1>9. ASSUME NEW c \in Conns, NoPermit(c) PROVE Pairing!Next
    <2>1. partner[c] \in Conns /\ stream[c] = "open"
      BY <1>9 DEF NoPermit, PlaceInv, StreamInv, Serving, Places
    <2> QED
      BY <1>4, <1>9, <2>1 DEF NoPermit
  <1>10. ASSUME NEW c \in Conns, NEW t \in {"fwd", "rev"}, CopyEnds(c, t)
         PROVE Pairing!Next \/ UNCHANGED Pairing!vars
    <2>1. partner[c] \in Conns /\ stream[c] = "open"
      BY <1>10 DEF CopyEnds, PlaceInv, StreamInv
    <2> QED
      BY <1>1, <1>4, <1>10, <2>1 DEF CopyEnds
  <1>11. ASSUME NEW c \in Conns, NEW u \in Uuids, TakeWaiter(c, u) \/ EnterRoom(c, u)
         PROVE Pairing!Next
    BY <1>5, <1>11 DEF TakeWaiter, EnterRoom
  <1>12. ASSUME NEW c \in Conns,
                PairingTimeout(c) \/ ChannelDropped(c) \/ StartBridge(c)
                  \/ EndSession(c) \/ Hangup(c)
         PROVE UNCHANGED Pairing!vars
    BY <1>1, <1>12 DEF PairingTimeout, ChannelDropped, StartBridge, EndSession, Hangup
  <1>13. CASE UNCHANGED relayVars
    BY <1>1, <1>13 DEF relayVars
  <1> QED
    BY <1>2, <1>7, <1>8, <1>9, <1>10, <1>11, <1>12, <1>13
    DEF RelayNext, Serve, BridgeDone, SessionTimeout

\* The relay implements the abstract pairing service for every number of
\* connections, UUIDs and every setting of the limits.
THEOREM RelayImplementsPairing == RelaySpec => PairingSpec
  BY PairingInit, PairingStep, PairInvariant, PTL DEF RelaySpec, PairingSpec, Pairing!Spec

-----------------------------------------------------------------------------
(* The rendezvous server and the registration loop of a device.            *)

Addrs == {NoAddr} \cup (Devices \X Nat)
ConnType == [dev : Devices, net : Nat, srv : {"reading", "kept", "closed"},
             torn : BOOLEAN, buf : Seq(Requests)]
EntryType == [addr : Addrs, tcp : Nat, net : Nat, age : Nat]
RegType == [dev : Devices, addr : Addrs, net : Nat]
NoteType == [to : Addrs, uuid : Requests]
ReqType == [pc : {"idle", "found", "write", "udp", "end"}, addr : Addrs, tcp : Nat]
Ends == Devices \cup {"client"}

TypeOK ==
  /\ phase \in [Devices -> {"down", "boot", "up"}]
  /\ boots \in [Devices -> Nat] /\ ifaces \in [Devices -> Nat]
  /\ advert \in [Devices -> Nat] /\ sig \in [Devices -> Nat]
  /\ tcp \in [Devices -> Nat] /\ inbox \in [Devices -> Seq(Requests)]
  /\ conns \in Seq(ConnType) /\ entry \in [Devices -> EntryType]
  /\ regs \subseteq RegType /\ notes \subseteq NoteType
  /\ req \in [Requests -> ReqType] /\ joins \in [Requests -> Seq(Ends)]

\* A number that names a connection names one that was made.
ConnRefs ==
  /\ \A d \in Devices : tcp[d] <= Len(conns) /\ entry[d].tcp <= Len(conns)
  /\ \A u \in Requests : /\ req[u].tcp <= Len(conns)
                         /\ req[u].pc = "write" => req[u].tcp # 0

(***************************************************************************)
(* The places a request's UUID can be: in the hands of its handler, in a   *)
(* stream, in a datagram, in a device's channel, at hbbr.                  *)
(***************************************************************************)
Pending(u) == req[u].pc # "end"
InBuf(u, c, i) == c \in 1 .. Len(conns) /\ i \in 1 .. Len(conns[c].buf) /\ conns[c].buf[i] = u
Noted(u, m) == m \in notes /\ m.uuid = u
InInbox(u, d, i) == d \in Devices /\ i \in 1 .. Len(inbox[d]) /\ inbox[d][i] = u
Joined(u, i) == i \in 1 .. Len(joins[u]) /\ joins[u][i] # "client"

\* It is at one of them at most, and there once.
Once(u) ==
  /\ \A c, i, e, j : InBuf(u, c, i) /\ InBuf(u, e, j) => c = e /\ i = j
  /\ \A m, n : Noted(u, m) /\ Noted(u, n) => m = n
  /\ \A d, i, e, j : InInbox(u, d, i) /\ InInbox(u, e, j) => d = e /\ i = j
  /\ \A i, j : Joined(u, i) /\ Joined(u, j) => i = j
  /\ \A c, i : InBuf(u, c, i) =>
       /\ ~Pending(u) /\ \A m : ~Noted(u, m)
       /\ (\A d, j : ~InInbox(u, d, j)) /\ \A j : ~Joined(u, j)
  /\ \A m : Noted(u, m) =>
       ~Pending(u) /\ (\A d, j : ~InInbox(u, d, j)) /\ \A j : ~Joined(u, j)
  /\ \A d, i : InInbox(u, d, i) => ~Pending(u) /\ \A j : ~Joined(u, j)
  /\ \A i : Joined(u, i) => ~Pending(u)

OnceInv == TypeOK /\ ConnRefs /\ \A u \in Requests : Once(u)

-----------------------------------------------------------------------------
(* Sequences and connections. *)

LEMMA Put ==
  ASSUME NEW s \in Seq(ConnType), NEW c \in 1 .. Len(s), NEW x \in ConnType
  PROVE  /\ [s EXCEPT ![c] = x] \in Seq(ConnType)
         /\ Len([s EXCEPT ![c] = x]) = Len(s)
         /\ \A e \in 1 .. Len(s) : [s EXCEPT ![c] = x][e] = IF e = c THEN x ELSE s[e]
  OBVIOUS

LEMMA AddConn ==
  ASSUME NEW s \in Seq(ConnType), NEW x \in ConnType
  PROVE  /\ Append(s, x) \in Seq(ConnType) /\ Len(Append(s, x)) = Len(s) + 1
         /\ \A e \in 1 .. Len(s) : Append(s, x)[e] = s[e]
         /\ Append(s, x)[Len(s) + 1] = x
  OBVIOUS

LEMMA AddUuid ==
  ASSUME NEW s \in Seq(Requests), NEW u \in Requests
  PROVE  /\ Append(s, u) \in Seq(Requests) /\ Len(Append(s, u)) = Len(s) + 1 /\ Len(s) \in Nat
         /\ \A i \in 1 .. Len(s) : Append(s, u)[i] = s[i]
         /\ Append(s, u)[Len(s) + 1] = u
  OBVIOUS

LEMMA AddEnd ==
  ASSUME NEW s \in Seq(Ends), NEW x \in Ends
  PROVE  /\ Append(s, x) \in Seq(Ends) /\ Len(Append(s, x)) = Len(s) + 1 /\ Len(s) \in Nat
         /\ \A i \in 1 .. Len(s) : Append(s, x)[i] = s[i]
         /\ Append(s, x)[Len(s) + 1] = x
  OBVIOUS

LEMMA TakeUuid ==
  ASSUME NEW s \in Seq(Requests), s # <<>>
  PROVE  /\ Tail(s) \in Seq(Requests) /\ Len(Tail(s)) = Len(s) - 1 /\ Len(s) \in Nat /\ Len(s) >= 1
         /\ \A i \in 1 .. Len(s) - 1 : Tail(s)[i] = s[i + 1]
         /\ Head(s) \in Requests /\ Head(s) = s[1]
  OBVIOUS

\* What the steps of hbbs and of a device change in a connection.
LEMMA ConnFields ==
  ASSUME NEW x \in ConnType
  PROVE  /\ x.buf \in Seq(Requests) /\ x.dev \in Devices /\ x.net \in Nat
         /\ \A s \in {"reading", "kept", "closed"} : [x EXCEPT !.srv = s] \in ConnType
         /\ \A s \in {"reading", "kept", "closed"} : [x EXCEPT !.srv = s].buf = x.buf
         /\ [x EXCEPT !.torn = TRUE] \in ConnType /\ [x EXCEPT !.torn = TRUE].buf = x.buf
         /\ \A b \in Seq(Requests) : [x EXCEPT !.buf = b] \in ConnType
         /\ \A b \in Seq(Requests) : [x EXCEPT !.buf = b].buf = b
  <1>1. x.buf \in Seq(Requests) /\ x.dev \in Devices /\ x.net \in Nat
    BY DEF ConnType
  <1>2. \A s \in {"reading", "kept", "closed"} :
          [x EXCEPT !.srv = s] \in ConnType /\ [x EXCEPT !.srv = s].buf = x.buf
    BY DEF ConnType
  <1>3. [x EXCEPT !.torn = TRUE] \in ConnType /\ [x EXCEPT !.torn = TRUE].buf = x.buf
    BY DEF ConnType
  <1>4. \A b \in Seq(Requests) : [x EXCEPT !.buf = b] \in ConnType /\ [x EXCEPT !.buf = b].buf = b
    BY DEF ConnType
  <1>. QED BY <1>1, <1>2, <1>3, <1>4

\* A connection is replaced: the others keep what is in them.
LEMMA ReplaceConn ==
  ASSUME conns \in Seq(ConnType), NEW c \in 1 .. Len(conns), NEW x \in ConnType,
         conns' = [conns EXCEPT ![c] = x]
  PROVE  /\ conns' \in Seq(ConnType) /\ Len(conns') = Len(conns) /\ conns'[c] = x
         /\ \A e \in 1 .. Len(conns) : e # c => conns'[e] = conns[e]
  BY Put

LEMMA NewConnType ==
  ASSUME NEW d \in Devices, NEW n \in Nat
  PROVE  NewConn(d, n) \in ConnType /\ NewConn(d, n).buf = <<>>
  BY DEF NewConn, ConnType

\* TcpConnect uses a number that nobody holds, or a new one.
LEMMA ConnectFacts ==
  ASSUME TypeOK, ConnRefs, NEW d \in Devices, TcpConnect(d)
  PROVE  /\ conns' \in Seq(ConnType) /\ Len(conns) <= Len(conns')
         /\ tcp' \in [Devices -> Nat] /\ tcp'[d] <= Len(conns')
         /\ \A e \in Devices \ {d} : tcp'[e] = tcp[e]
         /\ \A e \in 1 .. Len(conns') :
              conns'[e].buf = <<>> \/ (e \in 1 .. Len(conns) /\ conns'[e] = conns[e])
  <1>. DEFINE free == {c \in DOMAIN conns : ~Held(c)}
              c == IF free # {} THEN CHOOSE x \in free : TRUE ELSE Len(conns) + 1
              x == NewConn(d, advert[d])
  <1>1. conns \in Seq(ConnType) /\ Len(conns) \in Nat /\ DOMAIN conns = 1 .. Len(conns)
        /\ tcp \in [Devices -> Nat]
    BY DEF TypeOK
  <1>2. x \in ConnType /\ x.buf = <<>>
    <2>1. advert[d] \in Nat
      BY DEF TypeOK
    <2>. QED BY <2>1, NewConnType
  <1>3. /\ conns' = IF c \in free THEN [conns EXCEPT ![c] = x] ELSE Append(conns, x)
        /\ tcp' = [tcp EXCEPT ![d] = c]
    BY DEF TcpConnect
  <1>4. c \in free \/ c = Len(conns) + 1
    OBVIOUS
  <1>5. free \subseteq 1 .. Len(conns)
    BY <1>1
  <1>. HIDE DEF free, c, x
  <1>6. CASE c \in free
    <2>1. c \in 1 .. Len(conns) /\ conns' = [conns EXCEPT ![c] = x]
      BY <1>3, <1>5, <1>6
    <2>2. /\ conns' \in Seq(ConnType) /\ Len(conns') = Len(conns) /\ conns'[c] = x
          /\ \A e \in 1 .. Len(conns) : e # c => conns'[e] = conns[e]
      BY <1>1, <1>2, <2>1, ReplaceConn
    <2>3. c \in Nat /\ c <= Len(conns)
      BY <1>1, <2>1
    <2>4. tcp' \in [Devices -> Nat] /\ tcp'[d] = c /\ \A e \in Devices \ {d} : tcp'[e] = tcp[e]
      BY <1>1, <1>3, <2>3
    <2>5. \A e \in 1 .. Len(conns') :
            conns'[e].buf = <<>> \/ (e \in 1 .. Len(conns) /\ conns'[e] = conns[e])
      BY <1>2, <2>2
    <2>. QED BY <1>1, <2>2, <2>3, <2>4, <2>5
  <1>7. CASE c \notin free
    <2>1. c = Len(conns) + 1 /\ conns' = Append(conns, x)
      BY <1>3, <1>4, <1>7
    <2>2. /\ conns' \in Seq(ConnType) /\ Len(conns') = Len(conns) + 1
          /\ \A e \in 1 .. Len(conns) : conns'[e] = conns[e]
          /\ conns'[Len(conns) + 1] = x
      BY <1>1, <1>2, <2>1, AddConn
    <2>3. \A e \in 1 .. Len(conns') : e \in 1 .. Len(conns) \/ e = Len(conns) + 1
      BY <1>1, <2>2
    <2>4. tcp' \in [Devices -> Nat] /\ tcp'[d] = c /\ \A e \in Devices \ {d} : tcp'[e] = tcp[e]
      <3>1. c \in Nat
        BY <1>1, <2>1
      <3>. QED BY <1>1, <1>3, <3>1
    <2>5. \A e \in 1 .. Len(conns') :
            conns'[e].buf = <<>> \/ (e \in 1 .. Len(conns) /\ conns'[e] = conns[e])
      BY <1>2, <2>2, <2>3
    <2>. QED BY <1>1, <2>1, <2>2, <2>4, <2>5
  <1>. QED BY <1>6, <1>7

-----------------------------------------------------------------------------
(* Types. *)

LEMMA RecordUpdates ==
  /\ \A x \in EntryType, n \in Nat : [x EXCEPT !.age = n] \in EntryType
  /\ \A a \in Addrs : \A t, n, g \in Nat : [addr |-> a, tcp |-> t, net |-> n, age |-> g] \in EntryType
  /\ \A d \in Devices : \A a \in Addrs : \A n \in Nat : [dev |-> d, addr |-> a, net |-> n] \in RegType
  /\ \A a \in Addrs : \A u \in Requests : [to |-> a, uuid |-> u] \in NoteType
  /\ \A d \in Devices : \A n \in Nat : <<d, n>> \in Addrs
  <1>1. \A x \in EntryType, n \in Nat : [x EXCEPT !.age = n] \in EntryType
    BY DEF EntryType
  <1>2. \A a \in Addrs : \A t, n, g \in Nat :
          [addr |-> a, tcp |-> t, net |-> n, age |-> g] \in EntryType
    BY DEF EntryType
  <1>3. \A d \in Devices : \A a \in Addrs : \A n \in Nat :
          [dev |-> d, addr |-> a, net |-> n] \in RegType
    BY DEF RegType
  <1>4. \A a \in Addrs : \A u \in Requests : [to |-> a, uuid |-> u] \in NoteType
    BY DEF NoteType
  <1>5. \A d \in Devices : \A n \in Nat : <<d, n>> \in Addrs
    BY DEF Addrs
  <1>. QED BY <1>1, <1>2, <1>3, <1>4, <1>5

LEMMA ReqUpdates ==
  ASSUME NEW r \in [Requests -> ReqType], NEW u \in Requests
  PROVE  /\ \A a \in Addrs : [r EXCEPT ![u].pc = "found", ![u].addr = a] \in [Requests -> ReqType]
         /\ \A n \in Nat, p \in {"end", "udp", "write"} :
              [r EXCEPT ![u].tcp = n, ![u].pc = p] \in [Requests -> ReqType]
         /\ \A p \in {"end", "udp"} :
              [r EXCEPT ![u].pc = p, ![u].tcp = 0] \in [Requests -> ReqType]
         /\ [r EXCEPT ![u].pc = "end"] \in [Requests -> ReqType]
  <1>1. \A a \in Addrs : [r EXCEPT ![u].pc = "found", ![u].addr = a] \in [Requests -> ReqType]
    BY DEF ReqType
  <1>2. \A n \in Nat, p \in {"end", "udp", "write"} :
          [r EXCEPT ![u].tcp = n, ![u].pc = p] \in [Requests -> ReqType]
    BY DEF ReqType
  <1>3. \A p \in {"end", "udp"} :
          [r EXCEPT ![u].pc = p, ![u].tcp = 0] \in [Requests -> ReqType]
    BY DEF ReqType
  <1>4. [r EXCEPT ![u].pc = "end"] \in [Requests -> ReqType]
    BY DEF ReqType
  <1>. QED BY <1>1, <1>2, <1>3, <1>4

LEMMA InitTypes == Init => TypeOK /\ ConnRefs
  <1>. SUFFICES ASSUME Init PROVE TypeOK /\ ConnRefs
    OBVIOUS
  <1>1. NoEntry \in EntryType /\ NoEntry.tcp = 0
    BY DEF NoEntry, EntryType, Addrs
  <1>2. Idle \in ReqType /\ Idle.tcp = 0 /\ Idle.pc = "idle"
    BY DEF Idle, ReqType, Addrs
  <1>3. conns \in Seq(ConnType) /\ Len(conns) = 0
    BY DEF Init
  <1>4. inbox \in [Devices -> Seq(Requests)] /\ joins \in [Requests -> Seq(Ends)]
    BY DEF Init
  <1>5. entry \in [Devices -> EntryType] /\ req \in [Requests -> ReqType]
    BY <1>1, <1>2 DEF Init
  <1>6. TypeOK
    BY <1>3, <1>4, <1>5 DEF Init, TypeOK
  <1>7. ConnRefs
    BY <1>1, <1>2, <1>3 DEF Init, ConnRefs
  <1>. QED BY <1>6, <1>7

\* The steps of a device that do not touch a connection.
LEMMA TypeDevice ==
  ASSUME TypeOK, ConnRefs, NEW d \in Devices,
         \/ Boot(d) \/ StartLoop(d) \/ IfaceChange(d) \/ Crash(d)
         \/ Keepalive(d) \/ NetRefresh(d) \/ Probe(d) \/ TcpEnd(d)
  PROVE  TypeOK' /\ ConnRefs'
  <1>1. UNCHANGED <<conns, entry, notes, req, joins>>
    BY DEF Boot, StartLoop, IfaceChange, Crash, Keepalive, NetRefresh, Probe, TcpEnd, device
  <1>0. /\ phase \in [Devices -> {"down", "boot", "up"}] /\ boots \in [Devices -> Nat]
        /\ ifaces \in [Devices -> Nat] /\ advert \in [Devices -> Nat] /\ sig \in [Devices -> Nat]
        /\ tcp \in [Devices -> Nat]
    BY DEF TypeOK
  <1>2. /\ phase' \in [Devices -> {"down", "boot", "up"}] /\ boots' \in [Devices -> Nat]
        /\ ifaces' \in [Devices -> Nat] /\ advert' \in [Devices -> Nat] /\ sig' \in [Devices -> Nat]
        /\ tcp' \in [Devices -> Nat] /\ \A e \in Devices : tcp'[e] = tcp[e] \/ tcp'[e] = 0
    <2>1. CASE Boot(d)
      BY <1>0, <2>1 DEF Boot, device
    <2>2. CASE StartLoop(d)
      BY <1>0, <2>2 DEF StartLoop, device
    <2>3. CASE IfaceChange(d)
      BY <1>0, <2>3 DEF IfaceChange, device
    <2>4. CASE Crash(d)
      BY <1>0, <2>4 DEF Crash, device
    <2>5. CASE NetRefresh(d)
      BY <1>0, <2>5 DEF NetRefresh, device
    <2>6. CASE TcpEnd(d)
      BY <1>0, <2>6 DEF TcpEnd, device
    <2>7. CASE Keepalive(d) \/ Probe(d)
      BY <1>0, <2>7 DEF Keepalive, Probe, device
    <2>. QED BY <2>1, <2>2, <2>3, <2>4, <2>5, <2>6, <2>7
  <1>4. inbox' \in [Devices -> Seq(Requests)]
    <2>1. inbox \in [Devices -> Seq(Requests)]
      BY DEF TypeOK
    <2>2. CASE Crash(d)
      BY <2>1, <2>2 DEF Crash
    <2>3. CASE ~Crash(d)
      BY <2>1, <2>3 DEF Boot, StartLoop, IfaceChange, Keepalive, NetRefresh, Probe, TcpEnd, device
    <2>. QED BY <2>2, <2>3
  <1>5. regs' \subseteq RegType
    <2>1. CASE UNCHANGED regs
      BY <2>1 DEF TypeOK
    <2>2. ASSUME NEW a \in Addrs, NEW n \in Nat, Register(d, a, n)
          PROVE  regs' \subseteq RegType
      BY <2>2, RecordUpdates DEF Register, TypeOK
    <2>3. Live(d) \in Addrs /\ <<d, 0>> \in Addrs /\ advert[d] \in Nat /\ ifaces[d] \in Nat
      BY RecordUpdates DEF TypeOK, Live
    <2>. QED BY <2>1, <2>2, <2>3
         DEF Boot, StartLoop, IfaceChange, Crash, Keepalive, NetRefresh, Probe, TcpEnd
  <1>6. TypeOK'
    BY <1>1, <1>2, <1>4, <1>5 DEF TypeOK
  <1>7. Len(conns) \in Nat
    BY DEF TypeOK
  <1>8. ConnRefs'
    <2>1. \A e \in Devices : tcp'[e] <= Len(conns)
      <3>1. 0 <= Len(conns) /\ \A e \in Devices : tcp[e] <= Len(conns)
        BY <1>7 DEF ConnRefs
      <3>2. \A e \in Devices : tcp'[e] = tcp[e] \/ tcp'[e] = 0
        BY <1>2
      <3>. QED BY <3>1, <3>2
    <2>. QED BY <1>1, <2>1 DEF ConnRefs
  <1>. QED BY <1>6, <1>8

\* The steps of a device on its stream, its socket and its channel.
LEMMA TypeReceive ==
  ASSUME TypeOK, ConnRefs, NEW d \in Devices,
         TcpConnect(d) \/ TcpReceive(d) \/ (\E u \in Requests : UdpReceive(d, u)) \/ AcceptRelay(d)
  PROVE  TypeOK' /\ ConnRefs'
  <1>0. Len(conns) \in Nat /\ conns \in Seq(ConnType)
    BY DEF TypeOK
  <1>1. CASE TcpConnect(d)
    <2>1. /\ conns' \in Seq(ConnType) /\ Len(conns) <= Len(conns')
          /\ tcp' \in [Devices -> Nat] /\ tcp'[d] <= Len(conns')
          /\ \A e \in Devices \ {d} : tcp'[e] = tcp[e]
      BY <1>1, ConnectFacts
    <2>2. UNCHANGED <<phase, boots, ifaces, advert, sig, inbox, entry, regs, notes, req, joins>>
      BY <1>1 DEF TcpConnect, device
    <2>3. TypeOK'
      BY <2>1, <2>2 DEF TypeOK
    <2>4. Len(conns') \in Nat
      BY <2>1
    <2>5. /\ \A e \in Devices : tcp[e] \in Nat /\ entry[e].tcp \in Nat
          /\ \A u \in Requests : req[u].tcp \in Nat
      BY DEF TypeOK, EntryType, ReqType
    <2>6. ConnRefs'
      BY <1>0, <2>1, <2>2, <2>4, <2>5 DEF ConnRefs
    <2>. QED BY <2>3, <2>6
  <1>2. CASE TcpReceive(d)
    <2>. DEFINE c == tcp[d]
                b == conns[c].buf
    <2>1. c \in 1 .. Len(conns) /\ b # <<>>
      BY <1>0, <1>2 DEF TcpReceive, ConnRefs, TypeOK
    <2>2. conns[c] \in ConnType
      BY <1>0, <2>1
    <2>3. b \in Seq(Requests)
      BY <2>2, ConnFields
    <2>4. Tail(b) \in Seq(Requests) /\ Head(b) \in Requests
      BY <2>1, <2>3, TakeUuid
    <2>5. conns' = [conns EXCEPT ![c] = [conns[c] EXCEPT !.buf = Tail(b)]]
      BY <1>2 DEF TcpReceive
    <2>6. [conns[c] EXCEPT !.buf = Tail(b)] \in ConnType
      BY <2>2, <2>4, ConnFields
    <2>7. conns' \in Seq(ConnType) /\ Len(conns') = Len(conns)
      BY <1>0, <2>1, <2>5, <2>6, ReplaceConn
    <2>8. inbox[d] \in Seq(Requests) /\ inbox' = [inbox EXCEPT ![d] = Append(inbox[d], Head(b))]
      BY <1>2 DEF TypeOK, TcpReceive
    <2>9. Append(inbox[d], Head(b)) \in Seq(Requests)
      BY <2>4, <2>8, AddUuid
    <2>10. inbox' \in [Devices -> Seq(Requests)]
      BY <2>8, <2>9 DEF TypeOK
    <2>11. UNCHANGED <<phase, boots, ifaces, advert, sig, tcp, entry, regs, notes, req, joins>>
      BY <1>2 DEF TcpReceive
    <2>12. TypeOK'
      BY <2>7, <2>10, <2>11 DEF TypeOK
    <2>13. ConnRefs'
      BY <2>7, <2>11 DEF ConnRefs
    <2>. QED BY <2>12, <2>13
  <1>3. ASSUME NEW u \in Requests, UdpReceive(d, u)
        PROVE  TypeOK' /\ ConnRefs'
    <2>1. inbox[d] \in Seq(Requests) /\ inbox' = [inbox EXCEPT ![d] = Append(inbox[d], u)]
      BY <1>3 DEF TypeOK, UdpReceive
    <2>2. Append(inbox[d], u) \in Seq(Requests)
      BY <2>1, AddUuid
    <2>3. inbox' \in [Devices -> Seq(Requests)]
      BY <2>1, <2>2 DEF TypeOK
    <2>4. /\ UNCHANGED <<phase, boots, ifaces, advert, sig, tcp, conns, entry, regs, req, joins>>
          /\ notes' \subseteq notes
      BY <1>3 DEF UdpReceive
    <2>5. TypeOK'
      BY <2>3, <2>4 DEF TypeOK
    <2>6. ConnRefs'
      BY <2>4 DEF ConnRefs
    <2>. QED BY <2>5, <2>6
  <1>4. CASE AcceptRelay(d)
    <2>. DEFINE b == inbox[d]
                u == Head(b)
    <2>1. b \in Seq(Requests) /\ b # <<>>
      BY <1>4 DEF TypeOK, AcceptRelay
    <2>2. Tail(b) \in Seq(Requests) /\ u \in Requests
      BY <2>1, TakeUuid
    <2>3. /\ joins' = [joins EXCEPT ![u] = Append(joins[u], d)]
          /\ inbox' = [inbox EXCEPT ![d] = Tail(b)]
      BY <1>4 DEF AcceptRelay
    <2>. HIDE DEF u
    <2>4. joins[u] \in Seq(Ends) /\ d \in Ends
      BY <2>2 DEF TypeOK, Ends
    <2>5. Append(joins[u], d) \in Seq(Ends)
      BY <2>4, AddEnd
    <2>6. joins' \in [Requests -> Seq(Ends)]
      BY <2>2, <2>3, <2>5 DEF TypeOK
    <2>7. inbox' \in [Devices -> Seq(Requests)]
      BY <2>2, <2>3 DEF TypeOK
    <2>8. UNCHANGED <<phase, boots, ifaces, advert, sig, tcp, conns, entry, regs, notes, req>>
      BY <1>4 DEF AcceptRelay
    <2>9. TypeOK'
      BY <2>6, <2>7, <2>8 DEF TypeOK
    <2>10. ConnRefs'
      BY <2>8 DEF ConnRefs
    <2>. QED BY <2>9, <2>10
  <1>. QED BY <1>1, <1>2, <1>3, <1>4

\* The stream a handler writes to: at most the frame is added to it.
LEMMA WriteConn ==
  ASSUME TypeOK, ConnRefs, NEW u \in Requests, TcpWrite(u) \/ TcpWriteFails(u)
  PROVE  /\ conns' \in Seq(ConnType) /\ Len(conns') = Len(conns)
         /\ req[u].tcp \in 1 .. Len(conns)
         /\ \A e \in 1 .. Len(conns) : e # req[u].tcp => conns'[e] = conns[e]
         /\ \/ conns'[req[u].tcp].buf = conns[req[u].tcp].buf
            \/ TcpWrite(u) /\ conns'[req[u].tcp].buf = Append(conns[req[u].tcp].buf, u)
  <1>. DEFINE c == req[u].tcp
  <1>0. Len(conns) \in Nat /\ conns \in Seq(ConnType) /\ req \in [Requests -> ReqType]
    BY DEF TypeOK
  <1>1. c \in 1 .. Len(conns)
    BY <1>0 DEF ReqType, ConnRefs, TcpWrite, TcpWriteFails
  <1>2. conns[c] \in ConnType
    BY <1>0, <1>1
  <1>3. CASE conns' = conns
    BY <1>0, <1>1, <1>3
  <1>4. CASE TcpWrite(u) /\ conns' # conns
    <2>. DEFINE b == Append(conns[c].buf, u)
                x == [conns[c] EXCEPT !.buf = b]
    <2>1. conns' = [conns EXCEPT ![c] = x]
      BY <1>4 DEF TcpWrite
    <2>2. b \in Seq(Requests)
      BY <1>2, ConnFields, AddUuid, ZenonT(60)
    <2>3. x \in ConnType /\ x.buf = b
      BY <1>2, <2>2, ConnFields
    <2>. HIDE DEF x, b
    <2>4. /\ conns' \in Seq(ConnType) /\ Len(conns') = Len(conns) /\ conns'[c] = x
          /\ \A e \in 1 .. Len(conns) : e # c => conns'[e] = conns[e]
      BY <1>0, <1>1, <2>1, <2>3, ReplaceConn
    <2>. QED BY <1>1, <1>4, <2>3, <2>4 DEF b
  <1>5. CASE TcpWriteFails(u)
    <2>. DEFINE x == [conns[c] EXCEPT !.torn = TRUE]
    <2>1. conns' = [conns EXCEPT ![c] = x]
      BY <1>5 DEF TcpWriteFails
    <2>2. x \in ConnType /\ x.buf = conns[c].buf
      BY <1>2, ConnFields
    <2>. HIDE DEF x
    <2>3. /\ conns' \in Seq(ConnType) /\ Len(conns') = Len(conns) /\ conns'[c] = x
          /\ \A e \in 1 .. Len(conns) : e # c => conns'[e] = conns[e]
      BY <1>0, <1>1, <2>1, <2>2, ReplaceConn
    <2>. QED BY <1>1, <2>2, <2>3
  <1>. QED BY <1>3, <1>4, <1>5

\* The steps of hbbs on its peers map.
LEMMA TypeEntry ==
  ASSUME TypeOK, ConnRefs,
         \/ \E r \in regs : DeliverRegister(r) \/ LoseRegister(r)
         \/ \E m \in notes : LoseNote(m)
         \/ \E c \in ConnIds : TcpRegister(c) \/ TcpReadFails(c)
         \/ Tick \/ Cleanup
  PROVE  TypeOK' /\ ConnRefs'
  <1>0. /\ Len(conns) \in Nat /\ conns \in Seq(ConnType) /\ DOMAIN conns = 1 .. Len(conns)
        /\ entry \in [Devices -> EntryType]
    BY DEF TypeOK
  <1>1. \A e \in Devices : /\ entry[e].tcp \in Nat /\ entry[e].addr \in Addrs
                           /\ entry[e].age \in Nat /\ entry[e].tcp <= Len(conns)
    BY <1>0 DEF EntryType, ConnRefs
  <1>2. NoEntry \in EntryType /\ NoEntry.tcp = 0
    BY DEF NoEntry, EntryType, Addrs
  <1>3. CASE \E r \in regs : DeliverRegister(r) \/ LoseRegister(r)
    <2>1. PICK r \in regs : DeliverRegister(r) \/ LoseRegister(r)
      BY <1>3
    <2>2. /\ UNCHANGED <<device, tcp, conns, notes, req, joins>> /\ regs' \subseteq regs
      BY <2>1 DEF DeliverRegister, LoseRegister
    <2>3. r.dev \in Devices /\ r.addr \in Addrs /\ r.net \in Nat
      BY DEF TypeOK, RegType
    <2>4. /\ entry' \in [Devices -> EntryType]
          /\ \A e \in Devices : entry'[e].tcp = entry[e].tcp
      <3>1. CASE LoseRegister(r)
        BY <1>0, <3>1 DEF LoseRegister
      <3>2. CASE DeliverRegister(r)
        <4>. DEFINE x == [addr |-> r.addr, tcp |-> entry[r.dev].tcp, net |-> r.net, age |-> 0]
        <4>1. x \in EntryType /\ x.tcp = entry[r.dev].tcp
          BY <1>1, <2>3, RecordUpdates
        <4>2. entry' = [entry EXCEPT ![r.dev] = x]
          BY <3>2 DEF DeliverRegister
        <4>. HIDE DEF x
        <4>. QED BY <1>0, <2>3, <4>1, <4>2
      <3>. QED BY <2>1, <3>1, <3>2
    <2>5. TypeOK'
      BY <2>2, <2>4 DEF TypeOK, device
    <2>6. ConnRefs'
      BY <2>2, <2>4 DEF ConnRefs
    <2>. QED BY <2>5, <2>6
  <1>4. CASE \E m \in notes : LoseNote(m)
    <2>1. UNCHANGED <<device, tcp, conns, entry, regs, req, joins>> /\ notes' \subseteq notes
      BY <1>4 DEF LoseNote
    <2>2. TypeOK'
      BY <2>1 DEF TypeOK, device
    <2>3. ConnRefs'
      BY <2>1 DEF ConnRefs
    <2>. QED BY <2>2, <2>3
  <1>5. ASSUME NEW c \in ConnIds, TcpRegister(c)
        PROVE  TypeOK' /\ ConnRefs'
    <2>1. c \in 1 .. Len(conns)
      BY <1>0, <1>5 DEF TcpRegister
    <2>2. conns[c] \in ConnType
      BY <1>0, <2>1
    <2>. DEFINE x == [conns[c] EXCEPT !.srv = "kept"]
                d == conns[c].dev
                a == IF entry[d].addr = NoAddr THEN <<d, 0>> ELSE entry[d].addr
                y == [addr |-> a, tcp |-> c, net |-> conns[c].net, age |-> 0]
    <2>3. x \in ConnType /\ d \in Devices /\ conns[c].net \in Nat
      BY <2>2, ConnFields
    <2>4. conns' = [conns EXCEPT ![c] = x] /\ entry' = [entry EXCEPT ![d] = y]
      BY <1>5 DEF TcpRegister
    <2>5. a \in Addrs
      BY <1>1, <2>3, RecordUpdates
    <2>. HIDE DEF a
    <2>6. y \in EntryType /\ y.tcp = c /\ c \in Nat
      BY <2>1, <2>3, <2>5, RecordUpdates
    <2>. HIDE DEF x, d, y
    <2>7. conns' \in Seq(ConnType) /\ Len(conns') = Len(conns)
      BY <1>0, <2>1, <2>3, <2>4, ReplaceConn
    <2>8. entry' \in [Devices -> EntryType]
      BY <1>0, <2>3, <2>4, <2>6
    <2>9. \A e \in Devices : entry'[e].tcp <= Len(conns)
      BY <1>0, <1>1, <2>1, <2>3, <2>4, <2>6
    <2>10. UNCHANGED <<device, tcp, regs, notes, req, joins>>
      BY <1>5 DEF TcpRegister
    <2>11. TypeOK'
      BY <2>7, <2>8, <2>10 DEF TypeOK, device
    <2>12. ConnRefs'
      BY <2>7, <2>9, <2>10 DEF ConnRefs
    <2>. QED BY <2>11, <2>12
  <1>6. ASSUME NEW c \in ConnIds, TcpReadFails(c)
        PROVE  TypeOK' /\ ConnRefs'
    <2>1. c \in 1 .. Len(conns)
      BY <1>0, <1>6 DEF TcpReadFails
    <2>2. conns[c] \in ConnType
      BY <1>0, <2>1
    <2>3. [conns[c] EXCEPT !.srv = "closed"] \in ConnType
      BY <2>2, ConnFields
    <2>4. conns' = [conns EXCEPT ![c] = [conns[c] EXCEPT !.srv = "closed"]]
      BY <1>6 DEF TcpReadFails
    <2>5. conns' \in Seq(ConnType) /\ Len(conns') = Len(conns)
      BY <1>0, <2>1, <2>3, <2>4, ReplaceConn
    <2>6. UNCHANGED <<device, tcp, entry, regs, notes, req, joins>>
      BY <1>6 DEF TcpReadFails
    <2>7. TypeOK'
      BY <2>5, <2>6 DEF TypeOK, device
    <2>8. ConnRefs'
      BY <2>5, <2>6 DEF ConnRefs
    <2>. QED BY <2>7, <2>8
  <1>7. CASE Tick \/ Cleanup
    <2>1. UNCHANGED <<device, tcp, conns, regs, notes, req, joins>>
      BY <1>7 DEF Tick, Cleanup
    <2>2. \A e \in Devices : entry'[e] \in EntryType /\ entry'[e].tcp <= Len(conns)
      <3>1. CASE Tick
        <4>. TAKE e \in Devices
        <4>1. entry'[e] = entry[e] \/ entry'[e] = [entry[e] EXCEPT !.age = entry[e].age + 1]
          BY <3>1 DEF Tick
        <4>2. entry[e].age + 1 \in Nat /\ entry[e] \in EntryType
          BY <1>0, <1>1
        <4>3. [entry[e] EXCEPT !.age = entry[e].age + 1] \in EntryType
          BY <4>2, RecordUpdates
        <4>4. [entry[e] EXCEPT !.age = entry[e].age + 1].tcp = entry[e].tcp
          BY <4>2 DEF EntryType
        <4>. QED BY <1>1, <4>1, <4>2, <4>3, <4>4
      <3>2. CASE Cleanup
        BY <1>0, <1>1, <1>2, <3>2 DEF Cleanup
      <3>. QED BY <1>7, <3>1, <3>2
    <2>3. entry' = [e \in Devices |-> entry'[e]]
      BY <1>7 DEF Tick, Cleanup
    <2>4. entry' \in [Devices -> EntryType]
      BY <2>2, <2>3
    <2>5. TypeOK'
      BY <2>1, <2>4 DEF TypeOK, device
    <2>6. ConnRefs'
      BY <2>1, <2>2 DEF ConnRefs
    <2>. QED BY <2>5, <2>6
  <1>. QED BY <1>3, <1>4, <1>5, <1>6, <1>7

\* The steps of a RequestRelay handler and of its client.
LEMMA TypeRequest ==
  ASSUME TypeOK, ConnRefs, NEW u \in Requests, ClientJoins(u) \/ FindAddr(u) \/ Handle(u)
  PROVE  TypeOK' /\ ConnRefs'
  <1>0. /\ Len(conns) \in Nat /\ conns \in Seq(ConnType) /\ req \in [Requests -> ReqType]
        /\ entry \in [Devices -> EntryType] /\ TargetOf[u] \in Devices
    BY TargetAssumption DEF TypeOK
  <1>1. /\ req[u].addr \in Addrs /\ req[u].tcp \in Nat /\ req[u].tcp <= Len(conns)
        /\ \A e \in Devices : entry[e].tcp \in Nat /\ entry[e].tcp <= Len(conns) /\ entry[e].addr \in Addrs
    BY <1>0 DEF ReqType, EntryType, ConnRefs
  <1>2. CASE ClientJoins(u)
    <2>1. joins[u] \in Seq(Ends) /\ "client" \in Ends
      BY DEF TypeOK, Ends
    <2>2. Append(joins[u], "client") \in Seq(Ends)
      BY <2>1, AddEnd
    <2>3. joins' = [joins EXCEPT ![u] = Append(joins[u], "client")]
      BY <1>2 DEF ClientJoins
    <2>4. joins' \in [Requests -> Seq(Ends)]
      BY <2>2, <2>3 DEF TypeOK
    <2>5. UNCHANGED <<device, tcp, conns, entry, regs, notes, req>>
      BY <1>2 DEF ClientJoins
    <2>6. TypeOK'
      BY <2>4, <2>5 DEF TypeOK, device
    <2>7. ConnRefs'
      BY <2>5 DEF ConnRefs
    <2>. QED BY <2>6, <2>7
  <1>3. CASE FindAddr(u)
    <2>1. /\ req' = [req EXCEPT ![u].pc = "found", ![u].addr = entry[TargetOf[u]].addr]
          /\ UNCHANGED <<device, tcp, conns, entry, regs, notes, joins>>
      BY <1>3 DEF FindAddr
    <2>2. req' \in [Requests -> ReqType]
      BY <1>0, <1>1, <2>1, ReqUpdates
    <2>3. /\ req'[u].pc = "found" /\ req'[u].tcp = req[u].tcp
          /\ \A v \in Requests \ {u} : req'[v] = req[v]
      BY <1>0, <2>1 DEF ReqType
    <2>4. TypeOK'
      BY <2>1, <2>2 DEF TypeOK, device
    <2>5. ConnRefs'
      BY <1>1, <2>1, <2>3 DEF ConnRefs
    <2>. QED BY <2>4, <2>5
  <1>4. CASE FindTcp(u)
    <2>. DEFINE t == IF req[u].addr = NoAddr THEN 0 ELSE entry[TargetOf[u]].tcp
                p == IF req[u].addr = NoAddr THEN "end" ELSE IF t = 0 THEN "udp" ELSE "write"
    <2>1. req' = [req EXCEPT ![u].tcp = t, ![u].pc = p]
      BY <1>4 DEF FindTcp
    <2>2. /\ t \in Nat /\ t <= Len(conns) /\ p \in {"end", "udp", "write"}
          /\ p = "write" => t # 0
      BY <1>0, <1>1
    <2>. HIDE DEF t, p
    <2>3. req' \in [Requests -> ReqType]
      BY <1>0, <2>1, <2>2, ReqUpdates
    <2>4. req'[u].pc = p /\ req'[u].tcp = t /\ \A v \in Requests \ {u} : req'[v] = req[v]
      BY <1>0, <2>1 DEF ReqType
    <2>5. UNCHANGED <<device, tcp, conns, entry, regs, notes, joins>>
      BY <1>4 DEF FindTcp
    <2>6. TypeOK'
      BY <2>3, <2>5 DEF TypeOK, device
    <2>7. ConnRefs'
      BY <2>2, <2>4, <2>5 DEF ConnRefs
    <2>. QED BY <2>6, <2>7
  <1>5. CASE TcpWrite(u) \/ TcpWriteFails(u)
    <2>1. conns' \in Seq(ConnType) /\ Len(conns') = Len(conns)
      BY <1>5, WriteConn
    <2>2. PICK p \in {"end", "udp"} : req' = [req EXCEPT ![u].pc = p, ![u].tcp = 0]
      BY <1>5 DEF TcpWrite, TcpWriteFails
    <2>3. req' \in [Requests -> ReqType]
      BY <1>0, <2>2, ReqUpdates
    <2>4. req'[u].pc = p /\ req'[u].tcp = 0 /\ \A v \in Requests \ {u} : req'[v] = req[v]
      BY <1>0, <2>2 DEF ReqType
    <2>5. UNCHANGED <<device, tcp, entry, regs, notes, joins>>
      BY <1>5 DEF TcpWrite, TcpWriteFails
    <2>6. TypeOK'
      BY <2>1, <2>3, <2>5 DEF TypeOK, device
    <2>7. ConnRefs'
      BY <1>0, <2>1, <2>4, <2>5 DEF ConnRefs
    <2>. QED BY <2>6, <2>7
  <1>6. CASE SendUdp(u)
    <2>1. /\ notes' = notes \cup {[to |-> req[u].addr, uuid |-> u]}
          /\ req' = [req EXCEPT ![u].pc = "end"]
          /\ UNCHANGED <<device, tcp, conns, entry, regs, joins>>
      BY <1>6 DEF SendUdp
    <2>2. [to |-> req[u].addr, uuid |-> u] \in NoteType
      BY <1>1, RecordUpdates
    <2>3. req' \in [Requests -> ReqType]
      BY <1>0, <2>1, ReqUpdates
    <2>4. req'[u].pc = "end" /\ req'[u].tcp = req[u].tcp /\ \A v \in Requests \ {u} : req'[v] = req[v]
      BY <1>0, <2>1 DEF ReqType
    <2>5. notes' \subseteq NoteType
      BY <2>1, <2>2 DEF TypeOK
    <2>6. TypeOK'
      BY <2>1, <2>3, <2>5 DEF TypeOK, device
    <2>7. ConnRefs'
      BY <1>1, <2>1, <2>4 DEF ConnRefs
    <2>. QED BY <2>6, <2>7
  <1>. QED BY <1>2, <1>3, <1>4, <1>5, <1>6 DEF Handle

LEMMA TypeStep == TypeOK /\ ConnRefs /\ [Next]_vars => TypeOK' /\ ConnRefs'
  <1>. SUFFICES ASSUME TypeOK, ConnRefs, [Next]_vars
                PROVE  TypeOK' /\ ConnRefs'
    OBVIOUS
  <1>1. CASE UNCHANGED vars
    <2>1. TypeOK'
      BY <1>1 DEF vars, TypeOK
    <2>2. ConnRefs'
      BY <1>1 DEF vars, ConnRefs
    <2>. QED BY <2>1, <2>2
  <1>2. ASSUME NEW d \in Devices, DeviceStep(d)
        PROVE  TypeOK' /\ ConnRefs'
    BY <1>2, TypeDevice, TypeReceive DEF DeviceStep
  <1>. QED BY <1>1, <1>2, TypeEntry, TypeRequest DEF Next

\* Every variable of the rendezvous server and of the devices keeps its type.
THEOREM TypeCorrect == Spec => []TypeOK
  <1>1. TypeOK /\ ConnRefs /\ [Next]_vars => (TypeOK /\ ConnRefs)'
    BY TypeStep
  <1>. QED BY <1>1, InitTypes, PTL DEF Spec

-----------------------------------------------------------------------------
(* Where a UUID can be. *)

\* Nothing new, and at most one stream and one channel move up by one place.
LEMMA Fewer ==
  ASSUME NEW u, Once(u), NEW c0, NEW k \in {0, 1}, NEW d0, NEW l \in {0, 1},
         \A e, i : InBuf(u, e, i)' => i \in Nat /\ InBuf(u, e, IF e = c0 THEN i + k ELSE i),
         \A m : Noted(u, m)' => Noted(u, m),
         \A e, i : InInbox(u, e, i)' => i \in Nat /\ InInbox(u, e, IF e = d0 THEN i + l ELSE i),
         \A i : Joined(u, i)' => Joined(u, i),
         Pending(u)' => Pending(u)
  PROVE  Once(u)'
  <1>1. \A c, i, e, j : InBuf(u, c, i)' /\ InBuf(u, e, j)' => c = e /\ i = j
    BY DEF Once
  <1>2. \A d, i, e, j : InInbox(u, d, i)' /\ InInbox(u, e, j)' => d = e /\ i = j
    BY DEF Once
  <1>3. (\E c, i : InBuf(u, c, i)') => \E c, i : InBuf(u, c, i)
    OBVIOUS
  <1>4. (\E d, i : InInbox(u, d, i)') => \E d, i : InInbox(u, d, i)
    OBVIOUS
  <1>. HIDE DEF InBuf, InInbox, Noted, Joined, Pending
  <1>. QED BY <1>1, <1>2, <1>3, <1>4 DEF Once

\* The UUID of a request that is pending is nowhere.
LEMMA PendingAlone ==
  ASSUME NEW u, Once(u), Pending(u)
  PROVE  /\ \A c, i : ~InBuf(u, c, i) /\ \A m : ~Noted(u, m)
         /\ \A d, i : ~InInbox(u, d, i) /\ \A j : ~Joined(u, j)
  BY DEF Once

LEMMA NotedAlone ==
  ASSUME NEW u, Once(u), NEW n, Noted(u, n)
  PROVE  /\ (\A e, i : ~InBuf(u, e, i)) /\ (\A m : Noted(u, m) => m = n)
         /\ (\A e, i : ~InInbox(u, e, i)) /\ (\A j : ~Joined(u, j)) /\ ~Pending(u)
  <1>. HIDE DEF InBuf, InInbox, Noted, Joined, Pending
  <1>1. \A e, i : ~InBuf(u, e, i)
    BY DEF Once
  <1>2. \A m : Noted(u, m) => m = n
    BY DEF Once
  <1>3. (\A e, i : ~InInbox(u, e, i)) /\ (\A j : ~Joined(u, j)) /\ ~Pending(u)
    BY DEF Once
  <1>. QED BY <1>1, <1>2, <1>3

LEMMA BufAlone ==
  ASSUME NEW u, Once(u), NEW c, NEW k, InBuf(u, c, k)
  PROVE  /\ (\A e, i : InBuf(u, e, i) => e = c /\ i = k) /\ (\A m : ~Noted(u, m))
         /\ (\A e, i : ~InInbox(u, e, i)) /\ (\A j : ~Joined(u, j)) /\ ~Pending(u)
  <1>1. \A e, i : InBuf(u, e, i) => e = c /\ i = k
    BY DEF Once
  <1>2. \A m : ~Noted(u, m)
    BY DEF Once
  <1>3. (\A e, i : ~InInbox(u, e, i)) /\ (\A j : ~Joined(u, j)) /\ ~Pending(u)
    BY DEF Once
  <1>. QED BY <1>1, <1>2, <1>3

LEMMA InboxAlone ==
  ASSUME NEW u, Once(u), NEW d, NEW k, InInbox(u, d, k)
  PROVE  /\ (\A e, i : ~InBuf(u, e, i)) /\ (\A m : ~Noted(u, m))
         /\ (\A e, i : InInbox(u, e, i) => e = d /\ i = k) /\ (\A j : ~Joined(u, j)) /\ ~Pending(u)
  <1>1. (\A e, i : ~InBuf(u, e, i)) /\ (\A m : ~Noted(u, m))
    BY DEF Once
  <1>2. \A e, i : InInbox(u, e, i) => e = d /\ i = k
    BY DEF Once
  <1>3. (\A j : ~Joined(u, j)) /\ ~Pending(u)
    BY DEF Once
  <1>. QED BY <1>1, <1>2, <1>3

\* Nothing new, and nothing moves.
LEMMA Kept ==
  ASSUME NEW u, Once(u),
         \A e, i : InBuf(u, e, i)' => i \in Nat /\ InBuf(u, e, i),
         \A m : Noted(u, m)' => Noted(u, m),
         \A e, i : InInbox(u, e, i)' => i \in Nat /\ InInbox(u, e, i),
         \A i : Joined(u, i)' => Joined(u, i),
         Pending(u)' => Pending(u)
  PROVE  Once(u)'
  <1>. HIDE DEF InBuf, InInbox, Noted, Joined, Pending
  <1>1. \A e, i : InBuf(u, e, i)' => i \in Nat /\ InBuf(u, e, IF e = 0 THEN i + 0 ELSE i)
    OBVIOUS
  <1>2. \A e, i : InInbox(u, e, i)' => i \in Nat /\ InInbox(u, e, IF e = 0 THEN i + 0 ELSE i)
    OBVIOUS
  <1>. QED BY <1>1, <1>2, Fewer

\* The UUID is in a channel, at one place, and nowhere else.
LEMMA OnlyInbox ==
  ASSUME NEW u, NEW d, NEW k,
         \A e, i : ~InBuf(u, e, i)', \A m : ~Noted(u, m)', \A j : ~Joined(u, j)',
         \A e, i : InInbox(u, e, i)' => e = d /\ i = k, ~Pending(u)'
  PROVE  Once(u)'
  <1>. HIDE DEF InBuf, InInbox, Noted, Joined, Pending
  <1>. QED BY DEF Once

\* Nothing in the state changes that says where UUIDs are.
LEMMA SamePlaces ==
  ASSUME \A v \in Requests : Once(v), UNCHANGED <<conns, notes, inbox, joins>>,
         \A v \in Requests : Pending(v)' => Pending(v), TypeOK
  PROVE  \A v \in Requests : Once(v)'
  <1>. TAKE u \in Requests
  <1>1. \A e, i : InBuf(u, e, i)' => i \in Nat /\ InBuf(u, e, i)
    BY DEF InBuf
  <1>2. \A e, i : InInbox(u, e, i)' => i \in Nat /\ InInbox(u, e, i)
    BY DEF InInbox
  <1>3. (\A m : Noted(u, m)' => Noted(u, m)) /\ \A i : Joined(u, i)' => Joined(u, i)
    BY DEF Noted, Joined
  <1>. HIDE DEF InBuf, InInbox, Noted, Joined, Pending
  <1>. QED BY <1>1, <1>2, <1>3, Kept

\* A UUID is added to a device's channel.
LEMMA InboxAdd ==
  ASSUME inbox \in [Devices -> Seq(Requests)], NEW d \in Devices, NEW u \in Requests,
         inbox' = [inbox EXCEPT ![d] = Append(inbox[d], u)]
  PROVE  \A v, e, i : InInbox(v, e, i)' =>
           i \in Nat /\ (InInbox(v, e, i) \/ (v = u /\ e = d /\ i = Len(inbox[d]) + 1))
  <1>. SUFFICES ASSUME NEW v, NEW e, NEW i, InInbox(v, e, i)'
                PROVE  i \in Nat /\ (InInbox(v, e, i) \/ (v = u /\ e = d /\ i = Len(inbox[d]) + 1))
    OBVIOUS
  <1>. DEFINE s == inbox[d]
  <1>1. e \in Devices /\ i \in 1 .. Len(inbox'[e]) /\ inbox'[e][i] = v
    BY DEF InInbox
  <1>2. s \in Seq(Requests) /\ inbox'[d] = Append(s, u) /\ (e # d => inbox'[e] = inbox[e])
    BY <1>1
  <1>3. /\ Len(Append(s, u)) = Len(s) + 1 /\ Len(s) \in Nat
        /\ \A j \in 1 .. Len(s) : Append(s, u)[j] = s[j]
        /\ Append(s, u)[Len(s) + 1] = u
    BY <1>2, AddUuid
  <1>4. CASE e # d
    BY <1>1, <1>2, <1>4 DEF InInbox
  <1>5. CASE e = d
    <2>1. i \in Nat /\ (i \in 1 .. Len(s) \/ i = Len(s) + 1)
      BY <1>1, <1>2, <1>3, <1>5
    <2>. QED BY <1>1, <1>2, <1>3, <1>5, <2>1 DEF InInbox
  <1>. QED BY <1>4, <1>5

\* TcpWrite: from the handler to the end of the stream.
LEMMA WriteMoves ==
  ASSUME OnceInv, NEW u \in Requests, TcpWrite(u) \/ TcpWriteFails(u)
  PROVE  \A v \in Requests : Once(v)'
  <1>. DEFINE c == req[u].tcp
              s == conns[c].buf
  <1>0. /\ TypeOK /\ ConnRefs /\ \A v \in Requests : Once(v)
        /\ conns \in Seq(ConnType) /\ Len(conns) \in Nat /\ req \in [Requests -> ReqType]
    BY DEF OnceInv, TypeOK
  <1>1. /\ c \in 1 .. Len(conns) /\ conns' \in Seq(ConnType) /\ Len(conns') = Len(conns)
        /\ \A e \in 1 .. Len(conns) : e # c => conns'[e] = conns[e]
        /\ conns'[c].buf = s \/ (TcpWrite(u) /\ conns'[c].buf = Append(s, u))
    BY <1>0, WriteConn
  <1>2. UNCHANGED <<notes, inbox, joins>>
    BY DEF TcpWrite, TcpWriteFails, device
  <1>3. s \in Seq(Requests)
    <2>1. conns[c] \in ConnType
      <3>1. c \in 1 .. Len(conns) /\ conns \in Seq(ConnType)
        BY <1>0, <1>1, Zenon
      <3>. HIDE DEF c
      <3>. QED BY <3>1
    <2>. QED BY <2>1, ConnFields
  <1>4. /\ Pending(u) /\ (TcpWrite(u) => ~Pending(u)')
        /\ \A v \in Requests : Pending(v)' => Pending(v)
    <2>1. PICK p \in {"end", "udp"} : req' = [req EXCEPT ![u].pc = p, ![u].tcp = 0]
      BY DEF TcpWrite, TcpWriteFails
    <2>2. req'[u].pc = p /\ \A v \in Requests \ {u} : req'[v] = req[v]
      BY <1>0, <2>1 DEF ReqType
    <2>3. req[u].pc = "write"
      BY DEF TcpWrite, TcpWriteFails
    <2>4. TcpWrite(u) => req'[u].pc = "end"
      BY <1>0 DEF TcpWrite, ReqType
    <2>5. Pending(u) /\ (TcpWrite(u) => ~Pending(u)')
      BY <2>3, <2>4 DEF Pending
    <2>6. \A v \in Requests : Pending(v)' => Pending(v)
      BY <2>2, <2>5 DEF Pending
    <2>. QED BY <2>5, <2>6
  <1>5. \A v \in Requests : /\ \A m : Noted(v, m)' => Noted(v, m)
                            /\ \A i : Joined(v, i)' => Joined(v, i)
                            /\ \A e, i : InInbox(v, e, i)' => i \in Nat /\ InInbox(v, e, i)
    BY <1>2 DEF Noted, Joined, InInbox
  <1>6. \A v, e, i : InBuf(v, e, i)' =>
          /\ i \in Nat
          /\ InBuf(v, e, i) \/ (TcpWrite(u) /\ v = u /\ e = c /\ i = Len(s) + 1)
    <2>. SUFFICES ASSUME NEW v, NEW e, NEW i, InBuf(v, e, i)'
                  PROVE  /\ i \in Nat
                         /\ InBuf(v, e, i) \/ (TcpWrite(u) /\ v = u /\ e = c /\ i = Len(s) + 1)
      OBVIOUS
    <2>1. e \in 1 .. Len(conns) /\ i \in 1 .. Len(conns'[e].buf) /\ conns'[e].buf[i] = v /\ i \in Nat
      <3>1. e \in 1 .. Len(conns') /\ i \in 1 .. Len(conns'[e].buf) /\ conns'[e].buf[i] = v
        BY Zenon DEF InBuf
      <3>2. i \in Nat
        BY <3>1
      <3>. QED BY <1>1, <3>1, <3>2, Zenon
    <2>2. CASE e # c \/ conns'[c].buf = s
      BY <1>1, <2>1, <2>2 DEF InBuf
    <2>3. CASE e = c /\ TcpWrite(u) /\ conns'[c].buf = Append(s, u)
      <3>1. /\ Len(Append(s, u)) = Len(s) + 1 /\ Len(s) \in Nat
            /\ \A j \in 1 .. Len(s) : Append(s, u)[j] = s[j]
            /\ Append(s, u)[Len(s) + 1] = u
        BY <1>3, AddUuid
      <3>2. i \in 1 .. Len(s) \/ i = Len(s) + 1
        <4>1. i \in 1 .. Len(s) + 1
          BY <2>1, <2>3, <3>1, Zenon
        <4>. HIDE DEF s
        <4>. QED BY <4>1, <3>1
      <3>. QED BY <2>1, <2>3, <3>1, <3>2 DEF InBuf
    <2>. QED BY <1>1, <2>2, <2>3
  <1>. HIDE DEF InBuf, InInbox, Noted, Joined, Pending, s, c
  <1>7. ASSUME NEW v \in Requests, \A e, i : InBuf(v, e, i)' => InBuf(v, e, i)
        PROVE  Once(v)'
    <2>1. \A e, i : InBuf(v, e, i)' => i \in Nat /\ InBuf(v, e, i)
      BY <1>6, <1>7
    <2>. QED BY <1>0, <1>4, <1>5, <2>1, Kept
  <1>8. CASE TcpWrite(u)
    <2>1. /\ (\A e, i : ~InBuf(u, e, i)) /\ (\A m : ~Noted(u, m))
          /\ (\A d, i : ~InInbox(u, d, i)) /\ (\A j : ~Joined(u, j))
      BY <1>0, <1>4, PendingAlone
    <2>2. Once(u)'
      BY <1>4, <1>5, <1>6, <1>8, <2>1 DEF Once
    <2>3. \A v \in Requests \ {u} : Once(v)'
      BY <1>6, <1>7
    <2>. QED BY <2>2, <2>3
  <1>9. CASE ~TcpWrite(u)
    BY <1>6, <1>7, <1>9
  <1>. QED BY <1>8, <1>9

\* SendUdp: from the handler into a datagram.
LEMMA UdpMoves ==
  ASSUME OnceInv, NEW u \in Requests, SendUdp(u)
  PROVE  \A v \in Requests : Once(v)'
  <1>. DEFINE n == [to |-> req[u].addr, uuid |-> u]
  <1>0. TypeOK /\ (\A v \in Requests : Once(v)) /\ req \in [Requests -> ReqType]
    BY DEF OnceInv, TypeOK
  <1>1. UNCHANGED <<conns, inbox, joins>> /\ notes' = notes \cup {n} /\ n.uuid = u
    BY DEF SendUdp, device
  <1>2. Pending(u) /\ ~Pending(u)' /\ \A v \in Requests : Pending(v)' => Pending(v)
    BY <1>0 DEF SendUdp, Pending, ReqType
  <1>3. \A v : /\ \A e, i : InBuf(v, e, i)' => i \in Nat /\ InBuf(v, e, i)
               /\ \A e, i : InInbox(v, e, i)' => i \in Nat /\ InInbox(v, e, i)
               /\ \A i : Joined(v, i)' => Joined(v, i)
    BY <1>1 DEF InBuf, InInbox, Joined
  <1>4. \A v, m : Noted(v, m)' => Noted(v, m) \/ (v = u /\ m = n)
    BY <1>1 DEF Noted
  <1>. HIDE DEF InBuf, InInbox, Noted, Joined, Pending, n
  <1>5. ASSUME NEW v \in Requests, v # u
        PROVE  Once(v)'
    <2>1. \A m : Noted(v, m)' => Noted(v, m)
      BY <1>4, <1>5
    <2>. QED BY <1>0, <1>2, <1>3, <2>1, Kept
  <1>6. Once(u)'
    <2>1. /\ (\A e, i : ~InBuf(u, e, i)) /\ (\A m : ~Noted(u, m))
          /\ (\A d, i : ~InInbox(u, d, i)) /\ (\A j : ~Joined(u, j))
      BY <1>0, <1>2, PendingAlone
    <2>. QED BY <1>2, <1>3, <1>4, <2>1 DEF Once
  <1>. QED BY <1>5, <1>6

\* UdpReceive: from a datagram to the end of the device's channel.
LEMMA UdpArrives ==
  ASSUME OnceInv, NEW d \in Devices, NEW u \in Requests, UdpReceive(d, u)
  PROVE  \A v \in Requests : Once(v)'
  <1>. DEFINE n == [to |-> Live(d), uuid |-> u]
              s == inbox[d]
  <1>0. TypeOK /\ (\A v \in Requests : Once(v)) /\ s \in Seq(Requests) /\ inbox \in [Devices -> Seq(Requests)]
    BY DEF OnceInv, TypeOK
  <1>1. /\ UNCHANGED <<conns, req, joins>> /\ notes' = notes \ {n} /\ n \in notes /\ n.uuid = u
        /\ inbox' = [inbox EXCEPT ![d] = Append(s, u)]
    BY DEF UdpReceive
  <1>2. \A v : /\ \A e, i : InBuf(v, e, i)' => i \in Nat /\ InBuf(v, e, i)
               /\ \A i : Joined(v, i)' => Joined(v, i)
               /\ \A m : Noted(v, m)' => Noted(v, m) /\ m # n
               /\ Pending(v)' => Pending(v)
    BY <1>1 DEF InBuf, Joined, Noted, Pending
  <1>3. \A v, e, i : InInbox(v, e, i)' =>
          i \in Nat /\ (InInbox(v, e, i) \/ (v = u /\ e = d /\ i = Len(s) + 1))
    BY <1>0, <1>1, InboxAdd
  <1>4. Noted(u, n)
    BY <1>1 DEF Noted
  <1>. HIDE DEF InBuf, InInbox, Noted, Joined, Pending, n, s
  <1>5. ASSUME NEW v \in Requests, v # u
        PROVE  Once(v)'
    <2>1. \A e, i : InInbox(v, e, i)' => i \in Nat /\ InInbox(v, e, i)
      BY <1>3, <1>5
    <2>. QED BY <1>0, <1>2, <2>1, Kept
  <1>6. Once(u)'
    <2>1. /\ (\A e, i : ~InBuf(u, e, i)) /\ (\A m : Noted(u, m) => m = n)
          /\ (\A e, i : ~InInbox(u, e, i)) /\ (\A j : ~Joined(u, j)) /\ ~Pending(u)
      BY <1>0, <1>4, NotedAlone
    <2>2. (\A e, i : ~InBuf(u, e, i)') /\ (\A m : ~Noted(u, m)') /\ (\A j : ~Joined(u, j)') /\ ~Pending(u)'
      BY <1>2, <2>1
    <2>3. PICK k : k = Len(s) + 1
      OBVIOUS
    <2>4. \A e, i : InInbox(u, e, i)' => e = d /\ i = k
      BY <1>3, <2>1, <2>3
    <2>. QED BY <2>2, <2>4, OnlyInbox
  <1>. QED BY <1>5, <1>6

\* TcpReceive: from the head of the stream to the end of the device's channel.
LEMMA TcpArrives ==
  ASSUME OnceInv, NEW d \in Devices, TcpReceive(d)
  PROVE  \A v \in Requests : Once(v)'
  <1>. DEFINE c == tcp[d]
              b == conns[c].buf
              s == inbox[d]
  <1>u. PICK u : u = Head(b)
    OBVIOUS
  <1>0. /\ TypeOK /\ ConnRefs /\ (\A v \in Requests : Once(v)) /\ s \in Seq(Requests)
        /\ conns \in Seq(ConnType) /\ Len(conns) \in Nat /\ inbox \in [Devices -> Seq(Requests)]
    BY DEF OnceInv, TypeOK
  <1>1. c \in 1 .. Len(conns) /\ b # <<>>
    BY <1>0 DEF TcpReceive, ConnRefs, TypeOK
  <1>2. conns[c] \in ConnType
    BY <1>0, <1>1
  <1>3. b \in Seq(Requests)
    BY <1>2, ConnFields
  <1>4. /\ Tail(b) \in Seq(Requests) /\ Len(Tail(b)) = Len(b) - 1 /\ Len(b) \in Nat /\ Len(b) >= 1
        /\ \A i \in 1 .. Len(b) - 1 : Tail(b)[i] = b[i + 1]
        /\ u \in Requests /\ u = b[1]
    BY <1>1, <1>3, <1>u, TakeUuid
  <1>5. conns' = [conns EXCEPT ![c] = [conns[c] EXCEPT !.buf = Tail(b)]]
    BY DEF TcpReceive
  <1>6. /\ Len(conns') = Len(conns) /\ conns'[c].buf = Tail(b)
        /\ \A e \in 1 .. Len(conns) : e # c => conns'[e] = conns[e]
    <2>1. [conns[c] EXCEPT !.buf = Tail(b)] \in ConnType /\ [conns[c] EXCEPT !.buf = Tail(b)].buf = Tail(b)
      BY <1>2, <1>4, ConnFields
    <2>. QED BY <1>0, <1>1, <1>5, <2>1, ReplaceConn
  <1>7. UNCHANGED <<req, notes, joins>> /\ inbox' = [inbox EXCEPT ![d] = Append(s, u)]
    BY <1>u DEF TcpReceive
  <1>8. \A v : /\ \A i : Joined(v, i)' => Joined(v, i)
               /\ \A m : Noted(v, m)' => Noted(v, m)
               /\ Pending(v)' => Pending(v)
    BY <1>7 DEF Joined, Noted, Pending
  <1>9. \A v, e, i : InInbox(v, e, i)' =>
          i \in Nat /\ (InInbox(v, e, i) \/ (v = u /\ e = d /\ i = Len(s) + 1))
    BY <1>0, <1>4, <1>7, InboxAdd
  <1>10. \A v, e, i : InBuf(v, e, i)' => i \in Nat /\ i >= 1 /\ InBuf(v, e, IF e = c THEN i + 1 ELSE i)
    <2>. SUFFICES ASSUME NEW v, NEW e, NEW i, InBuf(v, e, i)'
                  PROVE  i \in Nat /\ i >= 1 /\ InBuf(v, e, IF e = c THEN i + 1 ELSE i)
      OBVIOUS
    <2>1. e \in 1 .. Len(conns) /\ i \in 1 .. Len(conns'[e].buf) /\ conns'[e].buf[i] = v
      BY <1>6 DEF InBuf
    <2>2. i \in Nat /\ i >= 1
      <3>1. CASE e = c
        BY <1>4, <1>6, <2>1, <3>1
      <3>2. CASE e # c
        <4>1. conns[e] \in ConnType
          BY <1>0, <2>1
        <4>2. conns'[e].buf \in Seq(Requests)
          BY <1>6, <2>1, <3>2, <4>1, ConnFields
        <4>. QED BY <2>1, <4>2
      <3>. QED BY <3>1, <3>2
    <2>3. CASE e # c
      BY <1>6, <2>1, <2>2, <2>3 DEF InBuf
    <2>4. CASE e = c
      <3>0. i \in 1 .. Len(Tail(b)) /\ Tail(b)[i] = v
        BY <1>6, <2>1, <2>4
      <3>1. i \in 1 .. Len(b) - 1 /\ i + 1 \in 1 .. Len(b) /\ Tail(b)[i] = v
        BY <1>4, <3>0
      <3>2. b[i + 1] = v
        BY <1>4, <3>1
      <3>. QED BY <1>1, <2>2, <2>4, <3>1, <3>2 DEF InBuf
    <2>. QED BY <2>3, <2>4
  <1>11. InBuf(u, c, 1)
    BY <1>1, <1>4 DEF InBuf
  <1>. HIDE DEF InBuf, InInbox, Noted, Joined, Pending, c, s, b
  <1>12. ASSUME NEW v \in Requests, v # u
         PROVE  Once(v)'
    <2>1. /\ \A e, i : InBuf(v, e, i)' => i \in Nat /\ InBuf(v, e, IF e = c THEN i + 1 ELSE i)
          /\ \A e, i : InInbox(v, e, i)' => i \in Nat /\ InInbox(v, e, IF e = 0 THEN i + 0 ELSE i)
      BY <1>9, <1>10, <1>12
    <2>. QED BY <1>0, <1>8, <2>1, Fewer
  <1>13. Once(u)'
    <2>0. Once(u)
      BY <1>0, <1>4
    <2>1. /\ \A e, i : InBuf(u, e, i) => e = c /\ i = 1
          /\ (\A e, i : ~InInbox(u, e, i)) /\ (\A j : ~Joined(u, j)) /\ ~Pending(u)
          /\ \A m : ~Noted(u, m)
      BY <1>11, <2>0, BufAlone
    <2>2. ASSUME NEW e, NEW i, InBuf(u, e, i)'
          PROVE  FALSE
      <3>0. InBuf(u, e, i)' => i \in Nat /\ i >= 1 /\ InBuf(u, e, IF e = c THEN i + 1 ELSE i)
        BY <1>10
      <3>1. i \in Nat /\ i >= 1 /\ InBuf(u, e, IF e = c THEN i + 1 ELSE i)
        BY <2>2, <3>0
      <3>2. e = c /\ InBuf(u, e, i + 1)
        BY <2>1, <3>1
      <3>3. i + 1 = 1
        BY <2>1, <3>2
      <3>. QED BY <3>1, <3>3
    <2>3. (\A m : ~Noted(u, m)') /\ (\A j : ~Joined(u, j)') /\ ~Pending(u)'
      BY <1>8, <2>1
    <2>4. PICK k : k = Len(s) + 1
      OBVIOUS
    <2>5. \A e, i : InInbox(u, e, i)' => e = d /\ i = k
      BY <1>9, <2>1, <2>4
    <2>. QED BY <2>2, <2>3, <2>5, OnlyInbox
  <1>. QED BY <1>12, <1>13

\* AcceptRelay: from the head of the channel to hbbr.
LEMMA AcceptMoves ==
  ASSUME OnceInv, NEW d \in Devices, AcceptRelay(d)
  PROVE  \A v \in Requests : Once(v)'
  <1>. DEFINE s == inbox[d]
  <1>u. PICK u : u = Head(s)
    OBVIOUS
  <1>0. /\ (\A v \in Requests : Once(v)) /\ s \in Seq(Requests) /\ s # <<>>
        /\ inbox \in [Devices -> Seq(Requests)] /\ joins \in [Requests -> Seq(Ends)]
    BY DEF OnceInv, TypeOK, AcceptRelay
  <1>1. /\ Tail(s) \in Seq(Requests) /\ Len(Tail(s)) = Len(s) - 1 /\ Len(s) \in Nat /\ Len(s) >= 1
        /\ \A i \in 1 .. Len(s) - 1 : Tail(s)[i] = s[i + 1]
        /\ u \in Requests /\ u = s[1]
    BY <1>0, <1>u, TakeUuid
  <1>2. /\ UNCHANGED <<conns, notes, req>> /\ inbox' = [inbox EXCEPT ![d] = Tail(s)]
        /\ joins' = [joins EXCEPT ![u] = Append(joins[u], d)]
    BY <1>u DEF AcceptRelay
  <1>3. \A v : /\ \A e, i : InBuf(v, e, i)' => i \in Nat /\ InBuf(v, e, i)
               /\ \A m : Noted(v, m)' => Noted(v, m)
               /\ Pending(v)' => Pending(v)
    BY <1>2 DEF InBuf, Noted, Pending
  <1>4. ASSUME NEW v, NEW e, NEW i, InInbox(v, e, i)'
        PROVE  i \in Nat /\ i >= 1 /\ InInbox(v, e, IF e = d THEN i + 1 ELSE i)
    <2>1. e \in Devices /\ i \in 1 .. Len(inbox'[e]) /\ inbox'[e][i] = v
      BY <1>4 DEF InInbox
    <2>2. CASE e # d
      <3>1. inbox'[e] = inbox[e] /\ inbox[e] \in Seq(Requests)
        BY <1>0, <1>2, <2>1, <2>2
      <3>2. i \in Nat /\ i >= 1
        BY <2>1, <3>1
      <3>. QED BY <2>1, <2>2, <3>1, <3>2 DEF InInbox
    <2>3. CASE e = d
      <3>1. i \in 1 .. Len(Tail(s)) /\ Tail(s)[i] = v
        BY <1>0, <1>2, <2>1, <2>3
      <3>2. i \in 1 .. Len(s) - 1 /\ i \in Nat /\ i >= 1 /\ i + 1 \in 1 .. Len(s)
        BY <1>1, <3>1
      <3>3. s[i + 1] = v
        BY <1>1, <3>1, <3>2
      <3>. QED BY <2>1, <2>3, <3>2, <3>3 DEF InInbox
    <2>. QED BY <2>2, <2>3
  <1>5. InInbox(u, d, 1)
    BY <1>1 DEF InInbox
  <1>6. PICK k : k = Len(joins[u]) + 1
    OBVIOUS
  <1>7. ASSUME NEW v \in Requests, NEW i, Joined(v, i)'
        PROVE  Joined(v, i) \/ (v = u /\ i = k)
    <2>1. i \in 1 .. Len(joins'[v]) /\ joins'[v][i] # "client"
      BY <1>7 DEF Joined
    <2>2. CASE v # u
      BY <1>0, <1>2, <2>1, <2>2 DEF Joined
    <2>3. CASE v = u
      <3>1. joins[u] \in Seq(Ends) /\ d \in Ends
        BY <1>0, <1>1 DEF Ends
      <3>2. /\ Len(Append(joins[u], d)) = Len(joins[u]) + 1 /\ Len(joins[u]) \in Nat
            /\ \A j \in 1 .. Len(joins[u]) : Append(joins[u], d)[j] = joins[u][j]
        BY <3>1, AddEnd
      <3>3. joins'[u] = Append(joins[u], d)
        BY <1>0, <1>1, <1>2
      <3>4. i \in 1 .. Len(joins[u]) \/ i = k
        BY <1>6, <2>1, <2>3, <3>2, <3>3
      <3>. QED BY <2>1, <2>3, <3>2, <3>3, <3>4 DEF Joined
    <2>. QED BY <2>2, <2>3
  <1>. HIDE DEF InBuf, InInbox, Noted, Joined, Pending, s
  <1>8. ASSUME NEW v \in Requests, v # u
        PROVE  Once(v)'
    <2>0. \A e, i : InBuf(v, e, i)' => i \in Nat /\ InBuf(v, e, i)
      BY <1>3
    <2>1. ASSUME NEW e, NEW i, InBuf(v, e, i)'
          PROVE  i \in Nat /\ InBuf(v, e, IF e = 0 THEN i + 0 ELSE i)
      BY <2>0, <2>1
    <2>2. \A e, i : InInbox(v, e, i)' => i \in Nat /\ InInbox(v, e, IF e = d THEN i + 1 ELSE i)
      BY <1>4
    <2>3. \A i : Joined(v, i)' => Joined(v, i)
      BY <1>7, <1>8
    <2>. QED BY <1>0, <1>3, <2>1, <2>2, <2>3, Fewer
  <1>9. Once(u)'
    <2>0. Once(u)
      BY <1>0, <1>1
    <2>1. /\ (\A e, i : ~InBuf(u, e, i)) /\ (\A m : ~Noted(u, m))
          /\ (\A e, i : InInbox(u, e, i) => e = d /\ i = 1) /\ (\A j : ~Joined(u, j)) /\ ~Pending(u)
      BY <1>5, <2>0, InboxAlone
    <2>2. ASSUME NEW e, NEW i, InInbox(u, e, i)'
          PROVE  FALSE
      <3>1. i \in Nat /\ i >= 1 /\ InInbox(u, e, IF e = d THEN i + 1 ELSE i)
        BY <1>4, <2>2
      <3>2. e = d /\ InInbox(u, e, i + 1)
        BY <2>1, <3>1
      <3>3. i + 1 = 1
        BY <2>1, <3>2
      <3>. QED BY <3>1, <3>3
    <2>3. (\A e, i : ~InBuf(u, e, i)') /\ (\A m : ~Noted(u, m)') /\ ~Pending(u)'
      BY <1>3, <2>1
    <2>4. \A j : Joined(u, j)' => j = k
      BY <1>1, <1>7, <2>1
    <2>. QED BY <2>2, <2>3, <2>4 DEF Once
  <1>. QED BY <1>8, <1>9

\* The client's own visit to hbbr leaves the devices' visits where they are.
LEMMA ClientMoves ==
  ASSUME OnceInv, NEW u \in Requests, ClientJoins(u)
  PROVE  \A v \in Requests : Once(v)'
  <1>0. (\A v \in Requests : Once(v)) /\ joins \in [Requests -> Seq(Ends)] /\ "client" \in Ends
    BY DEF OnceInv, TypeOK, Ends
  <1>1. UNCHANGED <<conns, notes, req, inbox>> /\ joins' = [joins EXCEPT ![u] = Append(joins[u], "client")]
    BY DEF ClientJoins, device
  <1>2. \A v : /\ \A e, i : InBuf(v, e, i)' => i \in Nat /\ InBuf(v, e, i)
               /\ \A e, i : InInbox(v, e, i)' => i \in Nat /\ InInbox(v, e, i)
               /\ \A m : Noted(v, m)' => Noted(v, m)
               /\ Pending(v)' => Pending(v)
    BY <1>1 DEF InBuf, InInbox, Noted, Pending
  <1>3. ASSUME NEW v \in Requests, NEW i, Joined(v, i)'
        PROVE  Joined(v, i)
    <2>1. i \in 1 .. Len(joins'[v]) /\ joins'[v][i] # "client"
      BY <1>3 DEF Joined
    <2>2. CASE v # u
      BY <1>0, <1>1, <2>1, <2>2 DEF Joined
    <2>3. CASE v = u
      <3>1. joins[u] \in Seq(Ends)
        BY <1>0
      <3>2. /\ Len(Append(joins[u], "client")) = Len(joins[u]) + 1 /\ Len(joins[u]) \in Nat
            /\ \A j \in 1 .. Len(joins[u]) : Append(joins[u], "client")[j] = joins[u][j]
            /\ Append(joins[u], "client")[Len(joins[u]) + 1] = "client"
        BY <1>0, <3>1, AddEnd
      <3>3. joins'[u] = Append(joins[u], "client")
        BY <1>0, <1>1
      <3>4. i \in 1 .. Len(joins[u]) \/ i = Len(joins[u]) + 1
        BY <2>1, <2>3, <3>2, <3>3
      <3>. QED BY <2>1, <2>3, <3>2, <3>3, <3>4 DEF Joined
    <2>. QED BY <2>2, <2>3
  <1>. HIDE DEF InBuf, InInbox, Noted, Joined, Pending
  <1>4. ASSUME NEW v \in Requests
        PROVE  Once(v)'
    BY <1>0, <1>2, <1>3, Kept
  <1>. QED BY <1>4

\* The steps on a connection that put nothing into its stream, and the losses.
LEMMA NothingMoves ==
  ASSUME OnceInv,
         \/ \E d \in Devices : TcpConnect(d) \/ Crash(d)
         \/ \E m \in notes : LoseNote(m)
         \/ \E c \in ConnIds : TcpRegister(c) \/ TcpReadFails(c)
  PROVE  \A v \in Requests : Once(v)'
  <1>0. /\ TypeOK /\ ConnRefs /\ (\A v \in Requests : Once(v))
        /\ conns \in Seq(ConnType) /\ Len(conns) \in Nat /\ inbox \in [Devices -> Seq(Requests)]
    BY DEF OnceInv, TypeOK
  <1>1. UNCHANGED <<req, joins>> /\ notes' \subseteq notes
    BY DEF TcpConnect, Crash, LoseNote, TcpRegister, TcpReadFails
  <1>2. \A e \in Devices : inbox'[e] = inbox[e] \/ inbox'[e] = <<>>
    BY <1>0 DEF TcpConnect, Crash, LoseNote, TcpRegister, TcpReadFails, device
  <1>3. \A e \in 1 .. Len(conns') :
          conns'[e].buf = <<>> \/ (e \in 1 .. Len(conns) /\ conns'[e].buf = conns[e].buf)
    <2>1. CASE UNCHANGED conns
      BY <2>1
    <2>2. ASSUME NEW d \in Devices, TcpConnect(d)
          PROVE  \A e \in 1 .. Len(conns') :
                   conns'[e].buf = <<>> \/ (e \in 1 .. Len(conns) /\ conns'[e].buf = conns[e].buf)
      <3>1. \A e \in 1 .. Len(conns') :
              conns'[e].buf = <<>> \/ (e \in 1 .. Len(conns) /\ conns'[e] = conns[e])
        BY <1>0, <2>2, ConnectFacts
      <3>. QED BY <3>1
    <2>3. ASSUME NEW c \in ConnIds, TcpRegister(c) \/ TcpReadFails(c)
          PROVE  \A e \in 1 .. Len(conns') : e \in 1 .. Len(conns) /\ conns'[e].buf = conns[e].buf
      <3>1. c \in 1 .. Len(conns)
        BY <1>0, <2>3 DEF TcpRegister, TcpReadFails
      <3>2. conns[c] \in ConnType
        BY <1>0, <3>1
      <3>3. PICK t \in {"reading", "kept", "closed"} :
              conns' = [conns EXCEPT ![c] = [conns[c] EXCEPT !.srv = t]]
        BY <2>3 DEF TcpRegister, TcpReadFails
      <3>4. [conns[c] EXCEPT !.srv = t] \in ConnType /\ [conns[c] EXCEPT !.srv = t].buf = conns[c].buf
        BY <3>2, ConnFields
      <3>5. /\ Len(conns') = Len(conns) /\ conns'[c] = [conns[c] EXCEPT !.srv = t]
            /\ \A e \in 1 .. Len(conns) : e # c => conns'[e] = conns[e]
        BY <1>0, <3>1, <3>3, <3>4, ReplaceConn
      <3>. QED BY <3>4, <3>5
    <2>4. CASE \E d \in Devices : Crash(d)
      BY <2>1, <2>4 DEF Crash
    <2>5. CASE \E m \in notes : LoseNote(m)
      BY <2>1, <2>5 DEF LoseNote
    <2>. QED BY <2>2, <2>3, <2>4, <2>5
  <1>4. ASSUME NEW v, NEW e, NEW i, InBuf(v, e, i)'
        PROVE  i \in Nat /\ InBuf(v, e, i)
    <2>1. e \in 1 .. Len(conns') /\ i \in 1 .. Len(conns'[e].buf) /\ conns'[e].buf[i] = v
      BY <1>4 DEF InBuf
    <2>2. conns'[e].buf # <<>>
      BY <2>1
    <2>3. e \in 1 .. Len(conns) /\ conns'[e].buf = conns[e].buf
      BY <1>3, <2>1, <2>2
    <2>. QED BY <2>1, <2>3 DEF InBuf
  <1>5. ASSUME NEW v, NEW e, NEW i, InInbox(v, e, i)'
        PROVE  i \in Nat /\ InInbox(v, e, i)
    <2>1. e \in Devices /\ i \in 1 .. Len(inbox'[e]) /\ inbox'[e][i] = v
      BY <1>5 DEF InInbox
    <2>2. inbox'[e] # <<>>
      BY <2>1
    <2>3. inbox'[e] = inbox[e]
      BY <1>2, <2>1, <2>2
    <2>. QED BY <2>1, <2>3 DEF InInbox
  <1>6. \A v : /\ \A m : Noted(v, m)' => Noted(v, m)
               /\ \A i : Joined(v, i)' => Joined(v, i)
               /\ Pending(v)' => Pending(v)
    BY <1>1 DEF Noted, Joined, Pending
  <1>. HIDE DEF InBuf, InInbox, Noted, Joined, Pending
  <1>7. ASSUME NEW v \in Requests
        PROVE  Once(v)'
    BY <1>0, <1>4, <1>5, <1>6, Kept
  <1>. QED BY <1>7

LEMMA OnceStep == OnceInv /\ [Next]_vars => OnceInv'
  <1>. SUFFICES ASSUME OnceInv, [Next]_vars
                PROVE  OnceInv'
    OBVIOUS
  <1>0. TypeOK /\ ConnRefs /\ (\A v \in Requests : Once(v)) /\ req \in [Requests -> ReqType]
    BY DEF OnceInv, TypeOK
  <1>1. TypeOK' /\ ConnRefs'
    BY <1>0, TypeStep
  <1>. SUFFICES \A v \in Requests : Once(v)'
    BY <1>1 DEF OnceInv
  <1>2. ASSUME UNCHANGED <<conns, notes, inbox, joins, req>>
        PROVE  \A v \in Requests : Once(v)'
    <2>1. \A v \in Requests : Pending(v)' => Pending(v)
      BY <1>2 DEF Pending
    <2>. QED BY <1>0, <1>2, <2>1, SamePlaces
  <1>3. CASE UNCHANGED vars
    <2>1. UNCHANGED <<conns, notes, inbox, joins, req>>
      BY <1>3 DEF vars
    <2>. QED BY <1>2, <2>1
  <1>4. ASSUME NEW d \in Devices, DeviceStep(d)
        PROVE  \A v \in Requests : Once(v)'
    <2>1. CASE Boot(d) \/ StartLoop(d) \/ IfaceChange(d) \/ Keepalive(d) \/ NetRefresh(d) \/ Probe(d)
               \/ TcpEnd(d)
      BY <1>2, <2>1 DEF Boot, StartLoop, IfaceChange, Keepalive, NetRefresh, Probe, TcpEnd, device
    <2>2. CASE TcpConnect(d) \/ Crash(d)
      BY <2>2, NothingMoves
    <2>3. CASE TcpReceive(d)
      BY <2>3, TcpArrives
    <2>4. CASE \E u \in Requests : UdpReceive(d, u)
      BY <2>4, UdpArrives
    <2>5. CASE AcceptRelay(d)
      BY <2>5, AcceptMoves
    <2>. QED BY <1>4, <2>1, <2>2, <2>3, <2>4, <2>5 DEF DeviceStep
  <1>5. ASSUME NEW r \in regs, DeliverRegister(r) \/ LoseRegister(r)
        PROVE  \A v \in Requests : Once(v)'
    BY <1>2, <1>5 DEF DeliverRegister, LoseRegister, device
  <1>6. CASE Tick \/ Cleanup
    <2>1. UNCHANGED <<conns, notes, inbox, joins, req>>
      BY <1>6 DEF Tick, Cleanup, device
    <2>. QED BY <1>2, <2>1
  <1>7. ASSUME NEW u \in Requests, FindAddr(u) \/ FindTcp(u)
        PROVE  \A v \in Requests : Once(v)'
    <2>1. UNCHANGED <<conns, notes, inbox, joins>>
      BY <1>7 DEF FindAddr, FindTcp, device
    <2>2. req[u].pc # "end" /\ \A v \in Requests \ {u} : req'[v] = req[v]
      BY <1>0, <1>7 DEF FindAddr, FindTcp
    <2>3. \A v \in Requests : Pending(v)' => Pending(v)
      BY <2>2 DEF Pending
    <2>. QED BY <1>0, <2>1, <2>3, SamePlaces
  <1>8. ASSUME NEW u \in Requests, ClientJoins(u) \/ FindAddr(u) \/ Handle(u)
        PROVE  \A v \in Requests : Once(v)'
    BY <1>7, <1>8, ClientMoves, WriteMoves, UdpMoves DEF Handle
  <1>9. CASE \E m \in notes : LoseNote(m)
    BY <1>9, NothingMoves
  <1>10. CASE \E c \in ConnIds : TcpRegister(c) \/ TcpReadFails(c)
    BY <1>10, NothingMoves
  <1>. QED BY <1>3, <1>4, <1>5, <1>6, <1>8, <1>9, <1>10 DEF Next

LEMMA InitOnce == Init => OnceInv
  <1>. SUFFICES ASSUME Init, NEW u \in Requests
                PROVE  Once(u)
    BY InitTypes DEF OnceInv
  <1>1. Len(conns) = 0 /\ notes = {} /\ Len(joins[u]) = 0 /\ \A d \in Devices : Len(inbox[d]) = 0
    BY DEF Init
  <1>2. (\A c, i : ~InBuf(u, c, i)) /\ \A m : ~Noted(u, m)
    BY <1>1 DEF InBuf, Noted
  <1>3. (\A d, i : ~InInbox(u, d, i)) /\ \A j : ~Joined(u, j)
    BY <1>1 DEF InInbox, Joined
  <1>. HIDE DEF InBuf, InInbox, Noted, Joined, Pending
  <1>. QED BY <1>2, <1>3 DEF Once

LEMMA OnceAlways == Spec => []OnceInv
  BY InitOnce, OnceStep, PTL DEF Spec

-----------------------------------------------------------------------------
(* The properties. *)

\* Whatever the datagrams, streams, crashes and handlers do, no device meets
\* itself at hbbr: of the visits with one UUID at most one is a device's.  The
\* code that makes it so is the branch of RequestRelay in server_tcp.rs that
\* skips the datagram after a successful write; the device remembers nothing.
THEOREM NeverPaired == Spec => []NeverPairedWithItself
  <1>1. OnceInv => NeverPairedWithItself
    <2>. SUFFICES ASSUME OnceInv, NEW u \in Requests
                  PROVE  Cardinality({i \in DOMAIN joins[u] : joins[u][i] # "client"}) <= 1
      BY DEF NeverPairedWithItself
    <2>. DEFINE J == {i \in DOMAIN joins[u] : joins[u][i] # "client"}
    <2>1. Once(u) /\ joins[u] \in Seq(Ends)
      BY DEF OnceInv, TypeOK
    <2>2. \A i \in J : Joined(u, i)
      BY <2>1 DEF Joined
    <2>. HIDE DEF Joined, J
    <2>3. \A i, j \in J : i = j
      BY <2>1, <2>2 DEF Once
    <2>4. CASE J = {}
      <3>1. Cardinality(J) = 0
        BY <2>4, FS_EmptySet
      <3>. QED BY <3>1 DEF J
    <2>5. ASSUME NEW x \in J
          PROVE  Cardinality(J) <= 1
      <3>1. J = {x}
        BY <2>3, <2>5
      <3>2. Cardinality(J) = 1
        BY <3>1, FS_Singleton
      <3>. QED BY <3>2
    <2>. QED BY <2>4, <2>5 DEF J
  <1>. QED BY <1>1, OnceAlways, PTL

\* A stream that a device is reading stays in its entry through keepalives,
\* probes and reordered datagrams, whatever order they come in: it leaves only
\* with an expired entry or for another connection of the device (the
\* existing_tcp of RegisterPeer in server.rs).
THEOREM StreamIsKept == Spec => StreamKept
  <1>. DEFINE Step(d) == (tcp[d] # 0 /\ entry[d].tcp = tcp[d] /\ tcp'[d] = tcp[d]) =>
                           \/ entry'[d].tcp = tcp[d]
                           \/ entry[d].age = Expiry /\ entry'[d] = NoEntry
                           \/ \E c \in DOMAIN conns : conns[c].srv = "reading" /\ entry'[d].tcp = c
  <1>1. TypeOK /\ [Next]_vars => [\A d \in Devices : Step(d)]_vars
    <2>. SUFFICES ASSUME TypeOK, Next, NEW d \in Devices
                  PROVE  Step(d)
      OBVIOUS
    <2>0. entry \in [Devices -> EntryType]
      BY DEF TypeOK
    <2>1. CASE UNCHANGED entry
      BY <2>1
    <2>2. ASSUME NEW r \in regs, DeliverRegister(r)
          PROVE  Step(d)
      <3>1. r.dev \in Devices
        BY DEF TypeOK, RegType
      <3>2. entry'[d].tcp = entry[d].tcp
        BY <2>0, <2>2, <3>1 DEF DeliverRegister, EntryType
      <3>. QED BY <3>2
    <2>3. ASSUME NEW c \in ConnIds, TcpRegister(c)
          PROVE  Step(d)
      <3>1. c \in DOMAIN conns /\ conns[c].srv = "reading"
        BY <2>3 DEF TcpRegister
      <3>2. entry'[d] = entry[d] \/ entry'[d].tcp = c
        BY <2>0, <2>3 DEF TcpRegister
      <3>. QED BY <3>1, <3>2
    <2>4. CASE Tick
      <3>1. entry'[d] = entry[d] \/ entry'[d] = [entry[d] EXCEPT !.age = entry[d].age + 1]
        BY <2>4 DEF Tick
      <3>2. entry'[d].tcp = entry[d].tcp
        BY <2>0, <3>1 DEF EntryType
      <3>. QED BY <3>2
    <2>5. CASE Cleanup
      <3>1. entry'[d] = entry[d] \/ (entry[d].age = Expiry /\ entry'[d] = NoEntry)
        BY <2>5 DEF Cleanup
      <3>. QED BY <3>1
    <2>6. ASSUME NEW e \in Devices, DeviceStep(e)
          PROVE  UNCHANGED entry
      BY <2>6 DEF DeviceStep, Boot, StartLoop, IfaceChange, Crash, Keepalive, NetRefresh, Probe,
                  TcpConnect, TcpReceive, TcpEnd, UdpReceive, AcceptRelay
    <2>7. ASSUME NEW u \in Requests, ClientJoins(u) \/ FindAddr(u) \/ Handle(u)
          PROVE  UNCHANGED entry
      BY <2>7 DEF ClientJoins, FindAddr, Handle, FindTcp, TcpWrite, TcpWriteFails, SendUdp
    <2>8. ASSUME NEW r, LoseRegister(r) \/ LoseNote(r) \/ TcpReadFails(r)
          PROVE  UNCHANGED entry
      BY <2>8 DEF LoseRegister, LoseNote, TcpReadFails
    <2>. HIDE DEF Step
    <2>. QED BY <2>1, <2>2, <2>3, <2>4, <2>5, <2>6, <2>7, <2>8 DEF Next
  <1>2. Spec => [][\A d \in Devices : Step(d)]_vars
    BY <1>1, TypeCorrect, PTL DEF Spec
  <1>. QED BY <1>2 DEF StreamKept

=============================================================================
