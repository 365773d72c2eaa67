---------------------------- MODULE StreamsProofs ---------------------------
(***************************************************************************)
(* The file spool, SSH, SCP and QUIC: the shared-filesystem transport      *)
(* implements a byte stream in each direction and a session has one        *)
(* server, for any number of listeners, bytes, chunk lengths and failing   *)
(* file operations; a command or a copy over SSH or QUIC that reports      *)
(* success has done what it reports, for any scenario the clients can be   *)
(* in.                                                                     *)
(***************************************************************************)
EXTENDS MCStreams, FiniteSetTheorems, WellFoundedInduction, TLAPS


(***************************************************************************)
(* Intervals of the stream.  Bytes(n, k) is the k bytes after the first n. *)
(***************************************************************************)
LEMMA BytesType ==
  ASSUME NEW n \in Nat, NEW k \in Nat
  PROVE  /\ Bytes(n, k) \in Seq(Nat) /\ Len(Bytes(n, k)) = k
         /\ \A i \in 1 .. k : Bytes(n, k)[i] = n + i
  BY DEF Bytes

LEMMA BytesLen == \A n, k \in Nat : Len(Bytes(n, k)) = k
  BY DEF Bytes

LEMMA BytesFirst == \A n, k \in Nat : k >= 1 => Bytes(n, k)[1] = n + 1
  BY DEF Bytes

LEMMA LenNat == \A s \in Seq(Nat) : Len(s) \in Nat
  OBVIOUS

LEMMA BytesAppend ==
  ASSUME NEW n \in Nat, NEW k \in Nat
  PROVE  Bytes(0, n) \o Bytes(n, k) = Bytes(0, n + k)
  BY DEF Bytes

LEMMA BytesPrefix ==
  ASSUME NEW m \in Nat, NEW k \in 0 .. m
  PROVE  SubSeq(Bytes(0, m), 1, k) = Bytes(0, k)
  BY DEF Bytes

LEMMA BytesSplit ==
  ASSUME NEW n \in Nat, NEW m \in Nat, NEW k \in 1 .. m
  PROVE  /\ SubSeq(Bytes(n, m), 1, k) = Bytes(n, k)
         /\ SubSeq(Bytes(n, m), k + 1, m) = Bytes(n + k, m - k)
  BY DEF Bytes

-----------------------------------------------------------------------------
(***************************************************************************)
(* The inductive invariant.  A file of chunk number s holds an interval of *)
(* the stream; the files that exist, with the one being written, have the  *)
(* numbers from the reader's to the writer's and their intervals meet.     *)
(* Only the last one can be missing, and only if the writer is gone.       *)
(***************************************************************************)
Chunks == {f \in Nat \X Seq(Nat) : Len(f[2]) >= 1}
First(f) == f[2][1] - 1
Last(f) == First(f) + Len(f[2])
IsInterval(f) == First(f) \in Nat /\ f[2] = Bytes(First(f), Len(f[2]))

LEMMA ChunkAt ==
  ASSUME NEW s \in Nat, NEW n \in Nat, NEW k \in Nat, k >= 1, NEW f, f = <<s, Bytes(n, k)>>
  PROVE  /\ First(f) = n /\ Last(f) = n + k /\ IsInterval(f) /\ f[1] = s /\ f # <<>>
         /\ f[2] = Bytes(n, k) /\ Len(f[2]) = k
  <1>1. f[1] = s /\ f[2] = Bytes(n, k) /\ f # <<>>
    OBVIOUS
  <1>2. Len(f[2]) = k /\ f[2][1] = n + 1
    BY <1>1, BytesLen, BytesFirst
  <1>. QED BY <1>1, <1>2 DEF First, Last, IsInterval

WriterType ==
  [seq : Nat, acc : Seq(Nat), fut : Chunks \cup {<<>>}, shut : {"no", "writing", "done"},
   at : {"unused", "unopened", "open", "failed"}]
ReaderType ==
  [seq : Nat, eof : BOOLEAN, buf : Seq(Nat), got : Seq(Nat),
   at : {"unopened", "look", "again", "failed"}, final : Int]

SpoolType ==
  /\ wr \in [Dirs -> WriterType] /\ rd \in [Dirs -> ReaderType]
  /\ there \in [Dirs -> SUBSET Chunks] /\ here \in [Dirs -> SUBSET Chunks]
  /\ sentinel \in [Dirs -> [w : Int, r : Int]]
  /\ lis \in [Listeners -> [at : {"scan", "claim", "serves"}, seen : BOOLEAN]]

\* The chunks of a direction, with the one write_chunk_fut is working on.
Present(d) == there[d] \cup ({wr[d].fut} \ {<<>>})

\* How far the reader has come, the bytes still in its buffer included.
Consumed(d) == Len(rd[d].got) + Len(rd[d].buf)

\* What has been accepted and what has been read are intervals.
BytesInv(d) ==
  /\ wr[d].acc = Bytes(0, Len(wr[d].acc))
  /\ rd[d].got = Bytes(0, Len(rd[d].got))
  /\ rd[d].buf = Bytes(Len(rd[d].got), Len(rd[d].buf))
  /\ Consumed(d) <= Len(wr[d].acc)

ChunkInv(d) ==
  /\ here[d] \subseteq there[d]
  /\ rd[d].seq <= wr[d].seq
  /\ rd[d].seq = wr[d].seq => Consumed(d) = Len(wr[d].acc)
  /\ \A f \in Present(d) :
       /\ IsInterval(f) /\ Last(f) <= Len(wr[d].acc)
       /\ rd[d].seq <= f[1] /\ f[1] < wr[d].seq
       /\ f[1] = rd[d].seq => First(f) = Consumed(d)
       /\ f[1] = wr[d].seq - 1 => Last(f) = Len(wr[d].acc)
       /\ \A g \in Present(d) : /\ g[1] = f[1] => g = f
                                /\ g[1] = f[1] + 1 => First(g) = Last(f)
  /\ wr[d].fut # <<>> => wr[d].fut[1] = wr[d].seq - 1 /\ wr[d].fut \notin there[d]

\* A sentinel, or what the reader has seen of one, that names a chunk names the last one
\* of a stream that is closed, or consists of leading digits of that number.
Names(d, n) ==
  n >= 0 => wr[d].shut # "no" /\ (n = wr[d].seq - 1 \/ n \in Leading(wr[d].seq - 1))

EndInv(d) ==
  /\ wr[d].shut = "no" => sentinel[d].w = NoSentinel
  /\ wr[d].shut = "writing" =>
       sentinel[d].w = EmptySentinel \/ sentinel[d].w \in Leading(wr[d].seq - 1)
  /\ wr[d].shut = "done" => sentinel[d].w = wr[d].seq - 1
  /\ sentinel[d].r \in Int /\ sentinel[d].r >= NoSentinel /\ Names(d, sentinel[d].r)
  /\ rd[d].at = "again" => rd[d].final >= EmptySentinel /\ Names(d, rd[d].final)
  /\ wr[d].shut # "no" => wr[d].fut = <<>>
  /\ rd[d].eof => /\ rd[d].buf = <<>>
                  /\ rd[d].at = "failed" \/ (rd[d].final >= 0 /\ Names(d, rd[d].final))

\* A stream that is not open is as it will be opened.
OpenInv ==
  /\ \A d \in Dirs : /\ wr[d].at \in {"unopened", "unused"} =>
                          wr[d] = [Opened EXCEPT !.at = wr[d].at]
                     /\ rd[d].at = "unopened" => rd[d] = [OpenedRd EXCEPT !.at = "unopened"]
  /\ wr["s2c"].at # "unused"
  /\ wr["c2s"].at \in {"unopened", "unused"} <=> rd["s2c"].at = "unopened"
  /\ "claimed" \notin marks => wr["s2c"].at = "unopened" /\ rd["c2s"].at = "unopened"
  /\ "ready" \in marks => wr["c2s"].at \notin {"unopened", "unused"}
  /\ "claimed" \in marks => "ready" \in marks

ListenerInv ==
  /\ \A l \in Listeners : /\ lis[l].at = "claim" => "ready" \in marks
                          /\ lis[l].at = "serves" => "claimed" \in marks
  /\ \A l, m \in Listeners : lis[l].at = "serves" /\ lis[m].at = "serves" => l = m

DirInv(d) == BytesInv(d) /\ ChunkInv(d) /\ EndInv(d)

SpoolInv == SpoolType /\ OpenInv /\ ListenerInv /\ \A d \in Dirs : DirInv(d)

-----------------------------------------------------------------------------
(* Types. *)

USE DEF NoSentinel, EmptySentinel

LEMMA Bounds == MaxChunkLen \in Nat /\ MaxIoErrors \in Nat
  BY SpoolAssumption

LEMMA LeadingFacts == \A n : \A p \in Leading(n) : p \in Nat /\ p >= 1 /\ p < n
  <1>. SUFFICES ASSUME NEW n, NEW p \in Leading(n)
                PROVE  p \in Nat /\ p >= 1 /\ p < n
    OBVIOUS
  <1>1. p \in 1 .. n /\ p < n
    BY DEF Leading
  <1>. QED BY <1>1

LEMMA OpenedTypes == Opened \in WriterType /\ OpenedRd \in ReaderType
  BY DEF Opened, OpenedRd, WriterType, ReaderType

\* The updates of a stream keep its type.
LEMMA WriterUpdates ==
  ASSUME NEW w \in [Dirs -> WriterType], NEW d \in Dirs
  PROVE  /\ [w EXCEPT ![d] = Opened] \in [Dirs -> WriterType]
         /\ [w EXCEPT ![d].fut = <<>>] \in [Dirs -> WriterType]
         /\ [w EXCEPT ![d].fut = <<>>, ![d].at = "failed"] \in [Dirs -> WriterType]
         /\ [w EXCEPT ![d].at = "failed", ![d].fut = <<>>] \in [Dirs -> WriterType]
         /\ [w EXCEPT ![d].shut = "writing"] \in [Dirs -> WriterType]
         /\ [w EXCEPT ![d].shut = "done"] \in [Dirs -> WriterType]
  <1>1. [w EXCEPT ![d] = Opened] \in [Dirs -> WriterType]
    BY OpenedTypes
  <1>2. [w EXCEPT ![d].fut = <<>>] \in [Dirs -> WriterType]
    BY DEF WriterType
  <1>3. [w EXCEPT ![d].fut = <<>>, ![d].at = "failed"] \in [Dirs -> WriterType]
    BY ZenonT(60) DEF WriterType
  <1>4. [w EXCEPT ![d].at = "failed", ![d].fut = <<>>] \in [Dirs -> WriterType]
    BY ZenonT(60) DEF WriterType
  <1>5. [w EXCEPT ![d].shut = "writing"] \in [Dirs -> WriterType]
    BY DEF WriterType
  <1>6. [w EXCEPT ![d].shut = "done"] \in [Dirs -> WriterType]
    BY DEF WriterType
  <1>. QED BY <1>1, <1>2, <1>3, <1>4, <1>5, <1>6

LEMMA WriterWrites ==
  ASSUME NEW w \in [Dirs -> WriterType], NEW d \in Dirs,
         NEW n \in Nat, NEW a \in Seq(Nat), NEW f \in Chunks
  PROVE  [w EXCEPT ![d].seq = n, ![d].acc = a, ![d].fut = f] \in [Dirs -> WriterType]
  BY ZenonT(60) DEF WriterType

LEMMA ReaderUpdates ==
  ASSUME NEW r \in [Dirs -> ReaderType], NEW d \in Dirs
  PROVE  /\ [r EXCEPT ![d] = OpenedRd] \in [Dirs -> ReaderType]
         /\ \A e \in BOOLEAN : [r EXCEPT ![d].at = "look", ![d].eof = e] \in [Dirs -> ReaderType]
         /\ [r EXCEPT ![d].eof = TRUE, ![d].at = "failed"] \in [Dirs -> ReaderType]
         /\ \A n \in Int : [r EXCEPT ![d].at = "again", ![d].final = n] \in [Dirs -> ReaderType]
         /\ \A b, g \in Seq(Nat) : [r EXCEPT ![d].got = g, ![d].buf = b] \in [Dirs -> ReaderType]
         /\ \A n \in Nat : \A b, g \in Seq(Nat) :
              [r EXCEPT ![d].seq = n, ![d].at = "look", ![d].got = g, ![d].buf = b]
                \in [Dirs -> ReaderType]
  <1>1. [r EXCEPT ![d] = OpenedRd] \in [Dirs -> ReaderType]
    BY OpenedTypes
  <1>2. ASSUME NEW e \in BOOLEAN
        PROVE  [r EXCEPT ![d].at = "look", ![d].eof = e] \in [Dirs -> ReaderType]
    BY DEF ReaderType
  <1>3. ASSUME NEW n \in Int
        PROVE  [r EXCEPT ![d].at = "again", ![d].final = n] \in [Dirs -> ReaderType]
    BY DEF ReaderType
  <1>4. ASSUME NEW b \in Seq(Nat), NEW g \in Seq(Nat)
        PROVE  [r EXCEPT ![d].got = g, ![d].buf = b] \in [Dirs -> ReaderType]
    BY ZenonT(60) DEF ReaderType
  <1>5. ASSUME NEW n \in Nat, NEW b \in Seq(Nat), NEW g \in Seq(Nat)
        PROVE  [r EXCEPT ![d].seq = n, ![d].at = "look", ![d].got = g, ![d].buf = b]
                 \in [Dirs -> ReaderType]
    <2>. DEFINE x == [r[d] EXCEPT !.seq = n, !.at = "look", !.got = g, !.buf = b]
    <2>1. x \in ReaderType
      BY DEF ReaderType
    <2>2. [r EXCEPT ![d].seq = n, ![d].at = "look", ![d].got = g, ![d].buf = b]
            = [r EXCEPT ![d] = x]
      OBVIOUS
    <2>. HIDE DEF x
    <2>. QED BY <2>1, <2>2
  <1>6. [r EXCEPT ![d].eof = TRUE, ![d].at = "failed"] \in [Dirs -> ReaderType]
    BY DEF ReaderType
  <1>. QED BY <1>1, <1>2, <1>3, <1>4, <1>5, <1>6

LEMMA SentinelType ==
  ASSUME NEW s \in [Dirs -> [w : Int, r : Int]], NEW d \in Dirs, NEW n \in Int
  PROVE  [s EXCEPT ![d].w = n] \in [Dirs -> [w : Int, r : Int]]
  OBVIOUS

LEMMA UnopenedTypes ==
  /\ \A x \in {"unopened", "unused"} : [Opened EXCEPT !.at = x] \in WriterType
  /\ [OpenedRd EXCEPT !.at = "unopened"] \in ReaderType
  <1>1. ASSUME NEW w \in WriterType, NEW x \in {"unopened", "unused"}
        PROVE  [w EXCEPT !.at = x] \in WriterType
    BY DEF WriterType
  <1>2. ASSUME NEW r \in ReaderType
        PROVE  [r EXCEPT !.at = "unopened"] \in ReaderType
    BY DEF ReaderType
  <1>. QED BY <1>1, <1>2, OpenedTypes

LEMMA Fields ==
  ASSUME SpoolType, NEW d \in Dirs
  PROVE  /\ wr[d] \in WriterType /\ wr[d].acc \in Seq(Nat) /\ wr[d].seq \in Nat
         /\ wr[d].fut \in Chunks \cup {<<>>} /\ wr[d].shut \in {"no", "writing", "done"}
         /\ wr[d].at \in {"unused", "unopened", "open", "failed"}
         /\ rd[d] \in ReaderType /\ rd[d].seq \in Nat /\ rd[d].eof \in BOOLEAN
         /\ rd[d].buf \in Seq(Nat) /\ rd[d].got \in Seq(Nat) /\ rd[d].final \in Int
         /\ rd[d].at \in {"unopened", "look", "again", "failed"}
         /\ there[d] \subseteq Chunks /\ here[d] \subseteq Chunks
         /\ sentinel[d] \in [w : Int, r : Int]
  <1>1. wr[d] \in WriterType /\ rd[d] \in ReaderType
    BY DEF SpoolType
  <1>2. /\ there[d] \subseteq Chunks /\ here[d] \subseteq Chunks
        /\ sentinel[d] \in [w : Int, r : Int]
    BY DEF SpoolType
  <1>3. /\ wr[d].acc \in Seq(Nat) /\ wr[d].seq \in Nat
        /\ wr[d].fut \in Chunks \cup {<<>>} /\ wr[d].shut \in {"no", "writing", "done"}
        /\ wr[d].at \in {"unused", "unopened", "open", "failed"}
    BY <1>1 DEF WriterType
  <1>4. /\ rd[d].seq \in Nat /\ rd[d].eof \in BOOLEAN
        /\ rd[d].buf \in Seq(Nat) /\ rd[d].got \in Seq(Nat) /\ rd[d].final \in Int
        /\ rd[d].at \in {"unopened", "look", "again", "failed"}
    BY <1>1 DEF ReaderType
  <1>. QED BY <1>1, <1>2, <1>3, <1>4

LEMMA ChunkFields == \A f \in Chunks : f[1] \in Nat /\ f[2] \in Seq(Nat) /\ Len(f[2]) >= 1
  BY DEF Chunks

LEMMA EmptyNoChunk == <<>> \notin Chunks
  BY DEF Chunks

\* What TakeChunk leaves in the buffer and what it hands over.
LEMMA TypeTake ==
  ASSUME SpoolType, NEW d \in Dirs, NEW f \in here[d], NEW k \in 1 .. Len(f[2]),
         TakeChunk(d, f, k)
  PROVE  /\ rd' \in [Dirs -> ReaderType]
         /\ there' \in [Dirs -> SUBSET Chunks] /\ here' \in [Dirs -> SUBSET Chunks]
  <1>1. f[2] \in Seq(Nat) /\ rd[d].got \in Seq(Nat)
    BY Fields, ChunkFields
  <1>. DEFINE g == rd[d].got \o SubSeq(f[2], 1, k)
              b == SubSeq(f[2], k + 1, Len(f[2]))
  <1>2. SubSeq(f[2], 1, k) \in Seq(Nat) /\ b \in Seq(Nat)
    BY <1>1, SMTT(30)
  <1>3. g \in Seq(Nat)
    BY <1>1, <1>2
  <1>4. rd' = [rd EXCEPT ![d].seq = rd[d].seq + 1, ![d].at = "look", ![d].got = g, ![d].buf = b]
    BY DEF TakeChunk
  <1>. HIDE DEF g, b
  <1>5. rd \in [Dirs -> ReaderType] /\ rd[d].seq + 1 \in Nat
    BY Fields DEF SpoolType
  <1>6. rd' \in [Dirs -> ReaderType]
    BY <1>2, <1>3, <1>4, <1>5, ReaderUpdates
  <1>. QED BY <1>6 DEF SpoolType, TakeChunk

LEMMA TypeStep ==
  ASSUME SpoolType, [SpoolNext]_spoolVars
  PROVE  SpoolType'
  <1>. DEFINE WT(w) == w \in [Dirs -> WriterType]
              RT(r) == r \in [Dirs -> ReaderType]
              HT(h) == h \in [Dirs -> SUBSET Chunks]
              ST(s) == s \in [Dirs -> [w : Int, r : Int]]
              LT(l) == l \in [Listeners -> [at : {"scan", "claim", "serves"}, seen : BOOLEAN]]
  <1>0. WT(wr) /\ RT(rd) /\ HT(there) /\ HT(here) /\ ST(sentinel) /\ LT(lis)
    BY DEF SpoolType
  <1>. SUFFICES WT(wr') /\ RT(rd') /\ HT(there') /\ HT(here') /\ ST(sentinel') /\ LT(lis')
    BY DEF SpoolType
  <1>1. CASE ClientOpens
    <2>1. WT(wr') /\ RT(rd')
      BY <1>0, <1>1, WriterUpdates, ReaderUpdates DEF ClientOpens, Dirs
    <2>. QED BY <1>0, <1>1, <2>1 DEF ClientOpens
  <1>2. CASE PublishReady
    BY <1>0, <1>2 DEF PublishReady
  <1>3. ASSUME NEW l \in Listeners, ScanReady(l) \/ Claim(l) \/ ClaimFails(l)
        PROVE  WT(wr') /\ RT(rd') /\ HT(there') /\ HT(here') /\ ST(sentinel') /\ LT(lis')
    <2>1. WT(wr') /\ RT(rd')
      <3>1. CASE UNCHANGED <<wr, rd>>
        BY <1>0, <3>1
      <3>2. CASE ~UNCHANGED <<wr, rd>>
        <4>1. wr' = [wr EXCEPT !["s2c"] = Opened] /\ rd' = [rd EXCEPT !["c2s"] = OpenedRd]
          BY <1>3, <3>2 DEF ScanReady, Claim, ClaimFails
        <4>2. "s2c" \in Dirs /\ "c2s" \in Dirs
          BY DEF Dirs
        <4>. QED BY <1>0, <4>1, <4>2, WriterUpdates, ReaderUpdates
      <3>. QED BY <3>1, <3>2
    <2>2. LT(lis')
      <3>1. CASE ScanReady(l)
        BY <1>0, <3>1 DEF ScanReady
      <3>2. CASE Claim(l)
        BY <1>0, <3>2 DEF Claim
      <3>3. CASE ClaimFails(l)
        BY <1>0, <3>3 DEF ClaimFails
      <3>. QED BY <1>3, <3>1, <3>2, <3>3
    <2>3. UNCHANGED <<there, here, sentinel>>
      BY <1>3 DEF ScanReady, Claim, ClaimFails
    <2>. HIDE DEF WT, RT, LT
    <2>. QED BY <1>0, <2>1, <2>2, <2>3
  <1>4. ASSUME NEW d \in Dirs, NEW k \in 1 .. MaxChunkLen, poll_write(d, k)
        PROVE  WT(wr') /\ UNCHANGED <<rd, there, here, sentinel, lis>>
    <2>. DEFINE n == Len(wr[d].acc)
                data == Bytes(n, k)
    <2>1. n \in Nat /\ k \in Nat /\ k >= 1 /\ wr[d].acc \in Seq(Nat) /\ wr[d].seq \in Nat
      BY Bounds, Fields
    <2>2. data \in Seq(Nat) /\ Len(data) = k
      BY <2>1, BytesType
    <2>3. wr' = [wr EXCEPT ![d].seq = wr[d].seq + 1, ![d].acc = wr[d].acc \o data,
                           ![d].fut = <<wr[d].seq, data>>]
      BY <1>4 DEF poll_write
    <2>. HIDE DEF data, n
    <2>4. <<wr[d].seq, data>> \in Chunks
      BY <2>1, <2>2 DEF Chunks
    <2>5. wr[d].acc \o data \in Seq(Nat)
      BY <2>1, <2>2
    <2>6. WT(wr')
      <3>. DEFINE a == wr[d].acc \o data
                  f == <<wr[d].seq, data>>
      <3>1. a \in Seq(Nat) /\ f \in Chunks /\ wr[d].seq + 1 \in Nat
        BY <2>1, <2>4, <2>5
      <3>2. wr' = [wr EXCEPT ![d].seq = wr[d].seq + 1, ![d].acc = a, ![d].fut = f]
        BY <2>3
      <3>. HIDE DEF a, f
      <3>. QED BY <1>0, <3>1, <3>2, WriterWrites
    <2>. QED BY <1>4, <2>6 DEF poll_write
  <1>5. ASSUME NEW d \in Dirs, ChunkLands(d)
        PROVE  WT(wr') /\ HT(there') /\ UNCHANGED <<rd, here, sentinel, lis>>
    <2>1. wr[d].fut \in Chunks
      BY <1>5, Fields DEF ChunkLands
    <2>2. HT(there')
      BY <1>0, <1>5, <2>1 DEF ChunkLands
    <2>3. WT(wr')
      BY <1>0, <1>5, WriterUpdates DEF ChunkLands
    <2>. QED BY <1>5, <2>2, <2>3 DEF ChunkLands
  <1>6. ASSUME NEW d \in Dirs, ChunkFails(d)
        PROVE  WT(wr') /\ UNCHANGED <<rd, there, here, sentinel, lis>>
    BY <1>0, <1>6, WriterUpdates DEF ChunkFails
  <1>7. ASSUME NEW d \in Dirs, WriterDies(d)
        PROVE  WT(wr') /\ UNCHANGED <<rd, there, here, sentinel, lis>>
    BY <1>0, <1>7, WriterUpdates DEF WriterDies
  <1>8. ASSUME NEW d \in Dirs, poll_shutdown(d) \/ SentinelWritten(d)
        PROVE  WT(wr') /\ ST(sentinel') /\ UNCHANGED <<rd, there, here, lis>>
    <2>1. WT(wr')
      <3>1. CASE poll_shutdown(d)
        BY <1>0, <3>1, WriterUpdates DEF poll_shutdown
      <3>2. CASE SentinelWritten(d)
        BY <1>0, <3>2, WriterUpdates DEF SentinelWritten
      <3>. QED BY <1>8, <3>1, <3>2
    <2>2. wr[d].seq - 1 \in Int
      BY Fields
    <2>3. ST(sentinel')
      <3>1. CASE poll_shutdown(d)
        <4>1. sentinel' = [sentinel EXCEPT ![d].w = -1] /\ -1 \in Int
          BY <3>1 DEF poll_shutdown, SentinelIs
        <4>. QED BY <1>0, <4>1, SentinelType
      <3>2. CASE SentinelWritten(d)
        BY <1>0, <2>2, <3>2, SentinelType DEF SentinelWritten, SentinelIs
      <3>. QED BY <1>8, <3>1, <3>2
    <2>. QED BY <1>8, <2>1, <2>3 DEF poll_shutdown, SentinelWritten
  <1>15. ASSUME NEW d \in Dirs, SentinelGrows(d)
         PROVE  ST(sentinel') /\ UNCHANGED <<wr, rd, there, here, lis>>
    <2>1. PICK p \in Leading(wr[d].seq - 1) : sentinel' = [sentinel EXCEPT ![d].w = p]
      BY <1>15 DEF SentinelGrows, SentinelIs
    <2>2. p \in Int
      BY LeadingFacts
    <2>3. ST(sentinel')
      BY <1>0, <2>1, <2>2, SentinelType
    <2>. QED BY <1>15, <2>3 DEF SentinelGrows
  <1>16. ASSUME NEW d \in Dirs, ReadFails(d)
         PROVE  RT(rd') /\ UNCHANGED <<wr, there, here, sentinel, lis>>
    BY <1>0, <1>16, ReaderUpdates DEF ReadFails
  <1>9. ASSUME NEW d \in Dirs, ChunkSyncs(d)
        PROVE  HT(here') /\ UNCHANGED <<wr, rd, there, sentinel, lis>>
    <2>1. PICK f \in there[d] : here' = [here EXCEPT ![d] = @ \cup {f}]
      BY <1>9 DEF ChunkSyncs
    <2>2. f \in Chunks
      BY Fields
    <2>. QED BY <1>0, <1>9, <2>1, <2>2 DEF ChunkSyncs
  <1>10. ASSUME NEW d \in Dirs, SentinelSyncs(d)
         PROVE  ST(sentinel') /\ UNCHANGED <<wr, rd, there, here, lis>>
    BY <1>0, <1>10 DEF SentinelSyncs
  <1>11. ASSUME NEW d \in Dirs, LookForChunk(d) \/ LookAgain(d)
         PROVE  RT(rd') /\ HT(there') /\ HT(here') /\ UNCHANGED <<wr, sentinel, lis>>
    <2>0. UNCHANGED <<wr, sentinel, lis>>
      BY <1>11 DEF LookForChunk, LookAgain
    <2>1. CASE \E f \in NextChunk(d) : \E k \in 1 .. Len(f[2]) : TakeChunk(d, f, k)
      <3>1. PICK f \in here[d] : \E k \in 1 .. Len(f[2]) : TakeChunk(d, f, k)
        BY <2>1 DEF NextChunk
      <3>2. PICK k \in 1 .. Len(f[2]) : TakeChunk(d, f, k)
        BY <3>1
      <3>. QED BY <2>0, <3>2, TypeTake
    <2>2. CASE ~ \E f \in NextChunk(d) : \E k \in 1 .. Len(f[2]) : TakeChunk(d, f, k)
      <3>1. rd' = [rd EXCEPT ![d].at = "look", ![d].eof = IsLast(d)] /\ UNCHANGED <<there, here>>
        BY <1>11, <2>2 DEF LookForChunk, LookAgain
      <3>2. IsLast(d) \in BOOLEAN
        BY DEF IsLast
      <3>3. RT(rd')
        BY <1>0, <3>1, <3>2, ReaderUpdates
      <3>. HIDE DEF RT
      <3>. QED BY <1>0, <2>0, <3>1, <3>3
    <2>. QED BY <2>1, <2>2
  <1>12. ASSUME NEW d \in Dirs, ReadSentinel(d)
         PROVE  RT(rd') /\ UNCHANGED <<wr, there, here, sentinel, lis>>
    <2>1. sentinel[d].r \in Int
      BY <1>0
    <2>. QED BY <1>0, <1>12, <2>1, ReaderUpdates DEF ReadSentinel
  <1>13. ASSUME NEW d \in Dirs, ServeBuffer(d)
         PROVE  RT(rd') /\ UNCHANGED <<wr, there, here, sentinel, lis>>
    <2>1. PICK k \in 1 .. Len(rd[d].buf) :
            rd' = [rd EXCEPT ![d].got = @ \o SubSeq(rd[d].buf, 1, k),
                             ![d].buf = SubSeq(@, k + 1, Len(@))]
      BY <1>13 DEF ServeBuffer
    <2>. DEFINE g == rd[d].got \o SubSeq(rd[d].buf, 1, k)
                b == SubSeq(rd[d].buf, k + 1, Len(rd[d].buf))
    <2>2. rd[d].buf \in Seq(Nat) /\ rd[d].got \in Seq(Nat)
      BY Fields
    <2>3. SubSeq(rd[d].buf, 1, k) \in Seq(Nat) /\ b \in Seq(Nat)
      BY <2>2, SMTT(30)
    <2>4. g \in Seq(Nat)
      BY <2>2, <2>3
    <2>5. rd' = [rd EXCEPT ![d].got = g, ![d].buf = b]
      BY <2>1
    <2>. HIDE DEF g, b
    <2>6. RT(rd')
      BY <1>0, <2>3, <2>4, <2>5, ReaderUpdates
    <2>. QED BY <1>13, <2>6 DEF ServeBuffer
  <1>14. CASE UNCHANGED spoolVars
    BY <1>0, <1>14 DEF spoolVars
  <1>. HIDE DEF WT, RT, HT, ST, LT
  <1>. QED BY <1>0, <1>1, <1>2, <1>3, <1>4, <1>5, <1>6, <1>7, <1>8, <1>9, <1>10, <1>11,
              <1>12, <1>13, <1>14, <1>15, <1>16 DEF SpoolNext, ReaderStep, Syncs

-----------------------------------------------------------------------------
\* The invariant of a direction does not depend on who has opened it.
LEMMA SameFields ==
  ASSUME NEW e \in Dirs, DirInv(e),
         wr'[e].seq = wr[e].seq, wr'[e].acc = wr[e].acc, wr'[e].fut = wr[e].fut,
         wr'[e].shut = wr[e].shut, rd'[e].seq = rd[e].seq, rd'[e].eof = rd[e].eof,
         rd'[e].buf = rd[e].buf, rd'[e].got = rd[e].got, rd'[e].final = rd[e].final,
         rd'[e].at = "again" => rd[e].at = "again",
         rd[e].at = "failed" => rd'[e].at = "failed",
         there'[e] = there[e], here'[e] = here[e], sentinel'[e] = sentinel[e]
  PROVE  DirInv(e)'
  <1>1. Present(e)' = Present(e) /\ Consumed(e)' = Consumed(e)
    BY DEF Present, Consumed
  <1>2. \A f : First(f)' = First(f) /\ Last(f)' = Last(f) /\ IsInterval(f)' = IsInterval(f)
    BY DEF First, Last, IsInterval
  <1>3. BytesInv(e)'
    BY <1>1 DEF DirInv, BytesInv
  <1>4. ChunkInv(e)'
    BY <1>1, <1>2 DEF DirInv, ChunkInv
  <1>5. EndInv(e)'
    BY DEF DirInv, EndInv, Names
  <1>. QED BY <1>3, <1>4, <1>5 DEF DirInv

LEMMA OtherDir ==
  ASSUME NEW e \in Dirs, DirInv(e), wr'[e] = wr[e], rd'[e] = rd[e], there'[e] = there[e],
         here'[e] = here[e], sentinel'[e] = sentinel[e]
  PROVE  DirInv(e)'
  BY SameFields

LEMMA InitInv ==
  ASSUME SpoolInit
  PROVE  SpoolInv
  <1>1. SpoolType
    <2>1. wr \in [Dirs -> WriterType]
      <3>1. PICK a \in {"unopened", "unused"} :
              wr = [d \in Dirs |-> [Opened EXCEPT !.at = IF d = "c2s" THEN a ELSE "unopened"]]
        BY DEF SpoolInit
      <3>2. \A x \in {"unopened", "unused"} : [Opened EXCEPT !.at = x] \in WriterType
        BY UnopenedTypes
      <3>. QED BY <3>1, <3>2
    <2>2. rd \in [Dirs -> ReaderType]
      <3>1. [OpenedRd EXCEPT !.at = "unopened"] \in ReaderType
        BY UnopenedTypes
      <3>. QED BY <3>1 DEF SpoolInit
    <2>3. /\ there \in [Dirs -> SUBSET Chunks] /\ here \in [Dirs -> SUBSET Chunks]
          /\ sentinel \in [Dirs -> [w : Int, r : Int]]
      BY DEF SpoolInit
    <2>4. lis \in [Listeners -> [at : {"scan", "claim", "serves"}, seen : BOOLEAN]]
      BY DEF SpoolInit
    <2>. QED BY <2>1, <2>2, <2>3, <2>4 DEF SpoolType
  <1>2. OpenInv /\ ListenerInv
    BY DEF SpoolInit, OpenInv, ListenerInv, Opened, OpenedRd, Dirs
  <1>3. ASSUME NEW d \in Dirs PROVE DirInv(d)
    <2>1. BytesInv(d)
      BY <1>3 DEF SpoolInit, Opened, OpenedRd, BytesInv, Consumed, Bytes
    <2>2. ChunkInv(d)
      BY <1>3 DEF SpoolInit, Opened, OpenedRd, ChunkInv, Consumed, Present
    <2>3. EndInv(d)
      <3>1. sentinel[d] = [w |-> -2, r |-> -2]
        BY <1>3 DEF SpoolInit
      <3>2. wr[d].shut = "no" /\ rd[d].at = "unopened" /\ rd[d].eof = FALSE
        BY <1>3 DEF SpoolInit, Opened, OpenedRd
      <3>. QED BY <3>1, <3>2 DEF EndInv, Names
    <2>. QED BY <2>1, <2>2, <2>3 DEF DirInv
  <1>. QED BY <1>1, <1>2, <1>3 DEF SpoolInv

-----------------------------------------------------------------------------
-----------------------------------------------------------------------------
(***************************************************************************)
(* The invariant of a direction, one lemma per operation on it.            *)
(***************************************************************************)

\* What the steps need to know of the present chunks.
LEMMA ChunkFacts ==
  ASSUME SpoolInv, NEW d \in Dirs
  PROVE  /\ SpoolType /\ DirInv(d) /\ BytesInv(d) /\ ChunkInv(d) /\ EndInv(d)
         /\ Consumed(d) \in Nat /\ Len(wr[d].acc) \in Nat
         /\ Present(d) \subseteq Chunks
         /\ \A f \in Present(d) : f[1] \in Nat /\ First(f) \in Nat /\ Last(f) \in Nat
  <1>1. SpoolType /\ DirInv(d) /\ BytesInv(d) /\ ChunkInv(d) /\ EndInv(d)
    BY DEF SpoolInv, DirInv
  <1>2. Consumed(d) \in Nat /\ Len(wr[d].acc) \in Nat
    <2>1. rd[d].got \in Seq(Nat) /\ rd[d].buf \in Seq(Nat) /\ wr[d].acc \in Seq(Nat)
      BY <1>1, Fields
    <2>2. Len(rd[d].got) \in Nat /\ Len(rd[d].buf) \in Nat /\ Len(wr[d].acc) \in Nat
      BY <2>1, LenNat
    <2>. DEFINE a == Len(rd[d].got)
                b == Len(rd[d].buf)
    <2>3. a \in Nat /\ b \in Nat /\ Consumed(d) = a + b
      BY <2>2 DEF Consumed
    <2>. HIDE DEF a, b
    <2>4. Consumed(d) \in Nat
      BY <2>3
    <2>. QED BY <2>2, <2>4
  <1>3. wr[d].fut \in Chunks \cup {<<>>} /\ there[d] \subseteq Chunks
    BY <1>1, Fields
  <1>4. Present(d) \subseteq Chunks
    BY <1>3 DEF Present
  <1>5. \A f \in Present(d) : First(f) \in Nat
    BY <1>1 DEF ChunkInv, IsInterval
  <1>6. \A f \in Chunks : f[1] \in Nat /\ Len(f[2]) \in Nat
    BY ChunkFields
  <1>. QED BY <1>1, <1>2, <1>4, <1>5, <1>6 DEF Last

LEMMA WriteKeeps ==
  ASSUME SpoolInv, NEW d \in Dirs, NEW k \in 1 .. MaxChunkLen, poll_write(d, k)
  PROVE  DirInv(d)'
  <1>. DEFINE n == Len(wr[d].acc)
              s == wr[d].seq
              data == Bytes(n, k)
              f0 == <<s, data>>
  <1>0. /\ BytesInv(d) /\ ChunkInv(d) /\ EndInv(d) /\ Consumed(d) \in Nat
        /\ \A f \in Present(d) : f[1] \in Nat /\ First(f) \in Nat /\ Last(f) \in Nat
    BY ChunkFacts
  <1>1. k \in Nat /\ k >= 1 /\ n \in Nat /\ s \in Nat /\ wr[d].acc = Bytes(0, n) /\ rd[d].seq \in Nat
    BY Bounds, Fields, ChunkFacts DEF BytesInv
  <1>2. Bytes(0, n) \o data = Bytes(0, n + k)
    BY <1>1, BytesAppend
  <1>3. wr' = [wr EXCEPT ![d].seq = @ + 1, ![d].acc = @ \o data, ![d].fut = f0]
    BY DEF poll_write
  <1>4. /\ wr[d].shut = "no" /\ wr[d].fut = <<>>
        /\ UNCHANGED <<rd, there, here, sentinel>>
    BY DEF poll_write
  <1>5. First(f0) = n /\ Last(f0) = n + k /\ IsInterval(f0) /\ f0[1] = s /\ f0 # <<>>
    BY <1>1, ChunkAt, SMTT(30)
  <1>. HIDE DEF f0, data
  <1>6. wr \in [Dirs -> WriterType]
    BY DEF SpoolInv, SpoolType
  <1>7. /\ wr'[d].seq = s + 1 /\ wr'[d].acc = wr[d].acc \o data /\ wr'[d].fut = f0
        /\ wr'[d].shut = wr[d].shut
    BY <1>3, <1>6 DEF WriterType
  <1>8. wr'[d].acc = Bytes(0, n + k)
    BY <1>1, <1>2, <1>7
  <1>9. Len(wr'[d].acc) = n + k
    BY <1>1, <1>8, BytesLen
  <1>10. Consumed(d)' = Consumed(d) /\ rd'[d] = rd[d] /\ there'[d] = there[d] /\ here'[d] = here[d]
         /\ sentinel'[d] = sentinel[d]
    BY <1>4 DEF Consumed
  <1>11. Present(d) = there[d] /\ Present(d)' = there[d] \cup {f0}
    BY <1>4, <1>5, <1>7 DEF Present
  <1>12. BytesInv(d)'
    BY <1>0, <1>1, <1>8, <1>9, <1>10 DEF BytesInv
  <1>13. ChunkInv(d)'
    <2>. DEFINE P == there[d]
    <2>1. /\ rd[d].seq <= s /\ (rd[d].seq = s => Consumed(d) = n) /\ here[d] \subseteq P
          /\ \A f \in P :
               /\ IsInterval(f) /\ Last(f) <= n
               /\ rd[d].seq <= f[1] /\ f[1] < s
               /\ f[1] = rd[d].seq => First(f) = Consumed(d)
               /\ f[1] = s - 1 => Last(f) = n
               /\ \A g \in P : (g[1] = f[1] => g = f) /\ (g[1] = f[1] + 1 => First(g) = Last(f))
               /\ f[1] \in Nat /\ First(f) \in Nat /\ Last(f) \in Nat
      BY <1>0, <1>11 DEF ChunkInv
    <2>2. f0 \notin P
      BY <1>1, <1>5, <2>1
    <2>3. \A f \in P \cup {f0} :
               /\ IsInterval(f) /\ Last(f) <= n + k
               /\ rd[d].seq <= f[1] /\ f[1] < s + 1
               /\ f[1] = rd[d].seq => First(f) = Consumed(d)
               /\ f[1] = s + 1 - 1 => Last(f) = n + k
      BY <1>1, <1>5, <2>1
    <2>4. \A f, g \in P \cup {f0} :
               (g[1] = f[1] => g = f) /\ (g[1] = f[1] + 1 => First(g) = Last(f))
      BY <1>1, <1>5, <2>1, SMTT(30)
    <2>5. \A f : First(f)' = First(f) /\ Last(f)' = Last(f) /\ IsInterval(f)' = IsInterval(f)
      BY DEF First, Last, IsInterval
    <2>. QED BY <1>1, <1>5, <1>7, <1>9, <1>10, <1>11, <2>1, <2>2, <2>3, <2>4, <2>5 DEF ChunkInv
  <1>14. EndInv(d)'
    BY <1>0, <1>4, <1>7, <1>10 DEF EndInv, Names
  <1>. QED BY <1>12, <1>13, <1>14 DEF DirInv


LEMMA LandsKeeps ==
  ASSUME SpoolInv, NEW d \in Dirs, ChunkLands(d) \/ ChunkFails(d) \/ WriterDies(d)
  PROVE  DirInv(d)'
  <1>0. /\ BytesInv(d) /\ ChunkInv(d) /\ EndInv(d) /\ Consumed(d) \in Nat
        /\ \A f \in Present(d) : f[1] \in Nat /\ First(f) \in Nat /\ Last(f) \in Nat
    BY ChunkFacts
  <1>1. wr \in [Dirs -> WriterType] /\ there \in [Dirs -> SUBSET Chunks]
    BY DEF SpoolInv, SpoolType
  <1>2. /\ wr'[d].seq = wr[d].seq /\ wr'[d].acc = wr[d].acc /\ wr'[d].shut = wr[d].shut
        /\ wr'[d].fut = <<>>
    <2>1. CASE ChunkLands(d)
      BY <1>1, <2>1 DEF ChunkLands, WriterType
    <2>2. CASE ChunkFails(d)
      BY <1>1, <2>2 DEF ChunkFails, WriterType
    <2>3. CASE WriterDies(d)
      BY <1>1, <2>3 DEF WriterDies, WriterType
    <2>. QED BY <2>1, <2>2, <2>3
  <1>3. /\ there[d] \subseteq there'[d] /\ there'[d] \subseteq Present(d)
        /\ UNCHANGED <<rd, here, sentinel>>
    <2>1. CASE ChunkLands(d)
      <3>1. there'[d] = there[d] \cup {wr[d].fut} /\ wr[d].fut # <<>>
        BY <1>1, <2>1 DEF ChunkLands
      <3>. QED BY <2>1, <3>1 DEF ChunkLands, Present
    <2>2. CASE ChunkFails(d) \/ WriterDies(d)
      BY <2>2 DEF ChunkFails, WriterDies, Present
    <2>. QED BY <2>1, <2>2
  <1>4. Present(d)' \subseteq Present(d)
    BY <1>2, <1>3 DEF Present
  <1>5. Consumed(d)' = Consumed(d)
    BY <1>3 DEF Consumed
  <1>6. BytesInv(d)'
    BY <1>0, <1>2, <1>3, <1>5 DEF BytesInv
  <1>7. ChunkInv(d)'
    <2>1. \A f : First(f)' = First(f) /\ Last(f)' = Last(f) /\ IsInterval(f)' = IsInterval(f)
      BY DEF First, Last, IsInterval
    <2>. QED BY <1>0, <1>2, <1>3, <1>4, <1>5, <2>1 DEF ChunkInv
  <1>8. EndInv(d)'
    BY <1>0, <1>2, <1>3 DEF EndInv, Names
  <1>. QED BY <1>6, <1>7, <1>8 DEF DirInv

LEMMA ShutKeeps ==
  ASSUME SpoolInv, NEW d \in Dirs, poll_shutdown(d) \/ SentinelGrows(d) \/ SentinelWritten(d)
  PROVE  DirInv(d)'
  <1>0. BytesInv(d) /\ ChunkInv(d) /\ EndInv(d) /\ Consumed(d) \in Nat /\ wr[d].seq \in Nat
    BY ChunkFacts, Fields
  <1>1. wr \in [Dirs -> WriterType] /\ sentinel \in [Dirs -> [w : Int, r : Int]]
    BY DEF SpoolInv, SpoolType
  <1>2. /\ wr'[d].seq = wr[d].seq /\ wr'[d].acc = wr[d].acc /\ wr'[d].fut = wr[d].fut
        /\ UNCHANGED <<rd, there, here>>
    <2>1. CASE poll_shutdown(d)
      BY <1>1, <2>1 DEF poll_shutdown, WriterType
    <2>2. CASE SentinelWritten(d)
      BY <1>1, <2>2 DEF SentinelWritten, WriterType
    <2>3. CASE SentinelGrows(d)
      BY <2>3 DEF SentinelGrows
    <2>. QED BY <2>1, <2>2, <2>3
  <1>3. wr[d].fut = <<>>
    BY <1>0 DEF poll_shutdown, SentinelGrows, SentinelWritten, EndInv
  <1>4. Present(d)' = Present(d) /\ Consumed(d)' = Consumed(d)
    BY <1>2 DEF Present, Consumed
  <1>5. BytesInv(d)'
    BY <1>0, <1>2, <1>4 DEF BytesInv
  <1>6. ChunkInv(d)'
    <2>1. \A f : First(f)' = First(f) /\ Last(f)' = Last(f) /\ IsInterval(f)' = IsInterval(f)
      BY DEF First, Last, IsInterval
    <2>. QED BY <1>0, <1>2, <1>4, <2>1 DEF ChunkInv
  <1>7. EndInv(d)'
    <2>1. CASE poll_shutdown(d)
      <3>1. /\ wr[d].shut = "no" /\ wr'[d].shut = "writing"
            /\ sentinel'[d].w = -1 /\ sentinel'[d].r = sentinel[d].r
        BY <1>1, <2>1 DEF poll_shutdown, SentinelIs, WriterType
      <3>. QED BY <1>0, <1>2, <1>3, <3>1 DEF EndInv, Names
    <2>2. CASE SentinelWritten(d)
      <3>1. /\ wr[d].shut = "writing" /\ wr'[d].shut = "done"
            /\ sentinel'[d].w = wr[d].seq - 1 /\ sentinel'[d].r = sentinel[d].r
        BY <1>1, <2>2 DEF SentinelWritten, SentinelIs, WriterType
      <3>. QED BY <1>0, <1>2, <1>3, <3>1 DEF EndInv, Names
    <2>3. CASE SentinelGrows(d)
      <3>1. PICK p \in Leading(wr[d].seq - 1) : sentinel' = [sentinel EXCEPT ![d].w = p]
        BY <2>3 DEF SentinelGrows, SentinelIs
      <3>2. sentinel'[d].w = p /\ sentinel'[d].r = sentinel[d].r
        BY <1>1, <3>1
      <3>3. wr[d].shut = "writing" /\ wr' = wr
        BY <2>3 DEF SentinelGrows
      <3>. QED BY <1>0, <1>2, <1>3, <3>2, <3>3 DEF EndInv, Names
    <2>. QED BY <2>1, <2>2, <2>3
  <1>. QED BY <1>5, <1>6, <1>7 DEF DirInv

LEMMA SyncKeeps ==
  ASSUME SpoolInv, NEW d \in Dirs, Syncs(d)
  PROVE  DirInv(d)'
  <1>0. BytesInv(d) /\ ChunkInv(d) /\ EndInv(d) /\ wr[d].seq \in Nat /\ wr[d].shut \in {"no", "writing", "done"}
    BY ChunkFacts, Fields
  <1>1. sentinel \in [Dirs -> [w : Int, r : Int]] /\ here \in [Dirs -> SUBSET Chunks]
    BY DEF SpoolInv, SpoolType
  <1>2. UNCHANGED <<wr, rd, there>>
    BY DEF Syncs, ChunkSyncs, SentinelSyncs
  <1>3. here'[d] \subseteq there[d]
    BY <1>0, <1>1 DEF Syncs, ChunkSyncs, SentinelSyncs, ChunkInv
  <1>4. /\ sentinel'[d].w = sentinel[d].w
        /\ sentinel'[d].r = sentinel[d].r \/ sentinel'[d].r = sentinel[d].w
    BY <1>1 DEF Syncs, ChunkSyncs, SentinelSyncs
  <1>5. Present(d)' = Present(d) /\ Consumed(d)' = Consumed(d)
    BY <1>2 DEF Present, Consumed
  <1>6. BytesInv(d)'
    BY <1>0, <1>2, <1>5 DEF BytesInv
  <1>7. ChunkInv(d)'
    <2>1. \A f : First(f)' = First(f) /\ Last(f)' = Last(f) /\ IsInterval(f)' = IsInterval(f)
      BY DEF First, Last, IsInterval
    <2>. QED BY <1>0, <1>2, <1>3, <1>5, <2>1 DEF ChunkInv
  <1>8. EndInv(d)'
    <2>1. \A p \in Leading(wr[d].seq - 1) : p \in Int /\ p >= 1
      BY LeadingFacts
    <2>2. sentinel[d].w \in Int /\ sentinel[d].w >= -2 /\ Names(d, sentinel[d].w)
      BY <1>0, <2>1 DEF EndInv, Names
    <2>3. sentinel[d].r \in Int /\ sentinel[d].r >= -2 /\ Names(d, sentinel[d].r)
      BY <1>0 DEF EndInv
    <2>4. sentinel'[d].r \in Int /\ sentinel'[d].r >= -2 /\ Names(d, sentinel'[d].r)
      BY <1>4, <2>2, <2>3
    <2>5. \A n : Names(d, n)' = Names(d, n)
      BY <1>2 DEF Names
    <2>. QED BY <1>0, <1>2, <1>4, <2>4, <2>5 DEF EndInv
  <1>. QED BY <1>6, <1>7, <1>8 DEF DirInv

\* What a chunk read at the reader's place holds, and what TakeChunk makes of it.
LEMMA TakeFacts ==
  ASSUME SpoolInv, NEW d \in Dirs, NEW f \in NextChunk(d), NEW k \in 1 .. Len(f[2]),
         Reading(d), TakeChunk(d, f, k)
  PROVE  /\ f \in Present(d) /\ f \in there[d] /\ Len(f[2]) \in Nat /\ k \in Nat
         /\ Len(rd[d].got) \in Nat /\ Consumed(d) = Len(rd[d].got)
         /\ First(f) = Len(rd[d].got) /\ Last(f) = Len(rd[d].got) + Len(f[2])
         /\ rd'[d].got = Bytes(0, Len(rd[d].got) + k)
         /\ rd'[d].buf = Bytes(Len(rd[d].got) + k, Len(f[2]) - k)
         /\ Len(rd'[d].got) = Len(rd[d].got) + k /\ Len(rd'[d].buf) = Len(f[2]) - k
         /\ rd'[d].seq = rd[d].seq + 1 /\ rd'[d].eof = FALSE /\ rd'[d].at = "look"
         /\ there'[d] = there[d] \ {f} /\ here'[d] = here[d] \ {f}
  <1>. DEFINE g == Len(rd[d].got)
              m == Len(f[2])
  <1>0. /\ BytesInv(d) /\ ChunkInv(d) /\ EndInv(d)
        /\ Present(d) \subseteq Chunks
        /\ rd[d].got \in Seq(Nat) /\ rd[d].seq \in Nat /\ rd[d].buf = <<>>
    BY ChunkFacts, Fields DEF Reading
  <1>1. f \in there[d] /\ f \in Present(d) /\ f[1] = rd[d].seq
    BY <1>0 DEF NextChunk, ChunkInv, Present
  <1>2. f \in Chunks /\ f[2] \in Seq(Nat)
    BY <1>0, <1>1, ChunkFields
  <1>3. m \in Nat /\ g \in Nat /\ Len(rd[d].buf) = 0
    BY <1>0, <1>2, LenNat
  <1>4. k \in Nat /\ k <= m
    BY <1>3
  <1>5. Consumed(d) = g
    BY <1>3 DEF Consumed
  <1>6. IsInterval(f) /\ First(f) = g
    BY <1>0, <1>1, <1>5 DEF ChunkInv
  <1>7. f[2] = Bytes(g, m) /\ Last(f) = g + m
    BY <1>6 DEF IsInterval, Last
  <1>8. rd[d].got = Bytes(0, g)
    BY <1>0 DEF BytesInv
  <1>9. /\ rd' = [rd EXCEPT ![d].seq = @ + 1, ![d].at = "look",
                           ![d].got = @ \o SubSeq(f[2], 1, k),
                           ![d].buf = SubSeq(f[2], k + 1, Len(f[2]))]
        /\ there' = [there EXCEPT ![d] = @ \ {f}] /\ here' = [here EXCEPT ![d] = @ \ {f}]
    BY DEF TakeChunk
  <1>10. /\ rd \in [Dirs -> ReaderType] /\ there \in [Dirs -> SUBSET Chunks]
         /\ here \in [Dirs -> SUBSET Chunks]
    BY DEF SpoolInv, SpoolType
  <1>11. there'[d] = there[d] \ {f} /\ here'[d] = here[d] \ {f}
    BY <1>9, <1>10
  <1>12. /\ rd'[d].got = rd[d].got \o SubSeq(f[2], 1, k)
         /\ rd'[d].buf = SubSeq(f[2], k + 1, Len(f[2]))
         /\ rd'[d].seq = rd[d].seq + 1 /\ rd'[d].eof = rd[d].eof /\ rd'[d].at = "look"
    BY <1>9, <1>10, ZenonT(60) DEF ReaderType
  <1>13. SubSeq(Bytes(g, m), 1, k) = Bytes(g, k) /\ SubSeq(Bytes(g, m), k + 1, m) = Bytes(g + k, m - k)
    BY <1>3, BytesSplit
  <1>14. Bytes(0, g) \o Bytes(g, k) = Bytes(0, g + k)
    BY <1>3, <1>4, BytesAppend
  <1>15. rd'[d].got = Bytes(0, g + k) /\ rd'[d].buf = Bytes(g + k, m - k)
    BY <1>7, <1>8, <1>12, <1>13, <1>14
  <1>16. Len(rd'[d].got) = g + k /\ Len(rd'[d].buf) = m - k
    <2>. HIDE DEF g, m
    <2>1. g + k \in Nat /\ m - k \in Nat
      BY <1>3, <1>4
    <2>2. Len(Bytes(0, g + k)) = g + k /\ Len(Bytes(g + k, m - k)) = m - k
      BY <2>1, BytesLen
    <2>. QED BY <1>15, <2>2
  <1>17. rd'[d].eof = FALSE
    BY <1>12, ChunkFacts, Fields DEF Reading
  <1>. QED BY <1>1, <1>3, <1>4, <1>5, <1>6, <1>7, <1>11, <1>12, <1>15, <1>16, <1>17

LEMMA TakeKeeps ==
  ASSUME SpoolInv, NEW d \in Dirs, NEW f \in NextChunk(d), NEW k \in 1 .. Len(f[2]),
         Reading(d), TakeChunk(d, f, k), UNCHANGED <<wr, sentinel>>
  PROVE  DirInv(d)'
  <1>. DEFINE g == Len(rd[d].got)
              m == Len(f[2])
              n == Len(wr[d].acc)
  <1>0. /\ BytesInv(d) /\ ChunkInv(d) /\ EndInv(d) /\ n \in Nat
        /\ \A h \in Present(d) : h[1] \in Nat /\ First(h) \in Nat /\ Last(h) \in Nat
        /\ rd[d].seq \in Nat /\ wr[d].seq \in Nat
    BY ChunkFacts, Fields
  <1>1. /\ f \in Present(d) /\ f \in there[d] /\ m \in Nat /\ k \in Nat /\ g \in Nat /\ Consumed(d) = g
        /\ First(f) = g /\ Last(f) = g + m
    BY TakeFacts
  <1>2. /\ rd'[d].got = Bytes(0, g + k) /\ rd'[d].buf = Bytes(g + k, m - k)
        /\ Len(rd'[d].got) = g + k /\ Len(rd'[d].buf) = m - k
    BY TakeFacts, ZenonT(60)
  <1>3. rd'[d].seq = rd[d].seq + 1 /\ rd'[d].eof = FALSE /\ rd'[d].at = "look"
    BY TakeFacts
  <1>4. there'[d] = there[d] \ {f} /\ here'[d] = here[d] \ {f}
    BY TakeFacts
  <1>5. f[1] = rd[d].seq
    BY DEF NextChunk
  <1>6. Consumed(d)' = g + m
    <2>1. Consumed(d)' = Len(rd'[d].got) + Len(rd'[d].buf)
      BY DEF Consumed
    <2>2. Consumed(d)' = (g + k) + (m - k)
      BY <1>2, <2>1
    <2>. HIDE DEF g, m
    <2>. QED BY <1>1, <2>2
  <1>7. Last(f) <= n
    BY <1>0, <1>1 DEF ChunkInv
  <1>8. BytesInv(d)'
    BY <1>0, <1>1, <1>2, <1>6, <1>7 DEF BytesInv
  <1>9. ChunkInv(d)'
    <2>1. \A h : First(h)' = First(h) /\ Last(h)' = Last(h) /\ IsInterval(h)' = IsInterval(h)
      BY DEF First, Last, IsInterval
    <2>2. wr[d].fut # f
      BY <1>0, <1>1, ChunkFacts, EmptyNoChunk DEF ChunkInv
    <2>3. Present(d)' = Present(d) \ {f}
      BY <1>4, <2>2 DEF Present
    <2>4. \A h \in Present(d) \ {f} : rd[d].seq + 1 <= h[1]
      BY <1>0, <1>1, <1>5 DEF ChunkInv
    <2>5. \A h \in Present(d) : h[1] = rd[d].seq + 1 => First(h) = g + m
      BY <1>0, <1>1, <1>5 DEF ChunkInv
    <2>6. rd[d].seq + 1 <= wr[d].seq /\ (rd[d].seq + 1 = wr[d].seq => g + m = n)
      <3>1. f[1] < wr[d].seq /\ (f[1] = wr[d].seq - 1 => Last(f) = n)
        BY <1>0, <1>1 DEF ChunkInv
      <3>. HIDE DEF g, m, n
      <3>. QED BY <1>0, <1>1, <1>5, <3>1
    <2>7. here'[d] \subseteq there'[d]
      BY <1>0, <1>4 DEF ChunkInv
    <2>8. wr[d].fut # <<>> => wr[d].fut[1] = wr[d].seq - 1 /\ wr[d].fut \notin there'[d]
      BY <1>0, <1>4 DEF ChunkInv
    <2>9. \A h \in Present(d) \ {f} :
             /\ IsInterval(h) /\ Last(h) <= n /\ h[1] < wr[d].seq
             /\ h[1] = wr[d].seq - 1 => Last(h) = n
      BY <1>0 DEF ChunkInv
    <2>10. wr'[d] = wr[d] /\ rd'[d].seq = rd[d].seq + 1
      BY <1>3
    <2>11. rd'[d].seq <= wr'[d].seq /\ (rd'[d].seq = wr'[d].seq => Consumed(d)' = Len(wr'[d].acc))
      BY <1>6, <2>6, <2>10
    <2>12. \A h \in Present(d)' :
             /\ IsInterval(h)' /\ Last(h)' <= Len(wr'[d].acc)
             /\ rd'[d].seq <= h[1] /\ h[1] < wr'[d].seq
             /\ h[1] = rd'[d].seq => First(h)' = Consumed(d)'
             /\ h[1] = wr'[d].seq - 1 => Last(h)' = Len(wr'[d].acc)
      <3>. SUFFICES ASSUME NEW h \in Present(d) \ {f}
                    PROVE  /\ IsInterval(h) /\ Last(h) <= n
                           /\ rd[d].seq + 1 <= h[1] /\ h[1] < wr[d].seq
                           /\ h[1] = rd[d].seq + 1 => First(h) = g + m
                           /\ h[1] = wr[d].seq - 1 => Last(h) = n
        BY <1>6, <2>1, <2>3, <2>10
      <3>. QED BY <2>4, <2>5, <2>9
    <2>13. \A h, i \in Present(d)' : /\ i[1] = h[1] => i = h
                                     /\ i[1] = h[1] + 1 => First(i)' = Last(h)'
      <3>. SUFFICES ASSUME NEW h \in Present(d) \ {f}, NEW i \in Present(d) \ {f}
                    PROVE  (i[1] = h[1] => i = h) /\ (i[1] = h[1] + 1 => First(i) = Last(h))
        BY <2>1, <2>3
      <3>. QED BY <1>0 DEF ChunkInv
    <2>14. wr'[d].fut # <<>> => wr'[d].fut[1] = wr'[d].seq - 1 /\ wr'[d].fut \notin there'[d]
      BY <2>8, <2>10
    <2>. QED BY <2>7, <2>11, <2>12, <2>13, <2>14 DEF ChunkInv
  <1>10. EndInv(d)'
    BY <1>0, <1>3 DEF EndInv, Names
  <1>. QED BY <1>8, <1>9, <1>10 DEF DirInv

LEMMA LookKeeps ==
  ASSUME SpoolInv, NEW d \in Dirs, LookForChunk(d) \/ LookAgain(d)
  PROVE  DirInv(d)'
  <1>0. /\ Reading(d) /\ UNCHANGED <<wr, sentinel>>
    BY DEF LookForChunk, LookAgain
  <1>1. CASE \E f \in NextChunk(d) : \E k \in 1 .. Len(f[2]) : TakeChunk(d, f, k)
    BY <1>0, <1>1, TakeKeeps
  <1>2. CASE ~ \E f \in NextChunk(d) : \E k \in 1 .. Len(f[2]) : TakeChunk(d, f, k)
    <2>1. rd' = [rd EXCEPT ![d].at = "look", ![d].eof = IsLast(d)] /\ UNCHANGED <<there, here>>
      BY <1>2 DEF LookForChunk, LookAgain
    <2>2. rd \in [Dirs -> ReaderType]
      BY DEF SpoolInv, SpoolType
    <2>3. /\ rd'[d].seq = rd[d].seq /\ rd'[d].got = rd[d].got /\ rd'[d].buf = rd[d].buf
          /\ rd'[d].at = "look"
      BY <2>1, <2>2 DEF ReaderType
    <2>4. BytesInv(d) /\ ChunkInv(d) /\ EndInv(d) /\ rd[d].buf = <<>>
      BY <1>0, ChunkFacts DEF Reading
    <2>5. Present(d)' = Present(d) /\ Consumed(d)' = Consumed(d)
      BY <1>0, <2>1, <2>3 DEF Present, Consumed
    <2>6. BytesInv(d)'
      BY <1>0, <2>3, <2>4, <2>5 DEF BytesInv
    <2>7. ChunkInv(d)'
      <3>1. \A f : First(f)' = First(f) /\ Last(f)' = Last(f) /\ IsInterval(f)' = IsInterval(f)
        BY DEF First, Last, IsInterval
      <3>. QED BY <1>0, <2>1, <2>3, <2>4, <2>5, <3>1 DEF ChunkInv
    <2>8. EndInv(d)'
      <3>1. rd'[d].eof = IsLast(d) /\ rd'[d].final = rd[d].final
        BY <2>1, <2>2 DEF ReaderType
      <3>2. rd[d].final \in Int /\ (rd[d].final >= -1 /\ Names(d, rd[d].final))
        BY <1>2, <2>4, ChunkFacts, Fields DEF LookForChunk, LookAgain, EndInv
      <3>3. rd'[d].eof => rd'[d].final >= 0 /\ Names(d, rd'[d].final)
        <4>1. IsLast(d) => rd[d].final # -1
          BY DEF IsLast
        <4>2. IsLast(d) => rd[d].final >= 0
          BY <3>2, <4>1
        <4>. QED BY <3>1, <3>2, <4>2
      <3>4. \A n : Names(d, n)' = Names(d, n)
        BY <1>0 DEF Names
      <3>. QED BY <1>0, <2>3, <2>4, <3>3, <3>4 DEF EndInv
    <2>. QED BY <2>6, <2>7, <2>8 DEF DirInv
  <1>. QED BY <1>1, <1>2

\* A failed read ends the stream for the caller and changes nothing else.
LEMMA FailKeeps ==
  ASSUME SpoolInv, NEW d \in Dirs, ReadFails(d)
  PROVE  DirInv(d)'
  <1>0. BytesInv(d) /\ ChunkInv(d) /\ EndInv(d) /\ rd[d].buf = <<>>
    BY ChunkFacts DEF ReadFails, Reading
  <1>1. rd \in [Dirs -> ReaderType]
    BY DEF SpoolInv, SpoolType
  <1>2. /\ rd' = [rd EXCEPT ![d].eof = TRUE, ![d].at = "failed"]
        /\ UNCHANGED <<wr, there, here, sentinel>>
    BY DEF ReadFails
  <1>3. /\ rd'[d].seq = rd[d].seq /\ rd'[d].got = rd[d].got /\ rd'[d].buf = rd[d].buf
        /\ rd'[d].at = "failed"
    BY <1>1, <1>2 DEF ReaderType
  <1>4. Present(d)' = Present(d) /\ Consumed(d)' = Consumed(d)
    BY <1>2, <1>3 DEF Present, Consumed
  <1>5. BytesInv(d)'
    BY <1>0, <1>2, <1>3, <1>4 DEF BytesInv
  <1>6. ChunkInv(d)'
    <2>1. \A f : First(f)' = First(f) /\ Last(f)' = Last(f) /\ IsInterval(f)' = IsInterval(f)
      BY DEF First, Last, IsInterval
    <2>. QED BY <1>0, <1>2, <1>3, <1>4, <2>1 DEF ChunkInv
  <1>7. EndInv(d)'
    BY <1>0, <1>2, <1>3 DEF EndInv, Names
  <1>. QED BY <1>5, <1>6, <1>7 DEF DirInv

LEMMA SentinelKeeps ==
  ASSUME SpoolInv, NEW d \in Dirs, ReadSentinel(d)
  PROVE  DirInv(d)'
  <1>0. BytesInv(d) /\ ChunkInv(d) /\ EndInv(d) /\ rd[d].buf = <<>>
    BY ChunkFacts DEF ReadSentinel, Reading
  <1>1. rd \in [Dirs -> ReaderType]
    BY DEF SpoolInv, SpoolType
  <1>2. /\ rd' = [rd EXCEPT ![d].at = "again", ![d].final = sentinel[d].r]
        /\ sentinel[d].r # -2 /\ UNCHANGED <<wr, there, here, sentinel>>
    BY DEF ReadSentinel
  <1>3. /\ rd'[d].seq = rd[d].seq /\ rd'[d].got = rd[d].got /\ rd'[d].buf = rd[d].buf
        /\ rd'[d].eof = rd[d].eof /\ rd'[d].final = sentinel[d].r
    BY <1>1, <1>2 DEF ReaderType
  <1>4. Present(d)' = Present(d) /\ Consumed(d)' = Consumed(d)
    BY <1>2, <1>3 DEF Present, Consumed
  <1>5. BytesInv(d)'
    BY <1>0, <1>2, <1>3, <1>4 DEF BytesInv
  <1>6. ChunkInv(d)'
    <2>1. \A f : First(f)' = First(f) /\ Last(f)' = Last(f) /\ IsInterval(f)' = IsInterval(f)
      BY DEF First, Last, IsInterval
    <2>. QED BY <1>0, <1>2, <1>3, <1>4, <2>1 DEF ChunkInv
  <1>7. EndInv(d)'
    <2>1. sentinel[d].r \in Int /\ sentinel[d].r >= -2 /\ Names(d, sentinel[d].r)
      BY <1>0 DEF EndInv
    <2>2. sentinel[d].r >= -1 /\ Names(d, sentinel[d].r)'
      BY <1>2, <2>1 DEF Names
    <2>3. rd'[d].final >= -1 /\ Names(d, rd[d].final)'
      BY <1>2, <1>3, <2>2 DEF Names
    <2>4. rd[d].eof = FALSE
      BY Fields, ChunkFacts DEF ReadSentinel, Reading
    <2>. QED BY <2>4, <1>0, <1>2, <1>3, <2>1, <2>2, <2>3 DEF EndInv
  <1>. QED BY <1>5, <1>6, <1>7 DEF DirInv

\* What serving the rest of a chunk makes of the buffer.
LEMMA ServeFacts ==
  ASSUME SpoolInv, NEW d \in Dirs, ServeBuffer(d)
  PROVE  \E k \in 1 .. Len(rd[d].buf) :
           /\ Len(rd[d].got) \in Nat /\ Len(rd[d].buf) \in Nat
           /\ rd'[d].got = Bytes(0, Len(rd[d].got) + k)
           /\ rd'[d].buf = Bytes(Len(rd[d].got) + k, Len(rd[d].buf) - k)
           /\ Len(rd'[d].got) = Len(rd[d].got) + k /\ Len(rd'[d].buf) = Len(rd[d].buf) - k
           /\ rd'[d].seq = rd[d].seq /\ rd'[d].eof = rd[d].eof /\ rd'[d].at = rd[d].at
           /\ rd'[d].final = rd[d].final
  <1>. DEFINE g == Len(rd[d].got)
              m == Len(rd[d].buf)
  <1>1. PICK k \in 1 .. Len(rd[d].buf) :
          rd' = [rd EXCEPT ![d].got = @ \o SubSeq(rd[d].buf, 1, k),
                           ![d].buf = SubSeq(@, k + 1, Len(@))]
    BY DEF ServeBuffer
  <1>2. rd[d].got \in Seq(Nat) /\ rd[d].buf \in Seq(Nat) /\ BytesInv(d)
    BY ChunkFacts, Fields
  <1>3. g \in Nat /\ m \in Nat
    BY <1>2, LenNat
  <1>4. k \in Nat /\ k <= m
    BY <1>3
  <1>5. rd[d].got = Bytes(0, g) /\ rd[d].buf = Bytes(g, m)
    BY <1>2 DEF BytesInv
  <1>6. rd \in [Dirs -> ReaderType]
    BY DEF SpoolInv, SpoolType
  <1>7. /\ rd'[d].got = rd[d].got \o SubSeq(rd[d].buf, 1, k)
        /\ rd'[d].buf = SubSeq(rd[d].buf, k + 1, m)
    BY <1>1, <1>6 DEF ReaderType
  <1>8. /\ rd'[d].seq = rd[d].seq /\ rd'[d].eof = rd[d].eof /\ rd'[d].at = rd[d].at
        /\ rd'[d].final = rd[d].final
    BY <1>1, <1>6 DEF ReaderType
  <1>9. SubSeq(Bytes(g, m), 1, k) = Bytes(g, k) /\ SubSeq(Bytes(g, m), k + 1, m) = Bytes(g + k, m - k)
    BY <1>3, BytesSplit
  <1>10. Bytes(0, g) \o Bytes(g, k) = Bytes(0, g + k)
    BY <1>3, <1>4, BytesAppend
  <1>11. rd'[d].got = Bytes(0, g + k) /\ rd'[d].buf = Bytes(g + k, m - k)
    BY <1>5, <1>7, <1>9, <1>10
  <1>12. Len(rd'[d].got) = g + k /\ Len(rd'[d].buf) = m - k
    <2>. HIDE DEF g, m
    <2>1. g + k \in Nat /\ m - k \in Nat
      BY <1>3, <1>4
    <2>2. Len(Bytes(0, g + k)) = g + k /\ Len(Bytes(g + k, m - k)) = m - k
      BY <2>1, BytesLen
    <2>. QED BY <1>11, <2>2
  <1>. QED BY <1>3, <1>8, <1>11, <1>12

LEMMA ServeKeeps ==
  ASSUME SpoolInv, NEW d \in Dirs, ServeBuffer(d)
  PROVE  DirInv(d)'
  <1>0. BytesInv(d) /\ ChunkInv(d) /\ EndInv(d) /\ Len(wr[d].acc) \in Nat
    BY ChunkFacts
  <1>1. rd[d].buf # <<>> /\ UNCHANGED <<wr, there, here, sentinel>>
    BY DEF ServeBuffer
  <1>. DEFINE g == Len(rd[d].got)
              m == Len(rd[d].buf)
  <1>2. PICK k \in 1 .. m :
           /\ g \in Nat /\ m \in Nat
           /\ rd'[d].got = Bytes(0, g + k) /\ rd'[d].buf = Bytes(g + k, m - k)
           /\ Len(rd'[d].got) = g + k /\ Len(rd'[d].buf) = m - k
           /\ rd'[d].seq = rd[d].seq /\ rd'[d].eof = rd[d].eof /\ rd'[d].at = rd[d].at
           /\ rd'[d].final = rd[d].final
    BY ServeFacts
  <1>3. k \in Nat /\ k <= m
    BY <1>2
  <1>4. Consumed(d)' = Consumed(d)
    <2>1. Consumed(d)' = Len(rd'[d].got) + Len(rd'[d].buf) /\ Consumed(d) = g + m
      BY DEF Consumed
    <2>2. Consumed(d)' = (g + k) + (m - k)
      BY <1>2, <2>1
    <2>. HIDE DEF g, m
    <2>. QED BY <1>2, <1>3, <2>1, <2>2
  <1>5. Present(d)' = Present(d)
    BY <1>1 DEF Present
  <1>6. BytesInv(d)'
    BY <1>0, <1>1, <1>2, <1>4 DEF BytesInv
  <1>7. ChunkInv(d)'
    <2>1. \A f : First(f)' = First(f) /\ Last(f)' = Last(f) /\ IsInterval(f)' = IsInterval(f)
      BY DEF First, Last, IsInterval
    <2>. QED BY <1>0, <1>1, <1>2, <1>4, <1>5, <2>1 DEF ChunkInv
  <1>8. EndInv(d)'
    <2>1. rd'[d].eof => rd'[d].buf = <<>>
      BY <1>0, <1>1, <1>2 DEF EndInv
    <2>. QED BY <1>0, <1>1, <1>2, <2>1 DEF EndInv, Names
  <1>. QED BY <1>6, <1>7, <1>8 DEF DirInv

-----------------------------------------------------------------------------
(* The operations on the session. *)

\* A stream that is not open has the fields it will be opened with.
LEMMA OpenSame ==
  ASSUME SpoolInv, NEW d \in Dirs
  PROVE  /\ wr[d].at \in {"unopened", "unused"} =>
              /\ wr[d].seq = Opened.seq /\ wr[d].acc = Opened.acc
              /\ wr[d].fut = Opened.fut /\ wr[d].shut = Opened.shut
         /\ rd[d].at = "unopened" =>
              /\ rd[d].seq = OpenedRd.seq /\ rd[d].eof = OpenedRd.eof /\ rd[d].buf = OpenedRd.buf
              /\ rd[d].got = OpenedRd.got /\ rd[d].final = OpenedRd.final
  <1>1. /\ wr[d].at \in {"unopened", "unused"} => wr[d] = [Opened EXCEPT !.at = wr[d].at]
        /\ rd[d].at = "unopened" => rd[d] = [OpenedRd EXCEPT !.at = "unopened"]
    BY DEF SpoolInv, OpenInv
  <1>. QED BY <1>1 DEF Opened, OpenedRd

LEMMA SessionKeeps ==
  ASSUME SpoolInv,
         ClientOpens \/ PublishReady
           \/ \E l \in Listeners : ScanReady(l) \/ Claim(l) \/ ClaimFails(l)
  PROVE  \A d \in Dirs : DirInv(d)'
  <1>0. \A d \in Dirs : DirInv(d)
    BY DEF SpoolInv
  <1>1. UNCHANGED <<there, here, sentinel>>
    BY DEF ClientOpens, PublishReady, ScanReady, Claim, ClaimFails
  <1>2. wr \in [Dirs -> WriterType] /\ rd \in [Dirs -> ReaderType]
    BY DEF SpoolInv, SpoolType
  <1>3. OpenedRd.at # "again"
    BY DEF OpenedRd
  <1>4. CASE UNCHANGED <<wr, rd>>
    BY <1>0, <1>1, <1>4, OtherDir
  <1>5. CASE ClientOpens
    <2>1. /\ wr[("c2s")].at = "unopened" /\ rd["s2c"].at = "unopened"
          /\ wr' = [wr EXCEPT !["c2s"] = Opened] /\ rd' = [rd EXCEPT !["s2c"] = OpenedRd]
      BY <1>5 DEF ClientOpens, SpoolInv, OpenInv
    <2>2. DirInv("c2s")'
      <3>1. "c2s" \in Dirs /\ wr'["c2s"] = Opened /\ rd'["c2s"] = rd["c2s"]
        BY <1>2, <2>1 DEF Dirs
      <3>. QED BY <1>0, <1>1, <2>1, <3>1, OpenSame, SameFields
    <2>3. DirInv("s2c")'
      <3>1. "s2c" \in Dirs /\ wr'["s2c"] = wr["s2c"] /\ rd'["s2c"] = OpenedRd
        BY <1>2, <2>1 DEF Dirs
      <3>. QED BY <1>0, <1>1, <1>3, <2>1, <3>1, OpenSame, SameFields
    <2>. QED BY <2>2, <2>3 DEF Dirs
  <1>6. ASSUME NEW l \in Listeners, Claim(l), ~UNCHANGED <<wr, rd>>
        PROVE  \A d \in Dirs : DirInv(d)'
    <2>1. /\ wr["s2c"].at = "unopened" /\ rd["c2s"].at = "unopened"
          /\ wr' = [wr EXCEPT !["s2c"] = Opened] /\ rd' = [rd EXCEPT !["c2s"] = OpenedRd]
      BY <1>6 DEF Claim, SpoolInv, OpenInv
    <2>2. DirInv("s2c")'
      <3>1. "s2c" \in Dirs /\ wr'["s2c"] = Opened /\ rd'["s2c"] = rd["s2c"]
        BY <1>2, <2>1 DEF Dirs
      <3>. QED BY <1>0, <1>1, <2>1, <3>1, OpenSame, SameFields
    <2>3. DirInv("c2s")'
      <3>1. "c2s" \in Dirs /\ wr'["c2s"] = wr["c2s"] /\ rd'["c2s"] = OpenedRd
        BY <1>2, <2>1 DEF Dirs
      <3>. QED BY <1>0, <1>1, <1>3, <2>1, <3>1, OpenSame, SameFields
    <2>. QED BY <2>2, <2>3 DEF Dirs
  <1>. QED BY <1>4, <1>5, <1>6 DEF PublishReady, ScanReady, ClaimFails

\* An operation on a stream needs it open, and leaves it opened.
LEMMA WriterStays ==
  ASSUME SpoolInv, NEW d \in Dirs,
         \/ \E k \in 1 .. MaxChunkLen : poll_write(d, k)
         \/ ChunkLands(d) \/ ChunkFails(d) \/ WriterDies(d) \/ poll_shutdown(d)
         \/ SentinelGrows(d) \/ SentinelWritten(d)
  PROVE  /\ UNCHANGED <<rd, marks, lis>>
         /\ wr[d].at \in {"open", "failed"} /\ wr'[d].at \in {"open", "failed"}
         /\ \A e \in Dirs \ {d} : wr'[e] = wr[e]
  <1>1. UNCHANGED <<rd, marks, lis>>
    BY DEF poll_write, ChunkLands, ChunkFails, WriterDies, poll_shutdown, SentinelGrows,
           SentinelWritten
  <1>2. wr \in [Dirs -> WriterType]
    BY DEF SpoolInv, SpoolType
  <1>3. wr[d].at \in {"open", "failed"}
    <2>1. CASE wr[d].fut # <<>>
      BY <2>1, OpenSame, Fields DEF SpoolInv, Opened
    <2>2. CASE wr[d].fut = <<>>
      BY <2>2 DEF poll_write, ChunkLands, ChunkFails, WriterDies, poll_shutdown, SentinelGrows,
           SentinelWritten
    <2>. QED BY <2>1, <2>2
  <1>4. CASE \E k \in 1 .. MaxChunkLen : poll_write(d, k)
    <2>1. PICK k \in 1 .. MaxChunkLen : poll_write(d, k)
      BY <1>4
    <2>2. wr'[d].at = wr[d].at /\ \A e \in Dirs \ {d} : wr'[e] = wr[e]
      BY <1>2, <2>1 DEF poll_write, WriterType
    <2>. QED BY <1>1, <1>3, <2>2
  <1>5. CASE ChunkLands(d)
    <2>1. wr'[d].at = wr[d].at /\ \A e \in Dirs \ {d} : wr'[e] = wr[e]
      BY <1>2, <1>5 DEF ChunkLands, WriterType
    <2>. QED BY <1>1, <1>3, <2>1
  <1>6. CASE ChunkFails(d)
    <2>1. wr'[d].at = "failed" /\ \A e \in Dirs \ {d} : wr'[e] = wr[e]
      BY <1>2, <1>6 DEF ChunkFails, WriterType
    <2>. QED BY <1>1, <1>3, <2>1
  <1>7. CASE WriterDies(d)
    <2>1. wr'[d].at = "failed" /\ \A e \in Dirs \ {d} : wr'[e] = wr[e]
      BY <1>2, <1>7 DEF WriterDies, WriterType
    <2>. QED BY <1>1, <1>3, <2>1
  <1>8. CASE poll_shutdown(d)
    <2>1. wr'[d].at = wr[d].at /\ \A e \in Dirs \ {d} : wr'[e] = wr[e]
      BY <1>2, <1>8 DEF poll_shutdown, WriterType
    <2>. QED BY <1>1, <1>3, <2>1
  <1>9. CASE SentinelWritten(d)
    <2>1. wr'[d].at = wr[d].at /\ \A e \in Dirs \ {d} : wr'[e] = wr[e]
      BY <1>2, <1>9 DEF SentinelWritten, WriterType
    <2>. QED BY <1>1, <1>3, <2>1
  <1>10. CASE SentinelGrows(d)
    <2>1. wr' = wr
      BY <1>10 DEF SentinelGrows
    <2>. QED BY <1>1, <1>3, <2>1
  <1>. QED BY <1>4, <1>5, <1>6, <1>7, <1>8, <1>9, <1>10

LEMMA ReaderStays ==
  ASSUME SpoolInv, NEW d \in Dirs, ReaderStep(d)
  PROVE  /\ UNCHANGED <<wr, sentinel, marks, lis>>
         /\ rd[d].at # "unopened" /\ rd'[d].at # "unopened"
         /\ \A e \in Dirs \ {d} : /\ rd'[e] = rd[e]
                                  /\ there'[e] = there[e] /\ here'[e] = here[e]
  <1>1. UNCHANGED <<wr, sentinel, marks, lis>>
    BY DEF ReaderStep, LookForChunk, ReadFails, ReadSentinel, LookAgain, ServeBuffer
  <1>2. /\ rd \in [Dirs -> ReaderType]
        /\ there \in [Dirs -> SUBSET Chunks] /\ here \in [Dirs -> SUBSET Chunks]
    BY DEF SpoolInv, SpoolType
  <1>3. CASE LookForChunk(d) \/ LookAgain(d)
    <2>1. Reading(d)
      BY <1>3 DEF LookForChunk, LookAgain
    <2>2. CASE \E f \in NextChunk(d) : \E k \in 1 .. Len(f[2]) : TakeChunk(d, f, k)
      <3>1. PICK f \in NextChunk(d) : \E k \in 1 .. Len(f[2]) : TakeChunk(d, f, k)
        BY <2>2
      <3>2. PICK k \in 1 .. Len(f[2]) : TakeChunk(d, f, k)
        BY <3>1
      <3>3. rd'[d].at = "look" /\ \A e \in Dirs \ {d} : rd'[e] = rd[e]
        BY <1>2, <3>2 DEF TakeChunk, ReaderType
      <3>4. \A e \in Dirs \ {d} : there'[e] = there[e] /\ here'[e] = here[e]
        BY <1>2, <3>2 DEF TakeChunk
      <3>. QED BY <1>1, <2>1, <3>3, <3>4 DEF Reading
    <2>3. CASE ~ \E f \in NextChunk(d) : \E k \in 1 .. Len(f[2]) : TakeChunk(d, f, k)
      <3>1. rd' = [rd EXCEPT ![d].at = "look", ![d].eof = IsLast(d)] /\ UNCHANGED <<there, here>>
        BY <1>3, <2>3 DEF LookForChunk, LookAgain
      <3>2. rd'[d].at = "look" /\ \A e \in Dirs \ {d} : rd'[e] = rd[e]
        BY <1>2, <3>1 DEF ReaderType
      <3>. QED BY <1>1, <2>1, <3>1, <3>2 DEF Reading
    <2>. QED BY <2>2, <2>3
  <1>4. CASE ReadSentinel(d)
    <2>1. rd'[d].at = "again" /\ \A e \in Dirs \ {d} : rd'[e] = rd[e]
      BY <1>2, <1>4 DEF ReadSentinel, ReaderType
    <2>. QED BY <1>1, <1>4, <2>1 DEF ReadSentinel, Reading
  <1>5. CASE ServeBuffer(d)
    <2>1. rd[d].at # "unopened"
      BY <1>5, OpenSame DEF ServeBuffer, OpenedRd
    <2>2. rd'[d].at = rd[d].at /\ \A e \in Dirs \ {d} : rd'[e] = rd[e]
      BY <1>2, <1>5 DEF ServeBuffer, ReaderType
    <2>. QED BY <1>1, <1>5, <2>1, <2>2 DEF ServeBuffer
  <1>6. CASE ReadFails(d)
    <2>1. rd'[d].at = "failed" /\ \A e \in Dirs \ {d} : rd'[e] = rd[e]
      BY <1>2, <1>6 DEF ReadFails, ReaderType
    <2>. QED BY <1>1, <1>6, <2>1 DEF ReadFails, Reading
  <1>. QED BY <1>3, <1>4, <1>5, <1>6 DEF ReaderStep

LEMMA OpenStep ==
  ASSUME SpoolInv, [SpoolNext]_spoolVars
  PROVE  OpenInv'
  <1>0. OpenInv /\ wr \in [Dirs -> WriterType] /\ rd \in [Dirs -> ReaderType]
    BY DEF SpoolInv, SpoolType
  <1>. USE DEF OpenInv
  <1>1. CASE ClientOpens
    <2>1. /\ wr'["c2s"] = Opened /\ wr'["s2c"] = wr["s2c"]
          /\ rd'["s2c"] = OpenedRd /\ rd'["c2s"] = rd["c2s"] /\ marks' = marks
      BY <1>0, <1>1 DEF ClientOpens, Dirs
    <2>2. Opened.at = "open" /\ OpenedRd.at = "look"
      BY DEF Opened, OpenedRd
    <2>. QED BY <1>0, <1>1, <2>1, <2>2 DEF ClientOpens, Dirs
  <1>2. CASE PublishReady
    BY <1>0, <1>2 DEF PublishReady
  <1>3. ASSUME NEW l \in Listeners, ScanReady(l) \/ ClaimFails(l)
        PROVE  OpenInv'
    <2>1. CASE ScanReady(l)
      BY <1>0, <2>1 DEF ScanReady
    <2>2. CASE ClaimFails(l)
      <3>1. "ready" \in marks
        BY <2>2 DEF ClaimFails, SpoolInv, ListenerInv
      <3>. QED BY <1>0, <2>2, <3>1 DEF ClaimFails
    <2>. QED BY <1>3, <2>1, <2>2
  <1>4. ASSUME NEW l \in Listeners, Claim(l)
        PROVE  OpenInv'
    <2>1. "ready" \in marks /\ marks' = marks \cup {"claimed"}
      BY <1>4 DEF Claim, SpoolInv, ListenerInv
    <2>2. CASE "claimed" \in marks
      BY <1>0, <1>4, <2>1, <2>2 DEF Claim
    <2>3. CASE "claimed" \notin marks
      <3>1. /\ wr'["s2c"] = Opened /\ wr'["c2s"] = wr["c2s"]
            /\ rd'["c2s"] = OpenedRd /\ rd'["s2c"] = rd["s2c"]
        BY <1>0, <1>4, <2>3 DEF Claim, Dirs
      <3>2. Opened.at = "open" /\ OpenedRd.at = "look"
        BY DEF Opened, OpenedRd
      <3>. QED BY <1>0, <2>1, <2>3, <3>1, <3>2 DEF Dirs
    <2>. QED BY <2>2, <2>3
  <1>5. ASSUME NEW d \in Dirs,
               \/ \E k \in 1 .. MaxChunkLen : poll_write(d, k)
               \/ ChunkLands(d) \/ ChunkFails(d) \/ WriterDies(d) \/ poll_shutdown(d)
               \/ SentinelGrows(d) \/ SentinelWritten(d)
        PROVE  OpenInv'
    <2>1. /\ UNCHANGED <<rd, marks, lis>>
          /\ wr[d].at \in {"open", "failed"} /\ wr'[d].at \in {"open", "failed"}
          /\ \A e \in Dirs \ {d} : wr'[e] = wr[e]
      BY <1>5, WriterStays
    <2>. QED BY <1>0, <2>1 DEF Dirs
  <1>6. ASSUME NEW d \in Dirs, ReaderStep(d)
        PROVE  OpenInv'
    <2>1. /\ UNCHANGED <<wr, marks, lis>>
          /\ rd[d].at # "unopened" /\ rd'[d].at # "unopened"
          /\ \A e \in Dirs \ {d} : rd'[e] = rd[e]
      BY <1>6, ReaderStays
    <2>. QED BY <1>0, <2>1 DEF Dirs
  <1>7. ASSUME NEW d \in Dirs, Syncs(d)
        PROVE  OpenInv'
    BY <1>0, <1>7 DEF Syncs, ChunkSyncs, SentinelSyncs
  <1>8. CASE UNCHANGED spoolVars
    BY <1>0, <1>8 DEF spoolVars
  <1>. HIDE DEF OpenInv
  <1>. QED BY <1>1, <1>2, <1>3, <1>4, <1>5, <1>6, <1>7, <1>8 DEF SpoolNext

LEMMA ListenerStep ==
  ASSUME SpoolInv, [SpoolNext]_spoolVars
  PROVE  ListenerInv'
  <1>0. /\ ListenerInv
        /\ lis \in [Listeners -> [at : {"scan", "claim", "serves"}, seen : BOOLEAN]]
    BY DEF SpoolInv, SpoolType
  <1>1. ASSUME NEW l \in Listeners, ScanReady(l)
        PROVE  ListenerInv'
    <2>1. /\ lis'[l].at = "claim" /\ \A m \in Listeners \ {l} : lis'[m] = lis[m]
          /\ marks' = marks /\ "ready" \in marks
      BY <1>0, <1>1 DEF ScanReady
    <2>. QED BY <1>0, <2>1 DEF ListenerInv
  <1>2. ASSUME NEW l \in Listeners, Claim(l) \/ ClaimFails(l)
        PROVE  ListenerInv'
    <2>1. /\ "claimed" \in marks' /\ marks \subseteq marks'
          /\ \A m \in Listeners \ {l} : lis'[m] = lis[m]
          /\ lis'[l].at \in {"scan", "serves"}
          /\ lis'[l].at = "serves" => "claimed" \notin marks
      <3>1. CASE Claim(l)
        BY <1>0, <3>1 DEF Claim
      <3>2. CASE ClaimFails(l)
        BY <1>0, <3>2 DEF ClaimFails
      <3>. QED BY <1>2, <3>1, <3>2
    <2>. QED BY <1>0, <2>1 DEF ListenerInv
  <1>3. CASE lis' = lis /\ marks \subseteq marks'
    BY <1>0, <1>3 DEF ListenerInv
  <1>4. CASE ClientOpens \/ PublishReady \/ UNCHANGED spoolVars
    BY <1>3, <1>4 DEF ClientOpens, PublishReady, spoolVars
  <1>5. ASSUME NEW d \in Dirs,
               \/ \E k \in 1 .. MaxChunkLen : poll_write(d, k)
               \/ ChunkLands(d) \/ ChunkFails(d) \/ WriterDies(d) \/ poll_shutdown(d)
               \/ SentinelGrows(d) \/ SentinelWritten(d)
        PROVE  ListenerInv'
    BY <1>3, <1>5, WriterStays
  <1>6. ASSUME NEW d \in Dirs, Syncs(d) \/ ReaderStep(d)
        PROVE  ListenerInv'
    BY <1>3, <1>6, ReaderStays DEF Syncs, ChunkSyncs, SentinelSyncs
  <1>. QED BY <1>1, <1>2, <1>4, <1>5, <1>6 DEF SpoolNext

-----------------------------------------------------------------------------
(* The invariant is inductive. *)

LEMMA WriterOther ==
  ASSUME SpoolInv, NEW d \in Dirs,
         \/ \E k \in 1 .. MaxChunkLen : poll_write(d, k)
         \/ ChunkLands(d) \/ ChunkFails(d) \/ WriterDies(d) \/ poll_shutdown(d)
         \/ SentinelGrows(d) \/ SentinelWritten(d)
  PROVE  \A e \in Dirs \ {d} :
           wr'[e] = wr[e] /\ rd'[e] = rd[e] /\ there'[e] = there[e] /\ here'[e] = here[e]
             /\ sentinel'[e] = sentinel[e]
  <1>1. there \in [Dirs -> SUBSET Chunks] /\ sentinel \in [Dirs -> [w : Int, r : Int]]
    BY DEF SpoolInv, SpoolType
  <1>2. rd' = rd /\ here' = here
    BY DEF poll_write, ChunkLands, ChunkFails, WriterDies, poll_shutdown, SentinelGrows,
           SentinelWritten
  <1>3. \A e \in Dirs \ {d} : there'[e] = there[e]
    BY <1>1 DEF poll_write, ChunkLands, ChunkFails, WriterDies, poll_shutdown, SentinelGrows,
           SentinelWritten
  <1>4. \A e \in Dirs \ {d} : sentinel'[e] = sentinel[e]
    BY <1>1 DEF poll_write, ChunkLands, ChunkFails, WriterDies, poll_shutdown, SentinelGrows,
           SentinelWritten,
                SentinelIs
  <1>. QED BY <1>2, <1>3, <1>4, WriterStays

LEMMA DirStep ==
  ASSUME SpoolInv, [SpoolNext]_spoolVars
  PROVE  \A d \in Dirs : DirInv(d)'
  <1>0. \A d \in Dirs : DirInv(d)
    BY DEF SpoolInv
  <1>1. CASE ClientOpens \/ PublishReady
               \/ \E l \in Listeners : ScanReady(l) \/ Claim(l) \/ ClaimFails(l)
    BY <1>1, SessionKeeps
  <1>2. ASSUME NEW d \in Dirs,
               \/ \E k \in 1 .. MaxChunkLen : poll_write(d, k)
               \/ ChunkLands(d) \/ ChunkFails(d) \/ WriterDies(d) \/ poll_shutdown(d)
               \/ SentinelGrows(d) \/ SentinelWritten(d)
        PROVE  \A e \in Dirs : DirInv(e)'
    <2>1. DirInv(d)'
      BY <1>2, WriteKeeps, LandsKeeps, ShutKeeps
    <2>2. \A e \in Dirs \ {d} :
            wr'[e] = wr[e] /\ rd'[e] = rd[e] /\ there'[e] = there[e] /\ here'[e] = here[e]
              /\ sentinel'[e] = sentinel[e]
      BY <1>2, WriterOther
    <2>3. \A e \in Dirs \ {d} : DirInv(e)'
      BY <1>0, <2>2, OtherDir
    <2>. QED BY <2>1, <2>3
  <1>3. ASSUME NEW d \in Dirs, ReaderStep(d)
        PROVE  \A e \in Dirs : DirInv(e)'
    <2>1. DirInv(d)'
      BY <1>3, LookKeeps, FailKeeps, SentinelKeeps, ServeKeeps DEF ReaderStep
    <2>2. \A e \in Dirs \ {d} : DirInv(e)'
      BY <1>0, <1>3, ReaderStays, OtherDir
    <2>. QED BY <2>1, <2>2
  <1>4. ASSUME NEW d \in Dirs, Syncs(d)
        PROVE  \A e \in Dirs : DirInv(e)'
    <2>1. DirInv(d)'
      BY <1>4, SyncKeeps
    <2>2. here \in [Dirs -> SUBSET Chunks] /\ sentinel \in [Dirs -> [w : Int, r : Int]]
      BY DEF SpoolInv, SpoolType
    <2>3. UNCHANGED <<wr, rd, there>> /\ \A e \in Dirs \ {d} : here'[e] = here[e] /\ sentinel'[e] = sentinel[e]
      BY <1>4, <2>2 DEF Syncs, ChunkSyncs, SentinelSyncs
    <2>4. \A e \in Dirs \ {d} : DirInv(e)'
      BY <1>0, <2>3, OtherDir
    <2>. QED BY <2>1, <2>4
  <1>5. CASE UNCHANGED spoolVars
    BY <1>0, <1>5, OtherDir DEF spoolVars
  <1>. QED BY <1>1, <1>2, <1>3, <1>4, <1>5 DEF SpoolNext

LEMMA InvStep == SpoolInv /\ [SpoolNext]_spoolVars => SpoolInv'
  <1>. SUFFICES ASSUME SpoolInv, [SpoolNext]_spoolVars
                PROVE  SpoolInv'
    OBVIOUS
  <1>1. SpoolType'
    BY TypeStep DEF SpoolInv
  <1>. QED BY <1>1, OpenStep, ListenerStep, DirStep DEF SpoolInv

\* The invariant holds in every state of every behaviour.
THEOREM SpoolInvariant == SpoolSpec => []SpoolInv
  <1>1. SpoolInit => SpoolInv
    BY InitInv
  <1>. QED BY <1>1, InvStep, PTL DEF SpoolSpec

-----------------------------------------------------------------------------
(***************************************************************************)
(* The refinement: what a step is to one direction, seen as a byte stream. *)
(* poll_write accepts, poll_shutdown closes, taking a chunk or serving the *)
(* buffer delivers, and the second look that finds the number of a whole   *)
(* sentinel passed ends the stream; every other step is a stutter, also an *)
(* end that comes of a failed read or of half a sentinel.                  *)
(***************************************************************************)
Closed(d) == wr[d].shut # "no"

AcceptAt(d) ==
  /\ ~Closed(d)
  /\ Len(wr'[d].acc) > Len(wr[d].acc)
  /\ SubSeq(wr'[d].acc, 1, Len(wr[d].acc)) = wr[d].acc
  /\ Closed(d)' = Closed(d) /\ rd'[d].got = rd[d].got /\ Ended(d)' = Ended(d)
CloseAt(d) ==
  /\ ~Closed(d) /\ Closed(d)' = TRUE
  /\ wr'[d].acc = wr[d].acc /\ rd'[d].got = rd[d].got /\ Ended(d)' = Ended(d)
DeliverAt(d) ==
  /\ ~Ended(d)
  /\ Len(rd'[d].got) \in (Len(rd[d].got) + 1) .. Len(wr[d].acc)
  /\ rd'[d].got = SubSeq(wr[d].acc, 1, Len(rd'[d].got))
  /\ wr'[d].acc = wr[d].acc /\ Closed(d)' = Closed(d) /\ Ended(d)' = Ended(d)
EndAt(d) ==
  /\ Closed(d) /\ rd[d].got = wr[d].acc /\ Ended(d)' = TRUE
  /\ wr'[d].acc = wr[d].acc /\ Closed(d)' = Closed(d) /\ rd'[d].got = rd[d].got
StutterAt(d) ==
  /\ wr'[d].acc = wr[d].acc /\ Closed(d)' = Closed(d)
  /\ rd'[d].got = rd[d].got /\ Ended(d)' = Ended(d)

StreamStep(d) == AcceptAt(d) \/ CloseAt(d) \/ DeliverAt(d) \/ EndAt(d) \/ StutterAt(d)

LEMMA SameIsStutter ==
  ASSUME NEW d, wr'[d] = wr[d], rd'[d] = rd[d]
  PROVE  StreamStep(d)
  BY DEF StreamStep, StutterAt, Closed, Ended

\* Nobody is told of the end of a stream that is still open.
LEMMA NoEndYet ==
  ASSUME SpoolInv, NEW d \in Dirs, wr[d].shut = "no"
  PROVE  rd[d].eof => rd[d].at = "failed"
  BY ChunkFacts DEF EndInv, Names

LEMMA WriteAccepts ==
  ASSUME SpoolInv, NEW d \in Dirs, NEW k \in 1 .. MaxChunkLen, poll_write(d, k)
  PROVE  AcceptAt(d)
  <1>. DEFINE n == Len(wr[d].acc)
              data == Bytes(n, k)
  <1>1. k \in Nat /\ k >= 1 /\ n \in Nat /\ wr[d].acc = Bytes(0, n)
    BY Bounds, ChunkFacts DEF BytesInv
  <1>2. wr[d].shut = "no" /\ rd' = rd
    BY DEF poll_write
  <1>3. wr' = [wr EXCEPT ![d].seq = @ + 1, ![d].acc = @ \o data, ![d].fut = <<wr[d].seq, data>>]
    BY DEF poll_write
  <1>4. wr \in [Dirs -> WriterType]
    BY DEF SpoolInv, SpoolType
  <1>. HIDE DEF data
  <1>5. wr'[d].acc = wr[d].acc \o data /\ wr'[d].shut = wr[d].shut
    BY <1>3, <1>4 DEF WriterType
  <1>6. Bytes(0, n) \o data = Bytes(0, n + k)
    BY <1>1, BytesAppend DEF data
  <1>7. wr'[d].acc = Bytes(0, n + k)
    BY <1>1, <1>5, <1>6
  <1>. HIDE DEF n
  <1>8. n + k \in Nat /\ n \in 0 .. n + k
    BY <1>1
  <1>9. Len(Bytes(0, n + k)) = n + k /\ SubSeq(Bytes(0, n + k), 1, n) = Bytes(0, n)
    BY <1>8, BytesLen, BytesPrefix
  <1>10. Len(wr'[d].acc) > n /\ SubSeq(wr'[d].acc, 1, n) = wr[d].acc
    BY <1>1, <1>7, <1>9
  <1>11. Ended(d)' = Ended(d)
    BY <1>2, NoEndYet DEF Ended
  <1>. QED BY <1>2, <1>5, <1>10, <1>11 DEF AcceptAt, Closed, n

LEMMA WriterStutters ==
  ASSUME SpoolInv, NEW d \in Dirs,
         ChunkLands(d) \/ ChunkFails(d) \/ WriterDies(d) \/ SentinelGrows(d) \/ SentinelWritten(d)
  PROVE  StutterAt(d)
  <1>1. wr \in [Dirs -> WriterType]
    BY DEF SpoolInv, SpoolType
  <1>2. rd' = rd
    BY DEF ChunkLands, ChunkFails, WriterDies, SentinelGrows, SentinelWritten
  <1>3. wr'[d].acc = wr[d].acc /\ wr'[d].seq = wr[d].seq /\ Closed(d)' = Closed(d)
    <2>1. CASE ChunkLands(d)
      BY <1>1, <2>1 DEF ChunkLands, WriterType, Closed
    <2>2. CASE ChunkFails(d)
      BY <1>1, <2>2 DEF ChunkFails, WriterType, Closed
    <2>3. CASE WriterDies(d)
      BY <1>1, <2>3 DEF WriterDies, WriterType, Closed
    <2>4. CASE SentinelWritten(d)
      BY <1>1, <2>4 DEF SentinelWritten, WriterType, Closed
    <2>5. CASE SentinelGrows(d)
      BY <2>5 DEF SentinelGrows, Closed
    <2>. QED BY <2>1, <2>2, <2>3, <2>4, <2>5
  <1>. QED BY <1>2, <1>3 DEF StutterAt, Ended

LEMMA ShutdownCloses ==
  ASSUME SpoolInv, NEW d \in Dirs, poll_shutdown(d)
  PROVE  CloseAt(d)
  <1>1. wr \in [Dirs -> WriterType]
    BY DEF SpoolInv, SpoolType
  <1>2. wr'[d].acc = wr[d].acc /\ wr'[d].shut = "writing" /\ wr'[d].seq = wr[d].seq
    BY <1>1 DEF poll_shutdown, WriterType
  <1>. QED BY <1>2 DEF CloseAt, Closed, Ended, poll_shutdown

\* Bytes handed over: the reader is at g and gets k more of the n accepted.
LEMMA IsDelivery ==
  ASSUME SpoolInv, NEW d \in Dirs, NEW k \in Nat, k >= 1, ~rd[d].eof,
         Len(rd[d].got) \in Nat,
         rd'[d].got = Bytes(0, Len(rd[d].got) + k), Len(rd'[d].got) = Len(rd[d].got) + k,
         Len(rd[d].got) + k <= Len(wr[d].acc),
         rd'[d].eof = rd[d].eof, wr' = wr
  PROVE  DeliverAt(d)
  <1>. DEFINE g == Len(rd[d].got)
              n == Len(wr[d].acc)
  <1>1. n \in Nat /\ wr[d].acc = Bytes(0, n)
    BY ChunkFacts DEF BytesInv
  <1>2. g \in Nat /\ g + k <= n /\ rd'[d].got = Bytes(0, g + k) /\ Len(rd'[d].got) = g + k
    OBVIOUS
  <1>. HIDE DEF g, n
  <1>3. g + k \in 0 .. n /\ g + k \in (g + 1) .. n
    BY <1>1, <1>2
  <1>4. SubSeq(Bytes(0, n), 1, g + k) = Bytes(0, g + k)
    BY <1>1, <1>3, BytesPrefix
  <1>5. rd'[d].got = SubSeq(wr[d].acc, 1, Len(rd'[d].got)) /\ Len(rd'[d].got) \in (g + 1) .. n
    BY <1>1, <1>2, <1>3, <1>4
  <1>6. Ended(d) = FALSE /\ Ended(d)' = FALSE
    <2>1. rd[d].eof = FALSE /\ rd'[d].eof = FALSE
      BY ChunkFacts, Fields
    <2>. QED BY <2>1 DEF Ended
  <1>. QED BY <1>5, <1>6 DEF DeliverAt, Closed, g, n

LEMMA TakeDelivers ==
  ASSUME SpoolInv, NEW d \in Dirs, NEW f \in NextChunk(d), NEW k \in 1 .. Len(f[2]),
         Reading(d), TakeChunk(d, f, k), UNCHANGED <<wr, sentinel>>
  PROVE  DeliverAt(d)
  <1>. DEFINE g == Len(rd[d].got)
              m == Len(f[2])
              n == Len(wr[d].acc)
  <1>1. /\ f \in Present(d) /\ m \in Nat /\ g \in Nat /\ Last(f) = g + m
        /\ rd'[d].got = Bytes(0, g + k) /\ Len(rd'[d].got) = g + k /\ rd'[d].eof = FALSE
    BY TakeFacts
  <1>2. ~rd[d].eof /\ rd[d].eof \in BOOLEAN
    BY Fields, ChunkFacts DEF Reading
  <1>3. Last(f) <= n /\ n \in Nat
    BY <1>1, ChunkFacts DEF ChunkInv
  <1>4. k \in Nat /\ k >= 1 /\ k <= m
    BY <1>1
  <1>5. g + k <= n
    <2>. HIDE DEF g, m, n
    <2>. QED BY <1>1, <1>3, <1>4
  <1>. QED BY <1>1, <1>2, <1>4, <1>5, IsDelivery

LEMMA ServeDelivers ==
  ASSUME SpoolInv, NEW d \in Dirs, ServeBuffer(d)
  PROVE  DeliverAt(d)
  <1>. DEFINE g == Len(rd[d].got)
              m == Len(rd[d].buf)
              n == Len(wr[d].acc)
  <1>1. PICK k \in 1 .. m :
           /\ g \in Nat /\ m \in Nat
           /\ rd'[d].got = Bytes(0, g + k) /\ Len(rd'[d].got) = g + k /\ rd'[d].eof = rd[d].eof
    BY ServeFacts
  <1>2. k \in Nat /\ k >= 1 /\ k <= m
    BY <1>1
  <1>3. n \in Nat /\ g + m <= n
    BY ChunkFacts DEF BytesInv, Consumed
  <1>4. g + k <= n
    <2>. HIDE DEF g, m, n
    <2>. QED BY <1>1, <1>2, <1>3
  <1>5. ~rd[d].eof /\ wr' = wr
    BY ChunkFacts DEF EndInv, ServeBuffer
  <1>. QED BY <1>1, <1>2, <1>4, <1>5, IsDelivery

\* The end is reported when the number in the sentinel has been passed: if it was the whole
\* number, the reader's number is the writer's, and nothing is between them.
LEMMA LookEnds ==
  ASSUME SpoolInv, NEW d \in Dirs, LookAgain(d), UNCHANGED <<there, here>>,
         rd' = [rd EXCEPT ![d].at = "look", ![d].eof = IsLast(d)]
  PROVE  EndAt(d) \/ StutterAt(d)
  <1>0. /\ BytesInv(d) /\ ChunkInv(d) /\ EndInv(d)
        /\ rd[d].eof \in BOOLEAN /\ rd[d].seq \in Nat /\ wr[d].seq \in Nat /\ rd[d].final \in Int
        /\ rd[d].got \in Seq(Nat)
    BY ChunkFacts, Fields
  <1>1. wr' = wr /\ Reading(d) /\ rd[d].at = "again"
    BY DEF LookAgain
  <1>2. rd \in [Dirs -> ReaderType]
    BY DEF SpoolInv, SpoolType
  <1>3. /\ rd'[d].got = rd[d].got /\ rd'[d].eof = IsLast(d)
        /\ rd'[d].at = "look" /\ rd'[d].final = rd[d].final
    BY <1>2 DEF ReaderType
  <1>4. IsLast(d) \in BOOLEAN
    BY DEF IsLast
  <1>5. rd[d].eof = FALSE /\ rd[d].buf = <<>>
    BY <1>0, <1>1 DEF Reading
  <1>6. CASE IsLast(d) = FALSE
    BY <1>1, <1>3, <1>5, <1>6 DEF StutterAt, Closed, Ended
  <1>7. CASE IsLast(d) = TRUE
    <2>1. rd[d].final # -1 /\ rd[d].seq > rd[d].final
      BY <1>7 DEF IsLast
    <2>2. rd[d].final >= -1 /\ Names(d, rd[d].final)
      BY <1>0, <1>1 DEF EndInv
    <2>3. rd[d].final >= 0
      BY <1>0, <2>1, <2>2
    <2>4. wr[d].shut # "no" /\ (rd[d].final = wr[d].seq - 1 \/ rd[d].final \in Leading(wr[d].seq - 1))
      BY <2>2, <2>3 DEF Names
    <2>10. CASE rd[d].final # wr[d].seq - 1
      BY <1>1, <1>3, <1>5, <2>10 DEF StutterAt, Closed, Ended
    <2>11. CASE rd[d].final = wr[d].seq - 1
      <3>5. rd[d].seq <= wr[d].seq /\ (rd[d].seq = wr[d].seq => Consumed(d) = Len(wr[d].acc))
        BY <1>0 DEF ChunkInv
      <3>6. Consumed(d) = Len(wr[d].acc)
        BY <1>0, <2>1, <2>11, <3>5
      <3>7. Len(rd[d].got) \in Nat /\ Len(rd[d].buf) = 0
        BY <1>0, <1>5, LenNat
      <3>8. Consumed(d) = Len(rd[d].got)
        BY <3>7 DEF Consumed
      <3>9. rd[d].got = wr[d].acc
        BY <1>0, <3>6, <3>8 DEF BytesInv
      <3>10. Ended(d)' = TRUE
        BY <1>1, <1>3, <1>7, <2>11 DEF Ended
      <3>. QED BY <1>1, <1>3, <2>4, <3>9, <3>10 DEF EndAt, Closed
    <2>. QED BY <2>10, <2>11
  <1>. QED BY <1>4, <1>6, <1>7

LEMMA ReaderStreams ==
  ASSUME SpoolInv, NEW d \in Dirs, ReaderStep(d)
  PROVE  StreamStep(d)
  <1>1. CASE LookForChunk(d) \/ LookAgain(d)
    <2>1. Reading(d) /\ UNCHANGED <<wr, sentinel>>
      BY <1>1 DEF LookForChunk, LookAgain
    <2>2. CASE \E f \in NextChunk(d) : \E k \in 1 .. Len(f[2]) : TakeChunk(d, f, k)
      BY <2>1, <2>2, TakeDelivers DEF StreamStep
    <2>3. CASE ~ \E f \in NextChunk(d) : \E k \in 1 .. Len(f[2]) : TakeChunk(d, f, k)
      <3>1. /\ rd' = [rd EXCEPT ![d].at = "look", ![d].eof = IsLast(d)]
            /\ UNCHANGED <<there, here>> /\ LookAgain(d)
        BY <1>1, <2>3 DEF LookForChunk, LookAgain
      <3>. QED BY <3>1, LookEnds DEF StreamStep
    <2>. QED BY <2>2, <2>3
  <1>2. CASE ReadSentinel(d)
    <2>1. rd \in [Dirs -> ReaderType]
      BY DEF SpoolInv, SpoolType
    <2>2. rd'[d].got = rd[d].got /\ rd'[d].eof = FALSE /\ rd[d].eof = FALSE /\ wr' = wr
      BY <1>2, <2>1 DEF ReadSentinel, Reading, ReaderType
    <2>3. Ended(d) = FALSE /\ Ended(d)' = FALSE
      BY <2>2 DEF Ended
    <2>. QED BY <2>2, <2>3 DEF StreamStep, StutterAt, Closed
  <1>3. CASE ServeBuffer(d)
    BY <1>3, ServeDelivers DEF StreamStep
  <1>4. CASE ReadFails(d)
    <2>1. rd \in [Dirs -> ReaderType]
      BY DEF SpoolInv, SpoolType
    <2>2. rd'[d].got = rd[d].got /\ rd'[d].at = "failed" /\ rd[d].eof = FALSE /\ wr' = wr
      BY <1>4, <2>1 DEF ReadFails, Reading, ReaderType
    <2>3. Ended(d) = FALSE /\ Ended(d)' = FALSE
      BY <2>2 DEF Ended
    <2>. QED BY <2>2, <2>3 DEF StreamStep, StutterAt, Closed
  <1>. QED BY <1>1, <1>2, <1>3, <1>4 DEF ReaderStep

LEMMA SessionStutters ==
  ASSUME SpoolInv, NEW d \in Dirs,
         ClientOpens \/ PublishReady
           \/ \E l \in Listeners : ScanReady(l) \/ Claim(l) \/ ClaimFails(l)
  PROVE  StutterAt(d)
  <1>1. wr \in [Dirs -> WriterType] /\ rd \in [Dirs -> ReaderType]
    BY DEF SpoolInv, SpoolType
  <1>2. wr'[d] = wr[d] \/ (wr'[d] = Opened /\ wr[d].at = "unopened")
    <2>1. CASE ClientOpens
      BY <1>1, <2>1 DEF ClientOpens
    <2>2. CASE PublishReady
      BY <2>2 DEF PublishReady
    <2>3. ASSUME NEW l \in Listeners, ScanReady(l) \/ Claim(l) \/ ClaimFails(l)
          PROVE  wr'[d] = wr[d] \/ (wr'[d] = Opened /\ wr[d].at = "unopened")
      BY <1>1, <2>3 DEF ScanReady, Claim, ClaimFails, SpoolInv, OpenInv
    <2>. QED BY <2>1, <2>2, <2>3
  <1>3. rd'[d] = rd[d] \/ (rd'[d] = OpenedRd /\ rd[d].at = "unopened")
    <2>1. CASE ClientOpens
      <3>1. rd["s2c"].at = "unopened"
        BY <2>1 DEF ClientOpens, SpoolInv, OpenInv
      <3>. QED BY <1>1, <2>1, <3>1 DEF ClientOpens
    <2>2. CASE PublishReady
      BY <2>2 DEF PublishReady
    <2>3. ASSUME NEW l \in Listeners, ScanReady(l) \/ Claim(l) \/ ClaimFails(l)
          PROVE  rd'[d] = rd[d] \/ (rd'[d] = OpenedRd /\ rd[d].at = "unopened")
      BY <1>1, <2>3 DEF ScanReady, Claim, ClaimFails, SpoolInv, OpenInv
    <2>. QED BY <2>1, <2>2, <2>3
  <1>4. wr'[d].acc = wr[d].acc /\ wr'[d].shut = wr[d].shut /\ wr'[d].seq = wr[d].seq
    BY <1>2, OpenSame
  <1>5. rd'[d].got = rd[d].got /\ rd'[d].eof = rd[d].eof
    BY <1>3, OpenSame
  <1>6. Ended(d)' = Ended(d)
    <2>1. CASE rd'[d] = rd[d]
      <3>1. rd'[d].eof = rd[d].eof /\ rd'[d].at = rd[d].at /\ rd'[d].final = rd[d].final
        BY <2>1
      <3>. QED BY <1>4, <3>1 DEF Ended
    <2>2. CASE rd'[d] = OpenedRd /\ rd[d].at = "unopened"
      <3>1. rd[d].eof = FALSE /\ rd'[d].eof = FALSE
        BY <2>2, OpenSame DEF OpenedRd
      <3>. QED BY <3>1 DEF Ended
    <2>. QED BY <1>3, <2>1, <2>2
  <1>. QED BY <1>4, <1>5, <1>6 DEF StutterAt, Closed

LEMMA StepStreams ==
  ASSUME SpoolInv, [SpoolNext]_spoolVars, NEW e \in Dirs
  PROVE  StreamStep(e)
  <1>1. CASE ClientOpens \/ PublishReady
               \/ \E l \in Listeners : ScanReady(l) \/ Claim(l) \/ ClaimFails(l)
    BY <1>1, SessionStutters DEF StreamStep
  <1>2. ASSUME NEW d \in Dirs,
               \/ \E k \in 1 .. MaxChunkLen : poll_write(d, k)
               \/ ChunkLands(d) \/ ChunkFails(d) \/ WriterDies(d) \/ poll_shutdown(d)
               \/ SentinelGrows(d) \/ SentinelWritten(d)
        PROVE  StreamStep(e)
    <2>1. CASE e = d
      BY <1>2, <2>1, WriteAccepts, WriterStutters, ShutdownCloses DEF StreamStep
    <2>2. CASE e # d
      BY <1>2, <2>2, WriterOther, SameIsStutter
    <2>. QED BY <2>1, <2>2
  <1>3. ASSUME NEW d \in Dirs, ReaderStep(d)
        PROVE  StreamStep(e)
    <2>1. CASE e = d
      BY <1>3, <2>1, ReaderStreams
    <2>2. CASE e # d
      BY <1>3, <2>2, ReaderStays, SameIsStutter
    <2>. QED BY <2>1, <2>2
  <1>4. ASSUME NEW d \in Dirs, Syncs(d)
        PROVE  StreamStep(e)
    BY <1>4, SameIsStutter DEF Syncs, ChunkSyncs, SentinelSyncs
  <1>5. CASE UNCHANGED spoolVars
    BY <1>5, SameIsStutter DEF spoolVars
  <1>. QED BY <1>1, <1>2, <1>3, <1>4, <1>5 DEF SpoolNext

LEMMA InitStreams ==
  ASSUME SpoolInit, NEW d \in Dirs
  PROVE  wr[d].acc = <<>> /\ ~Closed(d) /\ rd[d].got = <<>> /\ Ended(d) = FALSE
  BY SMTT(30) DEF SpoolInit, Closed, Opened, OpenedRd, Ended

-----------------------------------------------------------------------------
\* Each direction of the shared-filesystem transport (FsStream) implements a byte stream:
\* what poll_read returns is what poll_write accepted, in order and without a gap, and an
\* end reported on the whole number of the sentinel comes after the last byte only, whatever
\* order the files arrive in.
THEOREM SpoolRefines == SpoolSpec => SpoolIsStream
  <1>. USE DEF C2S!streamVars, S2C!streamVars
  <1>1. SpoolInit => C2S!StreamInit /\ S2C!StreamInit
    <2>. SUFFICES ASSUME SpoolInit PROVE C2S!StreamInit /\ S2C!StreamInit
      OBVIOUS
    <2>1. "c2s" \in Dirs /\ "s2c" \in Dirs
      BY DEF Dirs
    <2>2. C2S!StreamInit
      BY <2>1, InitStreams DEF C2S!StreamInit, Closed
    <2>3. S2C!StreamInit
      BY <2>1, InitStreams DEF S2C!StreamInit, Closed
    <2>. QED BY <2>2, <2>3
  <1>2. StreamStep("c2s") => [C2S!Accept \/ C2S!Close \/ C2S!Deliver \/ C2S!End]_(C2S!streamVars)
    BY DEF StreamStep, AcceptAt, CloseAt, DeliverAt, EndAt, StutterAt, Closed,
           C2S!Accept, C2S!Close, C2S!Deliver, C2S!End
  <1>3. StreamStep("s2c") => [S2C!Accept \/ S2C!Close \/ S2C!Deliver \/ S2C!End]_(S2C!streamVars)
    BY DEF StreamStep, AcceptAt, CloseAt, DeliverAt, EndAt, StutterAt, Closed,
           S2C!Accept, S2C!Close, S2C!Deliver, S2C!End
  <1>4. SpoolInv /\ [SpoolNext]_spoolVars =>
          /\ [C2S!Accept \/ C2S!Close \/ C2S!Deliver \/ C2S!End]_(C2S!streamVars)
          /\ [S2C!Accept \/ S2C!Close \/ S2C!Deliver \/ S2C!End]_(S2C!streamVars)
    BY <1>2, <1>3, StepStreams DEF Dirs
  <1>. QED BY <1>1, <1>4, SpoolInvariant, PTL
       DEF SpoolSpec, SpoolIsStream, C2S!StreamSpec, S2C!StreamSpec

\* The listeners' marker files give a session to at most one server (claim_session).
LEMMA InvOneServer ==
  ASSUME SpoolInv
  PROVE  OneServer
  <1>. DEFINE S == {l \in Listeners : lis[l].at = "serves"}
  <1>1. \A l, m \in S : l = m
    BY DEF SpoolInv, ListenerInv
  <1>2. CASE S = {}
    BY <1>2, FS_EmptySet DEF OneServer
  <1>3. CASE S # {}
    <2>1. PICK l \in S : TRUE
      BY <1>3
    <2>2. S = {l}
      BY <1>1, <2>1
    <2>3. Cardinality(S) = 1
      BY <2>2, FS_Singleton
    <2>. QED BY <2>3 DEF OneServer
  <1>. QED BY <1>2, <1>3

\* An end that comes too early has one of two reasons.
LEMMA InvReasons ==
  ASSUME SpoolInv
  PROVE  EndsForAReason
  <1>. SUFFICES ASSUME NEW d \in Dirs, rd[d].eof, rd[d].at # "failed"
                PROVE  Ended(d) \/ (wr[d].shut # "no" /\ rd[d].final \in Leading(wr[d].seq - 1))
    BY DEF EndsForAReason
  <1>1. rd[d].final >= 0 /\ Names(d, rd[d].final)
    BY ChunkFacts DEF EndInv
  <1>. QED BY <1>1 DEF Names, Ended

\* The spool is a connection: a byte stream in each direction, one server at most, and no
\* end before the last byte but after a failed read or on half a sentinel.
THEOREM SpoolIsSound == SpoolSpec => SpoolSound
  <1>1. SpoolInv => OneServer /\ EndsForAReason
    BY InvOneServer, InvReasons
  <1>. QED BY <1>1, SpoolInvariant, SpoolRefines, PTL DEF SpoolSound

-----------------------------------------------------------------------------
(* Commands over QUIC.                                                     *)

QuicPlaces == {"connect", "challenge", "result", "command", "answer", "answered", "done"}
QuicTasks == {"none", "header", "exec", "running", "push", "writing", "pull", "ls"}

QuicTokens == {"authreq", "signature", Fin1, "push", "size", "1", "2", "exec", "cmd", "pull", "ls",
               "refused", "challenge", "welcome", "OK", "json", "output", "ERROR", "lost", "old"}
QuicCallers == [at : QuicPlaces, call : Nat, got : Seq(QuicTokens),
                exit : {"none", "ok", "error"}]
QuicServers == [conn : {"none", "auth", "signed", "open", "closed"}, at : QuicTasks,
                size : {0, 2}, data : Seq(QuicTokens)]
QuicTypes ==
    /\ quicJob \in QuicScenarios /\ quicUp \in BOOLEAN
    /\ qc \in QuicCallers /\ qs \in QuicServers
    /\ toQs \in Seq(QuicTokens) /\ toQc \in Seq(QuicTokens) /\ stored \in Seq(QuicTokens) /\ ran \in Nat

\* The key has been checked by the time the connection is open.
ConnInv ==
    /\ qs.conn \in {"signed", "open"} => quicJob.key # "unknown"
    /\ qs.conn = "open" => quicJob.key = "known"
    /\ qc.at = "connect" => qs.conn = "none" /\ toQc = <<>>
    /\ qc.at \in {"challenge", "result"} =>
          \A i \in 1 .. Len(toQc) : toQc[i] = "welcome" => qs.conn = "open"
    /\ qc.at \in {"command", "answer", "answered"} \/ qs.at # "none" => qs.conn = "open"

\* Where the server's task can be: at a call, at most once for each.
TaskInv ==
    /\ qc.at \in {"connect", "challenge", "result"} =>
          qs.at = "none" /\ ran = 0 /\ qc.call = 1
    /\ qc.at \in {"command", "answered"} /\ quicUp => qs.at = "none"
    /\ qc.at = "command" /\ quicUp => ran < qc.call
    /\ qs.at \in {"header", "exec"} => ran < qc.call
    /\ ran <= qc.call
    /\ qs.at \in {"exec", "running"} => Verb(quicJob.cmd) = "exec"
    /\ qs.at \in {"push", "writing"} => Verb(quicJob.cmd) = "push"
    /\ qs.at = "pull" => Verb(quicJob.cmd) = "pull"
    /\ qs.at = "ls" => Verb(quicJob.cmd) = "ls"
    /\ qs.at = "exec" \/ ran > 0 => "exec" \in quicJob.perms /\ quicJob.key = "known"
    /\ qs.at # "none" => qs.size = 2
    /\ 1 <= qc.call /\ qc.call <= CallsOf(quicJob.cmd)
    /\ quicJob.cmd = "none" => qc.at = "done" /\ qc.exit = "none"
    /\ qc.at \in {"answer", "answered"} => quicJob.cmd \notin Local \cup NotOverQuic

\* What is on the stream to the server is the beginning of the request.
PushRequest == <<"push", "size", "1", "2", Fin1>>
RequestInv ==
    /\ qs.at = "header" /\ toQs # <<>> => Head(toQs) = Verb(quicJob.cmd)
    /\ Verb(quicJob.cmd) = "push" =>
          /\ qs.at = "header" =>
                Len(toQs) <= 5 /\ \A i \in 1 .. Len(toQs) : toQs[i] = PushRequest[i]
          /\ qs.at = "push" =>
                Len(toQs) <= 4 /\ \A i \in 1 .. Len(toQs) : toQs[i] = PushRequest[i + 1]
          /\ qs.at = "writing" => qs.data = QuicData
    /\ Verb(quicJob.cmd) # "push" => stored = QuicData

\* What an answer that reports success says.
Good(s) == s # <<>> /\ s[1] \in {"OK", "json"}
GoodIsTrue(s) ==
    /\ qs.at = "none"
    /\ Verb(quicJob.cmd) = "push" => stored = QuicData
    /\ Verb(quicJob.cmd) = "pull" =>
          /\ qs.size = 2
          /\ Len(s) >= 4 => s[3] = "1" /\ s[4] = "2"
    /\ Verb(quicJob.cmd) = "ls" => quicJob.result = "fine"
    /\ Verb(quicJob.cmd) = "exec" =>
          (Len(s) >= 2 /\ s[2] # "ERROR" => ran >= 1 /\ quicJob.result = "fine")

\* The answer that the client reads, holds or has reported.
AnswerInv ==
    /\ qs.at = "running" => ran >= 1
    /\ qc.at = "answer" =>
          /\ toQc # <<>> => qs.at = "none"
          /\ Good(toQc) => GoodIsTrue(toQc)
    /\ qc.at = "answered" =>
          /\ qc.got # <<>>
          /\ Good(qc.got) =>
                /\ GoodIsTrue(qc.got)
                /\ Verb(quicJob.cmd) = "pull" => Len(qc.got) >= 4
                /\ Verb(quicJob.cmd) = "exec" => Len(qc.got) >= 2
    /\ QuicOk /\ Asks /\ ~Forgiving(quicJob.cmd) =>
          /\ Good(qc.got) /\ GoodIsTrue(qc.got) /\ qc.call = 1
          /\ Verb(quicJob.cmd) = "pull" => Len(qc.got) >= 4
          /\ Verb(quicJob.cmd) = "exec" => Len(qc.got) >= 2

QuicInv == QuicTypes /\ ConnInv /\ TaskInv /\ RequestInv /\ AnswerInv

USE DEF Fin1

LEMMA QuicScenario ==
    quicJob \in QuicScenarios =>
       /\ quicJob.cmd \in STRING /\ quicJob.perms \subseteq STRING
       /\ quicJob.key \in {"known", "wrong", "unknown"}
       /\ quicJob.result \in {"fine", "fails", "hangs"}
       /\ CallsOf(quicJob.cmd) \in Nat /\ CallsOf(quicJob.cmd) >= 1
       /\ ~Forgiving(quicJob.cmd) => CallsOf(quicJob.cmd) = 1
       /\ Verb(quicJob.cmd) \in {"push", "pull", "ls", "exec"}
BY QuicAssumption DEF CallsOf, Verb, Forgiving

\* The beginning of a sequence.
LEMMA Beginning ==
    ASSUME NEW s \in Seq(QuicTokens), NEW n \in 0 .. Len(s)
    PROVE  /\ SubSeq(s, 1, n) \in Seq(QuicTokens)
           /\ Len(SubSeq(s, 1, n)) = n
           /\ \A i \in 1 .. n : SubSeq(s, 1, n)[i] = s[i]
           /\ SubSeq(s, 1, n) # <<>> => n >= 1 /\ s # <<>>
           /\ n >= 1 => SubSeq(s, 1, n) # <<>> /\ Head(SubSeq(s, 1, n)) = Head(s)
OBVIOUS

LEMMA QuicStart == QuicInit => QuicInv
<1> SUFFICES ASSUME QuicInit PROVE QuicInv
  OBVIOUS
<1>1. quicJob \in QuicScenarios /\ quicUp \in BOOLEAN
  BY DEF QuicInit
<1>2. quicJob.cmd \in STRING /\ CallsOf(quicJob.cmd) >= 1
  BY <1>1, QuicScenario
<1>3. QuicTypes
  <2>1. (IF quicJob.cmd = "none" THEN "done" ELSE "connect") \in QuicPlaces
    BY DEF QuicPlaces
  <2>2. qc \in QuicCallers
    <3> DEFINE at == IF quicJob.cmd = "none" THEN "done" ELSE "connect"
    <3>1. qc = [at |-> at, call |-> 1, got |-> <<>>, exit |-> "none"]
      BY DEF QuicInit
    <3>2. at \in QuicPlaces
      BY <2>1
    <3>3. <<>> \in Seq(QuicTokens)
      OBVIOUS
    <3> HIDE DEF at
    <3> QED
      BY <3>1, <3>2, <3>3 DEF QuicCallers
  <2>3. qs \in QuicServers
    BY DEF QuicInit, QuicServers, QuicTasks
  <2>4. stored \in Seq(QuicTokens) /\ toQs \in Seq(QuicTokens) /\ toQc \in Seq(QuicTokens) /\ ran \in Nat
    <3>1. <<>> \in Seq(QuicTokens) /\ <<"old">> \in Seq(QuicTokens) /\ <<"1", "2">> \in Seq(QuicTokens)
      BY DEF QuicTokens
    <3> QED
      BY <3>1 DEF QuicInit, QuicData
  <2> QED
    BY <1>1, <2>2, <2>3, <2>4 DEF QuicTypes
<1>4. ConnInv
  BY <1>1 DEF QuicInit, ConnInv
<1>5. TaskInv
  BY <1>1, <1>2 DEF QuicInit, TaskInv
<1>6. RequestInv
  BY <1>1 DEF QuicInit, RequestInv
<1>7. AnswerInv
  BY <1>1 DEF QuicInit, AnswerInv, QuicOk
<1> QED
  BY <1>3, <1>4, <1>5, <1>6, <1>7 DEF QuicInv

\* What the two records are after a step that sets some of their fields.
LEMMA QuicCallerSet ==
    qc \in QuicCallers =>
       /\ qc.call \in Nat /\ qc.got \in Seq(QuicTokens)
       /\ qc.at \in QuicPlaces
       /\ \A a \in QuicPlaces : [qc EXCEPT !.at = a] \in QuicCallers
       /\ \A e \in {"ok", "error"} : QuicDone(e) \in QuicCallers
       /\ \A a \in QuicPlaces, g \in Seq(QuicTokens) : [qc EXCEPT !.at = a, !.got = g] \in QuicCallers
BY DEF QuicCallers, QuicPlaces, QuicDone
LEMMA QuicServerSet ==
    qs \in QuicServers =>
       /\ qs.at \in QuicTasks /\ qs.size \in {0, 2} /\ qs.data \in Seq(QuicTokens)
       /\ \A c \in {"auth", "signed", "open", "closed"} : [qs EXCEPT !.conn = c] \in QuicServers
       /\ \A a \in QuicTasks : [qs EXCEPT !.at = a] \in QuicServers
       /\ \A a \in QuicTasks : [qs EXCEPT !.at = a, !.size = 2] \in QuicServers
       /\ \A a \in QuicTasks, d \in Seq(QuicTokens) : [qs EXCEPT !.at = a, !.data = d] \in QuicServers
BY DEF QuicServers, QuicTasks

LEMMA TokenSeqs ==
    /\ <<>> \in Seq(QuicTokens)
    /\ \A a \in QuicTokens : <<a>> \in Seq(QuicTokens)
    /\ \A a, b \in QuicTokens : <<a, b>> \in Seq(QuicTokens)
    /\ \A a, b, c \in QuicTokens : <<a, b, c>> \in Seq(QuicTokens)
    /\ \A s, t \in Seq(QuicTokens) : s \o t \in Seq(QuicTokens)
    /\ \A s \in Seq(QuicTokens) : s # <<>> => Head(s) \in QuicTokens /\ Tail(s) \in Seq(QuicTokens)
OBVIOUS
LEMMA ATail ==
    ASSUME NEW s \in Seq(QuicTokens), s # <<>>
    PROVE  /\ Len(s) \in Nat /\ Len(s) >= 1 /\ Head(s) = s[1]
           /\ Len(Tail(s)) = Len(s) - 1
           /\ \A i \in 1 .. Len(Tail(s)) : Tail(s)[i] = s[i + 1]
OBVIOUS
LEMMA SomeTokens ==
    /\ Fin1 \in QuicTokens /\ "1" \in QuicTokens /\ "2" \in QuicTokens
    /\ "push" \in QuicTokens /\ "size" \in QuicTokens /\ "cmd" \in QuicTokens
    /\ "exec" \in QuicTokens /\ "pull" \in QuicTokens /\ "ls" \in QuicTokens
    /\ "authreq" \in QuicTokens /\ "signature" \in QuicTokens /\ "challenge" \in QuicTokens
    /\ "welcome" \in QuicTokens /\ "refused" \in QuicTokens
    /\ "OK" \in QuicTokens /\ "json" \in QuicTokens /\ "output" \in QuicTokens
    /\ "ERROR" \in QuicTokens /\ "lost" \in QuicTokens
BY DEF QuicTokens
LEMMA TokenPairs ==
    /\ \A u \in Seq(QuicTokens) : Len(u) > 2 => SubSeq(u, 2, 3) = <<u[2], u[3]>>
    /\ \A u \in Seq(QuicTokens) : Len(u) >= 4 => SubSeq(u, 3, 4) = <<u[3], u[4]>>
    /\ \A s, t \in Seq(QuicTokens) :
          Len(s) = Len(t) /\ (\A i \in 1 .. Len(s) : s[i] = t[i]) => s = t
<1>1. \A s, t \in Seq(QuicTokens) :
         Len(s) = Len(t) /\ (\A i \in 1 .. Len(s) : s[i] = t[i]) => s = t
  OBVIOUS
<1>2. ASSUME NEW u \in Seq(QuicTokens), NEW k \in {2, 3}, Len(u) > k
      PROVE  SubSeq(u, k, k + 1) = <<u[k], u[k + 1]>>
  <2> DEFINE v == SubSeq(u, k, k + 1)
             w == <<u[k], u[k + 1]>>
  <2>1. v \in Seq(QuicTokens) /\ Len(v) = 2 /\ v[1] = u[k] /\ v[2] = u[k + 1]
    BY <1>2
  <2>2. u[k] \in QuicTokens /\ u[k + 1] \in QuicTokens
    BY <1>2
  <2>3. w \in Seq(QuicTokens) /\ Len(w) = 2 /\ w[1] = u[k] /\ w[2] = u[k + 1]
    BY <2>2
  <2> HIDE DEF v, w
  <2>4. v = w
    BY <1>1, <2>1, <2>3
  <2> QED
    BY <2>4 DEF v, w
<1>3. ASSUME NEW u \in Seq(QuicTokens) PROVE Len(u) \in Nat
  OBVIOUS
<1>4. ASSUME NEW u \in Seq(QuicTokens), Len(u) > 2 PROVE SubSeq(u, 2, 3) = <<u[2], u[3]>>
  <2>1. SubSeq(u, 2, 2 + 1) = <<u[2], u[2 + 1]>>
    BY <1>2, <1>4
  <2> QED
    BY <2>1
<1>5. ASSUME NEW u \in Seq(QuicTokens), Len(u) >= 4 PROVE SubSeq(u, 3, 4) = <<u[3], u[4]>>
  <2>1. SubSeq(u, 3, 3 + 1) = <<u[3], u[3 + 1]>>
    BY <1>2, <1>3, <1>5
  <2> QED
    BY <2>1
<1> QED
  BY <1>1, <1>4, <1>5
LEMMA FiveTokens ==
    ASSUME NEW a \in QuicTokens, NEW b \in QuicTokens, NEW c \in QuicTokens, NEW d \in QuicTokens,
           NEW e \in QuicTokens
    PROVE  <<a, b>> \o <<c, d>> \o <<e>> = <<a, b, c, d, e>>
<1> DEFINE f == <<a, b, c, d>>
           g == <<a, b, c, d, e>>
<1>1. /\ <<a, b>> \in Seq(QuicTokens) /\ <<c, d>> \in Seq(QuicTokens) /\ <<e>> \in Seq(QuicTokens)
      /\ f \in Seq(QuicTokens) /\ g \in Seq(QuicTokens)
      /\ Len(<<a, b>>) = 2 /\ Len(<<c, d>>) = 2 /\ Len(<<e>>) = 1 /\ Len(f) = 4 /\ Len(g) = 5
      /\ <<e>>[1] = e /\ <<a, b>>[1] = a /\ <<a, b>>[2] = b /\ <<c, d>>[1] = c /\ <<c, d>>[2] = d
  OBVIOUS
<1>2. \A s, t \in Seq(QuicTokens) :
         /\ s \o t \in Seq(QuicTokens) /\ Len(s \o t) = Len(s) + Len(t)
         /\ \A i \in 1 .. Len(s) : (s \o t)[i] = s[i]
         /\ \A i \in 1 .. Len(t) : (s \o t)[Len(s) + i] = t[i]
  OBVIOUS
<1>3. f[1] = a /\ f[2] = b /\ f[3] = c /\ f[4] = d
  OBVIOUS
<1>4. g[1] = a /\ g[2] = b /\ g[3] = c /\ g[4] = d /\ g[5] = e
  OBVIOUS
<1> DEFINE h == <<a, b>> \o <<c, d>>
<1>5. h \in Seq(QuicTokens) /\ Len(h) = 4 /\ h[1] = a /\ h[2] = b /\ h[2 + 1] = c /\ h[2 + 2] = d
  BY <1>1, <1>2
<1> HIDE DEF f, g, h
<1>6. \A i \in 1 .. 4 : h[i] = f[i]
  BY <1>3, <1>5
<1>7. h = f
  BY <1>1, <1>5, <1>6, TokenPairs
<1>8. f \o <<e>> \in Seq(QuicTokens) /\ Len(f \o <<e>>) = 5
      /\ (\A i \in 1 .. 4 : (f \o <<e>>)[i] = f[i]) /\ (f \o <<e>>)[5] = e
  <2>1. /\ f \o <<e>> \in Seq(QuicTokens) /\ Len(f \o <<e>>) = Len(f) + Len(<<e>>)
        /\ \A i \in 1 .. Len(f) : (f \o <<e>>)[i] = f[i]
    BY <1>1, <1>2
  <2>2. (f \o <<e>>)[Len(f) + 1] = <<e>>[1]
    <3>1. 1 \in 1 .. Len(<<e>>)
      BY <1>1
    <3>2. \A i \in 1 .. Len(<<e>>) : (f \o <<e>>)[Len(f) + i] = <<e>>[i]
      BY <1>1, <1>2
    <3> QED
      BY <3>1, <3>2
  <2>3. Len(f) = 4 /\ Len(<<e>>) = 1 /\ <<e>>[1] = e
    BY <1>1
  <2> QED
    BY <2>1, <2>2, <2>3
<1>9. \A i \in 1 .. 5 : (f \o <<e>>)[i] = g[i]
  BY <1>3, <1>4, <1>8
<1>a. f \o <<e>> = g
  BY <1>1, <1>8, <1>9, TokenPairs
<1> QED
  BY <1>7, <1>a DEF g, h
LEMMA QuicRequests ==
    /\ <<"push", "size">> \o QuicData \o <<Fin1>> = PushRequest
    /\ <<"OK", "size">> \o QuicData \o <<Fin1>> = <<"OK", "size", "1", "2", Fin1>>
    /\ PushRequest \in Seq(QuicTokens) /\ Len(PushRequest) = 5
    /\ PushRequest[1] = "push" /\ PushRequest[3] = "1" /\ PushRequest[4] = "2"
    /\ Head(PushRequest) = "push"
    /\ <<"OK", "size", "1", "2", Fin1>> \in Seq(QuicTokens)
    /\ QuicData \in Seq(QuicTokens) /\ Len(QuicData) = 2
<1>1. /\ <<"push", "size">> \o QuicData \o <<Fin1>> = PushRequest
      /\ <<"OK", "size">> \o QuicData \o <<Fin1>> = <<"OK", "size", "1", "2", Fin1>>
  BY SomeTokens, FiveTokens DEF QuicData, PushRequest
<1>2. \A a, b, c, d, e \in QuicTokens : <<a, b, c, d, e>> \in Seq(QuicTokens)
  OBVIOUS
<1>3. PushRequest \in Seq(QuicTokens) /\ <<"OK", "size", "1", "2", Fin1>> \in Seq(QuicTokens)
  BY <1>2, SomeTokens DEF PushRequest
<1>4. QuicData \in Seq(QuicTokens) /\ Len(QuicData) = 2
  BY TokenSeqs, SomeTokens DEF QuicData
<1> QED
  BY <1>1, <1>3, <1>4 DEF PushRequest
LEMMA AnswerSent ==
    ASSUME NEW s \in Seq(QuicTokens), QuicTypes, Answers(s)
    PROVE  /\ toQc' \in Seq(QuicTokens)
           /\ toQc' = toQc \/ toQc' = toQc \o s
BY TokenSeqs DEF Answers, QuicTypes
\* What the server says at the end of a task is the answer, or is lost.
LEMMA FirstAnswer ==
    ASSUME NEW s \in Seq(QuicTokens), QuicTypes, Answers(s), toQc = <<>>
    PROVE  toQc' = <<>> \/ toQc' = s
<1>1. <<>> \o s = s
  OBVIOUS
<1> QED
  BY <1>1 DEF Answers

-----------------------------------------------------------------------------
(* What an answer says, when a step leaves it alone and when a task ends.   *)

LEMMA AnswerStays ==
    ASSUME QuicTypes, AnswerInv, quicJob' = quicJob, qc' = qc, ran' = ran, stored' = stored,
           qs'.at = qs.at, qs'.size = qs.size, qc.at = "answer" => toQc' = toQc
    PROVE  AnswerInv'
BY DEF AnswerInv, GoodIsTrue, Good, QuicOk, Asks, QuicTypes
\* Nothing has been reported of a call whose task is at work.
LEMMA TaskAnswers ==
    ASSUME QuicTypes, AnswerInv, quicJob' = quicJob, qc' = qc, qs.at # "none",
           qs'.at = "running" => ran' >= 1,
           qc.at = "answer" =>
              /\ toQc' # <<>> => qs'.at = "none"
              /\ Good(toQc') => GoodIsTrue(toQc)'
    PROVE  AnswerInv'
<1>1. qc.at = "answered" => ~Good(qc.got)
  BY DEF AnswerInv, GoodIsTrue
<1>2. ~(QuicOk /\ Asks /\ ~Forgiving(quicJob.cmd))
  BY DEF AnswerInv, GoodIsTrue
<1>4. (qc.at = "answered" => qc.got # <<>> /\ ~Good(qc.got))'
  BY <1>1 DEF AnswerInv, Good
<1>5. (~(QuicOk /\ Asks /\ ~Forgiving(quicJob.cmd)))'
  BY <1>2 DEF QuicOk, Asks
<1>6. (qc.at = "answer" =>
          (toQc # <<>> => qs.at = "none") /\ (Good(toQc) => GoodIsTrue(toQc)))'
  BY DEF Good
<1> QED
  BY <1>4, <1>5, <1>6 DEF AnswerInv

LEMMA QuicConnectKeeps == QuicInv /\ QuicConnect => QuicInv'
<1> SUFFICES ASSUME QuicInv, QuicConnect PROVE QuicInv'
  OBVIOUS
<1> USE DEF QuicInv, QuicTypes
<1>1. QuicTypes'
  <2>1. qc' \in QuicCallers
    BY QuicCallerSet DEF QuicConnect, QuicSays, QuicPlaces
  <2>2. qs' \in QuicServers
    BY QuicServerSet DEF QuicConnect, QuicSays
  <2>3. toQs' \in {toQs, toQs \o <<"authreq">>}
    BY DEF QuicConnect, QuicSays
  <2>4. toQs' \in Seq(QuicTokens)
    <3>1. <<"authreq">> \in Seq(QuicTokens)
      BY TokenSeqs DEF QuicTokens
    <3> QED
      BY <2>3, <3>1, TokenSeqs
  <2> QED
    BY <2>1, <2>2, <2>4 DEF QuicConnect
<1> USE DEF QuicCallers, QuicServers
<1>2. ConnInv'
  <2>1. qs'.conn \in {"auth", "none"} /\ qs'.at = "none" /\ qc'.at \in {"challenge", "done"}
    BY DEF ConnInv, TaskInv, QuicConnect, QuicSays, QuicDone
  <2>2. quicJob' = quicJob /\ toQc' = toQc /\ qc.at = "connect" /\ toQc = <<>>
    BY DEF ConnInv, QuicConnect
  <2>3. Len(toQc') = 0
    BY <2>2
  <2> QED
    BY <2>1, <2>2, <2>3 DEF ConnInv
<1>a. /\ quicJob' = quicJob /\ ran' = ran /\ stored' = stored /\ toQc' = toQc /\ toQc = <<>>
      /\ qc'.call = qc.call  /\ qs'.at = qs.at /\ qs'.size = qs.size
      /\ qs'.data = qs.data /\ qc'.at \in {"challenge", "done"} /\ qc.at = "connect"
      /\ qc'.at = "challenge" => qc'.exit = qc.exit
      /\ qc'.at = "done" => qc'.exit = "error"
  BY DEF ConnInv, QuicConnect, QuicSays, QuicDone
<1>b. quicUp' = quicUp /\ qs.at = "none" /\ quicJob.cmd # "none" /\ ran = 0
  BY <1>a DEF QuicConnect, TaskInv
<1>3. TaskInv'
  BY <1>a, <1>b DEF TaskInv
<1>4. RequestInv'
  BY <1>a, <1>b DEF RequestInv
<1>5. AnswerInv'
  BY <1>a, <1>b DEF AnswerInv, QuicOk, GoodIsTrue, Good
<1> QED
  BY <1>1, <1>2, <1>3, <1>4, <1>5

LEMMA QuicAuthKeeps == QuicInv /\ QuicAuth => QuicInv'
<1> SUFFICES ASSUME QuicInv, QuicAuth PROVE QuicInv'
  OBVIOUS
<1> USE DEF QuicInv, QuicTypes
<1> DEFINE line == IF toQc = <<>> THEN "lost" ELSE Head(toQc)
<1>0. /\ qc.at \in {"challenge", "result"}
      /\ qc' = IF line = "challenge" THEN [qc EXCEPT !.at = "result"]
               ELSE IF line = "welcome" THEN [qc EXCEPT !.at = "command"] ELSE QuicDone("error")
      /\ toQs' = IF line = "challenge" /\ quicUp THEN <<"signature", Fin1>> ELSE toQs
      /\ toQc' = IF line = "challenge" THEN Tail(toQc) ELSE <<>>
      /\ quicJob' = quicJob /\ quicUp' = quicUp /\ qs' = qs /\ stored' = stored /\ ran' = ran
      /\ line = "challenge" => toQc # <<>>
      /\ line = "welcome" => toQc # <<>> /\ Head(toQc) = "welcome"
  BY DEF QuicAuth
<1> HIDE DEF line
<1>a. /\ qs.at = "none" /\ ran = 0 /\ qc.call = 1 /\ quicJob.cmd # "none"
      /\ CallsOf(quicJob.cmd) >= 1
  BY <1>0, QuicScenario DEF TaskInv
<1>1. QuicTypes'
  <2>1. qc' \in QuicCallers
    BY <1>0, QuicCallerSet DEF QuicPlaces
  <2>2. <<"signature", Fin1>> \in Seq(QuicTokens)
    BY TokenSeqs, SomeTokens
  <2>3. toQs' \in Seq(QuicTokens)
    BY <1>0, <2>2
  <2>4. toQc' \in Seq(QuicTokens)
    BY <1>0, TokenSeqs
  <2> QED
    BY <1>0, <2>1, <2>3, <2>4
<1>b. /\ qc'.call = 1
      /\ qc'.at \in {"result", "command", "done"}
      /\ qc'.at = "done" => qc'.exit = "error"
      /\ qc'.at = "command" => line = "welcome"
      /\ qc'.at = "result" => line = "challenge"
  BY <1>0, <1>a DEF QuicDone, QuicCallers
<1>c. /\ quicJob' = quicJob /\ quicUp' = quicUp /\ qs' = qs /\ stored' = stored /\ ran' = ran
      /\ line = "challenge" => toQc # <<>> /\ toQc' = Tail(toQc)
      /\ line = "welcome" => toQc # <<>> /\ Head(toQc) = "welcome"
      /\ qc.at \in {"challenge", "result"}
  BY <1>0
<1>2. ConnInv'
  <2>0. \A i \in 1 .. Len(toQc) : toQc[i] = "welcome" => qs.conn = "open"
    BY <1>c DEF ConnInv
  <2>1. ASSUME line = "challenge", NEW i \in 1 .. Len(toQc'), toQc'[i] = "welcome"
        PROVE  qs.conn = "open"
    <3>1. /\ Len(toQc) \in Nat /\ Len(Tail(toQc)) = Len(toQc) - 1
          /\ Tail(toQc)[i] = toQc[i + 1]
      BY <1>c, <2>1, ATail
    <3>2. i + 1 \in 1 .. Len(toQc) /\ toQc[i + 1] = "welcome"
      BY <1>c, <2>1, <3>1
    <3> QED
      BY <2>0, <3>2
  <2>2. line = "welcome" => qs.conn = "open"
    BY <1>c, <2>0, ATail
  <2> QED
    BY <1>a, <1>b, <1>c, <2>1, <2>2 DEF ConnInv
<1>3. TaskInv'
  <2>1. qc'.at # "connect" /\ (qc'.at = "answered" \/ qc'.at = "answer" => FALSE)
    BY <1>b
  <2> QED
    BY <1>a, <1>b, <1>c, <2>1 DEF TaskInv
<1>4. RequestInv'
  BY <1>a, <1>c DEF RequestInv
<1>5. AnswerInv'
  BY <1>a, <1>b, <1>c DEF AnswerInv, QuicOk
<1> QED
  BY <1>1, <1>2, <1>3, <1>4, <1>5

LEMMA QuicLocalKeeps == QuicInv /\ QuicLocal => QuicInv'
<1> SUFFICES ASSUME QuicInv, QuicLocal PROVE QuicInv'
  OBVIOUS
<1> USE DEF QuicInv, QuicTypes
<1>0. /\ qc.at = "command" /\ qc'.at = "done" /\ qc'.call = qc.call
      /\ qc'.exit = "ok" => quicJob.cmd \in Local \cup Power
      /\ qc' \in {QuicDone("ok"), QuicDone("error")}
      /\ quicJob' = quicJob /\ quicUp' = quicUp /\ qs' = qs /\ stored' = stored /\ ran' = ran
      /\ toQs' = toQs /\ toQc' = toQc
  BY DEF QuicLocal, QuicDone, QuicCallers
<1>1. QuicTypes'
  BY <1>0, QuicCallerSet
<1>2. ConnInv'
  BY <1>0 DEF ConnInv
<1>3. TaskInv'
  BY <1>0 DEF TaskInv
<1>4. RequestInv'
  BY <1>0 DEF RequestInv
<1>5. AnswerInv'
  <2>1. (~(QuicOk /\ Asks /\ ~Forgiving(quicJob.cmd)))'
    BY <1>0 DEF QuicOk, Asks, Forgiving
  <2> QED
    BY <1>0, <2>1 DEF AnswerInv
<1> QED
  BY <1>1, <1>2, <1>3, <1>4, <1>5

LEMMA QuicCallKeeps == QuicInv /\ QuicCall => QuicInv'
<1> SUFFICES ASSUME QuicInv, QuicCall PROVE QuicInv'
  OBVIOUS
<1> USE DEF QuicInv, QuicTypes
<1> DEFINE verb == Verb(quicJob.cmd)
           request == CASE verb = "push" -> <<"push", "size">> \o QuicData \o <<Fin1>>
                        [] verb = "exec" -> <<"exec", "cmd", Fin1>>
                        [] OTHER -> <<verb, Fin1>>
<1>0. /\ qc.at = "command" /\ quicJob.cmd \notin Local \cup NotOverQuic
      /\ quicJob' = quicJob /\ quicUp' = quicUp /\ stored' = stored /\ ran' = ran
  BY DEF QuicCall
<1>a. verb \in {"push", "pull", "ls", "exec"}
  BY QuicScenario
<1>b. /\ request \in Seq(QuicTokens) /\ Head(request) = verb
      /\ verb = "push" => request = PushRequest
  <2>1. CASE verb = "push"
    BY <2>1, QuicRequests
  <2>2. CASE verb = "exec"
    <3>1. <<"exec", "cmd", Fin1>> \in Seq(QuicTokens)
      BY TokenSeqs, SomeTokens
    <3>2. request = <<"exec", "cmd", Fin1>> /\ Head(request) = "exec"
      BY <2>2
    <3> QED
      BY <2>2, <3>1, <3>2
  <2>3. CASE verb \notin {"push", "exec"}
    <3>1. verb \in QuicTokens
      BY <1>a, SomeTokens
    <3>2. <<verb, Fin1>> \in Seq(QuicTokens) /\ Head(<<verb, Fin1>>) = verb
      BY <3>1, TokenSeqs, SomeTokens
    <3> QED
      BY <2>3, <3>2
  <2> QED
    BY <2>1, <2>2, <2>3
<1>c. CASE quicUp
  <2>1. /\ qc' = [qc EXCEPT !.at = "answer", !.got = <<>>] /\ toQs' = request /\ toQc' = <<>>
        /\ qs' = [qs EXCEPT !.at = "header", !.size = 2]
    BY <1>c, QuicRequests DEF QuicCall
  <2>2. qc' \in QuicCallers /\ qs' \in QuicServers
    BY <2>1, QuicCallerSet, QuicServerSet, TokenSeqs DEF QuicPlaces, QuicTasks
  <2>3. /\ qc'.at = "answer" /\ qc'.call = qc.call
        /\ qs'.at = "header" /\ qs'.size = 2 /\ qs'.conn = qs.conn
    BY <2>1 DEF QuicCallers, QuicServers
  <2> HIDE DEF verb, request
  <2>r. toQs' = request /\ toQc' = <<>>
    BY <2>1
  <2>4. QuicTypes'
    BY <1>0, <1>b, <2>r, <2>2, TokenSeqs
  <2>5. ConnInv'
    BY <1>0, <2>3 DEF ConnInv
  <2>6. TaskInv'
    BY <1>0, <1>c, <2>3 DEF TaskInv
  <2>7. RequestInv'
    <3>1. Verb(quicJob'.cmd) = verb
      BY <1>0 DEF verb
    <3>2. Head(toQs') = verb
      BY <1>b, <2>r
    <3>3. verb # "push" => stored' = QuicData
      BY <1>0 DEF RequestInv, verb
    <3>4. verb = "push" => toQs' = PushRequest /\ Len(PushRequest) = 5
      BY <1>b, <2>r, QuicRequests
    <3>5. ASSUME verb = "push"
          PROVE  Len(toQs') <= 5 /\ \A i \in 1 .. Len(toQs') : toQs'[i] = PushRequest[i]
      <4>1. toQs' = PushRequest /\ Len(PushRequest) = 5
        BY <3>4, <3>5
      <4> QED
        BY <4>1
    <3> QED
      BY <2>3, <3>1, <3>2, <3>3, <3>5 DEF RequestInv
  <2>8. AnswerInv'
    BY <1>0, <2>1, <2>3 DEF AnswerInv, QuicOk, Good
  <2> QED
    BY <2>4, <2>5, <2>6, <2>7, <2>8
<1>d. CASE ~quicUp
  <2>1. /\ qc' = [qc EXCEPT !.at = "answered", !.got = <<"lost">>]
        /\ toQs' = toQs /\ toQc' = toQc /\ qs' = qs
    BY <1>d DEF QuicCall
  <2>2. qc' \in QuicCallers
    BY <2>1, QuicCallerSet, TokenSeqs, SomeTokens DEF QuicPlaces
  <2>3. /\ qc'.at = "answered" /\ qc'.call = qc.call
        /\ qc'.got = <<"lost">>
    BY <2>1 DEF QuicCallers
  <2> HIDE DEF verb, request
  <2>5. ConnInv'
    BY <1>0, <2>1, <2>3 DEF ConnInv
  <2>6. TaskInv'
    BY <1>0, <1>d, <2>1, <2>3 DEF TaskInv
  <2>7. RequestInv'
    BY <1>0, <2>1 DEF RequestInv
  <2>8. AnswerInv'
    BY <1>0, <2>1, <2>3 DEF AnswerInv, QuicOk, Good
  <2> QED
    BY <1>0, <2>1, <2>2, <2>5, <2>6, <2>7, <2>8
<1> QED
  BY <1>c, <1>d

LEMMA QuicAnswerKeeps == QuicInv /\ QuicAnswer => QuicInv'
<1> SUFFICES ASSUME QuicInv, QuicAnswer PROVE QuicInv'
  OBVIOUS
<1> USE DEF QuicInv, QuicTypes
<1> DEFINE g == IF AnswerWhole THEN toQc ELSE <<"lost">>
<1>0. /\ qc.at = "answer" /\ qc' = [qc EXCEPT !.at = "answered", !.got = g]
      /\ quicJob' = quicJob /\ quicUp' = quicUp /\ stored' = stored /\ ran' = ran
      /\ toQs' = toQs /\ toQc' = toQc /\ qs' = qs
      /\ quicUp => toQc # <<>>
  BY DEF QuicAnswer, AnswerWhole
<1>a. g \in Seq(QuicTokens) /\ g # <<>>
  BY TokenSeqs, SomeTokens DEF AnswerWhole
<1>b. Good(g) => /\ g = toQc /\ toQc # <<>>
                 /\ Verb(quicJob.cmd) = "pull" => Len(g) >= 4
                 /\ Verb(quicJob.cmd) = "exec" => Len(g) >= 2
  <2> SUFFICES ASSUME Good(g) PROVE /\ g = toQc /\ toQc # <<>>
                                    /\ Verb(quicJob.cmd) = "pull" => Len(g) >= 4
                                    /\ Verb(quicJob.cmd) = "exec" => Len(g) >= 2
    OBVIOUS
  <2>1. AnswerWhole /\ g = toQc /\ Good(toQc) /\ toQc # <<>> /\ Len(toQc) \in Nat
    BY DEF Good
  <2>2. GoodIsTrue(toQc)
    BY <1>0, <2>1 DEF AnswerInv
  <2>3. Verb(quicJob.cmd) = "pull" => Len(g) >= 4
    BY <2>1, <2>2 DEF AnswerWhole, GoodIsTrue, Good
  <2>4. Verb(quicJob.cmd) = "exec" => Len(g) >= 2
    BY <2>1 DEF AnswerWhole, Good
  <2> QED
    BY <2>1, <2>3, <2>4
<1> HIDE DEF g
<1>1. qc' \in QuicCallers
  BY <1>0, <1>a, QuicCallerSet DEF QuicPlaces
<1>c. qc'.at = "answered" /\ qc'.call = qc.call  /\ qc'.got = g
  BY <1>0 DEF QuicCallers
<1>2. ConnInv'
  BY <1>0, <1>c DEF ConnInv
<1>3. TaskInv'
  <2>1. quicUp => qs.at = "none"
    BY <1>0 DEF AnswerInv
  <2> QED
    BY <1>0, <1>c, <2>1 DEF TaskInv
<1>4. RequestInv'
  BY <1>0 DEF RequestInv
<1>5. AnswerInv'
  <2>1. Good(g) => GoodIsTrue(g)
    BY <1>0, <1>b DEF AnswerInv
  <2>2. (GoodIsTrue(g))' <=> GoodIsTrue(g')
    BY <1>0, <1>c DEF GoodIsTrue
  <2>3. (Good(qc.got) => GoodIsTrue(qc.got))'
    BY <1>0, <1>c, <2>1 DEF Good, GoodIsTrue
  <2> QED
    BY <1>0, <1>a, <1>b, <1>c, <2>3 DEF AnswerInv, QuicOk, Good
<1> QED
  BY <1>0, <1>1, <1>2, <1>3, <1>4, <1>5

LEMMA QuicTakesKeeps == QuicInv /\ QuicTakes => QuicInv'
<1> SUFFICES ASSUME QuicInv, QuicTakes PROVE QuicInv'
  OBVIOUS
<1> USE DEF QuicInv, QuicTypes
<1> DEFINE ok == /\ qc.got[1] \in {"OK", "json"}
                 /\ quicJob.cmd = "ss" => qc.got[2] # "ERROR"
           more == qc.call < CallsOf(quicJob.cmd)
           e == IF ok \/ Forgiving(quicJob.cmd) THEN "ok" ELSE "error"
<1>0. /\ qc.at = "answered"
      /\ quicJob' = quicJob /\ quicUp' = quicUp /\ stored' = stored /\ ran' = ran
      /\ toQs' = toQs /\ toQc' = toQc /\ qs' = qs
      /\ qc.call \in Nat /\ CallsOf(quicJob.cmd) \in Nat /\ qc.call <= CallsOf(quicJob.cmd)
      /\ qc.call >= 1
  <2>1. CallsOf(quicJob.cmd) \in Nat
    BY QuicScenario
  <2> QED
    BY <2>1 DEF QuicTakes, QuicCallers, TaskInv
<1>1. qc' = IF more THEN [qc EXCEPT !.at = "command", !.call = @ + 1] ELSE QuicDone(e)
  BY DEF QuicTakes
<1>2. e \in {"ok", "error"} /\ (e = "ok" => Forgiving(quicJob.cmd) \/ Good(qc.got))
  BY <1>0 DEF AnswerInv, Good
<1> HIDE DEF ok, e
<1>3. /\ qc' \in QuicCallers /\ qc'.got = qc.got
      /\ more => qc'.at = "command" /\ qc'.call = qc.call + 1
      /\ ~more => qc'.at = "done" /\ qc'.call = qc.call /\ qc'.exit = e
  <2>3. CASE more
    <3>1. qc' = [qc EXCEPT !.at = "command", !.call = qc.call + 1]
      BY <1>1, <2>3
    <3>2. qc.call + 1 \in Nat /\ "command" \in QuicPlaces
      BY <1>0 DEF QuicPlaces
    <3> QED
      BY <2>3, <3>1, <3>2 DEF QuicCallers
  <2>4. CASE ~more
    <3>1. qc' = [qc EXCEPT !.at = "done", !.exit = e] /\ "done" \in QuicPlaces
      BY <1>1, <2>4 DEF QuicPlaces, QuicDone
    <3> QED
      BY <1>2, <2>4, <3>1 DEF QuicCallers
  <2> QED
    BY <2>3, <2>4
<1>4. ConnInv'
  BY <1>0, <1>3 DEF ConnInv
<1>5. TaskInv'
  BY <1>0, <1>3 DEF TaskInv
<1>6. RequestInv'
  BY <1>0 DEF RequestInv
<1>7. AnswerInv'
  <2>1. Good(qc.got) => /\ GoodIsTrue(qc.got)
                        /\ Verb(quicJob.cmd) = "pull" => Len(qc.got) >= 4
                        /\ Verb(quicJob.cmd) = "exec" => Len(qc.got) >= 2
    BY <1>0 DEF AnswerInv
  <2>3. qs.at = "running" => ran >= 1
    BY DEF AnswerInv
  <2>4. ~more /\ ~Forgiving(quicJob.cmd) => qc.call = 1
    BY <1>0, QuicScenario
  <2>6. (QuicOk /\ Asks /\ ~Forgiving(quicJob.cmd))' => Good(qc.got) /\ ~more
    BY <1>0, <1>2, <1>3 DEF QuicOk, Asks, Forgiving
  <2>7. (Good(qc.got) /\ GoodIsTrue(qc.got))' <=> Good(qc.got) /\ GoodIsTrue(qc.got)
    BY <1>0, <1>3 DEF Good, GoodIsTrue
  <2>8. (QuicOk /\ Asks /\ ~Forgiving(quicJob.cmd) =>
           /\ Good(qc.got) /\ GoodIsTrue(qc.got) /\ qc.call = 1
           /\ Verb(quicJob.cmd) = "pull" => Len(qc.got) >= 4
           /\ Verb(quicJob.cmd) = "exec" => Len(qc.got) >= 2)'
    BY <1>0, <1>3, <2>1, <2>4, <2>6, <2>7 DEF Forgiving
  <2>9. qc'.at \notin {"answer", "answered"}
    BY <1>3
  <2> QED
    BY <1>0, <1>3, <2>3, <2>8, <2>9 DEF AnswerInv
<1> QED
  BY <1>0, <1>3, <1>4, <1>5, <1>6, <1>7

-----------------------------------------------------------------------------
(* The server's steps.                                                     *)

LEMMA AuthRequestKeeps == QuicInv /\ AuthRequest => QuicInv'
<1> SUFFICES ASSUME QuicInv, AuthRequest PROVE QuicInv'
  OBVIOUS
<1> USE DEF QuicInv, QuicTypes
<1>0. /\ qs.conn = "auth" /\ toQs' = Tail(toQs) /\ toQs # <<>>
      /\ quicJob' = quicJob /\ quicUp' = quicUp /\ qc' = qc /\ stored' = stored /\ ran' = ran
  BY DEF AuthRequest
<1>a. /\ \/ qs' = [qs EXCEPT !.conn = "closed"] /\ Answers(<<"refused", Fin1>>)
         \/ /\ qs' = [qs EXCEPT !.conn = "signed"] /\ Answers(<<"challenge">>)
            /\ quicJob.key # "unknown"
      /\ <<"refused", Fin1>> \in Seq(QuicTokens) /\ <<"challenge">> \in Seq(QuicTokens)
  BY TokenSeqs, SomeTokens DEF AuthRequest
<1>1. QuicTypes'
  <2>1. qs' \in QuicServers
    BY <1>a, QuicServerSet
  <2>2. toQc' \in Seq(QuicTokens)
    BY <1>a, AnswerSent
  <2> QED
    BY <1>0, <2>1, <2>2, TokenSeqs
<1>b. /\ qs'.at = qs.at /\ qs'.size = qs.size /\ qs'.conn \in {"closed", "signed"}
      /\ qs'.conn = "signed" => quicJob.key # "unknown"
  BY <1>a DEF QuicServers
<1>2. ConnInv'
  <2>1. ASSUME qc.at \in {"challenge", "result"}, NEW i \in 1 .. Len(toQc')
        PROVE  toQc'[i] # "welcome"
    <3>1. \A k \in 1 .. Len(toQc) : toQc[k] # "welcome"
      BY <1>0, <2>1 DEF ConnInv
    <3>2. \A s, t \in Seq(QuicTokens) : \A k \in 1 .. Len(s \o t) :
             \/ k \in 1 .. Len(s) /\ (s \o t)[k] = s[k]
             \/ k - Len(s) \in 1 .. Len(t) /\ (s \o t)[k] = t[k - Len(s)]
      OBVIOUS
    <3>3. \A k \in 1 .. Len(<<"refused", Fin1>>) : <<"refused", Fin1>>[k] # "welcome"
      OBVIOUS
    <3>4. \A k \in 1 .. Len(<<"challenge">>) : <<"challenge">>[k] # "welcome"
      OBVIOUS
    <3>5. CASE toQc' = toQc \o <<"refused", Fin1>>
      BY <1>a, <2>1, <3>1, <3>2, <3>3, <3>5
    <3>6. CASE toQc' = toQc \o <<"challenge">>
      BY <1>a, <2>1, <3>1, <3>2, <3>4, <3>6
    <3>7. CASE toQc' = toQc
      BY <2>1, <3>1, <3>7
    <3> QED
      BY <1>a, <3>5, <3>6, <3>7, AnswerSent
  <2>2. qc.at # "connect" /\ qc.at \notin {"command", "answer", "answered"} /\ qs.at = "none"
    BY <1>0 DEF ConnInv
  <2> QED
    BY <1>0, <1>b, <2>1, <2>2 DEF ConnInv
<1>3. TaskInv'
  BY <1>0, <1>b DEF TaskInv
<1>4. RequestInv'
  BY <1>0, <1>b DEF RequestInv, ConnInv
<1>5. AnswerInv'
  BY <1>0, <1>b, AnswerStays DEF ConnInv
<1> QED
  BY <1>1, <1>2, <1>3, <1>4, <1>5

LEMMA AuthVerifyKeeps == QuicInv /\ AuthVerify => QuicInv'
<1> SUFFICES ASSUME QuicInv, AuthVerify PROVE QuicInv'
  OBVIOUS
<1> USE DEF QuicInv, QuicTypes
<1>0. /\ qs.conn = "signed" /\ toQs' = <<>>
      /\ quicJob' = quicJob /\ quicUp' = quicUp /\ qc' = qc /\ stored' = stored /\ ran' = ran
  BY DEF AuthVerify
<1>a. /\ \/ qs' = [qs EXCEPT !.conn = "closed"] /\ Answers(<<"refused", Fin1>>)
         \/ /\ qs' = [qs EXCEPT !.conn = "open"] /\ Answers(<<"welcome", Fin1>>)
            /\ quicJob.key # "wrong"
      /\ <<"refused", Fin1>> \in Seq(QuicTokens) /\ <<"welcome", Fin1>> \in Seq(QuicTokens)
  BY TokenSeqs, SomeTokens DEF AuthVerify
<1>1. QuicTypes'
  <2>1. qs' \in QuicServers
    BY <1>a, QuicServerSet
  <2>2. toQc' \in Seq(QuicTokens)
    BY <1>a, AnswerSent
  <2> QED
    BY <1>0, <2>1, <2>2, TokenSeqs
<1>b. /\ qs'.at = qs.at /\ qs'.size = qs.size /\ qs'.conn \in {"closed", "open"}
      /\ qs'.conn = "open" => quicJob.key = "known"
  <2>1. quicJob.key # "unknown" /\ quicJob.key \in {"known", "wrong", "unknown"}
    BY <1>0, QuicScenario DEF ConnInv
  <2> QED
    BY <1>a, <2>1 DEF QuicServers
<1>2. ConnInv'
  <2>1. ASSUME qc.at \in {"challenge", "result"}, qs'.conn = "closed", NEW i \in 1 .. Len(toQc')
        PROVE  toQc'[i] # "welcome"
    <3>1. \A k \in 1 .. Len(toQc) : toQc[k] # "welcome"
      BY <1>0, <2>1 DEF ConnInv
    <3>2. \A s, t \in Seq(QuicTokens) : \A k \in 1 .. Len(s \o t) :
             \/ k \in 1 .. Len(s) /\ (s \o t)[k] = s[k]
             \/ k - Len(s) \in 1 .. Len(t) /\ (s \o t)[k] = t[k - Len(s)]
      OBVIOUS
    <3>3. \A k \in 1 .. Len(<<"refused", Fin1>>) : <<"refused", Fin1>>[k] # "welcome"
      OBVIOUS
    <3>4. Answers(<<"refused", Fin1>>)
      BY <1>a, <2>1 DEF QuicServers
    <3>5. toQc' = toQc \/ toQc' = toQc \o <<"refused", Fin1>>
      BY <1>a, <3>4, AnswerSent
    <3> QED
      BY <1>a, <2>1, <3>1, <3>2, <3>3, <3>5
  <2>2. qc.at # "connect" /\ qc.at \notin {"command", "answer", "answered"} /\ qs.at = "none"
    BY <1>0 DEF ConnInv
  <2> QED
    BY <1>0, <1>b, <2>1, <2>2 DEF ConnInv
<1>3. TaskInv'
  BY <1>0, <1>b DEF TaskInv
<1>4. RequestInv'
  BY <1>0, <1>b DEF RequestInv, ConnInv
<1>5. AnswerInv'
  BY <1>0, <1>b, AnswerStays DEF ConnInv
<1> QED
  BY <1>1, <1>2, <1>3, <1>4, <1>5

LEMMA AuthCloseKeeps == QuicInv /\ AuthClose => QuicInv'
<1> SUFFICES ASSUME QuicInv, AuthClose PROVE QuicInv'
  OBVIOUS
<1> USE DEF QuicInv, QuicTypes
<1>0. /\ qs.conn = "closed" /\ quicUp' = FALSE /\ toQs' = toQs /\ qs' = qs
      /\ quicJob' = quicJob /\ qc' = qc /\ stored' = stored /\ ran' = ran
  BY DEF AuthClose
<1>a. PICK n \in 0 .. Len(toQc) : toQc' = SubSeq(toQc, 1, n)
  BY DEF AuthClose
<1>1. QuicTypes'
  BY <1>0, <1>a, Beginning
<1>2. ConnInv'
  <2>1. qc.at \in {"challenge", "result"} => \A i \in 1 .. Len(toQc') : toQc'[i] # "welcome"
    BY <1>0, <1>a, Beginning DEF ConnInv
  <2> QED
    BY <1>0, <2>1 DEF ConnInv
<1>3. TaskInv'
  BY <1>0 DEF TaskInv
<1>4. RequestInv'
  BY <1>0 DEF RequestInv
<1>5. AnswerInv'
  BY <1>0, AnswerStays DEF ConnInv
<1> QED
  BY <1>1, <1>2, <1>3, <1>4, <1>5

LEMMA CutoffKeeps == QuicInv /\ Cutoff => QuicInv'
<1> SUFFICES ASSUME QuicInv, Cutoff PROVE QuicInv'
  OBVIOUS
<1> USE DEF QuicInv, QuicTypes
<1>0. /\ quicUp' = FALSE /\ qs' = qs
      /\ quicJob' = quicJob /\ qc' = qc /\ stored' = stored /\ ran' = ran
  BY DEF Cutoff
<1>a. PICK n \in 0 .. Len(toQc) : toQc' = SubSeq(toQc, 1, n)
  BY DEF Cutoff
<1>b. PICK m \in 0 .. Len(toQs) : toQs' = SubSeq(toQs, 1, m)
  BY DEF Cutoff
<1>c. /\ toQc' \in Seq(QuicTokens) /\ Len(toQc') = n /\ \A i \in 1 .. n : toQc'[i] = toQc[i]
      /\ toQc' # <<>> => toQc # <<>> /\ n >= 1
      /\ Len(toQc) \in Nat
  BY <1>a, Beginning
<1>d. /\ toQs' \in Seq(QuicTokens) /\ Len(toQs') = m /\ \A i \in 1 .. m : toQs'[i] = toQs[i]
      /\ toQs' # <<>> => toQs # <<>> /\ Head(toQs') = Head(toQs)
      /\ Len(toQs) \in Nat
  BY <1>b, Beginning
<1>1. QuicTypes'
  BY <1>0, <1>c, <1>d
<1>2. ConnInv'
  <2>1. toQc = <<>> => toQc' = <<>>
    BY <1>c
  <2> QED
    BY <1>0, <1>c, <2>1 DEF ConnInv
<1>3. TaskInv'
  BY <1>0 DEF TaskInv
<1>4. RequestInv'
  <2>1. ASSUME NEW k \in Nat, Len(toQs) <= k PROVE Len(toQs') <= k
    BY <1>d, <2>1
  <2>2. ASSUME NEW i \in 1 .. Len(toQs') PROVE i \in 1 .. Len(toQs) /\ toQs'[i] = toQs[i]
    BY <1>d, <2>2
  <2> QED
    BY <1>0, <1>d, <2>1, <2>2 DEF RequestInv
<1>5. AnswerInv'
  <2>1. CASE qc.at = "answer"
    <3>1. Good(toQc') => Good(toQc)
      BY <1>c DEF Good
    <3>2. Good(toQc) => GoodIsTrue(toQc)
      BY <2>1 DEF AnswerInv
    <3>3. Good(toQc) => GoodIsTrue(toQc')
      BY <1>a, <1>c, <3>2 DEF GoodIsTrue
    <3>4. (Good(toQc) => GoodIsTrue(toQc))'
      BY <1>0, <3>1, <3>3 DEF Good, GoodIsTrue
    <3> QED
      BY <1>0, <1>c, <2>1, <3>4 DEF AnswerInv, QuicOk
  <2>2. CASE qc.at # "answer"
    BY <1>0, <2>2, AnswerStays
  <2> QED
    BY <2>1, <2>2
<1> QED
  BY <1>1, <1>2, <1>3, <1>4, <1>5

LEMMA handle_quic_streamKeeps == QuicInv /\ handle_quic_stream => QuicInv'
<1> SUFFICES ASSUME QuicInv, handle_quic_stream PROVE QuicInv'
  OBVIOUS
<1> USE DEF QuicInv, QuicTypes
<1>0. /\ qs.conn = "open" /\ qs.at = "header" /\ toQs # <<>> /\ toQs' = Tail(toQs)
      /\ quicJob' = quicJob /\ quicUp' = quicUp /\ qc' = qc /\ stored' = stored /\ ran' = ran
  BY DEF handle_quic_stream
<1>a. Head(toQs) = Verb(quicJob.cmd) /\ Verb(quicJob.cmd) \in {"push", "pull", "ls", "exec"}
  BY <1>0, QuicScenario DEF RequestInv
<1>b. /\ \/ /\ qs' = [qs EXCEPT !.at = Verb(quicJob.cmd)] /\ toQc' = toQc
            /\ Verb(quicJob.cmd) \in quicJob.perms
         \/ qs' = [qs EXCEPT !.at = "none"] /\ Answers(<<"ERROR", Fin1>>)
      /\ <<"ERROR", Fin1>> \in Seq(QuicTokens)
  BY <1>a, TokenSeqs, SomeTokens DEF handle_quic_stream
<1>1. QuicTypes'
  <2>1. qs' \in QuicServers
    BY <1>a, <1>b, QuicServerSet DEF QuicTasks
  <2>2. toQc' \in Seq(QuicTokens)
    BY <1>b, AnswerSent
  <2> QED
    BY <1>0, <2>1, <2>2, TokenSeqs
<1>c. /\ qs'.conn = "open" /\ qs'.size = qs.size /\ qs'.at \in {Verb(quicJob.cmd), "none"}
      /\ qs'.at # "none" => Verb(quicJob.cmd) \in quicJob.perms /\ toQc' = toQc
  BY <1>0, <1>b DEF QuicServers
<1>2. ConnInv'
  <2>1. qc.at \notin {"connect", "challenge", "result"}
    BY <1>0 DEF TaskInv
  <2> QED
    BY <1>0, <1>c, <2>1 DEF ConnInv
<1>3. TaskInv'
  BY <1>0, <1>a, <1>c DEF TaskInv, ConnInv
<1>4. RequestInv'
  <2>1. ASSUME Verb(quicJob.cmd) = "push"
        PROVE  Len(toQs') <= 4 /\ \A i \in 1 .. Len(toQs') : toQs'[i] = PushRequest[i + 1]
    <3>1. Len(toQs) <= 5 /\ \A i \in 1 .. Len(toQs) : toQs[i] = PushRequest[i]
      BY <1>0, <2>1 DEF RequestInv
    <3> QED
      BY <1>0, <3>1, ATail
  <2>2. qs'.at \notin {"header", "writing"}
    BY <1>a, <1>c
  <2> QED
    BY <1>0, <1>c, <2>1, <2>2 DEF RequestInv
<1>5. AnswerInv'
  <2>1. ASSUME qc.at = "answer" PROVE (toQc' # <<>> => qs'.at = "none") /\ ~Good(toQc')
    <3>1. toQc = <<>>
      BY <1>0, <2>1 DEF AnswerInv
    <3>2. toQc' = <<>> \/ (toQc' = <<"ERROR", Fin1>> /\ qs'.at = "none")
      BY <1>b, <3>1, FirstAnswer DEF QuicServers
    <3> QED
      BY <3>2 DEF Good
  <2>2. qs'.at # "running"
    BY <1>a, <1>c
  <2> QED
    BY <1>0, <2>1, <2>2, TaskAnswers DEF AnswerInv
<1> QED
  BY <1>1, <1>2, <1>3, <1>4, <1>5

LEMMA ExecStartsKeeps == QuicInv /\ ExecStarts => QuicInv'
<1> SUFFICES ASSUME QuicInv, ExecStarts PROVE QuicInv'
  OBVIOUS
<1> USE DEF QuicInv, QuicTypes
<1>0. /\ qs.at = "exec" /\ toQs # <<>> /\ toQs' = Tail(toQs) /\ ran' = ran + 1
      /\ quicJob' = quicJob /\ quicUp' = quicUp /\ qc' = qc /\ stored' = stored /\ toQc' = toQc
      /\ qs' = [qs EXCEPT !.at = "running"]
  BY DEF ExecStarts
<1>1. QuicTypes'
  <2>1. qs' \in QuicServers
    BY <1>0, QuicServerSet DEF QuicTasks
  <2>2. toQs' \in Seq(QuicTokens) /\ ran' \in Nat
    BY <1>0, TokenSeqs
  <2> QED
    BY <1>0, <2>1, <2>2
<1>a. qs'.at = "running" /\ qs'.conn = qs.conn /\ qs'.size = qs.size
  BY <1>0 DEF QuicServers
<1>2. ConnInv'
  BY <1>0, <1>a DEF ConnInv
<1>3. TaskInv'
  BY <1>0, <1>a DEF TaskInv, QuicCallers
<1>4. RequestInv'
  BY <1>0, <1>a DEF RequestInv, TaskInv
<1>5. AnswerInv'
  <2>1. ran' >= 1
    BY <1>0
  <2>2. qc.at = "answer" => toQc = <<>>
    BY <1>0 DEF AnswerInv
  <2> QED
    BY <1>0, <2>1, <2>2, TaskAnswers DEF Good
<1> QED
  BY <1>1, <1>2, <1>3, <1>4, <1>5

\* A task that ends says s, at most, and leaves everything else in order.
LEMMA TaskEnds ==
    ASSUME QuicInv, NEW s \in Seq(QuicTokens), s # <<>>,
           qs.at \notin {"none", "header"}, Answers(s), toQs' \in Seq(QuicTokens), qc' = qc,
           quicJob' = quicJob, quicUp' = quicUp, ran' = ran, stored' \in Seq(QuicTokens),
           Verb(quicJob.cmd) # "push" => stored' = stored,
           qs' \in QuicServers, qs'.conn = qs.conn, qs'.at = "none", qs'.size = 2,
           Good(s) =>
              /\ Verb(quicJob.cmd) = "push" => stored' = QuicData
              /\ Verb(quicJob.cmd) = "pull" /\ Len(s) >= 4 => s[3] = "1" /\ s[4] = "2"
              /\ Verb(quicJob.cmd) = "ls" => quicJob.result = "fine"
              /\ Verb(quicJob.cmd) = "exec" =>
                    (Len(s) >= 2 /\ s[2] # "ERROR" => ran >= 1 /\ quicJob.result = "fine")
    PROVE  QuicInv'
<1> USE DEF QuicInv, QuicTypes
<1>1. QuicTypes'
  BY AnswerSent
<1>2. ConnInv'
  <2>1. qc.at \notin {"connect", "challenge", "result"}
    BY DEF TaskInv
  <2> QED
    BY <2>1 DEF ConnInv
<1>3. TaskInv'
  BY DEF TaskInv
<1>4. RequestInv'
  BY DEF RequestInv
<1>5. AnswerInv'
  <2>1. ASSUME qc.at = "answer" PROVE toQc' = <<>> \/ toQc' = s
    <3>1. toQc = <<>>
      BY <2>1 DEF AnswerInv
    <3> QED
      BY <3>1, FirstAnswer
  <2>2. ASSUME qc.at = "answer", Good(toQc') PROVE GoodIsTrue(toQc)'
    <3>1. toQc' = s /\ Good(s)
      BY <2>1, <2>2 DEF Good
    <3> QED
      BY <3>1 DEF GoodIsTrue
  <2> QED
    BY <2>1, <2>2, TaskAnswers DEF AnswerInv
<1> QED
  BY <1>1, <1>2, <1>3, <1>4, <1>5

LEMMA ExecEndsKeeps == QuicInv /\ ExecEnds => QuicInv'
<1> SUFFICES ASSUME QuicInv, ExecEnds PROVE QuicInv'
  OBVIOUS
<1> USE DEF QuicInv, QuicTypes
<1> DEFINE o == IF quicJob.result = "fine" THEN "output" ELSE "ERROR"
           s == <<"OK", o, Fin1>>
<1>1. /\ qs.at = "running" /\ qs' = [qs EXCEPT !.at = "none"] /\ Answers(s)
      /\ quicJob' = quicJob /\ quicUp' = quicUp /\ qc' = qc /\ stored' = stored /\ ran' = ran
      /\ toQs' = toQs
  BY DEF ExecEnds
<1>2. s \in Seq(QuicTokens) /\ s # <<>> /\ Len(s) = 3 /\ s[2] = o
  BY TokenSeqs, SomeTokens
<1>3. o # "ERROR" => quicJob.result = "fine"
  OBVIOUS
<1>4. /\ qs' \in QuicServers /\ qs'.at = "none" /\ qs'.conn = qs.conn /\ qs'.size = qs.size
      /\ qs.size = 2 /\ Verb(quicJob.cmd) = "exec" /\ ran >= 1
  BY <1>1 DEF QuicServers, QuicTasks, TaskInv, AnswerInv
<1> HIDE DEF s, o
<1> QED
  BY <1>1, <1>2, <1>3, <1>4, TaskEnds

LEMMA ExecRefusedKeeps == QuicInv /\ ExecRefused => QuicInv'
<1> SUFFICES ASSUME QuicInv, ExecRefused PROVE QuicInv'
  OBVIOUS
<1> USE DEF QuicInv, QuicTypes
<1>1. /\ qs.at = "exec" /\ qs' = [qs EXCEPT !.at = "none"] /\ toQs # <<>> /\ toQs' = Tail(toQs)
      /\ quicJob' = quicJob /\ quicUp' = quicUp /\ qc' = qc /\ stored' = stored /\ ran' = ran
  BY DEF ExecRefused
<1>2. /\ <<"OK", "ERROR", Fin1>> \in Seq(QuicTokens) /\ <<"ERROR", Fin1>> \in Seq(QuicTokens)
      /\ toQs' \in Seq(QuicTokens)
  BY <1>1, TokenSeqs, SomeTokens
<1>3. PICK s \in {<<"OK", "ERROR", Fin1>>, <<"ERROR", Fin1>>} : Answers(s)
  BY DEF ExecRefused
<1>4. s \in Seq(QuicTokens) /\ s # <<>> /\ (Good(s) => s[2] = "ERROR")
  <2>1. CASE s = <<"OK", "ERROR", Fin1>>
    BY <1>2, <2>1
  <2>2. CASE s = <<"ERROR", Fin1>>
    <3>1. s # <<>> /\ s[1] = "ERROR"
      BY <2>2
    <3> QED
      BY <1>2, <2>2, <3>1 DEF Good
  <2> QED
    BY <1>3, <2>1, <2>2
<1>5. /\ qs' \in QuicServers /\ qs'.at = "none" /\ qs'.conn = qs.conn /\ qs'.size = qs.size
      /\ qs.size = 2 /\ Verb(quicJob.cmd) = "exec"
  BY <1>1 DEF QuicServers, QuicTasks, TaskInv
<1>6. Verb(quicJob.cmd) \notin {"push", "pull", "ls"}
  BY <1>5
<1>7. stored' \in Seq(QuicTokens) /\ qs.at \notin {"none", "header"}
  BY <1>1
<1> HIDE DEF QuicInv, QuicTypes
<1> QED
  BY <1>1, <1>2, <1>3, <1>4, <1>5, <1>6, <1>7, TaskEnds

LEMMA PushReadsKeeps == QuicInv /\ PushReads => QuicInv'
<1> SUFFICES ASSUME QuicInv, PushReads PROVE QuicInv'
  OBVIOUS
<1> USE DEF QuicInv, QuicTypes
<1>0. /\ qs.at = "push" /\ quicJob' = quicJob /\ quicUp' = quicUp /\ qc' = qc /\ ran' = ran
      /\ toQs' = toQs /\ toQc' = toQc
  BY DEF PushReads
<1>a. qs.size = 2 /\ Verb(quicJob.cmd) = "push" /\ qs.conn = "open"
  BY <1>0 DEF TaskInv, ConnInv
<1>b. Len(toQs) <= 4 /\ \A i \in 1 .. Len(toQs) : toQs[i] = PushRequest[i + 1]
  BY <1>0, <1>a DEF RequestInv
<1>c. \/ qs' = [qs EXCEPT !.at = "writing", !.data = QuicData] /\ stored' = <<>>
      \/ qs' = [qs EXCEPT !.at = "none"] /\ stored' = stored
  <2>1. ASSUME Len(toQs) > 2 PROVE SubSeq(toQs, 2, 1 + qs.size) = QuicData
    <3>1. toQs[2] = "1" /\ toQs[3] = "2"
      BY <1>b, <2>1 DEF PushRequest
    <3> QED
      BY <1>a, <2>1, <3>1, TokenPairs DEF QuicData
  <2> QED
    BY <1>a, <2>1 DEF PushReads
<1>d. /\ qs' \in QuicServers /\ stored' \in Seq(QuicTokens) /\ qs'.conn = qs.conn /\ qs'.size = 2
      /\ qs'.at \in {"writing", "none"}
      /\ qs'.at = "writing" => qs'.data = QuicData
  BY <1>a, <1>c, TokenSeqs, QuicRequests DEF QuicServers, QuicTasks
<1>1. QuicTypes'
  BY <1>0, <1>d
<1>2. ConnInv'
  BY <1>0, <1>d DEF ConnInv
<1>3. TaskInv'
  BY <1>0, <1>a, <1>d DEF TaskInv
<1>4. RequestInv'
  BY <1>0, <1>a, <1>d DEF RequestInv
<1>5. AnswerInv'
  <2>1. qc.at = "answer" => toQc = <<>>
    BY <1>0 DEF AnswerInv
  <2> QED
    BY <1>0, <1>a, <1>d, <2>1, TaskAnswers DEF Good, AnswerInv
<1> QED
  BY <1>1, <1>2, <1>3, <1>4, <1>5

LEMMA PushWritesKeeps == QuicInv /\ PushWrites => QuicInv'
<1> SUFFICES ASSUME QuicInv, PushWrites PROVE QuicInv'
  OBVIOUS
<1> USE DEF QuicInv, QuicTypes
<1>1. /\ qs.at = "writing" /\ qs' = [qs EXCEPT !.at = "none"]
      /\ quicJob' = quicJob /\ quicUp' = quicUp /\ qc' = qc /\ ran' = ran /\ toQs' = toQs
  BY DEF PushWrites
<1>2. /\ qs' \in QuicServers /\ qs'.at = "none" /\ qs'.conn = qs.conn /\ qs'.size = qs.size
      /\ qs.size = 2 /\ Verb(quicJob.cmd) = "push" /\ qs.data = QuicData
  BY <1>1 DEF QuicServers, QuicTasks, TaskInv, RequestInv
<1>3. CASE quicJob.result = "fine"
  <2>1. stored' = QuicData /\ Answers(<<"OK", "size", Fin1>>)
    BY <1>2, <1>3 DEF PushWrites
  <2>2. <<"OK", "size", Fin1>> \in Seq(QuicTokens) /\ <<"OK", "size", Fin1>> # <<>>
    BY TokenSeqs, SomeTokens
  <2> QED
    BY <1>1, <1>2, <2>1, <2>2, TaskEnds, QuicRequests
<1>4. CASE quicJob.result # "fine"
  <2>1. stored' = stored /\ Answers(<<"ERROR", Fin1>>)
    BY <1>4 DEF PushWrites
  <2>2. <<"ERROR", Fin1>> \in Seq(QuicTokens) /\ <<"ERROR", Fin1>> # <<>>
        /\ ~Good(<<"ERROR", Fin1>>)
    BY TokenSeqs, SomeTokens DEF Good
  <2> QED
    BY <1>1, <1>2, <2>1, <2>2, TaskEnds
<1> QED
  BY <1>3, <1>4

LEMMA PullReadsKeeps == QuicInv /\ PullReads => QuicInv'
<1> SUFFICES ASSUME QuicInv, PullReads PROVE QuicInv'
  OBVIOUS
<1> USE DEF QuicInv, QuicTypes
<1>1. /\ qs.at = "pull" /\ qs' = [qs EXCEPT !.at = "none", !.size = Len(stored)]
      /\ quicJob' = quicJob /\ quicUp' = quicUp /\ qc' = qc /\ ran' = ran /\ toQs' = toQs
      /\ stored' = stored
  BY DEF PullReads
<1>2. Verb(quicJob.cmd) = "pull" /\ stored = QuicData /\ Len(stored) = 2
  BY <1>1, QuicRequests DEF TaskInv, RequestInv
<1>3. /\ qs' \in QuicServers /\ qs'.at = "none" /\ qs'.conn = qs.conn /\ qs'.size = 2
  BY <1>1, <1>2 DEF QuicServers, QuicTasks
<1>4. CASE quicJob.result = "fine"
  <2> DEFINE s == <<"OK", "size", "1", "2", Fin1>>
  <2>1. Answers(s)
    BY <1>2, <1>4, QuicRequests DEF PullReads
  <2>2. s \in Seq(QuicTokens) /\ s[3] = "1" /\ s[4] = "2" /\ s # <<>>
    BY QuicRequests
  <2> HIDE DEF s
  <2> QED
    BY <1>1, <1>2, <1>3, <2>1, <2>2, TaskEnds
<1>5. CASE quicJob.result # "fine"
  <2>1. Answers(<<"ERROR", Fin1>>)
    BY <1>5 DEF PullReads
  <2>2. <<"ERROR", Fin1>> \in Seq(QuicTokens) /\ <<"ERROR", Fin1>> # <<>>
        /\ ~Good(<<"ERROR", Fin1>>)
    BY TokenSeqs, SomeTokens DEF Good
  <2> QED
    BY <1>1, <1>2, <1>3, <2>1, <2>2, TaskEnds
<1> QED
  BY <1>4, <1>5

LEMMA ListDirKeeps == QuicInv /\ ListDir => QuicInv'
<1> SUFFICES ASSUME QuicInv, ListDir PROVE QuicInv'
  OBVIOUS
<1> USE DEF QuicInv, QuicTypes
<1> DEFINE o == IF quicJob.result = "fine" THEN "json" ELSE "ERROR"
           s == <<o, Fin1>>
<1>1. /\ qs.at = "ls" /\ qs' = [qs EXCEPT !.at = "none"] /\ Answers(s)
      /\ quicJob' = quicJob /\ quicUp' = quicUp /\ qc' = qc /\ ran' = ran /\ toQs' = toQs
      /\ stored' = stored
  BY DEF ListDir
<1>2. /\ qs' \in QuicServers /\ qs'.at = "none" /\ qs'.conn = qs.conn /\ qs'.size = qs.size
      /\ qs.size = 2 /\ Verb(quicJob.cmd) = "ls"
  BY <1>1 DEF QuicServers, QuicTasks, TaskInv
<1>3. s \in Seq(QuicTokens) /\ s # <<>>
  BY TokenSeqs, SomeTokens
<1>4. Good(s) => quicJob.result = "fine"
  BY DEF Good
<1> HIDE DEF s, o
<1> QED
  BY <1>1, <1>2, <1>3, <1>4, TaskEnds

LEMMA QuicStepKeeps == QuicInv /\ [QuicNext]_quicVars => QuicInv'
<1> SUFFICES ASSUME QuicInv, [QuicNext]_quicVars PROVE QuicInv'
  OBVIOUS
<1>1. CASE QuicClient
  BY <1>1, QuicConnectKeeps, QuicAuthKeeps, QuicLocalKeeps, QuicCallKeeps, QuicAnswerKeeps,
     QuicTakesKeeps DEF QuicClient
<1>2. CASE QuicServer
  BY <1>2, AuthRequestKeeps, AuthVerifyKeeps, AuthCloseKeeps, handle_quic_streamKeeps,
     ExecStartsKeeps, ExecRefusedKeeps, ExecEndsKeeps, PushReadsKeeps, PushWritesKeeps, PullReadsKeeps, ListDirKeeps
     DEF QuicServer
<1>3. CASE QuicLost \/ QuicIdle
  BY <1>3, CutoffKeeps DEF QuicLost, QuicIdle
<1>4. CASE UNCHANGED quicVars
  BY <1>4 DEF quicVars, QuicInv, QuicTypes, ConnInv, TaskInv, RequestInv, AnswerInv, Good,
     GoodIsTrue, QuicOk, Asks
<1> QED
  BY <1>1, <1>2, <1>3, <1>4 DEF QuicNext

LEMMA QuicIsTrue == QuicInv => QuicTold /\ QuicRunsOnce
<1> SUFFICES ASSUME QuicInv PROVE QuicTold /\ QuicRunsOnce
  OBVIOUS
<1> USE DEF QuicInv, QuicTypes
<1>1. QuicTold
  <2> SUFFICES ASSUME QuicOk, Asks, ~Forgiving(quicJob.cmd)
               PROVE  CASE Verb(quicJob.cmd) = "push" -> stored = QuicData
                        [] Verb(quicJob.cmd) = "pull" -> SubSeq(qc.got, 3, 2 + qs.size) = QuicData
                        [] Verb(quicJob.cmd) = "ls" -> quicJob.result = "fine"
                        [] OTHER -> qc.got[2] # "ERROR" => ran = 1 /\ quicJob.result = "fine"
    BY DEF QuicTold
  <2>1. /\ GoodIsTrue(qc.got) /\ qc.call = 1
        /\ Verb(quicJob.cmd) = "pull" => Len(qc.got) >= 4
        /\ Verb(quicJob.cmd) = "exec" => Len(qc.got) >= 2
    BY DEF AnswerInv
  <2>2. Verb(quicJob.cmd) \in {"push", "pull", "ls", "exec"}
    BY QuicScenario
  <2>3. Verb(quicJob.cmd) = "pull" => SubSeq(qc.got, 3, 2 + qs.size) = QuicData
    <3>1. qc.got \in Seq(QuicTokens)
      BY DEF QuicCallers
    <3> QED
      BY <2>1, <3>1, TokenPairs DEF GoodIsTrue, QuicData
  <2>4. Verb(quicJob.cmd) = "exec" =>
           (qc.got[2] # "ERROR" => ran = 1 /\ quicJob.result = "fine")
    BY <2>1 DEF GoodIsTrue, TaskInv
  <2> QED
    BY <2>1, <2>2, <2>3, <2>4 DEF GoodIsTrue
<1>2. QuicRunsOnce
  BY QuicScenario DEF QuicRunsOnce, TaskInv, AnswerInv
<1> QED
  BY <1>1, <1>2
-----------------------------------------------------------------------------
(* The SSH fallback.                                                       *)

SshBlocks == {"t", "b"}
SshMsgs == [k : {"exec", "eof", "close"}] \cup [k : {"data"}, b : SshBlocks \cup {"?"}]
           \cup [k : {"exit"}, n : Nat]
SshKinds == {"none", "data", "exit", "eof", "close", "exec"}
SshClients == [call : 1 .. 3, at : {"open", "send", "wait", "done"}, left : Seq(SshBlocks),
               code : Nat, saw : SUBSET SshKinds, out : Seq(SshBlocks \cup {"?"}), typed : Nat,
               skipped : Nat, exit : {"none", "ok", "error"}]
SshProcs == [at : {"none", "run", "exited"}, code : Nat, out : Seq(SshBlocks),
             pipe : Seq(SshBlocks), told : SUBSET SshKinds, refused : BOOLEAN]
SshTypes ==
    /\ sshJob \in SshScenarios /\ sshUp \in BOOLEAN /\ ssh \in SshClients /\ proc \in SshProcs
    /\ toSshd \in Seq(SshMsgs) /\ toSsh \in Seq(SshMsgs)
    /\ remote \in [1 .. 3 -> Seq(SshBlocks \cup {"?", "no file"})]

\* One call after the other; a command that reports success has come to the last.
CallsInv ==
    /\ ssh.call <= LastCall
    /\ Reported => ssh.call = LastCall
    /\ ssh.at = "send" => Call = "push"
    /\ pulled # NoFile => Reported

\* 1 if there is an exit-status before the j-th message.
ExitBefore(q, j) == IF \E i \in 1 .. Len(q) : i < j /\ q[i].k = "exit" THEN 1 ELSE 0
\* An exit code tells the truth about the process.
CodeTrue(n) == /\ proc.at = "exited"
               /\ IF sshJob.server = "mrsh" THEN (n = 0) = (proc.code = 0) ELSE n = proc.code
\* What arrives of the output, and how much of it has been sent.
Text == IF sshJob.server = "mrsh" THEN AsText(sshJob.data) ELSE sshJob.data
SentBlocks == Len(sshJob.data) - Len(proc.out) - Len(proc.pipe)

\* A call that reads output: c is the client, q what is on its way to it.
ReadsOutput == Call \in {"exec", "pull"} /\ (ssh.at = "wait" \/ Reported)
\* Only an mrsh server refuses a command, and one that is not refused writes its output.
RefusedInv ==
    IF sshJob.server = "mrsh" THEN IF proc.refused THEN proc.code # 0 ELSE proc.out = <<>>
    ELSE proc.refused = FALSE
OutputInv(c, q) ==
    /\ SentBlocks >= 0
    /\ \A i \in 1 .. Len(proc.pipe) : proc.pipe[i] = sshJob.data[SentBlocks + i]
    /\ \A i \in 1 .. Len(proc.out) : proc.out[i] = sshJob.data[SentBlocks + Len(proc.pipe) + i]
    /\ Len(c.out) <= SentBlocks
    /\ \A i \in 1 .. Len(c.out) : c.out[i] = Text[i]
    /\ \A j \in 1 .. Len(q) : q[j].k = "data" =>
          /\ Len(c.out) + j - ExitBefore(q, j) <= SentBlocks
          /\ q[j].b = Text[Len(c.out) + j - ExitBefore(q, j)]
    /\ \A j \in 1 .. Len(q) : q[j].k # "exec"
    /\ proc.at = "exited" /\ proc.code = 0 => proc.out = <<>>
    /\ sshJob.server = "mrsh" =>
          /\ proc.at = "exited" /\ proc.pipe = <<>>
          /\ {"exit", "eof", "close"} \subseteq proc.told
    /\ RefusedInv
EofInv(c, q) ==
    /\ "eof" \in proc.told => proc.at = "exited" /\ proc.pipe = <<>>
    /\ "eof" \in c.saw => "eof" \in proc.told /\ Len(c.out) = SentBlocks
    /\ \A j \in 1 .. Len(q) : q[j].k = "eof" =>
          "eof" \in proc.told /\ Len(c.out) + j - 1 - ExitBefore(q, j) = SentBlocks
    /\ sshUp /\ "eof" \notin proc.told =>
          Len(c.out) + Len(q) - ExitBefore(q, Len(q) + 1) = SentBlocks
    /\ sshUp /\ "eof" \in proc.told => "eof" \in c.saw \/ \E i \in 1 .. Len(q) : q[i].k = "eof"
    /\ "close" \in c.saw => "eof" \in c.saw
    /\ \A j \in 1 .. Len(q) : q[j].k = "close" =>
          "eof" \in c.saw \/ \E i \in 1 .. Len(q) : i < j /\ q[i].k = "eof"
ExitInv(c, q) ==
    /\ "exit" \in proc.told => proc.at = "exited"
    /\ "exit" \in c.saw => "exit" \in proc.told /\ CodeTrue(c.code)
    /\ \A j \in 1 .. Len(q) : q[j].k = "exit" =>
          /\ "exit" \in proc.told /\ CodeTrue(q[j].n) /\ "exit" \notin c.saw
          /\ \A i \in 1 .. Len(q) : q[i].k = "exit" => i = j
NothingYet(c, q) == proc = NoProc /\ q = <<>> /\ c.out = <<>> /\ c.saw \subseteq {"none"}
ReadInv ==
    ReadsOutput =>
       /\ toSshd \in {<<>>, <<Msg("exec")>>} /\ (toSshd # <<>> => proc.at = "none")
       /\ IF proc.at = "none" THEN NothingYet(ssh, toSsh)
          ELSE OutputInv(ssh, toSsh) /\ EofInv(ssh, toSsh) /\ ExitInv(ssh, toSsh)
       /\ Reported /\ Call = "exec" =>
             /\ "exit" \in ssh.saw
             /\ sshUp => "close" \in ssh.saw
       /\ ssh.at = "wait" => /\ ssh.saw \cap {"none", "close"} = {}
                             /\ Call = "pull" => "eof" \notin ssh.saw
       /\ Call = "pull" /\ "exit" \in ssh.saw => ssh.code = 0
       /\ Reported /\ Call = "pull" => pulled = ssh.out

\* A call that writes a file.
Pushing == sshJob.op = "push" /\ Call = "push" /\ sshJob.server = "openssh"
           /\ (ssh.at \in {"send", "wait"} \/ Reported)
File == IF proc.at = "none" THEN <<>> ELSE remote[ssh.call]
FirstAt == IF proc.at = "none" THEN 1 ELSE 0
InputInv ==
    /\ proc.at = "none" => proc = NoProc /\ toSsh = <<>>
    /\ proc.at = "none" /\ toSshd # <<>> => toSshd[1].k = "exec"
    /\ \A j \in 1 .. Len(toSshd) : toSshd[j].k = "exec" => j = 1 /\ proc.at = "none"
    /\ Len(File) <= Len(sshJob.data)
    /\ \A i \in 1 .. Len(File) : File[i] = sshJob.data[i]
    /\ \A j \in 1 .. Len(toSshd) : toSshd[j].k = "data" =>
          /\ Len(File) + j - FirstAt <= Len(sshJob.data)
          /\ toSshd[j].b = sshJob.data[Len(File) + j - FirstAt]
    /\ \A j \in 1 .. Len(toSshd) : toSshd[j].k = "eof" =>
          Len(File) + j - FirstAt = Len(sshJob.data) + 1
    /\ sshUp /\ ssh.at = "send" =>
          /\ toSshd = <<>> => proc.at # "none"
          /\ Len(File) + Len(toSshd) - FirstAt + Len(ssh.left) = Len(sshJob.data)
          /\ \A i \in 1 .. Len(ssh.left) :
                ssh.left[i] = sshJob.data[Len(sshJob.data) - Len(ssh.left) + i]
    /\ proc.at = "exited" /\ proc.code = 0 => Len(File) = Len(sshJob.data)
WriteInv ==
    Pushing => /\ InputInv
               /\ \A j \in 1 .. Len(toSsh) : toSsh[j].k = "exit" => CodeTrue(toSsh[j].n)
               /\ "exit" \in ssh.saw => CodeTrue(ssh.code)
               /\ Reported => ssh.code = 0

SshInv == SshTypes /\ CallsInv /\ ReadInv /\ WriteInv

LEMMA SshScenario ==
    sshJob \in SshScenarios =>
       /\ sshJob.op \in {"none", "exec", "push", "pull", "pushdir", "shell"}
       /\ sshJob.server \in {"openssh", "mrsh"} /\ sshJob.data \in Seq(SshBlocks)
       /\ sshJob.ends \in Nat /\ Len(sshJob.data) \in Nat
BY SshAssumption DEF SshBlocks

\* The calls of each command.
LEMMA CallIs ==
    ASSUME sshJob \in SshScenarios, ssh.call \in 1 .. 3, ssh.call <= LastCall
    PROVE  /\ LastCall \in 1 .. 3
           /\ Call = "exec" <=> sshJob.op = "exec"
           /\ Call = "pull" <=> sshJob.op = "pull" /\ ssh.call = 2
           /\ Call = "push" => sshJob.op \in {"push", "pushdir"} /\ ssh.call >= 2
           /\ Call = "probe" => ssh.call = 1 /\ LastCall >= 2
           /\ Call \in {"exec", "pull"} => ssh.call = LastCall
           /\ Call = "push" /\ sshJob.op = "push" => ssh.call = LastCall
           /\ sshJob.op \in {"push", "pull"} /\ ssh.call = LastCall => Call = sshJob.op
           /\ sshJob.op = "exec" => LastCall = 1 /\ Call = "exec"
           /\ Call \in {"probe", "exec", "push", "pull", "shell", "none"}
<1>1. \/ sshJob.op = "push" /\ Calls = <<"probe", "push">>
      \/ sshJob.op = "pushdir" /\ Calls = <<"probe", "push", "push">>
      \/ sshJob.op = "pull" /\ Calls = <<"probe", "pull">>
      \/ sshJob.op \in {"none", "exec", "shell"} /\ Calls = <<sshJob.op>>
  BY SshScenario DEF Calls
<1>2. CASE sshJob.op = "push" /\ Calls = <<"probe", "push">>
  BY <1>2 DEF LastCall, Call
<1>3. CASE sshJob.op = "pushdir" /\ Calls = <<"probe", "push", "push">>
  BY <1>3 DEF LastCall, Call
<1>4. CASE sshJob.op = "pull" /\ Calls = <<"probe", "pull">>
  BY <1>4 DEF LastCall, Call
<1>5. CASE sshJob.op \in {"none", "exec", "shell"} /\ Calls = <<sshJob.op>>
  BY <1>5 DEF LastCall, Call
<1> QED
  BY <1>1, <1>2, <1>3, <1>4, <1>5

-----------------------------------------------------------------------------
(* Exit-statuses in a stream.                                              *)

LEMMA SshSeqs ==
    /\ \A q \in Seq(SshMsgs) : Len(q) \in Nat
    /\ \A q \in Seq(SshMsgs), m \in SshMsgs :
          /\ Append(q, m) \in Seq(SshMsgs) /\ Len(Append(q, m)) = Len(q) + 1
          /\ Append(q, m)[Len(q) + 1] = m
          /\ \A i \in 1 .. Len(q) : Append(q, m)[i] = q[i]
    /\ \A q \in Seq(SshMsgs) : q # <<>> =>
          /\ Len(q) >= 1 /\ Head(q) = q[1] /\ q[1] \in SshMsgs
          /\ Tail(q) \in Seq(SshMsgs) /\ Len(Tail(q)) = Len(q) - 1
          /\ \A i \in 1 .. Len(q) - 1 : Tail(q)[i] = q[i + 1]
    /\ \A q \in Seq(SshMsgs) : \A n \in 0 .. Len(q) :
          /\ SubSeq(q, 1, n) \in Seq(SshMsgs) /\ Len(SubSeq(q, 1, n)) = n
          /\ \A i \in 1 .. n : SubSeq(q, 1, n)[i] = q[i]
OBVIOUS

LEMMA ExitBeforeIs ==
    ASSUME NEW q, NEW j
    PROVE  /\ ExitBefore(q, j) \in {0, 1}
           /\ ExitBefore(q, j) = 1 <=> \E i \in 1 .. Len(q) : i < j /\ q[i].k = "exit"
BY DEF ExitBefore
LEMMA ExitBeforeAppend ==
    ASSUME NEW q \in Seq(SshMsgs), NEW m \in SshMsgs, NEW j \in 1 .. Len(q) + 1
    PROVE  ExitBefore(Append(q, m), j) = ExitBefore(q, j)
<1>1. \A i \in 1 .. Len(q) : Append(q, m)[i] = q[i]
  OBVIOUS
<1>2. Len(Append(q, m)) = Len(q) + 1 /\ Len(q) \in Nat
  OBVIOUS
<1>3. (\E i \in 1 .. Len(Append(q, m)) : i < j /\ Append(q, m)[i].k = "exit")
      <=> (\E i \in 1 .. Len(q) : i < j /\ q[i].k = "exit")
  BY <1>1, <1>2
<1> QED
  BY <1>3 DEF ExitBefore
LEMMA ExitBeforeEnd ==
    ASSUME NEW q \in Seq(SshMsgs), NEW m \in SshMsgs
    PROVE  ExitBefore(Append(q, m), Len(q) + 2)
              = IF m.k = "exit" THEN 1 ELSE ExitBefore(q, Len(q) + 1)
<1>1. \A i \in 1 .. Len(q) : Append(q, m)[i] = q[i]
  OBVIOUS
<1>2. Len(Append(q, m)) = Len(q) + 1 /\ Len(q) \in Nat /\ Append(q, m)[Len(q) + 1] = m
  OBVIOUS
<1>3. (\E i \in 1 .. Len(Append(q, m)) : i < Len(q) + 2 /\ Append(q, m)[i].k = "exit")
      <=> m.k = "exit" \/ (\E i \in 1 .. Len(q) : i < Len(q) + 1 /\ q[i].k = "exit")
  BY <1>1, <1>2
<1> QED
  BY <1>3 DEF ExitBefore
LEMMA ExitBeforeTail ==
    ASSUME NEW q \in Seq(SshMsgs), q # <<>>, NEW j \in 1 .. Len(q)
    PROVE  /\ q[1].k # "exit" => ExitBefore(Tail(q), j) = ExitBefore(q, j + 1)
           /\ q[1].k = "exit" => ExitBefore(q, j + 1) = 1
           /\ (\A i \in 1 .. Len(q) : q[i].k = "exit" => i = 1) => ExitBefore(Tail(q), j) = 0
           /\ ExitBefore(q, 1) = 0
<1>1. /\ Len(q) \in Nat /\ Len(q) >= 1 /\ Len(Tail(q)) = Len(q) - 1
      /\ \A i \in 1 .. Len(q) - 1 : Tail(q)[i] = q[i + 1]
  BY SshSeqs
<1>2. ASSUME q[1].k # "exit"
      PROVE  (\E i \in 1 .. Len(Tail(q)) : i < j /\ Tail(q)[i].k = "exit")
             <=> (\E i \in 1 .. Len(q) : i < j + 1 /\ q[i].k = "exit")
  <2>1. ASSUME NEW i \in 1 .. Len(Tail(q)), i < j, Tail(q)[i].k = "exit"
        PROVE  i + 1 \in 1 .. Len(q) /\ i + 1 < j + 1 /\ q[i + 1].k = "exit"
    BY <1>1, <2>1
  <2>2. ASSUME NEW i \in 1 .. Len(q), i < j + 1, q[i].k = "exit"
        PROVE  i - 1 \in 1 .. Len(Tail(q)) /\ i - 1 < j /\ Tail(q)[i - 1].k = "exit"
    <3>1. i # 1
      BY <1>2, <2>2
    <3>2. i - 1 \in 1 .. Len(q) - 1
      BY <1>1, <3>1
    <3>3. Tail(q)[i - 1] = q[(i - 1) + 1] /\ (i - 1) + 1 = i
      BY <1>1, <3>2
    <3> QED
      BY <1>1, <2>2, <3>2, <3>3
  <2> QED
    BY <2>1, <2>2
<1>3. q[1].k = "exit" => ExitBefore(q, j + 1) = 1
  BY <1>1 DEF ExitBefore
<1>4. ASSUME \A i \in 1 .. Len(q) : q[i].k = "exit" => i = 1
      PROVE  ~\E i \in 1 .. Len(Tail(q)) : i < j /\ Tail(q)[i].k = "exit"
  <2>1. ASSUME NEW i \in 1 .. Len(Tail(q)) PROVE Tail(q)[i].k # "exit"
    <3>1. i + 1 \in 1 .. Len(q) /\ i + 1 # 1 /\ Tail(q)[i] = q[i + 1]
      BY <1>1
    <3> QED
      BY <1>4, <3>1
  <2> QED
    BY <2>1
<1>5. ExitBefore(q, 1) = 0
  BY <1>1 DEF ExitBefore
<1> QED
  BY <1>2, <1>3, <1>4, <1>5 DEF ExitBefore
LEMMA ExitBeforeCut ==
    ASSUME NEW q \in Seq(SshMsgs), NEW n \in 0 .. Len(q), NEW j \in 1 .. n
    PROVE  ExitBefore(SubSeq(q, 1, n), j) = ExitBefore(q, j)
<1>1. Len(q) \in Nat /\ Len(SubSeq(q, 1, n)) = n /\ \A i \in 1 .. n : SubSeq(q, 1, n)[i] = q[i]
  BY SshSeqs
<1>2. (\E i \in 1 .. Len(SubSeq(q, 1, n)) : i < j /\ SubSeq(q, 1, n)[i].k = "exit")
      => (\E i \in 1 .. Len(q) : i < j /\ q[i].k = "exit")
  BY <1>1
<1>3. (\E i \in 1 .. Len(q) : i < j /\ q[i].k = "exit")
      => (\E i \in 1 .. Len(SubSeq(q, 1, n)) : i < j /\ SubSeq(q, 1, n)[i].k = "exit")
  <2>1. ASSUME NEW i \in 1 .. Len(q), i < j, q[i].k = "exit"
        PROVE  i \in 1 .. n /\ SubSeq(q, 1, n)[i].k = "exit"
    BY <1>1, <2>1
  <2> QED
    BY <1>1, <2>1
<1> QED
  BY <1>2, <1>3 DEF ExitBefore

-----------------------------------------------------------------------------
(* The end of a call.                                                      *)

LEMMA AfterCallIs ==
    ASSUME sshJob \in SshScenarios, ssh.call \in 1 .. 3, ssh.call <= LastCall,
           NEW failed \in BOOLEAN, NEW c \in SshClients, c.call = ssh.call
    PROVE  /\ AfterCall(failed, c) \in SshClients
           /\ AfterCall(failed, c).at \in {"open", "done"}
           /\ AfterCall(failed, c).call <= LastCall
           /\ AfterCall(failed, c).at = "done" =>
                 /\ AfterCall(failed, c).call = ssh.call
                 /\ AfterCall(failed, c).exit = "ok" =>
                       /\ ssh.call = LastCall
                       /\ ~failed \/ Call = "probe" \/ sshJob.op = "pushdir"
           /\ AfterCall(failed, c).code = c.code /\ AfterCall(failed, c).saw = c.saw
           /\ AfterCall(failed, c).out = c.out
<1> DEFINE skip == failed /\ sshJob.op = "pushdir" /\ Call = "push"
           stop == failed /\ Call # "probe" /\ ~skip
           told == IF stop THEN "error" ELSE "ok"
           n == c.skipped + (IF skip THEN 1 ELSE 0)
           dd == [c EXCEPT !.at = "done", !.exit = told, !.skipped = n]
           oo == [c EXCEPT !.call = c.call + 1, !.at = "open", !.skipped = n]
<1>1. AfterCall(failed, c) = IF stop \/ c.call = LastCall THEN dd ELSE oo
  BY DEF AfterCall
<1>2. n \in Nat /\ told \in {"ok", "error"} /\ LastCall \in 1 .. 3 /\ c.call \in 1 .. 3
      /\ c.call <= LastCall
  BY CallIs DEF SshClients
<1>3. /\ dd \in SshClients /\ dd.at = "done" /\ dd.call = c.call /\ dd.exit = told
      /\ dd.code = c.code /\ dd.saw = c.saw /\ dd.out = c.out
  <2> HIDE DEF n, told
  <2> QED
    BY <1>2 DEF SshClients
<1>4. c.call # LastCall =>
      /\ oo \in SshClients /\ oo.at = "open" /\ oo.call = c.call + 1 /\ oo.call <= LastCall
      /\ oo.code = c.code /\ oo.saw = c.saw /\ oo.out = c.out
  <2> HIDE DEF n, told
  <2>1. c.call # LastCall => c.call + 1 \in 1 .. 3 /\ c.call + 1 <= LastCall
    BY <1>2
  <2> QED
    BY <1>2, <2>1 DEF SshClients
<1>5. CASE stop \/ c.call = LastCall
  <2>1. AfterCall(failed, c) = dd
    BY <1>1, <1>5
  <2>2. told = "ok" => ssh.call = LastCall /\ (~failed \/ Call = "probe" \/ sshJob.op = "pushdir")
    BY <1>5
  <2> QED
    <3> HIDE DEF dd, told
    <3> QED
      BY <1>2, <1>3, <2>1, <2>2
<1>6. CASE ~(stop \/ c.call = LastCall)
  <2>1. AfterCall(failed, c) = oo /\ c.call # LastCall
    BY <1>1, <1>6
  <2> QED
    <3> HIDE DEF oo
    <3> QED
      BY <1>4, <2>1
<1> QED
  BY <1>5, <1>6

-----------------------------------------------------------------------------
(* What every action keeps of the types and of the order of the calls.     *)

SshBase == SshTypes /\ CallsInv

LEMMA SshMsgsAre ==
    /\ Msg("exec") \in SshMsgs /\ Msg("eof") \in SshMsgs /\ Msg("close") \in SshMsgs
    /\ \A b \in SshBlocks \cup {"?"} : Block(b) \in SshMsgs
    /\ \A n \in Nat : ExitStatus(n) \in SshMsgs
    /\ \A m \in SshMsgs : /\ m.k \in SshKinds
                          /\ m.k = "exit" => m.n \in Nat
                          /\ m.k = "data" => m.b \in SshBlocks \cup {"?"}
    /\ Msg("exec").k = "exec" /\ Msg("eof").k = "eof" /\ Msg("close").k = "close"
    /\ \A b : Block(b).k = "data" /\ Block(b).b = b
    /\ \A n : ExitStatus(n).k = "exit" /\ ExitStatus(n).n = n
BY DEF SshMsgs, Msg, Block, ExitStatus, SshKinds

\* A step that leaves the job and the call alone leaves the calls alone.
LEMMA SameCalls ==
    ASSUME sshJob' = sshJob
    PROVE  LastCall' = LastCall /\ (ssh'.call = ssh.call => Call' = Call)
BY DEF LastCall, Call, Calls

LEMMA OpenKeepsBase == SshBase /\ OpenChannel => SshBase'
<1> SUFFICES ASSUME SshBase, OpenChannel PROVE SshBase'
  OBVIOUS
<1> USE SshMsgsAre, SameCalls
<1>1. SshTypes /\ CallsInv
  BY DEF SshBase
<1>2. /\ sshJob' = sshJob /\ remote' = remote /\ pulled' = pulled /\ sshUp' = sshUp
      /\ ssh.at = "open" /\ ssh \in SshClients /\ sshJob \in SshScenarios
  BY <1>1 DEF OpenChannel, SshTypes
<1>3. pulled = NoFile /\ ssh.call <= LastCall
  BY <1>1, <1>2 DEF CallsInv, Reported
<1>4. CASE sshUp
  <2> DEFINE left1 == IF Call = "push" THEN sshJob.data ELSE <<>>
             at1 == IF Call = "push" THEN "send" ELSE "wait"
  <2>1. left1 \in Seq(SshBlocks) /\ at1 \in {"send", "wait"} /\ (at1 = "send" => Call = "push")
    BY <1>2, SshScenario
  <2>2. /\ ssh' = [ssh EXCEPT !.at = at1, !.left = left1, !.code = 0, !.saw = {}, !.out = <<>>]
        /\ toSshd' = <<Msg("exec")>> /\ toSsh' = <<>> /\ proc' = NoProc
    BY <1>4 DEF OpenChannel
  <2>3. ssh' \in SshClients /\ ssh'.at = at1 /\ ssh'.call = ssh.call
    <3> HIDE DEF left1, at1
    <3>1. PICK none, nil : none = {} /\ nil = <<>>
      OBVIOUS
    <3>2. none \in SUBSET SshKinds /\ nil \in Seq(SshBlocks \cup {"?"})
      BY <3>1
    <3>3. ssh' = [ssh EXCEPT !.at = at1, !.left = left1, !.code = 0, !.saw = none, !.out = nil]
      BY <2>2, <3>1
    <3> QED
      BY <1>2, <2>1, <3>2, <3>3 DEF SshClients
  <2>4. SshTypes'
    <3>1. proc' \in SshProcs
      BY <2>2 DEF NoProc, SshProcs
    <3>2. toSshd' \in Seq(SshMsgs) /\ toSsh' \in Seq(SshMsgs)
      BY <2>2
    <3> QED
      BY <1>1, <1>2, <2>3, <3>1, <3>2 DEF SshTypes
  <2>5. CallsInv'
    BY <1>2, <1>3, <2>1, <2>3 DEF CallsInv, Reported
  <2> QED
    BY <2>4, <2>5 DEF SshBase
<1>5. CASE ~sshUp
  <2>1. ssh' = AfterCall(TRUE, ssh) /\ UNCHANGED <<toSshd, toSsh, proc>>
    BY <1>5 DEF OpenChannel
  <2>2. /\ ssh' \in SshClients /\ ssh'.at \in {"open", "done"} /\ ssh'.call <= LastCall
        /\ ssh'.at = "done" /\ ssh'.exit = "ok" => ssh'.call = LastCall
    BY <1>1, <1>2, <1>3, <2>1, AfterCallIs DEF SshTypes, SshClients
  <2>3. SshTypes'
    BY <1>1, <1>2, <2>1, <2>2 DEF SshTypes
  <2>4. CallsInv'
    BY <1>2, <1>3, <2>2 DEF CallsInv, Reported
  <2> QED
    BY <2>3, <2>4 DEF SshBase
<1> QED
  BY <1>4, <1>5

LEMMA PushKeepsBase == SshBase /\ PushData => SshBase'
<1> SUFFICES ASSUME SshBase, PushData PROVE SshBase'
  OBVIOUS
<1> USE SshMsgsAre, SameCalls
<1>1. SshTypes /\ CallsInv
  BY DEF SshBase
<1>2. /\ sshJob' = sshJob /\ remote' = remote /\ pulled' = pulled /\ sshUp' = sshUp
      /\ ssh.at = "send" /\ ssh \in SshClients /\ sshJob \in SshScenarios /\ toSsh' = toSsh
      /\ proc' = proc /\ toSshd \in Seq(SshMsgs)
  BY <1>1 DEF PushData, SshTypes
<1>3. pulled = NoFile /\ ssh.call <= LastCall /\ Call = "push"
  BY <1>1, <1>2 DEF CallsInv, Reported
<1>4. CASE sshUp
  <2>1. toSshd' = Append(toSshd, IF ssh.left = <<>> THEN Msg("eof") ELSE Block(Head(ssh.left)))
        /\ ssh' = IF ssh.left = <<>> THEN [ssh EXCEPT !.at = "wait"]
                      ELSE [ssh EXCEPT !.left = Tail(@)]
    BY <1>4 DEF PushData
  <2>2. ssh.left \in Seq(SshBlocks)
    BY <1>2 DEF SshClients
  <2>3. ssh.left # <<>> => Tail(ssh.left) \in Seq(SshBlocks) /\ Head(ssh.left) \in SshBlocks
    BY <2>2
  <2>4. toSshd' \in Seq(SshMsgs)
    BY <1>2, <2>1, <2>3
  <2>5. ssh' \in SshClients /\ ssh'.at \in {"send", "wait"} /\ ssh'.call = ssh.call
    BY <1>2, <2>1, <2>3 DEF SshClients
  <2>6. SshTypes'
    BY <1>1, <1>2, <2>4, <2>5 DEF SshTypes
  <2>7. CallsInv'
    BY <1>2, <1>3, <2>5 DEF CallsInv, Reported
  <2> QED
    BY <2>6, <2>7 DEF SshBase
<1>5. CASE ~sshUp
  <2>1. ssh' = AfterCall(TRUE, ssh) /\ UNCHANGED toSshd
    BY <1>5 DEF PushData
  <2>2. /\ ssh' \in SshClients /\ ssh'.at \in {"open", "done"} /\ ssh'.call <= LastCall
        /\ ssh'.at = "done" /\ ssh'.exit = "ok" => ssh'.call = LastCall
    BY <1>1, <1>2, <1>3, <2>1, AfterCallIs DEF SshTypes, SshClients
  <2>3. SshTypes'
    BY <1>1, <1>2, <2>1, <2>2 DEF SshTypes
  <2>4. CallsInv'
    BY <1>2, <1>3, <2>2 DEF CallsInv, Reported
  <2> QED
    BY <2>3, <2>4 DEF SshBase
<1> QED
  BY <1>4, <1>5

\* What a message does to the client, before it looks at whether the wait is over.
Incoming == IF toSsh = <<>> THEN Msg("none") ELSE Head(toSsh)
Seen(m) == [ssh EXCEPT !.saw = ssh.saw \cup {m.k},
                       !.code = IF m.k = "exit" THEN m.n ELSE ssh.code,
                       !.out = IF m.k = "data" THEN Append(ssh.out, m.b) ELSE ssh.out]
Refused(m) == m.k = "exit" /\ m.n # 0 /\ Call = "pull"
LEMMA SeenIs ==
    ASSUME SshTypes, NEW m, m = Msg("none") \/ m \in SshMsgs
    PROVE  /\ Seen(m) \in SshClients /\ Seen(m).call = ssh.call /\ Seen(m).at = ssh.at
           /\ Seen(m).exit = ssh.exit
           /\ Seen(m).saw = ssh.saw \cup {m.k}
           /\ Seen(m).code = IF m.k = "exit" THEN m.n ELSE ssh.code
           /\ Seen(m).out = IF m.k = "data" THEN Append(ssh.out, m.b) ELSE ssh.out
<1> DEFINE saw1 == ssh.saw \cup {m.k}
           code1 == IF m.k = "exit" THEN m.n ELSE ssh.code
           out1 == IF m.k = "data" THEN Append(ssh.out, m.b) ELSE ssh.out
<1>1. ssh \in SshClients
  BY DEF SshTypes
<1>2. /\ m.k \in SshKinds /\ (m.k = "exit" => m.n \in Nat)
      /\ m.k = "data" => m.b \in SshBlocks \cup {"?"}
  BY SshMsgsAre DEF Msg, SshKinds
<1>3. saw1 \subseteq SshKinds /\ code1 \in Nat /\ out1 \in Seq(SshBlocks \cup {"?"})
  BY <1>1, <1>2 DEF SshClients
<1>4. Seen(m) = [ssh EXCEPT !.saw = saw1, !.code = code1, !.out = out1]
  BY DEF Seen
<1> HIDE DEF saw1, code1, out1
<1>5. /\ Seen(m) \in SshClients /\ Seen(m).call = ssh.call /\ Seen(m).at = ssh.at
      /\ Seen(m).exit = ssh.exit /\ Seen(m).saw = saw1 /\ Seen(m).code = code1 /\ Seen(m).out = out1
  BY <1>1, <1>3, <1>4 DEF SshClients
<1> QED
  BY <1>5 DEF saw1, code1, out1
LEMMA WaitIs ==
    ASSUME SshBase, WaitMessage
    PROVE  /\ ssh.at = "wait" /\ (toSsh # <<>> \/ ~sshUp \/ "close" \in ssh.saw)
           /\ Incoming = Msg("none") \/ Incoming \in SshMsgs
           /\ toSsh = <<>> => Incoming = Msg("none") /\ toSsh' = <<>>
           /\ toSsh # <<>> => Incoming = toSsh[1] /\ Incoming \in SshMsgs /\ toSsh' = Tail(toSsh)
           /\ ssh' = IF Refused(Incoming) THEN AfterCall(TRUE, Seen(Incoming))
                     ELSE IF EndsWait(Incoming.k)
                     THEN AfterCall(CallFailed(Seen(Incoming)), Seen(Incoming)) ELSE Seen(Incoming)
           /\ pulled' = IF Call = "pull" /\ EndsWait(Incoming.k) /\ ~Refused(Incoming)
                        THEN Seen(Incoming).out ELSE pulled
           /\ UNCHANGED <<sshJob, sshUp, toSshd, proc, remote>>
<1>1. WaitMessage
      => /\ ssh' = IF Refused(Incoming) THEN AfterCall(TRUE, Seen(Incoming))
                     ELSE IF EndsWait(Incoming.k)
                     THEN AfterCall(CallFailed(Seen(Incoming)), Seen(Incoming)) ELSE Seen(Incoming)
         /\ pulled' = IF Call = "pull" /\ EndsWait(Incoming.k) /\ ~Refused(Incoming)
                        THEN Seen(Incoming).out ELSE pulled
  BY DEF WaitMessage, Incoming, Seen, Refused
<1>2. toSsh \in Seq(SshMsgs)
  BY DEF SshBase, SshTypes
<1>3. toSsh # <<>> => Incoming = toSsh[1] /\ Incoming \in SshMsgs /\ toSsh' = Tail(toSsh)
  BY <1>2 DEF WaitMessage, Incoming
<1> QED
  BY <1>1, <1>2, <1>3 DEF WaitMessage, Incoming
LEMMA WaitKeepsBase == SshBase /\ WaitMessage => SshBase'
<1> SUFFICES ASSUME SshBase, WaitMessage PROVE SshBase'
  OBVIOUS
<1>1. SshTypes /\ CallsInv
  BY DEF SshBase
<1>2. /\ ssh.at = "wait" /\ ssh \in SshClients /\ sshJob \in SshScenarios
      /\ pulled = NoFile /\ ssh.call <= LastCall /\ ssh.call \in 1 .. 3
  BY <1>1, WaitIs DEF CallsInv, Reported, SshTypes, SshClients
<1> DEFINE a == Seen(Incoming)
<1>3. a \in SshClients /\ a.call = ssh.call /\ a.at = "wait"
  BY <1>1, <1>2, WaitIs, SeenIs
<1>4. CallFailed(a) \in BOOLEAN
  BY DEF CallFailed
<1> HIDE DEF a
<1>5. ssh' \in {AfterCall(TRUE, a), AfterCall(CallFailed(a), a), a}
      /\ UNCHANGED <<sshJob, sshUp, toSshd, proc, remote>>
  BY WaitIs DEF a
<1>6. /\ ssh' \in SshClients /\ ssh'.at \in {"open", "done", "wait"} /\ ssh'.call <= LastCall
      /\ ssh'.at = "done" /\ ssh'.exit = "ok" => ssh'.call = LastCall
  <2>1. CASE ssh' = a
    BY <1>2, <1>3, <2>1
  <2>2. CASE ssh' = AfterCall(TRUE, a)
    BY <1>2, <1>3, <2>2, AfterCallIs
  <2>3. CASE ssh' = AfterCall(CallFailed(a), a)
    <3>1. \A f \in BOOLEAN :
            /\ AfterCall(f, a) \in SshClients /\ AfterCall(f, a).at \in {"open", "done"}
            /\ AfterCall(f, a).call <= LastCall
            /\ AfterCall(f, a).at = "done" /\ AfterCall(f, a).exit = "ok"
               => AfterCall(f, a).call = LastCall
      BY <1>2, <1>3, AfterCallIs
    <3> QED
      BY <1>4, <2>3, <3>1
  <2> QED
    BY <1>5, <2>1, <2>2, <2>3
<1>7. toSsh' \in Seq(SshMsgs)
  <2>1. toSsh \in Seq(SshMsgs)
    BY <1>1 DEF SshTypes
  <2> QED
    BY <2>1, WaitIs, SshSeqs
<1>8. pulled' # NoFile => Reported'
  <2>1. pulled' # NoFile => /\ Call = "pull" /\ EndsWait(Incoming.k) /\ ~Refused(Incoming)
    BY <1>2, WaitIs
  <2>2. Call = "pull" => ~CallFailed(a) /\ ssh.call = LastCall
    BY <1>1, <1>2, CallIs DEF CallFailed
  <2>3. a.call = LastCall => AfterCall(FALSE, a).at = "done" /\ AfterCall(FALSE, a).exit = "ok"
    BY <1>3 DEF AfterCall, SshClients
  <2>4. pulled' # NoFile => ssh' = AfterCall(FALSE, a)
    BY <1>4, <2>1, <2>2, WaitIs DEF a
  <2> QED
    BY <1>3, <2>1, <2>2, <2>3, <2>4 DEF Reported
<1>9. SshTypes'
  BY <1>1, <1>5, <1>6, <1>7 DEF SshTypes
<1>10. CallsInv'
  BY <1>1, <1>5, <1>6, <1>8, SameCalls DEF CallsInv, Reported
<1> QED
  BY <1>9, <1>10 DEF SshBase

\* The shell, and the other side.
LEMMA ShellKeepsBase == SshBase /\ ShellInput => SshBase'
<1> SUFFICES ASSUME SshBase, ShellInput PROVE SshBase'
  OBVIOUS
<1>1. SshTypes /\ CallsInv
  BY DEF SshBase
<1>2. /\ UNCHANGED <<sshJob, sshUp, toSsh, proc, remote, pulled>>
      /\ ssh.at = "wait" /\ ssh \in SshClients /\ sshJob \in SshScenarios /\ toSshd \in Seq(SshMsgs)
  BY <1>1 DEF ShellInput, SshTypes
<1>3. pulled = NoFile /\ ssh.call <= LastCall /\ ssh.call \in 1 .. 3
  BY <1>1, <1>2 DEF CallsInv, Reported, SshClients
<1>4. Block("t") \in SshMsgs /\ Msg("eof") \in SshMsgs /\ Msg("close") \in SshMsgs
  BY SshMsgsAre DEF SshBlocks
<1>5. toSshd' \in Seq(SshMsgs)
  <2>1. \/ toSshd' = Append(toSshd, Block("t")) \/ toSshd' = Append(toSshd, Msg("eof"))
        \/ toSshd' = toSshd \o <<Msg("eof"), Msg("close")>>
    BY DEF ShellInput
  <2>2. <<Msg("eof"), Msg("close")>> \in Seq(SshMsgs)
    BY <1>4
  <2>3. toSshd \o <<Msg("eof"), Msg("close")>> \in Seq(SshMsgs)
    <3>1. \A p, q \in Seq(SshMsgs) : p \o q \in Seq(SshMsgs)
      OBVIOUS
    <3> QED
      BY <1>2, <2>2, <3>1
  <2>4. \A m \in SshMsgs : Append(toSshd, m) \in Seq(SshMsgs)
    BY <1>2
  <2> QED
    BY <1>4, <2>1, <2>3, <2>4
<1>6. /\ ssh' \in SshClients /\ ssh'.at \in {"open", "done", "wait"} /\ ssh'.call <= LastCall
      /\ ssh'.at = "done" /\ ssh'.exit = "ok" => ssh'.call = LastCall
  <2>1. \/ ssh' = [ssh EXCEPT !.typed = ssh.typed + 1] \/ ssh' = [ssh EXCEPT !.typed = MaxSshInput + 1]
        \/ ssh' = AfterCall(FALSE, ssh)
    BY DEF ShellInput
  <2>2. CASE ssh' = AfterCall(FALSE, ssh)
    BY <1>2, <1>3, <2>2, AfterCallIs
  <2>3. CASE ssh' = [ssh EXCEPT !.typed = ssh.typed + 1] \/ ssh' = [ssh EXCEPT !.typed = MaxSshInput + 1]
    <3>1. PICK n \in Nat : ssh' = [ssh EXCEPT !.typed = n]
      <4>1. MaxSshInput \in Nat
        BY SshAssumption
      <4>2. ssh.typed + 1 \in Nat /\ MaxSshInput + 1 \in Nat
        BY <1>2, <4>1 DEF SshClients
      <4> QED
        BY <2>3, <4>2
    <3> QED
      BY <1>2, <1>3, <3>1 DEF SshClients
  <2> QED
    BY <2>1, <2>2, <2>3
<1>7. SshTypes'
  BY <1>1, <1>2, <1>5, <1>6 DEF SshTypes
<1>8. CallsInv'
  BY <1>2, <1>3, <1>6, SameCalls DEF CallsInv, Reported
<1> QED
  BY <1>7, <1>8 DEF SshBase

LEMMA AskIs ==
    ASSUME SshTypes, NEW k \in {"exec", "data", "eof"}, Ask = k
    PROVE  /\ toSshd # <<>> /\ Head(toSshd) = toSshd[1] /\ toSshd[1] \in SshMsgs /\ toSshd[1].k = k
           /\ Tail(toSshd) \in Seq(SshMsgs)
<1>1. toSshd # <<>> /\ toSshd \in Seq(SshMsgs)
  BY DEF Ask, SshTypes
<1> QED
  BY <1>1, SshSeqs DEF Ask
LEMMA ProcIs ==
    ASSUME SshTypes
    PROVE  /\ CallCode \in Nat /\ Output \in Seq(SshBlocks) /\ AsText(sshJob.data) \in Seq(SshBlocks \cup {"?"})
           /\ proc \in SshProcs /\ NoProc \in SshProcs
           /\ \A n \in Nat : Exits(n) \in SshProcs
<1>1. sshJob \in SshScenarios /\ proc \in SshProcs
  BY DEF SshTypes
<1>2. CallCode \in Nat /\ Output \in Seq(SshBlocks)
  BY <1>1, SshScenario DEF CallCode, Output
<1>3. AsText(sshJob.data) \in Seq(SshBlocks \cup {"?"})
  BY <1>1, SshScenario DEF AsText, SshBlocks
<1>4. NoProc \in SshProcs
  BY DEF NoProc, SshProcs
<1>5. \A n \in Nat : Exits(n) \in SshProcs
  BY <1>1 DEF Exits, SshProcs
<1> QED
  BY <1>1, <1>2, <1>3, <1>4, <1>5
\* An action of the server or of the connection leaves the client alone.
LEMMA ServerKeepsBase ==
    ASSUME SshBase, UNCHANGED <<sshJob, ssh, pulled>>, sshUp' \in BOOLEAN,
           toSshd' \in Seq(SshMsgs), toSsh' \in Seq(SshMsgs), proc' \in SshProcs,
           remote' \in [1 .. 3 -> Seq(SshBlocks \cup {"?", "no file"})]
    PROVE  SshBase'
<1>1. SshTypes'
  BY DEF SshBase, SshTypes
<1>2. CallsInv'
  BY SameCalls DEF SshBase, CallsInv, Reported
<1> QED
  BY <1>1, <1>2 DEF SshBase

LEMMA ProcKeepsBase ==
    SshBase /\ (ProcStarts \/ ProcReads \/ ProcWrites \/ ProcExits \/ ProcKilled) => SshBase'
<1> SUFFICES ASSUME SshBase, ProcStarts \/ ProcReads \/ ProcWrites \/ ProcExits \/ ProcKilled
             PROVE  SshBase'
  OBVIOUS
<1>1. SshTypes /\ sshJob \in SshScenarios /\ ssh.call \in 1 .. 3 /\ sshUp \in BOOLEAN
      /\ toSshd \in Seq(SshMsgs) /\ toSsh \in Seq(SshMsgs) /\ proc \in SshProcs
      /\ remote \in [1 .. 3 -> Seq(SshBlocks \cup {"?", "no file"})]
  BY DEF SshBase, SshTypes, SshClients
<1>2. CASE ProcStarts
  <2>1. Tail(toSshd) \in Seq(SshMsgs)
    BY <1>1, <1>2, AskIs DEF ProcStarts
  <2>2. [NoProc EXCEPT !.at = "run", !.out = Output] \in SshProcs
    BY <1>1, ProcIs DEF SshProcs
  <2>3. remote' \in [1 .. 3 -> Seq(SshBlocks \cup {"?", "no file"})]
    <3>1. PICK nil \in Seq(SshBlocks \cup {"?", "no file"}) : nil = <<>>
      <4>1. <<>> \in Seq(SshBlocks \cup {"?", "no file"})
        OBVIOUS
      <4> QED
        BY <4>1
    <3>2. remote' = remote \/ remote' = [remote EXCEPT ![ssh.call] = nil]
      BY <1>2, <3>1 DEF ProcStarts
    <3> QED
      BY <1>1, <3>2
  <2> QED
    BY <1>1, <1>2, <2>1, <2>2, <2>3, ServerKeepsBase DEF ProcStarts
<1>3. CASE ProcReads
  <2>1. Tail(toSshd) \in Seq(SshMsgs) /\ Head(toSshd).b \in SshBlocks \cup {"?"}
    BY <1>1, <1>3, AskIs, SshMsgsAre DEF ProcReads
  <2>2. remote' \in [1 .. 3 -> Seq(SshBlocks \cup {"?", "no file"})]
    <3>1. PICK b : b = Head(toSshd).b
      OBVIOUS
    <3>2. remote' = remote \/ remote' = [remote EXCEPT ![ssh.call] = Append(remote[ssh.call], b)]
      BY <1>3, <3>1 DEF ProcReads
    <3>3. Append(remote[ssh.call], b) \in Seq(SshBlocks \cup {"?", "no file"})
      <4>1. b \in SshBlocks \cup {"?", "no file"}
        BY <2>1, <3>1
      <4>2. remote[ssh.call] \in Seq(SshBlocks \cup {"?", "no file"})
        BY <1>1
      <4>3. \A S : \A q \in Seq(S), x \in S : Append(q, x) \in Seq(S)
        OBVIOUS
      <4> QED
        BY <4>1, <4>2, <4>3
    <3> QED
      BY <1>1, <3>2, <3>3
  <2> QED
    BY <1>1, <1>3, <2>1, <2>2, ServerKeepsBase DEF ProcReads
<1>4. CASE ProcWrites
  <2>1. proc.out \in Seq(SshBlocks) /\ proc.out # <<>> /\ proc.pipe \in Seq(SshBlocks)
    BY <1>1, <1>4 DEF ProcWrites, SshProcs
  <2>2. Tail(proc.out) \in Seq(SshBlocks) /\ Append(proc.pipe, Head(proc.out)) \in Seq(SshBlocks)
    BY <2>1
  <2>3. proc' \in SshProcs
    BY <1>1, <1>4, <2>2 DEF ProcWrites, SshProcs
  <2> QED
    BY <1>1, <1>4, <2>3, ServerKeepsBase DEF ProcWrites
<1>5. CASE ProcExits
  BY <1>1, <1>5, ProcIs, ServerKeepsBase DEF ProcExits
<1>6. CASE ProcKilled
  BY <1>1, <1>6, ProcIs, ServerKeepsBase DEF ProcKilled
<1> QED
  BY <1>2, <1>3, <1>4, <1>5, <1>6

LEMMA SshdKeepsBase ==
    SshBase /\ (SshdData \/ SshdExit \/ SshdEof \/ SshdClose) => SshBase'
<1> SUFFICES ASSUME SshBase, SshdData \/ SshdExit \/ SshdEof \/ SshdClose
             PROVE  SshBase'
  OBVIOUS
<1>1. SshTypes /\ sshUp \in BOOLEAN /\ toSshd \in Seq(SshMsgs) /\ toSsh \in Seq(SshMsgs)
      /\ proc \in SshProcs /\ remote \in [1 .. 3 -> Seq(SshBlocks \cup {"?", "no file"})]
  BY DEF SshBase, SshTypes
<1>2. ASSUME NEW m \in SshMsgs, NEW k \in SshKinds, Tells(m, k), k = "data" => proc.pipe # <<>>
      PROVE  SshBase'
  <2>1. proc.told \cup {k} \subseteq SshKinds /\ (IF k = "data" THEN Tail(proc.pipe) ELSE proc.pipe) \in Seq(SshBlocks)
    <3>1. proc.told \in SUBSET SshKinds /\ proc.pipe \in Seq(SshBlocks)
      BY <1>1 DEF SshProcs
    <3>2. proc.pipe # <<>> => Tail(proc.pipe) \in Seq(SshBlocks)
      BY <3>1
    <3> QED
      BY <1>2, <3>1, <3>2
  <2>2. proc' = [proc EXCEPT !.told = proc.told \cup {k}, !.pipe = IF k = "data" THEN Tail(proc.pipe) ELSE proc.pipe]
    BY <1>2 DEF Tells
  <2>3. proc' \in SshProcs
    BY <1>1, <2>1, <2>2 DEF SshProcs
  <2>4. toSsh' \in Seq(SshMsgs) /\ UNCHANGED <<sshJob, sshUp, ssh, toSshd, remote, pulled>>
    BY <1>1, <1>2, SshSeqs DEF Tells
  <2> QED
    BY <1>1, <2>3, <2>4, ServerKeepsBase
<1>3. CASE SshdData
  <2>1. proc.pipe # <<>> /\ proc.pipe \in Seq(SshBlocks)
    BY <1>1, <1>3 DEF SshdData, SshProcs
  <2>2. Head(proc.pipe) \in SshBlocks
    BY <2>1
  <2> QED
    BY <1>2, <1>3, <2>1, <2>2, SshMsgsAre DEF SshdData, SshKinds
<1>4. CASE SshdExit
  BY <1>1, <1>2, <1>4, SshMsgsAre DEF SshdExit, SshKinds, SshProcs
<1>5. CASE SshdEof
  BY <1>2, <1>5, SshMsgsAre DEF SshdEof, SshKinds
<1>6. CASE SshdClose
  BY <1>2, <1>6, SshMsgsAre DEF SshdClose, SshKinds
<1> QED
  BY <1>3, <1>4, <1>5, <1>6

\* The answer of exec_request, all of it.
Answered ==
    (IF Output = <<>> THEN <<>> ELSE [i \in 1 .. Len(Output) |-> Block(AsText(Output)[i])])
    \o <<ExitStatus(IF CallCode = 0 THEN 0 ELSE 1), Msg("eof"), Msg("close")>>
LEMMA AnsweredIs ==
    ASSUME SshTypes
    PROVE  /\ Answered \in Seq(SshMsgs) /\ Len(Answered) = Len(Output) + 3 /\ Len(Output) \in Nat
           /\ \A i \in 1 .. Len(Output) : Answered[i] = Block(IF Output[i] = "t" THEN "t" ELSE "?")
           /\ Answered[Len(Output) + 1] = ExitStatus(IF CallCode = 0 THEN 0 ELSE 1)
           /\ Answered[Len(Output) + 2] = Msg("eof") /\ Answered[Len(Output) + 3] = Msg("close")
<1>1. Output \in Seq(SshBlocks) /\ Len(Output) \in Nat
  BY ProcIs
<1> DEFINE said == IF Output = <<>> THEN <<>> ELSE [i \in 1 .. Len(Output) |-> Block(AsText(Output)[i])]
           end == <<ExitStatus(IF CallCode = 0 THEN 0 ELSE 1), Msg("eof"), Msg("close")>>
<1>2. \A i \in 1 .. Len(Output) : /\ AsText(Output)[i] = IF Output[i] = "t" THEN "t" ELSE "?"
                                  /\ AsText(Output)[i] \in SshBlocks \cup {"?"}
  BY <1>1 DEF AsText, SshBlocks
<1>3. /\ said \in Seq(SshMsgs) /\ Len(said) = Len(Output)
      /\ \A i \in 1 .. Len(Output) : said[i] = Block(AsText(Output)[i])
  BY <1>1, <1>2, SshMsgsAre
<1>4. /\ end \in Seq(SshMsgs) /\ Len(end) = 3 /\ end[1] = ExitStatus(IF CallCode = 0 THEN 0 ELSE 1)
      /\ end[2] = Msg("eof") /\ end[3] = Msg("close")
  BY SshMsgsAre
<1>5. Answered = said \o end
  BY DEF Answered
<1> HIDE DEF said, end
<1>6. /\ Answered \in Seq(SshMsgs) /\ Len(Answered) = Len(said) + Len(end)
      /\ \A i \in 1 .. Len(said) : Answered[i] = said[i]
      /\ \A i \in 1 .. Len(end) : Answered[Len(said) + i] = end[i]
  <2>1. said \in Seq(SshMsgs) /\ end \in Seq(SshMsgs)
    BY <1>3, <1>4
  <2> QED
    BY <1>5, <2>1
<1>7. \A i \in 1 .. Len(Output) : Answered[i] = Block(IF Output[i] = "t" THEN "t" ELSE "?")
  BY <1>2, <1>3, <1>6
<1> QED
  BY <1>1, <1>3, <1>4, <1>6, <1>7
LEMMA MrshKeepsBase ==
    SshBase /\ (exec_request \/ ExecBlocked \/ shell_request \/ IgnoreData \/ channel_eof) => SshBase'
<1> SUFFICES ASSUME SshBase, exec_request \/ ExecBlocked \/ shell_request \/ IgnoreData \/ channel_eof
             PROVE  SshBase'
  OBVIOUS
<1>1. SshTypes /\ sshUp \in BOOLEAN /\ toSshd \in Seq(SshMsgs) /\ toSsh \in Seq(SshMsgs)
      /\ proc \in SshProcs /\ remote \in [1 .. 3 -> Seq(SshBlocks \cup {"?", "no file"})]
      /\ ssh.call \in 1 .. 3
  BY DEF SshBase, SshTypes, SshClients
<1>2. CASE exec_request
  <2>1. Tail(toSshd) \in Seq(SshMsgs)
    BY <1>1, <1>2, AskIs DEF exec_request, Asked
  <2>2. [Exits(CallCode) EXCEPT !.told = {"data", "exit", "eof", "close"}] \in SshProcs
    BY <1>1, ProcIs DEF SshProcs, SshKinds
  <2>3. toSsh' = Answered
    BY <1>2 DEF exec_request, Answered
  <2>4. remote' \in [1 .. 3 -> Seq(SshBlocks \cup {"?", "no file"})]
    <3>1. PICK nil \in Seq(SshBlocks \cup {"?", "no file"}) : nil = <<>>
      <4>1. <<>> \in Seq(SshBlocks \cup {"?", "no file"})
        OBVIOUS
      <4> QED
        BY <4>1
    <3>2. remote' = remote \/ remote' = [remote EXCEPT ![ssh.call] = nil]
      BY <1>2, <3>1 DEF exec_request
    <3> QED
      BY <1>1, <3>2
  <2> QED
    BY <1>1, <1>2, <2>1, <2>2, <2>3, <2>4, AnsweredIs, ServerKeepsBase DEF exec_request
<1>3. CASE shell_request
  <2>1. Tail(toSshd) \in Seq(SshMsgs)
    BY <1>1, <1>3, AskIs DEF shell_request
  <2>2. [NoProc EXCEPT !.at = "run", !.out = Output, !.told = {"exit"}] \in SshProcs
    BY <1>1, ProcIs DEF SshProcs, SshKinds
  <2> QED
    BY <1>1, <1>3, <2>1, <2>2, ServerKeepsBase DEF shell_request
<1>4. CASE IgnoreData
  <2>1. Tail(toSshd) \in Seq(SshMsgs)
    BY <1>1, <1>4, AskIs DEF IgnoreData
  <2> QED
    BY <1>1, <1>4, <2>1, ServerKeepsBase DEF IgnoreData
<1>5. CASE channel_eof
  <2>1. Tail(toSshd) \in Seq(SshMsgs)
    BY <1>1, <1>5, AskIs DEF channel_eof
  <2>2. [Exits(CallCode) EXCEPT !.pipe = <<>>, !.told = {"exit", "eof", "close"}] \in SshProcs
    <3>1. PICK e \in SshProcs : e = Exits(CallCode)
      BY <1>1, ProcIs
    <3>2. PICK nil \in Seq(SshBlocks), all \in SUBSET SshKinds :
            nil = <<>> /\ all = {"exit", "eof", "close"}
      <4>1. <<>> \in Seq(SshBlocks) /\ {"exit", "eof", "close"} \in SUBSET SshKinds
        BY DEF SshKinds
      <4> QED
        BY <4>1
    <3>3. [e EXCEPT !.pipe = nil, !.told = all] \in SshProcs
      BY DEF SshProcs
    <3> QED
      BY <3>1, <3>2, <3>3
  <2>3. Append(toSsh, Msg("close")) \in Seq(SshMsgs)
    BY <1>1, SshMsgsAre, SshSeqs
  <2> QED
    BY <1>1, <1>5, <2>1, <2>2, <2>3, ServerKeepsBase DEF channel_eof
<1>6. CASE ExecBlocked
  <2>1. Tail(toSshd) \in Seq(SshMsgs)
    BY <1>1, <1>6, AskIs DEF ExecBlocked, Asked
  <2>2. toSsh' \in Seq(SshMsgs)
    <3>1. PICK a, b, c \in SshMsgs : a = ExitStatus(1) /\ b = Msg("eof") /\ c = Msg("close")
      BY SshMsgsAre
    <3>2. <<a, b, c>> \in Seq(SshMsgs)
      OBVIOUS
    <3>3. toSsh' = <<a, b, c>>
      BY <1>6, <3>1 DEF ExecBlocked
    <3> QED
      BY <3>2, <3>3
  <2>3. proc' \in SshProcs
    <3>1. PICK out \in Seq(SshBlocks), nil \in Seq(SshBlocks) : out = Output /\ nil = <<>>
      <4>1. SshTypes
        BY <1>1
      <4>2. Output \in Seq(SshBlocks)
        BY <4>1, ProcIs
      <4>3. <<>> \in Seq(SshBlocks)
        OBVIOUS
      <4> QED
        BY <4>2, <4>3
    <3>2. proc' = [at |-> "exited", code |-> 1, out |-> out, pipe |-> nil,
                   told |-> {"data", "exit", "eof", "close"}, refused |-> TRUE]
      BY <1>6, <3>1 DEF ExecBlocked
    <3> QED
      BY <3>2 DEF SshProcs, SshKinds
  <2> QED
    BY <1>1, <1>6, <2>1, <2>2, <2>3, ServerKeepsBase DEF ExecBlocked
<1> QED
  BY <1>2, <1>3, <1>4, <1>5, <1>6
LEMMA LostKeepsBase == SshBase /\ SshLost => SshBase'
<1> SUFFICES ASSUME SshBase, SshLost PROVE SshBase'
  OBVIOUS
<1>1. SshTypes /\ toSsh \in Seq(SshMsgs) /\ proc \in SshProcs
      /\ remote \in [1 .. 3 -> Seq(SshBlocks \cup {"?", "no file"})]
  BY DEF SshBase, SshTypes
<1>2. toSsh' \in Seq(SshMsgs) /\ toSshd' \in Seq(SshMsgs)
  <2>1. PICK n \in 0 .. Len(toSsh) : toSsh' = SubSeq(toSsh, 1, n)
    BY DEF SshLost
  <2>2. toSsh' \in Seq(SshMsgs)
    BY <1>1, <2>1, SshSeqs
  <2>3. toSshd' = <<>>
    BY DEF SshLost
  <2> QED
    BY <2>2, <2>3
<1> QED
  BY <1>1, <1>2, ServerKeepsBase DEF SshLost

-----------------------------------------------------------------------------
(* The stream of an answer: a message is taken from its front.             *)

LEMMA OutIs == SshTypes => ssh.out \in Seq(SshBlocks \cup {"?"}) /\ Len(ssh.out) \in Nat
<1>1. SshTypes => ssh.out \in Seq(SshBlocks \cup {"?"})
  BY DEF SshTypes, SshClients
<1>2. \A S : \A q \in Seq(S) : Len(q) \in Nat
  OBVIOUS
<1> QED
  BY <1>1, <1>2

LEMMA LateData ==
    ASSUME SshTypes, NEW q \in Seq(SshMsgs), q # <<>>, OutputInv(ssh, q), EofInv(ssh, q),
           q[1].k \in {"eof", "close"}
    PROVE  /\ Len(ssh.out) = SentBlocks /\ "eof" \in proc.told
           /\ \A j \in 2 .. Len(q) : q[j].k \notin {"data", "eof"}
<1>1. /\ Len(q) \in Nat /\ Len(q) >= 1 /\ ExitBefore(q, 1) = 0 /\ Len(ssh.out) \in Nat
      /\ \A j : ExitBefore(q, j) \in {0, 1}
  <2>1. ssh.out \in Seq(SshBlocks \cup {"?"})
    BY DEF SshTypes, SshClients
  <2>2. \A j : ExitBefore(q, j) \in {0, 1}
    BY ExitBeforeIs
  <2>3. Len(q) \in Nat /\ Len(q) >= 1
    BY SshSeqs
  <2> QED
    BY <2>1, <2>2, <2>3, ExitBeforeTail
<1>2. ExitBefore(q, 2) = 0
  BY <1>1 DEF ExitBefore
<1>3. Len(ssh.out) = SentBlocks /\ "eof" \in proc.told
  <2>1. CASE q[1].k = "eof"
    <3>1. "eof" \in proc.told /\ Len(ssh.out) + 1 - 1 - ExitBefore(q, 1) = SentBlocks
      BY <1>1, <2>1 DEF EofInv
    <3> QED
      BY <1>1, <3>1
  <2>2. CASE q[1].k = "close"
    <3>1. "eof" \in ssh.saw
      BY <1>1, <2>2 DEF EofInv
    <3> QED
      BY <3>1 DEF EofInv
  <2> QED
    BY <2>1, <2>2
<1>4. ASSUME NEW j \in 2 .. Len(q), q[j].k = "data" PROVE FALSE
  <2>1. Len(ssh.out) + j - ExitBefore(q, j) <= SentBlocks
    BY <1>1, <1>4 DEF OutputInv
  <2> QED
    BY <1>1, <1>3, <2>1
<1>5. ASSUME NEW j \in 2 .. Len(q), q[j].k = "eof" PROVE FALSE
  <2>1. Len(ssh.out) + j - 1 - ExitBefore(q, j) = SentBlocks
    BY <1>1, <1>5 DEF EofInv
  <2>2. j - 1 = ExitBefore(q, j)
    BY <1>1, <1>3, <2>1
  <2>3. j = 2
    BY <1>1, <2>2
  <2> QED
    BY <1>1, <1>2, <2>2, <2>3
<1> QED
  BY <1>3, <1>4, <1>5

LEMMA TailPlaces ==
    ASSUME SshTypes, NEW q \in Seq(SshMsgs), q # <<>>, OutputInv(ssh, q), EofInv(ssh, q),
           ExitInv(ssh, q)
    PROVE  /\ Len(Seen(q[1]).out) \in Nat
           /\ \A j \in 1 .. Len(q) - 1 : q[j + 1].k \in {"data", "eof"} =>
                 Len(Seen(q[1]).out) + j - ExitBefore(Tail(q), j)
                    = Len(ssh.out) + (j + 1) - ExitBefore(q, j + 1)
           /\ "eof" \notin proc.told =>
                 Len(Seen(q[1]).out) + Len(Tail(q)) - ExitBefore(Tail(q), Len(Tail(q)) + 1)
                    = Len(ssh.out) + Len(q) - ExitBefore(q, Len(q) + 1)
<1>1. /\ Len(q) \in Nat /\ Len(q) >= 1 /\ Len(Tail(q)) = Len(q) - 1 /\ q[1] \in SshMsgs
      /\ ssh.out \in Seq(SshBlocks \cup {"?"}) /\ Len(ssh.out) \in Nat
  BY SshSeqs, OutIs
<1>2. \A j : ExitBefore(q, j) \in {0, 1} /\ ExitBefore(Tail(q), j) \in {0, 1}
  BY ExitBeforeIs
<1>3. q[1].k \in {"data", "eof", "close", "exit"}
  <2>1. q[1].k \in SshKinds /\ q[1].k # "none" /\ q[1].k # "exec"
    BY <1>1 DEF OutputInv, SshMsgs, SshKinds
  <2> QED
    BY <2>1 DEF SshKinds
<1>4. Len(Seen(q[1]).out) = IF q[1].k = "data" THEN Len(ssh.out) + 1 ELSE Len(ssh.out)
  <2>1. q[1].k = "data" => q[1].b \in SshBlocks \cup {"?"}
    BY <1>1, SshMsgsAre
  <2>2. Seen(q[1]).out = IF q[1].k = "data" THEN Append(ssh.out, q[1].b) ELSE ssh.out
    BY <1>1, SeenIs
  <2> QED
    BY <1>1, <2>1, <2>2
<1>5. \A j \in 1 .. Len(q) :
        /\ q[1].k # "exit" => ExitBefore(Tail(q), j) = ExitBefore(q, j + 1)
        /\ q[1].k = "exit" => ExitBefore(q, j + 1) = 1 /\ ExitBefore(Tail(q), j) = 0
  <2>1. q[1].k = "exit" => \A i \in 1 .. Len(q) : q[i].k = "exit" => i = 1
    BY <1>1 DEF ExitInv
  <2> QED
    BY <2>1, ExitBeforeTail
<1>6. ASSUME NEW j \in 1 .. Len(q) - 1, q[j + 1].k \in {"data", "eof"}
      PROVE  Len(Seen(q[1]).out) + j - ExitBefore(Tail(q), j)
                = Len(ssh.out) + (j + 1) - ExitBefore(q, j + 1)
  <2>1. q[1].k \in {"data", "exit"}
    <3>1. j + 1 \in 2 .. Len(q)
      BY <1>1
    <3> QED
      BY <1>3, <1>6, <3>1, LateData
  <2>2. j \in 1 .. Len(q) /\ j \in Nat /\ Len(ssh.out) \in Nat
    BY <1>1
  <2>3. PICK e, f \in {0, 1} : e = ExitBefore(Tail(q), j) /\ f = ExitBefore(q, j + 1)
    BY <1>2
  <2>4. IF q[1].k = "data" THEN e = f /\ Len(Seen(q[1]).out) = Len(ssh.out) + 1
        ELSE e = 0 /\ f = 1 /\ Len(Seen(q[1]).out) = Len(ssh.out)
    BY <1>4, <1>5, <2>1, <2>2, <2>3
  <2> QED
    BY <2>2, <2>3, <2>4
<1>7. ASSUME "eof" \notin proc.told
      PROVE  Len(Seen(q[1]).out) + Len(Tail(q)) - ExitBefore(Tail(q), Len(Tail(q)) + 1)
                = Len(ssh.out) + Len(q) - ExitBefore(q, Len(q) + 1)
  <2>1. q[1].k \in {"data", "exit"}
    BY <1>3, <1>7, LateData
  <2>2. Len(q) \in 1 .. Len(q) /\ Len(Tail(q)) + 1 = Len(q)
    BY <1>1
  <2>3. ExitBefore(Tail(q), Len(Tail(q)) + 1) = ExitBefore(Tail(q), Len(q))
    BY <2>2
  <2>4. PICK e, f \in {0, 1} : e = ExitBefore(Tail(q), Len(q)) /\ f = ExitBefore(q, Len(q) + 1)
    BY <1>2
  <2>5. IF q[1].k = "data" THEN e = f /\ Len(Seen(q[1]).out) = Len(ssh.out) + 1
        ELSE e = 0 /\ f = 1 /\ Len(Seen(q[1]).out) = Len(ssh.out)
    BY <1>4, <1>5, <2>1, <2>2, <2>4
  <2>6. Len(q) \in Nat /\ Len(ssh.out) \in Nat /\ Len(Tail(q)) = Len(q) - 1
    BY <1>1
  <2> QED
    BY <2>3, <2>4, <2>5, <2>6
<1> QED
  BY <1>1, <1>4, <1>6, <1>7

LEMMA TailOutput ==
    ASSUME SshTypes, NEW q \in Seq(SshMsgs), q # <<>>, OutputInv(ssh, q), EofInv(ssh, q),
           ExitInv(ssh, q)
    PROVE  OutputInv(Seen(q[1]), Tail(q))
<1>1. /\ Len(q) \in Nat /\ Len(q) >= 1 /\ Len(Tail(q)) = Len(q) - 1 /\ q[1] \in SshMsgs
      /\ \A i \in 1 .. Len(q) - 1 : Tail(q)[i] = q[i + 1]
      /\ ssh.out \in Seq(SshBlocks \cup {"?"}) /\ Len(ssh.out) \in Nat
  BY SshSeqs, OutIs
<1>2. PICK o : o = Seen(q[1]).out
  OBVIOUS
<1>3. o = IF q[1].k = "data" THEN Append(ssh.out, q[1].b) ELSE ssh.out
  BY <1>1, <1>2, SeenIs
<1>4. q[1].k = "data" => /\ Len(ssh.out) + 1 <= SentBlocks
                         /\ q[1].b = Text[Len(ssh.out) + 1]
  <2>1. q[1].k = "data" => /\ Len(ssh.out) + 1 - ExitBefore(q, 1) <= SentBlocks
                           /\ q[1].b = Text[Len(ssh.out) + 1 - ExitBefore(q, 1)]
    BY <1>1 DEF OutputInv
  <2>2. ExitBefore(q, 1) = 0 /\ Len(ssh.out) + 1 - 0 = Len(ssh.out) + 1
    BY <1>1, ExitBeforeTail
  <2> QED
    BY <2>1, <2>2
<1>5. Len(o) <= SentBlocks /\ \A i \in 1 .. Len(o) : o[i] = Text[i]
  <2>1. Len(ssh.out) <= SentBlocks /\ \A i \in 1 .. Len(ssh.out) : ssh.out[i] = Text[i]
    BY DEF OutputInv
  <2>2. CASE q[1].k = "data"
    <3>1. Len(o) = Len(ssh.out) + 1 /\ o[Len(ssh.out) + 1] = q[1].b
          /\ \A i \in 1 .. Len(ssh.out) : o[i] = ssh.out[i]
      <4>1. q[1].b \in SshBlocks \cup {"?"}
        BY <1>1, <2>2, SshMsgsAre
      <4> QED
        BY <1>1, <1>3, <2>2, <4>1
    <3> QED
      BY <1>1, <1>4, <2>1, <2>2, <3>1
  <2>3. CASE q[1].k # "data"
    BY <1>3, <2>1, <2>3
  <2> QED
    BY <2>2, <2>3
<1>6. ASSUME NEW j \in 1 .. Len(Tail(q)), Tail(q)[j].k = "data"
      PROVE  /\ Len(o) + j - ExitBefore(Tail(q), j) <= SentBlocks
             /\ Tail(q)[j].b = Text[Len(o) + j - ExitBefore(Tail(q), j)]
  <2>1. j \in 1 .. Len(q) - 1 /\ j + 1 \in 1 .. Len(q) /\ Tail(q)[j] = q[j + 1]
    BY <1>1
  <2>2. Len(o) + j - ExitBefore(Tail(q), j) = Len(ssh.out) + (j + 1) - ExitBefore(q, j + 1)
    BY <1>2, <1>6, <2>1, TailPlaces
  <2>3. /\ Len(ssh.out) + (j + 1) - ExitBefore(q, j + 1) <= SentBlocks
        /\ q[j + 1].b = Text[Len(ssh.out) + (j + 1) - ExitBefore(q, j + 1)]
    BY <1>6, <2>1 DEF OutputInv
  <2> QED
    BY <2>1, <2>2, <2>3
<1>7. \A j \in 1 .. Len(Tail(q)) : Tail(q)[j].k # "exec"
  <2> SUFFICES ASSUME NEW j \in 1 .. Len(Tail(q)) PROVE Tail(q)[j].k # "exec"
    OBVIOUS
  <2>1. j + 1 \in 1 .. Len(q) /\ Tail(q)[j] = q[j + 1]
    BY <1>1
  <2> QED
    BY <2>1 DEF OutputInv
<1> QED
  BY <1>2, <1>5, <1>6, <1>7 DEF OutputInv

LEMMA TailEof ==
    ASSUME SshTypes, NEW q \in Seq(SshMsgs), q # <<>>, OutputInv(ssh, q), EofInv(ssh, q),
           ExitInv(ssh, q)
    PROVE  EofInv(Seen(q[1]), Tail(q))
<1>1. /\ Len(q) \in Nat /\ Len(q) >= 1 /\ Len(Tail(q)) = Len(q) - 1 /\ q[1] \in SshMsgs
      /\ \A i \in 1 .. Len(q) - 1 : Tail(q)[i] = q[i + 1]
      /\ ssh.out \in Seq(SshBlocks \cup {"?"}) /\ Len(ssh.out) \in Nat
  BY SshSeqs, OutIs
<1>2. PICK o, w : o = Seen(q[1]).out /\ w = Seen(q[1]).saw
  OBVIOUS
<1>3. w = ssh.saw \cup {q[1].k} /\ (q[1].k # "data" => o = ssh.out)
  BY <1>1, <1>2, SeenIs
<1>4. "eof" \in w => "eof" \in proc.told /\ Len(o) = SentBlocks
  <2>1. CASE q[1].k = "eof"
    BY <1>3, <2>1, LateData
  <2>2. CASE q[1].k # "eof" /\ q[1].k # "data"
    BY <1>3, <2>2 DEF EofInv
  <2>3. CASE q[1].k = "data"
    <3>1. "eof" \notin ssh.saw
      <4>1. Len(ssh.out) + 1 - ExitBefore(q, 1) <= SentBlocks
        BY <1>1, <2>3 DEF OutputInv
      <4>2. ExitBefore(q, 1) = 0
        BY <1>1, ExitBeforeTail
      <4> QED
        BY <1>1, <4>1, <4>2 DEF EofInv
    <3> QED
      BY <1>3, <2>3, <3>1
  <2> QED
    BY <2>1, <2>2, <2>3
<1>5. ASSUME NEW j \in 1 .. Len(Tail(q)), Tail(q)[j].k = "eof"
      PROVE  "eof" \in proc.told /\ Len(o) + j - 1 - ExitBefore(Tail(q), j) = SentBlocks
  <2>1. j \in 1 .. Len(q) - 1 /\ j + 1 \in 1 .. Len(q) /\ Tail(q)[j] = q[j + 1] /\ Len(o) \in Nat
    BY <1>1, <1>2, TailPlaces
  <2>2. Len(o) + j - ExitBefore(Tail(q), j) = Len(ssh.out) + (j + 1) - ExitBefore(q, j + 1)
    BY <1>2, <1>5, <2>1, TailPlaces
  <2>3. "eof" \in proc.told /\ Len(ssh.out) + (j + 1) - 1 - ExitBefore(q, j + 1) = SentBlocks
    BY <1>5, <2>1 DEF EofInv
  <2>4. ExitBefore(q, j + 1) \in {0, 1} /\ ExitBefore(Tail(q), j) \in {0, 1}
    BY ExitBeforeIs
  <2> HIDE DEF SentBlocks
  <2>5. j \in Nat /\ Len(o) \in Nat /\ Len(ssh.out) \in Nat
    BY <1>1, <2>1
  <2>6. Len(o) + j - 1 - ExitBefore(Tail(q), j)
           = Len(ssh.out) + (j + 1) - 1 - ExitBefore(q, j + 1)
    <3>1. PICK e, f \in {0, 1} : e = ExitBefore(Tail(q), j) /\ f = ExitBefore(q, j + 1)
      BY <2>4
    <3>2. PICK x, y \in Nat : x = Len(o) /\ y = Len(ssh.out)
      BY <2>5
    <3>3. x + j - e = y + (j + 1) - f
      BY <2>2, <3>1, <3>2
    <3>4. x + j - 1 - e = y + (j + 1) - 1 - f
      BY <2>5, <3>3
    <3> QED
      BY <3>1, <3>2, <3>4
  <2> QED
    BY <2>3, <2>6
<1>6. sshUp /\ "eof" \notin proc.told =>
          Len(o) + Len(Tail(q)) - ExitBefore(Tail(q), Len(Tail(q)) + 1) = SentBlocks
  BY <1>2, TailPlaces DEF EofInv
<1>7. sshUp /\ "eof" \in proc.told =>
          "eof" \in w \/ \E i \in 1 .. Len(Tail(q)) : Tail(q)[i].k = "eof"
  <2>1. ASSUME NEW i \in 1 .. Len(q), q[i].k = "eof", "eof" \notin w
        PROVE  \E n \in 1 .. Len(Tail(q)) : Tail(q)[n].k = "eof"
    <3>1. i # 1
      BY <1>3, <2>1
    <3>2. i - 1 \in 1 .. Len(Tail(q)) /\ Tail(q)[i - 1] = q[i]
      BY <1>1, <3>1
    <3> QED
      BY <2>1, <3>2
  <2>2. "eof" \notin w => "eof" \notin ssh.saw
    BY <1>3
  <2> QED
    BY <2>1, <2>2 DEF EofInv
<1>8. "close" \in w => "eof" \in w
  <2>1. q[1].k = "close" => "eof" \in ssh.saw
    BY <1>1 DEF EofInv
  <2>2. "close" \in ssh.saw => "eof" \in ssh.saw
    BY DEF EofInv
  <2> QED
    BY <1>3, <2>1, <2>2
<1>9. ASSUME NEW j \in 1 .. Len(Tail(q)), Tail(q)[j].k = "close", "eof" \notin w
      PROVE  \E i \in 1 .. Len(Tail(q)) : i < j /\ Tail(q)[i].k = "eof"
  <2>1. j + 1 \in 1 .. Len(q) /\ Tail(q)[j] = q[j + 1]
    BY <1>1
  <2>2. PICK i \in 1 .. Len(q) : i < j + 1 /\ q[i].k = "eof"
    BY <1>3, <1>9, <2>1 DEF EofInv
  <2>3. i # 1
    BY <1>3, <1>9, <2>2
  <2>4. i - 1 \in 1 .. Len(Tail(q)) /\ Tail(q)[i - 1] = q[i] /\ i - 1 < j
    BY <1>1, <2>2, <2>3
  <2> QED
    BY <2>2, <2>4
<1>10. "eof" \in proc.told => proc.at = "exited" /\ proc.pipe = <<>>
  BY DEF EofInv
<1> QED
  BY <1>2, <1>4, <1>5, <1>6, <1>7, <1>8, <1>9, <1>10 DEF EofInv

LEMMA TailExit ==
    ASSUME SshTypes, NEW q \in Seq(SshMsgs), q # <<>>, ExitInv(ssh, q)
    PROVE  ExitInv(Seen(q[1]), Tail(q))
<1>1. /\ Len(q) \in Nat /\ Len(q) >= 1 /\ Len(Tail(q)) = Len(q) - 1 /\ q[1] \in SshMsgs
      /\ \A i \in 1 .. Len(q) - 1 : Tail(q)[i] = q[i + 1]
  BY SshSeqs
<1>2. PICK n, w : n = Seen(q[1]).code /\ w = Seen(q[1]).saw
  OBVIOUS
<1>3. w = ssh.saw \cup {q[1].k} /\ n = IF q[1].k = "exit" THEN q[1].n ELSE ssh.code
  BY <1>1, <1>2, SeenIs
<1>4. "exit" \in w => "exit" \in proc.told /\ CodeTrue(n)
  <2>1. CASE q[1].k = "exit"
    BY <1>1, <1>3, <2>1 DEF ExitInv
  <2>2. CASE q[1].k # "exit"
    BY <1>3, <2>2 DEF ExitInv
  <2> QED
    BY <2>1, <2>2
<1>5. ASSUME NEW j \in 1 .. Len(Tail(q)), Tail(q)[j].k = "exit"
      PROVE  /\ "exit" \in proc.told /\ CodeTrue(Tail(q)[j].n) /\ "exit" \notin w
             /\ \A i \in 1 .. Len(Tail(q)) : Tail(q)[i].k = "exit" => i = j
  <2>1. j + 1 \in 1 .. Len(q) /\ Tail(q)[j] = q[j + 1] /\ 1 \in 1 .. Len(q) /\ j + 1 # 1
    BY <1>1
  <2>2. /\ "exit" \in proc.told /\ CodeTrue(q[j + 1].n) /\ "exit" \notin ssh.saw
        /\ \A i \in 1 .. Len(q) : q[i].k = "exit" => i = j + 1
    BY <1>5, <2>1 DEF ExitInv
  <2>3. q[1].k # "exit"
    BY <2>1, <2>2
  <2>4. ASSUME NEW i \in 1 .. Len(Tail(q)), Tail(q)[i].k = "exit" PROVE i = j
    <3>1. i + 1 \in 1 .. Len(q) /\ Tail(q)[i] = q[i + 1]
      BY <1>1
    <3> QED
      BY <2>1, <2>2, <2>4, <3>1
  <2> QED
    BY <1>3, <2>1, <2>2, <2>3, <2>4
<1>6. "exit" \in proc.told => proc.at = "exited"
  BY DEF ExitInv
<1> QED
  BY <1>2, <1>4, <1>5, <1>6 DEF ExitInv

-----------------------------------------------------------------------------
(* Reading an answer.                                                      *)

LEMMA StreamSame ==
    ASSUME UNCHANGED <<sshJob, proc>>, sshUp' => sshUp, NEW c, NEW q,
           OutputInv(c, q), EofInv(c, q), ExitInv(c, q),
           ssh'.out = c.out, ssh'.saw = c.saw, ssh'.code = c.code, toSsh' = q
    PROVE  (OutputInv(ssh, toSsh) /\ EofInv(ssh, toSsh) /\ ExitInv(ssh, toSsh))'
<1>1. OutputInv(ssh, toSsh)'
  <2>1. SentBlocks' = SentBlocks
    BY DEF SentBlocks
  <2>2. Text' = Text
    BY DEF Text, AsText
  <2> QED
    BY <2>1, <2>2 DEF OutputInv, RefusedInv
<1>2. EofInv(ssh, toSsh)'
  BY DEF EofInv, SentBlocks, ExitBefore
<1>3. ExitInv(ssh, toSsh)'
  BY DEF ExitInv, CodeTrue
<1> QED
  BY <1>1, <1>2, <1>3

\* ReadsOutput goes on in the same call, and only a call that waits is read.
LEMMA ReadingIs ==
    ASSUME SshBase, sshJob' = sshJob, ssh.at \in {"send", "wait"},
           \/ ssh' = AfterCall(TRUE, ssh)
           \/ ssh'.call = ssh.call /\ ssh'.at \in {"send", "wait"}, ReadsOutput'
    PROVE  ReadsOutput /\ Call' = Call /\ ssh'.call = ssh.call
<1>1. sshJob \in SshScenarios /\ ssh \in SshClients /\ ssh.call \in 1 .. 3 /\ ssh.call <= LastCall
  BY DEF SshBase, SshTypes, CallsInv, SshClients
<1>2. ssh'.call = ssh.call
  <2>1. ssh'.at \in {"wait", "done"}
    BY DEF ReadsOutput, Reported
  <2>2. AfterCall(TRUE, ssh).at = "done" => AfterCall(TRUE, ssh).call = ssh.call
    BY <1>1, AfterCallIs
  <2>3. AfterCall(TRUE, ssh).at \in {"open", "done"}
    BY <1>1, AfterCallIs
  <2>4. ssh' = AfterCall(TRUE, ssh) => ssh'.call = ssh.call
    BY <2>1, <2>2, <2>3
  <2> QED
    BY <2>4
<1>3. Call' = Call
  BY <1>2, SameCalls
<1>4. Call \in {"exec", "pull"}
  BY <1>3 DEF ReadsOutput
<1>5. ssh.at = "wait"
  BY <1>4 DEF SshBase, CallsInv
<1> QED
  BY <1>2, <1>3, <1>4, <1>5 DEF ReadsOutput

LEMMA OpenKeepsRead == SshBase /\ OpenChannel => ReadInv'
<1> SUFFICES ASSUME SshBase, OpenChannel, ReadsOutput' PROVE ReadInv'
  BY DEF ReadInv
<1>1. sshJob \in SshScenarios /\ ssh \in SshClients /\ ssh.call \in 1 .. 3 /\ ssh.call <= LastCall
      /\ sshJob' = sshJob
  BY DEF SshBase, SshTypes, CallsInv, SshClients, OpenChannel
<1>2. CASE sshUp
  <2>1. /\ ssh'.saw = {} /\ ssh'.out = <<>> /\ ssh'.at \in {"send", "wait"}
        /\ toSshd' = <<Msg("exec")>> /\ toSsh' = <<>> /\ proc'.at = "none" /\ proc' = NoProc
    <3>1. ssh' = [ssh EXCEPT !.at = IF Call = "push" THEN "send" ELSE "wait",
                             !.left = IF Call = "push" THEN sshJob.data ELSE <<>>,
                             !.code = 0, !.saw = {}, !.out = <<>>]
          /\ toSshd' = <<Msg("exec")>> /\ toSsh' = <<>> /\ proc' = NoProc
      BY <1>2 DEF OpenChannel
    <3>2. PICK at1, left1 : at1 = (IF Call = "push" THEN "send" ELSE "wait")
                            /\ left1 = (IF Call = "push" THEN sshJob.data ELSE <<>>)
      OBVIOUS
    <3>3. ssh' = [ssh EXCEPT !.at = at1, !.left = left1, !.code = 0, !.saw = {}, !.out = <<>>]
          /\ at1 \in {"send", "wait"}
      BY <3>1, <3>2
    <3>4. ssh'.saw = {} /\ ssh'.out = <<>> /\ ssh'.at = at1
      BY <1>1, <3>3 DEF SshClients
    <3> QED
      BY <3>1, <3>3, <3>4 DEF NoProc
  <2>2. ~Reported'
    BY <2>1 DEF Reported
  <2> QED
    BY <2>1, <2>2 DEF ReadInv, NothingYet
<1>3. CASE ~sshUp
  <2>1. ssh' = AfterCall(TRUE, ssh)
    BY <1>3 DEF OpenChannel
  <2>2. ssh'.at = "done" /\ ssh'.exit = "ok" /\ ssh'.call = ssh.call
    BY <1>1, <2>1, AfterCallIs DEF ReadsOutput, Reported
  <2>3. Call = "probe" \/ sshJob.op = "pushdir"
    BY <1>1, <2>1, <2>2, AfterCallIs
  <2>4. Call' = Call
    BY <1>1, <2>2, SameCalls
  <2> QED
    BY <1>1, <2>3, <2>4, CallIs DEF ReadsOutput
<1> QED
  BY <1>2, <1>3

LEMMA PushKeepsRead == SshBase /\ PushData => ReadInv'
<1> SUFFICES ASSUME SshBase, PushData, ReadsOutput' PROVE FALSE
  BY DEF ReadInv
<1>1. ssh.at = "send" /\ sshJob' = sshJob /\ ssh \in SshClients
  BY DEF PushData, SshBase, SshTypes
<1>2. ssh' = AfterCall(TRUE, ssh) \/ (ssh'.call = ssh.call /\ ssh'.at \in {"send", "wait"})
  <2>1. \/ ssh' = AfterCall(TRUE, ssh) \/ ssh' = [ssh EXCEPT !.at = "wait"]
        \/ ssh' = [ssh EXCEPT !.left = Tail(ssh.left)]
    BY <1>1 DEF PushData
  <2>2. \A l : /\ [ssh EXCEPT !.left = l].call = ssh.call /\ [ssh EXCEPT !.left = l].at = "send"
               /\ [ssh EXCEPT !.at = "wait"].call = ssh.call /\ [ssh EXCEPT !.at = "wait"].at = "wait"
    BY <1>1 DEF SshClients
  <2>3. CASE ssh' = [ssh EXCEPT !.at = "wait"]
    BY <2>2, <2>3
  <2>4. CASE ssh' = [ssh EXCEPT !.left = Tail(ssh.left)]
    BY <2>2, <2>4
  <2> QED
    BY <2>1, <2>3, <2>4
<1>3. ReadsOutput /\ Call' = Call
  BY <1>1, <1>2, ReadingIs
<1> QED
  BY <1>1, <1>3 DEF ReadsOutput, Reported

LEMMA ShellKeepsRead == SshBase /\ ShellInput => ReadInv'
<1> SUFFICES ASSUME SshBase, ShellInput, ReadsOutput' PROVE FALSE
  BY DEF ReadInv
<1>1. ssh.at = "wait" /\ sshJob' = sshJob /\ ssh \in SshClients /\ Call = "shell"
      /\ sshJob \in SshScenarios /\ ssh.call \in 1 .. 3 /\ ssh.call <= LastCall
  BY DEF ShellInput, SshBase, SshTypes, CallsInv, SshClients
<1>2. ssh'.call = ssh.call
  <2>1. \/ ssh'.call = ssh.call
        \/ ssh' = AfterCall(FALSE, ssh)
    BY <1>1 DEF ShellInput, SshClients
  <2>2. ssh'.at \in {"wait", "done"}
    BY DEF ReadsOutput, Reported
  <2> QED
    BY <1>1, <2>1, <2>2, AfterCallIs
<1>3. Call' = Call
  BY <1>1, <1>2, SameCalls
<1> QED
  BY <1>1, <1>3 DEF ReadsOutput

LEMMA WaitKeepsRead == SshBase /\ ReadInv /\ WaitMessage => ReadInv'
<1> SUFFICES ASSUME SshBase, ReadInv, WaitMessage, ReadsOutput' PROVE ReadInv'
  BY DEF ReadInv
<1> DEFINE a == Seen(Incoming)
<1>1. /\ sshJob \in SshScenarios /\ ssh \in SshClients /\ ssh.call \in 1 .. 3 /\ ssh.call <= LastCall
      /\ ssh.at = "wait" /\ SshTypes /\ toSsh \in Seq(SshMsgs) /\ Reported = FALSE
  BY WaitIs DEF SshBase, SshTypes, CallsInv, SshClients, Reported
<1>2. /\ a \in SshClients /\ a.call = ssh.call /\ a.at = ssh.at
      /\ a.saw = ssh.saw \cup {Incoming.k}
  BY <1>1, WaitIs, SeenIs
<1>3. UNCHANGED <<sshJob, sshUp, toSshd, proc, remote>>
  BY WaitIs
<1>4. CallFailed(a) \in BOOLEAN
  BY DEF CallFailed
<1>5. \/ ssh' = a
      \/ \E f \in BOOLEAN : ssh' = AfterCall(f, a) /\ ssh'.at = "done"
  <2>1. ssh' = a \/ \E f \in BOOLEAN : ssh' = AfterCall(f, a)
    BY <1>4, WaitIs
  <2>2. ssh'.at \in {"wait", "done"}
    BY DEF ReadsOutput, Reported
  <2>3. \A f \in BOOLEAN : AfterCall(f, a).at \in {"open", "done"}
    BY <1>1, <1>2, AfterCallIs
  <2> QED
    BY <2>1, <2>2, <2>3
<1>6. /\ ssh'.call = ssh.call /\ ssh'.out = a.out /\ ssh'.saw = a.saw /\ ssh'.code = a.code
  <2>1. \A f \in BOOLEAN : /\ AfterCall(f, a).out = a.out /\ AfterCall(f, a).saw = a.saw
                           /\ AfterCall(f, a).code = a.code
                           /\ AfterCall(f, a).at = "done" => AfterCall(f, a).call = ssh.call
    BY <1>1, <1>2, AfterCallIs
  <2> QED
    <3> HIDE DEF a
    <3> QED
      BY <1>2, <1>5, <2>1
<1>7. Call' = Call /\ Call \in {"exec", "pull"} /\ ReadsOutput
  BY <1>1, <1>3, <1>6, SameCalls DEF ReadsOutput
<1>8. /\ toSshd \in {<<>>, <<Msg("exec")>>} /\ (toSshd # <<>> => proc.at = "none")
      /\ IF proc.at = "none" THEN NothingYet(ssh, toSsh)
         ELSE OutputInv(ssh, toSsh) /\ EofInv(ssh, toSsh) /\ ExitInv(ssh, toSsh)
      /\ ssh.saw \cap {"none", "close"} = {} /\ (Call = "pull" => "eof" \notin ssh.saw)
      /\ Call = "pull" /\ "exit" \in ssh.saw => ssh.code = 0
  BY <1>1, <1>7 DEF ReadInv
<1>9. IF proc.at = "none" THEN NothingYet(ssh, toSsh)'
      ELSE (OutputInv(ssh, toSsh) /\ EofInv(ssh, toSsh) /\ ExitInv(ssh, toSsh))'
  <2>1. CASE proc.at = "none"
    <3>1. toSsh = <<>> /\ ssh.out = <<>> /\ ssh.saw \subseteq {"none"} /\ proc' = NoProc
      BY <1>3, <1>8, <2>1 DEF NothingYet
    <3>2. Incoming = Msg("none") /\ toSsh' = <<>>
      BY <3>1, WaitIs
    <3>3. a.out = ssh.out /\ a.saw = ssh.saw \cup {"none"}
      BY <1>1, <3>2, SeenIs DEF Msg
    <3> QED
      BY <1>6, <2>1, <3>1, <3>2, <3>3 DEF NothingYet
  <2>2. CASE proc.at # "none" /\ toSsh = <<>>
    <3>1. Incoming = Msg("none") /\ toSsh' = toSsh
      BY <2>2, WaitIs
    <3>2. a.out = ssh.out /\ a.code = ssh.code /\ a.saw = ssh.saw \cup {"none"}
      BY <1>1, <3>1, SeenIs DEF Msg
    <3>3. OutputInv(a, toSsh) /\ EofInv(a, toSsh) /\ ExitInv(a, toSsh)
      <4>1. OutputInv(ssh, toSsh) /\ EofInv(ssh, toSsh) /\ ExitInv(ssh, toSsh)
        BY <1>8, <2>2
      <4> HIDE DEF a
      <4> QED
        BY <3>2, <4>1 DEF OutputInv, EofInv, ExitInv
    <3> QED
      <4> HIDE DEF a
      <4> QED
        BY <1>3, <1>6, <2>2, <3>1, <3>3, StreamSame
  <2>3. CASE proc.at # "none" /\ toSsh # <<>>
    <3>1. Incoming = toSsh[1] /\ toSsh' = Tail(toSsh)
      BY <2>3, WaitIs
    <3>2. OutputInv(ssh, toSsh) /\ EofInv(ssh, toSsh) /\ ExitInv(ssh, toSsh)
      BY <1>8, <2>3
    <3>3. OutputInv(a, Tail(toSsh)) /\ EofInv(a, Tail(toSsh)) /\ ExitInv(a, Tail(toSsh))
      BY <1>1, <2>3, <3>1, <3>2, TailOutput, TailEof, TailExit
    <3> QED
      <4> HIDE DEF a
      <4> QED
        BY <1>3, <1>6, <2>3, <3>1, <3>3, StreamSame
  <2> QED
    BY <2>1, <2>2, <2>3
<1>10. Reported' => ~Refused(Incoming) /\ EndsWait(Incoming.k) /\ ~CallFailed(a)
  <2>1. Call # "probe" /\ sshJob.op # "pushdir"
    BY <1>1, <1>7, CallIs
  <2>2. AfterCall(TRUE, a).at = "done" => AfterCall(TRUE, a).exit # "ok"
    BY <1>1, <1>2, <2>1, AfterCallIs
  <2>3. Reported' => ssh' # a /\ ssh' # AfterCall(TRUE, a)
    BY <1>1, <1>2, <2>2 DEF Reported
  <2> QED
    BY <1>4, <2>3, WaitIs
<1>11. ssh'.at = "wait" => ~Refused(Incoming) /\ ~EndsWait(Incoming.k)
  <2>1. \A f \in BOOLEAN : AfterCall(f, a).at \in {"open", "done"}
    BY <1>1, <1>2, AfterCallIs
  <2> QED
    BY <1>4, <2>1, WaitIs
<1>12. Reported' /\ Call = "exec" =>
             /\ "exit" \in ssh'.saw
             /\ sshUp' => "close" \in ssh'.saw
  <2>1. Reported' /\ Call = "exec" => "exit" \in a.saw /\ Incoming.k \in {"none", "close"}
    BY <1>10 DEF CallFailed, EndsWait
  <2>2. Incoming.k = "none" => ~sshUp
    <3>1. Incoming.k = "none" => toSsh = <<>>
      BY <1>1, WaitIs DEF SshMsgs
    <3> QED
      BY <1>8, <3>1, WaitIs
  <2> QED
    BY <1>2, <1>3, <1>6, <2>1, <2>2
<1>13. ssh'.at = "wait" => /\ ssh'.saw \cap {"none", "close"} = {}
                           /\ Call = "pull" => "eof" \notin ssh'.saw
  <2>1. ~EndsWait(Incoming.k) /\ Call = "exec" => Incoming.k \notin {"none", "close"}
    BY DEF EndsWait
  <2>2. ~EndsWait(Incoming.k) /\ Call = "pull" => Incoming.k \notin {"none", "eof"}
    BY DEF EndsWait
  <2>3. Incoming.k = "close" => "eof" \in ssh.saw
    <3>1. Incoming.k = "close" => toSsh # <<>>
      BY WaitIs DEF Msg
    <3>2. Incoming.k = "close" => toSsh[1].k = "close" /\ 1 \in 1 .. Len(toSsh)
      BY <1>1, <3>1, WaitIs, SshSeqs
    <3>3. Incoming.k = "close" => EofInv(ssh, toSsh)
      BY <1>8, <3>1 DEF NothingYet
    <3>4. EofInv(ssh, toSsh) /\ toSsh[1].k = "close" /\ 1 \in 1 .. Len(toSsh)
          => "eof" \in ssh.saw
      BY DEF EofInv
    <3> QED
      BY <3>2, <3>3, <3>4
  <2> QED
    BY <1>1, <1>2, <1>6, <1>7, <1>8, <1>11, <2>1, <2>2, <2>3
<1>14. Call = "pull" /\ "exit" \in ssh'.saw /\ (ssh'.at = "wait" \/ Reported') => ssh'.code = 0
  <2>1. a.code = IF Incoming.k = "exit" THEN Incoming.n ELSE ssh.code
    BY <1>1, WaitIs, SeenIs
  <2>2. ssh'.at = "wait" \/ Reported' => ~Refused(Incoming)
    BY <1>10, <1>11
  <2> QED
    BY <1>2, <1>6, <1>8, <2>1, <2>2 DEF Refused
<1>15. Reported' /\ Call = "pull" => pulled' = ssh'.out
  BY <1>6, <1>10, WaitIs
<1> QED
  BY <1>3, <1>7, <1>8, <1>9, <1>12, <1>13, <1>14, <1>15 DEF ReadInv, ReadsOutput

-----------------------------------------------------------------------------
(* A message is put at the end of the stream, and the process moves on.    *)

\* A step of the server or of the connection: the client and its call stay.
LEMMA ServerReads ==
    ASSUME UNCHANGED <<sshJob, ssh, pulled>>, ReadsOutput', ReadInv,
           toSshd' \in {<<>>, <<Msg("exec")>>} /\ (toSshd' # <<>> => proc'.at = "none"),
           sshUp' => sshUp,
           IF proc'.at = "none" THEN NothingYet(ssh, toSsh)'
           ELSE (OutputInv(ssh, toSsh) /\ EofInv(ssh, toSsh) /\ ExitInv(ssh, toSsh))'
    PROVE  ReadInv'
<1>1. Call' = Call /\ Reported' = Reported /\ ReadsOutput
  BY SameCalls DEF ReadsOutput, Reported
<1>2. /\ Reported /\ Call = "exec" => "exit" \in ssh.saw /\ (sshUp => "close" \in ssh.saw)
      /\ ssh.at = "wait" => /\ ssh.saw \cap {"none", "close"} = {}
                            /\ Call = "pull" => "eof" \notin ssh.saw
      /\ Call = "pull" /\ "exit" \in ssh.saw => ssh.code = 0
      /\ Reported /\ Call = "pull" => pulled = ssh.out
  BY <1>1 DEF ReadInv
<1> QED
  BY <1>1, <1>2 DEF ReadInv

\* What is known when the server takes a step in a call that is read.
LEMMA ReadIs ==
    ASSUME SshBase, ReadInv, UNCHANGED <<sshJob, ssh, pulled>>, ReadsOutput'
    PROVE  /\ ReadsOutput /\ Call \in {"exec", "pull"} /\ Call' = Call
           /\ toSshd \in {<<>>, <<Msg("exec")>>} /\ (toSshd # <<>> => proc.at = "none")
           /\ Ask \in {"none", "exec"} /\ (Ask = "exec" => proc.at = "none" /\ Tail(toSshd) = <<>>)
           /\ IF proc.at = "none" THEN NothingYet(ssh, toSsh)
              ELSE OutputInv(ssh, toSsh) /\ EofInv(ssh, toSsh) /\ ExitInv(ssh, toSsh)
<1>1. ReadsOutput /\ Call' = Call /\ Call \in {"exec", "pull"}
  BY SameCalls DEF ReadsOutput, Reported
<1>2. /\ toSshd \in {<<>>, <<Msg("exec")>>} /\ (toSshd # <<>> => proc.at = "none")
      /\ IF proc.at = "none" THEN NothingYet(ssh, toSsh)
         ELSE OutputInv(ssh, toSsh) /\ EofInv(ssh, toSsh) /\ ExitInv(ssh, toSsh)
  BY <1>1 DEF ReadInv
<1>3. Ask \in {"none", "exec"} /\ (Ask = "exec" => proc.at = "none" /\ Tail(toSshd) = <<>>)
  <2>1. CASE toSshd = <<>>
    BY <2>1 DEF Ask
  <2>2. CASE toSshd = <<Msg("exec")>>
    BY <1>2, <2>2 DEF Ask, Msg
  <2> QED
    BY <1>2, <2>1, <2>2
<1> QED
  BY <1>1, <1>2, <1>3

LEMMA LostKeepsRead == SshBase /\ ReadInv /\ SshLost => ReadInv'
<1> SUFFICES ASSUME SshBase, ReadInv, SshLost, ReadsOutput' PROVE ReadInv'
  BY DEF ReadInv
<1>1. /\ UNCHANGED <<sshJob, ssh, proc, remote, pulled>> /\ sshUp' = FALSE /\ toSshd' = <<>>
      /\ toSsh \in Seq(SshMsgs)
  BY DEF SshLost, SshBase, SshTypes
<1>2. PICK n \in 0 .. Len(toSsh) : toSsh' = SubSeq(toSsh, 1, n)
  BY DEF SshLost
<1>3. PICK q : q = toSsh'
  OBVIOUS
<1>4. /\ Len(q) = n /\ n <= Len(toSsh) /\ Len(toSsh) \in Nat /\ n \in Nat
      /\ \A i \in 1 .. n : q[i] = toSsh[i] /\ i \in 1 .. Len(toSsh)
      /\ \A j \in 1 .. n : ExitBefore(q, j) = ExitBefore(toSsh, j)
  BY <1>1, <1>2, <1>3, SshSeqs, ExitBeforeCut
<1>5. /\ toSshd \in {<<>>, <<Msg("exec")>>}
      /\ IF proc.at = "none" THEN NothingYet(ssh, toSsh)
         ELSE OutputInv(ssh, toSsh) /\ EofInv(ssh, toSsh) /\ ExitInv(ssh, toSsh)
  BY <1>1, ReadIs
<1>6. CASE proc.at = "none"
  <2>1. NothingYet(ssh, toSsh) /\ Len(toSsh) = 0
    BY <1>5, <1>6 DEF NothingYet
  <2>2. toSsh' = <<>>
    BY <1>1, <1>2, <1>3, <1>4, <2>1
  <2> QED
    BY <1>1, <1>6, <2>1, <2>2, ServerReads DEF NothingYet
<1>7. CASE proc.at # "none"
  <2>1. OutputInv(ssh, toSsh) /\ EofInv(ssh, toSsh) /\ ExitInv(ssh, toSsh)
    BY <1>5, <1>7
  <2>2. SentBlocks' = SentBlocks /\ Text' = Text
    BY <1>1 DEF SentBlocks, Text, AsText
  <2>3. OutputInv(ssh, toSsh)'
    <3>1. OutputInv(ssh, q)
      BY <1>4, <2>1 DEF OutputInv
    <3> QED
      BY <1>1, <1>3, <2>2, <3>1 DEF OutputInv, RefusedInv
  <2>4. EofInv(ssh, toSsh)'
    <3>1. \A j \in 1 .. n : q[j].k = "eof" =>
            "eof" \in proc.told /\ Len(ssh.out) + j - 1 - ExitBefore(q, j) = SentBlocks
      BY <1>4, <2>1 DEF EofInv
    <3>2. ASSUME NEW j \in 1 .. n, q[j].k = "close", "eof" \notin ssh.saw
          PROVE  \E i \in 1 .. n : i < j /\ q[i].k = "eof"
      <4>1. PICK i \in 1 .. Len(toSsh) : i < j /\ toSsh[i].k = "eof"
        BY <1>4, <2>1, <3>2 DEF EofInv
      <4>2. i \in 1 .. n
        BY <1>4, <4>1
      <4> QED
        BY <1>4, <4>1, <4>2
    <3>3. /\ "eof" \in proc.told => proc.at = "exited" /\ proc.pipe = <<>>
          /\ "eof" \in ssh.saw => "eof" \in proc.told /\ Len(ssh.out) = SentBlocks
          /\ "close" \in ssh.saw => "eof" \in ssh.saw
      BY <2>1 DEF EofInv
    <3> QED
      BY <1>1, <1>3, <1>4, <2>2, <3>1, <3>2, <3>3 DEF EofInv
  <2>5. ExitInv(ssh, toSsh)'
    <3>1. ExitInv(ssh, q)
      BY <1>4, <2>1 DEF ExitInv
    <3> QED
      BY <1>1, <1>3, <3>1 DEF ExitInv, CodeTrue
  <2>6. toSshd' = <<>> /\ proc'.at # "none"
    BY <1>1, <1>7
  <2> QED
    BY <1>1, <2>3, <2>4, <2>5, <2>6, ServerReads
<1> QED
  BY <1>6, <1>7

\* The process starts in front of an empty stream.
LEMMA StartsKeepsRead == SshBase /\ ReadInv /\ ProcStarts => ReadInv'
<1> SUFFICES ASSUME SshBase, ReadInv, ProcStarts, ReadsOutput' PROVE ReadInv'
  BY DEF ReadInv
<1>1. UNCHANGED <<sshJob, sshUp, ssh, toSsh, pulled>> /\ Ask = "exec" /\ sshJob.server = "openssh"
      /\ proc' = [NoProc EXCEPT !.at = "run", !.out = Output] /\ toSshd' = Tail(toSshd)
      /\ SshTypes
  BY DEF ProcStarts, SshBase
<1>2. /\ Call \in {"exec", "pull"} /\ proc.at = "none" /\ toSshd' = <<>> /\ NothingYet(ssh, toSsh)
  BY <1>1, ReadIs
<1>3. /\ proc'.at = "run" /\ proc'.out = sshJob.data /\ proc'.pipe = <<>> /\ proc'.told = {}
      /\ proc'.refused = FALSE
      /\ sshJob.data \in Seq(SshBlocks) /\ Len(sshJob.data) \in Nat
  BY <1>1, <1>2, SshScenario DEF NoProc, Output, SshTypes
<1>4. /\ toSsh' = <<>> /\ ssh'.out = <<>> /\ ssh'.saw \subseteq {"none"} /\ SentBlocks' = 0
  BY <1>1, <1>2, <1>3 DEF NothingYet, SentBlocks
<1>5. OutputInv(ssh, toSsh)'
  <2>1. RefusedInv'
    BY <1>1, <1>3 DEF RefusedInv
  <2> QED
    BY <1>1, <1>3, <1>4, <2>1 DEF OutputInv
<1>6. EofInv(ssh, toSsh)'
  <2>1. ExitBefore(toSsh', Len(toSsh') + 1) = 0
    BY <1>4 DEF ExitBefore
  <2> QED
    BY <1>3, <1>4, <2>1 DEF EofInv
<1>7. ExitInv(ssh, toSsh)'
  BY <1>3, <1>4 DEF ExitInv
<1> QED
  BY <1>1, <1>2, <1>3, <1>5, <1>6, <1>7, ServerReads

\* The process writes, ends or is killed: nothing is put into the stream.
LEMMA StreamStays ==
    ASSUME UNCHANGED <<sshJob, sshUp, ssh, toSsh>>, proc'.told = proc.told,
           proc.at = "run", SentBlocks' = SentBlocks, EofInv(ssh, toSsh), ExitInv(ssh, toSsh)
    PROVE  (EofInv(ssh, toSsh) /\ ExitInv(ssh, toSsh))'
<1>1. "eof" \notin proc.told /\ "exit" \notin proc.told
  BY DEF EofInv, ExitInv
<1>2. EofInv(ssh, toSsh)'
  BY <1>1 DEF EofInv
<1>3. ExitInv(ssh, toSsh)'
  BY <1>1 DEF ExitInv
<1> QED
  BY <1>2, <1>3
LEMMA WritesKeepsRead == SshBase /\ ReadInv /\ ProcWrites => ReadInv'
<1> SUFFICES ASSUME SshBase, ReadInv, ProcWrites, ReadsOutput' PROVE ReadInv'
  BY DEF ReadInv
<1>1. /\ UNCHANGED <<sshJob, sshUp, ssh, toSshd, toSsh, remote, pulled>>
      /\ proc.at = "run" /\ proc.out # <<>> /\ SshTypes /\ proc \in SshProcs
      /\ proc' = [proc EXCEPT !.out = Tail(proc.out), !.pipe = Append(proc.pipe, Head(proc.out))]
  BY DEF ProcWrites, SshBase, SshTypes
<1>2. OutputInv(ssh, toSsh) /\ EofInv(ssh, toSsh) /\ ExitInv(ssh, toSsh) /\ toSshd = <<>>
  BY <1>1, ReadIs
<1>3. /\ proc.out \in Seq(SshBlocks) /\ proc.pipe \in Seq(SshBlocks)
      /\ Len(sshJob.data) \in Nat
  BY <1>1, SshScenario DEF SshProcs, SshTypes
<1>4. PICK o, p : o = Tail(proc.out) /\ p = Append(proc.pipe, Head(proc.out))
  OBVIOUS
<1>5. /\ Len(proc.out) \in Nat /\ Len(proc.out) >= 1 /\ Len(proc.pipe) \in Nat
      /\ Len(o) = Len(proc.out) - 1 /\ Len(p) = Len(proc.pipe) + 1
      /\ \A i \in 1 .. Len(proc.pipe) : p[i] = proc.pipe[i]
      /\ p[Len(proc.pipe) + 1] = proc.out[1]
      /\ \A i \in 1 .. Len(proc.out) - 1 : o[i] = proc.out[i + 1]
  BY <1>1, <1>3, <1>4
<1>6. /\ proc'.at = "run" /\ proc'.told = proc.told /\ proc'.out = o /\ proc'.pipe = p
      /\ proc'.code = proc.code /\ proc'.refused = proc.refused
  BY <1>1, <1>4 DEF SshProcs
<1>7. SentBlocks' = SentBlocks /\ Text' = Text /\ SentBlocks \in Nat
  <2>1. SentBlocks' = Len(sshJob.data) - Len(o) - Len(p)
    BY <1>1, <1>6 DEF SentBlocks
  <2>2. PICK x, y, d \in Nat : x = Len(proc.out) /\ y = Len(proc.pipe) /\ d = Len(sshJob.data)
    BY <1>3, <1>5
  <2>3. SentBlocks = d - x - y /\ SentBlocks' = d - (x - 1) - (y + 1) /\ SentBlocks >= 0
    BY <1>2, <1>5, <2>1, <2>2 DEF OutputInv, SentBlocks
  <2>4. SentBlocks' = SentBlocks /\ SentBlocks \in Nat
    <3>1. PICK z, w : z = SentBlocks /\ w = SentBlocks'
      OBVIOUS
    <3>2. z = d - x - y /\ w = d - (x - 1) - (y + 1) /\ z >= 0
      BY <2>3, <3>1
    <3>3. w = z /\ z \in Nat
      BY <3>2
    <3> QED
      BY <3>1, <3>3
  <2> QED
    BY <1>1, <2>4 DEF Text, AsText
<1>8. /\ \A i \in 1 .. Len(p) : p[i] = sshJob.data[SentBlocks + i]
      /\ \A i \in 1 .. Len(o) : o[i] = sshJob.data[SentBlocks + Len(p) + i]
  <2>1. /\ \A i \in 1 .. Len(proc.pipe) : proc.pipe[i] = sshJob.data[SentBlocks + i]
        /\ \A i \in 1 .. Len(proc.out) :
              proc.out[i] = sshJob.data[SentBlocks + Len(proc.pipe) + i]
    BY <1>2 DEF OutputInv
  <2>2. ASSUME NEW i \in 1 .. Len(p) PROVE p[i] = sshJob.data[SentBlocks + i]
    <3>1. CASE i \in 1 .. Len(proc.pipe)
      BY <1>5, <2>1, <3>1
    <3>2. CASE i = Len(proc.pipe) + 1
      <4>1. proc.out[1] = sshJob.data[SentBlocks + Len(proc.pipe) + 1]
        BY <1>5, <2>1
      <4>2. SentBlocks + i = SentBlocks + Len(proc.pipe) + 1
        BY <1>5, <1>7, <3>2
      <4> QED
        BY <1>5, <3>2, <4>1, <4>2
    <3> QED
      BY <1>5, <3>1, <3>2
  <2>3. ASSUME NEW i \in 1 .. Len(o) PROVE o[i] = sshJob.data[SentBlocks + Len(p) + i]
    <3>1. o[i] = proc.out[i + 1] /\ i + 1 \in 1 .. Len(proc.out)
      BY <1>5
    <3>2. SentBlocks + Len(p) + i = SentBlocks + Len(proc.pipe) + (i + 1)
      <4>1. PICK x, y \in Nat : x = SentBlocks /\ y = Len(proc.pipe) /\ Len(p) = y + 1
        BY <1>5, <1>7
      <4>2. PICK n \in Nat : n = i
        BY <1>5
      <4>3. x + (y + 1) + n = x + y + (n + 1)
        OBVIOUS
      <4> QED
        BY <4>1, <4>2, <4>3
    <3> QED
      BY <2>1, <3>1, <3>2
  <2> QED
    BY <2>2, <2>3
<1>9. OutputInv(ssh, toSsh)'
  <2>1. sshJob.server # "mrsh"
    BY <1>1, <1>2 DEF OutputInv
  <2>2. /\ SentBlocks >= 0 /\ Len(ssh.out) <= SentBlocks
        /\ \A i \in 1 .. Len(ssh.out) : ssh.out[i] = Text[i]
        /\ \A j \in 1 .. Len(toSsh) : toSsh[j].k = "data" =>
              /\ Len(ssh.out) + j - ExitBefore(toSsh, j) <= SentBlocks
              /\ toSsh[j].b = Text[Len(ssh.out) + j - ExitBefore(toSsh, j)]
        /\ \A j \in 1 .. Len(toSsh) : toSsh[j].k # "exec"
    BY <1>2 DEF OutputInv
  <2>3. RefusedInv'
    BY <1>1, <1>2, <1>6, <2>1 DEF OutputInv, RefusedInv
  <2> QED
    BY <1>1, <1>6, <1>7, <1>8, <2>1, <2>2, <2>3 DEF OutputInv
<1>10. (EofInv(ssh, toSsh) /\ ExitInv(ssh, toSsh))'
  BY <1>1, <1>2, <1>6, <1>7, StreamStays
<1> QED
  BY <1>1, <1>2, <1>6, <1>9, <1>10, ServerReads
LEMMA EndsKeepsRead == SshBase /\ ReadInv /\ (ProcExits \/ ProcKilled) => ReadInv'
<1> SUFFICES ASSUME SshBase, ReadInv, ProcExits \/ ProcKilled, ReadsOutput' PROVE ReadInv'
  BY DEF ReadInv
<1>1. /\ UNCHANGED <<sshJob, sshUp, ssh, toSshd, toSsh, remote, pulled>>
      /\ proc.at = "run" /\ SshTypes /\ proc \in SshProcs
  BY DEF ProcExits, ProcKilled, SshBase, SshTypes
<1>2. OutputInv(ssh, toSsh) /\ EofInv(ssh, toSsh) /\ ExitInv(ssh, toSsh) /\ toSshd = <<>>
      /\ Call \in {"exec", "pull"}
  BY <1>1, ReadIs
<1>3. PICK n \in Nat : proc' = [proc EXCEPT !.at = "exited", !.code = n] /\ (n = 0 => proc.out = <<>>)
  <2>1. CASE ProcExits
    BY <1>1, <1>2, <2>1, ProcIs DEF ProcExits, Exits
  <2>2. CASE ProcKilled
    <3>1. PICK n \in Nat : n = 129
      OBVIOUS
    <3>2. proc' = [proc EXCEPT !.at = "exited", !.code = n] /\ n # 0
      BY <2>2, <3>1 DEF ProcKilled, Exits
    <3> QED
      BY <3>2
  <2> QED
    BY <2>1, <2>2
<1>4. /\ proc'.at = "exited" /\ proc'.told = proc.told /\ proc'.out = proc.out
      /\ proc'.pipe = proc.pipe /\ proc'.code = n /\ proc'.refused = proc.refused
  BY <1>1, <1>3 DEF SshProcs
<1>5. SentBlocks' = SentBlocks /\ Text' = Text
  BY <1>1, <1>4 DEF SentBlocks, Text, AsText
<1>6. OutputInv(ssh, toSsh)'
  <2>1. sshJob.server # "mrsh"
    BY <1>1, <1>2 DEF OutputInv
  <2>2. RefusedInv'
    BY <1>1, <1>2, <1>4, <2>1 DEF OutputInv, RefusedInv
  <2> QED
    BY <1>1, <1>2, <1>3, <1>4, <1>5, <2>1, <2>2 DEF OutputInv
<1>7. (EofInv(ssh, toSsh) /\ ExitInv(ssh, toSsh))'
  BY <1>1, <1>2, <1>4, <1>5, StreamStays
<1> QED
  BY <1>1, <1>2, <1>4, <1>6, <1>7, ServerReads

\* What is put at the end of the stream.
LEMMA TellsIs ==
    ASSUME SshTypes, NEW m \in SshMsgs, NEW k \in SshKinds, Tells(m, k)
    PROVE  /\ sshUp /\ UNCHANGED <<sshJob, sshUp, ssh, toSshd, remote, pulled>>
           /\ Len(toSsh) \in Nat /\ Len(toSsh') = Len(toSsh) + 1 /\ toSsh'[Len(toSsh) + 1] = m
           /\ \A i \in 1 .. Len(toSsh) : toSsh'[i] = toSsh[i]
           /\ \A j \in 1 .. Len(toSsh) + 1 : ExitBefore(toSsh', j) = ExitBefore(toSsh, j)
           /\ ExitBefore(toSsh', Len(toSsh) + 2)
                 = IF m.k = "exit" THEN 1 ELSE ExitBefore(toSsh, Len(toSsh) + 1)
           /\ \A j : ExitBefore(toSsh, j) \in {0, 1}
           /\ proc'.at = proc.at /\ proc'.code = proc.code /\ proc'.out = proc.out
           /\ proc'.told = proc.told \cup {k} /\ proc'.refused = proc.refused
           /\ proc'.pipe = IF k = "data" THEN Tail(proc.pipe) ELSE proc.pipe
<1>1. toSsh \in Seq(SshMsgs) /\ proc \in SshProcs /\ toSsh' = Append(toSsh, m)
      /\ proc' = [proc EXCEPT !.told = proc.told \cup {k},
                              !.pipe = IF k = "data" THEN Tail(proc.pipe) ELSE proc.pipe]
  BY DEF SshTypes, Tells
<1>2. /\ proc'.at = proc.at /\ proc'.code = proc.code /\ proc'.out = proc.out
      /\ proc'.told = proc.told \cup {k} /\ proc'.refused = proc.refused
      /\ proc'.pipe = IF k = "data" THEN Tail(proc.pipe) ELSE proc.pipe
  BY <1>1 DEF SshProcs
<1>3. /\ Len(toSsh) \in Nat /\ Len(toSsh') = Len(toSsh) + 1 /\ toSsh'[Len(toSsh) + 1] = m
      /\ \A i \in 1 .. Len(toSsh) : toSsh'[i] = toSsh[i]
  BY <1>1, SshSeqs
<1>4. /\ \A j \in 1 .. Len(toSsh) + 1 : ExitBefore(toSsh', j) = ExitBefore(toSsh, j)
      /\ ExitBefore(toSsh', Len(toSsh) + 2)
            = IF m.k = "exit" THEN 1 ELSE ExitBefore(toSsh, Len(toSsh) + 1)
      /\ \A j : ExitBefore(toSsh, j) \in {0, 1}
  BY <1>1, ExitBeforeAppend, ExitBeforeEnd, ExitBeforeIs
<1> QED
  BY <1>2, <1>3, <1>4 DEF Tells

\* Who tells something, tells it of a call whose stream is true so far.
LEMMA TellsRead ==
    ASSUME SshBase, ReadInv, ReadsOutput', NEW m \in SshMsgs, NEW k \in SshKinds, Tells(m, k),
           proc.at # "none"
    PROVE  /\ OutputInv(ssh, toSsh) /\ EofInv(ssh, toSsh) /\ ExitInv(ssh, toSsh) /\ toSshd = <<>>
           /\ (OutputInv(ssh, toSsh) /\ EofInv(ssh, toSsh) /\ ExitInv(ssh, toSsh))' => ReadInv'
<1>1. SshTypes /\ UNCHANGED <<sshJob, sshUp, ssh, toSshd, remote, pulled>> /\ proc'.at = proc.at
  BY TellsIs DEF SshBase
<1>2. OutputInv(ssh, toSsh) /\ EofInv(ssh, toSsh) /\ ExitInv(ssh, toSsh) /\ toSshd = <<>>
  BY <1>1, ReadIs
<1> QED
  BY <1>1, <1>2, ServerReads

LEMMA DataKeepsRead == SshBase /\ ReadInv /\ SshdData => ReadInv'
<1> SUFFICES ASSUME SshBase, ReadInv, SshdData, ReadsOutput' PROVE ReadInv'
  BY DEF ReadInv
<1>1. SshTypes /\ proc \in SshProcs /\ sshJob \in SshScenarios /\ proc.pipe # <<>>
      /\ proc.pipe \in Seq(SshBlocks) /\ proc.out \in Seq(SshBlocks)
  BY DEF SshdData, SshBase, SshTypes, SshProcs
<1>2. PICK b \in SshBlocks : b = Head(proc.pipe) /\ b = proc.pipe[1]
  BY <1>1
<1>3. PICK m \in SshMsgs : m = Block(b) /\ m.k = "data" /\ m.b = b
  BY SshMsgsAre
<1>4. Tells(m, "data") /\ "data" \in SshKinds
  BY <1>2, <1>3 DEF SshdData, SshKinds
<1>5. proc.at # "none"
  <2>1. UNCHANGED <<sshJob, ssh, pulled>>
    BY <1>4 DEF Tells
  <2>2. proc.at = "none" => NothingYet(ssh, toSsh)
    BY <2>1, ReadIs
  <2> QED
    BY <1>1, <2>2 DEF NothingYet, NoProc
<1>6. /\ OutputInv(ssh, toSsh) /\ EofInv(ssh, toSsh) /\ ExitInv(ssh, toSsh)
      /\ (OutputInv(ssh, toSsh) /\ EofInv(ssh, toSsh) /\ ExitInv(ssh, toSsh))' => ReadInv'
  BY <1>3, <1>4, <1>5, TellsRead
<1>7. PICK p : p = Tail(proc.pipe)
  OBVIOUS
<1>8. /\ Len(proc.pipe) \in Nat /\ Len(proc.pipe) >= 1 /\ Len(p) = Len(proc.pipe) - 1
      /\ \A i \in 1 .. Len(proc.pipe) - 1 : p[i] = proc.pipe[i + 1]
  BY <1>1, <1>7
<1>9. PICK s, y, x, n \in Nat : /\ s = SentBlocks /\ y = Len(proc.pipe) /\ x = Len(proc.out)
                             /\ n = Len(ssh.out) /\ Len(p) = y - 1 /\ y >= 1
  <2>1. Len(proc.pipe) \in Nat /\ Len(proc.out) \in Nat /\ Len(ssh.out) \in Nat
    BY <1>1, OutIs
  <2>2. SentBlocks \in Nat
    <3>1. PICK d \in Nat : d = Len(sshJob.data)
      BY <1>1, SshScenario
    <3>2. PICK y, x \in Nat : y = Len(proc.pipe) /\ x = Len(proc.out)
      BY <2>1
    <3>3. PICK s : s = SentBlocks
      OBVIOUS
    <3>4. s = d - x - y /\ s >= 0
      BY <1>6, <3>1, <3>2, <3>3 DEF OutputInv, SentBlocks
    <3>5. s \in Nat
      BY <3>4
    <3> QED
      BY <3>3, <3>5
  <2> QED
    BY <1>8, <2>1, <2>2
<1>10. /\ UNCHANGED <<sshJob, sshUp, ssh, toSshd, remote, pulled>> /\ sshUp
       /\ proc'.at = proc.at /\ proc'.code = proc.code /\ proc'.out = proc.out
       /\ proc'.told = proc.told \cup {"data"} /\ proc'.pipe = p /\ proc'.refused = proc.refused
  BY <1>1, <1>3, <1>4, <1>7, TellsIs
<1>11. SentBlocks' = s + 1 /\ Text' = Text
  <2>1. PICK d \in Nat : d = Len(sshJob.data)
    BY <1>1, SshScenario
  <2>2. s = d - x - y
    BY <1>9, <2>1 DEF SentBlocks
  <2>3. PICK t : t = SentBlocks'
    OBVIOUS
  <2>4. t = d - x - (y - 1)
    BY <1>9, <1>10, <2>1, <2>3 DEF SentBlocks
  <2>5. t = s + 1
    BY <2>2, <2>4
  <2> QED
    BY <1>10, <2>3, <2>5 DEF Text, AsText
<1>12. /\ Text = sshJob.data /\ sshJob.server # "mrsh" /\ "eof" \notin proc.told
       /\ \A i \in 1 .. y : proc.pipe[i] = sshJob.data[s + i]
       /\ \A i \in 1 .. x : proc.out[i] = sshJob.data[s + y + i]
       /\ n <= s /\ \A i \in 1 .. n : ssh.out[i] = Text[i]
       /\ proc.at = "exited" /\ proc.code = 0 => proc.out = <<>>
       /\ proc.refused = FALSE
  BY <1>1, <1>6, <1>9 DEF OutputInv, RefusedInv, EofInv, Text
<1>13. PICK l \in Nat, e \in {0, 1} :
         /\ l = Len(toSsh) /\ e = ExitBefore(toSsh, l + 1) /\ n + l - e = s
         /\ Len(toSsh') = l + 1 /\ toSsh'[l + 1] = m
         /\ \A i \in 1 .. l : toSsh'[i] = toSsh[i]
         /\ \A j \in 1 .. l + 1 : ExitBefore(toSsh', j) = ExitBefore(toSsh, j)
         /\ ExitBefore(toSsh', l + 2) = e
  <2>1. /\ Len(toSsh) \in Nat /\ Len(toSsh') = Len(toSsh) + 1 /\ toSsh'[Len(toSsh) + 1] = m
        /\ \A i \in 1 .. Len(toSsh) : toSsh'[i] = toSsh[i]
        /\ \A j \in 1 .. Len(toSsh) + 1 : ExitBefore(toSsh', j) = ExitBefore(toSsh, j)
        /\ ExitBefore(toSsh', Len(toSsh) + 2) = ExitBefore(toSsh, Len(toSsh) + 1)
        /\ ExitBefore(toSsh, Len(toSsh) + 1) \in {0, 1}
    BY <1>1, <1>3, <1>4, TellsIs
  <2>2. n + Len(toSsh) - ExitBefore(toSsh, Len(toSsh) + 1) = s
    BY <1>6, <1>9, <1>10, <1>12 DEF EofInv
  <2> QED
    BY <2>1, <2>2
<1>14. \A j \in 1 .. l + 1 : j # l + 1 => j \in 1 .. l
  OBVIOUS
<1>15. OutputInv(ssh, toSsh)'
  <2>1. \A i \in 1 .. Len(p) : p[i] = sshJob.data[(s + 1) + i]
    <3> SUFFICES ASSUME NEW i \in 1 .. Len(p) PROVE p[i] = sshJob.data[(s + 1) + i]
      OBVIOUS
    <3>1. i \in 1 .. y - 1 /\ i + 1 \in 1 .. y /\ s + (i + 1) = (s + 1) + i
      BY <1>9
    <3> QED
      BY <1>8, <1>9, <1>12, <3>1
  <2>2. \A i \in 1 .. x : proc.out[i] = sshJob.data[(s + 1) + (y - 1) + i]
    <3> SUFFICES ASSUME NEW i \in 1 .. x PROVE proc.out[i] = sshJob.data[(s + 1) + (y - 1) + i]
      OBVIOUS
    <3>1. (s + 1) + (y - 1) + i = s + y + i
      OBVIOUS
    <3> QED
      BY <1>12, <3>1
  <2>3. ASSUME NEW j \in 1 .. l + 1, toSsh'[j].k = "data"
        PROVE  /\ n + j - ExitBefore(toSsh', j) <= s + 1
               /\ toSsh'[j].b = Text[n + j - ExitBefore(toSsh', j)]
    <3>1. CASE j \in 1 .. l
      <4>1. /\ n + j - ExitBefore(toSsh, j) <= s
            /\ toSsh[j].b = Text[n + j - ExitBefore(toSsh, j)]
        BY <1>6, <1>9, <1>13, <2>3, <3>1 DEF OutputInv
      <4>2. ExitBefore(toSsh', j) = ExitBefore(toSsh, j) /\ ExitBefore(toSsh, j) \in {0, 1}
        BY <1>13, ExitBeforeIs
      <4>3. PICK f \in {0, 1} : f = ExitBefore(toSsh, j)
        BY <4>2
      <4>4. n + j - f <= s => n + j - f <= s + 1
        BY <3>1
      <4> QED
        BY <1>13, <3>1, <4>1, <4>2, <4>3, <4>4
    <3>2. CASE j = l + 1
      <4>1. ExitBefore(toSsh', j) = e /\ toSsh'[j] = m
        BY <1>13, <3>2
      <4>2. n + j - e = s + 1
        BY <1>13, <3>2
      <4>3. m.b = sshJob.data[s + 1]
        BY <1>2, <1>3, <1>9, <1>12
      <4> QED
        BY <1>12, <4>1, <4>2, <4>3
    <3> QED
      BY <1>14, <3>1, <3>2
  <2>4. ASSUME NEW j \in 1 .. l + 1 PROVE toSsh'[j].k # "exec"
    BY <1>3, <1>6, <1>13, <1>14 DEF OutputInv
  <2>5. s + 1 >= 0 /\ n <= s + 1
    BY <1>12
  <2> QED
    BY <1>9, <1>10, <1>11, <1>12, <1>13, <2>1, <2>2, <2>3, <2>4, <2>5 DEF OutputInv, RefusedInv
<1>16. EofInv(ssh, toSsh)'
  <2>1. /\ "eof" \notin proc'.told /\ "eof" \notin ssh.saw /\ "close" \notin ssh.saw
        /\ \A j \in 1 .. l : toSsh[j].k # "eof"
    BY <1>6, <1>10, <1>12, <1>13 DEF EofInv
  <2>2. \A j \in 1 .. l : toSsh[j].k # "close"
    BY <1>6, <1>13, <2>1 DEF EofInv
  <2>3. \A j \in 1 .. l + 1 : toSsh'[j].k \notin {"eof", "close"}
    BY <1>3, <1>13, <1>14, <2>1, <2>2
  <2>4. n + (l + 1) - e = s + 1 /\ (l + 1) + 1 = l + 2
    BY <1>13
  <2> QED
    BY <1>9, <1>10, <1>11, <1>13, <2>1, <2>3, <2>4 DEF EofInv
<1>17. ExitInv(ssh, toSsh)'
  <2>1. \A j \in 1 .. l + 1 : toSsh'[j].k = "exit" => j \in 1 .. l /\ toSsh[j].k = "exit" /\ toSsh'[j] = toSsh[j]
    BY <1>3, <1>13, <1>14
  <2> QED
    BY <1>6, <1>10, <1>13, <2>1 DEF ExitInv, CodeTrue
<1> QED
  BY <1>6, <1>15, <1>16, <1>17

\* The exit code, the end of the output and the end of the channel.
LEMMA ToldKeepsRead == SshBase /\ ReadInv /\ (SshdExit \/ SshdEof \/ SshdClose) => ReadInv'
<1> SUFFICES ASSUME SshBase, ReadInv, SshdExit \/ SshdEof \/ SshdClose, ReadsOutput' PROVE ReadInv'
  BY DEF ReadInv
<1>1. SshTypes /\ proc \in SshProcs /\ UNCHANGED <<sshJob, ssh, pulled>>
  BY DEF SshdExit, SshdEof, SshdClose, Tells, SshBase, SshTypes
<1>2. PICK m \in SshMsgs, k \in SshKinds :
        /\ Tells(m, k) /\ m.k = k
        /\ \/ k = "exit" /\ m = ExitStatus(proc.code) /\ proc.at = "exited" /\ "exit" \notin proc.told
           \/ k = "eof" /\ proc.at = "exited" /\ proc.pipe = <<>> /\ "eof" \notin proc.told
           \/ k = "close" /\ {"exit", "eof"} \subseteq proc.told
  <2>1. CASE SshdExit
    <3>1. ExitStatus(proc.code) \in SshMsgs /\ ExitStatus(proc.code).k = "exit" /\ "exit" \in SshKinds
      BY <1>1, SshMsgsAre DEF SshProcs, SshKinds
    <3> QED
      BY <2>1, <3>1 DEF SshdExit
  <2>2. CASE SshdEof
    <3>1. Msg("eof") \in SshMsgs /\ Msg("eof").k = "eof" /\ "eof" \in SshKinds
      BY SshMsgsAre DEF SshKinds
    <3> QED
      BY <2>2, <3>1 DEF SshdEof
  <2>3. CASE SshdClose
    <3>1. Msg("close") \in SshMsgs /\ Msg("close").k = "close" /\ "close" \in SshKinds
      BY SshMsgsAre DEF SshKinds
    <3> QED
      BY <2>3, <3>1 DEF SshdClose
  <2> QED
    BY <2>1, <2>2, <2>3
<1>3. proc.at # "none"
  <2>1. proc.at = "none" => NothingYet(ssh, toSsh)
    BY <1>1, ReadIs
  <2> QED
    BY <1>2, <2>1 DEF NothingYet, NoProc
<1>4. /\ OutputInv(ssh, toSsh) /\ EofInv(ssh, toSsh) /\ ExitInv(ssh, toSsh)
      /\ (OutputInv(ssh, toSsh) /\ EofInv(ssh, toSsh) /\ ExitInv(ssh, toSsh))' => ReadInv'
  BY <1>2, <1>3, TellsRead
<1>5. /\ UNCHANGED <<sshJob, sshUp, ssh, toSshd, remote, pulled>> /\ sshUp
      /\ proc'.at = proc.at /\ proc'.code = proc.code /\ proc'.out = proc.out
      /\ proc'.told = proc.told \cup {k} /\ proc'.pipe = proc.pipe
      /\ proc'.refused = proc.refused
  BY <1>1, <1>2, TellsIs
<1>6. PICK l \in Nat, e \in {0, 1} :
         /\ l = Len(toSsh) /\ e = ExitBefore(toSsh, l + 1)
         /\ Len(toSsh') = l + 1 /\ toSsh'[l + 1] = m
         /\ \A i \in 1 .. l : toSsh'[i] = toSsh[i]
         /\ \A j \in 1 .. l + 1 : ExitBefore(toSsh', j) = ExitBefore(toSsh, j)
         /\ ExitBefore(toSsh', l + 2) = IF k = "exit" THEN 1 ELSE e
  <2>1. /\ Len(toSsh) \in Nat /\ Len(toSsh') = Len(toSsh) + 1 /\ toSsh'[Len(toSsh) + 1] = m
        /\ \A i \in 1 .. Len(toSsh) : toSsh'[i] = toSsh[i]
        /\ \A j \in 1 .. Len(toSsh) + 1 : ExitBefore(toSsh', j) = ExitBefore(toSsh, j)
        /\ ExitBefore(toSsh', Len(toSsh) + 2)
              = IF k = "exit" THEN 1 ELSE ExitBefore(toSsh, Len(toSsh) + 1)
        /\ ExitBefore(toSsh, Len(toSsh) + 1) \in {0, 1}
    BY <1>1, <1>2, TellsIs
  <2> QED
    BY <2>1
<1>7. /\ \A j \in 1 .. l + 1 : j # l + 1 => j \in 1 .. l
      /\ \A j \in 1 .. l : j \in 1 .. l + 1
      /\ l + 1 \in 1 .. l + 1 /\ (l + 1) + 1 = l + 2
  OBVIOUS
<1>8. SentBlocks' = SentBlocks /\ Text' = Text
  BY <1>5 DEF SentBlocks, Text, AsText
<1>9. OutputInv(ssh, toSsh)'
  <2>1. \A j \in 1 .. l + 1 : toSsh'[j].k = "data" => j \in 1 .. l /\ toSsh'[j] = toSsh[j]
    BY <1>2, <1>6, <1>7
  <2>2. \A j \in 1 .. l + 1 : toSsh'[j].k # "exec"
    BY <1>2, <1>4, <1>6, <1>7 DEF OutputInv
  <2>3. ASSUME NEW j \in 1 .. l + 1, toSsh'[j].k = "data"
        PROVE  /\ Len(ssh.out) + j - ExitBefore(toSsh', j) <= SentBlocks
               /\ toSsh'[j].b = Text[Len(ssh.out) + j - ExitBefore(toSsh', j)]
    <3>1. j \in 1 .. l /\ toSsh'[j] = toSsh[j] /\ ExitBefore(toSsh', j) = ExitBefore(toSsh, j)
      BY <1>6, <2>1, <2>3
    <3> QED
      BY <1>4, <1>6, <2>3, <3>1 DEF OutputInv
  <2>4. /\ sshJob.server = "mrsh" =>
             proc.at = "exited" /\ proc.pipe = <<>> /\ {"exit", "eof", "close"} \subseteq proc.told
        /\ RefusedInv
    BY <1>4 DEF OutputInv
  <2>5. /\ SentBlocks >= 0
        /\ \A i \in 1 .. Len(proc.pipe) : proc.pipe[i] = sshJob.data[SentBlocks + i]
        /\ \A i \in 1 .. Len(proc.out) : proc.out[i] = sshJob.data[SentBlocks + Len(proc.pipe) + i]
        /\ Len(ssh.out) <= SentBlocks
        /\ \A i \in 1 .. Len(ssh.out) : ssh.out[i] = Text[i]
        /\ proc.at = "exited" /\ proc.code = 0 => proc.out = <<>>
    BY <1>4 DEF OutputInv
  <2>6. RefusedInv'
    BY <1>5, <2>4 DEF RefusedInv
  <2>7. sshJob.server = "mrsh" =>
          proc'.at = "exited" /\ proc'.pipe = <<>> /\ {"exit", "eof", "close"} \subseteq proc'.told
    BY <1>5, <2>4
  <2> HIDE DEF RefusedInv
  <2> QED
    BY <1>5, <1>6, <1>8, <2>2, <2>3, <2>5, <2>6, <2>7 DEF OutputInv
<1>10. EofInv(ssh, toSsh)'
  <2>1. \A j \in 1 .. l : toSsh'[j] = toSsh[j] /\ ExitBefore(toSsh', j) = ExitBefore(toSsh, j)
    BY <1>6, <1>7
  <2>2. /\ "eof" \in proc'.told => proc'.at = "exited" /\ proc'.pipe = <<>>
        /\ "eof" \in ssh.saw => "eof" \in proc'.told /\ Len(ssh.out) = SentBlocks
        /\ "close" \in ssh.saw => "eof" \in ssh.saw
    BY <1>2, <1>4, <1>5 DEF EofInv
  <2>3. ASSUME NEW j \in 1 .. l + 1, toSsh'[j].k = "eof"
        PROVE  "eof" \in proc'.told /\ Len(ssh.out) + j - 1 - ExitBefore(toSsh', j) = SentBlocks
    <3>1. CASE j \in 1 .. l
      BY <1>4, <1>5, <1>6, <2>1, <2>3, <3>1 DEF EofInv
    <3>2. CASE j = l + 1
      <4>1. k = "eof" /\ "eof" \notin proc.told
        BY <1>2, <1>6, <2>3, <3>2
      <4>2. Len(ssh.out) + l - e = SentBlocks
        BY <1>4, <1>5, <1>6, <4>1 DEF EofInv
      <4>3. ExitBefore(toSsh', j) = e /\ Len(ssh.out) \in Nat
        BY <1>1, <1>6, <1>7, <3>2, OutIs
      <4>4. PICK n \in Nat : n = Len(ssh.out)
        BY <4>3
      <4>5. n + j - 1 - e = n + l - e
        BY <3>2
      <4> QED
        BY <1>5, <4>1, <4>2, <4>3, <4>4, <4>5
    <3> QED
      BY <1>7, <3>1, <3>2
  <2>4. "eof" \notin proc'.told =>
          Len(ssh.out) + Len(toSsh') - ExitBefore(toSsh', Len(toSsh') + 1) = SentBlocks
    <3> SUFFICES ASSUME "eof" \notin proc'.told
                 PROVE  Len(ssh.out) + Len(toSsh') - ExitBefore(toSsh', Len(toSsh') + 1) = SentBlocks
      OBVIOUS
    <3>1. k = "exit" /\ "eof" \notin proc.told /\ "exit" \notin proc.told
      BY <1>2, <1>5
    <3>2. Len(ssh.out) + l - e = SentBlocks
      BY <1>4, <1>5, <1>6, <3>1 DEF EofInv
    <3>3. e = 0
      <4>1. \A i \in 1 .. l : toSsh[i].k # "exit"
        BY <1>4, <1>6, <3>1 DEF ExitInv
      <4> QED
        BY <1>6, <4>1 DEF ExitBefore
    <3>4. PICK n \in Nat : n = Len(ssh.out)
      BY <1>1, OutIs
    <3>5. n + (l + 1) - 1 = n + l - 0
      OBVIOUS
    <3> QED
      BY <1>6, <1>7, <3>1, <3>2, <3>3, <3>4, <3>5
  <2>5. "eof" \in proc'.told =>
          "eof" \in ssh.saw \/ \E i \in 1 .. l + 1 : toSsh'[i].k = "eof"
    <3>1. k = "eof" => toSsh'[l + 1].k = "eof"
      BY <1>2, <1>6
    <3>2. "eof" \in proc.told => "eof" \in ssh.saw \/ \E i \in 1 .. l : toSsh[i].k = "eof"
      BY <1>4, <1>5, <1>6 DEF EofInv
    <3>3. (\E i \in 1 .. l : toSsh[i].k = "eof") => \E i \in 1 .. l + 1 : toSsh'[i].k = "eof"
      BY <1>6, <1>7
    <3> QED
      BY <1>5, <1>7, <3>1, <3>2, <3>3
  <2>6. ASSUME NEW j \in 1 .. l + 1, toSsh'[j].k = "close"
        PROVE  "eof" \in ssh.saw \/ \E i \in 1 .. l + 1 : i < j /\ toSsh'[i].k = "eof"
    <3>1. CASE j \in 1 .. l
      <4>1. "eof" \in ssh.saw \/ \E i \in 1 .. l : i < j /\ toSsh[i].k = "eof"
        BY <1>4, <1>6, <2>6, <3>1 DEF EofInv
      <4> QED
        BY <1>6, <1>7, <4>1
    <3>2. CASE j = l + 1
      <4>1. "eof" \in proc.told
        BY <1>2, <1>6, <2>6, <3>2
      <4>2. "eof" \in ssh.saw \/ \E i \in 1 .. l : toSsh[i].k = "eof"
        BY <1>4, <1>5, <1>6, <4>1 DEF EofInv
      <4>3. \A i \in 1 .. l : i < j
        BY <3>2
      <4> QED
        BY <1>6, <1>7, <4>2, <4>3
    <3> QED
      BY <1>7, <3>1, <3>2
  <2> QED
    BY <1>5, <1>6, <1>8, <2>2, <2>3, <2>4, <2>5, <2>6 DEF EofInv
<1>11. ExitInv(ssh, toSsh)'
  <2>1. CASE k = "exit"
    <3>1. "exit" \notin proc.told
      BY <1>2, <2>1
    <3>2. "exit" \notin ssh.saw /\ \A j \in 1 .. l : toSsh[j].k # "exit"
      BY <1>4, <1>6, <3>1 DEF ExitInv
    <3>3. \A j \in 1 .. l + 1 : toSsh'[j].k = "exit" => j = l + 1
      BY <1>6, <1>7, <3>2
    <3>4. toSsh'[l + 1].n = proc.code /\ proc.at = "exited" /\ sshJob.server # "mrsh"
      BY <1>2, <1>4, <1>6, <2>1, <3>1, SshMsgsAre DEF OutputInv
    <3> QED
      BY <1>5, <1>6, <2>1, <3>2, <3>3, <3>4 DEF ExitInv, CodeTrue
  <2>2. CASE k # "exit"
    <3>1. \A j \in 1 .. l + 1 : toSsh'[j].k = "exit" =>
            j \in 1 .. l /\ toSsh[j].k = "exit" /\ toSsh'[j] = toSsh[j]
      BY <1>2, <1>6, <1>7, <2>2
    <3>2. \A n : CodeTrue(n)' = CodeTrue(n)
      BY <1>5 DEF CodeTrue
    <3>3. /\ "exit" \in proc'.told <=> "exit" \in proc.told
          /\ "exit" \in proc.told => proc.at = "exited"
          /\ "exit" \in ssh.saw => "exit" \in proc.told /\ CodeTrue(ssh.code)
      BY <1>4, <1>5, <2>2 DEF ExitInv
    <3>4. \A j \in 1 .. l + 1 : toSsh'[j].k = "exit" =>
            /\ "exit" \in proc.told /\ CodeTrue(toSsh'[j].n) /\ "exit" \notin ssh.saw
            /\ \A i \in 1 .. l + 1 : toSsh'[i].k = "exit" => i = j
      BY <1>4, <1>6, <3>1 DEF ExitInv
    <3> QED
      BY <1>5, <1>6, <3>2, <3>3, <3>4 DEF ExitInv
  <2> QED
    BY <2>1, <2>2
<1> QED
  BY <1>4, <1>9, <1>10, <1>11

\* An mrsh server answers all at once.
LEMMA AnswerKeepsRead == SshBase /\ ReadInv /\ exec_request => ReadInv'
<1> SUFFICES ASSUME SshBase, ReadInv, exec_request, ReadsOutput' PROVE ReadInv'
  BY DEF ReadInv
<1>1. /\ UNCHANGED <<sshJob, sshUp, ssh, pulled>> /\ Ask = "exec" /\ sshJob.server = "mrsh"
      /\ sshUp /\ toSsh' = Answered /\ toSshd' = Tail(toSshd) /\ SshTypes
      /\ proc' = [Exits(CallCode) EXCEPT !.told = {"data", "exit", "eof", "close"}]
  BY DEF exec_request, Asked, SshBase, Answered
<1>2. /\ Call \in {"exec", "pull"} /\ proc.at = "none" /\ toSshd' = <<>> /\ NothingYet(ssh, toSsh)
  BY <1>1, ReadIs
<1>3. /\ proc'.at = "exited" /\ proc'.code = CallCode /\ proc'.out = <<>> /\ proc'.pipe = <<>>
      /\ proc'.told = {"data", "exit", "eof", "close"} /\ ssh.out = <<>> /\ ssh.saw \subseteq {"none"}
      /\ proc'.refused = FALSE
  BY <1>1, <1>2 DEF NothingYet, NoProc, Exits
<1>4. PICK l \in Nat : l = Len(sshJob.data)
  BY <1>1, SshScenario DEF SshTypes
<1>5. Output = sshJob.data
  BY <1>2 DEF Output
<1>6. PICK n \in {0, 1} : n = (IF CallCode = 0 THEN 0 ELSE 1) /\ ((n = 0) = (CallCode = 0))
  OBVIOUS
<1>7. /\ Len(toSsh') = l + 3
      /\ \A i \in 1 .. l : toSsh'[i] = Block(IF sshJob.data[i] = "t" THEN "t" ELSE "?")
      /\ toSsh'[l + 1] = ExitStatus(n) /\ toSsh'[l + 2] = Msg("eof") /\ toSsh'[l + 3] = Msg("close")
  BY <1>1, <1>4, <1>5, <1>6, AnsweredIs
<1>8. \A i \in 1 .. l + 3 :
        /\ i \in 1 .. l \/ i = l + 1 \/ i = l + 2 \/ i = l + 3
        /\ toSsh'[i].k \in {"data", "exit", "eof", "close"}
        /\ toSsh'[i].k = "data" <=> i \in 1 .. l
        /\ toSsh'[i].k = "exit" <=> i = l + 1
        /\ toSsh'[i].k = "eof" <=> i = l + 2
        /\ toSsh'[i].k = "close" <=> i = l + 3
  <2> SUFFICES ASSUME NEW i \in 1 .. l + 3
               PROVE  /\ i \in 1 .. l \/ i = l + 1 \/ i = l + 2 \/ i = l + 3
                      /\ toSsh'[i].k \in {"data", "exit", "eof", "close"}
                      /\ toSsh'[i].k = "data" <=> i \in 1 .. l
                      /\ toSsh'[i].k = "exit" <=> i = l + 1
                      /\ toSsh'[i].k = "eof" <=> i = l + 2
                      /\ toSsh'[i].k = "close" <=> i = l + 3
    OBVIOUS
  <2>1. \/ i \in 1 .. l /\ i # l + 1 /\ i # l + 2 /\ i # l + 3
        \/ i = l + 1 /\ i \notin 1 .. l /\ i # l + 2 /\ i # l + 3
        \/ i = l + 2 /\ i \notin 1 .. l /\ i # l + 1 /\ i # l + 3
        \/ i = l + 3 /\ i \notin 1 .. l /\ i # l + 1 /\ i # l + 2
    OBVIOUS
  <2>2. \/ i \in 1 .. l /\ toSsh'[i].k = "data"
        \/ i = l + 1 /\ toSsh'[i].k = "exit"
        \/ i = l + 2 /\ toSsh'[i].k = "eof"
        \/ i = l + 3 /\ toSsh'[i].k = "close"
    BY <1>7, <2>1, SshMsgsAre
  <2> QED
    BY <2>1, <2>2
<1>9. \A j \in 1 .. l + 3 : ExitBefore(toSsh', j) = IF j <= l + 1 THEN 0 ELSE 1
  <2> SUFFICES ASSUME NEW j \in 1 .. l + 3
               PROVE  ExitBefore(toSsh', j) = IF j <= l + 1 THEN 0 ELSE 1
    OBVIOUS
  <2>1. (\E i \in 1 .. Len(toSsh') : i < j /\ toSsh'[i].k = "exit") <=> ~(j <= l + 1)
    <3>1. ASSUME NEW i \in 1 .. Len(toSsh'), i < j, toSsh'[i].k = "exit" PROVE ~(j <= l + 1)
      BY <1>7, <1>8, <3>1
    <3>2. ~(j <= l + 1) => l + 1 \in 1 .. l + 3 /\ l + 1 < j /\ toSsh'[l + 1].k = "exit"
      BY <1>8
    <3> QED
      BY <1>7, <3>1, <3>2
  <2> QED
    BY <2>1 DEF ExitBefore
<1>10. SentBlocks' = l
  <2>1. Len(proc'.out) = 0 /\ Len(proc'.pipe) = 0 /\ Len(sshJob'.data) = l
    BY <1>1, <1>3, <1>4
  <2>2. SentBlocks' = l - 0 - 0
    BY <2>1 DEF SentBlocks
  <2> QED
    BY <2>2
<1>11. \A i \in 1 .. l : Text'[i] = IF sshJob.data[i] = "t" THEN "t" ELSE "?"
  BY <1>1, <1>4 DEF Text, AsText
<1>12. OutputInv(ssh, toSsh)'
  <2>1. ASSUME NEW j \in 1 .. l + 3, toSsh'[j].k = "data"
        PROVE  /\ 0 + j - ExitBefore(toSsh', j) <= l
               /\ toSsh'[j].b = Text'[0 + j - ExitBefore(toSsh', j)]
    <3>1. j \in 1 .. l /\ ExitBefore(toSsh', j) = 0
      <4>1. j \in 1 .. l
        BY <1>8, <2>1
      <4> QED
        BY <1>9, <4>1
    <3>2. toSsh'[j].b = Text'[j]
      BY <1>7, <1>11, <3>1, SshMsgsAre
    <3> QED
      BY <3>1, <3>2
  <2> QED
    BY <1>1, <1>3, <1>7, <1>8, <1>10, <2>1 DEF OutputInv, RefusedInv
<1>13. EofInv(ssh, toSsh)'
  <2>1. l + 2 \in 1 .. l + 3 /\ ExitBefore(toSsh', l + 2) = 1 /\ 0 + (l + 2) - 1 - 1 = l
    BY <1>9
  <2>2. \A j \in 1 .. l + 3 : toSsh'[j].k = "eof" => 0 + j - 1 - ExitBefore(toSsh', j) = l
    BY <1>8, <2>1
  <2>3. \A j \in 1 .. l + 3 : toSsh'[j].k = "close" =>
          \E i \in 1 .. l + 3 : i < j /\ toSsh'[i].k = "eof"
    BY <1>8, <2>1
  <2>4. \E i \in 1 .. l + 3 : toSsh'[i].k = "eof"
    BY <1>8, <2>1
  <2> QED
    BY <1>1, <1>3, <1>7, <1>10, <2>2, <2>3, <2>4 DEF EofInv
<1>14. ExitInv(ssh, toSsh)'
  <2>1. toSsh'[l + 1].n = n
    BY <1>7, SshMsgsAre
  <2> QED
    BY <1>1, <1>3, <1>6, <1>7, <1>8, <2>1 DEF ExitInv, CodeTrue
<1> QED
  BY <1>1, <1>2, <1>3, <1>12, <1>13, <1>14, ServerReads

\* A command that is refused has no output: three messages, and all of its output is unwritten.
LEMMA BlockedKeepsRead == SshBase /\ ReadInv /\ ExecBlocked => ReadInv'
<1> SUFFICES ASSUME SshBase, ReadInv, ExecBlocked, ReadsOutput' PROVE ReadInv'
  BY DEF ReadInv
<1>1. /\ UNCHANGED <<sshJob, sshUp, ssh, pulled>> /\ Ask = "exec" /\ sshJob.server = "mrsh"
      /\ sshUp /\ toSsh' = <<ExitStatus(1), Msg("eof"), Msg("close")>> /\ toSshd' = Tail(toSshd)
      /\ SshTypes
      /\ proc' = [at |-> "exited", code |-> 1, out |-> Output, pipe |-> <<>>,
                  told |-> {"data", "exit", "eof", "close"}, refused |-> TRUE]
  BY DEF ExecBlocked, Asked, SshBase
<1>2. /\ Call \in {"exec", "pull"} /\ proc.at = "none" /\ toSshd' = <<>> /\ NothingYet(ssh, toSsh)
  BY <1>1, ReadIs
<1>3. /\ proc'.at = "exited" /\ proc'.code = 1 /\ proc'.out = sshJob.data /\ proc'.pipe = <<>>
      /\ proc'.told = {"data", "exit", "eof", "close"} /\ ssh.out = <<>> /\ ssh.saw \subseteq {"none"}
      /\ proc'.refused = TRUE
  BY <1>1, <1>2 DEF NothingYet, Output
<1>4. PICK l \in Nat : l = Len(sshJob.data)
  BY <1>1, SshScenario DEF SshTypes
<1>5. /\ Len(toSsh') = 3 /\ toSsh'[1] = ExitStatus(1) /\ toSsh'[2] = Msg("eof")
      /\ toSsh'[3] = Msg("close")
  <2>1. PICK a, b, c : a = ExitStatus(1) /\ b = Msg("eof") /\ c = Msg("close")
    OBVIOUS
  <2> QED
    BY <1>1, <2>1
<1>6. /\ toSsh'[1].k = "exit" /\ toSsh'[2].k = "eof" /\ toSsh'[3].k = "close" /\ toSsh'[1].n = 1
  BY <1>5, SshMsgsAre
<1>7. \A i \in 1 .. 3 :
        /\ i = 1 \/ i = 2 \/ i = 3
        /\ toSsh'[i].k = "exit" <=> i = 1
        /\ toSsh'[i].k = "eof" <=> i = 2
        /\ toSsh'[i].k = "close" <=> i = 3
        /\ toSsh'[i].k \in {"exit", "eof", "close"}
  <2> SUFFICES ASSUME NEW i \in 1 .. 3
               PROVE  /\ i = 1 \/ i = 2 \/ i = 3
                      /\ toSsh'[i].k = "exit" <=> i = 1
                      /\ toSsh'[i].k = "eof" <=> i = 2
                      /\ toSsh'[i].k = "close" <=> i = 3
                      /\ toSsh'[i].k \in {"exit", "eof", "close"}
    OBVIOUS
  <2>1. i = 1 \/ i = 2 \/ i = 3
    OBVIOUS
  <2> QED
    BY <1>6, <2>1
<1>8. ExitBefore(toSsh', 2) = 1
  <2>1. 1 \in 1 .. Len(toSsh') /\ 1 < 2
    BY <1>5
  <2> QED
    BY <1>6, <2>1 DEF ExitBefore
<1>9. SentBlocks' = 0
  <2>1. Len(proc'.out) = l /\ Len(proc'.pipe) = 0 /\ Len(sshJob'.data) = l
    BY <1>1, <1>3, <1>4
  <2>2. SentBlocks' = l - l - 0
    BY <2>1 DEF SentBlocks
  <2> QED
    BY <2>2
<1>10. OutputInv(ssh, toSsh)'
  <2>1. \A j \in 1 .. 3 : toSsh'[j].k # "data" /\ toSsh'[j].k # "exec"
    BY <1>7
  <2>2. /\ \A i \in 1 .. Len(proc'.pipe) : proc'.pipe[i] = sshJob.data[0 + i]
        /\ \A i \in 1 .. Len(proc'.out) : proc'.out[i] = sshJob.data[0 + Len(proc'.pipe) + i]
        /\ \A i \in 1 .. Len(ssh.out) : ssh.out[i] = Text'[i]
    <3>1. Len(proc'.pipe) = 0 /\ Len(ssh.out) = 0
      BY <1>3
    <3>2. \A i \in 1 .. l : 0 + 0 + i = i
      OBVIOUS
    <3> QED
      BY <1>3, <1>4, <3>1, <3>2
  <2>3. RefusedInv'
    BY <1>1, <1>3 DEF RefusedInv
  <2> QED
    BY <1>1, <1>3, <1>5, <1>9, <2>1, <2>2, <2>3 DEF OutputInv
<1>11. EofInv(ssh, toSsh)'
  <2>1. \A j \in 1 .. 3 : toSsh'[j].k = "eof" => 0 + j - 1 - ExitBefore(toSsh', j) = 0
    BY <1>7, <1>8
  <2>2. \A j \in 1 .. 3 : toSsh'[j].k = "close" =>
          \E i \in 1 .. 3 : i < j /\ toSsh'[i].k = "eof"
    BY <1>7
  <2>3. \E i \in 1 .. 3 : toSsh'[i].k = "eof"
    BY <1>7
  <2> QED
    BY <1>1, <1>3, <1>5, <1>9, <2>1, <2>2, <2>3 DEF EofInv
<1>12. ExitInv(ssh, toSsh)'
  BY <1>1, <1>3, <1>5, <1>6, <1>7 DEF ExitInv, CodeTrue
<1> QED
  BY <1>1, <1>2, <1>3, <1>10, <1>11, <1>12, ServerReads

\* The steps of a shell or of a command that takes input are none of a call that is read.
LEMMA OtherKeepsRead ==
    SshBase /\ ReadInv /\ (ProcReads \/ shell_request \/ IgnoreData \/ channel_eof) => ReadInv'
<1> SUFFICES ASSUME SshBase, ReadInv, ProcReads \/ shell_request \/ IgnoreData \/ channel_eof, ReadsOutput'
             PROVE  FALSE
  BY DEF ReadInv
<1>1. UNCHANGED <<sshJob, ssh, pulled>>
  BY DEF ProcReads, shell_request, IgnoreData, channel_eof
<1> QED
  BY <1>1, ReadIs DEF ProcReads, shell_request, IgnoreData, channel_eof

-----------------------------------------------------------------------------
(* Writing a file.                                                         *)

LEMMA OpenKeepsWrite == SshBase /\ OpenChannel => WriteInv'
<1> SUFFICES ASSUME SshBase, OpenChannel, Pushing'
             PROVE  /\ InputInv'
                    /\ (\A j \in 1 .. Len(toSsh) : toSsh[j].k = "exit" => CodeTrue(toSsh[j].n))'
                    /\ "exit" \in ssh'.saw => CodeTrue(ssh.code)'
                    /\ Reported' => ssh'.code = 0
  BY DEF WriteInv
<1>1. sshJob \in SshScenarios /\ ssh \in SshClients /\ ssh.call \in 1 .. 3 /\ ssh.call <= LastCall
      /\ sshJob' = sshJob /\ sshUp' = sshUp
  BY DEF SshBase, SshTypes, CallsInv, SshClients, OpenChannel
<1>2. CASE ~sshUp
  <2>1. ssh' = AfterCall(TRUE, ssh)
    BY <1>2 DEF OpenChannel
  <2>2. ssh'.at = "done" /\ ssh'.exit = "ok" /\ ssh'.call = ssh.call
    BY <1>1, <2>1, AfterCallIs DEF Pushing, Reported
  <2>3. Call = "probe" \/ sshJob.op = "pushdir"
    BY <1>1, <2>1, <2>2, AfterCallIs
  <2>4. Call' = Call
    BY <1>1, <2>2, SameCalls
  <2> QED
    BY <1>1, <2>3, <2>4 DEF Pushing
<1>3. CASE sshUp
  <2>1. ssh' = [ssh EXCEPT !.at = IF Call = "push" THEN "send" ELSE "wait",
                             !.left = IF Call = "push" THEN sshJob.data ELSE <<>>,
                             !.code = 0, !.saw = {}, !.out = <<>>]
          /\ toSshd' = <<Msg("exec")>> /\ toSsh' = <<>> /\ proc' = NoProc
    BY <1>3 DEF OpenChannel
  <2>2. PICK at1, left1 : at1 = (IF Call = "push" THEN "send" ELSE "wait")
                          /\ left1 = (IF Call = "push" THEN sshJob.data ELSE <<>>)
    OBVIOUS
  <2>3. ssh' = [ssh EXCEPT !.at = at1, !.left = left1, !.code = 0, !.saw = {}, !.out = <<>>]
        /\ at1 \in {"send", "wait"}
    BY <2>1, <2>2
  <2>4. ssh'.saw = {} /\ ssh'.at = at1 /\ ssh'.left = left1 /\ ssh'.call = ssh.call
    BY <1>1, <2>3 DEF SshClients
  <2>5. Call' = Call /\ Call = "push" /\ left1 = sshJob.data
    BY <1>1, <2>2, <2>4, SameCalls DEF Pushing
  <2>6. PICK d \in Nat : d = Len(sshJob.data)
    BY <1>1, SshScenario
  <2>7. /\ proc'.at = "none" /\ File' = <<>> /\ FirstAt' = 1 /\ Len(toSshd') = 1
        /\ toSshd'[1] = Msg("exec") /\ Msg("exec").k = "exec"
    BY <2>1, SshMsgsAre DEF NoProc, File, FirstAt
  <2>8. /\ \A j \in 1 .. 1 : j = 1
        /\ 0 + 1 - 1 + d = d /\ \A i \in 1 .. d : d - d + i = i
    OBVIOUS
  <2>9. InputInv'
    <3>1. Len(File') = 0
      BY <2>7
    <3> QED
      BY <1>1, <2>1, <2>4, <2>5, <2>6, <2>7, <2>8 DEF InputInv
  <2>10. ~Reported'
    BY <2>3, <2>4 DEF Reported
  <2> QED
    BY <2>1, <2>4, <2>9, <2>10
<1> QED
  BY <1>2, <1>3

\* What a call that pushes has to do with.
LEMMA PushIs ==
    ASSUME SshBase, Pushing
    PROVE  /\ sshJob \in SshScenarios /\ ssh \in SshClients /\ ssh.call \in 1 .. 3
           /\ ssh.call <= LastCall /\ SshTypes /\ sshJob.data \in Seq(SshBlocks)
           /\ Len(sshJob.data) \in Nat /\ toSshd \in Seq(SshMsgs) /\ toSsh \in Seq(SshMsgs)
           /\ ssh.left \in Seq(SshBlocks) /\ proc \in SshProcs /\ Call = "push"
           /\ remote[ssh.call] \in Seq(SshBlocks \cup {"?", "no file"})
           /\ File \in Seq(SshBlocks \cup {"?", "no file"}) /\ Len(File) \in Nat
           /\ FirstAt \in {0, 1} /\ Len(toSshd) \in Nat /\ Len(toSsh) \in Nat
<1>1. sshJob \in SshScenarios /\ ssh \in SshClients /\ ssh.call \in 1 .. 3 /\ ssh.left \in Seq(SshBlocks)
      /\ ssh.call <= LastCall /\ SshTypes /\ toSshd \in Seq(SshMsgs) /\ toSsh \in Seq(SshMsgs)
      /\ proc \in SshProcs /\ remote \in [1 .. 3 -> Seq(SshBlocks \cup {"?", "no file"})]
      /\ Call = "push"
  BY DEF SshBase, SshTypes, CallsInv, SshClients, Pushing
<1>2. remote[ssh.call] \in Seq(SshBlocks \cup {"?", "no file"})
  BY <1>1
<1>3. File \in Seq(SshBlocks \cup {"?", "no file"})
  <2>1. <<>> \in Seq(SshBlocks \cup {"?", "no file"})
    OBVIOUS
  <2> QED
    BY <1>2, <2>1 DEF File
<1>4. \A S : \A q \in Seq(S) : Len(q) \in Nat
  OBVIOUS
<1>5. Len(File) \in Nat /\ Len(toSshd) \in Nat /\ Len(toSsh) \in Nat
  BY <1>1, <1>3, <1>4
<1> QED
  BY <1>1, <1>2, <1>3, <1>5, SshScenario DEF FirstAt

\* A step that goes on with the call.
LEMMA WriteGoesOn ==
    ASSUME SshBase, sshJob' = sshJob, ssh'.call = ssh.call, Pushing', ssh.at \in {"send", "wait"}
    PROVE  Pushing /\ Call' = Call
<1>1. Call' = Call
  BY SameCalls
<1> QED
  BY <1>1 DEF Pushing

LEMMA PushKeepsWrite == SshBase /\ WriteInv /\ PushData => WriteInv'
<1> SUFFICES ASSUME SshBase, WriteInv, PushData, Pushing'
             PROVE  /\ InputInv'
                    /\ (\A j \in 1 .. Len(toSsh) : toSsh[j].k = "exit" => CodeTrue(toSsh[j].n))'
                    /\ "exit" \in ssh'.saw => CodeTrue(ssh.code)'
                    /\ Reported' => ssh'.code = 0
  BY DEF WriteInv
<1>1. /\ ssh.at = "send" /\ UNCHANGED <<sshJob, sshUp, toSsh, proc, remote, pulled>>
      /\ sshJob \in SshScenarios /\ ssh \in SshClients /\ ssh.call \in 1 .. 3 /\ ssh.call <= LastCall
  BY DEF SshBase, SshTypes, CallsInv, SshClients, PushData
<1>2. CASE ~sshUp
  <2>1. ssh' = AfterCall(TRUE, ssh)
    BY <1>2 DEF PushData
  <2>2. ssh'.at = "done" /\ ssh'.exit = "ok" /\ ssh'.call = ssh.call
    BY <1>1, <2>1, AfterCallIs DEF Pushing, Reported
  <2>3. Call = "probe" \/ sshJob.op = "pushdir"
    BY <1>1, <2>1, <2>2, AfterCallIs
  <2>4. Call' = Call
    BY <1>1, <2>2, SameCalls
  <2> QED
    BY <1>1, <2>3, <2>4 DEF Pushing
<1>3. CASE sshUp
  <2>1. PICK m : /\ m = (IF ssh.left = <<>> THEN Msg("eof") ELSE Block(Head(ssh.left)))
                 /\ toSshd' = Append(toSshd, m)
    BY <1>3 DEF PushData
  <2>2. ssh' = IF ssh.left = <<>> THEN [ssh EXCEPT !.at = "wait"]
                      ELSE [ssh EXCEPT !.left = Tail(ssh.left)]
    BY <1>3 DEF PushData
  <2>3. /\ ssh'.call = ssh.call /\ ssh'.saw = ssh.saw /\ ssh'.code = ssh.code
        /\ ssh'.at = (IF ssh.left = <<>> THEN "wait" ELSE "send")
        /\ ssh'.left = (IF ssh.left = <<>> THEN ssh.left ELSE Tail(ssh.left))
    <3>1. CASE ssh.left = <<>>
      BY <1>1, <2>2, <3>1 DEF SshClients
    <3>2. CASE ssh.left # <<>>
      <4>1. PICK t : t = Tail(ssh.left)
        OBVIOUS
      <4>2. ssh' = [ssh EXCEPT !.left = t]
        BY <2>2, <3>2, <4>1
      <4> QED
        BY <1>1, <3>2, <4>1, <4>2 DEF SshClients
    <3> QED
      BY <3>1, <3>2
  <2>4. Pushing /\ Call' = Call
    BY <1>1, <2>3, WriteGoesOn
  <2>5. InputInv /\ (\A j \in 1 .. Len(toSsh) : toSsh[j].k = "exit" => CodeTrue(toSsh[j].n))
        /\ ("exit" \in ssh.saw => CodeTrue(ssh.code))
    BY <2>4 DEF WriteInv
  <2>6. PICK d, f, l, r \in Nat, e \in {0, 1} :
          /\ d = Len(sshJob.data) /\ f = Len(File) /\ l = Len(toSshd) /\ r = Len(ssh.left) /\ e = FirstAt
    <3>1. ssh.left \in Seq(SshBlocks)
      BY <2>4, PushIs
    <3>2. Len(ssh.left) \in Nat
      BY <3>1
    <3> QED
      BY <2>4, <3>2, PushIs
  <2>7. /\ f + l - e + r = d /\ (toSshd = <<>> => proc.at # "none")
        /\ \A i \in 1 .. r : ssh.left[i] = sshJob.data[d - r + i]
    BY <1>1, <1>3, <2>5, <2>6 DEF InputInv
  <2>8. /\ ssh.left = <<>> => m = Msg("eof") /\ m.k = "eof" /\ m \in SshMsgs /\ r = 0
        /\ ssh.left # <<>> => /\ m \in SshMsgs /\ m.k = "data" /\ m.b = sshJob.data[d - r + 1] /\ r >= 1
                              /\ Len(ssh'.left) = r - 1
                              /\ \A i \in 1 .. r - 1 : ssh'.left[i] = ssh.left[i + 1]
    <3>1. ssh.left \in Seq(SshBlocks)
      BY <2>4, PushIs
    <3>2. CASE ssh.left = <<>>
      BY <2>1, <2>6, <3>2, SshMsgsAre
    <3>3. CASE ssh.left # <<>>
      <4>1. PICK t, b : t = Tail(ssh.left) /\ b = Head(ssh.left)
        OBVIOUS
      <4>2. /\ b \in SshBlocks /\ b = ssh.left[1] /\ r >= 1 /\ Len(t) = r - 1
            /\ \A i \in 1 .. r - 1 : t[i] = ssh.left[i + 1]
        BY <2>6, <3>1, <3>3, <4>1
      <4>3. m \in SshMsgs /\ m.k = "data" /\ m.b = b
        BY <2>1, <3>3, <4>1, <4>2, SshMsgsAre
      <4> QED
        BY <2>3, <2>7, <3>3, <4>1, <4>2, <4>3
    <3> QED
      BY <3>2, <3>3
  <2>9. /\ Len(toSshd') = l + 1 /\ toSshd'[l + 1] = m /\ m.k \in {"eof", "data"}
        /\ \A i \in 1 .. l : toSshd'[i] = toSshd[i]
        /\ \A i \in 1 .. l + 1 : i \in 1 .. l \/ i = l + 1
        /\ l # 0 => 1 \in 1 .. l
    <3>1. m \in SshMsgs /\ m.k \in {"eof", "data"}
      BY <2>8
    <3>2. toSshd \in Seq(SshMsgs)
      BY <2>4, PushIs
    <3> QED
      BY <2>1, <2>6, <3>1, <3>2, SshSeqs
  <2>10. File' = File /\ FirstAt' = FirstAt
    BY <1>1, <2>3 DEF File, FirstAt
  <2>11. /\ proc.at = "none" => proc = NoProc /\ toSsh = <<>>
         /\ proc.at = "none" /\ toSshd # <<>> => toSshd[1].k = "exec"
         /\ \A j \in 1 .. l : toSshd[j].k = "exec" => j = 1 /\ proc.at = "none"
         /\ f <= d
         /\ \A i \in 1 .. f : File[i] = sshJob.data[i]
         /\ \A j \in 1 .. l : toSshd[j].k = "data" =>
               f + j - e <= d /\ toSshd[j].b = sshJob.data[f + j - e]
         /\ \A j \in 1 .. l : toSshd[j].k = "eof" => f + j - e = d + 1
         /\ proc.at = "exited" /\ proc.code = 0 => f = d
    BY <2>5, <2>6 DEF InputInv
  <2>12. /\ proc.at = "none" => toSshd'[1].k = "exec"
         /\ \A j \in 1 .. l + 1 : toSshd'[j].k = "exec" => j = 1 /\ proc.at = "none"
    <3>1. proc.at = "none" => toSshd # <<>> /\ l # 0
      <4>1. toSshd # <<>> => l # 0
        <5>1. toSshd \in Seq(SshMsgs)
          BY <2>4, PushIs
        <5> QED
          BY <2>6, <5>1
      <4> QED
        BY <2>7, <4>1
    <3> QED
      BY <2>9, <2>11, <3>1
  <2>13. \A j \in 1 .. l + 1 : toSshd'[j].k = "data" =>
               f + j - e <= d /\ toSshd'[j].b = sshJob.data[f + j - e]
    <3> SUFFICES ASSUME NEW j \in 1 .. l + 1, toSshd'[j].k = "data"
                 PROVE  f + j - e <= d /\ toSshd'[j].b = sshJob.data[f + j - e]
      OBVIOUS
    <3>1. CASE j \in 1 .. l
      BY <2>9, <2>11, <3>1
    <3>2. CASE j = l + 1
      <4>1. toSshd'[j] = m /\ ssh.left # <<>>
        BY <2>8, <2>9, <3>2
      <4>2. r >= 1 /\ m.b = sshJob.data[d - r + 1]
        BY <2>8, <4>1
      <4>3. f + l - e + r = d
        BY <2>7
      <4>4. f + j - e = d - r + 1 /\ f + j - e <= d
        BY <3>2, <4>2, <4>3
      <4> QED
        BY <4>1, <4>2, <4>4
    <3> QED
      BY <2>9, <3>1, <3>2
  <2>14. \A j \in 1 .. l + 1 : toSshd'[j].k = "eof" => f + j - e = d + 1
    <3> SUFFICES ASSUME NEW j \in 1 .. l + 1, toSshd'[j].k = "eof" PROVE f + j - e = d + 1
      OBVIOUS
    <3>1. CASE j \in 1 .. l
      BY <2>9, <2>11, <3>1
    <3>2. CASE j = l + 1
      <4>1. r = 0
        BY <2>8, <2>9, <3>2
      <4>2. f + l - e + r = d
        BY <2>7
      <4> QED
        BY <3>2, <4>1, <4>2
    <3> QED
      BY <2>9, <3>1, <3>2
  <2>15. ssh'.at = "send" =>
           /\ f + (l + 1) - e + Len(ssh'.left) = d
           /\ \A i \in 1 .. Len(ssh'.left) : ssh'.left[i] = sshJob.data[d - Len(ssh'.left) + i]
    <3> SUFFICES ASSUME ssh.left # <<>>
                 PROVE  /\ f + (l + 1) - e + Len(ssh'.left) = d
                        /\ \A i \in 1 .. Len(ssh'.left) :
                              ssh'.left[i] = sshJob.data[d - Len(ssh'.left) + i]
      BY <2>3
    <3>1. Len(ssh'.left) = r - 1 /\ r >= 1 /\ f + l - e + r = d
      BY <2>7, <2>8
    <3>2. f + (l + 1) - e + (r - 1) = d
      BY <3>1
    <3>3. ASSUME NEW i \in 1 .. r - 1 PROVE ssh'.left[i] = sshJob.data[d - (r - 1) + i]
      <4>1. i + 1 \in 1 .. r /\ d - (r - 1) + i = d - r + (i + 1)
        OBVIOUS
      <4>2. ssh.left[i + 1] = sshJob.data[d - r + (i + 1)]
        BY <2>7, <4>1
      <4> QED
        BY <2>8, <4>1, <4>2
    <3> QED
      BY <3>1, <3>2, <3>3
  <2>16. toSshd' # <<>>
    <3>1. Len(toSshd') # 0
      BY <2>9
    <3> QED
      BY <3>1
  <2>17. InputInv'
    BY <1>1, <2>6, <2>9, <2>10, <2>11, <2>12, <2>13, <2>14, <2>15, <2>16 DEF InputInv
  <2>18. ~Reported'
    BY <2>3 DEF Reported
  <2> QED
    <3>1. (\A j \in 1 .. Len(toSsh) : toSsh[j].k = "exit" => CodeTrue(toSsh[j].n))'
      BY <1>1, <2>5 DEF CodeTrue
    <3>2. "exit" \in ssh'.saw => CodeTrue(ssh.code)'
      BY <1>1, <2>3, <2>5 DEF CodeTrue
    <3> QED
      BY <2>17, <2>18, <3>1, <3>2
<1> QED
  BY <1>2, <1>3

LEMMA ShellKeepsWrite == SshBase /\ ShellInput => WriteInv'
<1> SUFFICES ASSUME SshBase, ShellInput, Pushing' PROVE FALSE
  BY DEF WriteInv
<1>1. ssh.at = "wait" /\ sshJob' = sshJob /\ ssh \in SshClients /\ Call = "shell"
      /\ sshJob \in SshScenarios /\ ssh.call \in 1 .. 3 /\ ssh.call <= LastCall
  BY DEF ShellInput, SshBase, SshTypes, CallsInv, SshClients
<1>2. ssh'.call = ssh.call
  <2>1. \/ ssh'.call = ssh.call
        \/ ssh' = AfterCall(FALSE, ssh)
    BY <1>1 DEF ShellInput, SshClients
  <2>2. ssh'.at \in {"send", "wait", "done"}
    BY DEF Pushing, Reported
  <2> QED
    BY <1>1, <2>1, <2>2, AfterCallIs
<1>3. Call' = Call
  BY <1>1, <1>2, SameCalls
<1> QED
  BY <1>1, <1>3 DEF Pushing

LEMMA WaitKeepsWrite == SshBase /\ WriteInv /\ WaitMessage => WriteInv'
<1> SUFFICES ASSUME SshBase, WriteInv, WaitMessage, Pushing'
             PROVE  /\ InputInv'
                    /\ (\A j \in 1 .. Len(toSsh) : toSsh[j].k = "exit" => CodeTrue(toSsh[j].n))'
                    /\ "exit" \in ssh'.saw => CodeTrue(ssh.code)'
                    /\ Reported' => ssh'.code = 0
  BY DEF WriteInv
<1> DEFINE a == Seen(Incoming)
<1>1. /\ sshJob \in SshScenarios /\ ssh \in SshClients /\ ssh.call \in 1 .. 3 /\ ssh.call <= LastCall
      /\ ssh.at = "wait" /\ SshTypes /\ toSsh \in Seq(SshMsgs)
  BY WaitIs DEF SshBase, SshTypes, CallsInv, SshClients
<1>2. /\ a \in SshClients /\ a.call = ssh.call /\ a.at = ssh.at
      /\ a.saw = ssh.saw \cup {Incoming.k}
      /\ a.code = IF Incoming.k = "exit" THEN Incoming.n ELSE ssh.code
  BY <1>1, WaitIs, SeenIs
<1>3. UNCHANGED <<sshJob, sshUp, toSshd, proc, remote>>
  BY WaitIs
<1>4. CallFailed(a) \in BOOLEAN
  BY DEF CallFailed
<1>5. \/ ssh' = a
      \/ \E f \in BOOLEAN : ssh' = AfterCall(f, a) /\ ssh'.at = "done"
  <2>1. ssh' = a \/ \E f \in BOOLEAN : ssh' = AfterCall(f, a)
    BY <1>4, WaitIs
  <2>2. ssh'.at \in {"send", "wait", "done"}
    BY DEF Pushing, Reported
  <2>3. \A f \in BOOLEAN : AfterCall(f, a).at \in {"open", "done"}
    BY <1>1, <1>2, AfterCallIs
  <2> QED
    BY <2>1, <2>2, <2>3
<1>6. /\ ssh'.call = ssh.call /\ ssh'.saw = a.saw /\ ssh'.code = a.code /\ ssh'.at \in {"wait", "done"}
  <2>1. \A f \in BOOLEAN : /\ AfterCall(f, a).saw = a.saw
                           /\ AfterCall(f, a).code = a.code
                           /\ AfterCall(f, a).at = "done" => AfterCall(f, a).call = ssh.call
    BY <1>1, <1>2, AfterCallIs
  <2> QED
    <3> HIDE DEF a
    <3> QED
      BY <1>1, <1>2, <1>5, <2>1
<1>7. Pushing /\ Call' = Call /\ Call = "push" /\ sshJob.op = "push"
  BY <1>1, <1>3, <1>6, WriteGoesOn DEF Pushing
<1>8. InputInv /\ (\A j \in 1 .. Len(toSsh) : toSsh[j].k = "exit" => CodeTrue(toSsh[j].n))
      /\ ("exit" \in ssh.saw => CodeTrue(ssh.code))
  BY <1>7 DEF WriteInv
<1>9. /\ toSsh = <<>> => toSsh' = <<>>
      /\ \A j \in 1 .. Len(toSsh') : toSsh'[j].k = "exit" => CodeTrue(toSsh'[j].n)
  <2>1. CASE toSsh = <<>>
    BY <2>1, WaitIs
  <2>2. CASE toSsh # <<>>
    <3>1. toSsh' = Tail(toSsh)
      BY <2>2, WaitIs
    <3>2. /\ Len(toSsh') = Len(toSsh) - 1 /\ Len(toSsh) \in Nat
          /\ \A i \in 1 .. Len(toSsh) - 1 : toSsh'[i] = toSsh[i + 1]
      BY <1>1, <2>2, <3>1, SshSeqs
    <3>3. \A i \in 1 .. Len(toSsh) - 1 : i + 1 \in 1 .. Len(toSsh)
      BY <3>2
    <3> QED
      BY <1>8, <2>2, <3>2, <3>3
  <2> QED
    BY <2>1, <2>2
<1>10. "exit" \in ssh'.saw => CodeTrue(ssh'.code)
  <2>1. Incoming.k = "exit" => CodeTrue(Incoming.n)
    <3>1. Incoming.k = "exit" => toSsh # <<>>
      BY WaitIs DEF Msg
    <3>2. Incoming.k = "exit" => Incoming = toSsh[1] /\ 1 \in 1 .. Len(toSsh)
      BY <1>1, <3>1, WaitIs, SshSeqs
    <3> QED
      BY <1>8, <3>2
  <2> QED
    BY <1>2, <1>6, <1>8, <2>1
<1>11. Reported' => ssh'.code = 0
  <2>1. AfterCall(TRUE, a).at = "done" => AfterCall(TRUE, a).exit # "ok"
    BY <1>1, <1>2, <1>7, AfterCallIs
  <2>2. Reported' => ssh' # a /\ ssh' # AfterCall(TRUE, a)
    BY <1>1, <1>2, <2>1 DEF Reported
  <2>3. Reported' => ~CallFailed(a)
    BY <1>4, <2>2, WaitIs
  <2> QED
    BY <1>6, <1>7, <2>3 DEF CallFailed
<1>12. File' = File /\ FirstAt' = FirstAt
  BY <1>3, <1>6 DEF File, FirstAt
<1>13. InputInv'
  BY <1>3, <1>6, <1>8, <1>9, <1>12 DEF InputInv
<1>14. \A n : CodeTrue(n) => proc.at = "exited"
  BY DEF CodeTrue
<1>15. (\A j \in 1 .. Len(toSsh) : toSsh[j].k = "exit" => CodeTrue(toSsh[j].n))'
       /\ ("exit" \in ssh'.saw => CodeTrue(ssh.code)')
  BY <1>3, <1>9, <1>10 DEF CodeTrue
<1> QED
  BY <1>11, <1>13, <1>15

\* A step of the server or of the connection.
LEMMA ServerWrites ==
    ASSUME SshBase, WriteInv, UNCHANGED <<sshJob, ssh>>, Pushing', InputInv',
           (proc'.at = proc.at /\ proc'.code = proc.code) \/ proc.at # "exited",
           \A j \in 1 .. Len(toSsh') : toSsh'[j].k = "exit" =>
               \/ \E i \in 1 .. Len(toSsh) : toSsh[i] = toSsh'[j]
               \/ proc'.at = "exited" /\ proc'.code = proc.code /\ toSsh'[j].n = proc.code
    PROVE  WriteInv'
<1>1. Pushing /\ Reported' = Reported
  BY SameCalls DEF Pushing, Reported
<1>2. /\ \A j \in 1 .. Len(toSsh) : toSsh[j].k = "exit" => CodeTrue(toSsh[j].n)
      /\ "exit" \in ssh.saw => CodeTrue(ssh.code)
      /\ (Reported => ssh.code = 0) /\ sshJob.server = "openssh"
  BY <1>1 DEF WriteInv, Pushing
<1>3. \A n : CodeTrue(n) => proc'.at = proc.at /\ proc'.code = proc.code
  BY DEF CodeTrue
<1>4. \A n : CodeTrue(n) => /\ proc'.at = "exited"
                            /\ IF sshJob'.server = "mrsh" THEN (n = 0) = (proc'.code = 0)
                               ELSE n = proc'.code
  BY <1>3 DEF CodeTrue
<1>5. \A j \in 1 .. Len(toSsh') : toSsh'[j].k = "exit" =>
        /\ proc'.at = "exited"
        /\ IF sshJob'.server = "mrsh" THEN (toSsh'[j].n = 0) = (proc'.code = 0)
           ELSE toSsh'[j].n = proc'.code
  <2> SUFFICES ASSUME NEW j \in 1 .. Len(toSsh'), toSsh'[j].k = "exit"
               PROVE  /\ proc'.at = "exited"
                      /\ IF sshJob'.server = "mrsh" THEN (toSsh'[j].n = 0) = (proc'.code = 0)
                         ELSE toSsh'[j].n = proc'.code
    OBVIOUS
  <2>1. CASE \E i \in 1 .. Len(toSsh) : toSsh[i] = toSsh'[j]
    BY <1>2, <1>4, <2>1
  <2>2. CASE proc'.at = "exited" /\ proc'.code = proc.code /\ toSsh'[j].n = proc.code
    BY <1>2, <2>2
  <2> QED
    BY <2>1, <2>2
<1>6. (\A j \in 1 .. Len(toSsh) : toSsh[j].k = "exit" => CodeTrue(toSsh[j].n))'
  BY <1>5 DEF CodeTrue
<1>7. ("exit" \in ssh.saw => CodeTrue(ssh.code))'
  BY <1>2, <1>4 DEF CodeTrue
<1> QED
  BY <1>1, <1>2, <1>6, <1>7 DEF WriteInv

\* What is known in a call that pushes when the server takes a step.
LEMMA InputIs ==
    ASSUME SshBase, WriteInv, UNCHANGED <<sshJob, ssh>>, Pushing'
    PROVE  /\ Pushing /\ InputInv /\ Call = "push" /\ sshJob.server = "openssh"
           /\ \A j \in 1 .. Len(toSsh) : toSsh[j].k = "exit" => proc.at = "exited"
<1>1. Pushing
  BY SameCalls DEF Pushing, Reported
<1> QED
  BY <1>1 DEF WriteInv, Pushing, CodeTrue

LEMMA StartsKeepsWrite == SshBase /\ WriteInv /\ ProcStarts => WriteInv'
<1> SUFFICES ASSUME SshBase, WriteInv, ProcStarts, Pushing' PROVE WriteInv'
  BY DEF WriteInv
<1>1. /\ UNCHANGED <<sshJob, sshUp, ssh, toSsh, pulled>> /\ Ask = "exec" /\ toSshd' = Tail(toSshd)
      /\ proc' = [NoProc EXCEPT !.at = "run", !.out = Output]
  BY DEF ProcStarts
<1>2. Pushing /\ InputInv /\ Call = "push"
      /\ \A j \in 1 .. Len(toSsh) : toSsh[j].k = "exit" => proc.at = "exited"
  BY <1>1, InputIs
<1>3. /\ ssh.call \in 1 .. 3 /\ toSshd \in Seq(SshMsgs) /\ toSshd # <<>> /\ toSshd[1].k = "exec"
      /\ remote \in [1 .. 3 -> Seq(SshBlocks \cup {"?", "no file"})]
  BY <1>1, <1>2, PushIs, AskIs DEF SshBase, SshTypes
<1>4. proc.at = "none" /\ toSsh = <<>>
  <2>1. 1 \in 1 .. Len(toSshd)
    <3>1. toSshd \in Seq(SshMsgs) /\ toSshd # <<>>
      BY <1>3
    <3> QED
      BY <3>1
  <2> QED
    BY <1>2, <1>3, <2>1 DEF InputInv
<1>5. remote' = [remote EXCEPT ![ssh.call] = <<>>]
  BY <1>2 DEF ProcStarts, Writes
<1>6. remote'[ssh.call] = <<>> /\ proc'.at = "run"
  BY <1>1, <1>3, <1>5 DEF NoProc
<1>7. File' = <<>> /\ FirstAt' = 0 /\ File = <<>> /\ FirstAt = 1
  BY <1>1, <1>4, <1>6 DEF File, FirstAt
<1>8. PICK d, l \in Nat : d = Len(sshJob.data) /\ l = Len(toSshd)
  BY <1>2, PushIs
<1>9. /\ Len(toSshd') = l - 1 /\ l >= 1
      /\ \A i \in 1 .. l - 1 : toSshd'[i] = toSshd[i + 1]
  BY <1>1, <1>3, <1>8, SshSeqs
<1>10. /\ \A j \in 1 .. l : toSshd[j].k = "exec" => j = 1
       /\ \A j \in 1 .. l : toSshd[j].k = "data" =>
               0 + j - 1 <= d /\ toSshd[j].b = sshJob.data[0 + j - 1]
       /\ \A j \in 1 .. l : toSshd[j].k = "eof" => 0 + j - 1 = d + 1
       /\ sshUp /\ ssh.at = "send" =>
             /\ 0 + l - 1 + Len(ssh.left) = d
             /\ \A i \in 1 .. Len(ssh.left) : ssh.left[i] = sshJob.data[d - Len(ssh.left) + i]
  BY <1>2, <1>7, <1>8 DEF InputInv
<1>11. \A j \in 1 .. l - 1 : j + 1 \in 1 .. l /\ j + 1 # 1 /\ 0 + (j + 1) - 1 = 0 + j - 0
  BY <1>9
<1>12. /\ \A j \in 1 .. l - 1 : toSshd'[j].k # "exec"
       /\ \A j \in 1 .. l - 1 : toSshd'[j].k = "data" =>
               0 + j - 0 <= d /\ toSshd'[j].b = sshJob.data[0 + j - 0]
       /\ \A j \in 1 .. l - 1 : toSshd'[j].k = "eof" => 0 + j - 0 = d + 1
  BY <1>9, <1>10, <1>11
<1>13. sshUp /\ ssh.at = "send" =>
             /\ 0 + (l - 1) - 0 + Len(ssh.left) = d
             /\ \A i \in 1 .. Len(ssh.left) : ssh.left[i] = sshJob.data[d - Len(ssh.left) + i]
  <2>1. PICK r \in Nat : r = Len(ssh.left)
    <3>1. ssh.left \in Seq(SshBlocks)
      BY <1>2, PushIs
    <3> QED
      BY <3>1
  <2>2. 0 + l - 1 + r = 0 + (l - 1) - 0 + r
    OBVIOUS
  <2> QED
    BY <1>10, <2>1, <2>2
<1>14. InputInv'
  <2>1. Len(File') = 0 /\ 0 <= d /\ proc'.at # "none" /\ proc'.at # "exited"
    BY <1>6, <1>7
  <2>2. Len(sshJob'.data) = d /\ Len(toSshd') = l - 1 /\ UNCHANGED <<sshJob, sshUp, ssh>>
    BY <1>1, <1>8, <1>9
  <2>3. FirstAt' = 0 /\ \A i \in 1 .. Len(File') : File'[i] = sshJob'.data[i]
    BY <1>7, <2>1
  <2> HIDE DEF File, FirstAt
  <2> QED
    BY <1>12, <1>13, <2>1, <2>2, <2>3 DEF InputInv
<1>15. Len(toSsh') = 0
  BY <1>1, <1>4
<1> QED
  BY <1>1, <1>4, <1>14, <1>15, ServerWrites

LEMMA AppendIs ==
    ASSUME NEW S, NEW q \in Seq(S), NEW x \in S
    PROVE  /\ Len(Append(q, x)) = Len(q) + 1 /\ Append(q, x)[Len(q) + 1] = x
           /\ \A i \in 1 .. Len(q) : Append(q, x)[i] = q[i]
  OBVIOUS

LEMMA ReadsKeepsWrite == SshBase /\ WriteInv /\ ProcReads => WriteInv'
<1> SUFFICES ASSUME SshBase, WriteInv, ProcReads, Pushing' PROVE WriteInv'
  BY DEF WriteInv
<1>1. /\ UNCHANGED <<sshJob, sshUp, ssh, toSsh, proc, pulled>> /\ Ask = "data"
      /\ proc.at = "run" /\ toSshd' = Tail(toSshd)
  BY DEF ProcReads
<1>2. Pushing /\ InputInv /\ Call = "push"
      /\ \A j \in 1 .. Len(toSsh) : toSsh[j].k = "exit" => proc.at = "exited"
  BY <1>1, InputIs
<1>3. /\ ssh.call \in 1 .. 3 /\ toSshd \in Seq(SshMsgs) /\ toSshd # <<>> /\ toSshd[1].k = "data"
      /\ remote \in [1 .. 3 -> Seq(SshBlocks \cup {"?", "no file"})] /\ toSshd[1] \in SshMsgs
      /\ Head(toSshd) = toSshd[1]
  BY <1>1, <1>2, PushIs, AskIs DEF SshBase, SshTypes
<1>4. PICK b : b = toSshd[1].b /\ b \in SshBlocks \cup {"?"}
  BY <1>3, SshMsgsAre
<1>5. PICK g : g = remote[ssh.call] /\ File = g /\ g \in Seq(SshBlocks \cup {"?", "no file"})
  BY <1>1, <1>2, PushIs DEF File
<1>6. remote' = [remote EXCEPT ![ssh.call] = Append(g, b)]
  BY <1>2, <1>3, <1>4, <1>5 DEF ProcReads, Writes
<1>7. File' = Append(g, b) /\ FirstAt' = 0 /\ FirstAt = 0
  BY <1>1, <1>3, <1>6 DEF File, FirstAt
<1>8. PICK d, l, f \in Nat : d = Len(sshJob.data) /\ l = Len(toSshd) /\ f = Len(g)
  BY <1>2, <1>5, PushIs
<1>9. /\ Len(toSshd') = l - 1 /\ l >= 1
      /\ \A i \in 1 .. l - 1 : toSshd'[i] = toSshd[i + 1]
      /\ \A j \in 1 .. l - 1 : j + 1 \in 1 .. l /\ j + 1 # 1
      /\ 1 \in 1 .. l
  <2>1. toSshd \in Seq(SshMsgs) /\ toSshd # <<>> /\ toSshd' = Tail(toSshd)
    BY <1>1, <1>3
  <2>2. /\ Len(toSshd') = l - 1 /\ l >= 1
        /\ \A i \in 1 .. l - 1 : toSshd'[i] = toSshd[i + 1]
    BY <1>8, <2>1, SshSeqs
  <2> QED
    BY <2>2
<1>10. /\ \A j \in 1 .. l : toSshd[j].k = "exec" => j = 1 /\ proc.at = "none"
       /\ f <= d
       /\ \A i \in 1 .. f : g[i] = sshJob.data[i]
       /\ \A j \in 1 .. l : toSshd[j].k = "data" =>
               f + j - 0 <= d /\ toSshd[j].b = sshJob.data[f + j - 0]
       /\ \A j \in 1 .. l : toSshd[j].k = "eof" => f + j - 0 = d + 1
       /\ sshUp /\ ssh.at = "send" =>
             /\ f + l - 0 + Len(ssh.left) = d
             /\ \A i \in 1 .. Len(ssh.left) : ssh.left[i] = sshJob.data[d - Len(ssh.left) + i]
  BY <1>2, <1>5, <1>7, <1>8 DEF InputInv
<1>11. /\ Len(File') = f + 1 /\ f + 1 <= d
       /\ \A i \in 1 .. f + 1 : File'[i] = sshJob.data[i]
  <2>1. /\ Len(File') = f + 1 /\ File'[f + 1] = b /\ \A i \in 1 .. f : File'[i] = g[i]
    <3>1. PICK S : S = SshBlocks \cup {"?", "no file"}
      OBVIOUS
    <3>2. b \in S /\ g \in Seq(S)
      BY <1>4, <1>5, <3>1
    <3>3. /\ Len(Append(g, b)) = Len(g) + 1 /\ Append(g, b)[Len(g) + 1] = b
          /\ \A i \in 1 .. Len(g) : Append(g, b)[i] = g[i]
      BY <3>2, AppendIs
    <3>4. PICK h : h = Append(g, b)
      OBVIOUS
    <3>5. File' = h
      BY <1>7, <3>4
    <3>6. Len(h) = f + 1 /\ h[f + 1] = b /\ \A i \in 1 .. f : h[i] = g[i]
      BY <1>8, <3>3, <3>4
    <3> QED
      BY <3>5, <3>6
  <2>2. f + 1 - 0 <= d /\ b = sshJob.data[f + 1 - 0] /\ f + 1 - 0 = f + 1
    <3>1. f + 1 - 0 <= d /\ toSshd[1].b = sshJob.data[f + 1 - 0]
      BY <1>3, <1>9, <1>10
    <3>2. f + 1 - 0 = f + 1
      OBVIOUS
    <3> QED
      BY <1>4, <3>1, <3>2
  <2>3. \A i \in 1 .. f + 1 : i \in 1 .. f \/ i = f + 1
    OBVIOUS
  <2> QED
    BY <1>10, <2>1, <2>2, <2>3
<1>12. /\ \A j \in 1 .. l - 1 : toSshd'[j].k # "exec"
       /\ \A j \in 1 .. l - 1 : toSshd'[j].k = "data" =>
               (f + 1) + j - 0 <= d /\ toSshd'[j].b = sshJob.data[(f + 1) + j - 0]
       /\ \A j \in 1 .. l - 1 : toSshd'[j].k = "eof" => (f + 1) + j - 0 = d + 1
  <2>1. \A j \in 1 .. l - 1 : (f + 1) + j - 0 = f + (j + 1) - 0
    OBVIOUS
  <2> QED
    BY <1>1, <1>9, <1>10, <2>1
<1>13. sshUp /\ ssh.at = "send" =>
             /\ (f + 1) + (l - 1) - 0 + Len(ssh.left) = d
             /\ \A i \in 1 .. Len(ssh.left) : ssh.left[i] = sshJob.data[d - Len(ssh.left) + i]
  <2>1. PICK r \in Nat : r = Len(ssh.left)
    <3>1. ssh.left \in Seq(SshBlocks)
      BY <1>2, PushIs
    <3> QED
      BY <3>1
  <2>2. f + l - 0 + r = (f + 1) + (l - 1) - 0 + r
    OBVIOUS
  <2> QED
    BY <1>10, <2>1, <2>2
<1>14. InputInv'
  BY <1>1, <1>7, <1>8, <1>9, <1>11, <1>12, <1>13 DEF InputInv
<1> QED
  BY <1>1, <1>2, <1>14, ServerWrites

\* The file and the input stay as they are.
LEMMA InputStays ==
    ASSUME SshBase, Pushing, InputInv, UNCHANGED <<sshJob, ssh, remote>>,
           UNCHANGED toSshd \/ (toSshd' = <<>> /\ ~sshUp'), sshUp' => sshUp,
           \/ proc' = proc
           \/ proc.at = "run" /\ proc'.at \in {"run", "exited"}
           \/ proc.at # "none" /\ proc'.at = proc.at /\ proc'.code = proc.code,
           proc.at # "exited" /\ proc'.at = "exited" /\ proc'.code = 0 => Len(File) = Len(sshJob.data),
           proc.at = "none" => toSsh' = <<>>
    PROVE  InputInv'
<1>1. File' = File /\ FirstAt' = FirstAt /\ (proc'.at = "none") = (proc.at = "none")
  BY DEF File, FirstAt
<1>2. proc'.at = "exited" /\ proc'.code = 0 => Len(File) = Len(sshJob.data)
  BY DEF InputInv
<1>3. CASE toSshd' = toSshd
  BY <1>1, <1>2, <1>3 DEF InputInv
<1>4. CASE toSshd' = <<>> /\ ~sshUp'
  <2>1. Len(toSshd') = 0 /\ toSshd' = <<>> /\ \A j \in 1 .. 0 : FALSE
    BY <1>4
  <2> QED
    BY <1>1, <1>2, <1>4, <2>1 DEF InputInv
<1> QED
  BY <1>3, <1>4

LEMMA ProcKeepsWrite ==
    SshBase /\ WriteInv /\ (ProcWrites \/ ProcExits \/ ProcKilled) => WriteInv'
<1> SUFFICES ASSUME SshBase, WriteInv, ProcWrites \/ ProcExits \/ ProcKilled, Pushing' PROVE WriteInv'
  BY DEF WriteInv
<1>1. /\ UNCHANGED <<sshJob, sshUp, ssh, toSshd, toSsh, remote, pulled>> /\ proc.at = "run"
      /\ proc \in SshProcs
  BY DEF ProcWrites, ProcExits, ProcKilled, SshBase, SshTypes
<1>2. Pushing /\ InputInv /\ Call = "push"
      /\ \A j \in 1 .. Len(toSsh) : toSsh[j].k = "exit" => proc.at = "exited"
  BY <1>1, InputIs
<1>3. /\ proc'.at \in {"run", "exited"}
      /\ proc'.at = "exited" /\ proc'.code = 0 => Len(File) = Len(sshJob.data)
  <2>1. CASE ProcWrites
    BY <1>1, <2>1 DEF ProcWrites, SshProcs
  <2>2. CASE ProcExits
    <3>1. proc'.at = "exited" /\ proc'.code = CallCode
      BY <1>1, <2>2 DEF ProcExits, Exits, SshProcs
    <3>2. CallCode = 0 => Ask = "eof"
      BY <1>2, <2>2 DEF ProcExits
    <3>3. Ask = "eof" => Len(File) = Len(sshJob.data)
      <4> SUFFICES ASSUME Ask = "eof" PROVE Len(File) = Len(sshJob.data)
        OBVIOUS
      <4>1. SshTypes
        BY DEF SshBase
      <4>2. toSshd # <<>> /\ toSshd[1].k = "eof" /\ toSshd \in Seq(SshMsgs)
        BY <4>1, AskIs DEF SshTypes
      <4>3. 1 \in 1 .. Len(toSshd)
        BY <4>2
      <4>4. Len(File) + 1 - FirstAt = Len(sshJob.data) + 1 /\ FirstAt = 0
        BY <1>1, <1>2, <4>2, <4>3 DEF InputInv, FirstAt
      <4>5. PICK f, d \in Nat : f = Len(File) /\ d = Len(sshJob.data)
        BY <1>2, PushIs
      <4>6. f + 1 - 0 = d + 1
        BY <4>4, <4>5
      <4>7. f = d
        BY <4>6
      <4> QED
        BY <4>5, <4>7
    <3> QED
      BY <3>1, <3>2, <3>3
  <2>3. CASE ProcKilled
    <3>1. PICK n \in Nat : n = 129
      OBVIOUS
    <3>2. proc' = [proc EXCEPT !.at = "exited", !.code = n] /\ n # 0
      BY <2>3, <3>1 DEF ProcKilled, Exits
    <3> QED
      BY <1>1, <3>2 DEF SshProcs
  <2> QED
    BY <2>1, <2>2, <2>3
<1>4. InputInv'
  BY <1>1, <1>2, <1>3, InputStays
<1> QED
  BY <1>1, <1>2, <1>4, ServerWrites

LEMMA TellsKeepsWrite ==
    SshBase /\ WriteInv /\ (SshdData \/ SshdExit \/ SshdEof \/ SshdClose) => WriteInv'
<1> SUFFICES ASSUME SshBase, WriteInv, SshdData \/ SshdExit \/ SshdEof \/ SshdClose, Pushing'
             PROVE  WriteInv'
  BY DEF WriteInv
<1>1. SshTypes /\ proc \in SshProcs
  BY DEF SshBase, SshTypes
<1>2. ASSUME NEW m \in SshMsgs, NEW k \in SshKinds, Tells(m, k),
             m.k = "exit" => proc.at = "exited" /\ m.n = proc.code,
             proc # NoProc
      PROVE  WriteInv'
  <2>1. /\ UNCHANGED <<sshJob, sshUp, ssh, toSshd, remote, pulled>>
        /\ Len(toSsh) \in Nat /\ Len(toSsh') = Len(toSsh) + 1 /\ toSsh'[Len(toSsh) + 1] = m
        /\ \A i \in 1 .. Len(toSsh) : toSsh'[i] = toSsh[i]
        /\ proc'.at = proc.at /\ proc'.code = proc.code
    BY <1>1, <1>2, TellsIs
  <2>2. Pushing /\ InputInv
    BY <2>1, InputIs
  <2>3. proc.at # "none"
    BY <1>2, <2>2 DEF InputInv
  <2>4. InputInv'
    BY <2>1, <2>2, <2>3, InputStays
  <2>5. \A j \in 1 .. Len(toSsh') : j \in 1 .. Len(toSsh) \/ j = Len(toSsh) + 1
    BY <2>1
  <2>6. \A j \in 1 .. Len(toSsh') : toSsh'[j].k = "exit" =>
               \/ \E i \in 1 .. Len(toSsh) : toSsh[i] = toSsh'[j]
               \/ proc'.at = "exited" /\ proc'.code = proc.code /\ toSsh'[j].n = proc.code
    BY <1>2, <2>1, <2>5
  <2> QED
    BY <2>1, <2>4, <2>6, ServerWrites
<1>3. CASE SshdData
  <2>1. proc.pipe # <<>> /\ proc.pipe \in Seq(SshBlocks)
    BY <1>1, <1>3 DEF SshdData, SshProcs
  <2>2. Head(proc.pipe) \in SshBlocks
    BY <2>1
  <2>3. Block(Head(proc.pipe)) \in SshMsgs /\ Block(Head(proc.pipe)).k = "data" /\ "data" \in SshKinds
    BY <2>2, SshMsgsAre DEF SshKinds
  <2>4. proc # NoProc
    BY <2>1 DEF NoProc
  <2> QED
    BY <1>2, <1>3, <2>3, <2>4 DEF SshdData
<1>4. CASE SshdExit
  <2>1. /\ ExitStatus(proc.code) \in SshMsgs /\ ExitStatus(proc.code).k = "exit" /\ "exit" \in SshKinds
        /\ ExitStatus(proc.code).n = proc.code
    BY <1>1, SshMsgsAre DEF SshProcs, SshKinds
  <2>2. proc.at = "exited" /\ proc # NoProc
    BY <1>4 DEF SshdExit, NoProc
  <2> QED
    BY <1>2, <1>4, <2>1, <2>2 DEF SshdExit
<1>5. CASE SshdEof
  <2>1. Msg("eof") \in SshMsgs /\ Msg("eof").k = "eof" /\ "eof" \in SshKinds
    BY SshMsgsAre DEF SshKinds
  <2>2. proc # NoProc
    BY <1>5 DEF SshdEof, NoProc
  <2> QED
    BY <1>2, <1>5, <2>1, <2>2 DEF SshdEof
<1>6. CASE SshdClose
  <2>1. Msg("close") \in SshMsgs /\ Msg("close").k = "close" /\ "close" \in SshKinds
    BY SshMsgsAre DEF SshKinds
  <2>2. proc # NoProc
    BY <1>6 DEF SshdClose, NoProc
  <2> QED
    BY <1>2, <1>6, <2>1, <2>2 DEF SshdClose
<1> QED
  BY <1>3, <1>4, <1>5, <1>6

LEMMA LostKeepsWrite == SshBase /\ WriteInv /\ SshLost => WriteInv'
<1> SUFFICES ASSUME SshBase, WriteInv, SshLost, Pushing' PROVE WriteInv'
  BY DEF WriteInv
<1>1. /\ UNCHANGED <<sshJob, ssh, proc, remote, pulled>> /\ sshUp' = FALSE /\ toSshd' = <<>>
      /\ toSsh \in Seq(SshMsgs)
  BY DEF SshLost, SshBase, SshTypes
<1>2. PICK n \in 0 .. Len(toSsh) : toSsh' = SubSeq(toSsh, 1, n)
  BY DEF SshLost
<1>3. Len(toSsh') = n /\ \A i \in 1 .. n : toSsh'[i] = toSsh[i] /\ i \in 1 .. Len(toSsh)
  <2>1. Len(toSsh) \in Nat
    BY <1>1, SshSeqs
  <2> QED
    BY <1>1, <1>2, <2>1, SshSeqs
<1>4. Pushing /\ InputInv
  BY <1>1, InputIs
<1>5. proc.at = "none" => toSsh' = <<>>
  <2>1. proc.at = "none" => Len(toSsh) = 0
    BY <1>4 DEF InputInv
  <2> QED
    BY <1>2, <1>3, <2>1
<1>6. InputInv'
  BY <1>1, <1>4, <1>5, InputStays
<1>7. \A j \in 1 .. Len(toSsh') : \E i \in 1 .. Len(toSsh) : toSsh[i] = toSsh'[j]
  BY <1>3
<1> QED
  BY <1>1, <1>6, <1>7, ServerWrites

LEMMA MrshKeepsWrite ==
    SshBase /\ WriteInv /\ (exec_request \/ ExecBlocked \/ shell_request \/ IgnoreData \/ channel_eof)
       => WriteInv'
<1> SUFFICES ASSUME exec_request \/ ExecBlocked \/ shell_request \/ IgnoreData \/ channel_eof, Pushing' PROVE FALSE
  BY DEF WriteInv
<1>1. sshJob' = sshJob /\ sshJob.server = "mrsh"
  BY DEF exec_request, ExecBlocked, Asked, shell_request, IgnoreData, channel_eof
<1> QED
  BY <1>1 DEF Pushing

-----------------------------------------------------------------------------
(* The invariant of the SSH fallback.                                      *)

LEMMA SshStart == SshInit => SshInv
<1> SUFFICES ASSUME SshInit PROVE SshInv
  OBVIOUS
<1>1. /\ sshJob \in SshScenarios /\ sshUp = TRUE /\ toSshd = <<>> /\ toSsh = <<>> /\ proc = NoProc
      /\ remote = [i \in 1 .. 3 |-> NoFile] /\ pulled = NoFile
  BY DEF SshInit
<1>2. PICK at1, nil, none : /\ at1 = (IF sshJob.op = "none" THEN "done" ELSE "open") /\ at1 \in {"done", "open"}
                            /\ nil = <<>> /\ none = {}
  OBVIOUS
<1>3. ssh = [call |-> 1, at |-> at1, left |-> nil, code |-> 0, saw |-> none, out |-> nil, typed |-> 0,
             skipped |-> 0, exit |-> "none"]
  BY <1>2 DEF SshInit
<1>4. /\ ssh.call = 1 /\ ssh.at \in {"done", "open"} /\ ssh.exit = "none"
  BY <1>2, <1>3
<1>5. ssh \in SshClients
  <2>1. nil \in Seq(SshBlocks) /\ nil \in Seq(SshBlocks \cup {"?"}) /\ none \in SUBSET SshKinds
    BY <1>2
  <2> QED
    BY <1>2, <1>3, <2>1 DEF SshClients
<1>6. SshTypes
  <2>1. proc \in SshProcs
    BY <1>1 DEF NoProc, SshProcs
  <2>2. NoFile \in Seq(SshBlocks \cup {"?", "no file"})
    BY DEF NoFile
  <2>3. remote \in [1 .. 3 -> Seq(SshBlocks \cup {"?", "no file"})]
    BY <1>1, <2>2
  <2>4. toSshd \in Seq(SshMsgs) /\ toSsh \in Seq(SshMsgs) /\ sshUp \in BOOLEAN
    BY <1>1
  <2> QED
    BY <1>1, <1>5, <2>1, <2>3, <2>4 DEF SshTypes
<1>7. CallsInv
  <2>1. 1 <= LastCall
    <3>1. \/ Calls = <<"probe", "push">> \/ Calls = <<"probe", "push", "push">>
          \/ Calls = <<"probe", "pull">> \/ Calls = <<sshJob.op>>
      BY DEF Calls
    <3> QED
      BY <3>1 DEF LastCall
  <2> QED
    BY <1>1, <1>4, <2>1 DEF CallsInv, Reported
<1>8. ~ReadsOutput /\ ~Pushing
  BY <1>4 DEF ReadsOutput, Pushing, Reported
<1> QED
  BY <1>6, <1>7, <1>8 DEF SshInv, ReadInv, WriteInv

LEMMA SshStutters == SshInv /\ UNCHANGED sshVars => SshInv'
<1> SUFFICES ASSUME SshInv, UNCHANGED sshVars PROVE SshInv'
  OBVIOUS
<1>1. UNCHANGED <<sshJob, sshUp, ssh, toSshd, toSsh, proc, remote, pulled>>
  BY DEF sshVars
<1>2. /\ Reported' = Reported /\ Call' = Call /\ LastCall' = LastCall /\ ReadsOutput' = ReadsOutput
      /\ Pushing' = Pushing /\ SentBlocks' = SentBlocks /\ Text' = Text /\ File' = File
      /\ FirstAt' = FirstAt
  BY <1>1, SameCalls DEF Reported, ReadsOutput, Pushing, SentBlocks, Text, AsText, File, FirstAt
<1>3. SshTypes' /\ CallsInv'
  BY <1>1, <1>2 DEF SshInv, SshTypes, CallsInv
<1>4. ReadInv'
  <2>1. /\ OutputInv(ssh, toSsh)' = OutputInv(ssh, toSsh)
        /\ EofInv(ssh, toSsh)' = EofInv(ssh, toSsh)
        /\ ExitInv(ssh, toSsh)' = ExitInv(ssh, toSsh)
        /\ NothingYet(ssh, toSsh)' = NothingYet(ssh, toSsh)
    BY <1>1, <1>2 DEF OutputInv, RefusedInv, EofInv, ExitInv, NothingYet, CodeTrue
  <2> QED
    BY <1>1, <1>2, <2>1 DEF SshInv, ReadInv
<1>5. WriteInv'
  <2>1. InputInv' = InputInv
    BY <1>1, <1>2 DEF InputInv
  <2> QED
    BY <1>1, <1>2, <2>1 DEF SshInv, WriteInv, CodeTrue
<1> QED
  BY <1>3, <1>4, <1>5 DEF SshInv

LEMMA SshStepKeeps == SshInv /\ [SshNext]_sshVars => SshInv'
<1> SUFFICES ASSUME SshInv, [SshNext]_sshVars PROVE SshInv'
  OBVIOUS
<1>1. SshBase /\ ReadInv /\ WriteInv
  BY DEF SshInv, SshBase
<1>2. SshBase' /\ ReadInv' /\ WriteInv' => SshInv'
  BY DEF SshInv, SshBase
<1>3. CASE UNCHANGED sshVars
  BY <1>3, SshStutters
<1>4. CASE OpenChannel
  BY <1>1, <1>2, <1>4, OpenKeepsBase, OpenKeepsRead, OpenKeepsWrite
<1>5. CASE PushData
  BY <1>1, <1>2, <1>5, PushKeepsBase, PushKeepsRead, PushKeepsWrite
<1>6. CASE WaitMessage
  BY <1>1, <1>2, <1>6, WaitKeepsBase, WaitKeepsRead, WaitKeepsWrite
<1>7. CASE ShellInput
  BY <1>1, <1>2, <1>7, ShellKeepsBase, ShellKeepsRead, ShellKeepsWrite
<1>8. CASE ProcStarts
  BY <1>1, <1>2, <1>8, ProcKeepsBase, StartsKeepsRead, StartsKeepsWrite
<1>9. CASE ProcReads
  BY <1>1, <1>2, <1>9, ProcKeepsBase, OtherKeepsRead, ReadsKeepsWrite
<1>10. CASE ProcWrites
  BY <1>1, <1>2, <1>10, ProcKeepsBase, WritesKeepsRead, ProcKeepsWrite
<1>11. CASE ProcExits \/ ProcKilled
  BY <1>1, <1>2, <1>11, ProcKeepsBase, EndsKeepsRead, ProcKeepsWrite
<1>12. CASE SshdData
  BY <1>1, <1>2, <1>12, SshdKeepsBase, DataKeepsRead, TellsKeepsWrite
<1>13. CASE SshdExit \/ SshdEof \/ SshdClose
  BY <1>1, <1>2, <1>13, SshdKeepsBase, ToldKeepsRead, TellsKeepsWrite
<1>14. CASE exec_request
  BY <1>1, <1>2, <1>14, MrshKeepsBase, AnswerKeepsRead, MrshKeepsWrite
<1>15. CASE shell_request \/ IgnoreData \/ channel_eof
  BY <1>1, <1>2, <1>15, MrshKeepsBase, OtherKeepsRead, MrshKeepsWrite
<1>16. CASE SshLost
  BY <1>1, <1>2, <1>16, LostKeepsBase, LostKeepsRead, LostKeepsWrite
<1>17. CASE ExecBlocked
  BY <1>1, <1>2, <1>17, MrshKeepsBase, BlockedKeepsRead, MrshKeepsWrite
<1> QED
  BY <1>3, <1>4, <1>5, <1>6, <1>7, <1>8, <1>9, <1>10, <1>11, <1>12, <1>13, <1>14, <1>15, <1>16, <1>17
     DEF SshNext, SshClient, SshServer

\* Equal length and equal members.
LEMMA SameSequence ==
    ASSUME NEW S, NEW p \in Seq(S), NEW q \in Seq(S), Len(p) = Len(q),
           \A i \in 1 .. Len(q) : p[i] = q[i]
    PROVE  p = q
OBVIOUS

LEMMA SshIsTrue == SshInv => SshTold
<1> SUFFICES ASSUME SshInv PROVE SshTold
  OBVIOUS
<1>1. /\ SshBase /\ ReadInv /\ WriteInv /\ SshTypes /\ CallsInv /\ ssh \in SshClients
      /\ sshJob \in SshScenarios /\ ssh.call \in 1 .. 3 /\ ssh.call <= LastCall
  BY DEF SshInv, SshBase, SshTypes, CallsInv, SshClients
<1>2. /\ sshJob.data \in Seq(SshBlocks) /\ Len(sshJob.data) \in Nat /\ sshJob.server \in {"openssh", "mrsh"}
      /\ ssh.out \in Seq(SshBlocks \cup {"?"}) /\ Len(ssh.out) \in Nat
      /\ proc.out \in Seq(SshBlocks) /\ proc.pipe \in Seq(SshBlocks)
  BY <1>1, SshScenario, OutIs DEF SshTypes, SshProcs
<1>3. Text \in Seq(SshBlocks \cup {"?"}) /\ Len(Text) = Len(sshJob.data)
  <2>1. AsText(sshJob.data) \in Seq(SshBlocks \cup {"?"}) /\ Len(AsText(sshJob.data)) = Len(sshJob.data)
    BY <1>2 DEF AsText, SshBlocks
  <2>2. sshJob.data \in Seq(SshBlocks \cup {"?"})
    BY <1>2
  <2> QED
    BY <2>1, <2>2 DEF Text
\* All of the output has arrived.
<1>4. ASSUME ReadsOutput, "exit" \in ssh.saw, "eof" \in ssh.saw,
             proc.code = 0 \/ (sshJob.server = "mrsh" /\ proc.refused = FALSE)
      PROVE  ssh.out = Text
  <2>1. proc.at # "none" => OutputInv(ssh, toSsh) /\ EofInv(ssh, toSsh) /\ ExitInv(ssh, toSsh)
    BY <1>1, <1>4 DEF ReadInv
  <2>2. proc.at # "none"
    BY <1>1, <1>4 DEF ReadInv, NothingYet
  <2>3. proc.out = <<>> /\ proc.pipe = <<>> /\ Len(ssh.out) = SentBlocks
    BY <1>4, <2>1, <2>2 DEF OutputInv, RefusedInv, EofInv, ExitInv
  <2>4. SentBlocks = Len(sshJob.data)
    <3>1. PICK d \in Nat : d = Len(sshJob.data)
      BY <1>2
    <3>2. Len(proc.out) = 0 /\ Len(proc.pipe) = 0
      BY <2>3
    <3>3. SentBlocks = d - 0 - 0
      BY <3>1, <3>2 DEF SentBlocks
    <3> QED
      BY <3>1, <3>3
  <2>5. \A i \in 1 .. Len(ssh.out) : ssh.out[i] = Text[i]
    BY <2>1, <2>2 DEF OutputInv
  <2> QED
    BY <1>2, <1>3, <2>3, <2>4, <2>5, SameSequence
<1>5. ASSUME ReadsOutput, "exit" \in ssh.saw
      PROVE  CodeTrue(ssh.code)
  <2>1. proc.at # "none"
    BY <1>1, <1>5 DEF ReadInv, NothingYet
  <2> QED
    BY <1>1, <1>5, <2>1 DEF ReadInv, ExitInv
<1>6. ExecTold
  <2> SUFFICES ASSUME Reported, sshJob.op = "exec"
               PROVE  /\ proc.at = "exited"
                      /\ IF sshJob.server = "mrsh" THEN (ssh.code = 0) = (proc.code = 0)
                         ELSE ssh.code = proc.code
                      /\ proc.refused => ssh.code # 0
                      /\ sshUp => IF sshJob.server = "mrsh"
                                  THEN (~proc.refused => ssh.out = AsText(sshJob.data))
                                  ELSE (proc.code = 0 => Whole(ssh.out))
    BY DEF ExecTold
  <2>1. Call = "exec" /\ ReadsOutput
    BY <1>1, CallIs DEF ReadsOutput
  <2>2. "exit" \in ssh.saw /\ (sshUp => "close" \in ssh.saw)
    BY <1>1, <2>1 DEF ReadInv
  <2>3. CodeTrue(ssh.code)
    BY <1>5, <2>1, <2>2
  <2>4. sshUp => "eof" \in ssh.saw
    <3>1. proc.at # "none" => EofInv(ssh, toSsh)
      BY <1>1, <2>1 DEF ReadInv
    <3> QED
      BY <2>2, <2>3, <3>1 DEF EofInv, CodeTrue
  <2>5. sshUp /\ (proc.code = 0 \/ (sshJob.server = "mrsh" /\ proc.refused = FALSE)) => ssh.out = Text
    BY <1>4, <2>1, <2>2, <2>4
  <2>6. RefusedInv /\ proc.refused \in BOOLEAN
    <3>1. proc.at # "none" => OutputInv(ssh, toSsh)
      BY <1>1, <2>1 DEF ReadInv
    <3> QED
      BY <1>1, <2>3, <3>1 DEF OutputInv, CodeTrue, SshTypes, SshProcs
  <2> QED
    BY <1>2, <2>3, <2>5, <2>6 DEF CodeTrue, RefusedInv, Text, Whole
<1>7. PushTold
  <2> SUFFICES ASSUME Reported, sshJob.op = "push", "exit" \in ssh.saw, sshJob.server = "openssh"
               PROVE  Whole(remote[LastCall])
    BY DEF PushTold
  <2>1. ssh.call = LastCall /\ Call = "push" /\ Pushing
    BY <1>1, CallIs DEF CallsInv, Pushing
  <2>2. InputInv /\ CodeTrue(ssh.code) /\ ssh.code = 0
    BY <1>1, <2>1 DEF WriteInv
  <2>3. proc.at = "exited" /\ proc.code = 0
    BY <2>2 DEF CodeTrue
  <2>4. File = remote[ssh.call] /\ Len(File) = Len(sshJob.data)
        /\ \A i \in 1 .. Len(File) : File[i] = sshJob.data[i]
    BY <2>2, <2>3 DEF InputInv, File
  <2>5. File \in Seq(SshBlocks \cup {"?", "no file"}) /\ sshJob.data \in Seq(SshBlocks \cup {"?", "no file"})
    <3>1. \A S, T : S \subseteq T => \A q \in Seq(S) : q \in Seq(T)
      OBVIOUS
    <3>2. SshBlocks \subseteq SshBlocks \cup {"?", "no file"}
      OBVIOUS
    <3>3. sshJob.data \in Seq(SshBlocks \cup {"?", "no file"})
      BY <1>2, <3>1, <3>2
    <3> QED
      BY <1>1, <2>1, <3>3, PushIs
  <2>6. File = sshJob.data
    BY <2>4, <2>5, SameSequence
  <2> QED
    BY <2>1, <2>4, <2>6 DEF Whole
<1>8. PullTold
  <2> SUFFICES ASSUME Reported, sshJob.op = "pull", {"exit", "eof"} \subseteq ssh.saw
               PROVE  pulled = Text
    BY DEF PullTold, Text
  <2>1. Call = "pull" /\ ReadsOutput
    BY <1>1, CallIs DEF CallsInv, ReadsOutput
  <2>2. ssh.code = 0 /\ pulled = ssh.out
    BY <1>1, <2>1 DEF ReadInv
  <2>3. proc.code = 0
    BY <1>2, <1>5, <2>1, <2>2 DEF CodeTrue
  <2> QED
    BY <1>4, <2>1, <2>2, <2>3
<1>9. FailedPullWritesNothing
  BY <1>1 DEF FailedPullWritesNothing, CallsInv, Reported
<1> QED
  BY <1>6, <1>7, <1>8, <1>9 DEF SshTold
-----------------------------------------------------------------------------
(***************************************************************************)
(* SCP and SFTP.  While the client is there it and the server's task take  *)
(* turns; the invariant says whose turn it is and what is on its way.      *)
(***************************************************************************)
ClFields == {"at", "i", "dir", "path", "left", "got", "saved", "exit"}
SvFields == {"at", "i", "dir", "path", "left", "exit"}
Words == STRING \cup {"t"}
Paths == Seq(Words)
DataToks == [k : {"zero"}] \cup [k : {"blk"}, b : STRING]
Items == scpJob.items
FileNos == {i \in 1 .. Len(Items) : Item(i).k = "C"}
ScpDatas == {Item(i).data : i \in FileNos}

ScpShape == /\ scpJob \in ScpScenarios /\ gone \in BOOLEAN
            /\ DOMAIN cl = ClFields /\ DOMAIN sv = SvFields
            /\ gone => cl.at = "done"

\* A source: D is the file the client is receiving, and what is left of it is on its way.
Receives(D) ==
    /\ cl.got \in Seq(STRING) /\ cl.left \in Nat \ {0} /\ Len(cl.got) + cl.left = Len(D)
    /\ \A j \in 1 .. Len(cl.got) : cl.got[j] = D[j]
    /\ down \in Seq(DataToks) /\ Len(down) = cl.left + 1
    /\ \A j \in 1 .. cl.left : down[j] = Blk(D[Len(cl.got) + j])
    /\ down[cl.left + 1] = Zero
\* Whose turn it is: the client's or the server's, with what the other one has sent.
Rest == cl.at = "line" /\ sv.at \in {"send", "over"} /\ up = <<>> /\ down = <<>>
Connected == cl.at = "ack" /\ sv.at = "start" /\ up = <<>> /\ down = <<>>
AckComing == cl.at = "line" /\ sv.at \in {"start", "acked"} /\ up = <<Zero>> /\ down = <<>>
ErrComing == cl.at = "line" /\ sv.at = "over" /\ up = <<>> /\ down = <<Tok("err")>>
FileComing ==
    /\ cl.at = "line" /\ sv.at = "read" /\ up = <<>> /\ Stored(SourcePath) # {}
    /\ down = <<[k |-> "C", name |-> Item(sv.i).name, n |-> Len(Content(SourcePath))]>>
MarkComing == /\ cl.at = "line" /\ sv.at = "acked" /\ up = <<>>
              /\ \E h : down = <<h>> /\ h.k # "C"
FileAgreed ==
    /\ cl.at = IF cl.left = 0 THEN "status" ELSE "data"
    /\ sv.at = "read" /\ up = <<Zero>> /\ down = <<>> /\ Stored(SourcePath) # {}
    /\ cl.got = <<>> /\ cl.left = Len(Content(SourcePath))
DataComing == cl.at = "data" /\ sv.at = "acked" /\ up = <<>> /\ \E D \in ScpDatas : Receives(D)
EndComing == /\ cl.at = "status" /\ sv.at = "acked" /\ up = <<>> /\ down = <<Zero>>
             /\ cl.got \in ScpDatas
SourceStep ==
    \/ Rest \/ Connected \/ AckComing \/ ErrComing \/ FileComing \/ MarkComing \/ FileAgreed
    \/ DataComing \/ EndComing
SourceInv ==
    Source /\ meddled = "no" =>
       /\ \A f \in tree : f.data \in ScpDatas
       /\ \A f \in cl.saved : f.data \in ScpDatas
       /\ cl.at # "done" => SourceStep

\* A sink: the directory before an item, what the client says it has sent, the header.
DirOf(i) == SentIn(Items)[i]
FilePath(i) == Append(DirOf(i), Item(i).name)
SentFile(i) == [path |-> FilePath(i), data |-> Item(i).data]
HeaderOf(i) == [k |-> Item(i).k, name |-> Item(i).name, n |-> Len(Item(i).data)]
SinkKept == /\ scpJob.mode = "sink"
            /\ scpJob.dir \/ \E i \in DOMAIN Items : Item(i).k = "D"

\* The server's directories, and where it is after n items: in a directory that exists, unless
\* it has not been told of any.
DirsInv == /\ <<>> \in dirs /\ \A p \in dirs : Front1(p) \in dirs
           /\ scpJob.dir => Top \in dirs
AfterItems(n) ==
    /\ sv.dir = DirOf(n + 1)
    /\ sv.dir \in dirs \/ (sv.dir = Top /\ \A d \in 1 .. n : Item(d).k # "D")

\* The file of the current item holds the first n blocks of it.
Holds(n) ==
    LET part == SubSeq(Item(cl.i).data, 1, n)
    IN  /\ [path |-> FilePath(cl.i), data |-> part] \in tree
        /\ \A f \in tree : f.path = FilePath(cl.i) => f.data = part
\* The server writes the current item; what of its data is on the way is what is missing, or
\* the beginning of that if the client is gone.
Writing == sv.at \in {"create", "data", "trail"}
WritingInv ==
    LET D == Item(cl.i).data
    IN  /\ cl.i \in FileNos /\ sv.path = FilePath(cl.i) /\ sv.left \in 0 .. Len(D)
        /\ cl.at \in {"header", "data", "done"} /\ cl.exit # "ok"
        /\ up \in Seq(DataToks) /\ Len(up) <= sv.left + 1
        /\ \A j \in 1 .. Len(up) :
              up[j] = IF j <= sv.left THEN Blk(D[Len(D) - sv.left + j]) ELSE Zero
        /\ sv.at = "create" => sv.left = Len(D)
        /\ sv.at = "data" => sv.left >= 1
        /\ sv.at = "trail" => sv.left = 0
        /\ sv.at # "create" => Holds(Len(D) - sv.left)
\* A header is on its way.
Pending == sv.at = "line" /\ up # <<>>
PendingInv == /\ up = <<HeaderOf(cl.i)>> /\ cl.i <= Len(Items) /\ AfterItems(cl.i - 1)
              /\ cl.at \in {"header", "done"} /\ cl.exit # "ok"

\* Whose turn it is.
Greeting ==
    /\ cl.at = "first" /\ cl.i = 1 /\ up = <<>> /\ AfterItems(0)
    /\ (sv.at = "start" /\ down = <<>>) \/ (sv.at = "line" /\ down = <<Zero>>)
HeaderSent == cl.at = "header" /\ Pending /\ down = <<>>
FileOk == /\ cl.at = "header" /\ Writing /\ up = <<>> /\ down = <<Zero>> /\ AfterItems(cl.i)
          /\ sv.left = Len(Item(cl.i).data)
MarkOk == /\ cl.at = "header" /\ sv.at = "line" /\ up = <<>> /\ down = <<Zero>> /\ AfterItems(cl.i)
          /\ Item(cl.i).k # "C"
HeaderBad == /\ cl.at = "header" /\ sv.at = "over" /\ up = <<>>
             /\ down = <<Tok("err")>> \/ (down = <<Zero, Tok("err")>> /\ cl.i \in FileNos)
DataSent == cl.at = "data" /\ Writing /\ Len(up) = sv.left + 1 /\ down = <<>> /\ AfterItems(cl.i)
FileDone == /\ cl.at = "data" /\ sv.at = "line" /\ up = <<>> /\ down = <<Zero>> /\ AfterItems(cl.i)
            /\ cl.i \in FileNos /\ SentFile(cl.i) \in tree
DataBad == cl.at = "data" /\ sv.at = "over" /\ down = <<Tok("err")>>
SinkStep ==
    \/ Greeting \/ HeaderSent \/ FileOk \/ MarkOk \/ HeaderBad \/ DataSent \/ FileDone \/ DataBad

\* What the client counts as saved is there, and none of it is the item being sent.
SavedInv ==
    \A f \in cl.saved :
       /\ f \in tree
       /\ \E j \in FileNos :
             /\ f = SentFile(j)
             /\ j < cl.i \/ (j = cl.i /\ cl.at = "done" /\ up = <<>> /\ sv.at \in {"line", "over"})
ClientInv == /\ cl.i \in Nat \ {0} /\ (cl.at \in {"header", "data"} => cl.i <= Len(Items))
             /\ cl.dir = DirOf(cl.i)
SinkInv ==
    SinkKept =>
       /\ ClientInv /\ DirsInv /\ SavedInv
       /\ Writing => WritingInv
       /\ Pending => PendingInv
       /\ sv.at = "start" => up = <<>>
       /\ cl.at # "done" => cl.exit = "none" /\ SinkStep

\* sftp: the file after k blocks of a put.
Overlay(k) == [i \in 1 .. (IF Len(Stale) > k THEN Len(Stale) ELSE k) |->
                  IF i <= k THEN Item(1).data[i] ELSE Stale[i]]
SftpHolds(s) == /\ [path |-> SftpFile, data |-> s] \in tree
                /\ \A f \in tree : f.path = SftpFile => f.data = s
SftpInv ==
    meddled = "no" =>
       /\ scpJob.mode = "put" =>
             /\ cl.left \in 0 .. Len(Item(1).data) /\ SftpHolds(Overlay(cl.left))
             /\ cl.exit = "ok" => cl.left = Len(Item(1).data)
       /\ scpJob.mode = "get" =>
             /\ SftpHolds(Item(1).data)
             /\ cl.got \in Seq(STRING) /\ Len(cl.got) <= Len(Item(1).data)
             /\ \A j \in 1 .. Len(cl.got) : cl.got[j] = Item(1).data[j]
             /\ cl.exit = "ok" => Len(cl.got) = Len(Item(1).data)

ScpInv == ScpShape /\ SourceInv /\ SinkInv /\ SftpInv

-----------------------------------------------------------------------------
(* The directories of a client: the recursive function SentIn has the      *)
(* equations of its definition.                                            *)

LEMMA LeastOf ==
    ASSUME NEW S, S \subseteq Nat, S # {}
    PROVE  \E x \in S : \A y \in S : x <= y
<1>1. IsWellFoundedOn(OpToRel(<, Nat), Nat)
  BY NatLessThanWellFounded, Zenon
<1> DEFINE R == OpToRel(<, Nat)
<1>2. PICK x \in S : \A y \in S : ~(<<y, x>> \in R)
  BY <1>1, WFMin, Zenon
<1>3. ASSUME NEW y \in S, ~(x <= y) PROVE FALSE
  <2>1. y < x /\ y \in Nat /\ x \in Nat
    BY <1>3
  <2>2. <<y, x>> \in R
    BY <2>1 DEF OpToRel
  <2> QED
    BY <1>2, <2>2
<1> QED
  BY <1>2, <1>3

\* The beginning of such a function, up to n.
Walk(items, g, n) ==
    g = [i \in 0 .. n |-> IF i <= 1 THEN Top ELSE DirAfter(g[i - 1], items[i - 1])]

LEMMA WalkAt ==
    ASSUME NEW items, NEW n \in Nat, NEW g, Walk(items, g, n)
    PROVE  /\ \A i \in 0 .. n : i <= 1 => g[i] = Top
           /\ \A i \in 0 .. n : i > 1 => g[i] = DirAfter(g[i - 1], items[i - 1])
<1>1. \A i \in 0 .. n : g[i] = IF i <= 1 THEN Top ELSE DirAfter(g[i - 1], items[i - 1])
  BY DEF Walk
<1> QED
  BY <1>1

LEMMA WalksAgree ==
    ASSUME NEW items, NEW m \in Nat, NEW n \in Nat, m <= n,
           NEW g, NEW h, Walk(items, g, m), Walk(items, h, n)
    PROVE  \A i \in 0 .. m : g[i] = h[i]
<1> DEFINE S == {i \in 0 .. m : g[i] # h[i]}
<1>1. SUFFICES ASSUME S # {} PROVE FALSE
  OBVIOUS
<1>2. PICK i \in S : \A j \in S : i <= j
  <2>1. S \subseteq Nat
    OBVIOUS
  <2> HIDE DEF S
  <2> QED
    BY <1>1, <2>1, LeastOf
<1>3. i \in 0 .. m /\ g[i] # h[i] /\ i \in Nat /\ i \in 0 .. n
  OBVIOUS
<1>4. CASE i <= 1
  <2>1. \A j \in 0 .. m : j <= 1 => g[j] = Top
    BY WalkAt, ZenonT(60)
  <2>2. \A j \in 0 .. n : j <= 1 => h[j] = Top
    BY WalkAt, ZenonT(60)
  <2> QED
    BY <1>3, <1>4, <2>1, <2>2
<1>5. CASE i > 1
  <2>1. i - 1 \in 0 .. m /\ i - 1 < i
    BY <1>3, <1>5
  <2>2. g[i - 1] = h[i - 1]
    BY <1>2, <1>3, <2>1
  <2> QED
    BY <1>3, <1>5, <2>2, WalkAt
<1> QED
  BY <1>3, <1>4, <1>5

LEMMA WalksExist ==
    ASSUME NEW items
    PROVE  \A n \in Nat : \E g : Walk(items, g, n)
<1> DEFINE S == {n \in Nat : ~ \E g : Walk(items, g, n)}
<1>1. SUFFICES ASSUME S # {} PROVE FALSE
  OBVIOUS
<1>2. PICK n \in S : \A j \in S : n <= j
  <2>1. S \subseteq Nat
    OBVIOUS
  <2> HIDE DEF S
  <2> QED
    BY <1>1, <2>1, LeastOf
<1>3. n \in Nat /\ ~ \E g : Walk(items, g, n)
  OBVIOUS
<1>4. CASE n = 0
  <2> DEFINE g == [i \in 0 .. 0 |-> Top]
  <2>1. g = [i \in 0 .. 0 |-> IF i <= 1 THEN Top ELSE DirAfter(g[i - 1], items[i - 1])]
    OBVIOUS
  <2> QED
    BY <1>3, <1>4, <2>1 DEF Walk
<1>5. CASE n # 0
  <2>1. n - 1 \in Nat /\ n - 1 < n
    BY <1>3, <1>5
  <2>2. PICK g : Walk(items, g, n - 1)
    BY <1>2, <2>1
  <2> DEFINE h == [i \in 0 .. n |-> IF i <= 1 THEN Top ELSE DirAfter(g[i - 1], items[i - 1])]
  <2>3. \A i \in 0 .. n - 1 : h[i] = g[i]
    <3>1. \A i \in 0 .. n - 1 : g[i] = IF i <= 1 THEN Top ELSE DirAfter(g[i - 1], items[i - 1])
      BY <2>2 DEF Walk
    <3>2. \A i \in 0 .. n - 1 : i \in 0 .. n
      BY <1>3
    <3> QED
      BY <3>1, <3>2
  <2>4. \A i \in 0 .. n : i > 1 => h[i - 1] = g[i - 1]
    <3>1. \A i \in 0 .. n : i > 1 => i - 1 \in 0 .. n - 1
      BY <1>3
    <3> QED
      BY <2>3, <3>1
  <2>5. h = [i \in 0 .. n |-> IF i <= 1 THEN Top ELSE DirAfter(h[i - 1], items[i - 1])]
    <3> DEFINE k == [i \in 0 .. n |-> IF i <= 1 THEN Top ELSE DirAfter(h[i - 1], items[i - 1])]
    <3>1. \A i \in 0 .. n : h[i] = k[i]
      <4> SUFFICES ASSUME NEW i \in 0 .. n PROVE h[i] = k[i]
        OBVIOUS
      <4>1. h[i] = IF i <= 1 THEN Top ELSE DirAfter(g[i - 1], items[i - 1])
        OBVIOUS
      <4>2. k[i] = IF i <= 1 THEN Top ELSE DirAfter(h[i - 1], items[i - 1])
        OBVIOUS
      <4>3. i > 1 => h[i - 1] = g[i - 1]
        BY <2>4
      <4>4. i > 1 \/ i <= 1
        BY <1>3
      <4> HIDE DEF h, k
      <4> QED
        BY <4>1, <4>2, <4>3, <4>4
    <3> QED
      BY <3>1
  <2> HIDE DEF h
  <2> QED
    BY <1>3, <2>5 DEF Walk
<1> QED
  BY <1>4, <1>5

LEMMA SentInIs ==
    ASSUME NEW items
    PROVE  /\ SentIn(items)[1] = Top
           /\ \A i \in Nat \ {0} : SentIn(items)[i + 1] = DirAfter(SentIn(items)[i], items[i])
<1> DEFINE G(n) == CHOOSE g : Walk(items, g, n)
           f == [n \in Nat |-> G(n)[n]]
           Step(h) == [i \in Nat |-> IF i <= 1 THEN Top ELSE DirAfter(h[i - 1], items[i - 1])]
<1>1. \A n \in Nat : Walk(items, G(n), n)
  BY WalksExist
<1>2. \A n \in Nat : f[n] = G(n)[n]
  OBVIOUS
<1> HIDE DEF G, f
<1>3. \A i \in Nat : i > 1 => f[i - 1] = G(i)[i - 1]
  <2> SUFFICES ASSUME NEW i \in Nat, i > 1 PROVE f[i - 1] = G(i)[i - 1]
    OBVIOUS
  <2>1. i - 1 \in Nat /\ i - 1 <= i /\ i - 1 \in 0 .. i - 1
    OBVIOUS
  <2>2. \A j \in 0 .. i - 1 : G(i - 1)[j] = G(i)[j]
    BY <1>1, <2>1, WalksAgree
  <2> QED
    BY <1>2, <2>1, <2>2
<1>4. \A i \in Nat : f[i] = IF i <= 1 THEN Top ELSE DirAfter(f[i - 1], items[i - 1])
  <2> SUFFICES ASSUME NEW i \in Nat
               PROVE  f[i] = IF i <= 1 THEN Top ELSE DirAfter(f[i - 1], items[i - 1])
    OBVIOUS
  <2>1. i \in 0 .. i
    OBVIOUS
  <2>2. Walk(items, G(i), i)
    BY <1>1
  <2>3. /\ i <= 1 => G(i)[i] = Top
        /\ i > 1 => G(i)[i] = DirAfter(G(i)[i - 1], items[i - 1])
    BY <2>1, <2>2, WalkAt
  <2>4. i > 1 \/ i <= 1
    OBVIOUS
  <2> QED
    BY <1>2, <1>3, <2>3, <2>4
<1>5. f = Step(f)
  <2>1. f = [n \in Nat |-> f[n]]
    BY DEF f
  <2> QED
    BY <1>4, <2>1
<1>6. SentIn(items) = CHOOSE d : d = Step(d)
  BY DEF SentIn
<1>7. SentIn(items) = Step(SentIn(items))
  <2> DEFINE s == SentIn(items)
  <2> HIDE DEF Step
  <2> QED
    BY <1>5, <1>6
<1> DEFINE s == SentIn(items)
<1>8. \A i \in Nat : s[i] = IF i <= 1 THEN Top ELSE DirAfter(s[i - 1], items[i - 1])
  <2>1. s = Step(s)
    BY <1>7
  <2> HIDE DEF s
  <2> QED
    BY <2>1
<1> HIDE DEF s
<1>9. s[1] = Top
  BY <1>8
<1>10. ASSUME NEW i \in Nat \ {0} PROVE s[i + 1] = DirAfter(s[i], items[i])
  <2>1. i + 1 \in Nat /\ ~(i + 1 <= 1) /\ (i + 1) - 1 = i
    OBVIOUS
  <2> QED
    BY <1>8, <2>1
<1> QED
  BY <1>9, <1>10 DEF s

-----------------------------------------------------------------------------
(* The scenarios of SCP and SFTP.                                          *)

LEMMA ScpScenario ==
    scpJob \in ScpScenarios =>
       /\ scpJob.mode \in {"sink", "source", "put", "get", "list", "none"}
       /\ scpJob.dir \in BOOLEAN /\ Len(Items) \in Nat /\ DOMAIN Items = 1 .. Len(Items)
       /\ \A i \in 1 .. Len(Items) :
             /\ Item(i).k \in {"C", "D", "E", "T", "bad"}
             /\ Item(i).name \in STRING /\ Item(i).data \in Seq(STRING)
             /\ Len(Item(i).data) \in Nat
<1> SUFFICES ASSUME scpJob \in ScpScenarios
             PROVE  /\ scpJob.mode \in {"sink", "source", "put", "get", "list", "none"}
                    /\ scpJob.dir \in BOOLEAN /\ Len(Items) \in Nat
                    /\ DOMAIN Items = 1 .. Len(Items)
                    /\ \A i \in 1 .. Len(Items) :
                          /\ Item(i).k \in {"C", "D", "E", "T", "bad"}
                          /\ Item(i).name \in STRING /\ Item(i).data \in Seq(STRING)
                          /\ Len(Item(i).data) \in Nat
  OBVIOUS
<1> DEFINE I == [k : {"C", "D", "E", "T", "bad"}, name : STRING, data : Seq(STRING)]
<1>1. /\ scpJob.mode \in {"sink", "source", "put", "get", "list", "none"}
      /\ scpJob.dir \in BOOLEAN /\ scpJob.items \in Seq(I)
  BY ScpAssumption
<1>2. \A it \in I : /\ it.k \in {"C", "D", "E", "T", "bad"}
                    /\ it.name \in STRING /\ it.data \in Seq(STRING)
  OBVIOUS
<1> HIDE DEF I
<1>3. Len(scpJob.items) \in Nat /\ \A i \in 1 .. Len(scpJob.items) : scpJob.items[i] \in I
  BY <1>1
<1>4. DOMAIN scpJob.items = 1 .. Len(scpJob.items)
  BY <1>1
<1>5. \A s \in Seq(STRING) : Len(s) \in Nat
  OBVIOUS
<1> QED
  BY <1>1, <1>2, <1>3, <1>4, <1>5 DEF Items, Item

LEMMA SftpScenario ==
    scpJob \in ScpScenarios /\ scpJob.mode \in {"put", "get"} =>
       /\ DOMAIN Items = {1} /\ Item(1).k = "C" /\ Item(1).data \in Seq(STRING)
       /\ Len(Items) = 1
<1> SUFFICES ASSUME scpJob \in ScpScenarios, scpJob.mode \in {"put", "get"}
             PROVE  /\ DOMAIN Items = {1} /\ Item(1).k = "C" /\ Item(1).data \in Seq(STRING)
                    /\ Len(Items) = 1
  OBVIOUS
<1>1. Len(Items) = 1 /\ Item(1).k = "C"
  BY ScpAssumption DEF Items, Item
<1>2. 1 .. 1 = {1}
  OBVIOUS
<1> QED
  BY <1>1, <1>2, ScpScenario

LEMMA SinkScenario ==
    ASSUME scpJob \in ScpScenarios, scpJob.mode = "sink"
    PROVE  /\ \A i, j \in FileNos : FilePath(i) = FilePath(j) => i = j
           /\ ~scpJob.dir /\ (\E i \in DOMAIN Items : Item(i).k = "D") =>
                 \A i \in FileNos : \E d \in 1 .. Len(Items) : d < i /\ Item(d).k = "D"
<1> DEFINE Of(k) == {i \in 1 .. Len(scpJob.items) : scpJob.items[i].k = k}
<1>1. /\ \A i, j \in Of("C") : PathOf(scpJob.items, i) = PathOf(scpJob.items, j) => i = j
      /\ ~scpJob.dir /\ Of("D") # {} => \A i \in Of("C") : \E d \in Of("D") : d < i
  BY ScpAssumption
<1>2. \A i : FilePath(i) = PathOf(scpJob.items, i)
  BY DEF FilePath, PathOf, DirOf, Items, Item
<1>3. FileNos = Of("C")
  BY DEF FileNos, Items, Item
<1>4. (\E i \in DOMAIN Items : Item(i).k = "D") => Of("D") # {}
  BY ScpScenario DEF Items, Item
<1>5. \A d \in Of("D") : d \in 1 .. Len(Items) /\ Item(d).k = "D"
  BY DEF Items, Item
<1> HIDE DEF Of
<1> QED
  BY <1>1, <1>2, <1>3, <1>4, <1>5

\* Directories.
LEMMA PathFacts ==
    /\ Top \in Paths /\ Front1(Top) = <<>>
    /\ \A p \in Paths, n \in STRING :
          Append(p, n) \in Paths /\ Append(p, n) # <<>> /\ Front1(Append(p, n)) = p
    /\ \A p \in Paths : Front1(p) \in Paths
<1>1. Top \in Paths
  <2>1. "t" \in Words
    BY DEF Words
  <2> QED
    BY <2>1 DEF Top, Paths
<1>2. Front1(Top) = <<>>
  BY DEF Front1, Top
<1>3. ASSUME NEW p \in Paths, NEW n \in STRING
      PROVE  Append(p, n) \in Paths /\ Append(p, n) # <<>> /\ Front1(Append(p, n)) = p
  <2>1. p \in Seq(Words) /\ n \in Words
    BY DEF Paths, Words
  <2>2. /\ Append(p, n) \in Seq(Words) /\ Len(Append(p, n)) = Len(p) + 1 /\ Len(p) \in Nat
        /\ \A i \in 1 .. Len(p) : Append(p, n)[i] = p[i]
    <3>1. \A S : \A r \in Seq(S), x \in S :
             /\ Append(r, x) \in Seq(S) /\ Len(Append(r, x)) = Len(r) + 1 /\ Len(r) \in Nat
             /\ \A i \in 1 .. Len(r) : Append(r, x)[i] = r[i]
      OBVIOUS
    <3> QED
      BY <2>1, <3>1
  <2>3. Append(p, n) # <<>>
    <3>1. Len(<<>>) = 0
      OBVIOUS
    <3>2. Len(p) + 1 # 0
      BY <2>2
    <3> QED
      BY <2>2, <3>1, <3>2
  <2> DEFINE q == SubSeq(Append(p, n), 1, Len(Append(p, n)) - 1)
  <2>4. q \in Seq(Words) /\ Len(q) = Len(p) /\ \A i \in 1 .. Len(p) : q[i] = p[i]
    BY <2>1, <2>2
  <2>5. q = p
    BY <2>1, <2>4
  <2> QED
    BY <2>2, <2>3, <2>5 DEF Front1, Paths
<1>4. \A p \in Paths : Front1(p) \in Paths
  BY DEF Front1, Paths
<1> QED
  BY <1>1, <1>2, <1>3, <1>4

LEMMA DirSteps ==
    /\ DirOf(1) = Top
    /\ \A i \in Nat \ {0} : DirOf(i + 1) = DirAfter(DirOf(i), Item(i))
<1>1. SentIn(Items)[1] = Top
  BY SentInIs
<1>2. \A i \in Nat \ {0} : SentIn(Items)[i + 1] = DirAfter(SentIn(Items)[i], Items[i])
  BY SentInIs
<1> QED
  BY <1>1, <1>2 DEF DirOf, Item, Items

LEMMA DirIsPath ==
    ASSUME scpJob \in ScpScenarios
    PROVE  \A i \in 1 .. Len(Items) + 1 : DirOf(i) \in Paths
<1> DEFINE S == {i \in 1 .. Len(Items) + 1 : DirOf(i) \notin Paths}
<1>1. SUFFICES ASSUME S # {} PROVE FALSE
  OBVIOUS
<1>0. Len(Items) \in Nat
  BY ScpScenario
<1>2. PICK i \in S : \A j \in S : i <= j
  <2>1. S \subseteq Nat
    BY <1>0
  <2> HIDE DEF S
  <2> QED
    BY <1>1, <2>1, LeastOf
<1>3. i \in 1 .. Len(Items) + 1 /\ DirOf(i) \notin Paths /\ i # 1
  BY DirSteps, PathFacts
<1>4. i - 1 \in 1 .. Len(Items) + 1 /\ i - 1 < i /\ i - 1 \in Nat \ {0} /\ (i - 1) + 1 = i
      /\ i - 1 \in 1 .. Len(Items) /\ i \in Nat
  BY <1>0, <1>3
<1>5. DirOf(i - 1) \in Paths
  <2>1. i - 1 \notin S
    BY <1>2, <1>4
  <2> QED
    BY <1>4, <2>1
<1>6. DirOf(i) = DirAfter(DirOf(i - 1), Item(i - 1))
  BY <1>4, DirSteps
<1>7. Item(i - 1).name \in STRING
  BY <1>4, ScpScenario
<1> HIDE DEF S
<1> QED
  BY <1>3, <1>5, <1>6, <1>7, PathFacts DEF DirAfter

-----------------------------------------------------------------------------
(* Every step.                                                             *)

LEMMA ScpFrame ==
    ScpNext => scpJob' = scpJob /\ (meddled' = "no" => meddled = "no" /\ ~Meddle)
<1>1. ScpClient => scpJob' = scpJob /\ meddled' = meddled
  BY DEF ScpClient, ClientSink, ClientSource, ClientEof
<1>2. ClientGone => scpJob' = scpJob /\ meddled' = meddled
  BY DEF ClientGone
<1>3. ScpTask => scpJob' = scpJob /\ meddled' = meddled
  BY DEF ScpTask, SinkStarts, SinkEof, SinkHeader, SinkCreates, SinkData, SinkTrail,
         SourceStarts, SourceHeader, SourceData, SourceAcked, SourceFails
<1>4. Sftp => scpJob' = scpJob /\ meddled' = meddled
  BY DEF Sftp, SftpWrite, SftpRead, SftpReaddir
<1>5. Meddle => scpJob' = scpJob /\ meddled' # "no" /\ meddled = "no"
  BY DEF Meddle
<1> QED
  BY <1>1, <1>2, <1>3, <1>4, <1>5 DEF ScpNext

\* The steps of each mode.
LEMMA ScpModes ==
    ASSUME ScpNext
    PROVE  /\ scpJob.mode \in {"put", "get", "list", "none"} => ClientGone \/ Sftp \/ Meddle
           /\ scpJob.mode = "source" =>
                 \/ ClientSource \/ ClientEof \/ ClientGone \/ Meddle
                 \/ SourceStarts \/ SourceHeader \/ SourceData \/ SourceAcked \/ SourceFails
           /\ scpJob.mode = "sink" =>
                 \/ ClientSink \/ ClientEof \/ ClientGone
                 \/ SinkStarts \/ SinkEof \/ SinkHeader \/ SinkCreates \/ SinkData \/ SinkTrail
<1>1. ClientSink => scpJob.mode = "sink"
  BY DEF ClientSink
<1>2. ClientSource => scpJob.mode = "source"
  BY DEF ClientSource, Source
<1>3. ClientEof => scpJob.mode \in {"sink", "source"}
  BY DEF ClientEof
<1>4. SinkStarts \/ SinkEof \/ SinkHeader \/ SinkCreates \/ SinkData \/ SinkTrail => scpJob.mode = "sink"
  BY DEF SinkStarts, SinkEof, SinkHeader, SinkCreates, SinkData, SinkTrail
<1>5. SourceStarts \/ SourceHeader \/ SourceData \/ SourceAcked \/ SourceFails => scpJob.mode = "source"
  BY DEF SourceStarts, SourceHeader, SourceData, SourceAcked, SourceFails, Source
<1>6. Sftp => scpJob.mode \in {"put", "get", "list"}
  BY DEF Sftp, SftpWrite, SftpRead, SftpReaddir
<1>7. Meddle => scpJob.mode # "sink"
  BY DEF Meddle
<1> QED
  BY <1>1, <1>2, <1>3, <1>4, <1>5, <1>6, <1>7 DEF ScpNext, ScpClient, ScpTask

\* What the sink's client does with an acknowledgement.
NextNo == IF cl.at = "first" THEN 1 ELSE cl.i + 1
NextDir == IF cl.at = "header" THEN DirAfter(cl.dir, Item(cl.i)) ELSE cl.dir
NextSaved == IF cl.at = "data"
             THEN cl.saved \cup {[path |-> Append(cl.dir, Item(cl.i).name), data |-> Item(cl.i).data]}
             ELSE cl.saved
LEMMA ClientSinkIs ==
    ASSUME ClientSink
    PROVE  /\ scpJob.mode = "sink" /\ cl.at \in {"first", "header", "data"}
           /\ down # <<>> /\ down' = Tail(down)
           /\ scpJob' = scpJob /\ dirs' = dirs /\ tree' = tree /\ sv' = sv
           /\ \/ /\ Head(down) # Zero /\ up' = up /\ gone' = TRUE
                 /\ cl' = [cl EXCEPT !.at = "done", !.exit = "error"]
              \/ /\ Head(down) = Zero /\ cl.at = "header" /\ Item(cl.i).k = "C" /\ gone' = gone
                 /\ up' = up \o Append(Blks(Item(cl.i).data), Zero)
                 /\ cl' = [cl EXCEPT !.at = "data"]
              \/ /\ Head(down) = Zero /\ ~(cl.at = "header" /\ Item(cl.i).k = "C") /\ gone' = gone
                 /\ NextNo <= Len(Items) /\ up' = up \o <<HeaderOf(NextNo)>>
                 /\ cl' = [cl EXCEPT !.at = "header", !.i = NextNo, !.dir = NextDir,
                                     !.saved = NextSaved]
              \/ /\ Head(down) = Zero /\ ~(cl.at = "header" /\ Item(cl.i).k = "C") /\ gone' = TRUE
                 /\ NextNo > Len(Items) /\ up' = up
                 /\ cl' = [cl EXCEPT !.at = "done", !.exit = "ok", !.saved = NextSaved]
<1>1. /\ scpJob.mode = "sink" /\ cl.at \in {"first", "header", "data"}
      /\ down # <<>> /\ down' = Tail(down)
      /\ scpJob' = scpJob /\ dirs' = dirs /\ tree' = tree /\ sv' = sv
  BY DEF ClientSink, ClTakes
<1> DEFINE it == Item(cl.i)
           ok == Head(down) = Zero
           sendsData == cl.at = "header" /\ it.k = "C"
<1>2. \/ ~ok /\ ClFails
      \/ /\ ok /\ sendsData
         /\ ClSends(Append(Blks(it.data), Zero), [cl EXCEPT !.at = "data"]) /\ UNCHANGED gone
      \/ /\ ok /\ ~sendsData /\ NextNo <= Len(scpJob.items)
         /\ ClSends(<<HeaderOf(NextNo)>>,
                    [cl EXCEPT !.at = "header", !.i = NextNo, !.dir = NextDir, !.saved = NextSaved])
         /\ UNCHANGED gone
      \/ /\ ok /\ ~sendsData /\ NextNo > Len(scpJob.items)
         /\ cl' = [cl EXCEPT !.at = "done", !.exit = "ok", !.saved = NextSaved]
         /\ gone' = TRUE /\ UNCHANGED up
  BY Zenon DEF ClientSink, NextNo, NextDir, NextSaved, HeaderOf
<1> QED
  BY <1>1, <1>2 DEF ClSends, ClFails, Items

LEMMA ShapeKeeps == ScpShape /\ ScpNext => ScpShape'
<1> SUFFICES ASSUME ScpShape, ScpNext PROVE ScpShape'
  OBVIOUS
<1> USE DEF ScpShape, ClFields, SvFields
<1>1. CASE ClientSink
  <2>1. scpJob' = scpJob /\ sv' = sv /\ cl.at # "done"
    BY <1>1, ClientSinkIs
  <2>2. DOMAIN cl' = DOMAIN cl /\ gone' \in {gone, TRUE}
    BY <1>1, ClientSinkIs
  <2>3. gone' # gone => cl'.at = "done"
    BY <1>1, ClientSinkIs
  <2>4. gone = FALSE
    BY <2>1
  <2> QED
    BY <2>1, <2>2, <2>3, <2>4
<1>2. CASE ClientSource
  BY <1>2 DEF ClientSource, ClSends, ClFails
<1>3. CASE ClientEof
  BY <1>3 DEF ClientEof
<1>4. CASE ClientGone
  BY <1>4 DEF ClientGone
<1>5. CASE ScpTask
  <2>1. scpJob' = scpJob /\ gone' = gone /\ cl' = cl
    BY <1>5 DEF ScpTask, SinkStarts, SinkEof, SinkHeader, SinkCreates, SinkData, SinkTrail,
                SourceStarts, SourceHeader, SourceData, SourceAcked, SourceFails
  <2>2. DOMAIN sv' = SvFields
    BY <1>5 DEF ScpTask, SinkStarts, SinkEof, SinkHeader, SinkCreates, SinkData, SinkTrail,
                SourceStarts, SourceHeader, SourceData, SourceAcked, SourceFails, ScpOver, NextItem
  <2> QED
    BY <2>1, <2>2
<1>6. CASE Sftp
  <2>1. scpJob' = scpJob /\ sv' = sv /\ gone' = gone /\ cl.at # "done"
    BY <1>6 DEF Sftp, SftpWrite, SftpRead, SftpReaddir
  <2>2. \/ \E e : cl' = [cl EXCEPT !.at = "done", !.exit = e]
        \/ \E n : cl' = [cl EXCEPT !.left = n] \/ cl' = [cl EXCEPT !.got = n]
                                                \/ cl' = [cl EXCEPT !.saved = n]
    BY <1>6 DEF Sftp, SftpWrite, SftpRead, SftpReaddir
  <2>3. DOMAIN cl' = ClFields
    BY <2>2
  <2> QED
    BY <2>1, <2>3
<1>7. CASE Meddle
  BY <1>7 DEF Meddle
<1> QED
  BY <1>1, <1>2, <1>3, <1>4, <1>5, <1>6, <1>7 DEF ScpNext, ScpClient

-----------------------------------------------------------------------------
(* SFTP.                                                                   *)

LEMMA StoreHolds ==
    ASSUME NEW s, tree' = Store(SftpFile, s), SftpFile' = SftpFile
    PROVE  SftpHolds(s)'
BY DEF Store, SftpHolds

LEMMA HeldIsOld ==
    ASSUME NEW s, SftpHolds(s)
    PROVE  Stored(SftpFile) = {s} /\ Old = s
<1>1. Stored(SftpFile) = {s}
  BY DEF Stored, SftpHolds
<1> QED
  BY <1>1 DEF Old, Content

\* One more block.
LEMMA OverlayNext ==
    ASSUME NEW k \in Nat, Stale \in Seq(STRING)
    PROVE  WriteAt(Overlay(k), k, Item(1).data[k + 1]) = Overlay(k + 1)
<1>1. PICK n \in Nat : n = Len(Stale)
  OBVIOUS
<1>2. Len(Overlay(k)) = IF n > k THEN n ELSE k
  BY <1>1 DEF Overlay
<1> DEFINE D == 1 .. (IF n > k + 1 THEN n ELSE k + 1)
<1>3. 1 .. (IF Len(Overlay(k)) > k THEN Len(Overlay(k)) ELSE k + 1) = D
  BY <1>2
<1>4. Overlay(k + 1) = [i \in D |-> IF i <= k + 1 THEN Item(1).data[i] ELSE Stale[i]]
  BY <1>1 DEF Overlay
<1>5. WriteAt(Overlay(k), k, Item(1).data[k + 1]) =
         [i \in D |-> IF i = k + 1 THEN Item(1).data[k + 1]
                      ELSE IF i <= Len(Overlay(k)) THEN Overlay(k)[i] ELSE "hole"]
  BY <1>3 DEF WriteAt
<1>6. ASSUME NEW i \in D
      PROVE  (IF i = k + 1 THEN Item(1).data[k + 1]
              ELSE IF i <= Len(Overlay(k)) THEN Overlay(k)[i] ELSE "hole")
             = IF i <= k + 1 THEN Item(1).data[i] ELSE Stale[i]
  <2>0. i \in Nat /\ i >= 1
    OBVIOUS
  <2>1. CASE i = k + 1
    BY <2>1
  <2>2. CASE i # k + 1
    <3>1. i <= (IF n > k THEN n ELSE k) /\ (i <= k + 1 <=> i <= k)
      BY <2>2
    <3>2. i \in 1 .. (IF Len(Stale) > k THEN Len(Stale) ELSE k)
      BY <1>1, <2>0, <3>1
    <3>3. Overlay(k)[i] = IF i <= k THEN Item(1).data[i] ELSE Stale[i]
      BY <3>2 DEF Overlay
    <3> QED
      BY <1>2, <2>2, <3>1, <3>3
  <2> QED
    BY <2>1, <2>2
<1> HIDE DEF D
<1> QED
  BY <1>4, <1>5, <1>6

LEMMA SftpKeeps == ScpShape /\ SftpInv /\ ScpNext => SftpInv'
<1> SUFFICES ASSUME ScpShape, SftpInv, ScpNext, meddled' = "no", scpJob.mode \in {"put", "get"}
             PROVE  SftpInv'
  BY ScpFrame DEF SftpInv
<1>0. scpJob' = scpJob /\ meddled = "no" /\ scpJob \in ScpScenarios /\ DOMAIN cl = ClFields
  BY ScpFrame DEF ScpShape
<1>1. /\ Item(1)' = Item(1) /\ SftpFile' = SftpFile /\ Item(1).data \in Seq(STRING)
      /\ Len(Item(1).data) \in Nat /\ (\A k : Overlay(k)' = Overlay(k))
  BY <1>0, SftpScenario, ScpScenario DEF Item, SftpFile, Top, Overlay
<1>2. CASE ClientGone
  <2>1. tree' = tree /\ cl'.left = cl.left /\ cl'.got = cl.got /\ cl'.exit = "lost"
    BY <1>0, <1>2 DEF ClientGone, ClFields
  <2> QED
    BY <1>0, <1>1, <2>1 DEF SftpInv, SftpHolds
<1>3. CASE SftpWrite
  <2>1. scpJob.mode = "put" /\ cl.left \in 0 .. Len(Item(1).data) /\ SftpHolds(Overlay(cl.left))
        /\ (cl.exit = "ok" => cl.left = Len(Item(1).data))
    BY <1>0, <1>3 DEF SftpInv, SftpWrite
  <2>2. CASE cl.left = Len(Item(1).data) /\ cl'.left = cl.left /\ tree' = tree
    BY <1>0, <1>1, <2>1, <2>2 DEF SftpInv, SftpHolds
  <2>3. CASE cl'.left = cl.left /\ cl'.exit = "error" /\ tree' = tree
    BY <1>0, <1>1, <2>1, <2>3 DEF SftpInv, SftpHolds
  <2>4. CASE /\ cl.left # Len(Item(1).data)
             /\ tree' = Store(SftpFile, WriteAt(Old, cl.left, Item(1).data[cl.left + 1]))
             /\ cl'.left = cl.left + 1 /\ cl'.exit = cl.exit
    <3>1. PICK k \in Nat : k = cl.left
      BY <1>1, <2>1
    <3>2. tree' = Store(SftpFile, Overlay(k + 1))
      BY <2>1, <2>4, <3>1, HeldIsOld, OverlayNext, ScpAssumption
    <3>3. SftpHolds(Overlay(k + 1))'
      BY <1>1, <3>2, StoreHolds DEF SftpHolds, Store
    <3>4. cl'.left = k + 1 /\ k + 1 \in 0 .. Len(Item(1).data) /\ cl'.exit # "ok"
      BY <1>1, <2>1, <2>4, <3>1
    <3> QED
      BY <1>0, <1>1, <2>1, <3>3, <3>4 DEF SftpInv, SftpHolds
  <2> QED
    BY <1>0, <1>3, <2>2, <2>3, <2>4 DEF SftpWrite, ClFields
<1>4. CASE SftpRead
  <2>1. /\ scpJob.mode = "get" /\ SftpHolds(Item(1).data) /\ tree' = tree
        /\ cl.got \in Seq(STRING) /\ Len(cl.got) <= Len(Item(1).data)
        /\ \A j \in 1 .. Len(cl.got) : cl.got[j] = Item(1).data[j]
        /\ cl.exit = "ok" => Len(cl.got) = Len(Item(1).data)
    BY <1>0, <1>4 DEF SftpInv, SftpRead
  <2>2. Stored(SftpFile) # {} /\ Old = Item(1).data
    BY <2>1, HeldIsOld
  <2>3. Len(cl.got) \in Nat
    BY <2>1
  <2>4. CASE cl'.got = cl.got /\ cl'.exit = "ok" /\ Len(cl.got) >= Len(Item(1).data)
    <3>1. Len(cl'.got) = Len(Item(1).data)
      BY <1>1, <2>1, <2>3, <2>4
    <3> QED
      BY <1>0, <1>1, <2>1, <2>4, <3>1 DEF SftpInv, SftpHolds
  <2>5. CASE /\ ~(Len(cl.got) >= Len(Item(1).data)) /\ cl'.exit = cl.exit
             /\ cl'.got = Append(cl.got, Item(1).data[Len(cl.got) + 1])
    <3>1. Len(cl.got) + 1 \in 1 .. Len(Item(1).data)
      BY <1>1, <2>3, <2>5
    <3>2. Item(1).data[Len(cl.got) + 1] \in STRING
      BY <1>1, <3>1
    <3>3. /\ cl'.got \in Seq(STRING) /\ Len(cl'.got) = Len(cl.got) + 1
          /\ \A j \in 1 .. Len(cl.got) : cl'.got[j] = cl.got[j]
          /\ cl'.got[Len(cl.got) + 1] = Item(1).data[Len(cl.got) + 1]
      BY <2>1, <2>5, <3>2
    <3>4. cl'.exit # "ok"
      BY <1>1, <2>1, <2>3, <2>5
    <3>5. \A j \in 1 .. Len(cl'.got) : cl'.got[j] = Item(1).data[j]
      <4>1. \A j \in 1 .. Len(cl.got) + 1 : j \in 1 .. Len(cl.got) \/ j = Len(cl.got) + 1
        BY <2>3
      <4> QED
        BY <2>1, <3>3, <4>1
    <3>6. Len(cl'.got) <= Len(Item(1).data)
      BY <1>1, <3>1, <3>3
    <3> QED
      BY <1>0, <1>1, <2>1, <3>3, <3>4, <3>5, <3>6 DEF SftpInv, SftpHolds
  <2> QED
    BY <1>0, <1>4, <2>2, <2>4, <2>5 DEF SftpRead, ClFields
<1>5. CASE SftpReaddir
  BY <1>5 DEF SftpReaddir
<1> QED
  BY <1>2, <1>3, <1>4, <1>5, ScpModes, ScpFrame DEF Sftp

-----------------------------------------------------------------------------
(* A source.                                                               *)

\* Equal length and equal members.
LEMMA SameTokens ==
    ASSUME NEW S, NEW p \in Seq(S), NEW q \in Seq(S), Len(p) = Len(q),
           \A i \in 1 .. Len(q) : p[i] = q[i]
    PROVE  p = q
OBVIOUS

LEMMA OneToken ==
    /\ \A t : Len(<<t>>) = 1 /\ Head(<<t>>) = t /\ Tail(<<t>>) = <<>> /\ <<t>> # <<>>
    /\ \A t : Append(<<>>, t) = <<t>> /\ <<>> \o <<t>> = <<t>>
    /\ \A t, u : <<t, u>> # <<>> /\ Head(<<t, u>>) = t /\ Tail(<<t, u>>) = <<u>>
    /\ \A t, u : Append(<<t>>, u) = <<t, u>>
    /\ Zero # Tok("err") /\ Zero.k = "zero" /\ Tok("err").k = "err"
    /\ Zero \in DataToks /\ \A b : Blk(b).k = "blk" /\ Blk(b).b = b /\ Blk(b) # Zero
    /\ \A b \in STRING : Blk(b) \in DataToks
<1>1. \A t : Len(<<t>>) = 1 /\ Head(<<t>>) = t /\ Tail(<<t>>) = <<>> /\ <<t>> # <<>>
  OBVIOUS
<1>2. \A t : Append(<<>>, t) = <<t>> /\ <<>> \o <<t>> = <<t>>
  OBVIOUS
<1>3. \A t, u : <<t, u>> # <<>> /\ Head(<<t, u>>) = t /\ Tail(<<t, u>>) = <<u>>
  OBVIOUS
<1>4. ASSUME NEW t, NEW u PROVE Append(<<t>>, u) = <<t, u>>
  <2> DEFINE S == {t, u}
  <2>1. <<t>> \in Seq(S) /\ u \in S /\ Len(<<t>>) = 1
    OBVIOUS
  <2>2. <<t, u>> \in Seq(S) /\ Len(<<t, u>>) = 2 /\ <<t, u>>[1] = t /\ <<t, u>>[2] = u
    OBVIOUS
  <2>3. \A A : \A r \in Seq(A), x \in A :
            /\ Append(r, x) \in Seq(A) /\ Len(Append(r, x)) = Len(r) + 1
            /\ \A i \in 1 .. Len(r) : Append(r, x)[i] = r[i]
            /\ Append(r, x)[Len(r) + 1] = x
    OBVIOUS
  <2> HIDE DEF S
  <2>4. /\ Append(<<t>>, u) \in Seq(S) /\ Len(Append(<<t>>, u)) = 2
        /\ \A i \in 1 .. 1 : Append(<<t>>, u)[i] = <<t>>[i]
        /\ Append(<<t>>, u)[2] = u
    <3>1. 1 + 1 = 2
      OBVIOUS
    <3> QED
      BY <2>1, <2>3, <3>1
  <2>5. \A i \in 1 .. 2 : i = 1 \/ i = 2
    OBVIOUS
  <2>6. Append(<<t>>, u)[1] = t
    BY <2>4
  <2>7. \A i \in 1 .. 2 : Append(<<t>>, u)[i] = <<t, u>>[i]
    BY <2>2, <2>4, <2>5, <2>6
  <2> QED
    BY <2>2, <2>4, <2>7, SameTokens
<1>5. /\ Zero # Tok("err") /\ Zero.k = "zero" /\ Tok("err").k = "err" /\ Zero \in DataToks
      /\ \A b : Blk(b).k = "blk" /\ Blk(b).b = b /\ Blk(b) # Zero
      /\ \A b \in STRING : Blk(b) \in DataToks
  BY DEF Zero, Tok, Blk, DataToks
<1> QED
  BY <1>1, <1>2, <1>3, <1>4, <1>5

LEMMA TokSeqs ==
    /\ <<>> \in Seq(DataToks)
    /\ \A q \in Seq(DataToks) : Len(q) \in Nat
    /\ \A q \in Seq(DataToks) : q # <<>> =>
          /\ Len(q) >= 1 /\ Head(q) = q[1] /\ q[1] \in DataToks
          /\ Tail(q) \in Seq(DataToks) /\ Len(Tail(q)) = Len(q) - 1
          /\ \A i \in 1 .. Len(q) - 1 : Tail(q)[i] = q[i + 1]
    /\ \A q \in Seq(DataToks) : \A n \in 0 .. Len(q) :
          /\ SubSeq(q, 1, n) \in Seq(DataToks) /\ Len(SubSeq(q, 1, n)) = n
          /\ \A i \in 1 .. n : SubSeq(q, 1, n)[i] = q[i]
    /\ \A q \in Seq(DataToks) : <<>> \o q = q
OBVIOUS

\* The tokens of a file.
LEMMA FileTokens ==
    ASSUME NEW s \in Seq(STRING)
    PROVE  /\ Append(Blks(s), Zero) \in Seq(DataToks)
           /\ Len(Append(Blks(s), Zero)) = Len(s) + 1 /\ Len(s) \in Nat
           /\ \A i \in 1 .. Len(s) : Append(Blks(s), Zero)[i] = Blk(s[i])
           /\ Append(Blks(s), Zero)[Len(s) + 1] = Zero
           /\ s = <<>> => Append(Blks(s), Zero) = <<Zero>>
<1>1. Len(s) \in Nat /\ \A i \in 1 .. Len(s) : s[i] \in STRING
  OBVIOUS
<1>2. Blks(s) \in Seq(DataToks) /\ Len(Blks(s)) = Len(s)
      /\ \A i \in 1 .. Len(s) : Blks(s)[i] = Blk(s[i])
  <2>1. \A i \in 1 .. Len(s) : Blk(s[i]) \in DataToks
    BY <1>1, OneToken
  <2> DEFINE f == [i \in 1 .. Len(s) |-> Blk(s[i])]
  <2>2. f \in [1 .. Len(s) -> DataToks]
    BY <2>1
  <2>3. f \in Seq(DataToks) /\ Len(f) = Len(s)
    BY <1>1, <2>2
  <2> QED
    BY <2>3 DEF Blks
<1>3. \A S : \A r \in Seq(S), x \in S :
          /\ Append(r, x) \in Seq(S) /\ Len(Append(r, x)) = Len(r) + 1
          /\ \A i \in 1 .. Len(r) : Append(r, x)[i] = r[i]
          /\ Append(r, x)[Len(r) + 1] = x
  OBVIOUS
<1>4. Zero \in DataToks
  BY OneToken
<1>5. s = <<>> => Blks(s) = <<>>
  <2>1. s = <<>> => Len(Blks(s)) = 0
    BY <1>2
  <2> QED
    BY <1>2, <2>1
<1> DEFINE q == Append(Blks(s), Zero)
<1>6. q \in Seq(DataToks) /\ Len(q) = Len(s) + 1 /\ q[Len(s) + 1] = Zero
      /\ \A i \in 1 .. Len(s) : q[i] = Blks(s)[i]
  BY <1>2, <1>3, <1>4
<1>7. s = <<>> => q = <<Zero>>
  BY <1>5, OneToken
<1> HIDE DEF q
<1>8. \A i \in 1 .. Len(s) : q[i] = Blk(s[i])
  BY <1>2, <1>6
<1> QED
  BY <1>1, <1>6, <1>7, <1>8 DEF q

LEMMA SourceScenario ==
    scpJob \in ScpScenarios => \A D \in ScpDatas : D \in Seq(STRING) /\ Len(D) \in Nat
BY ScpScenario DEF ScpDatas, FileNos

\* What every step of the server leaves.
LEMMA SourceServer ==
    ASSUME ScpShape, SourceInv, Source, meddled' = "no", meddled = "no",
           scpJob' = scpJob, tree' = tree, cl' = cl,
           cl.at # "done" => SourceStep'
    PROVE  SourceInv'
<1>1. ScpDatas' = ScpDatas
  BY DEF ScpDatas, FileNos, Items, Item
<1> QED
  BY <1>1 DEF SourceInv, Source

LEMMA SourceFile ==
    ASSUME SourceInv, Source, meddled = "no", Stored(SourcePath) # {}
    PROVE  Content(SourcePath) \in ScpDatas
<1>1. \A f \in tree : f.data \in ScpDatas
  BY DEF SourceInv
<1>2. Content(SourcePath) \in Stored(SourcePath)
  BY DEF Content
<1> QED
  BY <1>1, <1>2 DEF Stored

LEMMA SourceTaskKeeps ==
    ASSUME ScpShape, SourceInv, Source, meddled = "no", meddled' = "no", scpJob' = scpJob,
           SourceStarts \/ SourceHeader \/ SourceData \/ SourceAcked \/ SourceFails
    PROVE  SourceInv'
<1>1. tree' = tree /\ cl' = cl
  BY DEF SourceStarts, SourceHeader, SourceData, SourceAcked, SourceFails
<1> SUFFICES ASSUME cl.at # "done" PROVE SourceStep'
  BY <1>1, SourceServer
<1>2. gone = FALSE /\ SourceStep /\ DOMAIN sv = SvFields /\ scpJob \in ScpScenarios
  BY DEF ScpShape, SourceInv
<1>3. \A p : Stored(p)' = Stored(p) /\ Content(p)' = Content(p)
  BY <1>1 DEF Stored, Content
<1>4. /\ sv.at = "start" /\ up # <<>> => AckComing
      /\ sv.at = "send" => Rest
      /\ sv.at = "read" /\ up # <<>> => FileAgreed
      /\ sv.at = "acked" /\ up # <<>> => AckComing
  BY <1>2 DEF SourceStep, Rest, Connected, AckComing, ErrComing, FileComing, MarkComing,
              FileAgreed, DataComing, EndComing
<1>5. CASE SourceStarts
  <2>1. AckComing
    BY <1>4, <1>5 DEF SourceStarts, Acked
  <2>2. sv'.at = "send" /\ up' = <<>> /\ down' = down
    BY <1>2, <1>5, <2>1, OneToken DEF SourceStarts, Acked, AckComing, SvFields
  <2>3. Rest'
    BY <1>1, <2>1, <2>2 DEF Rest, AckComing
  <2> QED
    BY <2>3 DEF SourceStep
<1>6. CASE SourceHeader
  <2>1. Rest
    BY <1>4, <1>6 DEF SourceHeader
  <2> DEFINE it == Item(sv.i)
             found == it.k # "C" \/ Stored(SourcePath) # {}
             n == IF it.k = "C" /\ found THEN Len(Content(SourcePath)) ELSE 0
             h == [k |-> it.k, name |-> it.name, n |-> n]
  <2>2. CASE it.k = "C" /\ found
    <3>1. sv' = [sv EXCEPT !.at = "read"] /\ down' = Append(down, h) /\ up' = up
      BY <1>2, <1>6, <2>2 DEF SourceHeader, Replies
    <3>2. sv'.at = "read" /\ sv'.i = sv.i /\ sv'.dir = sv.dir
      BY <1>2, <3>1 DEF SvFields
    <3>3. SourcePath' = SourcePath /\ Item(sv.i)' = Item(sv.i)
      BY <3>2 DEF SourcePath, Item
    <3>4. down' = <<[k |-> "C", name |-> Item(sv.i).name, n |-> Len(Content(SourcePath))]>>
      BY <2>1, <2>2, <3>1, OneToken DEF Rest
    <3>5. FileComing'
      BY <1>1, <1>3, <2>1, <2>2, <3>1, <3>2, <3>3, <3>4 DEF FileComing, Rest
    <3> QED
      BY <3>5 DEF SourceStep
  <2>3. CASE it.k # "C"
    <3>1. sv' = [sv EXCEPT !.at = "acked"] /\ down' = Append(down, h) /\ up' = up
      BY <1>2, <1>6, <2>3 DEF SourceHeader, Replies
    <3>2. sv'.at = "acked" /\ down' = <<h>> /\ h.k # "C"
      BY <1>2, <2>1, <2>3, <3>1, OneToken DEF SvFields, Rest
    <3>3. MarkComing'
      BY <1>1, <2>1, <3>1, <3>2 DEF MarkComing, Rest
    <3> QED
      BY <3>3 DEF SourceStep
  <2>4. CASE ~found /\ InWalk
    <3>1. sv' = NextItem /\ down' = down /\ up' = up
      BY <1>6, <2>4 DEF SourceHeader
    <3>2. sv'.at \in {"send", "over"}
      BY <1>2, <1>6, <3>1 DEF NextItem, ScpOver, SvFields, SourceHeader
    <3>3. Rest'
      BY <1>1, <2>1, <3>1, <3>2 DEF Rest
    <3> QED
      BY <3>3 DEF SourceStep
  <2>5. CASE ~found /\ ~InWalk
    <3>1. sv' = ScpOver(1) /\ down' = Append(down, Tok("err")) /\ up' = up
      BY <1>2, <1>6, <2>5 DEF SourceHeader, Replies
    <3>2. sv'.at = "over" /\ down' = <<Tok("err")>>
      BY <1>2, <2>1, <3>1, OneToken DEF SvFields, Rest, ScpOver
    <3>3. ErrComing'
      BY <1>1, <2>1, <3>1, <3>2 DEF ErrComing, Rest
    <3> QED
      BY <3>3 DEF SourceStep
  <2> QED
    BY <2>2, <2>3, <2>4, <2>5
<1>7. CASE SourceData
  <2>1. FileAgreed
    BY <1>4, <1>7 DEF SourceData, Acked
  <2> DEFINE D == Content(SourcePath)
  <2>2. D \in ScpDatas /\ D \in Seq(STRING) /\ Stored(SourcePath) # {} /\ Len(D) \in Nat
    BY <1>2, <2>1, SourceFile, SourceScenario DEF FileAgreed
  <2>3. sv' = [sv EXCEPT !.at = "acked"] /\ down' = down \o Append(Blks(D), Zero) /\ up' = Tail(up)
    BY <1>2, <1>7, <2>2 DEF SourceData, Acked
  <2> HIDE DEF D
  <2>4. sv'.at = "acked" /\ up' = <<>> /\ down' = Append(Blks(D), Zero)
    <3>1. <<>> \o Append(Blks(D), Zero) = Append(Blks(D), Zero)
      BY <2>2, FileTokens, TokSeqs
    <3> QED
      BY <1>2, <2>1, <2>3, <3>1, OneToken DEF SvFields, FileAgreed
  <2>5. cl.left = Len(D) /\ cl.got = <<>> /\ cl.at = IF cl.left = 0 THEN "status" ELSE "data"
    BY <2>1 DEF FileAgreed, D
  <2>6. CASE Len(D) = 0
    <3>1. D = <<>>
      BY <2>2, <2>6
    <3>2. down' = <<Zero>>
      BY <2>2, <2>4, <3>1, FileTokens
    <3>3. ScpDatas' = ScpDatas
      BY DEF ScpDatas, FileNos, Items, Item
    <3>4. EndComing'
      BY <1>1, <2>2, <2>4, <2>5, <2>6, <3>1, <3>2, <3>3 DEF EndComing
    <3> QED
      BY <3>4 DEF SourceStep
  <2>7. CASE Len(D) # 0
    <3>1. /\ down' \in Seq(DataToks) /\ Len(down') = Len(D) + 1
          /\ \A i \in 1 .. Len(D) : down'[i] = Blk(D[i])
          /\ down'[Len(D) + 1] = Zero
      BY <2>2, <2>4, FileTokens
    <3>2. cl'.got = <<>> /\ cl'.left = Len(D) /\ cl'.at = "data"
      BY <1>1, <2>5, <2>7
    <3>3. Receives(D)'
      <4>1. Len(cl'.got) = 0 /\ cl'.got \in Seq(STRING)
        BY <3>2
      <4>2. cl'.left \in Nat \ {0} /\ Len(cl'.got) + cl'.left = Len(D)
        BY <2>2, <2>7, <3>2, <4>1
      <4>3. \A j \in 1 .. cl'.left : down'[j] = Blk(D[Len(cl'.got) + j])
        BY <2>2, <3>1, <3>2, <4>1
      <4>4. \A j \in 1 .. Len(cl'.got) : cl'.got[j] = D[j]
        BY <4>1
      <4>5. D' = D
        BY <1>3, <2>3, <1>2 DEF D, SourcePath, Item, SvFields
      <4> QED
        BY <3>1, <3>2, <4>1, <4>2, <4>3, <4>4, <4>5 DEF Receives
    <3>4. ScpDatas' = ScpDatas
      BY DEF ScpDatas, FileNos, Items, Item
    <3>5. DataComing'
      <4>1. D' = D
        BY <1>3, <2>3, <1>2 DEF D, SourcePath, Item, SvFields
      <4> QED
        BY <2>2, <2>4, <3>2, <3>3, <3>4, <4>1 DEF DataComing
    <3> QED
      BY <3>5 DEF SourceStep
  <2> QED
    BY <2>6, <2>7
<1>8. CASE SourceAcked
  <2>1. AckComing
    BY <1>4, <1>8 DEF SourceAcked, Acked
  <2>2. sv'.at \in {"send", "over"} /\ up' = <<>> /\ down' = down
    BY <1>2, <1>8, <2>1, OneToken DEF SourceAcked, Acked, AckComing, SvFields, NextItem, ScpOver
  <2>3. Rest'
    BY <1>1, <2>1, <2>2 DEF Rest, AckComing
  <2> QED
    BY <2>3 DEF SourceStep
<1>9. CASE SourceFails
  BY <1>2, <1>9 DEF SourceFails
<1> QED
  BY <1>5, <1>6, <1>7, <1>8, <1>9

\* The client takes what is there.
LEMMA SourceTakes ==
    ASSUME ScpShape, SourceInv, Source, meddled = "no", scpJob' = scpJob, ClientSource, cl.at # "ack"
    PROVE  /\ tree' = tree /\ sv' = sv /\ DOMAIN cl = ClFields /\ scpJob \in ScpScenarios
           /\ down # <<>> /\ down' = Tail(down) /\ gone = FALSE
           /\ ErrComing \/ FileComing \/ MarkComing \/ DataComing \/ EndComing
<1>1. /\ tree' = tree /\ sv' = sv /\ cl.at # "done" /\ down # <<>> /\ down' = Tail(down)
  BY DEF ClientSource, ClTakes
<1>2. SourceStep /\ gone = FALSE /\ DOMAIN cl = ClFields /\ scpJob \in ScpScenarios
  BY <1>1 DEF SourceInv, ScpShape
<1> QED
  BY <1>1, <1>2 DEF SourceStep, Rest, Connected, AckComing, FileAgreed

LEMMA ClientSourceKeeps ==
    ASSUME ScpShape, SourceInv, Source, meddled = "no", meddled' = "no", scpJob' = scpJob, ClientSource
    PROVE  SourceInv'
<1>0. /\ \A f \in tree : f.data \in ScpDatas
      /\ \A f \in cl.saved : f.data \in ScpDatas
      /\ tree' = tree /\ sv' = sv /\ DOMAIN cl = ClFields
  BY DEF SourceInv, ScpShape, ClientSource
<1>a. ScpDatas' = ScpDatas /\ SourcePath' = SourcePath
      /\ (\A p : Stored(p)' = Stored(p) /\ Content(p)' = Content(p))
  BY <1>0 DEF ScpDatas, FileNos, Items, Item, SourcePath, Stored, Content
<1> SUFFICES ASSUME TRUE
             PROVE  /\ \A f \in cl'.saved : f.data \in ScpDatas
                    /\ cl'.at # "done" => SourceStep'
  BY <1>0, <1>a DEF SourceInv
<1>1. CASE cl.at = "ack"
  <2>1. Connected
    BY <1>1 DEF SourceInv, SourceStep, Rest, Connected, AckComing, ErrComing, FileComing, MarkComing,
                FileAgreed, DataComing, EndComing
  <2>2. up' = up \o <<Zero>> /\ cl' = [cl EXCEPT !.at = "line"] /\ down' = down
    BY <1>1 DEF ClientSource, ClSends
  <2>3. cl'.at = "line" /\ cl'.saved = cl.saved /\ up' = <<Zero>>
    BY <1>0, <2>1, <2>2, OneToken DEF ClFields, Connected
  <2>4. AckComing'
    BY <1>0, <2>1, <2>2, <2>3 DEF AckComing, Connected
  <2> QED
    BY <1>0, <2>3, <2>4 DEF SourceStep
<1> DEFINE t == Head(down)
           path == Append(cl.dir, t.name)
<1>2. ASSUME cl.at # "ack"
      PROVE  \/ /\ cl.at = "line" /\ t.k = "C" /\ up' = up \o <<Zero>>
                /\ cl' = [cl EXCEPT !.at = IF t.n = 0 THEN "status" ELSE "data",
                                    !.left = t.n, !.got = <<>>, !.path = path]
             \/ /\ cl.at = "line" /\ t.k \in {"D", "E"} /\ up' = up \o <<Zero>>
                /\ cl' = [cl EXCEPT !.dir = IF t.k = "D" THEN path ELSE Front1(@)]
             \/ /\ cl.at = "data" /\ up' = up
                /\ cl' = [cl EXCEPT !.left = @ - 1, !.at = IF cl.left = 1 THEN "status" ELSE @,
                                    !.got = Append(@, IF t.k = "blk" THEN t.b ELSE "junk")]
             \/ /\ cl.at = "status" /\ t = Zero /\ up' = up \o <<Zero>>
                /\ cl' = [cl EXCEPT !.at = "line",
                                    !.saved = @ \cup {[path |-> cl.path, data |-> cl.got]}]
             \/ cl' = [cl EXCEPT !.at = "done", !.exit = "error"]
  BY <1>2 DEF ClientSource, ClSends, ClFails
<1> HIDE DEF path
<1>3. ASSUME cl.at # "ack" PROVE /\ down # <<>> /\ down' = Tail(down)
                                 /\ ErrComing \/ FileComing \/ MarkComing \/ DataComing \/ EndComing
  BY <1>3, SourceTakes
<1>4. CASE /\ cl.at = "line" /\ t.k = "C" /\ up' = up \o <<Zero>>
           /\ cl' = [cl EXCEPT !.at = IF t.n = 0 THEN "status" ELSE "data",
                               !.left = t.n, !.got = <<>>, !.path = path]
  <2>1. FileComing
    BY <1>3, <1>4, OneToken DEF ErrComing, FileComing, MarkComing, DataComing, EndComing
  <2>2. t.n = Len(Content(SourcePath)) /\ down' = <<>> /\ up' = <<Zero>>
    BY <1>3, <1>4, <2>1, OneToken DEF FileComing
  <2>3. cl'.at = (IF t.n = 0 THEN "status" ELSE "data") /\ cl'.left = t.n /\ cl'.got = <<>>
        /\ cl'.saved = cl.saved
    BY <1>0, <1>4 DEF ClFields
  <2>4. FileAgreed'
    BY <1>0, <1>a, <2>1, <2>2, <2>3 DEF FileAgreed, FileComing
  <2> QED
    BY <1>0, <2>3, <2>4 DEF SourceStep
<1>5. CASE /\ cl.at = "line" /\ t.k \in {"D", "E"} /\ up' = up \o <<Zero>>
           /\ cl' = [cl EXCEPT !.dir = IF t.k = "D" THEN path ELSE Front1(@)]
  <2>1. MarkComing
    BY <1>3, <1>5, OneToken DEF ErrComing, FileComing, MarkComing, DataComing, EndComing
  <2>2. down' = <<>> /\ up' = <<Zero>> /\ cl'.at = "line" /\ cl'.saved = cl.saved
    BY <1>0, <1>3, <1>5, <2>1, OneToken DEF MarkComing, ClFields
  <2>3. AckComing'
    BY <1>0, <2>1, <2>2 DEF AckComing, MarkComing
  <2> QED
    BY <1>0, <2>2, <2>3 DEF SourceStep
<1>6. CASE /\ cl.at = "data" /\ up' = up
           /\ cl' = [cl EXCEPT !.left = @ - 1, !.at = IF cl.left = 1 THEN "status" ELSE @,
                               !.got = Append(@, IF t.k = "blk" THEN t.b ELSE "junk")]
  <2>1. DataComing
    BY <1>3, <1>6, OneToken DEF ErrComing, FileComing, MarkComing, DataComing, EndComing
  <2>2. PICK D \in ScpDatas : Receives(D)
    BY <2>1 DEF DataComing
  <2>3. D \in Seq(STRING) /\ Len(D) \in Nat
    BY <2>2, SourceScenario DEF ScpShape
  <2>4. PICK n, l \in Nat : n = Len(cl.got) /\ l = cl.left /\ l >= 1 /\ n + l = Len(D)
    <3>1. Len(cl.got) \in Nat /\ cl.left \in Nat /\ cl.left >= 1 /\ Len(cl.got) + cl.left = Len(D)
      BY <2>2 DEF Receives
    <3> QED
      BY <3>1
  <2>5. /\ cl.got \in Seq(STRING) /\ \A j \in 1 .. n : cl.got[j] = D[j]
        /\ down \in Seq(DataToks) /\ Len(down) = l + 1
        /\ \A j \in 1 .. l : down[j] = Blk(D[n + j])
        /\ down[l + 1] = Zero
    BY <2>2, <2>4 DEF Receives
  <2>6. 1 \in 1 .. l /\ n + 1 \in 1 .. Len(D) /\ n + 1 \in Nat
    BY <2>4
  <2>7. t = Blk(D[n + 1]) /\ t.k = "blk" /\ t.b = D[n + 1] /\ D[n + 1] \in STRING
    BY <1>3, <1>6, <2>3, <2>5, <2>6, TokSeqs, OneToken
  <2>8. cl'.left = l - 1 /\ cl'.at = (IF l = 1 THEN "status" ELSE "data") /\ cl'.saved = cl.saved
        /\ cl'.got = Append(cl.got, D[n + 1])
    BY <1>0, <1>6, <2>4, <2>7 DEF ClFields
  <2>9. /\ cl'.got \in Seq(STRING) /\ Len(cl'.got) = n + 1
        /\ \A j \in 1 .. n : cl'.got[j] = cl.got[j]
        /\ cl'.got[n + 1] = D[n + 1]
    <3>1. \A S : \A r \in Seq(S), x \in S :
              /\ Append(r, x) \in Seq(S) /\ Len(Append(r, x)) = Len(r) + 1
              /\ \A i \in 1 .. Len(r) : Append(r, x)[i] = r[i]
              /\ Append(r, x)[Len(r) + 1] = x
      OBVIOUS
    <3>2. PICK x : x = D[n + 1]
      OBVIOUS
    <3>3. x \in STRING /\ cl.got \in Seq(STRING) /\ Len(cl.got) = n /\ cl'.got = Append(cl.got, x)
      BY <2>4, <2>5, <2>7, <2>8, <3>2
    <3>4. /\ cl'.got \in Seq(STRING) /\ Len(cl'.got) = n + 1
          /\ \A i \in 1 .. n : cl'.got[i] = cl.got[i]
          /\ cl'.got[n + 1] = x
      BY <3>1, <3>3
    <3> QED
      BY <3>2, <3>4
  <2>10. \A j \in 1 .. n + 1 : cl'.got[j] = D[j]
    <3>1. \A j \in 1 .. n + 1 : j \in 1 .. n \/ j = n + 1
      OBVIOUS
    <3> QED
      BY <2>5, <2>9, <3>1
  <2>11. /\ down' \in Seq(DataToks) /\ Len(down') = l
         /\ \A j \in 1 .. l : down'[j] = down[j + 1]
    <3>1. (l + 1) - 1 = l
      OBVIOUS
    <3>2. down \in Seq(DataToks) /\ down # <<>> /\ down' = Tail(down)
      BY <1>3, <1>6, <2>5
    <3>3. /\ down' \in Seq(DataToks) /\ Len(down') = Len(down) - 1
          /\ \A j \in 1 .. Len(down) - 1 : down'[j] = down[j + 1]
      BY <3>2, TokSeqs
    <3>4. Len(down) - 1 = l
      BY <2>5, <3>1
    <3> QED
      BY <3>3, <3>4
  <2>12. sv'.at = "acked" /\ up' = <<>>
    BY <1>0, <1>6, <2>1 DEF DataComing
  <2>13. CASE l = 1
    <3>1. cl'.got = D
      <4>1. Len(cl'.got) = Len(D)
        BY <2>4, <2>9, <2>13
      <4>2. Len(D) = n + 1
        BY <2>4, <2>13
      <4> QED
        BY <2>3, <2>9, <2>10, <4>1, <4>2, SameTokens
    <3>2. down' = <<Zero>>
      <4>1. down'[1] = Zero /\ Len(down') = 1
        BY <2>5, <2>11, <2>13
      <4>2. \A q \in Seq(DataToks) : Len(q) = 1 => q = <<q[1]>>
        OBVIOUS
      <4> QED
        BY <2>11, <4>1, <4>2
    <3>3. EndComing'
      BY <1>a, <2>2, <2>8, <2>12, <2>13, <3>1, <3>2 DEF EndComing
    <3> QED
      BY <1>0, <2>8, <3>3 DEF SourceStep
  <2>14. CASE l # 1
    <3>1. l - 1 \in Nat \ {0} /\ (n + 1) + (l - 1) = Len(D) /\ l = (l - 1) + 1
      BY <2>4, <2>14
    <3>2. \A j \in 1 .. l - 1 : down'[j] = Blk(D[(n + 1) + j])
      <4>1. \A j \in 1 .. l - 1 : j \in 1 .. l /\ j + 1 \in 1 .. l /\ n + (j + 1) = (n + 1) + j
        OBVIOUS
      <4> QED
        BY <2>5, <2>11, <4>1
    <3>3. down'[l] = Zero
      <4>1. l \in 1 .. l
        BY <2>4
      <4> QED
        BY <2>5, <2>11, <4>1
    <3>4. Receives(D)'
      BY <2>8, <2>9, <2>10, <2>11, <3>1, <3>2, <3>3 DEF Receives
    <3>5. DataComing'
      BY <1>a, <2>2, <2>8, <2>12, <2>14, <3>4 DEF DataComing
    <3> QED
      BY <1>0, <2>8, <3>5 DEF SourceStep
  <2> QED
    BY <2>13, <2>14
<1>7. CASE /\ cl.at = "status" /\ t = Zero /\ up' = up \o <<Zero>>
           /\ cl' = [cl EXCEPT !.at = "line",
                               !.saved = @ \cup {[path |-> cl.path, data |-> cl.got]}]
  <2>1. EndComing
    BY <1>3, <1>7, OneToken DEF ErrComing, FileComing, MarkComing, DataComing, EndComing
  <2>2. cl'.at = "line" /\ cl'.saved = cl.saved \cup {[path |-> cl.path, data |-> cl.got]}
        /\ up' = <<Zero>> /\ down' = <<>>
    BY <1>0, <1>3, <1>7, <2>1, OneToken DEF ClFields, EndComing
  <2>3. \A f \in cl'.saved : f.data \in ScpDatas
    BY <1>0, <2>1, <2>2 DEF EndComing
  <2>4. AckComing'
    BY <1>0, <2>1, <2>2 DEF EndComing, AckComing
  <2> QED
    BY <2>3, <2>4 DEF SourceStep
<1>8. CASE cl' = [cl EXCEPT !.at = "done", !.exit = "error"]
  <2>1. cl'.at = "done" /\ cl'.saved = cl.saved
    BY <1>0, <1>8 DEF ClFields
  <2> QED
    BY <1>0, <2>1
<1> QED
  BY <1>1, <1>2, <1>4, <1>5, <1>6, <1>7, <1>8

LEMMA SourceKeeps == ScpShape /\ SourceInv /\ ScpNext => SourceInv'
<1> SUFFICES ASSUME ScpShape, SourceInv, ScpNext, meddled' = "no", Source PROVE SourceInv'
  BY ScpFrame DEF SourceInv, Source
<1>0. scpJob' = scpJob /\ meddled = "no" /\ ~Meddle
  BY ScpFrame
<1>1. CASE ClientSource
  BY <1>0, <1>1, ClientSourceKeeps
<1>2. CASE ClientEof \/ ClientGone
  <2>1. cl'.at = "done" /\ cl'.saved = cl.saved /\ tree' = tree
    BY <1>2 DEF ClientEof, ClientGone, ScpShape, ClFields
  <2>2. ScpDatas' = ScpDatas
    BY <1>0 DEF ScpDatas, FileNos, Items, Item
  <2> QED
    BY <1>0, <2>1, <2>2 DEF SourceInv
<1>3. CASE SourceStarts \/ SourceHeader \/ SourceData \/ SourceAcked \/ SourceFails
  BY <1>0, <1>3, SourceTaskKeeps
<1> QED
  BY <1>0, <1>1, <1>2, <1>3, ScpModes DEF Source

-----------------------------------------------------------------------------
(* A sink: the server.                                                     *)

LEMMA ScpConstant ==
    ASSUME scpJob' = scpJob
    PROVE  /\ Items' = Items /\ FileNos' = FileNos /\ SinkKept' = SinkKept
           /\ \A i : /\ Item(i)' = Item(i) /\ DirOf(i)' = DirOf(i) /\ FilePath(i)' = FilePath(i)
                     /\ SentFile(i)' = SentFile(i) /\ HeaderOf(i)' = HeaderOf(i)
BY DEF Items, FileNos, SinkKept, Item, DirOf, FilePath, SentFile, HeaderOf

\* What the server's steps leave alone, and what is left to show of each.
LEMMA SinkServer ==
    ASSUME SinkInv, SinkKept, scpJob' = scpJob, cl' = cl,
           DirsInv', SavedInv',
           Writing' => WritingInv', Pending' => PendingInv', sv'.at # "start",
           cl.at # "done" => SinkStep'
    PROVE  SinkInv'
<1>1. ClientInv'
  BY ScpConstant DEF SinkInv, ClientInv
<1> QED
  BY <1>1, ScpConstant DEF SinkInv

\* The saved files stay while the server writes another one.
LEMMA SavedStays ==
    ASSUME SavedInv, scpJob' = scpJob, cl' = cl, up' = up \/ up # <<>>, tree' = tree,
           sv.at \in {"line", "over"} => sv'.at \in {"line", "over"} \/ up # <<>>
    PROVE  SavedInv'
BY ScpConstant DEF SavedInv

LEMMA SavedKept ==
    ASSUME SavedInv, SinkKept, scpJob \in ScpScenarios, scpJob' = scpJob, cl' = cl,
           cl.i \in FileNos, sv.at \notin {"line", "over"}, NEW s, tree' = Store(FilePath(cl.i), s)
    PROVE  SavedInv'
<1> SUFFICES ASSUME NEW f \in cl.saved
             PROVE  /\ f \in tree'
                    /\ \E j \in FileNos : f = SentFile(j) /\ j < cl.i
  BY ScpConstant DEF SavedInv
<1>1. PICK j \in FileNos : f = SentFile(j) /\ j < cl.i
  BY DEF SavedInv
<1>2. j # cl.i
  BY <1>1, ScpScenario DEF FileNos
<1>3. FilePath(j) # FilePath(cl.i)
  BY <1>1, <1>2, SinkScenario DEF SinkKept
<1>4. f.path = FilePath(j) /\ f \in tree
  BY <1>1 DEF SentFile, SavedInv
<1> QED
  BY <1>1, <1>3, <1>4 DEF Store

LEMMA SinkStartsKeeps == ScpShape /\ SinkInv /\ SinkKept /\ SinkStarts => SinkInv'
<1> SUFFICES ASSUME ScpShape, SinkInv, SinkKept, SinkStarts PROVE SinkInv'
  OBVIOUS
<1>1. /\ sv.at = "start" /\ scpJob' = scpJob /\ dirs' = dirs /\ tree' = tree /\ up' = up /\ cl' = cl
      /\ up = <<>> /\ DirsInv /\ SavedInv /\ DOMAIN sv = SvFields
  BY DEF SinkStarts, SinkInv, ScpShape
<1>2. sv'.at \in {"line", "over"} /\ sv'.dir = sv.dir
  BY <1>1 DEF SinkStarts, ScpOver, SvFields
<1>3. DirsInv' /\ SavedInv' /\ ~Writing' /\ ~Pending' /\ sv'.at # "start"
  <2>1. SavedInv'
    BY <1>1, <1>2, SavedStays
  <2> QED
    BY <1>1, <1>2, <2>1 DEF DirsInv, Writing, Pending
<1>4. ASSUME cl.at # "done" PROVE SinkStep'
  <2>1. Greeting /\ gone = FALSE
    BY <1>1, <1>4 DEF ScpShape, SinkInv, SinkStep, Greeting, HeaderSent, FileOk, MarkOk, HeaderBad,
                      DataSent, FileDone, DataBad, Pending, Writing
  <2>2. sv' = [sv EXCEPT !.at = "line"] /\ down' = Append(down, Zero) /\ down = <<>>
    BY <1>1, <2>1 DEF SinkStarts, Replies, Greeting
  <2>3. sv'.at = "line" /\ down' = <<Zero>>
    BY <1>1, <2>2, OneToken DEF SvFields
  <2>4. AfterItems(0)'
    BY <1>1, <1>2, <2>1, ScpConstant DEF Greeting, AfterItems
  <2>5. Greeting'
    BY <1>1, <2>1, <2>3, <2>4 DEF Greeting
  <2> QED
    BY <2>5 DEF SinkStep
<1> QED
  BY <1>1, <1>3, <1>4, SinkServer

LEMMA SinkEofKeeps == ScpShape /\ SinkInv /\ SinkKept /\ SinkEof => SinkInv'
<1> SUFFICES ASSUME ScpShape, SinkInv, SinkKept, SinkEof PROVE SinkInv'
  OBVIOUS
<1>1. /\ sv.at = "line" /\ scpJob' = scpJob /\ dirs' = dirs /\ tree' = tree /\ up' = up /\ cl' = cl
      /\ up = <<>> /\ DirsInv /\ SavedInv /\ DOMAIN sv = SvFields /\ cl.at = "done"
  BY DEF SinkEof, SinkInv, ScpShape
<1>2. sv'.at = "over"
  BY <1>1 DEF SinkEof, ScpOver, SvFields
<1>3. SavedInv'
  BY <1>1, <1>2, SavedStays
<1>4. DirsInv' /\ ~Writing' /\ ~Pending' /\ sv'.at # "start"
  BY <1>1, <1>2 DEF DirsInv, Writing, Pending
<1> QED
  BY <1>1, <1>3, <1>4, SinkServer

\* The directory after each kind of item.
LEMMA MarkDirs ==
    ASSUME scpJob \in ScpScenarios, NEW i \in 1 .. Len(Items)
    PROVE  /\ i \in Nat \ {0} /\ DirOf(i) \in Paths /\ Item(i).name \in STRING
           /\ Item(i).k = "D" => DirOf(i + 1) = Append(DirOf(i), Item(i).name)
           /\ Item(i).k = "E" => DirOf(i + 1) = Front1(DirOf(i))
           /\ Item(i).k \in {"C", "T", "bad"} => DirOf(i + 1) = DirOf(i)
<1>1. i \in Nat \ {0} /\ i \in 1 .. Len(Items) + 1 /\ Len(Items) \in Nat
  BY ScpScenario
<1>2. DirOf(i + 1) = DirAfter(DirOf(i), Item(i))
  BY <1>1, DirSteps
<1> QED
  BY <1>1, <1>2, DirIsPath, ScpScenario DEF DirAfter

LEMMA SinkHeaderKeeps == ScpShape /\ SinkInv /\ SinkKept /\ SinkHeader => SinkInv'
<1> SUFFICES ASSUME ScpShape, SinkInv, SinkKept, SinkHeader PROVE SinkInv'
  OBVIOUS
<1> DEFINE i == cl.i
           it == Item(cl.i)
<1>1. /\ sv.at = "line" /\ up # <<>> /\ up' = Tail(up) /\ scpJob \in ScpScenarios
      /\ scpJob' = scpJob /\ tree' = tree /\ gone' = gone /\ cl' = cl /\ DOMAIN sv = SvFields
      /\ Pending /\ DirsInv /\ SavedInv /\ PendingInv /\ ClientInv /\ scpJob.mode = "sink"
  BY DEF SinkHeader, ReadsOne, Pending, SinkInv, ScpShape
<1>2. /\ up = <<HeaderOf(i)>> /\ i \in 1 .. Len(Items) /\ AfterItems(i - 1) /\ i \in Nat \ {0}
      /\ cl.at \in {"header", "done"} /\ cl.exit # "ok" /\ (i - 1) + 1 = i
  BY <1>1, ScpScenario DEF PendingInv, ClientInv
<1>3. Head(up) = HeaderOf(i) /\ up' = <<>>
  BY <1>1, <1>2, OneToken
<1>4. cl.at # "done" => HeaderSent /\ gone = FALSE
  BY <1>1 DEF ScpShape, SinkInv, SinkStep, Greeting, HeaderSent, FileOk, MarkOk, HeaderBad,
              DataSent, FileDone, DataBad, Pending, Writing
<1>5. /\ sv.dir = DirOf(i) /\ sv.dir \in Paths /\ it.name \in STRING
      /\ sv.dir \in dirs \/ (sv.dir = Top /\ \A d \in 1 .. i - 1 : Item(d).k # "D")
      /\ HeaderOf(i).k = it.k /\ HeaderOf(i).name = it.name /\ HeaderOf(i).n = Len(it.data)
  BY <1>1, <1>2, MarkDirs DEF AfterItems, HeaderOf
<1>6. SavedInv'
  <2>1. up # <<>>
    BY <1>1
  <2> QED
    BY <1>1, <2>1, SavedStays
<1> DEFINE sub == Append(sv.dir, it.name)
<1>7. \/ /\ it.k = "C" /\ dirs' = dirs /\ Replies(Zero)
         /\ sv' = [sv EXCEPT !.at = "create", !.path = file_path(it.name), !.left = Len(it.data)]
      \/ /\ it.k = "D" /\ sv' = [sv EXCEPT !.dir = sub] /\ Replies(Zero)
         /\ dirs' = dirs \cup {Front1(sub), sub}
      \/ it.k \in {"D", "bad"} /\ sv' = ScpOver(1) /\ Replies(Tok("err")) /\ dirs' = dirs
      \/ it.k = "E" /\ sv' = [sv EXCEPT !.dir = Front1(@)] /\ Replies(Zero) /\ dirs' = dirs
      \/ it.k = "T" /\ sv' = sv /\ dirs' = dirs /\ Replies(Zero)
  BY <1>3, <1>5 DEF SinkHeader
<1>8. /\ ClientInv /\ i \in 1 .. Len(Items)
      /\ cl.at # "done" => cl.at = "header" /\ down = <<>>
  BY <1>1, <1>2, <1>4 DEF HeaderSent
<1>9. cl.at # "done" => (Replies(Zero) => down' = <<Zero>>) /\ (Replies(Tok("err")) => down' = <<Tok("err")>>)
  BY <1>4, <1>8, OneToken DEF Replies
<1>10. CASE /\ it.k = "C" /\ dirs' = dirs /\ Replies(Zero)
            /\ sv' = [sv EXCEPT !.at = "create", !.path = file_path(it.name), !.left = Len(it.data)]
  <2>1. /\ sv'.at = "create" /\ sv'.path = file_path(it.name) /\ sv'.left = Len(it.data)
        /\ sv'.dir = sv.dir
    BY <1>1, <1>10 DEF SvFields
  <2>2. i \in FileNos
    BY <1>2, <1>10 DEF FileNos
  <2>3. sv.dir \in dirs
    <3>1. CASE scpJob.dir
      BY <1>1, <1>5, <3>1 DEF DirsInv
    <3>2. CASE ~scpJob.dir
      <4>1. PICK d \in 1 .. Len(Items) : d < i /\ Item(d).k = "D"
        BY <1>1, <2>2, <3>2, SinkScenario DEF SinkKept
      <4>2. d \in 1 .. i - 1
        BY <1>2, <4>1
      <4> QED
        BY <1>5, <4>1, <4>2
    <3> QED
      BY <3>1, <3>2
  <2>4. sv'.path = FilePath(i)
    BY <1>5, <2>1, <2>3 DEF file_path, FilePath
  <2>5. Len(it.data) \in Nat
    BY <1>1, <1>2, ScpScenario
  <2>6. WritingInv'
    <3>1. Len(up') = 0 /\ up' \in Seq(DataToks)
      BY <1>3
    <3>2. \A j \in 1 .. Len(up') : FALSE
      BY <3>1
    <3>3. sv'.left \in 0 .. Len(it.data)
      BY <2>1, <2>5
    <3>4. Len(up') <= sv'.left + 1
      BY <2>1, <2>5, <3>1
    <3> QED
      BY <1>1, <1>2, <2>1, <2>2, <2>4, <3>1, <3>2, <3>3, <3>4, ScpConstant DEF WritingInv
  <2>7. ~Pending' /\ sv'.at # "start" /\ DirsInv' /\ Writing'
    BY <1>1, <1>10, <2>1 DEF Pending, DirsInv, Writing
  <2>8. ASSUME cl.at # "done" PROVE SinkStep'
    <3>1. AfterItems(i)'
      <4>1. DirOf(i + 1) = DirOf(i)
        BY <1>1, <1>2, <1>10, MarkDirs
      <4> QED
        BY <1>1, <1>5, <1>10, <2>1, <2>3, <4>1, ScpConstant DEF AfterItems
    <3>2. down' = <<Zero>>
      BY <1>9, <1>10, <2>8
    <3>3. FileOk'
      BY <1>1, <1>3, <1>8, <2>1, <2>7, <2>8, <3>1, <3>2, ScpConstant DEF FileOk
    <3> QED
      BY <3>3 DEF SinkStep
  <2> QED
    BY <1>1, <1>6, <2>6, <2>7, <2>8, SinkServer
\* The other headers: the server is after the item, or it has given up.
<1>11. ASSUME sv'.at = "line", sv'.dir = DirOf(i + 1), it.k # "C", Replies(Zero), DirsInv',
              sv'.dir \in dirs' \/ (sv'.dir = Top /\ \A d \in 1 .. i : Item(d).k # "D")
       PROVE  SinkInv'
  <2>1. ~Pending' /\ sv'.at # "start" /\ ~Writing'
    BY <1>3, <1>11 DEF Pending, Writing
  <2>2. ASSUME cl.at # "done" PROVE SinkStep'
    <3>1. AfterItems(i)'
      BY <1>1, <1>11, ScpConstant DEF AfterItems
    <3>2. down' = <<Zero>>
      BY <1>9, <1>11, <2>2
    <3>3. MarkOk'
      BY <1>1, <1>3, <1>8, <1>11, <2>2, <3>1, <3>2, ScpConstant DEF MarkOk
    <3> QED
      BY <3>3 DEF SinkStep
  <2> QED
    BY <1>1, <1>6, <1>11, <2>1, <2>2, SinkServer
<1>12. CASE /\ it.k = "D" /\ sv' = [sv EXCEPT !.dir = sub] /\ Replies(Zero)
            /\ dirs' = dirs \cup {Front1(sub), sub}
  <2>1. sv'.at = "line" /\ sv'.dir = sub
    BY <1>1, <1>12 DEF SvFields
  <2>2. DirOf(i + 1) = sub /\ Front1(sub) = sv.dir
    BY <1>1, <1>2, <1>5, <1>12, MarkDirs, PathFacts
  <2>3. Front1(sv.dir) \in dirs
    BY <1>1, <1>5, PathFacts DEF DirsInv
  <2>4. DirsInv'
    BY <1>1, <1>12, <2>2, <2>3 DEF DirsInv
  <2> QED
    BY <1>11, <1>12, <2>1, <2>2, <2>4
<1>13. CASE it.k \in {"D", "bad"} /\ sv' = ScpOver(1) /\ Replies(Tok("err")) /\ dirs' = dirs
  <2>1. sv'.at = "over"
    BY <1>1, <1>13 DEF SvFields, ScpOver
  <2>2. ~Pending' /\ sv'.at # "start" /\ ~Writing' /\ DirsInv'
    BY <1>1, <1>13, <2>1 DEF Pending, Writing, DirsInv
  <2>3. ASSUME cl.at # "done" PROVE SinkStep'
    <3>1. HeaderBad'
      BY <1>1, <1>3, <1>8, <1>9, <1>13, <2>1, <2>3 DEF HeaderBad
    <3> QED
      BY <3>1 DEF SinkStep
  <2> QED
    BY <1>1, <1>6, <2>2, <2>3, SinkServer
<1>14. CASE it.k = "E" /\ sv' = [sv EXCEPT !.dir = Front1(@)] /\ Replies(Zero) /\ dirs' = dirs
  <2>1. sv'.at = "line" /\ sv'.dir = Front1(sv.dir)
    BY <1>1, <1>14 DEF SvFields
  <2>2. DirOf(i + 1) = Front1(sv.dir)
    BY <1>1, <1>2, <1>5, <1>14, MarkDirs
  <2>3. Front1(sv.dir) \in dirs
    BY <1>1, <1>5, PathFacts DEF DirsInv
  <2>4. DirsInv'
    BY <1>1, <1>14 DEF DirsInv
  <2> QED
    BY <1>11, <1>14, <2>1, <2>2, <2>3, <2>4
<1>15. CASE it.k = "T" /\ sv' = sv /\ dirs' = dirs /\ Replies(Zero)
  <2>1. sv'.at = "line" /\ sv'.dir = sv.dir
    BY <1>1, <1>15
  <2>2. DirOf(i + 1) = sv.dir
    BY <1>1, <1>2, <1>5, <1>15, MarkDirs
  <2>3. DirsInv'
    BY <1>1, <1>15 DEF DirsInv
  <2>4. (\A d \in 1 .. i - 1 : Item(d).k # "D") => \A d \in 1 .. i : Item(d).k # "D"
    <3>1. \A d \in 1 .. i : d \in 1 .. i - 1 \/ d = i
      BY <1>2
    <3> QED
      BY <1>15, <3>1
  <2> QED
    BY <1>5, <1>11, <1>15, <2>1, <2>2, <2>3, <2>4
<1> QED
  BY <1>7, <1>10, <1>12, <1>13, <1>14, <1>15

\* While a file is written the client waits for the header's answer or has sent the data.
LEMMA WritingStates ==
    ASSUME ScpShape, SinkInv, SinkKept, Writing
    PROVE  /\ scpJob \in ScpScenarios /\ WritingInv /\ DirsInv /\ SavedInv /\ DOMAIN sv = SvFields
           /\ cl.i \in FileNos /\ Item(cl.i).data \in Seq(STRING) /\ Len(Item(cl.i).data) \in Nat
           /\ sv.at \notin {"line", "over", "start"}
           /\ cl.at # "done" => gone = FALSE /\ (FileOk \/ DataSent)
<1>1. /\ scpJob \in ScpScenarios /\ WritingInv /\ DirsInv /\ SavedInv /\ DOMAIN sv = SvFields
      /\ cl.i \in FileNos /\ sv.at \notin {"line", "over", "start"}
  BY DEF ScpShape, SinkInv, WritingInv, Writing
<1>2. Item(cl.i).data \in Seq(STRING) /\ Len(Item(cl.i).data) \in Nat
  BY <1>1, ScpScenario DEF FileNos
<1>3. cl.at # "done" => gone = FALSE /\ (FileOk \/ DataSent)
  BY <1>1 DEF ScpShape, SinkInv, SinkStep, Greeting, HeaderSent, FileOk, MarkOk, HeaderBad,
              DataSent, FileDone, DataBad, Pending
<1> QED
  BY <1>1, <1>2, <1>3

\* The file that is stored is the one that is held.
LEMMA StoreIsHeld ==
    ASSUME scpJob' = scpJob, cl' = cl, NEW n,
           tree' = Store(FilePath(cl.i), SubSeq(Item(cl.i).data, 1, n))
    PROVE  Holds(n)'
<1> DEFINE p == FilePath(cl.i)
           s == SubSeq(Item(cl.i).data, 1, n)
<1>1. /\ [path |-> p, data |-> s] \in tree'
      /\ \A f \in tree' : f.path = p => f.data = s
  BY DEF Store
<1>2. p' = p /\ s' = s
  BY ScpConstant
<1> HIDE DEF p, s
<1>3. Holds(n)' <=> /\ [path |-> p', data |-> s'] \in tree'
                    /\ \A f \in tree' : f.path = p' => f.data = s'
  BY DEF Holds, p, s
<1> QED
  BY <1>1, <1>2, <1>3

LEMMA SinkCreatesKeeps == ScpShape /\ SinkInv /\ SinkKept /\ SinkCreates => SinkInv'
<1> SUFFICES ASSUME ScpShape, SinkInv, SinkKept, SinkCreates PROVE SinkInv'
  OBVIOUS
<1> DEFINE D == Item(cl.i).data
<1>1. /\ sv.at = "create" /\ Writing /\ scpJob' = scpJob /\ dirs' = dirs /\ up' = up /\ cl' = cl
      /\ gone' = gone
  BY DEF SinkCreates, Writing
<1>2. /\ scpJob \in ScpScenarios /\ WritingInv /\ DirsInv /\ SavedInv /\ DOMAIN sv = SvFields
      /\ cl.i \in FileNos /\ D \in Seq(STRING) /\ Len(D) \in Nat
      /\ sv.at \notin {"line", "over", "start"}
      /\ cl.at # "done" => gone = FALSE /\ (FileOk \/ DataSent)
  BY <1>1, WritingStates
<1>3. sv.path = FilePath(cl.i) /\ sv.left = Len(D)
  BY <1>1, <1>2 DEF WritingInv
<1>4. DirsInv'
  BY <1>1, <1>2 DEF DirsInv
<1>5. CASE /\ tree' = Store(sv.path, <<>>) /\ down' = down
           /\ sv' = [sv EXCEPT !.at = IF sv.left = 0 THEN "trail" ELSE "data"]
  <2>1. /\ sv'.at = (IF sv.left = 0 THEN "trail" ELSE "data") /\ sv'.path = sv.path
        /\ sv'.left = sv.left /\ sv'.dir = sv.dir
    BY <1>2, <1>5 DEF SvFields
  <2>2. SavedInv'
    BY <1>1, <1>2, <1>3, <1>5, SavedKept
  <2>3. Holds(0)'
    <3>1. SubSeq(D, 1, 0) = <<>>
      BY <1>2
    <3> QED
      BY <1>1, <1>3, <1>5, <3>1, StoreIsHeld
  <2>4. WritingInv'
    <3>1. Len(D) - sv.left = 0 /\ Len(D)' = Len(D)
      BY <1>1, <1>2, <1>3, ScpConstant
    <3>2. Holds(Len(D) - sv.left)'
      <4>1. (Len(D) - sv.left)' = 0
        BY <1>1, <2>1, <3>1, ScpConstant
      <4> QED
        BY <2>3, <4>1
    <3>3. sv.left = 0 \/ sv.left >= 1
      BY <1>2, <1>3
    <3> QED
      BY <1>1, <1>2, <2>1, <3>2, <3>3, ScpConstant DEF WritingInv
  <2>5. Writing' /\ ~Pending' /\ sv'.at # "start"
    BY <2>1 DEF Writing, Pending
  <2>6. ASSUME cl.at # "done" PROVE SinkStep'
    <3>1. FileOk => FileOk'
      BY <1>1, <1>5, <2>1, <2>5, ScpConstant DEF FileOk, AfterItems
    <3>2. DataSent => DataSent'
      BY <1>1, <1>5, <2>1, <2>5, ScpConstant DEF DataSent, AfterItems
    <3> QED
      BY <1>2, <2>6, <3>1, <3>2 DEF SinkStep
  <2> QED
    BY <1>1, <1>4, <2>2, <2>4, <2>5, <2>6, SinkServer
<1>6. CASE sv' = ScpOver(1) /\ Replies(Tok("err")) /\ tree' = tree
  <2>1. sv'.at = "over"
    BY <1>2, <1>6 DEF SvFields, ScpOver
  <2>2. SavedInv'
    BY <1>1, <1>2, <1>6, SavedStays
  <2>3. ~Writing' /\ ~Pending' /\ sv'.at # "start"
    BY <2>1 DEF Writing, Pending
  <2>4. ASSUME cl.at # "done" PROVE SinkStep'
    <3>1. down' = Append(down, Tok("err"))
      BY <1>2, <1>6, <2>4 DEF Replies
    <3>2. FileOk => HeaderBad'
      BY <1>1, <1>2, <2>1, <3>1, OneToken, ScpConstant DEF FileOk, HeaderBad
    <3>3. DataSent => DataBad'
      BY <1>1, <2>1, <3>1, OneToken DEF DataSent, DataBad
    <3> QED
      BY <1>2, <2>4, <3>2, <3>3 DEF SinkStep
  <2> QED
    BY <1>1, <1>4, <2>2, <2>3, <2>4, SinkServer
<1> QED
  BY <1>5, <1>6 DEF SinkCreates

\* One more block.
LEMMA NextBlock ==
    ASSUME NEW D \in Seq(STRING), NEW n \in Nat, n + 1 <= Len(D)
    PROVE  Append(SubSeq(D, 1, n), D[n + 1]) = SubSeq(D, 1, n + 1)
<1>1. \A A : \A r \in Seq(A), x \in A :
          /\ Append(r, x) \in Seq(A) /\ Len(Append(r, x)) = Len(r) + 1
          /\ \A i \in 1 .. Len(r) : Append(r, x)[i] = r[i]
          /\ Append(r, x)[Len(r) + 1] = x
  OBVIOUS
<1>2. Len(D) \in Nat /\ n \in 0 .. Len(D) /\ n + 1 \in 0 .. Len(D) /\ n + 1 \in 1 .. Len(D)
  OBVIOUS
<1>3. \A m \in 0 .. Len(D) :
         /\ SubSeq(D, 1, m) \in Seq(STRING) /\ Len(SubSeq(D, 1, m)) = m
         /\ \A i \in 1 .. m : SubSeq(D, 1, m)[i] = D[i]
  OBVIOUS
<1>4. D[n + 1] \in STRING
  BY <1>2
<1> DEFINE p == Append(SubSeq(D, 1, n), D[n + 1])
           q == SubSeq(D, 1, n + 1)
<1>5. /\ p \in Seq(STRING) /\ Len(p) = n + 1 /\ p[n + 1] = D[n + 1]
      /\ \A i \in 1 .. n : p[i] = D[i]
  BY <1>1, <1>2, <1>3, <1>4
<1>6. q \in Seq(STRING) /\ Len(q) = n + 1 /\ \A i \in 1 .. n + 1 : q[i] = D[i]
  BY <1>2, <1>3
<1> HIDE DEF p, q
<1>7. \A i \in 1 .. n + 1 : p[i] = q[i]
  <2>1. \A i \in 1 .. n + 1 : i \in 1 .. n \/ i = n + 1
    OBVIOUS
  <2> QED
    BY <1>5, <1>6, <2>1
<1>8. p = q
  BY <1>5, <1>6, <1>7, SameTokens
<1> QED
  BY <1>8 DEF p, q

LEMMA HeldIsContent ==
    ASSUME NEW n, Holds(n)
    PROVE  Content(FilePath(cl.i)) = SubSeq(Item(cl.i).data, 1, n)
<1>1. Stored(FilePath(cl.i)) = {SubSeq(Item(cl.i).data, 1, n)}
  BY DEF Holds, Stored
<1> QED
  BY <1>1 DEF Content

LEMMA SinkDataKeeps == ScpShape /\ SinkInv /\ SinkKept /\ SinkData => SinkInv'
<1> SUFFICES ASSUME ScpShape, SinkInv, SinkKept, SinkData PROVE SinkInv'
  OBVIOUS
<1> DEFINE D == Item(cl.i).data
<1>1. sv.at = "data" /\ Writing /\ scpJob' = scpJob /\ dirs' = dirs /\ cl' = cl /\ gone' = gone
  BY DEF SinkData, Writing
<1>2. /\ scpJob \in ScpScenarios /\ WritingInv /\ DirsInv /\ SavedInv /\ DOMAIN sv = SvFields
      /\ cl.i \in FileNos /\ D \in Seq(STRING) /\ Len(D) \in Nat
      /\ sv.at \notin {"line", "over", "start"}
      /\ cl.at # "done" => gone = FALSE /\ (FileOk \/ DataSent)
  BY <1>1, WritingStates
<1>3. DirsInv'
  BY <1>1, <1>2 DEF DirsInv
<1>4. CASE /\ up # <<>> /\ up' = Tail(up) /\ down' = down
           /\ tree' = Store(sv.path, Append(Content(sv.path), Head(up).b))
           /\ sv' = [sv EXCEPT !.left = @ - 1, !.at = IF sv.left = 1 THEN "trail" ELSE @]
  <2>1. PICK l, n \in Nat : l = sv.left /\ n = Len(D) - l /\ l >= 1 /\ n + l = Len(D)
    <3>1. sv.left \in Nat /\ sv.left >= 1 /\ Len(D) - sv.left \in Nat
          /\ (Len(D) - sv.left) + sv.left = Len(D)
      BY <1>1, <1>2 DEF WritingInv
    <3> QED
      BY <3>1
  <2>2. /\ sv.path = FilePath(cl.i) /\ cl.at \in {"header", "data", "done"} /\ cl.exit # "ok"
        /\ up \in Seq(DataToks) /\ Len(up) <= l + 1 /\ Holds(n)
        /\ \A j \in 1 .. Len(up) : up[j] = IF j <= l THEN Blk(D[n + j]) ELSE Zero
    <3>1. \A j \in Nat : Len(D) - l + j = n + j
      BY <1>2, <2>1
    <3> QED
      BY <1>1, <1>2, <2>1, <3>1 DEF WritingInv
  <2>3. PICK u \in Nat : u = Len(up) - 1 /\ Len(up) = u + 1
    BY <1>4, <2>2, TokSeqs
  <2>4. Head(up) = Blk(D[n + 1]) /\ Head(up).b = D[n + 1]
    <3>1. Head(up) = up[1] /\ 1 \in 1 .. Len(up) /\ 1 <= l
      BY <1>4, <2>1, <2>2, <2>3, TokSeqs
    <3> QED
      BY <2>2, <3>1, OneToken
  <2>5. /\ up' \in Seq(DataToks) /\ Len(up') = u
        /\ \A j \in 1 .. u : up'[j] = up[j + 1]
    BY <1>4, <2>2, <2>3, TokSeqs
  <2>6. n + 1 \in Nat /\ n + 1 <= Len(D) /\ u <= l /\ l - 1 \in Nat /\ u <= (l - 1) + 1
        /\ l - 1 \in 0 .. Len(D) /\ Len(D) - (l - 1) = n + 1
    BY <2>1, <2>2, <2>3
  <2>7. tree' = Store(FilePath(cl.i), SubSeq(D, 1, n + 1))
    <3>1. Content(FilePath(cl.i)) = SubSeq(D, 1, n)
      BY <2>2, HeldIsContent
    <3> QED
      BY <1>2, <1>4, <2>2, <2>4, <2>6, <3>1, NextBlock
  <2>8. Holds(n + 1)'
    BY <1>1, <2>7, StoreIsHeld
  <2>9. /\ sv'.at = (IF l = 1 THEN "trail" ELSE "data") /\ sv'.path = sv.path
        /\ sv'.left = l - 1 /\ sv'.dir = sv.dir
    BY <1>1, <1>2, <1>4, <2>1 DEF SvFields
  <2>10. SavedInv'
    BY <1>1, <1>2, <2>7, SavedKept
  <2>11. \A j \in 1 .. u : up'[j] = IF j <= l - 1 THEN Blk(D[(n + 1) + j]) ELSE Zero
    <3>1. \A j \in 1 .. u : /\ j + 1 \in 1 .. u + 1 /\ (j + 1 <= l <=> j <= l - 1)
                            /\ n + (j + 1) = (n + 1) + j
      OBVIOUS
    <3>2. \A j \in 1 .. u : up'[j] = IF j + 1 <= l THEN Blk(D[n + (j + 1)]) ELSE Zero
      BY <2>2, <2>3, <2>5, <3>1
    <3> QED
      BY <3>1, <3>2
  <2>12. WritingInv'
    <3>1. D' = D
      BY <1>1, ScpConstant
    <3>2. (Len(D) - sv.left)' = n + 1
      BY <2>6, <2>9, <3>1
    <3>3. \A j : (Len(D) - sv.left + j)' = (n + 1) + j
      BY <3>2
    <3>4. Holds(Len(D) - sv.left)'
      BY <2>8, <3>2
    <3>5. (l = 1 => l - 1 = 0) /\ (l # 1 => l - 1 >= 1)
      BY <2>1
    <3>6. /\ cl'.i \in FileNos' /\ sv'.path = FilePath(cl.i)' /\ sv'.left \in 0 .. Len(D)'
          /\ cl'.at \in {"header", "data", "done"} /\ cl'.exit # "ok"
          /\ up' \in Seq(DataToks) /\ Len(up') <= sv'.left + 1
      BY <1>1, <1>2, <2>2, <2>5, <2>6, <2>9, <3>1, ScpConstant
    <3>7. \A j \in 1 .. Len(up') :
              up'[j] = IF j <= sv'.left THEN Blk(D[(n + 1) + j]) ELSE Zero
      BY <2>5, <2>9, <2>11
    <3> QED
      BY <2>9, <3>1, <3>3, <3>4, <3>5, <3>6, <3>7 DEF WritingInv
  <2>13. Writing' /\ ~Pending' /\ sv'.at # "start"
    BY <2>9 DEF Writing, Pending
  <2>14. ASSUME cl.at # "done" PROVE SinkStep'
    <3>1. DataSent
      BY <1>2, <1>4, <2>14 DEF FileOk
    <3>2. Len(up') = sv'.left + 1
      BY <2>1, <2>3, <2>5, <2>9, <3>1 DEF DataSent
    <3>3. DataSent'
      BY <1>1, <1>4, <2>9, <2>13, <3>1, <3>2, ScpConstant DEF DataSent, AfterItems
    <3> QED
      BY <3>3 DEF SinkStep
  <2> QED
    BY <1>1, <1>3, <2>10, <2>12, <2>13, <2>14, SinkServer
<1>5. CASE up = <<>> /\ gone /\ sv' = ScpOver(1) /\ tree' = tree /\ up' = up
  <2>1. sv'.at = "over"
    BY <1>2, <1>5 DEF SvFields, ScpOver
  <2>2. SavedInv'
    BY <1>1, <1>2, <1>5, SavedStays
  <2>3. ~Writing' /\ ~Pending' /\ sv'.at # "start"
    BY <2>1 DEF Writing, Pending
  <2>4. cl.at = "done"
    BY <1>5 DEF ScpShape
  <2> QED
    BY <1>1, <1>3, <2>2, <2>3, <2>4, SinkServer
<1>6. CASE up # <<>> /\ up' = Tail(up) /\ sv' = ScpOver(1) /\ Replies(Tok("err")) /\ tree' = tree
  <2>1. sv'.at = "over"
    BY <1>2, <1>6 DEF SvFields, ScpOver
  <2>2. SavedInv'
    <3>1. up # <<>> /\ tree' = tree /\ sv.at \notin {"line", "over"}
      BY <1>2, <1>6
    <3> QED
      BY <1>1, <1>2, <3>1, SavedStays
  <2>3. ~Writing' /\ ~Pending' /\ sv'.at # "start"
    BY <2>1 DEF Writing, Pending
  <2>4. ASSUME cl.at # "done" PROVE SinkStep'
    <3>1. down' = Append(down, Tok("err")) /\ DataSent
      BY <1>2, <1>6, <2>4 DEF Replies, FileOk
    <3>2. DataBad'
      BY <1>1, <2>1, <3>1, OneToken DEF DataSent, DataBad
    <3> QED
      BY <3>2 DEF SinkStep
  <2> QED
    BY <1>1, <1>3, <2>2, <2>3, <2>4, SinkServer
<1> QED
  BY <1>4, <1>5, <1>6 DEF SinkData, ReadsOne

LEMMA SinkTrailKeeps == ScpShape /\ SinkInv /\ SinkKept /\ SinkTrail => SinkInv'
<1> SUFFICES ASSUME ScpShape, SinkInv, SinkKept, SinkTrail PROVE SinkInv'
  OBVIOUS
<1> DEFINE D == Item(cl.i).data
<1>1. /\ sv.at = "trail" /\ Writing /\ scpJob' = scpJob /\ dirs' = dirs /\ tree' = tree /\ cl' = cl
      /\ gone' = gone
  BY DEF SinkTrail, Writing
<1>2. /\ scpJob \in ScpScenarios /\ WritingInv /\ DirsInv /\ SavedInv /\ DOMAIN sv = SvFields
      /\ cl.i \in FileNos /\ D \in Seq(STRING) /\ Len(D) \in Nat
      /\ sv.at \notin {"line", "over", "start"}
      /\ cl.at # "done" => gone = FALSE /\ (FileOk \/ DataSent)
  BY <1>1, WritingStates
<1>3. DirsInv'
  BY <1>1, <1>2 DEF DirsInv
<1>4. sv.left = 0 /\ up \in Seq(DataToks) /\ Len(up) <= 1 /\ Holds(Len(D))
  BY <1>1, <1>2 DEF WritingInv
<1>5. up' = <<>>
  <2>1. CASE up # <<>> /\ up' = Tail(up)
    <3>2. Len(up) >= 1 /\ Len(up) \in Nat /\ Tail(up) \in Seq(DataToks)
          /\ Len(Tail(up)) = Len(up) - 1
      BY <1>4, <2>1, TokSeqs
    <3>1. Tail(up) \in Seq(DataToks) /\ Len(Tail(up)) = 0
      BY <1>4, <3>2
    <3> QED
      BY <2>1, <3>1
  <2> QED
    BY <2>1 DEF SinkTrail, ReadsOne
<1>6. sv'.at \in {"line", "over"} /\ sv'.dir = sv.dir
  BY <1>2 DEF SinkTrail, SvFields, ScpOver
<1>7. SavedInv'
  <2> SUFFICES ASSUME NEW f \in cl.saved
               PROVE  /\ f \in tree
                      /\ \E j \in FileNos : f = SentFile(j) /\ j < cl.i
    BY <1>1, ScpConstant DEF SavedInv
  <2> QED
    BY <1>2 DEF SavedInv
<1>8. ~Writing' /\ ~Pending' /\ sv'.at # "start"
  BY <1>5, <1>6 DEF Writing, Pending
<1>9. ASSUME cl.at # "done" PROVE SinkStep'
  <2>1. DataSent
    <3>1. ~(up = <<>> /\ gone)
      BY <1>2, <1>9
    <3>2. up # <<>>
      BY <3>1 DEF SinkTrail, ReadsOne
    <3> QED
      BY <1>2, <1>9, <3>2 DEF FileOk
  <2>2. sv' = [sv EXCEPT !.at = "line"] /\ down' = Append(down, Zero)
    BY <1>2, <1>9 DEF SinkTrail, Replies
  <2>3. sv'.at = "line" /\ down' = <<Zero>>
    BY <1>2, <2>1, <2>2, OneToken DEF DataSent, SvFields
  <2>4. SentFile(cl.i) \in tree
    <3>1. SubSeq(D, 1, Len(D)) = D
      BY <1>2
    <3> QED
      BY <1>4, <3>1 DEF Holds, SentFile
  <2>5. FileDone'
    BY <1>1, <1>2, <1>5, <1>6, <2>1, <2>3, <2>4, ScpConstant DEF FileDone, DataSent, AfterItems
  <2> QED
    BY <2>5 DEF SinkStep
<1> QED
  BY <1>1, <1>3, <1>7, <1>8, <1>9, SinkServer

-----------------------------------------------------------------------------
(* A sink: the client.                                                     *)

\* What a step of the client has to show.
LEMMA SinkClient ==
    ASSUME SinkInv, SinkKept, scpJob' = scpJob, dirs' = dirs, tree' = tree, sv' = sv,
           ClientInv', SavedInv', Writing => WritingInv', Pending' => PendingInv',
           sv.at = "start" => up' = <<>>,
           cl'.at # "done" => cl'.exit = "none" /\ SinkStep'
    PROVE  SinkInv'
<1>1. DirsInv' /\ (Writing' <=> Writing)
  BY DEF SinkInv, DirsInv, Writing
<1> QED
  BY <1>1 DEF SinkInv

\* While the client is there, nothing saved is the current item.
LEMMA SavedBefore ==
    ASSUME SavedInv, cl.at # "done"
    PROVE  \A f \in cl.saved : f \in tree /\ \E j \in FileNos : f = SentFile(j) /\ j < cl.i
BY DEF SavedInv

\* The client is gone; what it has sent arrives in part.
LEMMA ClientLeaves ==
    ASSUME ScpShape, SinkInv, SinkKept, scpJob' = scpJob, dirs' = dirs, tree' = tree, sv' = sv,
           cl.at # "done", cl'.at = "done", cl'.i = cl.i, cl'.dir = cl.dir, cl'.saved = cl.saved,
           cl'.exit # "ok", up' = up \/ \E n \in 0 .. Len(up) : up' = SubSeq(up, 1, n)
    PROVE  SinkInv'
<1>0. ClientInv /\ SavedInv /\ cl.exit = "none" /\ scpJob \in ScpScenarios
  BY DEF SinkInv, ScpShape
<1>1. ClientInv'
  BY <1>0, ScpConstant DEF ClientInv
<1>2. SavedInv'
  <2> SUFFICES ASSUME NEW f \in cl.saved
               PROVE  f \in tree /\ \E j \in FileNos : f = SentFile(j) /\ j < cl.i
    BY ScpConstant DEF SavedInv
  <2> QED
    BY <1>0, SavedBefore
<1>3. ASSUME Writing PROVE WritingInv'
  <2>1. WritingInv /\ up \in Seq(DataToks)
    BY <1>3 DEF SinkInv, WritingInv
  <2>2. PICK u \in Nat : u = Len(up)
    BY <2>1
  <2>3. PICK v \in 0 .. u : /\ up' \in Seq(DataToks) /\ Len(up') = v
                            /\ \A j \in 1 .. v : up'[j] = up[j]
    <3>1. CASE up' = up
      <4>1. u \in 0 .. u
        OBVIOUS
      <4> QED
        BY <2>1, <2>2, <3>1, <4>1
    <3>2. CASE \E n \in 0 .. Len(up) : up' = SubSeq(up, 1, n)
      BY <2>1, <2>2, <3>2, TokSeqs
    <3> QED
      BY <3>1, <3>2
  <2>4. PICK l \in Nat : l = sv.left
    <3>1. Len(Item(cl.i).data) \in Nat
      BY <1>0, <1>3, WritingStates
    <3> QED
      BY <2>1, <3>1 DEF WritingInv
  <2>5. u <= l + 1 /\ v <= l + 1 /\ \A j \in 1 .. v : j \in 1 .. u
    <3>1. u <= l + 1
      BY <2>1, <2>2, <2>4 DEF WritingInv
    <3> QED
      BY <3>1
  <2>6. \A j \in 1 .. Len(up') :
           up'[j] = IF j <= sv.left THEN Blk(Item(cl.i).data[Len(Item(cl.i).data) - sv.left + j]) ELSE Zero
    BY <2>1, <2>2, <2>3, <2>5 DEF WritingInv
  <2>7. /\ sv'.left = sv.left /\ sv'.at = sv.at /\ sv'.path = sv.path /\ cl'.i = cl.i
        /\ Item(cl.i)' = Item(cl.i) /\ FilePath(cl.i)' = FilePath(cl.i) /\ FileNos' = FileNos
    BY ScpConstant
  <2>8. \A m : Holds(m) => Holds(m)'
    BY <2>7 DEF Holds
  <2>9. sv.at # "create" => Holds(Len(Item(cl.i).data) - sv.left)'
    <3>1. sv.at # "create" => Holds(Len(Item(cl.i).data) - sv.left)
      BY <2>1 DEF WritingInv
    <3>2. PICK m : m = Len(Item(cl.i).data) - sv.left
      OBVIOUS
    <3>3. (Len(Item(cl.i).data) - sv.left)' = m
      BY <2>7, <3>2
    <3> QED
      BY <2>8, <3>1, <3>2, <3>3
  <2>10. up' \in Seq(DataToks) /\ Len(up') <= sv'.left + 1
    BY <2>3, <2>4, <2>5
  <2> QED
    BY <2>1, <2>6, <2>7, <2>9, <2>10 DEF WritingInv
<1>4. Pending' => PendingInv'
  <2> SUFFICES ASSUME Pending' PROVE PendingInv'
    OBVIOUS
  <2>1. sv.at = "line" /\ up' # <<>>
    BY DEF Pending
  <2>2. up # <<>>
    <3>1. Len(<<>>) = 0 /\ \A n \in 0 .. 0 : SubSeq(<<>>, 1, n) = <<>>
      OBVIOUS
    <3>2. up = <<>> => up' = <<>>
      BY <3>1
    <3> QED
      BY <2>1, <3>2
  <2>3. PendingInv
    BY <2>1, <2>2 DEF SinkInv, Pending
  <2>4. up' = up
    <3>1. up = <<HeaderOf(cl.i)>>
      BY <2>3 DEF PendingInv
    <3>2. ASSUME NEW h, NEW m \in 0 .. Len(<<h>>) PROVE SubSeq(<<h>>, 1, m) \in {<<>>, <<h>>}
      <4>1. m = 0 \/ m = 1
        BY OneToken
      <4>2. SubSeq(<<h>>, 1, 0) = <<>>
        OBVIOUS
      <4>3. SubSeq(<<h>>, 1, 1) = <<h>>
        <5>1. <<h>> \in Seq({h}) /\ Len(<<h>>) = 1 /\ 1 \in 0 .. 1
          OBVIOUS
        <5>2. SubSeq(<<h>>, 1, 1) \in Seq({h}) /\ Len(SubSeq(<<h>>, 1, 1)) = 1
              /\ \A i \in 1 .. 1 : SubSeq(<<h>>, 1, 1)[i] = <<h>>[i]
          BY <5>1
        <5> QED
          BY <5>1, <5>2, SameTokens
      <4> QED
        BY <4>1, <4>2, <4>3
    <3> QED
      BY <2>1, <3>1, <3>2
  <2> QED
    BY <2>3, <2>4, ScpConstant DEF PendingInv, AfterItems
<1>5. sv.at = "start" => up' = <<>>
  <2>1. ASSUME sv.at = "start" PROVE up' = <<>>
    <3>1. up = <<>>
      BY <2>1 DEF SinkInv
    <3>2. Len(<<>>) = 0 /\ \A n \in 0 .. 0 : SubSeq(<<>>, 1, n) = <<>>
      OBVIOUS
    <3> QED
      BY <3>1, <3>2
  <2> QED
    BY <2>1
<1> QED
  BY <1>1, <1>2, <1>3, <1>4, <1>5, SinkClient

\* An acknowledgement has come that is not for the header of a file.
LEMMA ItemOver ==
    ASSUME ScpShape, SinkInv, SinkKept, ClientSink, Head(down) = Zero,
           ~(cl.at = "header" /\ Item(cl.i).k = "C")
    PROVE  /\ sv.at = "line" /\ up = <<>> /\ NextNo \in Nat \ {0} /\ cl.i <= NextNo
           /\ AfterItems(NextNo - 1) /\ NextDir = DirOf(NextNo) /\ down' = <<>>
           /\ cl.at = "data" => NextNo = cl.i + 1
           /\ \A f \in NextSaved : /\ f \in tree
                                   /\ \E j \in FileNos : /\ f = SentFile(j)
                                                         /\ j < cl.i \/ (j = cl.i /\ cl.at = "data")
<1>1. /\ down # <<>> /\ down' = Tail(down) /\ cl.at \in {"first", "header", "data"} /\ cl.at # "done"
      /\ scpJob \in ScpScenarios /\ ClientInv /\ SavedInv /\ SinkStep
  BY ClientSinkIs DEF SinkInv, ScpShape
<1>2. Greeting \/ MarkOk \/ FileDone
  <2>1. ~HeaderSent /\ ~DataSent
    BY <1>1 DEF HeaderSent, DataSent
  <2>2. ~DataBad
    BY OneToken DEF DataBad
  <2>3. ~FileOk
    BY DEF FileOk, Writing, SinkInv, WritingInv, FileNos
  <2>4. ~HeaderBad
    BY OneToken DEF HeaderBad, FileNos
  <2> QED
    BY <1>1, <2>1, <2>2, <2>3, <2>4 DEF SinkStep
<1>3. down = <<Zero>> /\ sv.at = "line" /\ up = <<>> /\ down' = <<>>
  BY <1>1, <1>2, OneToken DEF Greeting, MarkOk, FileDone
<1>4. cl.i \in Nat \ {0} /\ cl.dir = DirOf(cl.i) /\ (cl.i + 1) - 1 = cl.i /\ 1 - 1 = 0
  BY <1>1 DEF ClientInv
<1>5. \A f \in cl.saved : f \in tree /\ \E j \in FileNos : f = SentFile(j) /\ j < cl.i
  BY <1>1, SavedBefore
<1>6. CASE Greeting
  <2>1. cl.at = "first" /\ cl.i = 1 /\ AfterItems(0)
    BY <1>6 DEF Greeting
  <2>2. NextNo = 1 /\ NextDir = cl.dir /\ NextSaved = cl.saved
    BY <2>1 DEF NextNo, NextDir, NextSaved
  <2> QED
    BY <1>3, <1>4, <1>5, <2>1, <2>2
<1>7. CASE MarkOk
  <2>1. cl.at = "header" /\ AfterItems(cl.i)
    BY <1>7 DEF MarkOk
  <2>2. NextNo = cl.i + 1 /\ NextDir = DirAfter(cl.dir, Item(cl.i)) /\ NextSaved = cl.saved
    BY <2>1 DEF NextNo, NextDir, NextSaved
  <2>3. NextDir = DirOf(NextNo)
    BY <1>4, <2>2, DirSteps
  <2>4. NextNo \in Nat \ {0} /\ cl.i <= NextNo /\ NextNo - 1 = cl.i
    BY <1>4, <2>2
  <2> QED
    BY <1>3, <1>5, <2>1, <2>2, <2>3, <2>4
<1>8. CASE FileDone
  <2>1. cl.at = "data" /\ AfterItems(cl.i) /\ cl.i \in FileNos /\ SentFile(cl.i) \in tree
    BY <1>8 DEF FileDone
  <2>2. NextNo = cl.i + 1 /\ NextDir = cl.dir /\ NextSaved = cl.saved \cup {SentFile(cl.i)}
    BY <1>4, <2>1 DEF NextNo, NextDir, NextSaved, SentFile, FilePath
  <2>3. NextDir = DirOf(NextNo)
    <3>1. cl.i \in 1 .. Len(Items) /\ Item(cl.i).k = "C"
      BY <2>1 DEF FileNos
    <3>2. DirOf(cl.i + 1) = DirOf(cl.i)
      BY <1>1, <3>1, MarkDirs
    <3> QED
      BY <1>4, <2>2, <3>2
  <2>4. NextNo \in Nat \ {0} /\ cl.i <= NextNo /\ NextNo - 1 = cl.i
    BY <1>4, <2>2
  <2>5. \A f \in NextSaved : /\ f \in tree
                             /\ \E j \in FileNos : /\ f = SentFile(j)
                                                   /\ j < cl.i \/ (j = cl.i /\ cl.at = "data")
    BY <1>5, <2>1, <2>2
  <2> QED
    BY <1>3, <2>1, <2>2, <2>3, <2>4, <2>5
<1> QED
  BY <1>2, <1>6, <1>7, <1>8

LEMMA ClientSinkKeeps == ScpShape /\ SinkInv /\ SinkKept /\ ClientSink => SinkInv'
<1> SUFFICES ASSUME ScpShape, SinkInv, SinkKept, ClientSink PROVE SinkInv'
  OBVIOUS
<1>1. /\ cl.at \in {"first", "header", "data"} /\ cl.at # "done" /\ down # <<>> /\ down' = Tail(down)
      /\ scpJob' = scpJob /\ dirs' = dirs /\ tree' = tree /\ sv' = sv
      /\ scpJob \in ScpScenarios /\ ClientInv /\ SavedInv /\ SinkStep /\ DOMAIN cl = ClFields
      /\ cl.exit = "none"
  BY ClientSinkIs DEF SinkInv, ScpShape
<1>2. CASE up' = up /\ cl' = [cl EXCEPT !.at = "done", !.exit = "error"]
  <2>1. /\ cl'.at = "done" /\ cl'.i = cl.i /\ cl'.dir = cl.dir /\ cl'.saved = cl.saved
        /\ cl'.exit # "ok"
    BY <1>1, <1>2 DEF ClFields
  <2> QED
    BY <1>1, <1>2, <2>1, ClientLeaves
<1>3. CASE /\ Head(down) = Zero /\ cl.at = "header" /\ Item(cl.i).k = "C"
           /\ up' = up \o Append(Blks(Item(cl.i).data), Zero)
           /\ cl' = [cl EXCEPT !.at = "data"]
  <2> DEFINE D == Item(cl.i).data
  <2>1. /\ cl'.at = "data" /\ cl'.i = cl.i /\ cl'.dir = cl.dir /\ cl'.saved = cl.saved
        /\ cl'.exit = cl.exit
    BY <1>1, <1>3 DEF ClFields
  <2>2. (FileOk \/ HeaderBad) /\ up = <<>>
    BY <1>1, <1>3 DEF SinkStep, Greeting, HeaderSent, FileOk, MarkOk, HeaderBad, DataSent, FileDone,
                      DataBad
  <2>3. cl.i \in FileNos /\ D \in Seq(STRING) /\ Len(D) \in Nat
    <3>1. cl.i \in 1 .. Len(Items)
      BY <1>1, <1>3, ScpScenario DEF ClientInv
    <3> QED
      BY <1>1, <1>3, <3>1, ScpScenario DEF FileNos
  <2>4. /\ up' \in Seq(DataToks) /\ Len(up') = Len(D) + 1
        /\ \A j \in 1 .. Len(D) : up'[j] = Blk(D[j])
        /\ up'[Len(D) + 1] = Zero
    <3>1. up' = Append(Blks(D), Zero)
      BY <1>3, <2>2, <2>3, FileTokens, TokSeqs
    <3> QED
      BY <2>3, <3>1, FileTokens
  <2>5. ClientInv'
    BY <1>1, <2>1, <2>3, <1>3, ScpConstant DEF ClientInv
  <2>6. SavedInv'
    <3> SUFFICES ASSUME NEW f \in cl.saved
                 PROVE  f \in tree /\ \E j \in FileNos : f = SentFile(j) /\ j < cl.i
      BY <1>1, <2>1, ScpConstant DEF SavedInv
    <3> QED
      BY <1>1, SavedBefore
  <2>7. CASE FileOk
    <3>1. Writing /\ sv.left = Len(D) /\ AfterItems(cl.i) /\ down = <<Zero>>
      BY <2>7 DEF FileOk
    <3>2. WritingInv
      BY <3>1 DEF SinkInv
    <3>3. WritingInv'
      <4>1. \A j \in 1 .. Len(D) + 1 :
               up'[j] = IF j <= Len(D) THEN Blk(D[Len(D) - Len(D) + j]) ELSE Zero
        <5>1. \A j \in 1 .. Len(D) + 1 : j \in 1 .. Len(D) \/ j = Len(D) + 1
          BY <2>3
        <5>2. \A j \in 1 .. Len(D) + 1 : Len(D) - Len(D) + j = j
          BY <2>3
        <5>3. ~(Len(D) + 1 <= Len(D)) /\ \A j \in 1 .. Len(D) : j <= Len(D)
          BY <2>3
        <5> QED
          BY <2>4, <5>1, <5>2, <5>3
      <4>2. /\ sv'.left = Len(D) /\ sv'.at = sv.at /\ sv'.path = sv.path /\ D' = D
            /\ Item(cl.i)' = Item(cl.i) /\ FilePath(cl.i)' = FilePath(cl.i) /\ FileNos' = FileNos
        BY <1>1, <2>1, <3>1, ScpConstant
      <4>3. Holds(Len(D) - sv.left) => Holds(Len(D) - sv.left)'
        BY <1>1, <2>1, <4>2 DEF Holds
      <4>4. Len(up') <= sv'.left + 1
        BY <2>3, <2>4, <4>2
      <4>5. \A j \in 1 .. Len(up') :
               up'[j] = IF j <= sv.left THEN Blk(D[Len(D) - sv.left + j]) ELSE Zero
        BY <2>4, <3>1, <4>1
      <4> QED
        BY <1>1, <2>1, <2>4, <3>2, <4>2, <4>3, <4>4, <4>5 DEF WritingInv
    <3>4. DataSent'
      <4>1. down' = <<>> /\ Len(up') = sv'.left + 1
        BY <1>1, <2>4, <3>1, OneToken
      <4> QED
        BY <1>1, <2>1, <3>1, <4>1, ScpConstant DEF DataSent, AfterItems, Writing
    <3>5. ~Pending' /\ sv.at # "start"
      BY <1>1, <3>1 DEF Pending, Writing
    <3> QED
      BY <1>1, <2>1, <2>5, <2>6, <3>3, <3>4, <3>5, SinkClient DEF SinkStep
  <2>8. CASE HeaderBad
    <3>1. sv.at = "over" /\ down = <<Zero, Tok("err")>>
      BY <1>3, <2>8, OneToken DEF HeaderBad
    <3>2. down' = <<Tok("err")>>
      BY <1>1, <3>1, OneToken
    <3>3. DataBad'
      BY <1>1, <2>1, <3>1, <3>2 DEF DataBad
    <3>4. ~Pending' /\ sv.at # "start" /\ ~Writing
      BY <1>1, <3>1 DEF Pending, Writing
    <3> QED
      BY <1>1, <2>1, <2>5, <2>6, <3>3, <3>4, SinkClient DEF SinkStep
  <2> QED
    BY <2>2, <2>7, <2>8
<1>4. ASSUME Head(down) = Zero, ~(cl.at = "header" /\ Item(cl.i).k = "C")
      PROVE  /\ sv.at = "line" /\ up = <<>> /\ NextNo \in Nat \ {0} /\ cl.i <= NextNo
             /\ AfterItems(NextNo - 1) /\ NextDir = DirOf(NextNo) /\ down' = <<>>
             /\ cl.at = "data" => NextNo = cl.i + 1
             /\ \A f \in NextSaved : /\ f \in tree
                                     /\ \E j \in FileNos :
                                           /\ f = SentFile(j)
                                           /\ j < cl.i \/ (j = cl.i /\ cl.at = "data")
  BY <1>4, ItemOver
<1>5. CASE /\ Head(down) = Zero /\ ~(cl.at = "header" /\ Item(cl.i).k = "C")
           /\ NextNo <= Len(Items) /\ up' = up \o <<HeaderOf(NextNo)>>
           /\ cl' = [cl EXCEPT !.at = "header", !.i = NextNo, !.dir = NextDir, !.saved = NextSaved]
  <2>1. /\ cl'.at = "header" /\ cl'.i = NextNo /\ cl'.dir = NextDir /\ cl'.saved = NextSaved
        /\ cl'.exit = cl.exit
    BY <1>1, <1>5 DEF ClFields
  <2>2. PICK m \in Nat \ {0} : m = NextNo
    BY <1>4, <1>5
  <2>3. up' = <<HeaderOf(m)>> /\ up' # <<>>
    BY <1>4, <1>5, <2>2, OneToken
  <2>4. ClientInv'
    BY <1>1, <1>4, <1>5, <2>1, <2>2, ScpConstant DEF ClientInv
  <2>5. SavedInv'
    <3> SUFFICES ASSUME NEW f \in NextSaved
                 PROVE  f \in tree /\ \E j \in FileNos : f = SentFile(j) /\ j < m
      BY <1>1, <2>1, <2>2, ScpConstant DEF SavedInv
    <3>1. PICK j \in FileNos : f = SentFile(j) /\ (j < cl.i \/ (j = cl.i /\ cl.at = "data"))
      BY <1>4, <1>5
    <3>2. j < m
      <4>1. j \in Nat /\ cl.i \in Nat
        BY <1>1, ScpScenario DEF FileNos, ClientInv
      <4>2. cl.i <= m /\ (cl.at = "data" => m = cl.i + 1)
        BY <1>4, <1>5, <2>2
      <4> QED
        BY <3>1, <4>1, <4>2
    <3> QED
      BY <1>4, <1>5, <3>1, <3>2
  <2>6. PendingInv'
    <3>1. AfterItems(m - 1)'
      <4>1. AfterItems(m - 1)
        BY <1>4, <1>5, <2>2
      <4> QED
        BY <1>1, <4>1, ScpConstant DEF AfterItems
    <3>2. m <= Len(Items)
      BY <1>5, <2>2
    <3>3. cl'.i = m /\ cl'.exit = "none"
      BY <1>1, <2>1, <2>2
    <3> QED
      BY <1>1, <2>1, <2>3, <3>1, <3>2, <3>3, ScpConstant DEF PendingInv
  <2>7. Pending' /\ sv.at # "start" /\ ~Writing
    BY <1>1, <1>4, <1>5, <2>3 DEF Pending, Writing
  <2>8. HeaderSent'
    BY <1>4, <1>5, <2>1, <2>7 DEF HeaderSent
  <2> QED
    BY <1>1, <2>1, <2>4, <2>5, <2>6, <2>7, <2>8, SinkClient DEF SinkStep
<1>6. CASE /\ Head(down) = Zero /\ ~(cl.at = "header" /\ Item(cl.i).k = "C")
           /\ up' = up
           /\ cl' = [cl EXCEPT !.at = "done", !.exit = "ok", !.saved = NextSaved]
  <2>1. /\ cl'.at = "done" /\ cl'.i = cl.i /\ cl'.dir = cl.dir /\ cl'.saved = NextSaved
    BY <1>1, <1>6 DEF ClFields
  <2>2. ClientInv'
    BY <1>1, <2>1, ScpConstant DEF ClientInv
  <2>3. sv'.at = "line" /\ up' = <<>>
    BY <1>1, <1>4, <1>6
  <2>4. SavedInv'
    BY <1>1, <1>4, <1>6, <2>1, <2>3, ScpConstant DEF SavedInv
  <2>5. ~Pending' /\ sv.at # "start" /\ ~Writing
    BY <1>1, <2>3 DEF Pending, Writing
  <2> QED
    BY <1>1, <2>1, <2>2, <2>4, <2>5, SinkClient
<1> QED
  BY <1>2, <1>3, <1>5, <1>6, ClientSinkIs

LEMMA SinkKeeps == ScpShape /\ SinkInv /\ ScpNext => SinkInv'
<1> SUFFICES ASSUME ScpShape, SinkInv, ScpNext, SinkKept PROVE SinkInv'
  BY ScpFrame, ScpConstant DEF SinkInv
<1>0. scpJob' = scpJob /\ scpJob.mode = "sink"
  BY ScpFrame DEF SinkKept
<1>1. CASE ClientGone
  <2>1. /\ cl.at # "done" /\ cl' = [cl EXCEPT !.at = "done", !.exit = "lost"]
        /\ dirs' = dirs /\ tree' = tree /\ sv' = sv /\ DOMAIN cl = ClFields
    BY <1>1 DEF ClientGone, ScpShape
  <2>2. /\ cl'.at = "done" /\ cl'.i = cl.i /\ cl'.dir = cl.dir /\ cl'.saved = cl.saved
        /\ cl'.exit # "ok"
    BY <2>1 DEF ClFields
  <2>3. \E n \in 0 .. Len(up) : up' = SubSeq(up, 1, n)
    BY <1>1 DEF ClientGone
  <2> QED
    BY <1>0, <2>1, <2>2, <2>3, ClientLeaves
<1>2. CASE ClientEof
  <2>1. /\ cl.at # "done" /\ cl' = [cl EXCEPT !.at = "done", !.exit = "error"]
        /\ dirs' = dirs /\ tree' = tree /\ sv' = sv /\ up' = up /\ DOMAIN cl = ClFields
        /\ sv.at = "over"
    BY <1>0, <1>2 DEF ClientEof, ScpShape, Source
  <2>2. /\ cl'.at = "done" /\ cl'.i = cl.i /\ cl'.dir = cl.dir /\ cl'.saved = cl.saved
        /\ cl'.exit # "ok"
    BY <2>1 DEF ClFields
  <2>3. ClientInv' /\ SavedInv' /\ ~Writing /\ ~Pending'
    <3>1. ClientInv'
      BY <1>0, <2>2, ScpConstant DEF SinkInv, ClientInv
    <3>2. SavedInv'
      <4> SUFFICES ASSUME NEW f \in cl.saved
                   PROVE  f \in tree /\ \E j \in FileNos : f = SentFile(j) /\ j < cl.i
        BY <1>0, <2>1, <2>2, ScpConstant DEF SavedInv
      <4> QED
        BY <2>1, SavedBefore DEF SinkInv
    <3> QED
      BY <2>1, <3>1, <3>2 DEF Writing, Pending
  <2> QED
    BY <1>0, <2>1, <2>2, <2>3, SinkClient
<1> QED
  BY <1>0, <1>1, <1>2, ScpModes, ClientSinkKeeps, SinkStartsKeeps, SinkEofKeeps, SinkHeaderKeeps,
     SinkCreatesKeeps, SinkDataKeeps, SinkTrailKeeps

-----------------------------------------------------------------------------
(* The initial states, the steps, and what the invariant says.             *)

LEMMA ScpStart == ScpInit => ScpInv
<1> SUFFICES ASSUME ScpInit PROVE ScpInv
  OBVIOUS
<1>1. /\ scpJob \in ScpScenarios /\ up = <<>> /\ down = <<>> /\ gone = FALSE /\ meddled = "no"
      /\ dirs = {<<>>} \cup (IF scpJob.dir THEN {Top} ELSE {})
      /\ tree = {[path |-> Append(Top, Item(i).name),
                  data |-> IF scpJob.mode \in {"source", "get"} THEN Item(i).data ELSE Stale]
                 : i \in {j \in DOMAIN scpJob.items : Item(j).k = "C" /\ scpJob.mode # "sink"}}
  BY DEF ScpInit
<1>2. /\ sv.at = "start" /\ sv.i = 1 /\ sv.dir = Top /\ DOMAIN sv = SvFields
  BY DEF ScpInit, SvFields
<1>3. /\ cl.at = (IF scpJob.mode = "none" THEN "done" ELSE IF Source THEN "ack" ELSE "first")
      /\ cl.i = 1 /\ cl.dir = Top /\ cl.left = 0 /\ cl.got = <<>> /\ cl.saved = {}
      /\ cl.exit = "none" /\ DOMAIN cl = ClFields
  BY DEF ScpInit, ClFields
<1>4. ScpShape
  BY <1>1, <1>2, <1>3 DEF ScpShape
<1>5. DOMAIN scpJob.items = 1 .. Len(Items)
  BY <1>1, ScpScenario DEF Items
<1>6. SourceInv
  <2> SUFFICES ASSUME Source PROVE SourceInv
    BY DEF SourceInv
  <2>1. \A f \in tree : f.data \in ScpDatas
    BY <1>1, <1>5 DEF Source, ScpDatas, FileNos
  <2>2. Connected
    BY <1>1, <1>2, <1>3 DEF Connected, Source
  <2> QED
    BY <1>3, <2>1, <2>2 DEF SourceInv, SourceStep
<1>7. SinkInv
  <2> SUFFICES ASSUME SinkKept PROVE SinkInv
    BY DEF SinkInv
  <2>1. ClientInv
    BY <1>3, DirSteps DEF ClientInv, SinkKept, Source
  <2>2. DirsInv
    <3>1. Front1(<<>>) = <<>> /\ Front1(Top) = <<>>
      BY PathFacts DEF Front1
    <3> QED
      BY <1>1, <3>1 DEF DirsInv
  <2>3. AfterItems(0)
    <3>1. 0 + 1 = 1 /\ \A d \in 1 .. 0 : FALSE
      OBVIOUS
    <3> QED
      BY <1>2, <3>1, DirSteps DEF AfterItems
  <2>4. Greeting
    BY <1>1, <1>2, <1>3, <2>3 DEF Greeting, SinkKept, Source
  <2> QED
    BY <1>1, <1>2, <1>3, <2>1, <2>2, <2>4 DEF SinkInv, SavedInv, Writing, Pending, SinkStep
<1>8. SftpInv
  <2>1. CASE scpJob.mode = "put"
    <3>1. DOMAIN scpJob.items = {1} /\ Item(1).k = "C" /\ Len(Item(1).data) \in Nat
      BY <1>1, <2>1, SftpScenario DEF Items
    <3>2. tree = {[path |-> SftpFile, data |-> Stale]}
      BY <1>1, <2>1, <3>1 DEF SftpFile
    <3>3. Overlay(0) = Stale
      <4>1. Stale \in Seq(STRING)
        BY ScpAssumption
      <4>2. PICK n \in Nat : n = Len(Stale)
        BY <4>1
      <4>3. (IF n > 0 THEN n ELSE 0) = n /\ \A i \in 1 .. n : ~(i <= 0)
        OBVIOUS
      <4>4. Overlay(0) = [i \in 1 .. n |-> Stale[i]]
        BY <4>2, <4>3 DEF Overlay
      <4> QED
        BY <4>1, <4>2, <4>4
    <3>4. SftpHolds(Overlay(0))
      BY <3>2, <3>3 DEF SftpHolds
    <3> QED
      BY <1>3, <2>1, <3>1, <3>4 DEF SftpInv
  <2>2. CASE scpJob.mode = "get"
    <3>1. DOMAIN scpJob.items = {1} /\ Item(1).k = "C" /\ Len(Item(1).data) \in Nat
      BY <1>1, <2>2, SftpScenario, ScpScenario DEF Items
    <3>2. tree = {[path |-> SftpFile, data |-> Item(1).data]}
      BY <1>1, <2>2, <3>1 DEF SftpFile
    <3>3. SftpHolds(Item(1).data)
      BY <3>2 DEF SftpHolds
    <3>4. Len(cl.got) = 0 /\ cl.got \in Seq(STRING)
      BY <1>3
    <3> QED
      BY <1>3, <2>2, <3>1, <3>3, <3>4 DEF SftpInv
  <2> QED
    BY <2>1, <2>2 DEF SftpInv
<1> QED
  BY <1>4, <1>6, <1>7, <1>8 DEF ScpInv

LEMMA ScpStepKeeps == ScpInv /\ [ScpNext]_scpVars => ScpInv'
<1> SUFFICES ASSUME ScpInv, [ScpNext]_scpVars PROVE ScpInv'
  OBVIOUS
<1>1. CASE ScpNext
  BY <1>1, ShapeKeeps, SourceKeeps, SinkKeeps, SftpKeeps DEF ScpInv
<1>2. CASE UNCHANGED scpVars
  <2>1. ScpShape' /\ SourceInv'
    BY <1>2 DEF scpVars, ScpInv, ScpShape, SourceInv, SourceStep, Source, Rest, Connected, AckComing,
                ErrComing, FileComing, MarkComing, FileAgreed, DataComing, EndComing, Receives,
                ScpDatas, FileNos, Items, Item, Stored, Content, SourcePath
  <2>2. SinkInv'
    <3>1. (SinkKept' <=> SinkKept) /\ (Writing' <=> Writing) /\ (Pending' <=> Pending)
      BY <1>2 DEF scpVars, SinkKept, Writing, Pending, Items, Item
    <3>2. (ClientInv' <=> ClientInv) /\ (DirsInv' <=> DirsInv) /\ (PendingInv' <=> PendingInv)
      BY <1>2 DEF scpVars, ClientInv, DirsInv, PendingInv, AfterItems, Items, Item, DirOf, HeaderOf
    <3>3. SavedInv' <=> SavedInv
      BY <1>2 DEF scpVars, SavedInv, FileNos, Items, Item, DirOf, FilePath, SentFile
    <3>4. WritingInv' <=> WritingInv
      BY <1>2 DEF scpVars, WritingInv, Holds, FileNos, Items, Item, DirOf, FilePath
    <3>5. SinkStep' <=> SinkStep
      BY <1>2 DEF scpVars, Writing, Pending, AfterItems, SinkStep, Greeting, HeaderSent, FileOk, MarkOk,
                  HeaderBad, DataSent, FileDone, DataBad, FileNos, Items, Item, DirOf, FilePath,
                  SentFile, HeaderOf
    <3>6. sv' = sv /\ up' = up /\ cl' = cl
      BY <1>2 DEF scpVars
    <3> QED
      BY <3>1, <3>2, <3>3, <3>4, <3>5, <3>6 DEF ScpInv, SinkInv
  <2>3. SftpInv'
    BY <1>2 DEF scpVars, ScpInv, SftpInv, SftpHolds, SftpFile, Overlay, Item
  <2> QED
    BY <2>1, <2>2, <2>3 DEF ScpInv
<1> QED
  BY <1>1, <1>2

LEMMA ScpIsTrue == ScpInv => ScpTold
<1> SUFFICES ASSUME ScpInv PROVE ScpTold
  OBVIOUS
<1>1. SinkTold
  BY DEF ScpInv, SinkTold, SinkInv, SinkKept, SavedInv, Items, Item
<1>2. SourceTold
  <2>1. scpJob \in ScpScenarios
    BY DEF ScpInv, ScpShape
  <2>2. DOMAIN scpJob.items = 1 .. Len(Items)
    BY <2>1, ScpScenario DEF Items
  <2> QED
    BY <2>2 DEF ScpInv, SourceTold, SourceInv, ScpDatas, FileNos
<1>3. SftpTold
  <2> SUFFICES ASSUME cl.exit = "ok", meddled = "no"
               PROVE  /\ scpJob.mode = "put" =>
                            Old = Item(1).data \o SubSeq(Stale, Len(Item(1).data) + 1, Len(Stale))
                      /\ scpJob.mode = "get" => cl.got = Item(1).data
    BY DEF SftpTold
  <2>0. scpJob \in ScpScenarios /\ SftpInv
    BY DEF ScpInv, ScpShape
  <2>1. CASE scpJob.mode = "put"
    <3> DEFINE D == Item(1).data
    <3>1. D \in Seq(STRING) /\ Stale \in Seq(STRING)
      BY <2>0, <2>1, SftpScenario, ScpAssumption
    <3>2. Old = Overlay(Len(D))
      BY <2>0, <2>1, HeldIsOld DEF SftpInv
    <3>3. PICK m, n \in Nat : m = Len(D) /\ n = Len(Stale)
      BY <3>1
    <3> DEFINE L == IF n > m THEN n ELSE m
               R == SubSeq(Stale, m + 1, n)
               W == D \o R
    <3>4. /\ R \in Seq(STRING) /\ Len(R) = L - m
          /\ \A i \in 1 .. L - m : R[i] = Stale[m + i]
      <4>1. CASE n > m
        <5>1. /\ R \in Seq(STRING) /\ Len(R) = n - m
              /\ \A i \in 1 .. n - m : R[i] = Stale[m + i]
          <6>1. m + 1 \in 1 .. Len(Stale) /\ n = Len(Stale)
            BY <3>3, <4>1
          <6>2. R = [i \in 1 .. n - m |-> Stale[m + i]]
            <7>1. n - (m + 1) + 1 = n - m /\ \A i \in 1 .. n - m : i + (m + 1) - 1 = m + i
              BY <3>3
            <7> QED
              BY <3>1, <6>1, <7>1
          <6>3. n - m \in Nat /\ \A i \in 1 .. n - m : m + i \in 1 .. n
            BY <3>3, <4>1
          <6>4. \A i \in 1 .. n - m : Stale[m + i] \in STRING
            BY <3>1, <6>1, <6>3
          <6> QED
            BY <6>2, <6>3, <6>4
        <5>2. L = n
          BY <4>1
        <5> QED
          BY <5>1, <5>2
      <4>2. CASE ~(n > m)
        <5>1. R = << >>
          <6>1. \A s \in Seq(STRING) : \A p, q \in Int : p > q => SubSeq(s, p, q) = << >>
            OBVIOUS
          <6>2. m + 1 \in Int /\ n \in Int /\ m + 1 > n
            BY <3>3, <4>2
          <6> QED
            BY <3>1, <6>1, <6>2
        <5>2. L - m = 0
          BY <3>3, <4>2
        <5> QED
          BY <5>1, <5>2
      <4> QED
        BY <4>1, <4>2
    <3> HIDE DEF R
    <3>5. L \in Nat /\ m + (L - m) = L /\ \A i \in 1 .. L : i <= m \/ (i - m \in 1 .. L - m /\ m + (i - m) = i)
      BY <3>3
    <3>6. /\ W \in Seq(STRING) /\ Len(W) = L
          /\ \A i \in 1 .. m : W[i] = D[i]
          /\ \A i \in 1 .. L - m : W[m + i] = R[i]
      <4>1. \A p, q \in Seq(STRING) : /\ p \o q \in Seq(STRING) /\ Len(p \o q) = Len(p) + Len(q)
                                      /\ \A i \in 1 .. Len(p) : (p \o q)[i] = p[i]
                                      /\ \A i \in 1 .. Len(q) : (p \o q)[Len(p) + i] = q[i]
        OBVIOUS
      <4> QED
        BY <3>1, <3>3, <3>4, <3>5, <4>1
    <3> HIDE DEF W
    <3>7. Overlay(m) = [i \in 1 .. L |-> IF i <= m THEN D[i] ELSE Stale[i]]
      BY <3>3 DEF Overlay
    <3>8. \A i \in 1 .. L : W[i] = IF i <= m THEN D[i] ELSE Stale[i]
      <4> SUFFICES ASSUME NEW i \in 1 .. L PROVE W[i] = IF i <= m THEN D[i] ELSE Stale[i]
        OBVIOUS
      <4>1. CASE i <= m
        BY <3>6, <4>1
      <4>2. CASE ~(i <= m)
        <5>0. i - m \in 1 .. L - m /\ m + (i - m) = i
          BY <3>5, <4>2
        <5> HIDE DEF L
        <5>k. PICK k \in 1 .. L - m : m + k = i
          BY <5>0
        <5>1. W[i] = Stale[i]
          <6>1. \A j \in 1 .. L - m : R[j] = Stale[m + j]
            BY <3>4, Zenon
          <6>2. \A j \in 1 .. L - m : W[m + j] = R[j]
            BY <3>6, Zenon
          <6>3. W[m + k] = R[k] /\ R[k] = Stale[m + k]
            BY <6>1, <6>2, Zenon
          <6> QED
            BY <6>3, <5>k
        <5> QED
          BY <4>2, <5>1
      <4> QED
        BY <4>1, <4>2
    <3>9. Overlay(m) = W
      <4>1. W = [i \in 1 .. L |-> W[i]]
        BY <3>6
      <4> QED
        BY <3>7, <3>8, <4>1
    <3> QED
      BY <2>1, <3>2, <3>3, <3>9 DEF W, R
  <2>2. CASE scpJob.mode = "get"
    <3>1. Item(1).data \in Seq(STRING)
      BY <2>0, <2>2, SftpScenario
    <3>2. /\ cl.got \in Seq(STRING) /\ Len(cl.got) = Len(Item(1).data)
          /\ \A j \in 1 .. Len(cl.got) : cl.got[j] = Item(1).data[j]
      BY <2>0, <2>2 DEF SftpInv
    <3>3. cl.got = Item(1).data
      BY <3>1, <3>2, SameTokens
    <3> QED
      BY <2>2, <3>3
  <2> QED
    BY <2>1, <2>2
<1> QED
  BY <1>1, <1>2, <1>3 DEF ScpTold

-----------------------------------------------------------------------------
(***************************************************************************)
(* The theorems.  The four channels share no state, so a behaviour of all  *)
(* of them is a behaviour of each.                                         *)
(***************************************************************************)

\* A command over a QUIC stream that reports success has happened: the pushed file is stored,
\* the pulled one complete, the command run; none is run twice, and none without its permission
\* or with a key the listener does not know.
THEOREM QuicAlwaysTold == QuicSpec => [](QuicTold /\ QuicRunsOnce)
  <1>. QED BY QuicStart, QuicStepKeeps, QuicIsTrue, PTL DEF QuicSpec

\* An exec, push or pull over SSH that reports success has done what it reports, with the
\* exceptions SshTold names, and a pull that fails has written no file: exec, push and pull of
\* ssh.rs, in whatever order data, eof and exit-status come.
THEOREM SshAlwaysTold == SshSpec => []SshTold
  <1>. QED BY SshStart, SshStepKeeps, SshIsTrue, PTL DEF SshSpec

\* What a copy over SCP or SFTP acknowledges is true: a file the sink acknowledged is on the
\* disk, whole and in its directory; what a client of the source keeps is what a file there
\* held, unless it was changed meanwhile; an SFTP put overlays what the file held and a get is
\* complete.
THEOREM ScpAlwaysTold == ScpSpec => []ScpTold
  <1>. QED BY ScpStart, ScpStepKeeps, ScpIsTrue, PTL DEF ScpSpec

\* No command channel reports a success it did not have: SSH, SCP, SFTP and QUIC beside the
\* spool and the tunnels, whose steps leave their state alone.
THEOREM ChannelsAlwaysTold == StreamsSpec => []ChannelsTold
  <1>1. StreamsInit => SshInit /\ ScpInit /\ QuicInit
    BY DEF StreamsInit
  <1>2. [StreamsNext]_streamsVars => [SshNext]_sshVars
    BY DEF StreamsNext, streamsVars
  <1>3. [StreamsNext]_streamsVars => [ScpNext]_scpVars
    BY DEF StreamsNext, streamsVars
  <1>4. [StreamsNext]_streamsVars => [QuicNext]_quicVars
    BY DEF StreamsNext, streamsVars
  <1>5. StreamsSpec => []SshTold
    BY <1>1, <1>2, SshStart, SshStepKeeps, SshIsTrue, PTL DEF StreamsSpec
  <1>6. StreamsSpec => []ScpTold
    BY <1>1, <1>3, ScpStart, ScpStepKeeps, ScpIsTrue, PTL DEF StreamsSpec
  <1>7. StreamsSpec => [](QuicTold /\ QuicRunsOnce)
    BY <1>1, <1>4, QuicStart, QuicStepKeeps, QuicIsTrue, PTL DEF StreamsSpec
  <1>8. SshTold /\ ScpTold /\ QuicTold /\ QuicRunsOnce => ChannelsTold
    BY DEF ChannelsTold
  <1>. QED BY <1>5, <1>6, <1>7, <1>8, PTL

=============================================================================
