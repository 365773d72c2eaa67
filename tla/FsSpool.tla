------------------------------- MODULE FsSpool -------------------------------
(***************************************************************************)
(* The shared-filesystem transport: a session directory with one numbered   *)
(* sequence of chunk files and one sentinel per direction (FsStream), and   *)
(* the listeners that pick sessions up by their marker files.               *)
(*                                                                         *)
(* Each peer has its own view of the directory: in a synchronised directory *)
(* files appear at the other peer later, whole, in any order; on one        *)
(* filesystem they appear at once, which is one of those orders.  The       *)
(* listeners share one filesystem.                                          *)
(* A byte is the number the writer gave it.                                 *)
(***************************************************************************)
EXTENDS Integers, Sequences, FiniteSets

CONSTANTS
    Listeners,      \* servers that watch the spool
    MaxBytes,       \* bound: bytes written, per direction
    MaxChunkLen,    \* bound: bytes of one write
    MaxIoErrors,    \* bound: file operations that fail
    Radix           \* of the number in a sentinel: ten

ASSUME SpoolAssumption ==
    /\ IsFiniteSet(Listeners)
    /\ Radix \in Nat \ {0, 1}
    /\ MaxChunkLen \in Nat /\ MaxIoErrors \in Nat

VARIABLES
    wr,         \* FsStream, write side, per direction
    rd,         \* FsStream, read side, per direction
    there,      \* per direction: chunk files in the writer's view, as <<seq, bytes>>
    here,       \* per direction: those in the reader's view
    sentinel,   \* per direction: the sentinel in the writer's and the reader's view
    marks,      \* marker files of the session
    lis,        \* listeners
    ioErrors    \* operations that have failed

spoolVars == <<wr, rd, there, here, sentinel, marks, lis, ioErrors>>

\* Role: the client sends on c2s, the server on s2c; each receives on the other.
Dirs == {"c2s", "s2c"}

\* The content of a sentinel: absent, created and still empty, or the last sequence number,
\* of which at first only some of the leading digits may be there.
NoSentinel == -2
EmptySentinel == -1
Leading(n) == {p \in 1 .. n : p < n /\ \E k \in 1 .. n : p = n \div (Radix ^ k)}

Opened == [seq |-> 1, acc |-> <<>>, fut |-> <<>>, shut |-> "no", at |-> "open"]
OpenedRd == [seq |-> 1, eof |-> FALSE, buf |-> <<>>, got |-> <<>>, at |-> "look", final |-> NoSentinel]

SpoolInit ==
    /\ \E at \in {"unopened", "unused"} :      \* the client uses the spool, or another transport
          wr = [d \in Dirs |-> [Opened EXCEPT !.at = IF d = "c2s" THEN at ELSE "unopened"]]
    /\ rd = [d \in Dirs |-> [OpenedRd EXCEPT !.at = "unopened"]]
    /\ there = [d \in Dirs |-> {}] /\ here = [d \in Dirs |-> {}]
    /\ sentinel = [d \in Dirs |-> [w |-> NoSentinel, r |-> NoSentinel]]
    /\ marks = {} /\ ioErrors = 0
    /\ lis = [l \in Listeners |-> [at |-> "scan", seen |-> FALSE]]

-----------------------------------------------------------------------------
(* The session: connect_via_filesystem, run_fs_listener. *)

\* FsStream::open for the client, after ensure_session_dirs.
ClientOpens ==
    /\ wr["c2s"].at = "unopened"
    /\ wr' = [wr EXCEPT !["c2s"] = Opened] /\ rd' = [rd EXCEPT !["s2c"] = OpenedRd]
    /\ UNCHANGED <<there, here, sentinel, marks, lis, ioErrors>>

\* The marker is written under another name and renamed when the layout is complete.
PublishReady ==
    /\ wr["c2s"].at \notin {"unopened", "unused"} /\ "ready" \notin marks
    /\ marks' = marks \cup {"ready"}
    /\ UNCHANGED <<wr, rd, there, here, sentinel, lis, ioErrors>>

\* scan_ready_sessions, and the test of seen: a session is tried once per listener.
ScanReady(l) ==
    /\ lis[l] = [at |-> "scan", seen |-> FALSE]
    /\ "ready" \in marks /\ "claimed" \notin marks
    /\ lis' = [lis EXCEPT ![l] = [at |-> "claim", seen |-> TRUE]]
    /\ UNCHANGED <<wr, rd, there, here, sentinel, marks, ioErrors>>

\* claim_session, create_new, and handle_fs_session.
Claim(l) ==
    /\ lis[l].at = "claim"
    /\ lis' = [lis EXCEPT ![l].at = IF "claimed" \in marks THEN "scan" ELSE "serves"]
    /\ marks' = marks \cup {"claimed"}
    /\ IF "claimed" \in marks
       THEN UNCHANGED <<wr, rd>>
       ELSE wr' = [wr EXCEPT !["s2c"] = Opened] /\ rd' = [rd EXCEPT !["c2s"] = OpenedRd]
    /\ UNCHANGED <<there, here, sentinel, ioErrors>>

\* The marker exists but could not be written: the session is claimed and nobody serves it.
ClaimFails(l) ==
    /\ lis[l].at = "claim" /\ "claimed" \notin marks /\ ioErrors < MaxIoErrors
    /\ ioErrors' = ioErrors + 1
    /\ marks' = marks \cup {"claimed"} /\ lis' = [lis EXCEPT ![l].at = "scan"]
    /\ UNCHANGED <<wr, rd, there, here, sentinel>>

-----------------------------------------------------------------------------
(* The write side. *)

Bytes(n, k) == [i \in 1 .. k |-> n + i]

\* write_chunk_fut: the chunk is written under a temporary name, then renamed.
ChunkLands(d) ==
    /\ wr[d].fut # <<>>
    /\ there' = [there EXCEPT ![d] = @ \cup {wr[d].fut}]
    /\ wr' = [wr EXCEPT ![d].fut = <<>>]
    /\ UNCHANGED <<here, rd, sentinel, marks, lis, ioErrors>>

\* An error comes out of the next write, flush or shutdown; TLS is broken by it and the
\* stream is dropped, without a sentinel.
ChunkFails(d) ==
    /\ wr[d].fut # <<>> /\ ioErrors < MaxIoErrors
    /\ ioErrors' = ioErrors + 1
    /\ wr' = [wr EXCEPT ![d].fut = <<>>, ![d].at = "failed"]
    /\ UNCHANGED <<rd, there, here, sentinel, marks, lis>>

\* poll_write: a pending chunk is finished first; then the bytes are accepted with the
\* next sequence number.
poll_write(d, k) ==
    /\ wr[d].at = "open" /\ wr[d].shut = "no" /\ wr[d].fut = <<>>
    /\ Len(wr[d].acc) + k <= MaxBytes[d]
    /\ LET data == Bytes(Len(wr[d].acc), k)
       IN  wr' = [wr EXCEPT ![d].seq = @ + 1, ![d].acc = @ \o data,
                            ![d].fut = <<wr[d].seq, data>>]
    /\ UNCHANGED <<rd, there, here, sentinel, marks, lis, ioErrors>>

SentinelIs(d, n) == sentinel' = [sentinel EXCEPT ![d].w = n]

\* poll_shutdown: after the pending chunk, signal_eof_fut creates the sentinel ...
poll_shutdown(d) ==
    /\ wr[d].at = "open" /\ wr[d].shut = "no" /\ wr[d].fut = <<>>
    /\ wr' = [wr EXCEPT ![d].shut = "writing"]
    /\ SentinelIs(d, EmptySentinel)
    /\ UNCHANGED <<rd, there, here, marks, lis, ioErrors>>
\* ... and writes the last sequence number into it, perhaps not all of it at once.
SentinelGrows(d) ==
    /\ wr[d].at = "open" /\ wr[d].shut = "writing"
    /\ \E p \in Leading(wr[d].seq - 1) : p > sentinel[d].w /\ SentinelIs(d, p)
    /\ UNCHANGED <<wr, rd, there, here, marks, lis, ioErrors>>
SentinelWritten(d) ==
    /\ wr[d].at = "open" /\ wr[d].shut = "writing"
    /\ wr' = [wr EXCEPT ![d].shut = "done"]
    /\ SentinelIs(d, wr[d].seq - 1)
    /\ UNCHANGED <<rd, there, here, marks, lis, ioErrors>>

\* The process ends: the stream is dropped where it is.
WriterDies(d) ==
    /\ wr[d].at = "open" /\ wr[d].shut # "done" /\ ioErrors < MaxIoErrors
    /\ ioErrors' = ioErrors + 1
    /\ wr' = [wr EXCEPT ![d].at = "failed", ![d].fut = <<>>]
    /\ UNCHANGED <<rd, there, here, sentinel, marks, lis>>

\* A synchronised directory shows the reader a chunk or the sentinel, whichever is first.
ChunkSyncs(d) ==
    /\ \E f \in {g \in there[d] : g[1] >= rd[d].seq} \ here[d] : here' = [here EXCEPT ![d] = @ \cup {f}]
    /\ UNCHANGED <<wr, rd, there, sentinel, marks, lis, ioErrors>>
SentinelSyncs(d) ==
    /\ sentinel[d].w # sentinel[d].r
    /\ sentinel' = [sentinel EXCEPT ![d].r = sentinel[d].w]
    /\ UNCHANGED <<wr, rd, there, here, marks, lis, ioErrors>>

-----------------------------------------------------------------------------
(* The read side. *)

NextChunk(d) == {f \in here[d] : f[1] = rd[d].seq}
Reading(d) == rd[d].at # "unopened" /\ ~rd[d].eof /\ rd[d].buf = <<>>

\* The chunk is read and removed; the caller's buffer takes k bytes, the rest waits.
TakeChunk(d, f, k) ==
    /\ here' = [here EXCEPT ![d] = @ \ {f}]
    /\ there' = [there EXCEPT ![d] = @ \ {f}]
    /\ rd' = [rd EXCEPT ![d].seq = @ + 1, ![d].at = "look",
                        ![d].got = @ \o SubSeq(f[2], 1, k),
                        ![d].buf = SubSeq(f[2], k + 1, Len(f[2]))]

\* read_chunk_fut, the first attempt.
LookForChunk(d) ==
    /\ Reading(d) /\ rd[d].at = "look"
    /\ \E f \in NextChunk(d) : \E k \in 1 .. Len(f[2]) : TakeChunk(d, f, k)
    /\ UNCHANGED <<wr, sentinel, marks, lis, ioErrors>>

\* A read that fails otherwise than by a missing file is returned to the caller as an error,
\* and read_eof is set: any later read is told that the stream has ended.
ReadFails(d) ==
    /\ Reading(d) /\ rd[d].at = "look" /\ ioErrors < MaxIoErrors
    /\ ioErrors' = ioErrors + 1
    /\ rd' = [rd EXCEPT ![d].eof = TRUE, ![d].at = "failed"]
    /\ UNCHANGED <<wr, there, here, sentinel, marks, lis>>

\* The chunk is missing; read_sentinel_final_seq.
ReadSentinel(d) ==
    /\ Reading(d) /\ rd[d].at = "look"
    /\ NextChunk(d) = {} /\ sentinel[d].r # NoSentinel
    /\ rd' = [rd EXCEPT ![d].at = "again", ![d].final = sentinel[d].r]
    /\ UNCHANGED <<wr, there, here, sentinel, marks, lis, ioErrors>>

\* Mutant: any sentinel ends the stream.
IsLastOnSentinel(d) == rd[d].final # NoSentinel
\* A sentinel that is still empty names no last chunk.
IsLast(d) == rd[d].final # EmptySentinel /\ rd[d].seq > rd[d].final

\* The second attempt; without a chunk, or if it cannot be read, the stream ends, or the
\* polling goes on.
LookAgain(d) ==
    /\ Reading(d) /\ rd[d].at = "again"
    /\ \/ /\ \E f \in NextChunk(d) : \E k \in 1 .. Len(f[2]) : TakeChunk(d, f, k)
          /\ UNCHANGED ioErrors
       \/ /\ \/ NextChunk(d) = {} /\ UNCHANGED ioErrors
             \/ ioErrors < MaxIoErrors /\ ioErrors' = ioErrors + 1
          /\ rd' = [rd EXCEPT ![d].at = "look", ![d].eof = IsLast(d)]
          /\ UNCHANGED <<there, here>>
    /\ UNCHANGED <<wr, sentinel, marks, lis>>

\* poll_read serves what is left of a chunk first.
ServeBuffer(d) ==
    /\ rd[d].buf # <<>>
    /\ \E k \in 1 .. Len(rd[d].buf) :
          rd' = [rd EXCEPT ![d].got = @ \o SubSeq(rd[d].buf, 1, k),
                           ![d].buf = SubSeq(@, k + 1, Len(@))]
    /\ UNCHANGED <<wr, there, here, sentinel, marks, lis, ioErrors>>

-----------------------------------------------------------------------------
ReaderStep(d) ==
    LookForChunk(d) \/ ReadFails(d) \/ ReadSentinel(d) \/ LookAgain(d) \/ ServeBuffer(d)
Syncs(d) == ChunkSyncs(d) \/ SentinelSyncs(d)

SpoolNext ==
    \/ ClientOpens \/ PublishReady
    \/ \E l \in Listeners : ScanReady(l) \/ Claim(l) \/ ClaimFails(l)
    \/ \E d \in Dirs :
          \/ \E k \in 1 .. MaxChunkLen : poll_write(d, k)
          \/ ChunkLands(d) \/ ChunkFails(d) \/ poll_shutdown(d)
          \/ SentinelGrows(d) \/ SentinelWritten(d) \/ WriterDies(d) \/ Syncs(d) \/ ReaderStep(d)

\* The tasks run, the scan and the polling are periodic, and synchronisation gets every
\* file across.
SpoolFairness ==
    /\ WF_spoolVars(ClientOpens) /\ WF_spoolVars(PublishReady)
    /\ \A l \in Listeners : WF_spoolVars(ScanReady(l) \/ Claim(l))
    /\ \A d \in Dirs :
          /\ WF_spoolVars(ChunkLands(d)) /\ WF_spoolVars(SentinelWritten(d))
          /\ WF_spoolVars(ChunkSyncs(d)) /\ WF_spoolVars(SentinelSyncs(d))
          /\ WF_spoolVars(ReaderStep(d))

-----------------------------------------------------------------------------
(* Properties. *)

\* The reader was told that the stream has ended because the number in the sentinel was
\* passed, and it was the whole number.
Ended(d) == rd[d].eof /\ rd[d].at # "failed" /\ rd[d].final = wr[d].seq - 1

C2S == INSTANCE ByteStream WITH sent <- wr["c2s"].acc, closed <- wr["c2s"].shut # "no",
                                received <- rd["c2s"].got, ended <- Ended("c2s")
S2C == INSTANCE ByteStream WITH sent <- wr["s2c"].acc, closed <- wr["s2c"].shut # "no",
                                received <- rd["s2c"].got, ended <- Ended("s2c")

\* Each direction of an FsStream implements a byte stream: what poll_read returns is what
\* poll_write accepted, in order and without a gap, and an end that was Ended comes only
\* after the last byte, also when the sentinel arrives before chunks it counts.
SpoolIsStream == C2S!StreamSpec /\ S2C!StreamSpec

\* The reader can be told of an end too early in two ways only: an earlier read has failed,
\* or the sentinel was read when only the leading digits of its number were there.
EndsForAReason ==
    \A d \in Dirs : rd[d].eof =>
        \/ Ended(d) \/ rd[d].at = "failed"
        \/ wr[d].shut # "no" /\ rd[d].final \in Leading(wr[d].seq - 1)

\* A session that is closed in good order is read to its end by the other peer, unless the
\* claim of the session failed half way.
Unserved == "claimed" \in marks /\ \A l \in Listeners : lis[l].at # "serves"
SpoolRest == \A d \in Dirs : wr[d].shut = "done" => rd[d].eof \/ Unserved

\* The marker files give a session to one listener only, so that no two servers write the
\* same numbered chunks.
OneServer == Cardinality({l \in Listeners : lis[l].at = "serves"}) <= 1

\* The spool is a connection: one server at its other end, a byte stream in each direction
\* and no early end but for the two reasons.
SpoolSound == SpoolIsStream /\ [](OneServer /\ EndsForAReason)

SpoolSpec == SpoolInit /\ [][SpoolNext]_spoolVars /\ SpoolFairness
=============================================================================
