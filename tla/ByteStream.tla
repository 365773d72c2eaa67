----------------------------- MODULE ByteStream -----------------------------
(***************************************************************************)
(* What a transport promises TLS for one direction: the reader gets the     *)
(* writer's bytes, all of them and in order, and sees the end of the stream *)
(* only when the writer has closed it and nothing is left to read.          *)
(***************************************************************************)
EXTENDS Integers, Sequences

VARIABLES sent, closed, received, ended

streamVars == <<sent, closed, received, ended>>

StreamInit == sent = <<>> /\ closed = FALSE /\ received = <<>> /\ ended = FALSE

\* The writer hands over more bytes.
Accept ==
    /\ ~closed
    /\ Len(sent') > Len(sent) /\ SubSeq(sent', 1, Len(sent)) = sent
    /\ UNCHANGED <<closed, received, ended>>

Close == ~closed /\ closed' = TRUE /\ UNCHANGED <<sent, received, ended>>

\* The reader gets the next bytes.
Deliver ==
    /\ ~ended
    /\ Len(received') \in (Len(received) + 1) .. Len(sent)
    /\ received' = SubSeq(sent, 1, Len(received'))
    /\ UNCHANGED <<sent, closed, ended>>

\* The reader gets the end of the stream.
End == closed /\ received = sent /\ ended' = TRUE /\ UNCHANGED <<sent, closed, received>>

StreamSpec == StreamInit /\ [][Accept \/ Close \/ Deliver \/ End]_streamVars
=============================================================================
