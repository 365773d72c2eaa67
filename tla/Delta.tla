------------------------------- MODULE Delta -------------------------------
(***************************************************************************)
(* The block delta of mrsh-transfer and of the pull-delta handler.  A file  *)
(* is a sequence of bytes, cut into blocks of BLOCK_SIZE, the last one      *)
(* perhaps shorter.  Blocks are recognised by a weak sum, which collides,   *)
(* and by a strong one, which is taken to be injective.  Indices count from *)
(* 0, as on the wire.                                                       *)
(***************************************************************************)
EXTENDS Naturals, Sequences
LOCAL INSTANCE SequencesExt

CONSTANT BLOCK_SIZE

Least(a, b) == IF a < b THEN a ELSE b

\* The bytes from offset (counted from 0) on, BLOCK_SIZE of them if there are as many.
BlockAt(data, offset) == SubSeq(data, offset + 1, Least(offset + BLOCK_SIZE, Len(data)))
BlockCount(data) == (Len(data) + BLOCK_SIZE - 1) \div BLOCK_SIZE
Blocks(data) == [i \in 1 .. BlockCount(data) |-> BlockAt(data, (i - 1) * BLOCK_SIZE)]

Weak(block) == Len(block)
Strong(block) == block

compute_signatures(data) ==
    [i \in 1 .. BlockCount(data) |->
        [index |-> i - 1, weak |-> Weak(Blocks(data)[i]), strong |-> Strong(Blocks(data)[i])]]

\* The first of the signatures in fit, in the order of the list; 0 if there is none.
FirstOf(fit) == IF fit = {} THEN 0 ELSE CHOOSE k \in fit : \A j \in fit : k <= j

\* A signature that has both sums of the block.
Candidate(block, sigs) ==
    FirstOf({k \in DOMAIN sigs : /\ sigs[k].weak = Weak(block)
                                 /\ sigs[k].strong = Strong(block)})

MatchOp(index) == [t |-> "match", index |-> index]
DataOp(bytes) == [t |-> "data", bytes |-> bytes]

Flush(unmatched) == IF unmatched = << >> THEN << >> ELSE <<DataOp(unmatched)>>

\* The scan: a block is looked up where a whole one remains, and at the start of the short
\* tail; a byte that starts no match waits in "unmatched", here the bytes after i.
compute_delta(new, sigs) ==
    LET tail == Len(new) - (Len(new) % BLOCK_SIZE)
        Unmatched(i, n) == SubSeq(new, i - n + 1, i)
        scan[i \in 0 .. Len(new), n \in 0 .. Len(new)] ==
            IF i = Len(new) THEN Flush(Unmatched(i, n))
            ELSE LET k == IF i + BLOCK_SIZE <= Len(new) \/ i = tail
                          THEN Candidate(BlockAt(new, i), sigs) ELSE 0
                 IN  IF k # 0
                     THEN Flush(Unmatched(i, n)) \o <<MatchOp(sigs[k].index)>>
                          \o scan[i + Len(BlockAt(new, i)), 0]
                     ELSE scan[i + 1, n + 1]
    IN  IF sigs = << >> THEN <<DataOp(new)>> ELSE scan[0, 0]

\* A match beyond the end of the existing file adds nothing.
apply_delta(existing, ops) ==
    FlattenSeq([k \in DOMAIN ops |->
                   IF ops[k].t = "data" THEN ops[k].bytes
                   ELSE BlockAt(existing, ops[k].index * BLOCK_SIZE)])

\* A buggy form: a match is announced with the position in the server's file.
PullBlocks_position(data, sigs) ==
    [i \in 1 .. BlockCount(data) |->
        IF Candidate(Blocks(data)[i], sigs) # 0 THEN [t |-> "M", index |-> i - 1]
        ELSE [t |-> "D", bytes |-> Blocks(data)[i]]]

\* handle_pull_delta: the file block by block, as M (an index into the client's blocks)
\* or as D (the bytes).
PullBlocks(data, sigs) ==
    [i \in 1 .. BlockCount(data) |->
        LET block == Blocks(data)[i]
            k == Candidate(block, sigs)
        IN  IF k # 0 THEN [t |-> "M", index |-> sigs[k].index]
                     ELSE [t |-> "D", bytes |-> block]]
=============================================================================
