----------------------------- MODULE MCTransfer -----------------------------
(* Small instances of Transfer: two files, two byte values, blocks of two bytes; and a  *)
(* batch over a jump host, which shares no state with them.                             *)
EXTENDS Transfer, BatchTransfer

\* Contents of up to three bytes: nothing, a short block, a block, a block and a short one.
MCData == UNION {[1 .. n -> Bytes] : n \in 0 .. 3}
Few == {<<0>>, <<1>>, <<0, 1, 1>>}

MCEdits == {None, File(<<1, 0>>, Now)}
MCContents == {<<1>>, <<0, 1, 1>>, <<1, 0, 1, 0>>, <<1, 0, 1>>}

Job(op) == [op |-> op, unix |-> FALSE, dry |-> FALSE, delete |-> FALSE, backup |-> FALSE,
            bad |-> {}, excluded |-> {}]
Disk(a, b) == [n \in Names |-> IF n = 1 THEN a ELSE IF n = 2 THEN b ELSE None]
Old(d) == File(d, 1)

\* One file, with every content on both sides.
OneFile ==
    {[job |-> j, L |-> Disk(l, None), R |-> Disk(r, None)] :
        j \in {Job("pull"), [Job("pull") EXCEPT !.bad = {1}]},
        l \in {None} \cup {Old(d) : d \in MCData}, r \in {None} \cup {Old(d) : d \in MCData}}
    \cup
    {[job |-> j, L |-> Disk(l, None), R |-> Disk(r, None)] :
        j \in {Job("push"), [Job("push") EXCEPT !.bad = {1}], [Job("push") EXCEPT !.dry = TRUE],
               [Job("pull") EXCEPT !.dry = TRUE]},
        l \in {None} \cup {Old(d) : d \in MCData}, r \in {None, Old(<<1>>)}}

\* Directories: the first file with contents and mtimes that sync_dir tells apart.
First == {None} \cup {File(d, t) : d \in Few, t \in 0 .. 2}
Directories ==
    {[job |-> j, L |-> Disk(l, b), R |-> Disk(r, b)] :
        j \in {Job("sync_dir"), [Job("sync_dir") EXCEPT !.unix = TRUE],
               [Job("sync_dir") EXCEPT !.dry = TRUE], [Job("sync_dir") EXCEPT !.excluded = {2}]},
        l \in First, r \in First, b \in {None}}
    \cup
    {[job |-> j, L |-> Disk(l, Old(<<1>>)), R |-> Disk(r, File(<<0, 1>>, 2))] :
        j \in {Job("sync_dir"), Job("pull_dir"), [Job("pull_dir") EXCEPT !.unix = TRUE],
               [Job("pull_dir") EXCEPT !.backup = TRUE], [Job("sync_dir") EXCEPT !.bad = {1}],
               Job("push_dir"), [Job("push_dir") EXCEPT !.backup = TRUE, !.delete = TRUE],
               [Job("push_dir") EXCEPT !.delete = TRUE], [Job("push_dir") EXCEPT !.bad = {2}]},
        l \in {None, Old(<<0>>), File(<<0, 1, 1>>, 2)}, r \in {None, Old(<<1, 1>>)}}

\* Both files are newer on the client: sync_dir goes on with the second push when the first,
\* of two chunks, has broken off.
TwoPushes ==
    {[job |-> j, L |-> Disk(File(<<0, 1, 1>>, 2), File(d, 2)), R |-> Disk(Old(<<1>>), r)] :
        j \in {Job("sync_dir"), [Job("sync_dir") EXCEPT !.unix = TRUE],
               [Job("sync_dir") EXCEPT !.bad = {2}]},
        d \in {<<0>>, <<1, 0, 1>>}, r \in {None, Old(<<1>>)}}

ApiStarts == {[job |-> Job("api"), L |-> Disk(Old(<<0, 1, 1>>), None),
               R |-> Disk(r, Old(<<1>>))] : r \in {None, Old(<<0, 1, 1>>), Old(<<1, 0, 0>>)}}

MCStarts == OneFile \cup Directories \cup TwoPushes \cup ApiStarts

\* A dry run with --delete.
DryStarts == {[job |-> [Job("push_dir") EXCEPT !.dry = TRUE, !.delete = TRUE],
               L |-> Disk(Old(<<0>>), None), R |-> Disk(None, Old(<<1>>))]}

\* A behaviour runs a transfer, when the last batch is over, or a batch, after a transfer
\* that has lost its connection.
BatchOver ==
    /\ direction = "push" /\ resume = FALSE /\ main = "off" /\ next = 1 /\ cancel = FALSE
    /\ there = [f \in Files |-> "whole"] /\ part = [f \in Files |-> "absent"]
    /\ worker = [f \in Files |-> "none"] /\ outcome = worker /\ index = worker
    /\ count = [o \in Outcomes |-> 0] /\ permits = Parallel /\ runs = 0 /\ errors = 0
TransferOver ==
    /\ begin = CHOOSE b \in Starts : TRUE
    /\ L = begin.L /\ R = begin.R /\ files = [n \in Names |-> None] /\ blocks = {} /\ report = << >>
    /\ open = FALSE /\ up = << >> /\ down = << >> /\ pc = "exit" /\ todo = << >> /\ size = 0
    /\ sent = << >> /\ base = << >> /\ got = << >> /\ spc = "closed" /\ into = 1 /\ sbuf = << >>
    /\ served = << >> /\ failed = {} /\ exit = "fail"
    /\ faults = 0 /\ edits = 0 /\ calls = 0 /\ touched = FALSE
TransfersInit == (TransferInit /\ BatchOver) \/ (TransferOver /\ Init)
TransfersNext ==
    \/ TransferNext /\ UNCHANGED vars
    \/ Next /\ UNCHANGED transferVars
TransfersSpec ==
    TransfersInit /\ [][TransfersNext]_<<transferVars, vars>> /\ TransferFairness /\ Fairness
=============================================================================
