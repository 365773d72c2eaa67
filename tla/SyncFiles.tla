------------------------------ MODULE SyncFiles ------------------------------
(***************************************************************************)
(* The file side of the server's sync requests: the files themselves, the   *)
(* block cache, and what each request that is answered from them does.  The *)
(* requests of this module are one step each: a handler runs from its       *)
(* request to its response without waiting for the connection (the two that *)
(* stream, push-chunked and pull-delta, are in Transfer).                   *)
(*                                                                         *)
(* A content hash is the content.  Edits that keep a file's size and the    *)
(* second of its mtime are possible, so a cached hash may be stale.         *)
(***************************************************************************)
EXTENDS Delta, FiniteSets

CONSTANTS
    MaxFile,        \* files 1 .. MaxFile; f + MaxFile is f's name with a backslash on a Unix server,
              \* f + 2N the backup of f
    Bytes,    \* byte values
    Now       \* the mtime of what is written during a run

ASSUME SyncFilesAssumption == MaxFile \in Nat \ {0} /\ Now \in Nat \ {0} /\ BLOCK_SIZE \in Nat \ {0}

Originals == 1 .. MaxFile
Names == 1 .. 3 * MaxFile
Backup(f) == f + 2 * MaxFile
None == << >>
File(data, mtime) == <<[data |-> data, mtime |-> mtime]>>
Data(file) == file[1].data
Mtime(file) == file[1].mtime
Exists(file) == file # None
DataOr(file, default) == IF Exists(file) THEN Data(file) ELSE default

VARIABLES
    R,       \* the files of the server: None or one File per name
    files,   \* the block cache's file records: None or the File a name was indexed as
    blocks,  \* the block cache's sources: pairs of a block and the name it was seen in
    report   \* of each item of the last request: the file, its content, what was said

apiVars == <<R, files, blocks, report>>

Put(n, data) == [R EXCEPT ![n] = File(data, Now)]

-----------------------------------------------------------------------------
(* signatures, delta, patch, batch-signatures, batch-patch, batch-patch-bin *)

\* A file that does not exist has no signatures, and that is a success.
handle_get_signatures(n) == compute_signatures(DataOr(R[n], << >>))

handle_compute_delta(n, sigs) == compute_delta(Data(R[n]), sigs)

\* The patched file: a missing one is patched as an empty one.
handle_apply_patch(n, ops) == Put(n, apply_delta(DataOr(R[n], << >>), ops))

handle_batch_signatures(ns) == [n \in ns |-> handle_get_signatures(n)]

\* Per item the new content is worked out first, then the old file is renamed to its
\* backup (a failed rename is ignored), then the content is written.
handle_batch_patch(patches, backup) ==
    [m \in Names |->
        IF m \in DOMAIN patches
        THEN File(apply_delta(DataOr(R[m], << >>), patches[m]), Now)
        ELSE IF \E n \in DOMAIN patches : m = Backup(n) /\ backup /\ Exists(R[n])
        THEN R[m - 2 * MaxFile] ELSE R[m]]

\* Where each item's bytes start in the blob: a refused item's bytes are passed over.
bin_offsets(items, bad) ==
    [k \in DOMAIN items |->
        LET sum[j \in 0 .. k - 1] == IF j = 0 THEN 0 ELSE sum[j - 1] + items[j].size
        IN  sum[k - 1]]

\* The metadata of the items, and their contents in one blob.
handle_batch_patch_bin(items, blob, bad) ==
    LET offset == bin_offsets(items, bad)
        Written(k) == items[k].name \notin bad /\ offset[k] + items[k].size <= Len(blob)
    IN  [m \in Names |->
            IF \E k \in DOMAIN items : items[k].name = m /\ Written(k)
            THEN LET k == CHOOSE k \in DOMAIN items : items[k].name = m /\ Written(k)
                 IN  File(SubSeq(blob, offset[k] + 1, offset[k] + items[k].size), Now)
            ELSE R[m]]

-----------------------------------------------------------------------------
(* The block cache *)

\* What the cache knows: rec, the records, and src, the sources of blocks.
Cache == [rec |-> files, src |-> blocks]

\* A file of the size and mtime that are on record is not read again.
index_file(cache, disk, n) ==
    IF /\ Exists(cache.rec[n])
       /\ Len(Data(cache.rec[n])) = Len(Data(disk[n])) /\ Mtime(cache.rec[n]) = Mtime(disk[n])
    THEN cache
    ELSE [rec |-> [cache.rec EXCEPT ![n] = disk[n]],
          src |-> cache.src \cup {<<b, n>> : b \in {Blocks(Data(disk[n]))[i] :
                                                      i \in 1 .. BlockCount(Data(disk[n]))}}]

\* Records of the hash whose file is gone are dropped.
find_by_content_hash(cache, disk, hash) ==
    [n \in Names |-> IF /\ Exists(cache.rec[n]) /\ Data(cache.rec[n]) = hash
                        /\ ~Exists(disk[n])
                     THEN None ELSE cache.rec[n]]

\* A block has a source if some file it was seen in still exists, whatever it holds by now.
find_block_sources(cache, disk, block) ==
    {n \in Names : <<block, n>> \in cache.src /\ Exists(disk[n])}

remove_file(cache, n) == [cache EXCEPT !.rec[n] = None]

\* cleanup: the records not used for DEFAULT_MAX_AGE_SECS.
cleanup(cache, old) ==
    [rec |-> [n \in Names |-> IF n \in old THEN None ELSE cache.rec[n]],
     src |-> {s \in cache.src : s[2] \notin old}]

move_file(disk, from, to) == [disk EXCEPT ![to] = disk[from], ![from] = None]

-----------------------------------------------------------------------------
(* smart-sync, find-and-move, index-dir *)

\* The first three rules of smart-sync on one item: what is there already is left, what is
\* elsewhere is moved, and blocks that are known need not be sent.  s holds the disk, the
\* cache and the statuses so far.
SmartSyncItem(s, dest, hash) ==
    LET stale == ~Exists(s.disk[dest])
        c0 == IF stale THEN remove_file(s.cache, dest) ELSE s.cache
        known == ~stale /\ Exists(c0.rec[dest]) /\ Data(c0.rec[dest]) = hash
        there == ~stale /\ Data(s.disk[dest]) = hash
        c1 == [c0 EXCEPT !.rec = find_by_content_hash(c0, s.disk, hash)]
        asked == {Blocks(hash)[i] : i \in 1 .. BlockCount(hash)}
        c2 == [c1 EXCEPT !.src = {p \in @ : p[1] \notin asked \/ Exists(s.disk[p[2]])}]
        sources == {n \in Names \ {dest} : /\ Exists(c1.rec[n]) /\ Data(c1.rec[n]) = hash
                                           /\ Exists(s.disk[n]) /\ Data(s.disk[n]) = hash}
        some == \E b \in asked : find_block_sources(c1, s.disk, b) # {}
        Say(disk, cache, status) ==
            [disk |-> disk, cache |-> cache, said |-> Append(s.said, <<dest, hash, status>>)]
    IN  CASE known -> Say(s.disk, c0, "exists")
          [] ~known /\ there -> Say(s.disk, index_file(c0, s.disk, dest), "exists")
          [] ~known /\ ~there /\ sources # {} ->
                LET from == CHOOSE n \in sources : TRUE
                    disk == move_file(s.disk, from, dest)
                IN  Say(disk, index_file(c1, disk, dest), "moved")
          [] OTHER -> Say(s.disk, c2, IF some THEN "partial" ELSE "transfer")

\* All files of the search root are hashed before the first item; one that an earlier item
\* moved away is still in that index, and then the move fails.
FindAndMoveItem(s, index, dest, hash) ==
    LET there == Exists(s.disk[dest]) /\ Data(s.disk[dest]) = hash
        sources == {n \in Names \ {dest} : Exists(index[n]) /\ Data(index[n]) = hash}
        from == CHOOSE n \in sources : TRUE
        Say(disk, status) == [disk |-> disk, said |-> Append(s.said, <<dest, hash, status>>)]
    IN  CASE there -> Say(s.disk, "found")
          [] ~there /\ sources = {} -> Say(s.disk, "absent")
          [] ~there /\ sources # {} ->
                IF Exists(s.disk[from]) THEN Say(move_file(s.disk, from, dest), "moved")
                                        ELSE Say(s.disk, "error")

handle_smart_sync(items) ==
    LET do[k \in 0 .. Len(items)] ==
            IF k = 0 THEN [disk |-> R, cache |-> Cache, said |-> << >>]
            ELSE SmartSyncItem(do[k - 1], items[k].dest, items[k].hash)
    IN  do[Len(items)]

handle_find_and_move(items) ==
    LET do[k \in 0 .. Len(items)] ==
            IF k = 0 THEN [disk |-> R, said |-> << >>]
            ELSE FindAndMoveItem(do[k - 1], R, items[k].dest, items[k].hash)
    IN  do[Len(items)]

handle_index_dir(cache) ==
    LET do[n \in 0 .. 3 * MaxFile] ==
            IF n = 0 THEN cache
            ELSE IF Exists(R[n]) THEN index_file(do[n - 1], R, n) ELSE do[n - 1]
    IN  do[3 * MaxFile]
=============================================================================
