----------------------------- MODULE SimFsDriver -----------------------------
(***************************************************************************)
(* The block driver of the simulator's file system (fs_driver.cpp): the    *)
(* layout of the virtual disk, the bitmaps of blocks and inodes with their *)
(* counters, the write-through LRU cache of blocks, the superblock kept in *)
(* memory and on block 0, the journal and the table of transactions.       *)
(*                                                                         *)
(* The driver is the record drv.  A block is a value of BlockData, Zero    *)
(* when blank; the cache is a sequence, least recently used entry first,   *)
(* which is the order of lastAccess.  Statistics, ticks and the volume     *)
(* label are left out.                                                     *)
(***************************************************************************)
EXTENDS Integers, Sequences, FiniteSets, SequencesExt

CONSTANTS
    totalBlocks_, blockSize_, maxInodes_,       \* the constructor's arguments
    JOURNAL_MAX_ENTRIES,
    BlockData,          \* what a caller may write to a block
    CacheSizes,         \* arguments of setCacheSize
    MaxTx               \* bound: transactions ever begun

VARIABLES
    drv,
    stored              \* block -> what its owner wrote last, Zero if nothing

driverVars == <<drv, stored>>

Zero == "zero"
NoBlock == 0            \* what allocBlock returns when the disk is full
DiskBlocks == 0 .. totalBlocks_ - 1

CeilDiv(n, k) == (n + k - 1) \div k

(* The first data block: after the superblock, two bitmaps and the inodes. *)
calculateLayout ==
    LET bits == blockSize_ * 8
        first == 1 + CeilDiv(totalBlocks_, bits) + CeilDiv(maxInodes_, bits)
                   + CeilDiv(maxInodes_ * 128, blockSize_)
    IN  IF first >= totalBlocks_ THEN totalBlocks_ \div 2 ELSE first

journalWrite(d, op, target) ==
    LET all == Append(d.journal, [op |-> op, target |-> target])
    IN  [d EXCEPT !.journal = IF Len(all) > JOURNAL_MAX_ENTRIES
                              THEN Tail(all) ELSE all]

(* Block 0 holds the counters and the state; nothing else of it is read.   *)
writeSuperblock(d) ==
    journalWrite([d EXCEPT !.super = [free |-> d.free, freeInodes |-> d.freeInodes,
                                      state |-> d.state]],
                 "SuperblockUpdate", 0)

format ==
    writeSuperblock(
        [mounted |-> FALSE, state |-> "Clean",
         bitmap |-> 0 .. calculateLayout - 1, free |-> totalBlocks_ - calculateLayout,
         inodes |-> {}, freeInodes |-> maxInodes_,
         disk |-> [b \in DiskBlocks |-> Zero], super |-> "unwritten",
         cache |-> <<>>, maxCache |-> Max(CacheSizes),
         journal |-> <<>>, activeTx |-> {}, nextTxId |-> 1])

readSuperblock(d) ==
    [d EXCEPT !.free = d.super.free, !.freeInodes = d.super.freeInodes,
              !.state = d.super.state]

mount(d) ==
    [writeSuperblock([readSuperblock(d) EXCEPT !.state = "Dirty"])
        EXCEPT !.mounted = TRUE]
-----------------------------------------------------------------------------
(* The cache.                                                              *)

Cached(d, b) == \E i \in DOMAIN d.cache : d.cache[i].id = b
EntryOf(d, b) == d.cache[CHOOSE i \in DOMAIN d.cache : d.cache[i].id = b]
Uncached(d, b) == SelectSeq(d.cache, LAMBDA e : e.id # b)
PutEntry(d, b, data, dirty) ==
    [d EXCEPT !.cache = Append(Uncached(d, b), [id |-> b, data |-> data, dirty |-> dirty])]

evictLruCache(d) ==
    IF d.cache = <<>> THEN d
    ELSE LET v == Head(d.cache)
         IN  [d EXCEPT !.cache = Tail(@),
                       !.disk = IF v.dirty THEN [@ EXCEPT ![v.id] = v.data] ELSE @]

MakeRoom(d) == IF Len(d.cache) >= d.maxCache THEN evictLruCache(d) ELSE d

(* What readBlock returns, and the driver after it.                        *)
BlockRead(d, b) == IF Cached(d, b) THEN EntryOf(d, b).data ELSE d.disk[b]
readBlock(d, b) ==
    IF Cached(d, b) THEN PutEntry(d, b, EntryOf(d, b).data, EntryOf(d, b).dirty)
    ELSE PutEntry(MakeRoom(d), b, d.disk[b], FALSE)

writeBlock(d, b, data) ==
    LET room == IF Cached(d, b) THEN d ELSE MakeRoom(d)
    IN  [PutEntry(room, b, data, TRUE) EXCEPT !.disk[b] = data]

sync(d) ==
    writeSuperblock(
        [d EXCEPT !.disk = [b \in DiskBlocks |-> IF Cached(d, b) /\ EntryOf(d, b).dirty
                                             THEN EntryOf(d, b).data ELSE @[b]],
                  !.cache = [i \in DOMAIN @ |-> [@[i] EXCEPT !.dirty = FALSE]]])

unmount(d) ==
    [writeSuperblock([sync(d) EXCEPT !.state = "Clean"]) EXCEPT !.mounted = FALSE]

invalidateCache(d) == [d EXCEPT !.cache = <<>>]

RECURSIVE Shrunk(_)
Shrunk(d) == IF Len(d.cache) > d.maxCache THEN Shrunk(evictLruCache(d)) ELSE d
setCacheSize(d, n) == Shrunk([d EXCEPT !.maxCache = n])
-----------------------------------------------------------------------------
(* The bitmaps.                                                            *)

FreeData(d) == {b \in calculateLayout .. totalBlocks_ - 1 : b \notin d.bitmap}

allocBlock(d) ==
    IF FreeData(d) = {} THEN [d |-> d, block |-> NoBlock]
    ELSE LET b == Min(FreeData(d))
         IN  [d |-> journalWrite([d EXCEPT !.bitmap = @ \cup {b}, !.free = @ - 1,
                                           !.disk[b] = Zero], "BlockWrite", b),
              block |-> b]

(* A bug: the freed block stays in the cache.                              *)
freeBlock_StaysCached(d, b) ==
    IF b \notin d.bitmap \/ b < calculateLayout THEN d
    ELSE journalWrite([d EXCEPT !.bitmap = @ \ {b}, !.free = @ + 1, !.disk[b] = Zero],
                      "BlockFree", b)

freeBlock(d, b) ==
    IF b \notin d.bitmap \/ b < calculateLayout THEN d
    ELSE journalWrite([d EXCEPT !.bitmap = @ \ {b}, !.free = @ + 1, !.disk[b] = Zero,
                                !.cache = Uncached(d, b)],
                      "BlockFree", b)

FreeAll(d, blocks) == FoldLeft(freeBlock, d, blocks)

(* All the blocks or none: a failure gives back what was taken.            *)
RECURSIVE AllocMore(_, _, _)
AllocMore(d, got, count) ==
    IF count = 0 THEN [d |-> d, blocks |-> got]
    ELSE LET r == allocBlock(d)
         IN  IF r.block = NoBlock THEN [d |-> FreeAll(d, got), blocks |-> <<>>]
             ELSE AllocMore(r.d, Append(got, r.block), count - 1)
allocBlocks(d, count) == AllocMore(d, <<>>, count)

allocInode(d) ==
    LET unused == (1 .. maxInodes_ - 1) \ d.inodes
    IN  IF unused = {} THEN d
        ELSE journalWrite([d EXCEPT !.inodes = @ \cup {Min(unused)}, !.freeInodes = @ - 1],
                          "InodeWrite", Min(unused))

freeInode(d, i) ==
    IF i \notin d.inodes THEN d
    ELSE journalWrite([d EXCEPT !.inodes = @ \ {i}, !.freeInodes = @ + 1], "InodeFree", i)

beginTransaction(d) ==
    journalWrite([d EXCEPT !.activeTx = @ \cup {d.nextTxId}, !.nextTxId = @ + 1],
                 "TxBegin", 0)
commitTransaction(d, tx) ==
    IF tx \in d.activeTx THEN journalWrite([d EXCEPT !.activeTx = @ \ {tx}], "TxCommit", 0)
    ELSE d
rollbackTransaction(d, tx) ==
    IF tx \in d.activeTx THEN journalWrite([d EXCEPT !.activeTx = @ \ {tx}], "TxRollback", 0)
    ELSE d
clearJournal(d) == [d EXCEPT !.journal = <<>>]
-----------------------------------------------------------------------------
DriverInit == drv = mount(format) /\ stored = <<>>

DriverBecomes(d) == drv' = d /\ UNCHANGED stored
Owned == DOMAIN stored

(* The calls a client makes while the volume is mounted: it reads, writes  *)
(* and frees the blocks it was given.                                      *)
Client ==
    /\ drv.mounted
    /\ \/ \E n \in 1 .. 2 : \E r \in {allocBlocks(drv, n)} :
            /\ drv' = r.d
            /\ stored' = [b \in Owned \cup ToSet(r.blocks) |->
                            IF b \in Owned THEN stored[b] ELSE Zero]
       \/ \E b \in Owned :
            \/ drv' = freeBlock(drv, b)
               /\ stored' = [x \in Owned \ {b} |-> stored[x]]
            \/ DriverBecomes(readBlock(drv, b))
            \/ \E v \in BlockData : drv' = writeBlock(drv, b, v)
                                    /\ stored' = [stored EXCEPT ![b] = v]
       \/ DriverBecomes(allocInode(drv))
       \/ \E i \in drv.inodes : DriverBecomes(freeInode(drv, i))
       \/ drv.nextTxId <= MaxTx /\ DriverBecomes(beginTransaction(drv))
       \/ \E tx \in drv.activeTx : \/ DriverBecomes(commitTransaction(drv, tx))
                                   \/ DriverBecomes(rollbackTransaction(drv, tx))

Maintenance ==
    \/ DriverBecomes(sync(drv))
    \/ DriverBecomes(invalidateCache(drv))
    \/ \E n \in CacheSizes : DriverBecomes(setCacheSize(drv, n))
    \/ DriverBecomes(clearJournal(drv))
    \/ drv.mounted /\ DriverBecomes(unmount(drv))
    \/ ~drv.mounted /\ DriverBecomes(mount(drv))

DriverNext == Client \/ Maintenance
-----------------------------------------------------------------------------
(* A block holds what its owner wrote last, in the cache and on the disk,  *)
(* whatever was evicted, invalidated, freed or allocated since; and the    *)
(* free counters agree with the bitmaps, on block 0 too once the volume is *)
(* unmounted (readBlock, writeBlock, freeBlock, mount).                    *)
BlocksKeepData ==
    /\ \A b \in Owned : b \in drv.bitmap /\ BlockRead(drv, b) = stored[b]
                        /\ drv.disk[b] = stored[b]
    /\ drv.free = totalBlocks_ - Cardinality(drv.bitmap)
    /\ drv.freeInodes = maxInodes_ - Cardinality(drv.inodes)
    /\ ~drv.mounted => drv.super.free = drv.free /\ drv.super.state = "Clean"
=============================================================================
