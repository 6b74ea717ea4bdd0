------------------------------ MODULE MCStorage ------------------------------
(***************************************************************************)
(* Memory, disk and streams side by side: which of them moves is chosen at *)
(* the start, the others rest in their initial states.                     *)
(*                                                                         *)
(* The virtual memory is there twice.  Extended, it has two heap pages in  *)
(* one page table and two values, and only user programs store: what its   *)
(* processes see is compared with private memory.  As Pool it also has an  *)
(* area of sys_mmap across two tables, one value, and system calls store   *)
(* as well: there the frames are counted.                                  *)
(***************************************************************************)
EXTENDS Memory, Kmalloc, PageCache, Fat16, Stdio, TLC

VARIABLES
    which,
    boot_pmm, boot_held, boot_areas,
    pool_pmm, pool_mem, pool_as, pool_heap_end, pool_life, pool_lost, pool_halted

\* Seven frames in words of two, so that the last one is never scanned; the
\* first is the kernel's.
Boot == INSTANCE Pmm WITH
    MaxFrames <- 7, WordBits <- 2, Region <- 1..6, MaxRef <- 3, Counts <- {1, 2, 3},
    pmm <- boot_pmm, held <- boot_held, areas <- boot_areas
bootVars == <<boot_pmm, boot_held, boot_areas>>
ASSUME BootAssumption == Boot!PmmAssumption

Pool == INSTANCE Memory WITH
    NumHeapPages <- 1, Areas <- {<<1, 2>>}, MaxFrames <- 8, Values <- {0}, Stored <- {0},
    KernelWrites <- TRUE,
    pmm <- pool_pmm, mem <- pool_mem, as <- pool_as, heap_end <- pool_heap_end,
    life <- pool_life, lost <- pool_lost, halted <- pool_halted
poolVars == <<pool_pmm, pool_mem, pool_as, pool_heap_end, pool_life, pool_lost, pool_halted>>

\* Two names at two levels; a subdirectory is full with its second file.
MCPaths == {<<"A">>, <<"B">>, <<"A", "A">>, <<"A", "B">>}
MCProtected == {<<"A">>}
MCContents == {<<"x">>, <<"y", "x">>}

Symmetry == Permutations(Procs)

\* The variables of every component but c.
Others(c) ==
    /\ c # "frames" => UNCHANGED bootVars
    /\ c # "pool" => UNCHANGED poolVars
    /\ c # "memory" => UNCHANGED memVars
    /\ c # "heap" => UNCHANGED kvars
    /\ c # "cache" => UNCHANGED pcvars
    /\ c # "disk" => UNCHANGED fatVars
    /\ c # "stream" => UNCHANGED streamVars
    /\ c # "stdout" => UNCHANGED stdoutVars

Components == {"frames", "pool", "memory", "heap", "cache", "disk", "stream", "stdout"}

StorageInit ==
    /\ which \in Components
    /\ Boot!PmmInit /\ Pool!MemInit /\ MemInit /\ HeapInit /\ CacheInit /\ FatInit
    /\ StreamInit /\ (which # "stream" => content = <<>>)
    /\ StdoutInit

StorageNext ==
    /\ UNCHANGED which
    /\ \/ which = "frames" /\ Boot!PmmNext /\ Others("frames")
       \/ which = "pool" /\ Pool!MemNext /\ Others("pool")
       \/ which = "memory" /\ MemNext /\ Others("memory")
       \/ which = "heap" /\ HeapNext /\ Others("heap")
       \/ which = "cache" /\ CacheNext /\ Others("cache")
       \/ which = "disk" /\ FatNext /\ Others("disk")
       \/ which = "stream" /\ StreamNext /\ Others("stream")
       \/ which = "stdout" /\ StdoutNext /\ Others("stdout")

storageVars == <<which, bootVars, poolVars, memVars, kvars, pcvars, fatVars, stdioVars>>
StorageSpec == StorageInit /\ [][StorageNext]_storageVars

-----------------------------------------------------------------------------
(* The properties of the components, each looked at while its component    *)
(* moves.  LookupFindsNewest of PageCache is checked as it is: a component *)
(* at rest satisfies it.                                                   *)

\* The counters, the bitmap and used_frames_ agree with each other and with what
\* the callers of the manager hold; areas of alloc_blocks and frames of
\* alloc_frame are apart (Pmm).
FramesExact == which = "frames" => Boot!FramesExact

\* Fork, copy-on-write, sys_mmap, sys_sbrk, exit and their failures account for
\* every frame (FramesAccounted of Memory).
PoolAccounted == which = "pool" => Pool!FramesAccounted

\* What the processes see of shared frames is memory of their own: every step is
\* one of PrivateMemory or none (MemoryIsPrivate of Memory).
ProcessesApart ==
    PM!PMInit /\ [][which = "memory" => [PM!PMNext]_(PM!pmVars)]_storageVars

\* What kmalloc returns is the caller's alone (BlocksApart of Kmalloc).
HeapBlocksApart == which = "heap" => BlocksApart

\* After any operations and power failures the chains of the volume are apart
\* and no directory has a name twice (ChainsApart, NamesUnique of Fat16).
VolumeSound == which = "disk" => ChainsApart /\ NamesUnique

\* Every operation, and every crash in the middle of one, is a step of the tree
\* of files of FileStore (FilesKept of Fat16).
VolumeKeepsFiles ==
    TreeStore!StoreInit /\ [][which = "disk" => [TreeStore!StoreNext]_(TreeStore!storeVars)]_storageVars

\* Streams and standard output lose, repeat and reorder nothing (StreamsInOrder
\* of Stdio).
StreamsKeepOrder == which \in {"stream", "stdout"} => StreamsInOrder
=============================================================================
