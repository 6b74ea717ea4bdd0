------------------------------ MODULE PageCache ------------------------------
(***************************************************************************)
(* Pages of files mapped for reading, and the cache of the frames that     *)
(* hold them (page_cache.cpp, and the part of handle_page_fault in vmm.cpp *)
(* that serves file mappings).                                             *)
(*                                                                         *)
(* A key is the first cluster of a file and a page number.  The cache is   *)
(* one array; a key may sit in one of four slots from its hash on.  The    *)
(* cache holds a frame number and no reference to the frame, and nothing   *)
(* ever calls PageCache::invalidate.                                       *)
(***************************************************************************)
EXTENDS Integers, FiniteSets

CONSTANTS
    Inodes, MapPages,   \* first clusters of files; page numbers of a mapping
    PAGE_CACHE_SIZE,    \* a power of two
    HashFactor,         \* 2654435761 modulo PAGE_CACHE_SIZE
    CacheFrames,        \* frame numbers, from 1 on
    MapTasks            \* processes

ASSUME CacheAssumption ==
    /\ PAGE_CACHE_SIZE \in Nat \ {0} /\ HashFactor \in Nat
    /\ Inodes \subseteq Nat /\ MapPages \subseteq Nat
    /\ CacheFrames \subseteq Nat \ {0}

VARIABLES
    entries_,           \* the cache
    refcounts_,         \* references to every frame
    bitmap_,            \* the frames that are not free to be given out
    holds,              \* what is in every frame
    mapped,             \* for every process, its mapped files and their pages
    newest              \* history: the frame inserted last for every key

pcvars == <<entries_, refcounts_, bitmap_, holds, mapped, newest>>

Keys == Inodes \X MapPages
NoFrame == 0
Invalid == <<>>
Slots == 0 .. PAGE_CACHE_SIZE - 1
Ways == 0 .. 3

hash(k) == (k[1] * HashFactor + k[2]) % PAGE_CACHE_SIZE
Probe(k, i) == (hash(k) + i) % PAGE_CACHE_SIZE
LeastOf(S) == CHOOSE x \in S : \A y \in S : x <= y

\* The frame of the first slot that holds the key.
lookup(k) ==
    LET hits == {i \in Ways : entries_[Probe(k, i)] # Invalid /\ entries_[Probe(k, i)].key = k}
    IN  IF hits = {} THEN NoFrame ELSE entries_[Probe(k, LeastOf(hits))].frame

\* The key is left as it was when the first slot is taken over.
insert_KeepsKey(k, f) ==
    LET fits == {i \in Ways : entries_[Probe(k, i)] = Invalid}
        i == IF fits = {} THEN 0 ELSE LeastOf(fits)
        old == entries_[Probe(k, i)]
    IN  [entries_ EXCEPT ![Probe(k, i)] =
            [key |-> IF old = Invalid THEN k ELSE old.key, frame |-> f]]

\* The first slot that is free or has the key; the first of all if none is.
insert(k, f) ==
    LET fits == {i \in Ways : entries_[Probe(k, i)] = Invalid \/ entries_[Probe(k, i)].key = k}
        i == IF fits = {} THEN 0 ELSE LeastOf(fits)
    IN  [entries_ EXCEPT ![Probe(k, i)] = [key |-> k, frame |-> f]]
-----------------------------------------------------------------------------
FreeFrames == CacheFrames \ bitmap_

\* A fault on page o of the mapped file i, with the file already in the cache:
\* the frame gets one more reference, whoever has it now, and even if it is free.
FaultCached(p, i, o) ==
    /\ i \in DOMAIN mapped[p] /\ mapped[p][i][o] = NoFrame
    /\ lookup(<<i, o>>) # NoFrame
    /\ refcounts_' = [refcounts_ EXCEPT ![lookup(<<i, o>>)] = @ + 1]
    /\ mapped' = [mapped EXCEPT ![p][i][o] = lookup(<<i, o>>)]
    /\ UNCHANGED <<entries_, bitmap_, holds, newest>>

\* Otherwise a free frame is filled from the file and entered in the cache.
FaultRead(p, i, o) ==
    /\ i \in DOMAIN mapped[p] /\ mapped[p][i][o] = NoFrame
    /\ lookup(<<i, o>>) = NoFrame
    /\ FreeFrames # {}
    /\ LET f == LeastOf(FreeFrames) IN
        /\ refcounts_' = [refcounts_ EXCEPT ![f] = 1]
        /\ bitmap_' = bitmap_ \cup {f}
        /\ holds' = [holds EXCEPT ![f] = <<i, o>>]
        /\ entries_' = insert(<<i, o>>, f)
        /\ newest' = [newest EXCEPT ![<<i, o>>] = f]
        /\ mapped' = [mapped EXCEPT ![p][i][o] = f]

\* sys_mmap of a file for reading; pages come with the faults.
Map(p, i) ==
    /\ i \notin DOMAIN mapped[p]
    /\ mapped' = [mapped EXCEPT ![p] = [j \in DOMAIN @ \cup {i} |->
                     IF j = i THEN [o \in MapPages |-> NoFrame] ELSE @[j]]]
    /\ UNCHANGED <<entries_, refcounts_, bitmap_, holds, newest>>

\* sys_munmap, or the end of the process: a reference less for every page, and
\* the frames whose last one goes are free.
UnmapFile(p, i) ==
    /\ i \in DOMAIN mapped[p]
    /\ LET n(f) == Cardinality({o \in MapPages : mapped[p][i][o] = f}) IN
        /\ refcounts_' = [f \in CacheFrames |->
               IF refcounts_[f] > n(f) THEN refcounts_[f] - n(f) ELSE 0]
        /\ bitmap_' = {f \in bitmap_ : n(f) = 0 \/ refcounts_[f] > n(f)}
    /\ mapped' = [mapped EXCEPT ![p] = [j \in DOMAIN @ \ {i} |-> @[j]]]
    /\ UNCHANGED <<entries_, holds, newest>>

\* Anybody else takes a frame and writes to it.
TakeFrame ==
    /\ FreeFrames # {}
    /\ refcounts_' = [refcounts_ EXCEPT ![LeastOf(FreeFrames)] = 1]
    /\ bitmap_' = bitmap_ \cup {LeastOf(FreeFrames)}
    /\ holds' = [holds EXCEPT ![LeastOf(FreeFrames)] = Invalid]
    /\ UNCHANGED <<entries_, mapped, newest>>

CacheInit ==
    /\ entries_ = [s \in Slots |-> Invalid]
    /\ refcounts_ = [f \in CacheFrames |-> 0] /\ bitmap_ = {}
    /\ holds = [f \in CacheFrames |-> Invalid]
    /\ mapped = [p \in MapTasks |-> [i \in {} |-> NoFrame]]
    /\ newest = [k \in Keys |-> NoFrame]

CacheNext ==
    \/ TakeFrame
    \/ \E p \in MapTasks, i \in Inodes :
        \/ Map(p, i) \/ UnmapFile(p, i)
        \/ \E o \in MapPages : FaultCached(p, i, o) \/ FaultRead(p, i, o)

CacheSpec == CacheInit /\ [][CacheNext]_pcvars
-----------------------------------------------------------------------------
\* Whatever was overwritten in between, a look-up finds the frame inserted last
\* for its key, or nothing: never an older frame, never one of another key.
LookupFindsNewest == \A k \in Keys : lookup(k) \in {NoFrame, newest[k]}

\* Every page of a file mapping shows that page of the file: the cache shares
\* "phys_frame" of "read-only" pages by "vnode+offset" (PROJECT_PLAN.md, 9.2).
MappedShowsFile ==
    \A p \in MapTasks : \A i \in DOMAIN mapped[p], o \in MapPages :
        mapped[p][i][o] # NoFrame => holds[mapped[p][i][o]] = <<i, o>>
=============================================================================
