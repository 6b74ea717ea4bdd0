------------------------------- MODULE Memory -------------------------------
(***************************************************************************)
(* The virtual memory of user processes: page directories and page tables  *)
(* (kernel/src/vmm.cpp), copy-on-write (kernel/src/cow.cpp), and the       *)
(* system calls that map and unmap memory, on top of the frames of Pmm.    *)
(* All of it runs with interrupts off, so each handler is one action; what *)
(* runs between two actions of a process is another process.               *)
(*                                                                         *)
(* Only the user half of an address space is modelled: the kernel's        *)
(* entries are the same in every directory.  A page table entry is its     *)
(* frame and its mode: "rw" (WRITABLE), "cow" (COW, not WRITABLE) or "ro". *)
(* The contents of a frame are one value.  Which frames hold directories   *)
(* and page tables does not matter here, only how many there are: they are *)
(* counted in used_frames_ and have no number.                             *)
(***************************************************************************)
EXTENDS Integers, FiniteSets, SequencesExt

CONSTANTS
    Procs,          \* thread slots that hold user processes
    NumHeapPages,   \* the heap is the pages 0..NumHeapPages-1
    Areas,          \* sequences of pages sys_mmap hands out
    PagesPerTable,  \* 1024
    MaxFrames,      \* frames in all, and the numbers of those mapped
    MaxRef,         \* 255, as in Pmm
    Values,         \* contents of a frame; 0 where nobody has written
    Stored,         \* those that programs store
    KernelWrites    \* do system calls store through user pointers?

HeapPages == 0..(NumHeapPages - 1)
Pages == HeapPages \cup UNION {ToSet(a) : a \in Areas}
TableOf(v) == v \div PagesPerTable
Tables == {TableOf(v) : v \in Pages}

ASSUME MemoryAssumption ==
    /\ NumHeapPages \in Nat
    /\ Pages \subseteq Nat
    /\ PagesPerTable \in Nat \ {0}
    /\ 0 \in Values /\ Stored \subseteq Values
    /\ KernelWrites \in BOOLEAN

VARIABLES
    pmm,            \* the frames, as in Pmm
    mem,            \* the contents of the frames that some page maps
    as,             \* the address spaces: their page tables and entries
    heap_end,       \* heap pages the process may touch
    life,           \* "none", "live", or "dead": Terminated, not yet swept
    lost,           \* frames dropped without being given back
    halted          \* the kernel stopped: cli; hlt

memVars == <<pmm, mem, as, heap_end, life, lost, halted>>

None == -1
NoPage == [frame |-> None, mode |-> "ro"]
NoSpace == [pt |-> {}, pte |-> [v \in Pages |-> NoPage]]

\* The entries that refer to a frame: what the callers of Pmm hold.
References ==
    [f \in 0..(MaxFrames - 1) |->
        Cardinality({x \in Procs \X Pages : as[x[1]].pte[x[2]].frame = f})]

P == INSTANCE Pmm WITH held <- References, areas <- {}, Counts <- {},
                       Region <- 0..(MaxFrames - 1), WordBits <- 1

Frames == P!Frames
Mapped(s) == {v \in Pages : s.pte[v].frame # None}
Runs(p) == life[p] = "live" /\ ~halted
FreeSlot(p) == life[p] = "none" /\ ~halted

\* alloc_frame and free_frame, for a directory or a page table
AllocTable(m) == [m EXCEPT !.used = @ + 1]
FreeTables(m, n) == [m EXCEPT !.used = @ - n]

-----------------------------------------------------------------------------
(* Page tables *)

\* map_page allocates the page table if there is none.  It returns nothing:
\* when there is no frame for the table the page just is not mapped.
NeedsTable(s, v) == TableOf(v) \notin s.pt
CanMap(m, s, v) == NeedsTable(s, v) => P!CanAlloc(m)
map_page(m, s, v, f, mode) ==
    [m |-> IF NeedsTable(s, v) THEN AllocTable(m) ELSE m,
     s |-> [pt |-> s.pt \cup {TableOf(v)},
            pte |-> [s.pte EXCEPT ![v] = [frame |-> f, mode |-> mode]]]]

\* get_physical, unmap_page and free_frame, one page after the other
Unmap(m, s, S) ==
    [m |-> FoldSet(LAMBDA v, k : P!FreeFrame(k, s.pte[v].frame), m, S \cap Mapped(s)),
     s |-> [s EXCEPT !.pte = [v \in Pages |-> IF v \in S THEN NoPage ELSE @[v]]]]

\* destroy_address_space: the pages, the tables, the directory
destroy_address_space(m, s) ==
    FreeTables(Unmap(m, s, Pages).m, Cardinality(s.pt) + 1)

-----------------------------------------------------------------------------
(* cow_clone_directory *)

PagesOf(s, t) == {v \in Mapped(s) : TableOf(v) = t}

\* Mutant: the parent keeps its pages writable.
CloneTable_ParentWrites(c, t) ==
    IF ~P!CanAlloc(c.m) THEN [c EXCEPT !.ok = FALSE]
    ELSE [c EXCEPT
            !.m = FoldSet(LAMBDA v, k : P!IncRef(k, c.s.pte[v].frame),
                          AllocTable(c.m), PagesOf(c.s, t)),
            !.n.pt = @ \cup {t},
            !.n.pte = [v \in Pages |->
                IF v \notin PagesOf(c.s, t) THEN @[v]
                ELSE IF c.s.pte[v].mode = "rw" THEN [c.s.pte[v] EXCEPT !.mode = "cow"]
                ELSE c.s.pte[v]]]

\* One page table: writable pages become copy-on-write on both sides, the
\* others are copied as they are, and every frame is counted once more.
CloneTable(c, t) ==
    IF ~P!CanAlloc(c.m) THEN [c EXCEPT !.ok = FALSE]
    ELSE LET shared == [v \in Pages |->
                 IF v \in PagesOf(c.s, t) /\ c.s.pte[v].mode = "rw"
                 THEN [c.s.pte[v] EXCEPT !.mode = "cow"] ELSE c.s.pte[v]]
         IN  [c EXCEPT
                !.m = FoldSet(LAMBDA v, k : P!IncRef(k, c.s.pte[v].frame),
                              AllocTable(c.m), PagesOf(c.s, t)),
                !.s.pte = shared,
                !.n.pt = @ \cup {t},
                !.n.pte = [v \in Pages |-> IF v \in PagesOf(c.s, t)
                                           THEN shared[v] ELSE @[v]]]

\* Mutant: the undoing forgets the tables cloned so far.
Rollback_KeepsTables(c) ==
    [c EXCEPT !.m = FreeTables(Unmap(c.m, c.n, Pages).m, 1), !.n = NoSpace]

\* Without a frame for a table the clone is undone: the frames it counted are
\* released, and the source page of every copy-on-write entry of the clone is
\* made writable.
Rollback(c) ==
    [c EXCEPT
        !.m = destroy_address_space(c.m, c.n),
        !.s.pte = [v \in Pages |->
            IF c.n.pte[v].mode = "cow" THEN [c.s.pte[v] EXCEPT !.mode = "rw"]
            ELSE c.s.pte[v]],
        !.n = NoSpace]

cow_clone_directory(m, s) ==
    LET start == [m |-> AllocTable(m), s |-> s, n |-> NoSpace, ok |-> TRUE]
        present == SetToSortSeq(s.pt, LAMBDA a, b : a < b)
        clone == FoldLeft(LAMBDA c, t : IF c.ok THEN CloneTable(c, t) ELSE c,
                          start, present)
    IN  IF ~P!CanAlloc(m) THEN [m |-> m, s |-> s, n |-> NoSpace, ok |-> FALSE]
        ELSE IF clone.ok THEN clone ELSE Rollback(clone)

-----------------------------------------------------------------------------
MemInit ==
    /\ pmm = P!BootPmm
    /\ mem = [f \in Frames |-> 0]
    /\ as = [p \in Procs |-> NoSpace]
    /\ heap_end = [p \in Procs |-> 0]
    /\ life = [p \in Procs |-> "none"]
    /\ lost = 0
    /\ halted = FALSE

\* create_address_space, by the ELF loader for a new process
create_address_space(p) ==
    /\ FreeSlot(p)
    /\ P!CanAlloc(pmm)
    /\ pmm' = AllocTable(pmm)
    /\ life' = [life EXCEPT ![p] = "live"]
    /\ UNCHANGED <<mem, as, heap_end, lost, halted>>

\* sys_fork; when the clone fails the call returns -1 and the slot stays free.
sys_fork(p, q) ==
    /\ Runs(p) /\ FreeSlot(q)
    /\ \E c \in {cow_clone_directory(pmm, as[p])} :
        /\ pmm' = c.m
        /\ as' = [as EXCEPT ![p] = c.s, ![q] = c.n]
        /\ life' = [life EXCEPT ![q] = IF c.ok THEN "live" ELSE @]
        /\ heap_end' = [heap_end EXCEPT ![q] = IF c.ok THEN heap_end[p] ELSE @]
    /\ UNCHANGED <<mem, lost, halted>>

\* Nothing is remembered of a frame that no page maps any more: whoever maps
\* it next may find anything in it.
Kept(c) ==
    [f \in Frames |->
        IF \E p \in Procs, v \in Pages : as'[p].pte[v].frame = f THEN c[f] ELSE 0]

\* destroy_address_space, by sys_exit or by the sweep of a terminated thread
Destroy(p) ==
    /\ pmm' = destroy_address_space(pmm, as[p])
    /\ as' = [as EXCEPT ![p] = NoSpace]
    /\ heap_end' = [heap_end EXCEPT ![p] = 0]
    /\ life' = [life EXCEPT ![p] = "none"]
    /\ mem' = Kept(mem)
    /\ UNCHANGED <<lost, halted>>

sys_exit(p) == Runs(p) /\ Destroy(p)
thread_cleanup(p) == life[p] = "dead" /\ ~halted /\ Destroy(p)

\* A thread is terminated: killed by another, or by a fault it cannot handle.
Terminate(p) ==
    /\ life' = [life EXCEPT ![p] = "dead"]
    /\ UNCHANGED <<pmm, mem, as, heap_end, lost, halted>>
thread_terminate(p) == Runs(p) /\ Terminate(p)

Halt ==
    /\ halted' = TRUE
    /\ UNCHANGED <<pmm, mem, as, heap_end, life, lost>>

-----------------------------------------------------------------------------
(* Faults and stores *)

\* A store through a writable entry.
Store(p, v, x) ==
    /\ mem' = [mem EXCEPT ![as[p].pte[v].frame] = x]
    /\ UNCHANGED <<pmm, as, heap_end, life, lost, halted>>

store(p, v, x) ==
    /\ Runs(p)
    /\ v \in Mapped(as[p]) /\ as[p].pte[v].mode = "rw"
    /\ Store(p, v, x)

\* A system call stores a result in the caller's memory.  CR0.WP is off, so
\* the processor does not look at the WRITABLE bit of the entry.
copy_to_user(p, v, x) ==
    /\ KernelWrites
    /\ Runs(p)
    /\ v \in Mapped(as[p])
    /\ Store(p, v, x)

\* cow_handle_fault: a user store to a present page that is not writable.
OnlyReference(f) == pmm.refcounts[f] = 1
\* Mutant: the new frame is mapped without the contents of the old one.
CowCopy_NoCopy(p, v) ==
    \E old \in {as[p].pte[v].frame}, new \in {P!FirstFreeFrame(pmm)} :
        /\ pmm' = P!FreeFrame(P!AllocFrame(pmm), old)
        /\ as' = [as EXCEPT ![p].pte[v] = [frame |-> new, mode |-> "rw"]]
        /\ UNCHANGED <<mem, heap_end, life, lost, halted>>

CowCopy(p, v) ==
    \E old \in {as[p].pte[v].frame}, new \in {P!FirstFreeFrame(pmm)} :
        /\ mem' = [mem EXCEPT ![new] = mem[old]]
        /\ pmm' = P!FreeFrame(P!AllocFrame(pmm), old)
        /\ as' = [as EXCEPT ![p].pte[v] = [frame |-> new, mode |-> "rw"]]
        /\ UNCHANGED <<heap_end, life, lost, halted>>

cow_handle_fault(p, v) ==
    /\ Runs(p)
    /\ v \in Mapped(as[p]) /\ as[p].pte[v].mode # "rw"
    /\ \/ /\ as[p].pte[v].mode = "ro"
          /\ Terminate(p)
       \/ /\ as[p].pte[v].mode = "cow"
          /\ OnlyReference(as[p].pte[v].frame)
          /\ as' = [as EXCEPT ![p].pte[v].mode = "rw"]
          /\ UNCHANGED <<pmm, mem, heap_end, life, lost, halted>>
       \/ /\ as[p].pte[v].mode = "cow"
          /\ ~OnlyReference(as[p].pte[v].frame)
          /\ IF P!CanAlloc(pmm) THEN CowCopy(p, v) ELSE Terminate(p)

\* handle_page_fault on a heap page: the frame is mapped as it is, with
\* whatever its last user left in it.  Without a frame the machine stops;
\* without one for the page table the frame is dropped and the fault is taken
\* again.
heap_fault(p, v) ==
    /\ Runs(p)
    /\ v < heap_end[p] /\ v \notin Mapped(as[p])
    /\ \/ /\ ~P!CanAlloc(pmm)
          /\ Halt
       \/ /\ P!CanAlloc(pmm)
          /\ \E f \in {P!FirstFreeFrame(pmm)}, m \in {P!AllocFrame(pmm)} :
               IF CanMap(m, as[p], v)
               THEN \E w \in {map_page(m, as[p], v, f, "rw")} :
                      /\ pmm' = w.m
                      /\ as' = [as EXCEPT ![p] = w.s]
                      /\ \E x \in Values : mem' = [mem EXCEPT ![f] = x]
                      /\ UNCHANGED lost
               ELSE /\ pmm' = AllocTable(pmm)
                    /\ lost' = lost + 1
                    /\ UNCHANGED <<mem, as>>
          /\ UNCHANGED <<heap_end, life, halted>>

-----------------------------------------------------------------------------
(* sys_sbrk, sys_mmap, sys_munmap *)

\* Shrinking the heap frees the pages above its new end.
sys_sbrk(p, n) ==
    /\ Runs(p)
    /\ n # heap_end[p]
    /\ heap_end' = [heap_end EXCEPT ![p] = n]
    /\ \E u \in {Unmap(pmm, as[p], {v \in HeapPages : n <= v /\ v < heap_end[p]})} :
        /\ pmm' = u.m
        /\ as' = [as EXCEPT ![p] = u.s]
    /\ mem' = Kept(mem)
    /\ UNCHANGED <<life, lost, halted>>

\* One page of an anonymous mapping: a frame, its entry, and zeroes stored
\* through it.  Without a frame for the page table the zeroes fault inside
\* the kernel.
MmapPage(b, v, mode) ==
    IF b.status # "ok" THEN b
    ELSE IF ~P!CanAlloc(b.m) THEN [b EXCEPT !.status = "oom"]
    ELSE LET f == P!FirstFreeFrame(b.m)
             m == P!AllocFrame(b.m)
             w == map_page(m, b.s, v, f, mode)
         IN  IF CanMap(m, b.s, v)
             THEN [b EXCEPT !.m = w.m, !.s = w.s, !.done = @ \cup {v}, !.mem[f] = 0]
             ELSE [b EXCEPT !.status = "panic"]

\* When the frames run out the pages mapped so far are unmapped again.
sys_mmap(p, a, mode) ==
    /\ Runs(p)
    /\ ToSet(a) \cap Mapped(as[p]) = {}
    /\ \E b \in {FoldLeft(LAMBDA b, v : MmapPage(b, v, mode),
                          [m |-> pmm, s |-> as[p], mem |-> mem,
                           done |-> {}, status |-> "ok"], a)} :
        \/ /\ b.status = "panic"
           /\ Halt
        \/ /\ b.status # "panic"
           /\ \E u \in {Unmap(b.m, b.s, IF b.status = "oom" THEN b.done ELSE {})} :
                /\ pmm' = u.m
                /\ as' = [as EXCEPT ![p] = u.s]
           /\ mem' = Kept(b.mem)
           /\ UNCHANGED <<heap_end, life, lost, halted>>

sys_munmap(p, a) ==
    /\ Runs(p)
    /\ \E u \in {Unmap(pmm, as[p], ToSet(a))} :
        /\ pmm' = u.m
        /\ as' = [as EXCEPT ![p] = u.s]
    /\ mem' = Kept(mem)
    /\ UNCHANGED <<heap_end, life, lost, halted>>

MemNext ==
    \E p \in Procs :
        \/ create_address_space(p)
        \/ \E q \in Procs \ {p} : sys_fork(p, q)
        \/ sys_exit(p)
        \/ thread_cleanup(p)
        \/ thread_terminate(p)
        \/ \E v \in Pages : cow_handle_fault(p, v)
        \/ \E v \in Pages, x \in Stored : store(p, v, x) \/ copy_to_user(p, v, x)
        \/ \E v \in HeapPages : heap_fault(p, v)
        \/ \E n \in 0..NumHeapPages : sys_sbrk(p, n)
        \/ \E a \in Areas : sys_munmap(p, a) \/ \E mode \in {"rw", "ro"} : sys_mmap(p, a, mode)

MemSpec == MemInit /\ [][MemNext]_memVars

-----------------------------------------------------------------------------
(* Properties *)

\* Every frame is counted once for each entry that maps it, and is free
\* exactly when none does; and used_frames_ is the number of those frames,
\* of the directories and tables, and of the frames map_page dropped.  Fork,
\* copy-on-write, exit, their failures and the undoing of them neither leak
\* a frame nor free one that is still mapped.
Alive == {p \in Procs : life[p] # "none"}
PageFrames == Cardinality(Alive)
              + Cardinality({x \in Procs \X Tables : x[2] \in as[x[1]].pt})
FramesAccounted ==
    /\ P!RefcountsExact
    /\ P!BitmapExact
    /\ pmm.used = Cardinality({f \in Frames : pmm.bitmap[f]}) + PageFrames + lost

\* What the processes see behaves as if each had memory of its own: the
\* sharing of frames after fork is not observable (PrivateMemory).
Absent == -1
View == [p \in Procs |-> [v \in Pages |->
            IF v \in Mapped(as[p]) THEN mem[as[p].pte[v].frame] ELSE Absent]]
PM == INSTANCE PrivateMemory WITH space <- View, alive <- Alive, Values <- Stored
MemoryIsPrivate == PM!PMSpec
=============================================================================
