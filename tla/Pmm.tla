-------------------------------- MODULE Pmm --------------------------------
(***************************************************************************)
(* The physical memory manager (kernel/src/pmm.cpp): a bitmap of frames,   *)
(* one reference counter of 8 bits per frame, and a count of used frames.  *)
(* A frame is its number; addresses are frame numbers times 4096.  The     *)
(* manager is the record `pmm', so that other modules can reuse the        *)
(* operators; the actions at the end are its calls, made by callers that   *)
(* give back what they hold and nothing else.  The calls are atomic here:  *)
(* PmmPreempt looks at callers that can be preempted.                      *)
(***************************************************************************)
EXTENDS Integers, FiniteSets

CONSTANTS
    MaxFrames,      \* max_frames_
    WordBits,       \* 32: frames per word of the bitmap
    Region,         \* the frames kernel_main passes to set_region_free
    MaxRef,         \* 255: where inc_ref stops
    Counts          \* the sizes alloc_blocks is asked for

\* What the sizes of the machine are like: the region is part of the memory.
PmmAssumption ==
    /\ MaxFrames \in Nat
    /\ WordBits \in Nat \ {0}
    /\ Region \subseteq 0..(MaxFrames - 1)
    /\ MaxRef \in Nat
    /\ Counts \subseteq Nat \ {0}

VARIABLES
    pmm,            \* memory_bitmap_, refcounts_, used_frames_
    held,           \* how many references to a frame the callers hold
    areas           \* the frames handed out by alloc_blocks

pmmVars == <<pmm, held, areas>>

Frames == 0..(MaxFrames - 1)

\* get_first_free_frame looks at whole words only.
Scanned == 0..((MaxFrames \div WordBits) * WordBits - 1)

-----------------------------------------------------------------------------
\* init marks everything used, set_region_free frees the region.
BootPmm ==
    [bitmap |-> [f \in Frames |-> f \notin Region],
     refcounts |-> [f \in Frames |-> 0],
     used |-> MaxFrames - Cardinality(Region)]

\* get_first_free_frame
FreeFrames(m) == {f \in Scanned : ~m.bitmap[f]}
FirstFreeFrame(m) == CHOOSE f \in FreeFrames(m) : \A g \in FreeFrames(m) : f <= g

\* alloc_frame returns nullptr without free memory or without a free frame.
CanAlloc(m) == m.used # MaxFrames /\ FreeFrames(m) # {}
\* Mutant: the counter of a new frame is not set.
Claim_NoCount(m, f) == [m EXCEPT !.bitmap[f] = TRUE, !.used = @ + 1]

Claim(m, f) ==
    [m EXCEPT !.bitmap[f] = TRUE, !.refcounts[f] = 1, !.used = @ + 1]
AllocFrame(m) == Claim(m, FirstFreeFrame(m))

\* get_free_blocks: the first run of n free frames; one frame is looked for
\* by get_first_free_frame.
Run(s, n) == s..(s + n - 1)
\* Mutant: the last frame of the run is not looked at.
FreeRuns_OffByOne(m, n) ==
    {s \in Frames : s + n <= MaxFrames /\ \A f \in Run(s, n - 1) : ~m.bitmap[f]}

FreeRuns(m, n) ==
    IF n = 1 THEN FreeFrames(m)
    ELSE {s \in Frames : s + n <= MaxFrames /\ \A f \in Run(s, n) : ~m.bitmap[f]}
FirstRun(m, n) == CHOOSE s \in FreeRuns(m, n) : \A r \in FreeRuns(m, n) : s <= r

\* alloc_blocks marks the run used; it leaves the counters of its frames at 0.
CanAllocBlocks(m, n) == MaxFrames - m.used >= n /\ FreeRuns(m, n) # {}
\* Mutant: the whole run is counted as one frame.
AllocBlocks_CountsOne(m, n) ==
    [m EXCEPT !.bitmap = [f \in Frames |-> @[f] \/ f \in Run(FirstRun(m, n), n)],
              !.used = @ + 1]

AllocBlocks(m, n) ==
    [m EXCEPT !.bitmap = [f \in Frames |-> @[f] \/ f \in Run(FirstRun(m, n), n)],
              !.used = @ + n]

\* Mutant: the first reference given back frees the frame.
FreeFrame_AtOnce(m, f) ==
    [m EXCEPT !.refcounts[f] = 0, !.bitmap[f] = FALSE, !.used = @ - 1]

\* free_frame, and dec_ref, which is the same: the last reference frees.
FreeFrame(m, f) ==
    IF m.refcounts[f] > 1
    THEN [m EXCEPT !.refcounts[f] = @ - 1]
    ELSE [m EXCEPT !.refcounts[f] = 0, !.bitmap[f] = FALSE, !.used = @ - 1]

\* inc_ref stops counting at 255.
IncRef(m, f) ==
    IF m.refcounts[f] < MaxRef THEN [m EXCEPT !.refcounts[f] = @ + 1] ELSE m

-----------------------------------------------------------------------------
PmmInit ==
    /\ pmm = BootPmm
    /\ held = [f \in Frames |-> 0]
    /\ areas = {}

alloc_frame ==
    /\ CanAlloc(pmm)
    /\ pmm' = AllocFrame(pmm)
    /\ held' = [held EXCEPT ![FirstFreeFrame(pmm)] = @ + 1]
    /\ UNCHANGED areas

\* kmalloc and the disk drivers keep their areas for good.
alloc_blocks(n) ==
    /\ CanAllocBlocks(pmm, n)
    /\ pmm' = AllocBlocks(pmm, n)
    /\ areas' = areas \cup Run(FirstRun(pmm, n), n)
    /\ UNCHANGED held

\* A caller shares a frame it holds.  MaxRef is also the bound on how many
\* references the callers of this module make.
inc_ref(f) ==
    /\ held[f] > 0 /\ held[f] < MaxRef
    /\ pmm' = IncRef(pmm, f)
    /\ held' = [held EXCEPT ![f] = @ + 1]
    /\ UNCHANGED areas

free_frame(f) ==
    /\ held[f] > 0
    /\ pmm' = FreeFrame(pmm, f)
    /\ held' = [held EXCEPT ![f] = @ - 1]
    /\ UNCHANGED areas

PmmNext ==
    \/ alloc_frame
    \/ \E n \in Counts : alloc_blocks(n)
    \/ \E f \in Frames : inc_ref(f) \/ free_frame(f)

PmmSpec == PmmInit /\ [][PmmNext]_pmmVars

-----------------------------------------------------------------------------
(* Properties *)

\* The counter of a frame is the number of references its holders have.
RefcountsExact == \A f \in Frames : pmm.refcounts[f] = held[f]

\* A frame is marked used exactly when somebody has it: a holder, the heap or
\* a driver through alloc_blocks, or the firmware and the kernel outside the
\* region.  So no frame is handed out while it is in use, and none is lost.
BitmapExact ==
    \A f \in Frames : pmm.bitmap[f] <=> (held[f] > 0 \/ f \in areas \/ f \notin Region)

\* used_frames_, by which alloc_frame decides that memory is full, is the
\* number of set bits.
UsedFramesExact == pmm.used = Cardinality({f \in Frames : pmm.bitmap[f]})

\* alloc_blocks never returns frames that are in somebody's hands, nor
\* alloc_frame frames of an area.
AreasUnshared == \A f \in areas : held[f] = 0

\* After any calls of alloc_frame, alloc_blocks, inc_ref and free_frame the
\* counters, the bitmap and used_frames_ say the same, and it is what the
\* callers hold.
FramesExact == RefcountsExact /\ BitmapExact /\ UsedFramesExact /\ AreasUnshared
=============================================================================
