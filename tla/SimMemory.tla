------------------------------ MODULE SimMemory ------------------------------
(***************************************************************************)
(* Paging and swap of the simulator (memory_manager.cpp).                  *)
(*                                                                         *)
(* mem is the MemoryManager: what every frame and every swap slot holds (a *)
(* process and a page, or nothing) and the page tables.  The frames the    *)
(* kernel reserves never change hands and are left out, as are addresses   *)
(* within a page, the dirty and referenced bits, the statistics and the    *)
(* swap log.  FIFO, LRU and OPT are one nondeterministic choice of the     *)
(* victim: every order of accesses makes some frame the oldest.            *)
(***************************************************************************)
EXTENDS Integers, FiniteSets, Sequences, SequencesExt

CONSTANTS
    MemPids,            \* processes that ask for memory
    MemFrames,          \* frames above kernelFrames_
    SwapSlots,          \* 0 .. totalSwapSlots_ - 1
    MaxPages,           \* bound: pages of one request
    OnlyModest          \* only requests that cannot evict their own pages

VARIABLE mem

Unused == <<>>
NoSlot == -1            \* UINT32_MAX
Entry(page, frame) ==
    [page |-> page, frame |-> frame, present |-> TRUE, inSwap |-> FALSE, slot |-> NoSlot]

FreeFrames(m) == {f \in MemFrames : m.frames[f] = Unused}
FreeSlots(m) == {s \in DOMAIN m.slots : m.slots[s] = Unused}
Lowest(S) == CHOOSE x \in S : \A y \in S : x <= y
Highest(S) == CHOOSE x \in S : \A y \in S : x >= y

\* First fit and best fit take the lowest free frame, worst fit the highest.
findFreeFrame(m) == {Lowest(FreeFrames(m)), Highest(FreeFrames(m))}
selectVictimFrame(m) == MemFrames \ FreeFrames(m)
findFreeSwapSlot(m) == Lowest(FreeSlots(m))

\* The first entry of the process's table that Fits is replaced.
UpdateFirst(m, pid, Fits(_), New(_)) ==
    LET at == {i \in DOMAIN m.tables[pid] : Fits(m.tables[pid][i])}
    IN  IF pid \notin DOMAIN m.tables \/ at = {} THEN m
        ELSE [m EXCEPT !.tables[pid][Lowest(at)] = New(@)]

\* The page in frame goes to the swap if there is room, and is lost if not.
evictFrame(m, frame) ==
    LET old == m.frames[frame]
        slot == findFreeSwapSlot(m)
        swaps == m.swapEnabled /\ FreeSlots(m) # {}
        Fits(pte) == pte.page = old[2] /\ pte.frame = frame
        Saved(pte) == [pte EXCEPT !.present = FALSE, !.inSwap = TRUE, !.slot = slot]
        Lost(pte) == [pte EXCEPT !.present = FALSE,
                                 !.inSwap = IF m.swapEnabled THEN FALSE ELSE @]
    IN  IF swaps
        THEN [UpdateFirst(m, old[1], Fits, Saved) EXCEPT
                !.frames[frame] = Unused, !.slots[slot] = old]
        ELSE [UpdateFirst(m, old[1], Fits, Lost) EXCEPT !.frames[frame] = Unused]

\* The ways to come by a frame: pairs of the memory and the frame.
FrameTaken(m) ==
    IF FreeFrames(m) # {} THEN {<<m, f>> : f \in findFreeFrame(m)}
    ELSE {<<evictFrame(m, f), f>> : f \in selectVictimFrame(m)}

\* All frames are taken first, then the entries are made.
allocate(m, pid, pages) ==
    LET Take(ways, page) ==
          UNION {{<<[t[1] EXCEPT !.frames[t[2]] = <<pid, page>>],
                    Append(w[2], t[2])>> : t \in FrameTaken(w[1])} : w \in ways}
        taken == FoldLeft(Take, {<<m, <<>> >>}, [i \in 1 .. pages |-> i - 1])
        New(w) == [i \in 1 .. pages |-> Entry(i - 1, w[2][i])]
        Old(w) == IF pid \in DOMAIN w[1].tables THEN w[1].tables[pid] ELSE <<>>
    IN  {[w[1] EXCEPT !.tables =
            [p \in DOMAIN @ \cup {pid} |->
               IF p = pid THEN Old(w) \o New(w) ELSE @[p]]] : w \in taken}

freeSwapSlots(m, pid) ==
    [m EXCEPT !.slots = [s \in DOMAIN @ |->
        IF @[s] # Unused /\ @[s][1] = pid THEN Unused ELSE @[s]]]

deallocate(m, pid) ==
    [freeSwapSlots(m, pid) EXCEPT
       !.frames = [f \in DOMAIN @ |->
                     IF @[f] # Unused /\ @[f][1] = pid THEN Unused ELSE @[f]],
       !.tables = [p \in DOMAIN @ \ {pid} |-> @[p]]]

writeToSwap(m, pid, page, slot) == [m EXCEPT !.slots[slot] = <<pid, page>>]
loadPage(m, pid, page, frame) == [m EXCEPT !.frames[frame] = <<pid, page>>]

\* The slot is not given back.
readFromSwap_KeepSlot(m, slot, pid, page, frame) == loadPage(m, pid, page, frame)

readFromSwap(m, slot, pid, page, frame) ==
    [loadPage(m, pid, page, frame) EXCEPT !.slots[slot] = Unused]

\* A page that is not in a frame gets one, with what the swap kept of it.
PageIn(m, pid, i) ==
    LET pte == m.tables[pid][i]
        Loaded(t) == IF pte.inSwap
                     THEN readFromSwap(t[1], pte.slot, pid, pte.page, t[2])
                     ELSE loadPage(t[1], pid, pte.page, t[2])
    IN  {[Loaded(t) EXCEPT !.tables[pid][i] = Entry(pte.page, t[2])] : t \in FrameTaken(m)}

\* The entries of pid for a page; the loops of the code stop at the first.
EntriesOf(m, pid, page, Wanted(_)) ==
    IF pid \notin DOMAIN m.tables THEN {}
    ELSE {i \in DOMAIN m.tables[pid] :
            m.tables[pid][i].page = page /\ Wanted(m.tables[pid][i])}

accessMemory(m, pid, page) ==
    LET found == EntriesOf(m, pid, page, LAMBDA pte : TRUE)
    IN  IF found = {} \/ m.tables[pid][Lowest(found)].present THEN {m}
        ELSE PageIn(m, pid, Lowest(found))

swapInPage(m, pid, page) ==
    LET found == EntriesOf(m, pid, page, LAMBDA pte : pte.inSwap /\ ~pte.present)
    IN  IF found = {} THEN {m} ELSE PageIn(m, pid, Lowest(found))

swapOutPage(m, pid, page) ==
    LET found == EntriesOf(m, pid, page, LAMBDA pte : pte.present)
        i == Lowest(found)
        slot == findFreeSwapSlot(m)
    IN  IF ~m.swapEnabled \/ found = {} \/ FreeSlots(m) = {} THEN m
        ELSE [writeToSwap(m, pid, page, slot) EXCEPT
                !.frames[m.tables[pid][i].frame] = Unused,
                !.tables[pid][i].present = FALSE,
                !.tables[pid][i].inSwap = TRUE,
                !.tables[pid][i].slot = slot]

setSwapSize(m) == [m EXCEPT !.slots = [s \in SwapSlots |-> Unused]]

setSwapEnabled(m, enabled) ==
    LET set == [m EXCEPT !.swapEnabled = enabled]
    IN  IF enabled /\ DOMAIN m.slots = {} THEN setSwapSize(set) ELSE set

NewMemory(swap) ==
    setSwapEnabled([frames |-> [f \in MemFrames |-> Unused], slots |-> <<>>,
                    tables |-> <<>>, swapEnabled |-> FALSE], swap)
-----------------------------------------------------------------------------
Allocates(pid) ==
    \E pages \in 1 .. MaxPages :
        /\ OnlyModest => /\ pid \notin DOMAIN mem.tables
                         /\ pages = 1 \/ pages <= Cardinality(FreeFrames(mem))
        /\ mem' \in allocate(mem, pid, pages)
Accesses(pid) == \E page \in 0 .. MaxPages - 1 : mem' \in accessMemory(mem, pid, page)
SwapsOut(pid) == \E page \in 0 .. MaxPages - 1 : mem' = swapOutPage(mem, pid, page)
SwapsIn(pid) == \E page \in 0 .. MaxPages - 1 : mem' \in swapInPage(mem, pid, page)
Deallocates(pid) == mem' = deallocate(mem, pid)
SwapSwitched == \E enabled \in BOOLEAN : mem' = setSwapEnabled(mem, enabled)

SimMemoryInit == \E swap \in BOOLEAN : mem = NewMemory(swap)
SimMemoryNext ==
    \/ \E pid \in MemPids : Allocates(pid) \/ Accesses(pid) \/ SwapsOut(pid)
                            \/ SwapsIn(pid) \/ Deallocates(pid)
    \/ SwapSwitched
-----------------------------------------------------------------------------
\* Frames, swap slots and page tables agree: an entry that is present names
\* a frame that holds its page, one that is swapped out a slot that does,
\* and no frame or slot is in use without exactly one such entry
\* (allocate, evictFrame, accessMemory, swapOutPage, swapInPage, deallocate).
PagesExact ==
    LET Entries == {<<p, i>> : p \in DOMAIN mem.tables, i \in 1 .. MaxPages}
        Held == {e \in Entries : e[2] \in DOMAIN mem.tables[e[1]]}
        Pte(e) == mem.tables[e[1]][e[2]]
        InFrame(f) == {e \in Held : Pte(e).present /\ Pte(e).frame = f}
        InSlot(s) == {e \in Held : Pte(e).inSwap /\ Pte(e).slot = s}
        Exactly(place, E) ==
            IF place = Unused THEN E = {}
            ELSE Cardinality(E) = 1 /\ \A e \in E : place = <<e[1], Pte(e).page>>
    IN  /\ \A f \in MemFrames : Exactly(mem.frames[f], InFrame(f))
        /\ \A s \in DOMAIN mem.slots : Exactly(mem.slots[s], InSlot(s))
        /\ \A e \in Held : ~(Pte(e).present /\ Pte(e).inSwap)
=============================================================================
