------------------------------- MODULE Kmalloc -------------------------------
(***************************************************************************)
(* The kernel heap (kmalloc.cpp) on top of the frames of the physical      *)
(* memory manager.                                                         *)
(*                                                                         *)
(* A block is its header and what follows, up to size; blocks are found    *)
(* through heap_start and their next pointers.  heap_start is set by       *)
(* kmalloc_init and by nothing else.  kernel_main never calls it           *)
(* (CallsInit is FALSE), so the list stays empty and every allocation gets *)
(* frames of its own.  Addresses count alignment units of 8 bytes.         *)
(***************************************************************************)
EXTENDS Integers, Sequences

CONSTANTS
    FRAME_SIZE,         \* units in a frame
    NumFrames,          \* frames 1 .. NumFrames can be handed out
    Slack,              \* a rest that is not larger stays with its block
    Sizes,              \* sizes asked for, with the header and rounded up
    CallsInit           \* does the start-up code call kmalloc_init?

ASSUME HeapAssumption == /\ FRAME_SIZE \in Nat \ {0} /\ NumFrames \in Nat
                         /\ CallsInit \in BOOLEAN

VARIABLES
    heap_start,         \* address of the first block
    block,              \* the headers in memory: address -> size, is_free, next
    taken,              \* frames that alloc_blocks has handed out
    live                \* history: address of each block in use -> size asked for

kvars == <<heap_start, block, taken, live>>

Null == 0
Address(f) == f * FRAME_SIZE
Put(f, x, v) == [y \in DOMAIN f \cup {x} |-> IF y = x THEN v ELSE f[y]]

\* The lowest run of count frames that are free, 0 if there is none.
alloc_blocks(count) ==
    LET starts == {f \in 1 .. NumFrames - count + 1 : f .. f + count - 1 \cap taken = {}}
    IN  IF starts = {} THEN 0 ELSE CHOOSE f \in starts : \A g \in starts : f <= g

\* Cuts the block at a down to size when the rest is worth a block.
split_block(blocks, a, size) ==
    IF blocks[a].size <= size + Slack THEN blocks
    ELSE Put([blocks EXCEPT ![a] = [@ EXCEPT !.size = size, !.next = a + size]],
             a + size, [size |-> blocks[a].size - size, is_free |-> TRUE, next |-> blocks[a].next])

\* The blocks from a on along the next pointers.
RECURSIVE ListFrom(_)
ListFrom(a) == IF a = Null THEN <<>> ELSE <<a>> \o ListFrom(block[a].next)

Fits(l, size) == {i \in DOMAIN l : block[l[i]].is_free /\ block[l[i]].size >= size}

\* A request that does not fill its last frame gets a frame too few.
PagesFor_Down(size) == size \div FRAME_SIZE

PagesFor(size) == (size + FRAME_SIZE - 1) \div FRAME_SIZE

\* The first block of the list that is large enough, split; without one, frames
\* of its own, linked behind the last block of the list if the list has one.
kmalloc(size) ==
    LET l == ListFrom(heap_start)
        i == CHOOSE j \in Fits(l, size) : \A k \in Fits(l, size) : j <= k
        pages == PagesFor(size)
        f == alloc_blocks(pages)
        area == [size |-> pages * FRAME_SIZE, is_free |-> FALSE, next |-> Null]
        linked == IF l = <<>> THEN block ELSE [block EXCEPT ![l[Len(l)]].next = Address(f)]
        fit == Fits(l, size) # {}
        a == IF fit THEN l[i] ELSE Address(f)
    IN  /\ fit \/ f # 0
        /\ block' = split_block(IF fit THEN [block EXCEPT ![a].is_free = FALSE]
                                       ELSE Put(linked, a, area), a, size)
        /\ taken' = IF fit THEN taken ELSE taken \cup f .. f + pages - 1
        /\ live' = Put(live, a, size)
        /\ UNCHANGED heap_start

\* The block is free, and takes in its successor if that is free, too.
kfree(a) ==
    LET n == block[a].next IN
    /\ a \in DOMAIN live
    /\ block' = IF n # Null /\ block[n].is_free
                THEN [block EXCEPT ![a] = [size |-> @.size + block[n].size,
                                           is_free |-> TRUE, next |-> block[n].next]]
                ELSE [block EXCEPT ![a].is_free = TRUE]
    /\ live' = [b \in DOMAIN live \ {a} |-> live[b]]
    /\ UNCHANGED <<heap_start, taken>>

\* kmalloc_init: one free block of one frame.
kmalloc_init ==
    /\ heap_start = Address(1)
    /\ block = [a \in {Address(1)} |-> [size |-> FRAME_SIZE, is_free |-> TRUE, next |-> Null]]
    /\ taken = {1}

HeapInit ==
    /\ IF CallsInit THEN kmalloc_init
       ELSE /\ heap_start = Null
            /\ block = [a \in {} |-> Null]
            /\ taken = {}
    /\ live = [a \in {} |-> 0]

HeapNext == \/ \E s \in Sizes : kmalloc(s)
            \/ \E a \in DOMAIN live : kfree(a)

HeapSpec == HeapInit /\ [][HeapNext]_kvars
-----------------------------------------------------------------------------
Extent(a) == a .. a + block[a].size - 1

\* What kmalloc returns is the caller's alone: as large as was asked for, inside
\* frames of the heap, and apart from every other block in use.
BlocksApart ==
    \A a \in DOMAIN live :
        /\ block[a].size >= live[a]
        /\ \A x \in Extent(a) : x \div FRAME_SIZE \in taken
        /\ \A b \in DOMAIN live : b # a => Extent(a) \cap Extent(b) = {}
=============================================================================
