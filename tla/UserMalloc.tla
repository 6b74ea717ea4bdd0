----------------------------- MODULE UserMalloc -----------------------------
(***************************************************************************)
(* The heap of a user program: malloc, free, calloc and realloc of the C   *)
(* library (user/libc/src/malloc.cpp) over the kernel's sys_sbrk           *)
(* (syscall_gate.cpp).                                                     *)
(*                                                                         *)
(* A block is its header, kept at its address: size with the header, free  *)
(* flag and links to its neighbours.  malloc_lock makes every call atomic. *)
(* Contents and the magic number are left out: programs are taken to write *)
(* within what they were given and to free it once.                        *)
(***************************************************************************)
EXTENDS Naturals, Integers, FiniteSets, Sequences, Functions

CONSTANTS
    HeaderSize,         \* sizeof(MemBlock)
    ALIGNMENT,
    HeapStart, HeapLimit,       \* heap_start and the limit of sys_sbrk
    RequestSizes        \* what programs ask for

ASSUME MallocAssumption ==
    /\ HeaderSize \in Nat \ {0} /\ ALIGNMENT \in Nat \ {0}
    /\ HeapStart \in Nat \ {0} /\ HeapLimit \in Nat

VARIABLES
    mem,                \* address of a header -> [size, is_free, next, prev]
    head, tail,
    heap_end,
    held                \* pointer -> the size it was asked for: what programs use

mallocVars == <<mem, head, tail, heap_end, held>>

nullptr == 0
ALIGN(n) == ((n + ALIGNMENT - 1) \div ALIGNMENT) * ALIGNMENT

(* The heap as one value: h = [mem, head, tail, end].                      *)
Heap == [mem |-> mem, head |-> head, tail |-> tail, end |-> heap_end]
BlockAt(h, a, b) == [h EXCEPT !.mem = [x \in DOMAIN @ \cup {a} |-> IF x = a THEN b ELSE @[x]]]
Forget(h, a) == [h EXCEPT !.mem = Restrict(@, DOMAIN @ \ {a})]
-----------------------------------------------------------------------------
(* May the break move by the increment?  It stays between the start of the *)
(* heap and the limit.                                                     *)
sys_sbrk(h, increment) ==
    h.end + increment >= HeapStart /\ h.end + increment < HeapLimit

(* A new block at the break, linked after last; h itself when refused.     *)
request_space(h, last, size) ==
    IF ~sys_sbrk(h, size) THEN [ok |-> FALSE, h |-> h, block |-> nullptr]
    ELSE LET h1 == BlockAt(h, h.end, [size |-> size, is_free |-> FALSE,
                                      next |-> nullptr, prev |-> last])
             h2 == IF last = nullptr THEN h1 ELSE [h1 EXCEPT !.mem[last].next = h.end]
         IN  [ok |-> TRUE, h |-> [h2 EXCEPT !.end = @ + size], block |-> h.end]

(* The blocks from a on, in the order of their next links.                 *)
RECURSIVE From(_, _)
From(h, a) == IF a = nullptr THEN <<>> ELSE <<a>> \o From(h, h.mem[a].next)

find_free_block(h, size) ==
    LET fit == SelectSeq(From(h, h.head),
                         LAMBDA a : h.mem[a].is_free /\ h.mem[a].size >= size)
    IN  IF fit = <<>> THEN nullptr ELSE Head(fit)

split_block(h, a, size) ==
    LET b == h.mem[a]
        rest == a + size
        h1 == BlockAt(h, rest, [size |-> b.size - size, is_free |-> TRUE,
                                next |-> b.next, prev |-> a])
        h2 == IF b.next # nullptr THEN [h1 EXCEPT !.mem[b.next].prev = rest]
              ELSE [h1 EXCEPT !.tail = rest]
    IN  IF b.size <= size + HeaderSize + ALIGNMENT THEN h
        ELSE [h2 EXCEPT !.mem[a].next = rest, !.mem[a].size = size]

_malloc_unlocked(h, size) ==
    LET total == ALIGN(size + HeaderSize)
        order == From(h, h.head)
        a == find_free_block(h, total)
        r == request_space(h, IF h.head = nullptr THEN nullptr ELSE order[Len(order)], total)
        grown == [r.h EXCEPT !.tail = r.block,
                             !.head = IF h.head = nullptr THEN r.block ELSE @]
        taken == split_block([h EXCEPT !.mem[a].is_free = FALSE], a, total)
    IN  IF size = 0 THEN [h |-> h, ptr |-> nullptr]
        ELSE IF a # nullptr THEN [h |-> taken, ptr |-> a + HeaderSize]
        ELSE IF r.ok THEN [h |-> grown, ptr |-> r.block + HeaderSize]
        ELSE [h |-> h, ptr |-> nullptr]
-----------------------------------------------------------------------------
(* A bug: the block after the freed one keeps its link to it.              *)
Merged_KeepsPrev(h, a, b) ==
    LET n == h.mem[b].next
        h1 == [h EXCEPT !.mem[a].size = @ + h.mem[b].size, !.mem[a].next = n]
    IN  Forget(IF n # nullptr THEN h1 ELSE [h1 EXCEPT !.tail = a], b)

(* Block a takes in block b, the one after it.                             *)
Merged(h, a, b) ==
    LET n == h.mem[b].next
        h1 == [h EXCEPT !.mem[a].size = @ + h.mem[b].size, !.mem[a].next = n]
        h2 == IF n # nullptr THEN [h1 EXCEPT !.mem[n].prev = a] ELSE [h1 EXCEPT !.tail = a]
    IN  Forget(h2, b)

MergeNext(h, a) ==
    LET n == h.mem[a].next
    IN  IF n = nullptr THEN h
        ELSE IF h.mem[n].is_free THEN Merged(h, a, n) ELSE h

(* The last block, free, goes back to the kernel.                          *)
GiveBack(h, a) ==
    LET p == h.mem[a].prev
        size == h.mem[a].size
        h1 == IF p # nullptr THEN [h EXCEPT !.mem[p].next = nullptr, !.tail = p]
              ELSE [h EXCEPT !.head = nullptr, !.tail = nullptr]
    IN  IF a # h.tail THEN h
        ELSE IF sys_sbrk(h1, -size) THEN [Forget(h1, a) EXCEPT !.end = @ - size]
        ELSE Forget(h1, a)

_free_unlocked(h, ptr) ==
    LET a == ptr - HeaderSize
        h1 == MergeNext([h EXCEPT !.mem[a].is_free = TRUE], a)
        p == h1.mem[a].prev
        back == IF p = nullptr THEN FALSE ELSE h1.mem[p].is_free
    IN  IF back THEN GiveBack(Merged(h1, p, a), p) ELSE GiveBack(h1, a)
-----------------------------------------------------------------------------
MallocInit ==
    /\ mem = <<>> /\ head = nullptr /\ tail = nullptr
    /\ heap_end = HeapStart /\ held = <<>>

Becomes_(h) == mem' = h.mem /\ head' = h.head /\ tail' = h.tail /\ heap_end' = h.end

malloc(size) ==
    \E r \in {_malloc_unlocked(Heap, size)} :
        /\ Becomes_(r.h)
        /\ held' = IF r.ptr = nullptr THEN held
                   ELSE [p \in DOMAIN held \cup {r.ptr} |-> IF p = r.ptr THEN size ELSE held[p]]

(* The product may be zero; then nothing is allocated.                     *)
calloc(nmemb, size) == malloc(nmemb * size)

free(ptr) ==
    /\ Becomes_(_free_unlocked(Heap, ptr))
    /\ held' = Restrict(held, DOMAIN held \ {ptr})

(* In place when the block is large enough; otherwise a new block, and the *)
(* old one is freed once its contents are copied.                          *)
realloc(ptr, size) ==
    LET user_size == mem[ptr - HeaderSize].size - HeaderSize
    IN  IF size = 0 THEN free(ptr)
        ELSE IF size <= user_size
        THEN held' = [held EXCEPT ![ptr] = size] /\ UNCHANGED <<mem, head, tail, heap_end>>
        ELSE \E r \in {_malloc_unlocked(Heap, size)} :
                IF r.ptr = nullptr THEN UNCHANGED mallocVars
                ELSE /\ Becomes_(_free_unlocked(r.h, ptr))
                     /\ held' = [p \in (DOMAIN held \ {ptr}) \cup {r.ptr} |->
                                    IF p = r.ptr THEN size ELSE held[p]]

MallocNext ==
    \/ \E n \in RequestSizes : malloc(n) \/ calloc(2, n)
    \/ \E p \in DOMAIN held : free(p) \/ \E n \in RequestSizes \cup {0} : realloc(p, n)
-----------------------------------------------------------------------------
(* The blocks reached from head tile the heap from its start to the break, *)
(* each linked to its neighbours both ways and tail the last; no two free  *)
(* blocks are neighbours and the last is in use; and every pointer a       *)
(* program holds is the data of a used block that is large enough          *)
(* (split_block, _free_unlocked, realloc).                                 *)
HeapTiled ==
    LET order == From(Heap, head)
        n == Len(order)
    IN  /\ DOMAIN mem = Range(order)
        /\ n = 0 <=> head = nullptr
        /\ n > 0 => order[1] = HeapStart /\ tail = order[n] /\ mem[head].prev = nullptr
        /\ heap_end = IF n = 0 THEN HeapStart ELSE tail + mem[tail].size
        /\ \A i \in 1 .. n - 1 :
              /\ order[i + 1] = order[i] + mem[order[i]].size
              /\ mem[order[i + 1]].prev = order[i]
              /\ ~(mem[order[i]].is_free /\ mem[order[i + 1]].is_free)
        /\ n > 0 => ~mem[tail].is_free
        /\ {a \in DOMAIN mem : ~mem[a].is_free} = {p - HeaderSize : p \in DOMAIN held}
        /\ \A p \in DOMAIN held : mem[p - HeaderSize].size >= held[p] + HeaderSize
=============================================================================
