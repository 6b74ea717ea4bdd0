----------------------------- MODULE PmmProofs -----------------------------
(***************************************************************************)
(* Proofs about Pmm, for any number of frames, any region freed at boot,   *)
(* any word size, any limit of the counters and any sizes of areas.        *)
(***************************************************************************)
EXTENDS Pmm, FiniteSetTheorems, TLAPS

\* The frames marked used.
UsedBits(m) == {f \in Frames : m.bitmap[f]}

Manager == [bitmap : [Frames -> BOOLEAN], refcounts : [Frames -> Nat], used : Int]

\* The variables have their types.
PmmTypeOK ==
    /\ pmm \in Manager
    /\ held \in [Frames -> Nat]
    /\ areas \in SUBSET Frames

\* Only frames that set_region_free freed at boot are ever handed out.
InRegion == \A f \in Frames : held[f] > 0 \/ f \in areas => f \in Region

\* The inductive invariant.  Without InRegion, giving back the last reference
\* to a frame outside the region would clear a bit that must stay set.
PmmInv == PmmTypeOK /\ FramesExact /\ InRegion

-----------------------------------------------------------------------------
(* The searches *)

\* Every nonempty set of natural numbers has a smallest element.
LEMMA SmallestNumber ==
    ASSUME NEW S \in SUBSET Nat, S # {}
    PROVE  \E x \in S : \A y \in S : x <= y
<1>1. \E x \in S : \A y \in S : ~(<<y, x>> \in OpToRel(<, Nat))
  BY NatLessThanWellFounded, WFMin
<1>2. \A x, y \in S : y < x => <<y, x>> \in OpToRel(<, Nat)
  BY DEF OpToRel
<1>3. \E x \in S : \A y \in S : ~(y < x)
  BY <1>1, <1>2, Zenon
<1> QED BY <1>3

\* get_first_free_frame looks at existing frames only: whole words of the
\* bitmap do not reach past its end.
LEMMA ScannedExist ==
    ASSUME PmmAssumption
    PROVE  Scanned \subseteq Frames
<1>1. (MaxFrames \div WordBits) * WordBits <= MaxFrames
  <2>1. MaxFrames \in Nat /\ WordBits \in Nat \ {0}
    BY DEF PmmAssumption
  <2>2. \A a \in Nat, b \in Nat \ {0} : (a \div b) * b <= a
    OBVIOUS
  <2> QED BY <2>1, <2>2
<1>2. (MaxFrames \div WordBits) * WordBits \in Int
  BY DEF PmmAssumption
<1> QED BY <1>1, <1>2 DEF Scanned, Frames, PmmAssumption

\* get_first_free_frame finds a frame that exists and is free.
LEMMA FirstIsFree ==
    ASSUME PmmAssumption, NEW m, FreeFrames(m) # {}
    PROVE  FirstFreeFrame(m) \in Frames /\ ~m.bitmap[FirstFreeFrame(m)]
<1>1. FreeFrames(m) \subseteq Frames
  BY ScannedExist DEF FreeFrames
<1>2. FreeFrames(m) \in SUBSET Nat
  BY <1>1 DEF Frames, PmmAssumption
<1>3. \E f \in FreeFrames(m) : \A g \in FreeFrames(m) : f <= g
  <2>1. PICK S \in SUBSET Nat : S = FreeFrames(m)
    BY <1>2
  <2> QED BY <2>1, SmallestNumber
<1>4. FirstFreeFrame(m) \in FreeFrames(m)
  BY <1>3 DEF FirstFreeFrame
<1> QED BY <1>1, <1>4 DEF FreeFrames

\* get_free_blocks finds n frames that exist and are free.
LEMMA RunIsFree ==
    ASSUME PmmAssumption, NEW m, NEW n \in Nat \ {0}, FreeRuns(m, n) # {}
    PROVE  /\ FirstRun(m, n) \in Nat
           /\ Run(FirstRun(m, n), n) \subseteq Frames
           /\ \A f \in Run(FirstRun(m, n), n) : ~m.bitmap[f]
<1>1. FreeRuns(m, n) \subseteq Frames
  BY ScannedExist DEF FreeRuns, FreeFrames
<1>2. FreeRuns(m, n) \in SUBSET Nat
  BY <1>1 DEF Frames, PmmAssumption
<1>3. \E s \in FreeRuns(m, n) : \A r \in FreeRuns(m, n) : s <= r
  <2>1. PICK S \in SUBSET Nat : S = FreeRuns(m, n)
    BY <1>2
  <2> QED BY <2>1, SmallestNumber
<1>4. PICK s \in FreeRuns(m, n) : s = FirstRun(m, n)
  BY <1>3 DEF FirstRun
<1>5. s \in Nat /\ s \in Frames
  BY <1>1, <1>2, <1>4
<1>6. CASE n = 1
  <2>1. Run(s, n) = {s}
    BY <1>5, <1>6 DEF Run
  <2>2. ~m.bitmap[s]
    BY <1>4, <1>6 DEF FreeRuns, FreeFrames
  <2> QED BY <1>4, <1>5, <2>1, <2>2
<1>7. CASE n # 1
  <2>1. s + n <= MaxFrames /\ \A f \in Run(s, n) : ~m.bitmap[f]
    BY <1>4, <1>7 DEF FreeRuns
  <2>2. Run(s, n) \subseteq Frames
    BY <1>5, <2>1 DEF Run, Frames, PmmAssumption
  <2> QED BY <1>4, <1>5, <2>1, <2>2
<1> QED BY <1>6, <1>7

-----------------------------------------------------------------------------
(* Counting *)

\* The bits of a manager are finitely many.
LEMMA BitsFinite ==
    ASSUME PmmAssumption, NEW m
    PROVE  IsFiniteSet(UsedBits(m)) /\ Cardinality(UsedBits(m)) \in Nat
<1>1. IsFiniteSet(Frames)
  <2>1. 0 \in Int /\ MaxFrames - 1 \in Int
    BY DEF PmmAssumption
  <2> QED BY <2>1, FS_Interval DEF Frames
<1>2. UsedBits(m) \in SUBSET Frames
  BY DEF UsedBits
<1>3. IsFiniteSet(UsedBits(m))
  BY <1>1, <1>2, FS_Subset
<1> QED BY <1>3, FS_CardinalityType

\* What a change of all fields leaves.
LEMMA Updated ==
    ASSUME NEW m \in Manager, NEW b \in [Frames -> BOOLEAN], NEW r \in [Frames -> Nat],
           NEW u \in Int
    PROVE  /\ [m EXCEPT !.bitmap = b, !.refcounts = r, !.used = u] \in Manager
           /\ [m EXCEPT !.refcounts = r, !.bitmap = b, !.used = u] \in Manager
           /\ [m EXCEPT !.bitmap = b, !.used = u] \in Manager
<1>1. [m EXCEPT !.bitmap = b, !.refcounts = r, !.used = u] \in Manager
  BY DEF Manager
<1>2. [m EXCEPT !.refcounts = r, !.bitmap = b, !.used = u] \in Manager
  BY DEF Manager
<1>3. [m EXCEPT !.bitmap = b, !.used = u] \in Manager
  BY DEF Manager
<1> QED BY <1>1, <1>2, <1>3

\* alloc_frame's marking of a free frame counts it.
LEMMA ClaimCounts ==
    ASSUME PmmAssumption, NEW m \in Manager, NEW f \in Frames, ~m.bitmap[f]
    PROVE  /\ Claim(m, f) \in Manager
           /\ Claim(m, f).used = m.used + 1
           /\ Claim(m, f).bitmap = [m.bitmap EXCEPT ![f] = TRUE]
           /\ Claim(m, f).refcounts = [m.refcounts EXCEPT ![f] = 1]
           /\ Cardinality(UsedBits(Claim(m, f))) = Cardinality(UsedBits(m)) + 1
<1> DEFINE c == Claim(m, f)
           b == [m.bitmap EXCEPT ![f] = TRUE]
           r == [m.refcounts EXCEPT ![f] = 1]
<1>1. c \in Manager /\ c.used = m.used + 1 /\ c.bitmap = b /\ c.refcounts = r
  <2>1. b \in [Frames -> BOOLEAN] /\ r \in [Frames -> Nat] /\ m.used + 1 \in Int
    BY DEF Manager
  <2>2. c = [m EXCEPT !.bitmap = b, !.refcounts = r, !.used = m.used + 1]
    BY DEF Claim, Manager
  <2>3. c \in Manager
    <3> HIDE DEF b, c, r
    <3> QED BY <2>1, <2>2, Updated
  <2>4. c.used = m.used + 1
    BY DEF Claim, Manager
  <2>5. c.bitmap = b
    BY DEF Claim, Manager
  <2>6. c.refcounts = r
    BY DEF Claim, Manager
  <2> QED BY <2>3, <2>4, <2>5, <2>6
<1>2. UsedBits(c) = UsedBits(m) \cup {f} /\ f \notin UsedBits(m)
  BY <1>1 DEF UsedBits, Manager
<1>3. IsFiniteSet(UsedBits(m))
  BY BitsFinite
<1> HIDE DEF c
<1>4. Cardinality(UsedBits(c)) = Cardinality(UsedBits(m)) + 1
  BY <1>2, <1>3, FS_AddElement
<1> QED BY <1>1, <1>4 DEF c

\* Freeing a frame that is marked uncounts it, and only with the last reference.
LEMMA FreeCounts ==
    ASSUME PmmAssumption, NEW m \in Manager, NEW f \in Frames, m.bitmap[f], m.refcounts[f] > 0
    PROVE  /\ FreeFrame(m, f) \in Manager
           /\ FreeFrame(m, f).refcounts = [m.refcounts EXCEPT ![f] = @ - 1]
           /\ FreeFrame(m, f).bitmap = [m.bitmap EXCEPT ![f] = m.refcounts[f] > 1]
           /\ FreeFrame(m, f).used - Cardinality(UsedBits(FreeFrame(m, f)))
                = m.used - Cardinality(UsedBits(m))
<1> DEFINE c == FreeFrame(m, f)
<1>1. CASE m.refcounts[f] > 1
  <2>1. c = [m EXCEPT !.refcounts[f] = @ - 1]
    BY <1>1 DEF FreeFrame
  <2>2. /\ c \in Manager /\ c.used = m.used /\ c.bitmap = m.bitmap
        /\ c.refcounts = [m.refcounts EXCEPT ![f] = @ - 1]
    BY <1>1, <2>1 DEF Manager
  <2>3. UsedBits(c) = UsedBits(m)
    BY <2>2 DEF UsedBits
  <2>4. c.bitmap = [m.bitmap EXCEPT ![f] = m.refcounts[f] > 1]
    <3>1. (m.refcounts[f] > 1) = TRUE
      BY <1>1
    <3>2. m.bitmap[f] = TRUE /\ m.bitmap \in [Frames -> BOOLEAN]
      BY DEF Manager
    <3> QED BY <2>2, <3>1, <3>2, Zenon
  <2> QED BY <2>2, <2>3, <2>4
<1>2. CASE m.refcounts[f] = 1
  <2>1. c = [m EXCEPT !.refcounts[f] = 0, !.bitmap[f] = FALSE, !.used = @ - 1]
    BY <1>2 DEF FreeFrame
  <2> DEFINE b == [m.bitmap EXCEPT ![f] = FALSE]
             r == [m.refcounts EXCEPT ![f] = 0]
  <2>2. c \in Manager /\ c.used = m.used - 1 /\ c.bitmap = b /\ c.refcounts = r
    <3>1. b \in [Frames -> BOOLEAN] /\ r \in [Frames -> Nat] /\ m.used - 1 \in Int
      BY DEF Manager
    <3>2. c = [m EXCEPT !.refcounts = r, !.bitmap = b, !.used = m.used - 1]
      BY <2>1 DEF Manager
    <3>3. c \in Manager
      <4> HIDE DEF b, c, r
      <4> QED BY <3>1, <3>2, Updated
    <3>4. c.used = m.used - 1
      BY <2>1 DEF Manager
    <3>5. c.bitmap = b
      BY <2>1 DEF Manager
    <3>6. c.refcounts = r
      BY <2>1 DEF Manager
    <3> QED BY <3>3, <3>4, <3>5, <3>6
  <2>3. UsedBits(c) = UsedBits(m) \ {f} /\ f \in UsedBits(m)
    BY <2>2 DEF UsedBits, Manager
  <2>4. IsFiniteSet(UsedBits(m)) /\ Cardinality(UsedBits(m)) \in Nat
    BY BitsFinite
  <2> HIDE DEF c
  <2>5. Cardinality(UsedBits(c)) = Cardinality(UsedBits(m)) - 1
    BY <2>3, <2>4, FS_RemoveElement
  <2>6. c.bitmap = [m.bitmap EXCEPT ![f] = m.refcounts[f] > 1]
    <3>1. (m.refcounts[f] > 1) = FALSE
      BY <1>2
    <3> QED BY <2>2, <3>1, Zenon
  <2>7. c.refcounts = [m.refcounts EXCEPT ![f] = @ - 1]
    BY <1>2, <2>2 DEF Manager
  <2>8. m.used \in Int
    BY DEF Manager
  <2>9. c.used - Cardinality(UsedBits(c)) = m.used - Cardinality(UsedBits(m))
    BY <2>2, <2>4, <2>5, <2>8
  <2> QED BY <2>2, <2>6, <2>7, <2>9 DEF c
<1>3. m.refcounts[f] \in Nat
  BY DEF Manager
<1> QED BY <1>1, <1>2, <1>3

\* alloc_blocks counts every frame of the run, none of which was marked.
LEMMA BlocksCounts ==
    ASSUME PmmAssumption, NEW m \in Manager, NEW n \in Nat \ {0}, FreeRuns(m, n) # {}
    PROVE  /\ AllocBlocks(m, n) \in Manager
           /\ AllocBlocks(m, n).used = m.used + n
           /\ AllocBlocks(m, n).refcounts = m.refcounts
           /\ \A f \in Frames : AllocBlocks(m, n).bitmap[f]
                                  <=> m.bitmap[f] \/ f \in Run(FirstRun(m, n), n)
           /\ Cardinality(UsedBits(AllocBlocks(m, n))) = Cardinality(UsedBits(m)) + n
<1> DEFINE c == AllocBlocks(m, n)
           s == FirstRun(m, n)
           R == Run(s, n)
<1>1. s \in Nat /\ R \subseteq Frames /\ \A f \in R : ~m.bitmap[f]
  BY RunIsFree
<1> DEFINE b == [f \in Frames |-> m.bitmap[f] \/ f \in R]
<1>2. c = [m EXCEPT !.bitmap = b, !.used = m.used + n]
  BY DEF AllocBlocks, Manager
<1>3. c.used = m.used + n /\ c.refcounts = m.refcounts /\ c.bitmap = b /\ c \in Manager
  <2>1. b \in [Frames -> BOOLEAN] /\ m.used + n \in Int /\ m.refcounts \in [Frames -> Nat]
    BY DEF Manager
  <2> HIDE DEF R, c, b
  <2>2. c \in Manager
    BY <1>2, <2>1, Updated
  <2>3. c.used = m.used + n
    BY <1>2 DEF Manager
  <2>4. c.refcounts = m.refcounts
    BY <1>2 DEF Manager
  <2>5. c.bitmap = b
    BY <1>2 DEF Manager
  <2> QED BY <2>2, <2>3, <2>4, <2>5
<1> HIDE DEF R, c
<1>4. \A f \in Frames : c.bitmap[f] <=> m.bitmap[f] \/ f \in R
  BY <1>3
<1>5. UsedBits(c) = UsedBits(m) \cup R /\ UsedBits(m) \cap R = {}
  BY <1>1, <1>4 DEF UsedBits
<1>6. IsFiniteSet(R) /\ Cardinality(R) = n
  <2>1. s \in Int /\ s + n - 1 \in Int /\ ~(s > s + n - 1) /\ (s + n - 1) - s + 1 = n
    BY <1>1
  <2> QED BY <2>1, FS_Interval DEF R, Run
<1>7. IsFiniteSet(UsedBits(m)) /\ Cardinality(UsedBits(m)) \in Nat
  BY BitsFinite
<1>8. Cardinality(UsedBits(c)) = Cardinality(UsedBits(m)) + n
  BY <1>5, <1>6, <1>7, FS_Union, FS_EmptySet
<1> QED BY <1>3, <1>4, <1>8 DEF c, R

-----------------------------------------------------------------------------
(* The invariant *)

\* After init and set_region_free the books are exact.
LEMMA PmmInitInv == ASSUME PmmAssumption, PmmInit PROVE PmmInv
<1>1. /\ pmm = [bitmap |-> [f \in Frames |-> f \notin Region],
                refcounts |-> [f \in Frames |-> 0], used |-> MaxFrames - Cardinality(Region)]
      /\ held = [f \in Frames |-> 0] /\ areas = {}
  BY DEF PmmInit, BootPmm
<1>2. IsFiniteSet(Frames) /\ Cardinality(Frames) = MaxFrames
  <2>1. 0 \in Int /\ MaxFrames - 1 \in Int /\ MaxFrames \in Nat
    BY DEF PmmAssumption
  <2>2. (IF 0 > MaxFrames - 1 THEN 0 ELSE (MaxFrames - 1) - 0 + 1) = MaxFrames
    BY <2>1
  <2> QED BY <2>1, <2>2, FS_Interval DEF Frames
<1>3. Region \in SUBSET Frames /\ Region = Frames \cap Region
  BY DEF PmmAssumption, Frames
<1>4. IsFiniteSet(Region) /\ Cardinality(Region) \in Nat
  BY <1>2, <1>3, FS_Subset, FS_CardinalityType
<1>5. Cardinality(Frames \ Region) = MaxFrames - Cardinality(Region)
  BY <1>2, <1>3, FS_Difference
<1>6. UsedBits(pmm) = Frames \ Region
  BY <1>1 DEF UsedBits
<1>7. PmmTypeOK
  <2>1. MaxFrames - Cardinality(Region) \in Int
    BY <1>4 DEF PmmAssumption
  <2> QED BY <1>1, <2>1 DEF PmmTypeOK, Manager
<1>8. UsedFramesExact
  BY <1>1, <1>5, <1>6 DEF UsedFramesExact, UsedBits
<1>9. RefcountsExact /\ AreasUnshared /\ InRegion
  BY <1>1 DEF RefcountsExact, AreasUnshared, InRegion
<1>10. BitmapExact
  <2>1. \A f \in Frames : pmm.bitmap[f] <=> f \notin Region
    BY <1>1
  <2>2. \A f \in Frames : ~(held[f] > 0) /\ f \notin areas
    BY <1>1
  <2> QED BY <2>1, <2>2 DEF BitmapExact
<1> QED BY <1>7, <1>8, <1>9, <1>10 DEF PmmInv, FramesExact

\* Every call keeps the books exact.
LEMMA PmmNextInv == ASSUME PmmAssumption, PmmInv, [PmmNext]_pmmVars PROVE PmmInv'
<1>1. /\ pmm \in Manager /\ held \in [Frames -> Nat] /\ areas \in SUBSET Frames
      /\ \A f \in Frames : pmm.refcounts[f] = held[f]
      /\ \A f \in Frames : pmm.bitmap[f] <=> (held[f] > 0 \/ f \in areas \/ f \notin Region)
      /\ pmm.used = Cardinality(UsedBits(pmm))
      /\ \A f \in areas : held[f] = 0
      /\ \A f \in Frames : held[f] > 0 \/ f \in areas => f \in Region
  BY DEF InRegion, PmmInv, PmmTypeOK, FramesExact, RefcountsExact, BitmapExact, UsedFramesExact,
         AreasUnshared, UsedBits
<1>2. /\ pmm.used \in Int /\ pmm.bitmap \in [Frames -> BOOLEAN]
      /\ pmm.refcounts \in [Frames -> Nat]
  BY <1>1 DEF Manager
<1>3. Cardinality(UsedBits(pmm)) \in Nat
  BY BitsFinite
\* What is to be shown after each call.
<1>4. ASSUME pmm' \in Manager, held' \in [Frames -> Nat], areas' \in SUBSET Frames,
             \A f \in Frames : pmm'.refcounts[f] = held'[f],
             \A f \in Frames : pmm'.bitmap[f]
                                 <=> (held'[f] > 0 \/ f \in areas' \/ f \notin Region),
             pmm'.used = Cardinality(UsedBits(pmm')),
             \A f \in areas' : held'[f] = 0,
             \A f \in Frames : held'[f] > 0 \/ f \in areas' => f \in Region
      PROVE  PmmInv'
  BY <1>4 DEF PmmInv, PmmTypeOK, FramesExact, RefcountsExact, BitmapExact, UsedFramesExact,
              AreasUnshared, UsedBits, InRegion
<1>5. CASE alloc_frame
  <2> DEFINE f == FirstFreeFrame(pmm)
  <2>1. f \in Frames /\ ~pmm.bitmap[f]
    BY <1>5, FirstIsFree DEF alloc_frame, CanAlloc
  <2>2. pmm' = Claim(pmm, f) /\ held' = [held EXCEPT ![f] = @ + 1] /\ areas' = areas
    BY <1>5 DEF alloc_frame, AllocFrame
  <2> HIDE DEF f
  <2>3. held[f] = 0 /\ f \notin areas /\ f \in Region
    BY <1>1, <2>1
  <2>4. /\ pmm' \in Manager /\ pmm'.used = pmm.used + 1
        /\ pmm'.bitmap = [pmm.bitmap EXCEPT ![f] = TRUE]
        /\ pmm'.refcounts = [pmm.refcounts EXCEPT ![f] = 1]
        /\ Cardinality(UsedBits(pmm')) = Cardinality(UsedBits(pmm)) + 1
    BY <1>1, <2>1, <2>2, ClaimCounts
  <2>5. held' = [held EXCEPT ![f] = 1] /\ held' \in [Frames -> Nat]
    BY <1>1, <2>1, <2>2, <2>3
  <2>6. \A g \in Frames : pmm'.refcounts[g] = held'[g]
    BY <1>1, <1>2, <2>4, <2>5
  <2>7. \A g \in Frames : pmm'.bitmap[g]
                            <=> (held'[g] > 0 \/ g \in areas' \/ g \notin Region)
    BY <1>1, <1>2, <2>2, <2>4, <2>5
  <2>8. \A g \in areas' : held'[g] = 0
    BY <1>1, <2>2, <2>3, <2>5
  <2>9. \A g \in Frames : held'[g] > 0 \/ g \in areas' => g \in Region
    BY <1>1, <2>2, <2>3, <2>5
  <2> QED BY <1>1, <1>4, <2>2, <2>4, <2>5, <2>6, <2>7, <2>8, <2>9
<1>6. ASSUME NEW n \in Counts, alloc_blocks(n) PROVE PmmInv'
  <2> DEFINE R == Run(FirstRun(pmm, n), n)
  <2>1. n \in Nat \ {0} /\ FreeRuns(pmm, n) # {}
    BY <1>6 DEF alloc_blocks, CanAllocBlocks, PmmAssumption
  <2>2. R \subseteq Frames /\ \A f \in R : ~pmm.bitmap[f]
    BY <2>1, RunIsFree
  <2>3. pmm' = AllocBlocks(pmm, n) /\ held' = held /\ areas' = areas \cup R
    BY <1>6 DEF alloc_blocks
  <2>4. /\ pmm' \in Manager /\ pmm'.used = pmm.used + n /\ pmm'.refcounts = pmm.refcounts
        /\ \A f \in Frames : pmm'.bitmap[f] <=> pmm.bitmap[f] \/ f \in R
        /\ Cardinality(UsedBits(pmm')) = Cardinality(UsedBits(pmm)) + n
    BY <1>1, <2>1, <2>3, BlocksCounts
  <2> HIDE DEF R
  <2>5. \A f \in R : held[f] = 0 /\ f \in Region
    BY <1>1, <2>2
  <2>6. pmm'.used = Cardinality(UsedBits(pmm'))
    BY <1>1, <2>4
  <2>7. \A f \in areas' : held'[f] = 0
    BY <1>1, <2>3, <2>5
  <2>8. \A f \in Frames : held'[f] > 0 \/ f \in areas' => f \in Region
    BY <1>1, <2>3, <2>5
  <2> QED BY <1>1, <1>4, <2>2, <2>3, <2>4, <2>6, <2>7, <2>8
<1>7. ASSUME NEW f \in Frames, inc_ref(f) PROVE PmmInv'
  <2>1. /\ held[f] > 0 /\ held[f] < MaxRef /\ pmm' = IncRef(pmm, f)
        /\ held' = [held EXCEPT ![f] = @ + 1] /\ areas' = areas
    BY <1>7 DEF inc_ref
  <2>2. pmm' = [pmm EXCEPT !.refcounts[f] = @ + 1]
    BY <1>1, <2>1 DEF IncRef
  <2>3. pmm'.used = pmm.used /\ pmm'.bitmap = pmm.bitmap
    BY <1>1, <2>2 DEF Manager
  <2>4. pmm'.refcounts = [pmm.refcounts EXCEPT ![f] = @ + 1]
    BY <1>1, <2>2 DEF Manager
  <2>5. pmm' \in Manager
    BY <1>1, <2>2 DEF Manager
  <2>6. held' \in [Frames -> Nat] /\ \A g \in Frames : pmm'.refcounts[g] = held'[g]
    BY <1>1, <1>2, <2>1, <2>4
  <2>7. UsedBits(pmm') = UsedBits(pmm)
    BY <2>3 DEF UsedBits
  <2>8. f \notin areas /\ \A g \in Frames \ {f} : held'[g] = held[g]
    BY <1>1, <2>1
  <2>9. \A g \in Frames : held'[g] > 0 <=> held[g] > 0
    BY <1>1, <2>1
  <2> QED BY <1>1, <1>4, <2>1, <2>3, <2>5, <2>6, <2>7, <2>8, <2>9
<1>8. ASSUME NEW f \in Frames, free_frame(f) PROVE PmmInv'
  <2>1. /\ held[f] > 0 /\ pmm' = FreeFrame(pmm, f)
        /\ held' = [held EXCEPT ![f] = @ - 1] /\ areas' = areas
    BY <1>8 DEF free_frame
  <2>2. pmm.bitmap[f] /\ pmm.refcounts[f] > 0 /\ f \notin areas /\ f \in Region
    BY <1>1, <2>1
  <2>3. /\ pmm' \in Manager
        /\ pmm'.refcounts = [pmm.refcounts EXCEPT ![f] = @ - 1]
        /\ pmm'.bitmap = [pmm.bitmap EXCEPT ![f] = pmm.refcounts[f] > 1]
        /\ pmm'.used - Cardinality(UsedBits(pmm')) = pmm.used - Cardinality(UsedBits(pmm))
    BY <1>1, <2>1, <2>2, FreeCounts
  <2>4. pmm'.used = Cardinality(UsedBits(pmm'))
    <3>1. pmm'.used \in Int /\ Cardinality(UsedBits(pmm')) \in Nat
      BY <2>3, BitsFinite DEF Manager
    <3> QED BY <1>1, <1>3, <2>3, <3>1
  <2>5. /\ held' \in [Frames -> Nat] /\ held'[f] = held[f] - 1
        /\ \A g \in Frames \ {f} : held'[g] = held[g]
    BY <1>1, <2>1
  <2>6. \A g \in Frames : pmm'.refcounts[g] = held'[g]
    BY <1>1, <1>2, <2>1, <2>3
  <2>7. ASSUME NEW g \in Frames
        PROVE  pmm'.bitmap[g] <=> (held'[g] > 0 \/ g \in areas' \/ g \notin Region)
    <3>1. CASE g # f
      <4>1. pmm'.bitmap[g] = pmm.bitmap[g]
        BY <1>2, <2>3, <3>1
      <4> QED BY <1>1, <2>1, <2>5, <3>1, <4>1
    <3>2. CASE g = f
      <4>1. pmm'.bitmap[f] <=> held[f] > 1
        <5>1. pmm'.bitmap[f] = (pmm.refcounts[f] > 1)
          BY <1>2, <2>3, Zenon
        <5> QED BY <1>1, <5>1
      <4> QED BY <1>1, <2>1, <2>2, <2>5, <3>2, <4>1
    <3> QED BY <3>1, <3>2
  <2>8. \A g \in areas' : held'[g] = 0
    BY <1>1, <2>1, <2>2, <2>5
  <2>9. \A g \in Frames : held'[g] > 0 \/ g \in areas' => g \in Region
    BY <1>1, <2>1, <2>2, <2>5
  <2> QED BY <1>1, <1>4, <2>1, <2>3, <2>4, <2>5, <2>6, <2>7, <2>8, <2>9
<1>9. CASE UNCHANGED pmmVars
  BY <1>9 DEF pmmVars, PmmInv, PmmTypeOK, FramesExact, RefcountsExact, BitmapExact,
              UsedFramesExact, AreasUnshared, InRegion
<1> QED BY <1>5, <1>6, <1>7, <1>8, <1>9 DEF PmmNext

\* The bitmap, the counters and used_frames_ agree with each other and with what
\* the callers of alloc_frame, alloc_blocks, inc_ref and free_frame hold, in
\* every order of these calls, for memories of any size.
THEOREM FramesAlwaysExact ==
    ASSUME PmmAssumption
    PROVE  PmmSpec => []FramesExact
<1>1. PmmInit => PmmInv
  BY PmmInitInv
<1>2. PmmInv /\ [PmmNext]_pmmVars => PmmInv'
  BY PmmNextInv
<1>3. PmmInv => FramesExact
  BY DEF PmmInv
<1> QED BY <1>1, <1>2, <1>3, PTL DEF PmmSpec
=============================================================================
