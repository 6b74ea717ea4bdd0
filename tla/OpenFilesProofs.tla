-------------------------- MODULE OpenFilesProofs --------------------------
(***************************************************************************)
(* Proofs about the reference counts of open files, for any numbers of     *)
(* tasks, descriptors, file objects and vnodes.                            *)
(***************************************************************************)
EXTENDS OpenFiles, FiniteSetTheorems, TLAPS
-----------------------------------------------------------------------------
(* What is counted.                                                        *)

AllVnodes == Vnodes \cup {Root}
AllPaths == Paths \cup {"/"}
VnodeObject == [path : AllPaths, refcount : Nat]
FileObject == [vn : AllVnodes, offset : Nat, wronly : BOOLEAN, refcount : Nat]

\* The types, of the variables and of their values in the middle of a call.
VnodesOK(vns) == DOMAIN vns \subseteq AllVnodes /\ vns \in [DOMAIN vns -> VnodeObject]
FilesOK(fs) == DOMAIN fs \subseteq Files /\ fs \in [DOMAIN fs -> FileObject]
TablesOK(ft) ==
    DOMAIN ft \subseteq Tasks /\ ft \in [DOMAIN ft -> [Fds -> Files \cup {Nothing}]]
MapsOK(vl) == DOMAIN vl \subseteq Tasks /\ vl \in [DOMAIN vl -> SUBSET AllVnodes]

\* FilesCounted for the tables ft and the file objects fs.
HeldIn(ft, f) == {h \in (DOMAIN ft) \X Fds : ft[h[1]][h[2]] = f}
Named(fs, ft) == \A t \in DOMAIN ft, d \in Fds : ft[t][d] # Nothing => ft[t][d] \in DOMAIN fs
Counted(fs, ft) ==
    /\ Named(fs, ft)
    /\ \A f \in DOMAIN fs : HeldIn(ft, f) # {} /\ fs[f].refcount = Cardinality(HeldIn(ft, f))

\* VnodesOutliveUsers for the vnodes vns, the file objects fs and the mappings vl.
FilesOn(fs, v) == {f \in DOMAIN fs : fs[f].vn = v}
MappersIn(vl, v) == {t \in DOMAIN vl : v \in vl[t]}
Uses(fs, vl, v) ==
    Cardinality(FilesOn(fs, v)) + Cardinality(MappersIn(vl, v)) + (IF v = Root THEN 1 ELSE 0)
There(vns, fs, vl) ==
    /\ Root \in DOMAIN vns
    /\ \A f \in DOMAIN fs : fs[f].vn \in DOMAIN vns
    /\ \A t \in DOMAIN vl : vl[t] \subseteq DOMAIN vns
Backed(vns, fs, vl) ==
    There(vns, fs, vl) /\ \A v \in DOMAIN vns : vns[v].refcount >= Uses(fs, vl, v)

\* FilesOutliveUsers is inductive together with the types.
OpenInv ==
    /\ VnodesOK(vnode) /\ FilesOK(file) /\ TablesOK(fd_table) /\ MapsOK(vma_list)
    /\ DOMAIN vma_list = DOMAIN fd_table
    /\ litter \subseteq AllVnodes
    /\ size \in [DOMAIN size -> Nat]
    /\ Counted(file, fd_table) /\ Backed(vnode, file, vma_list)

\* FirstOf picks from the set it is given.
LEMMA FirstIsIn ==
    ASSUME NEW S \in SUBSET Nat, S # {}
    PROVE  FirstOf(S) \in S
<1>1. \E x \in S : \A y \in S : ~(<<y, x>> \in OpToRel(<, Nat))
  BY NatLessThanWellFounded, WFMin
<1>2. \A x, y \in S : y < x => <<y, x>> \in OpToRel(<, Nat)
  BY DEF OpToRel
<1>3. \E x \in S : \A y \in S : ~(y < x)
  BY <1>1, <1>2, Zenon
<1>4. \E x \in S : \A y \in S : x <= y
  BY <1>3
<1> QED BY <1>4 DEF FirstOf

\* A part of a finite set and the rest of it.
LEMMA CountRest ==
    ASSUME NEW S, IsFiniteSet(S), NEW T \in SUBSET S
    PROVE  /\ IsFiniteSet(T) /\ IsFiniteSet(S \ T)
           /\ Cardinality(T) \in Nat /\ Cardinality(S) \in Nat
           /\ Cardinality(S \ T) = Cardinality(S) - Cardinality(T)
<1>1. IsFiniteSet(T) /\ IsFiniteSet(S \ T)
  <2>1. S \ T \in SUBSET S
    OBVIOUS
  <2> QED BY <2>1, FS_Subset
<1>2. Cardinality(T) \in Nat /\ Cardinality(S) \in Nat /\ Cardinality(S \ T) \in Nat
  BY <1>1, FS_CardinalityType
<1>3. (S \ T) \cup T = S /\ (S \ T) \cap T = {}
  OBVIOUS
<1>4. Cardinality((S \ T) \cup T)
        = Cardinality(S \ T) + Cardinality(T) - Cardinality((S \ T) \cap T)
  BY <1>1, FS_Union
<1>5. Cardinality((S \ T) \cap T) = 0
  BY <1>3, FS_EmptySet
<1>6. Cardinality(S) = Cardinality(S \ T) + Cardinality(T) - 0
  BY <1>3, <1>4, <1>5
<1> QED BY <1>1, <1>2, <1>6

\* A row of a table has as many places as it has columns.
LEMMA CountRow ==
    ASSUME NEW t, NEW D, IsFiniteSet(D)
    PROVE  IsFiniteSet({t} \X D) /\ Cardinality({t} \X D) = Cardinality(D)
<1> DEFINE g == [d \in D |-> <<t, d>>]
<1>1. g \in Bijection(D, {t} \X D)
  BY DEF Bijection, Injection, Surjection, IsInjective
<1>2. ExistsBijection(D, {t} \X D)
  BY <1>1 DEF ExistsBijection
<1> QED BY <1>2, FS_Bijection

\* The sets that are counted are finite.
LEMMA FdsFinite == IsFiniteSet(Fds)
<1>1. 0 \in Int /\ MAX_OPEN_FILES - 1 \in Int
  BY OpenAssumption
<1> QED BY <1>1, FS_Interval DEF Fds

\* The descriptors that name f are finitely many.
LEMMA HeldFinite ==
    ASSUME NEW ft, TablesOK(ft), NEW f
    PROVE  IsFiniteSet(HeldIn(ft, f)) /\ Cardinality(HeldIn(ft, f)) \in Nat
<1>1. IsFiniteSet(DOMAIN ft)
  BY OpenAssumption, FS_Subset DEF TablesOK
<1>2. IsFiniteSet((DOMAIN ft) \X Fds)
  BY <1>1, FdsFinite, FS_Product
<1>3. HeldIn(ft, f) \in SUBSET ((DOMAIN ft) \X Fds)
  BY DEF HeldIn
<1>4. IsFiniteSet(HeldIn(ft, f))
  BY <1>2, <1>3, FS_Subset
<1> QED BY <1>4, FS_CardinalityType

\* The users of a vnode are counted by a number, which is at least one as soon
\* as there is one.
LEMMA UsesCount ==
    ASSUME NEW fs, FilesOK(fs), NEW vl, MapsOK(vl), NEW v
    PROVE  /\ IsFiniteSet(FilesOn(fs, v)) /\ IsFiniteSet(MappersIn(vl, v))
           /\ Cardinality(FilesOn(fs, v)) \in Nat /\ Cardinality(MappersIn(vl, v)) \in Nat
           /\ Uses(fs, vl, v) \in Nat
           /\ Uses(fs, vl, v) = 0 =>
                v # Root /\ FilesOn(fs, v) = {} /\ MappersIn(vl, v) = {}
<1>1. IsFiniteSet(Files) /\ FilesOn(fs, v) \in SUBSET Files
  BY OpenAssumption DEF FilesOK, FilesOn
<1>2. IsFiniteSet(Tasks) /\ MappersIn(vl, v) \in SUBSET Tasks
  BY OpenAssumption DEF MapsOK, MappersIn
<1>3. IsFiniteSet(FilesOn(fs, v)) /\ IsFiniteSet(MappersIn(vl, v))
  BY <1>1, <1>2, FS_Subset
<1>4. Cardinality(FilesOn(fs, v)) \in Nat /\ Cardinality(MappersIn(vl, v)) \in Nat
  BY <1>3, FS_CardinalityType
<1>5. Uses(fs, vl, v) \in Nat
  BY <1>4 DEF Uses
<1>6. ASSUME Uses(fs, vl, v) = 0
      PROVE  v # Root /\ Cardinality(FilesOn(fs, v)) = 0 /\ Cardinality(MappersIn(vl, v)) = 0
  BY <1>4, <1>6 DEF Uses
<1> QED BY <1>3, <1>4, <1>5, <1>6, FS_EmptySet

-----------------------------------------------------------------------------
(* Releasing references.                                                   *)

\* Vnodes are released: those whose last reference goes have no user left.
LEMMA ReleaseVnodes ==
    ASSUME NEW vns, VnodesOK(vns), NEW fs, FilesOK(fs), NEW vl, MapsOK(vl),
           There(vns, fs, vl),
           NEW k \in [DOMAIN vns -> Nat],
           \A v \in DOMAIN vns : vns[v].refcount >= Uses(fs, vl, v) + k[v]
    PROVE  VnodesOK(vnode_release(vns, k)) /\ Backed(vnode_release(vns, k), fs, vl)
<1> DEFINE ws == vnode_release(vns, k)
<1>1. /\ DOMAIN ws = {v \in DOMAIN vns : vns[v].refcount # k[v]}
      /\ \A v \in DOMAIN ws : ws[v] = [vns[v] EXCEPT !.refcount = @ - k[v]]
      /\ ws = [v \in DOMAIN ws |-> ws[v]]
  BY DEF vnode_release
<1> HIDE DEF ws
<1>2. ASSUME NEW v \in DOMAIN vns
      PROVE  /\ vns[v] \in VnodeObject /\ vns[v].refcount \in Nat /\ k[v] \in Nat
             /\ Uses(fs, vl, v) \in Nat
  BY UsesCount DEF VnodesOK, VnodeObject
<1>3. ASSUME NEW v \in DOMAIN ws
      PROVE  /\ ws[v] \in VnodeObject
             /\ ws[v].refcount = vns[v].refcount - k[v]
             /\ ws[v].refcount >= Uses(fs, vl, v)
  <2>1. v \in DOMAIN vns
    BY <1>1
  <2>2. vns[v].refcount - k[v] \in Nat
    BY <1>2, <2>1
  <2>3. ws[v] \in VnodeObject /\ ws[v].refcount = vns[v].refcount - k[v]
    BY <1>1, <1>2, <2>1, <2>2 DEF VnodeObject
  <2> QED BY <1>2, <2>1, <2>3
<1>4. ASSUME NEW v \in DOMAIN vns, v \notin DOMAIN ws
      PROVE  v # Root /\ FilesOn(fs, v) = {} /\ MappersIn(vl, v) = {}
  <2>1. vns[v].refcount = k[v]
    BY <1>1, <1>4
  <2>2. Uses(fs, vl, v) = 0
    BY <1>2, <2>1
  <2> QED BY <2>2, UsesCount
<1>5. VnodesOK(ws)
  BY <1>1, <1>3 DEF VnodesOK
<1>6. There(ws, fs, vl)
  <2>1. Root \in DOMAIN ws
    BY <1>4 DEF There
  <2>2. \A f \in DOMAIN fs : fs[f].vn \in DOMAIN ws
    BY <1>4 DEF There, FilesOn
  <2>3. \A t \in DOMAIN vl : vl[t] \subseteq DOMAIN ws
    BY <1>4 DEF There, MappersIn
  <2> QED BY <2>1, <2>2, <2>3 DEF There
<1> QED BY <1>3, <1>5, <1>6 DEF Backed, ws

\* From the tables ft to gt, n[f] descriptors of every file object f go.
Drops(fs, ft, gt, n) ==
    /\ Counted(fs, ft) /\ Named(fs, gt)
    /\ \A f \in DOMAIN fs : Cardinality(HeldIn(gt, f)) = Cardinality(HeldIn(ft, f)) - n[f]

\* The file objects gs are those of fs whose last reference did not go.
Kept(fs, n, gs, gt) ==
    /\ FilesOK(gs) /\ Counted(gs, gt)
    /\ DOMAIN gs = {f \in DOMAIN fs : fs[f].refcount # n[f]}
    /\ \A f \in DOMAIN gs : gs[f].vn = fs[f].vn

\* File objects are released, as many references as descriptors disappear
\* from the tables ft.
LEMMA ReleaseFiles ==
    ASSUME NEW fs, FilesOK(fs), NEW vns, NEW n \in [DOMAIN fs -> Nat],
           NEW ft, TablesOK(ft), NEW gt, TablesOK(gt), Drops(fs, ft, gt, n),
           NEW gs, gs = file_release(fs, vns, n)[1]
    PROVE  Kept(fs, n, gs, gt)
<1>1. /\ DOMAIN gs = {f \in DOMAIN fs : fs[f].refcount # n[f]}
      /\ \A f \in DOMAIN gs : gs[f] = [fs[f] EXCEPT !.refcount = @ - n[f]]
      /\ gs = [f \in DOMAIN gs |-> gs[f]]
  BY DEF file_release
<1>2. ASSUME NEW f \in DOMAIN fs
      PROVE  /\ fs[f] \in FileObject /\ fs[f].refcount \in Nat /\ n[f] \in Nat
             /\ Cardinality(HeldIn(gt, f)) \in Nat /\ IsFiniteSet(HeldIn(gt, f))
             /\ Cardinality(HeldIn(gt, f)) = fs[f].refcount - n[f]
  BY HeldFinite DEF FilesOK, FileObject, Counted, Drops
<1>3. ASSUME NEW f \in DOMAIN gs
      PROVE  /\ gs[f] \in FileObject /\ gs[f].vn = fs[f].vn
             /\ gs[f].refcount = Cardinality(HeldIn(gt, f))
             /\ HeldIn(gt, f) # {}
  <2>1. f \in DOMAIN fs /\ fs[f].refcount # n[f]
    BY <1>1
  <2>2. fs[f].refcount - n[f] \in Nat /\ fs[f].refcount - n[f] # 0
    BY <1>2, <2>1
  <2>3. /\ gs[f] \in FileObject /\ gs[f].vn = fs[f].vn
        /\ gs[f].refcount = fs[f].refcount - n[f]
    <3>1. PICK c \in Nat : c = fs[f].refcount - n[f]
      BY <2>2
    <3>2. gs[f] = [fs[f] EXCEPT !.refcount = c]
      BY <1>1, <3>1
    <3>3. fs[f] \in FileObject
      BY <1>2, <2>1
    <3> QED BY <3>1, <3>2, <3>3 DEF FileObject
  <2>4. HeldIn(gt, f) # {}
    BY <1>2, <2>1, <2>2, FS_EmptySet
  <2> QED BY <1>2, <2>1, <2>3, <2>4
<1>4. Named(gs, gt)
  <2> SUFFICES ASSUME NEW t \in DOMAIN gt, NEW d \in Fds, gt[t][d] # Nothing
               PROVE  gt[t][d] \in DOMAIN gs
    BY DEF Named
  <2>1. PICK f \in DOMAIN fs : f = gt[t][d]
    BY DEF Named, Drops
  <2>2. <<t, d>> \in HeldIn(gt, f)
    BY <2>1 DEF HeldIn
  <2>3. Cardinality(HeldIn(gt, f)) # 0
    BY <1>2, <2>2, FS_EmptySet
  <2> QED BY <1>1, <1>2, <2>1, <2>3
<1> QED BY <1>1, <1>3, <1>4 DEF FilesOK, Counted, Kept

\* Both together: what file_release gives back leaves the counts right.
LEMMA Release ==
    ASSUME NEW fs, FilesOK(fs), NEW vns, VnodesOK(vns), NEW n \in [DOMAIN fs -> Nat],
           NEW ft, TablesOK(ft), NEW gt, TablesOK(gt), Drops(fs, ft, gt, n),
           NEW vl, MapsOK(vl), NEW wl, MapsOK(wl), Backed(vns, fs, vl),
           DOMAIN wl \subseteq DOMAIN vl, \A t \in DOMAIN wl : wl[t] \subseteq vl[t],
           NEW r, r = file_release(fs, vns, n)
    PROVE  /\ FilesOK(r[1]) /\ Counted(r[1], gt)
           /\ VnodesOK(r[2]) /\ Backed(r[2], r[1], wl)
<1>1. PICK gs : gs = r[1]
  OBVIOUS
<1> DEFINE last == {f \in DOMAIN fs : fs[f].refcount = n[f]}
           k == [v \in DOMAIN vns |-> Cardinality({f \in last : fs[f].vn = v})]
<1>2. r[2] = vnode_release(vns, k)
  BY DEF file_release
<1>3. /\ FilesOK(gs) /\ Counted(gs, gt)
      /\ DOMAIN gs = {f \in DOMAIN fs : fs[f].refcount # n[f]}
      /\ \A f \in DOMAIN gs : gs[f].vn = fs[f].vn
  <2>1. gs = file_release(fs, vns, n)[1]
    BY <1>1
  <2>2. Kept(fs, n, gs, gt)
    BY <2>1, ReleaseFiles, Zenon
  <2> QED BY <2>2 DEF Kept
<1>4. ASSUME NEW v \in DOMAIN vns
      PROVE  k[v] \in Nat /\ vns[v].refcount >= Uses(gs, wl, v) + k[v]
  <2>1. /\ IsFiniteSet(FilesOn(fs, v)) /\ IsFiniteSet(MappersIn(vl, v))
        /\ Cardinality(FilesOn(fs, v)) \in Nat /\ Cardinality(MappersIn(vl, v)) \in Nat
    BY UsesCount
  <2>2. /\ Cardinality(FilesOn(gs, v)) \in Nat /\ Cardinality(MappersIn(wl, v)) \in Nat
    BY <1>3, UsesCount
  <2>3. PICK T \in SUBSET FilesOn(fs, v) : T = {f \in last : fs[f].vn = v}
    BY DEF FilesOn
  <2>4. FilesOn(gs, v) = FilesOn(fs, v) \ T
    BY <1>3, <2>3 DEF FilesOn
  <2>5. /\ Cardinality(T) \in Nat
        /\ Cardinality(FilesOn(gs, v)) = Cardinality(FilesOn(fs, v)) - Cardinality(T)
    BY <2>1, <2>4, CountRest
  <2>6. Cardinality(MappersIn(wl, v)) <= Cardinality(MappersIn(vl, v))
    <3>1. MappersIn(wl, v) \in SUBSET MappersIn(vl, v)
      BY DEF MappersIn
    <3> QED BY <2>1, <3>1, FS_Subset
  <2>7. k[v] = Cardinality(T)
    BY <2>3
  <2>8. vns[v].refcount >= Uses(fs, vl, v) /\ vns[v].refcount \in Nat
    BY DEF Backed, VnodesOK, VnodeObject
  <2> HIDE DEF k
  <2> QED BY <2>1, <2>2, <2>5, <2>6, <2>7, <2>8 DEF Uses
<1>5. k \in [DOMAIN vns -> Nat]
  BY <1>4
<1>6. There(vns, gs, wl)
  BY <1>3 DEF There, Backed
<1> HIDE DEF k
<1>7. VnodesOK(vnode_release(vns, k)) /\ Backed(vnode_release(vns, k), gs, wl)
  BY <1>3, <1>4, <1>5, <1>6, ReleaseVnodes
<1> QED BY <1>1, <1>2, <1>3, <1>7

\* Vnodes with no fewer references, the same file objects and no more
\* mappings.
LEMMA LessUsed ==
    ASSUME NEW vns, VnodesOK(vns), NEW fs, FilesOK(fs), NEW vl, MapsOK(vl),
           NEW ws, VnodesOK(ws), NEW gs, FilesOK(gs), NEW wl, MapsOK(wl),
           Backed(vns, fs, vl),
           DOMAIN ws = DOMAIN vns, \A v \in DOMAIN vns : ws[v].refcount >= vns[v].refcount,
           DOMAIN gs = DOMAIN fs, \A f \in DOMAIN fs : gs[f].vn = fs[f].vn,
           \A t \in DOMAIN wl : wl[t] # {} => t \in DOMAIN vl /\ wl[t] \subseteq vl[t]
    PROVE  Backed(ws, gs, wl)
<1>1. There(ws, gs, wl)
  BY DEF There, Backed
<1>2. ASSUME NEW v \in DOMAIN ws
      PROVE  ws[v].refcount >= Uses(gs, wl, v)
  <2>1. /\ IsFiniteSet(MappersIn(vl, v))
        /\ Cardinality(FilesOn(fs, v)) \in Nat /\ Cardinality(MappersIn(vl, v)) \in Nat
    BY UsesCount
  <2>2. Cardinality(FilesOn(gs, v)) \in Nat /\ Cardinality(MappersIn(wl, v)) \in Nat
    BY UsesCount
  <2>3. FilesOn(gs, v) = FilesOn(fs, v)
    BY DEF FilesOn
  <2>4. MappersIn(wl, v) \in SUBSET MappersIn(vl, v)
    BY DEF MappersIn
  <2>5. Cardinality(MappersIn(wl, v)) <= Cardinality(MappersIn(vl, v))
    BY <2>1, <2>4, FS_Subset
  <2>6. /\ ws[v].refcount \in Nat /\ vns[v].refcount \in Nat
        /\ ws[v].refcount >= vns[v].refcount /\ vns[v].refcount >= Uses(fs, vl, v)
    BY DEF VnodesOK, VnodeObject, Backed
  <2> QED BY <2>1, <2>2, <2>3, <2>5, <2>6 DEF Uses
<1> QED BY <1>1, <1>2 DEF Backed

\* The same references to file objects under the same tables.
LEMMA SameCounted ==
    ASSUME NEW fs, NEW gs, NEW ft, Counted(fs, ft), DOMAIN gs = DOMAIN fs,
           \A f \in DOMAIN fs : gs[f].refcount = fs[f].refcount
    PROVE  Counted(gs, ft)
  BY DEF Counted, Named
-----------------------------------------------------------------------------
(* The calls.                                                              *)

\* sys_fclose: one descriptor and one reference less.
LEMMA CloseKeeps ==
    ASSUME OpenInv, NEW t \in DOMAIN fd_table, NEW d \in Fds, sys_fclose(t, d)
    PROVE  OpenInv'
<1>1. PICK f0 : f0 = fd_table[t][d]
  OBVIOUS
<1>2. f0 \in DOMAIN file /\ f0 # Nothing
  BY <1>1 DEF sys_fclose, OpenInv, Counted, Named
<1>3. PICK n : n = Once(DOMAIN file, f0)
  OBVIOUS
<1>4. n \in [DOMAIN file -> Nat] /\ \A f \in DOMAIN file : n[f] = IF f = f0 THEN 1 ELSE 0
  BY <1>3 DEF Once
<1>5. PICK r : r = file_release(file, vnode, n) /\ file' = r[1] /\ vnode' = r[2]
  BY <1>1, <1>3 DEF sys_fclose
<1>6. PICK gt : gt = fd_table'
  OBVIOUS
<1>7. gt = [fd_table EXCEPT ![t][d] = Nothing]
  BY <1>6 DEF sys_fclose
<1>8. TablesOK(gt) /\ DOMAIN gt = DOMAIN fd_table /\ Named(file, gt)
  BY <1>7 DEF OpenInv, TablesOK, Named, Counted
<1>9. ASSUME NEW f \in DOMAIN file
      PROVE  Cardinality(HeldIn(gt, f)) = Cardinality(HeldIn(fd_table, f)) - n[f]
  <2>1. f # Nothing
    BY OpenAssumption DEF OpenInv, FilesOK, Nothing
  <2>2. IsFiniteSet(HeldIn(fd_table, f)) /\ Cardinality(HeldIn(fd_table, f)) \in Nat
    BY HeldFinite DEF OpenInv
  <2>3. CASE f = f0
    <3>1. {<<t, d>>} \in SUBSET HeldIn(fd_table, f)
      BY <1>1, <2>3 DEF HeldIn
    <3>2. HeldIn(gt, f) = HeldIn(fd_table, f) \ {<<t, d>>}
      BY <1>7, <2>1 DEF HeldIn, OpenInv, TablesOK
    <3>3. Cardinality({<<t, d>>}) = 1
      BY FS_Singleton
    <3>4. Cardinality(HeldIn(gt, f)) = Cardinality(HeldIn(fd_table, f)) - 1
      BY <2>2, <3>1, <3>2, <3>3, CountRest
    <3> QED BY <1>4, <2>3, <3>4
  <2>4. CASE f # f0
    <3>1. HeldIn(gt, f) = HeldIn(fd_table, f)
      BY <1>1, <1>7, <2>1, <2>4 DEF HeldIn, OpenInv, TablesOK
    <3> QED BY <1>4, <2>2, <2>4, <3>1
  <2> QED BY <2>3, <2>4
<1>10. Drops(file, fd_table, gt, n)
  BY <1>8, <1>9 DEF Drops, OpenInv
<1>11. /\ FilesOK(r[1]) /\ Counted(r[1], gt)
       /\ VnodesOK(r[2]) /\ Backed(r[2], r[1], vma_list)
  <2>1. /\ FilesOK(file) /\ VnodesOK(vnode) /\ TablesOK(fd_table) /\ MapsOK(vma_list)
        /\ Backed(vnode, file, vma_list)
    BY DEF OpenInv
  <2>2. DOMAIN vma_list \subseteq DOMAIN vma_list
        /\ \A u \in DOMAIN vma_list : vma_list[u] \subseteq vma_list[u]
    OBVIOUS
  <2> QED BY <1>4, <1>5, <1>8, <1>10, <2>1, <2>2, Release, Zenon
<1> QED BY <1>5, <1>6, <1>8, <1>11 DEF sys_fclose, OpenInv

\* sys_exit: the row of a task leaves the table, and the references of its
\* descriptors go.
LEMMA ExitKeeps ==
    ASSUME OpenInv, NEW t \in DOMAIN fd_table, sys_exit(t)
    PROVE  OpenInv'
<1>1. PICK n : n = FileRefs(t)
  OBVIOUS
<1> DEFINE D(f) == {d \in Fds : fd_table[t][d] = f}
<1>2. ASSUME NEW f PROVE IsFiniteSet(D(f)) /\ Cardinality(D(f)) \in Nat
  <2>1. D(f) \in SUBSET Fds
    OBVIOUS
  <2> QED BY <2>1, FdsFinite, FS_Subset, FS_CardinalityType
<1>3. n \in [DOMAIN file -> Nat] /\ \A f \in DOMAIN file : n[f] = Cardinality(D(f))
  BY <1>1, <1>2 DEF FileRefs
<1>4. PICK r : r = file_release(file, vnode, n) /\ file' = r[1] /\ vnode' = r[2]
  BY <1>1 DEF sys_exit
<1>5. PICK gt : gt = fd_table'
  OBVIOUS
<1>6. gt = [u \in DOMAIN fd_table \ {t} |-> fd_table[u]]
  BY <1>5 DEF sys_exit, Without
<1>7. TablesOK(gt) /\ DOMAIN gt = DOMAIN fd_table \ {t} /\ Named(file, gt)
  BY <1>6 DEF OpenInv, TablesOK, Named, Counted
<1>8. ASSUME NEW f \in DOMAIN file
      PROVE  Cardinality(HeldIn(gt, f)) = Cardinality(HeldIn(fd_table, f)) - n[f]
  <2>1. IsFiniteSet(HeldIn(fd_table, f)) /\ Cardinality(HeldIn(fd_table, f)) \in Nat
    BY HeldFinite DEF OpenInv
  <2>2. ({t} \X D(f)) \in SUBSET HeldIn(fd_table, f)
    BY DEF HeldIn
  <2>3. HeldIn(gt, f) = HeldIn(fd_table, f) \ ({t} \X D(f))
    BY <1>6 DEF HeldIn
  <2>4. Cardinality({t} \X D(f)) = n[f]
    <3>1. PICK E : E = D(f)
      OBVIOUS
    <3>2. IsFiniteSet(E) /\ n[f] = Cardinality(E)
      BY <1>2, <1>3, <3>1
    <3>3. Cardinality({t} \X E) = Cardinality(E)
      BY <3>2, CountRow
    <3> QED BY <3>1, <3>2, <3>3
  <2> QED BY <2>1, <2>2, <2>3, <2>4, CountRest
<1>9. Drops(file, fd_table, gt, n)
  BY <1>7, <1>8 DEF Drops, OpenInv
<1>10. PICK wl : wl = vma_list'
  OBVIOUS
<1>11. /\ MapsOK(wl) /\ DOMAIN wl \subseteq DOMAIN vma_list /\ DOMAIN wl = DOMAIN gt
       /\ \A u \in DOMAIN wl : wl[u] \subseteq vma_list[u]
  BY <1>7, <1>10 DEF sys_exit, Without, OpenInv, MapsOK
<1>12. /\ FilesOK(r[1]) /\ Counted(r[1], gt)
       /\ VnodesOK(r[2]) /\ Backed(r[2], r[1], wl)
  <2>1. /\ FilesOK(file) /\ VnodesOK(vnode) /\ TablesOK(fd_table) /\ MapsOK(vma_list)
        /\ Backed(vnode, file, vma_list)
    BY DEF OpenInv
  <2> QED BY <1>3, <1>4, <1>7, <1>9, <1>11, <2>1, Release, Zenon
<1>13. litter' \subseteq AllVnodes
  BY DEF sys_exit, OpenInv, MapsOK
<1> QED BY <1>4, <1>5, <1>7, <1>10, <1>11, <1>12, <1>13 DEF sys_exit, OpenInv

\* What the descriptors of t refer to is counted by numbers.
LEMMA RefsCount ==
    ASSUME OpenInv, NEW t \in DOMAIN fd_table
    PROVE  /\ FileRefs(t) \in [DOMAIN file -> Nat]
           /\ VnodeRefs(t) \in [DOMAIN vnode -> Nat]
<1>1. ASSUME NEW S \in SUBSET Fds PROVE Cardinality(S) \in Nat
  BY FdsFinite, FS_Subset, FS_CardinalityType
<1>2. ASSUME NEW f PROVE Cardinality({d \in Fds : fd_table[t][d] = f}) \in Nat
  BY <1>1
<1>3. ASSUME NEW v
      PROVE  Cardinality({d \in Fds : fd_table[t][d] # Nothing
                                        /\ file[fd_table[t][d]].vn = v}) \in Nat
  BY <1>1
<1> QED BY <1>2, <1>3 DEF FileRefs, VnodeRefs

\* What fork counts: every reference of t once more.
LEMMA ForkCounts ==
    ASSUME OpenInv, NEW t \in DOMAIN fd_table
    PROVE  /\ FilesOK(Shared(t)) /\ DOMAIN Shared(t) = DOMAIN file
           /\ \A f \in DOMAIN file :
                  /\ Shared(t)[f].vn = file[f].vn
                  /\ Shared(t)[f].refcount = file[f].refcount + FileRefs(t)[f]
           /\ VnodesOK(Inherited(t)) /\ DOMAIN Inherited(t) = DOMAIN vnode
           /\ \A v \in DOMAIN vnode : Inherited(t)[v].refcount >= vnode[v].refcount
<1>1. PICK n \in [DOMAIN file -> Nat] : n = FileRefs(t)
  BY RefsCount
<1>2. PICK k \in [DOMAIN vnode -> Nat] : k = VnodeRefs(t)
  BY RefsCount
<1>3. ASSUME NEW f \in DOMAIN file
      PROVE  /\ Shared(t)[f] \in FileObject /\ Shared(t)[f].vn = file[f].vn
             /\ Shared(t)[f].refcount = file[f].refcount + n[f]
  <2>1. file[f] \in FileObject
    BY DEF OpenInv, FilesOK
  <2>2. PICK c \in Nat : c = file[f].refcount + n[f]
    BY <2>1 DEF FileObject
  <2>3. Shared(t)[f] = [file[f] EXCEPT !.refcount = c]
    BY <1>1, <2>2 DEF Shared
  <2> QED BY <2>1, <2>2, <2>3 DEF FileObject
<1>4. ASSUME NEW v \in DOMAIN vnode
      PROVE  /\ Inherited(t)[v] \in VnodeObject
             /\ Inherited(t)[v].refcount >= vnode[v].refcount
  <2>1. vnode[v] \in VnodeObject
    BY DEF OpenInv, VnodesOK
  <2>2. PICK c \in Nat : c = vnode[v].refcount + k[v] /\ c >= vnode[v].refcount
    BY <2>1 DEF VnodeObject
  <2>3. Inherited(t)[v] = [vnode[v] EXCEPT !.refcount = c]
    BY <1>2, <2>2 DEF Inherited
  <2> QED BY <2>1, <2>2, <2>3 DEF VnodeObject
<1>5. DOMAIN Shared(t) = DOMAIN file /\ Shared(t) = [f \in DOMAIN file |-> Shared(t)[f]]
  BY DEF Shared
<1>6. /\ DOMAIN Inherited(t) = DOMAIN vnode
      /\ Inherited(t) = [v \in DOMAIN vnode |-> Inherited(t)[v]]
  BY DEF Inherited
<1>7. FilesOK(Shared(t))
  BY <1>3, <1>5 DEF FilesOK, OpenInv
<1>8. VnodesOK(Inherited(t))
  BY <1>4, <1>6 DEF VnodesOK, OpenInv
<1> QED BY <1>1, <1>3, <1>4, <1>5, <1>6, <1>7, <1>8

\* sys_fork of a task without mappings: its row is there twice, and every
\* reference is counted again.
LEMMA ForkKeeps ==
    ASSUME OpenInv, ~ForkMapped, NEW t \in DOMAIN fd_table, NEW u \in Tasks, sys_fork(t, u)
    PROVE  OpenInv'
<1>1. u \notin DOMAIN fd_table /\ vma_list[t] = {}
  BY DEF sys_fork
<1>2. PICK gs : gs = file' /\ gs = Shared(t)
  BY DEF sys_fork
<1>3. PICK ws : ws = vnode' /\ ws = Inherited(t)
  BY DEF sys_fork
<1>4. PICK gt : gt = fd_table'
  OBVIOUS
<1>5. gt = [x \in DOMAIN fd_table \cup {u} |-> IF x = u THEN fd_table[t] ELSE fd_table[x]]
  BY <1>4 DEF sys_fork, With
<1>6. PICK n \in [DOMAIN file -> Nat] : n = FileRefs(t)
  BY RefsCount
<1>7. /\ FilesOK(gs) /\ DOMAIN gs = DOMAIN file
      /\ \A f \in DOMAIN file :
             gs[f].vn = file[f].vn /\ gs[f].refcount = file[f].refcount + n[f]
      /\ VnodesOK(ws) /\ DOMAIN ws = DOMAIN vnode
      /\ \A v \in DOMAIN vnode : ws[v].refcount >= vnode[v].refcount
  BY <1>2, <1>3, <1>6, ForkCounts
<1>8. TablesOK(gt) /\ DOMAIN gt = DOMAIN fd_table \cup {u} /\ Named(gs, gt)
  BY <1>5, <1>7 DEF OpenInv, TablesOK, Named, Counted
<1>9. ASSUME NEW f \in DOMAIN file
      PROVE  HeldIn(gt, f) # {} /\ gs[f].refcount = Cardinality(HeldIn(gt, f))
  <2> DEFINE D == {d \in Fds : fd_table[t][d] = f}
  <2>1. IsFiniteSet(D)
    BY FdsFinite, FS_Subset
  <2>2. n[f] = Cardinality(D) /\ n[f] \in Nat
    BY <1>6 DEF FileRefs
  <2>3. HeldIn(gt, f) = HeldIn(fd_table, f) \cup ({u} \X D)
    BY <1>1, <1>5 DEF HeldIn
  <2>4. HeldIn(fd_table, f) \cap ({u} \X D) = {}
    BY <1>1 DEF HeldIn
  <2>5. /\ IsFiniteSet(HeldIn(fd_table, f)) /\ Cardinality(HeldIn(fd_table, f)) \in Nat
        /\ HeldIn(fd_table, f) # {} /\ file[f].refcount = Cardinality(HeldIn(fd_table, f))
    BY HeldFinite DEF OpenInv, Counted
  <2> HIDE DEF D
  <2>6. IsFiniteSet({u} \X D) /\ Cardinality({u} \X D) = Cardinality(D)
    BY <2>1, CountRow
  <2>7. Cardinality(HeldIn(fd_table, f) \cup ({u} \X D))
          = Cardinality(HeldIn(fd_table, f)) + Cardinality({u} \X D)
              - Cardinality(HeldIn(fd_table, f) \cap ({u} \X D))
    BY <2>5, <2>6, FS_Union
  <2>8. Cardinality(HeldIn(fd_table, f) \cap ({u} \X D)) = 0
    BY <2>4, FS_EmptySet
  <2>9. Cardinality(HeldIn(gt, f)) = file[f].refcount + n[f] - 0
    BY <2>2, <2>3, <2>5, <2>6, <2>7, <2>8
  <2> QED BY <1>7, <2>2, <2>3, <2>5, <2>9
<1>10. Counted(gs, gt)
  BY <1>7, <1>8, <1>9 DEF Counted
<1>11. PICK copied \in SUBSET litter : /\ Cardinality(copied) <= Cardinality(vma_list[t])
                                       /\ vma_list' = With(vma_list, u, copied)
  BY DEF sys_fork
<1>12. copied = {}
  <2>1. IsFiniteSet(AllVnodes)
    BY OpenAssumption, FS_AddElement DEF AllVnodes
  <2>2. copied \in SUBSET AllVnodes
    BY DEF OpenInv
  <2>3. IsFiniteSet(copied) /\ Cardinality(copied) \in Nat
    BY <2>1, <2>2, FS_Subset, FS_CardinalityType
  <2>4. Cardinality(vma_list[t]) = 0
    BY <1>1, FS_EmptySet
  <2>5. Cardinality(copied) = 0
    BY <1>11, <2>3, <2>4
  <2> QED BY <2>3, <2>5, FS_EmptySet
<1>13. PICK wl : wl = vma_list'
  OBVIOUS
<1>14. /\ MapsOK(wl) /\ DOMAIN wl = DOMAIN gt
       /\ \A x \in DOMAIN wl : wl[x] # {} => x \in DOMAIN vma_list /\ wl[x] \subseteq vma_list[x]
  BY <1>8, <1>11, <1>12, <1>13 DEF With, OpenInv, MapsOK
<1>15. Backed(ws, gs, wl)
  BY <1>7, <1>14, LessUsed DEF OpenInv
<1> QED BY <1>2, <1>3, <1>4, <1>7, <1>8, <1>10, <1>13, <1>14, <1>15 DEF sys_fork, OpenInv

\* ForkFails: every reference to a file object is counted and given back, and
\* no file object goes with it.
LEMMA ForkFailsKeeps ==
    ASSUME OpenInv, NEW t \in DOMAIN fd_table, ForkFails(t)
    PROVE  OpenInv'
<1>1. PICK n \in [DOMAIN file -> Nat] : n = FileRefs(t)
  BY RefsCount
<1>2. PICK fs : fs = Shared(t)
  OBVIOUS
<1>3. PICK vns : vns = Inherited(t)
  OBVIOUS
<1>4. PICK r : r = file_release(fs, vns, n) /\ file' = r[1] /\ vnode' = r[2]
  BY <1>1, <1>2, <1>3 DEF ForkFails
<1>5. /\ FilesOK(fs) /\ DOMAIN fs = DOMAIN file
      /\ \A f \in DOMAIN file :
             fs[f].vn = file[f].vn /\ fs[f].refcount = file[f].refcount + n[f]
      /\ VnodesOK(vns) /\ DOMAIN vns = DOMAIN vnode
      /\ \A v \in DOMAIN vnode : vns[v].refcount >= vnode[v].refcount
  BY <1>1, <1>2, <1>3, ForkCounts
<1>6. ASSUME NEW f \in DOMAIN file
      PROVE  file[f].refcount \in Nat \ {0} /\ n[f] \in Nat /\ fs[f] \in FileObject
  <2>1. /\ IsFiniteSet(HeldIn(fd_table, f)) /\ Cardinality(HeldIn(fd_table, f)) \in Nat
        /\ HeldIn(fd_table, f) # {} /\ file[f].refcount = Cardinality(HeldIn(fd_table, f))
    BY HeldFinite DEF OpenInv, Counted
  <2> QED BY <1>5, <2>1, FS_EmptySet DEF FilesOK
<1>7. {f \in DOMAIN fs : fs[f].refcount = n[f]} = {}
  BY <1>5, <1>6
<1>8. PICK gs : gs = r[1]
  OBVIOUS
<1>9. /\ DOMAIN gs = DOMAIN fs /\ gs = [f \in DOMAIN gs |-> gs[f]]
      /\ \A f \in DOMAIN fs : gs[f] = [fs[f] EXCEPT !.refcount = @ - n[f]]
  BY <1>4, <1>7, <1>8 DEF file_release
<1>10. ASSUME NEW f \in DOMAIN file
       PROVE  /\ gs[f] \in FileObject /\ gs[f].vn = file[f].vn
              /\ gs[f].refcount = file[f].refcount
  <2>1. PICK c \in Nat : c = fs[f].refcount - n[f] /\ c = file[f].refcount
    BY <1>5, <1>6
  <2>2. gs[f] = [fs[f] EXCEPT !.refcount = c]
    BY <1>5, <1>9, <2>1
  <2> QED BY <1>5, <1>6, <2>1, <2>2 DEF FileObject
<1>11. FilesOK(gs) /\ DOMAIN gs = DOMAIN file
  BY <1>5, <1>9, <1>10 DEF FilesOK
<1>12. Counted(gs, fd_table)
  BY <1>10, <1>11, SameCounted DEF OpenInv
<1>13. Backed(vns, gs, vma_list)
  BY <1>5, <1>10, <1>11, LessUsed DEF OpenInv
<1>14. PICK k : k = [v \in DOMAIN vns |-> 0]
  OBVIOUS
<1>15. r[2] = vnode_release(vns, k)
  <2>1. \A v : {f \in {} : fs[f].vn = v} = {}
    OBVIOUS
  <2>2. r[2] = vnode_release(vns, [v \in DOMAIN vns |-> Cardinality({f \in {} : fs[f].vn = v})])
    BY <1>4, <1>7 DEF file_release
  <2>3. [v \in DOMAIN vns |-> Cardinality({f \in {} : fs[f].vn = v})]
          = [v \in DOMAIN vns |-> Cardinality({})]
    BY <2>1
  <2> QED BY <1>14, <2>2, <2>3, FS_EmptySet
<1>16. /\ k \in [DOMAIN vns -> Nat]
       /\ \A v \in DOMAIN vns : vns[v].refcount >= Uses(gs, vma_list, v) + k[v]
  BY <1>11, <1>13, <1>14, UsesCount DEF Backed, OpenInv
<1>17. There(vns, gs, vma_list) /\ MapsOK(vma_list)
  BY <1>13 DEF Backed, OpenInv
<1>18. VnodesOK(vnode_release(vns, k)) /\ Backed(vnode_release(vns, k), gs, vma_list)
  BY <1>5, <1>11, <1>16, <1>17, ReleaseVnodes
<1> QED BY <1>4, <1>8, <1>11, <1>12, <1>15, <1>18 DEF ForkFails, OpenInv

\* A vnode that is not allocated has no user.
LEMMA FreshUnused ==
    ASSUME NEW vns, NEW fs, NEW vl, There(vns, fs, vl), NEW v, v \notin DOMAIN vns
    PROVE  v # Root /\ FilesOn(fs, v) = {} /\ MappersIn(vl, v) = {}
  BY DEF There, FilesOn, MappersIn

\* A vnode fresh from fat16_lookup, which nobody uses yet.
LEMMA LookupBacks ==
    ASSUME OpenInv, NEW v \in FreeVnodes, NEW p \in Paths
    PROVE  /\ VnodesOK(NewVnode(v, p)) /\ DOMAIN NewVnode(v, p) = DOMAIN vnode \cup {v}
           /\ NewVnode(v, p)[v].refcount = 1
           /\ Backed(NewVnode(v, p), file, vma_list)
<1>1. PICK ws : ws = NewVnode(v, p)
  OBVIOUS
<1>2. /\ ws = [x \in DOMAIN ws |-> ws[x]] /\ DOMAIN ws = DOMAIN vnode \cup {v}
      /\ ws[v] = [path |-> p, refcount |-> 1]
      /\ \A x \in DOMAIN vnode : ws[x] = vnode[x]
  BY <1>1 DEF NewVnode, With, FreeVnodes
<1>3. VnodesOK(ws) /\ ws[v].refcount = 1
  <2>1. ws[v] \in VnodeObject
    BY <1>2 DEF VnodeObject, AllPaths
  <2>2. \A x \in DOMAIN vnode : ws[x] \in VnodeObject
    BY <1>2 DEF OpenInv, VnodesOK
  <2> QED BY <1>2, <2>1, <2>2 DEF OpenInv, VnodesOK, AllVnodes, FreeVnodes
<1>4. There(ws, file, vma_list)
  BY <1>2 DEF OpenInv, Backed, There
<1>5. ASSUME NEW x \in DOMAIN ws PROVE ws[x].refcount >= Uses(file, vma_list, x)
  <2>1. CASE x \in DOMAIN vnode
    BY <1>2, <2>1 DEF OpenInv, Backed
  <2>2. CASE x \notin DOMAIN vnode
    <3>1. x = v
      BY <1>2, <2>2
    <3>2. v # Root /\ FilesOn(file, v) = {} /\ MappersIn(vma_list, v) = {}
      BY <2>2, <3>1, FreshUnused DEF OpenInv, Backed
    <3>3. Cardinality(FilesOn(file, v)) = 0 /\ Cardinality(MappersIn(vma_list, v)) = 0
      BY <3>2, FS_EmptySet
    <3> QED BY <1>3, <3>1, <3>2, <3>3 DEF Uses
  <2> QED BY <2>1, <2>2
<1> QED BY <1>1, <1>2, <1>3, <1>4, <1>5 DEF Backed

\* sys_fopen that ends with an open file: a free descriptor names the new file
\* object, which is the one user of the new vnode.
LEMMA OpenedCounts ==
    ASSUME OpenInv, NEW t \in DOMAIN fd_table, NEW p \in Paths, NEW v \in FreeVnodes,
           NEW mode, NEW f \in FreeFiles, NEW d \in Fds, fd_table[t][d] = Nothing,
           NEW gs, gs = NewFile(f, v, mode),
           NEW gt, gt = [fd_table EXCEPT ![t][d] = f]
    PROVE  /\ FilesOK(gs) /\ TablesOK(gt) /\ DOMAIN gt = DOMAIN fd_table
           /\ Counted(gs, gt) /\ Backed(NewVnode(v, p), gs, vma_list)
<1>1. /\ gs = [x \in DOMAIN gs |-> gs[x]] /\ DOMAIN gs = DOMAIN file \cup {f}
      /\ gs[f] = [vn |-> v, offset |-> 0, wronly |-> mode = "write", refcount |-> 1]
      /\ \A x \in DOMAIN file : gs[x] = file[x]
  BY DEF NewFile, With, FreeFiles
<1>2. gs[f] \in FileObject /\ gs[f].vn = v /\ gs[f].refcount = 1
  BY <1>1 DEF FileObject, AllVnodes, FreeVnodes
<1>3. FilesOK(gs)
  <2>1. \A x \in DOMAIN file : gs[x] \in FileObject
    BY <1>1 DEF OpenInv, FilesOK
  <2> QED BY <1>1, <1>2, <2>1 DEF FilesOK, OpenInv, FreeFiles
<1>4. TablesOK(gt) /\ DOMAIN gt = DOMAIN fd_table
  BY DEF OpenInv, TablesOK, FreeFiles
<1>5. Counted(gs, gt)
  <2>1. Named(gs, gt)
    BY <1>1 DEF OpenInv, TablesOK, Named, Counted
  <2>2. HeldIn(gt, f) = {<<t, d>>}
    <3>1. f # Nothing
      BY OpenAssumption DEF FreeFiles, Nothing
    <3>2. \A x \in DOMAIN fd_table, y \in Fds : fd_table[x][y] # f
      BY <3>1 DEF OpenInv, Counted, Named, FreeFiles
    <3>3. \A x \in DOMAIN fd_table, y \in Fds :
            gt[x][y] = IF x = t /\ y = d THEN f ELSE fd_table[x][y]
      BY DEF OpenInv, TablesOK
    <3>4. HeldIn(gt, f) = {h \in (DOMAIN fd_table) \X Fds : h[1] = t /\ h[2] = d}
      BY <1>4, <3>2, <3>3 DEF HeldIn
    <3>5. \A h \in (DOMAIN fd_table) \X Fds : h = <<h[1], h[2]>>
      OBVIOUS
    <3>6. <<t, d>> \in (DOMAIN fd_table) \X Fds
      OBVIOUS
    <3> QED BY <3>4, <3>5, <3>6
  <2>3. Cardinality(HeldIn(gt, f)) = 1
    BY <2>2, FS_Singleton
  <2>4. ASSUME NEW x \in DOMAIN file PROVE HeldIn(gt, x) = HeldIn(fd_table, x)
    <3>1. x # f /\ x # Nothing
      BY OpenAssumption DEF FreeFiles, OpenInv, FilesOK, Nothing
    <3> QED BY <3>1 DEF HeldIn, OpenInv, TablesOK
  <2>5. \A x \in DOMAIN file : HeldIn(gt, x) # {} /\ gs[x].refcount = Cardinality(HeldIn(gt, x))
    BY <1>1, <2>4 DEF OpenInv, Counted
  <2> QED BY <1>1, <1>2, <2>1, <2>2, <2>3, <2>5 DEF Counted
<1>6. PICK ws : ws = NewVnode(v, p)
  OBVIOUS
<1>7. /\ VnodesOK(ws) /\ DOMAIN ws = DOMAIN vnode \cup {v} /\ ws[v].refcount = 1
      /\ Backed(ws, file, vma_list)
  BY <1>6, LookupBacks
<1>8. There(ws, gs, vma_list)
  <2>1. \A x \in DOMAIN gs : gs[x].vn \in DOMAIN ws
    BY <1>1, <1>2, <1>7 DEF Backed, There
  <2> QED BY <1>7, <2>1 DEF Backed, There
<1>9. ASSUME NEW x \in DOMAIN ws PROVE ws[x].refcount >= Uses(gs, vma_list, x)
  <2>1. CASE x = v
    <3>1. v # Root /\ FilesOn(file, v) = {} /\ MappersIn(vma_list, v) = {}
      BY FreshUnused DEF OpenInv, Backed, FreeVnodes
    <3>2. FilesOn(gs, v) = {f}
      BY <1>1, <1>2, <3>1 DEF FilesOn
    <3>3. Cardinality(FilesOn(gs, v)) = 1 /\ Cardinality(MappersIn(vma_list, v)) = 0
      BY <3>1, <3>2, FS_EmptySet, FS_Singleton
    <3> QED BY <1>7, <2>1, <3>1, <3>3 DEF Uses
  <2>2. CASE x # v
    <3>1. FilesOn(gs, x) = FilesOn(file, x)
      BY <1>1, <1>2, <2>2 DEF FilesOn, FreeFiles
    <3> QED BY <1>7, <3>1 DEF Backed, Uses
  <2> QED BY <2>1, <2>2
<1> QED BY <1>3, <1>4, <1>5, <1>6, <1>8, <1>9 DEF Backed

\* sys_fopen, with and without a file object.
LEMMA OpenKeeps ==
    ASSUME OpenInv, NEW t \in DOMAIN fd_table, NEW p \in Paths, NEW mode,
           NEW v \in FreeVnodes, sys_fopen(t, p, mode, v)
    PROVE  OpenInv'
<1>1. size' \in [DOMAIN size' -> Nat]
  BY DEF sys_fopen, With, OpenInv
<1>2. vnode' = NewVnode(v, p) /\ VnodesOK(vnode')
  BY LookupBacks DEF sys_fopen
<1>3. CASE p \in Directories \/ FreeFiles = {}
  <2>1. UNCHANGED <<file, fd_table, vma_list, litter>>
    BY <1>3 DEF sys_fopen
  <2>2. Backed(NewVnode(v, p), file, vma_list)
    BY LookupBacks
  <2> QED BY <1>1, <1>2, <2>1, <2>2 DEF OpenInv
<1>4. CASE ~(p \in Directories \/ FreeFiles = {})
  <2>1. PICK f : f = FirstOf(FreeFiles)
    OBVIOUS
  <2>2. f \in FreeFiles
    <3>1. FreeFiles \in SUBSET Nat /\ FreeFiles # {}
      BY <1>4, OpenAssumption DEF FreeFiles
    <3> QED BY <2>1, <3>1, FirstIsIn
  <2>3. PICK d : d = find_free_fd(t)
    OBVIOUS
  <2>4. d \in Fds /\ fd_table[t][d] = Nothing
    <3>1. PICK S : S = {x \in Fds : fd_table[t][x] = Nothing}
      OBVIOUS
    <3>2. S \in SUBSET Nat
      BY <3>1, OpenAssumption DEF Fds
    <3>3. S # {} /\ d = FirstOf(S)
      BY <2>3, <3>1 DEF sys_fopen, find_free_fd
    <3>4. d \in S
      BY <3>2, <3>3, FirstIsIn
    <3> QED BY <3>1, <3>4
  <2>5. PICK gs : gs = file' /\ gs = NewFile(f, v, mode)
    BY <1>4, <2>1 DEF sys_fopen
  <2>6. PICK gt : gt = fd_table' /\ gt = [fd_table EXCEPT ![t][d] = f]
    BY <1>4, <2>1, <2>3 DEF sys_fopen
  <2>7. /\ FilesOK(gs) /\ TablesOK(gt) /\ DOMAIN gt = DOMAIN fd_table
        /\ Counted(gs, gt) /\ Backed(NewVnode(v, p), gs, vma_list)
    BY <2>2, <2>4, <2>5, <2>6, OpenedCounts
  <2>8. UNCHANGED <<vma_list, litter>>
    BY DEF sys_fopen
  <2> QED BY <1>1, <1>2, <2>5, <2>6, <2>7, <2>8 DEF OpenInv
<1> QED BY <1>3, <1>4

\* sys_mmap: one mapping and one reference more.
LEMMA MapKeeps ==
    ASSUME OpenInv, NEW t \in DOMAIN fd_table, NEW d \in Fds, sys_mmap(t, d)
    PROVE  OpenInv'
<1>1. fd_table[t][d] \in DOMAIN file
  BY DEF sys_mmap, OpenInv, Counted, Named
<1>2. PICK v : v = file[fd_table[t][d]].vn
  OBVIOUS
<1>3. v \in DOMAIN vnode /\ v \in AllVnodes
  BY <1>1, <1>2 DEF OpenInv, Backed, There, VnodesOK
<1>4. PICK ws : ws = vnode'
  OBVIOUS
<1>5. ws = [vnode EXCEPT ![v].refcount = @ + 1]
  BY <1>2, <1>4 DEF sys_mmap
<1>6. PICK wl : wl = vma_list'
  OBVIOUS
<1>7. v \notin vma_list[t] /\ wl = [vma_list EXCEPT ![t] = @ \cup {v}]
  BY <1>2, <1>6 DEF sys_mmap
<1>8. MapsOK(wl) /\ DOMAIN wl = DOMAIN vma_list /\ t \in DOMAIN vma_list
  BY <1>3, <1>7 DEF OpenInv, MapsOK
<1>9. /\ VnodesOK(ws) /\ DOMAIN ws = DOMAIN vnode
      /\ \A x \in DOMAIN vnode :
             ws[x].refcount = IF x = v THEN vnode[x].refcount + 1 ELSE vnode[x].refcount
  <2>1. vnode[v] \in VnodeObject
    BY <1>3 DEF OpenInv, VnodesOK
  <2>2. PICK c \in Nat : c = vnode[v].refcount + 1
    BY <2>1 DEF VnodeObject
  <2>3. ws = [vnode EXCEPT ![v] = [vnode[v] EXCEPT !.refcount = c]]
    BY <1>3, <1>5, <2>2
  <2>4. [vnode[v] EXCEPT !.refcount = c] \in VnodeObject
        /\ [vnode[v] EXCEPT !.refcount = c].refcount = c
    BY <2>1, <2>2 DEF VnodeObject
  <2> QED BY <1>3, <2>2, <2>3, <2>4 DEF OpenInv, VnodesOK
<1>10. There(ws, file, wl)
  BY <1>3, <1>7, <1>8, <1>9 DEF OpenInv, Backed, There
<1>11. ASSUME NEW x \in DOMAIN ws PROVE ws[x].refcount >= Uses(file, wl, x)
  <2>1. /\ IsFiniteSet(MappersIn(vma_list, x))
        /\ Cardinality(FilesOn(file, x)) \in Nat /\ Cardinality(MappersIn(vma_list, x)) \in Nat
    BY UsesCount DEF OpenInv
  <2>2. vnode[x].refcount \in Nat /\ vnode[x].refcount >= Uses(file, vma_list, x)
    BY <1>9 DEF OpenInv, Backed, VnodesOK, VnodeObject
  <2>3. CASE x = v
    <3>1. t \notin MappersIn(vma_list, x) /\ MappersIn(wl, x) = MappersIn(vma_list, x) \cup {t}
      BY <1>7, <1>8, <2>3 DEF MappersIn, OpenInv, MapsOK
    <3>2. Cardinality(MappersIn(wl, x)) = Cardinality(MappersIn(vma_list, x)) + 1
      BY <2>1, <3>1, FS_AddElement
    <3> QED BY <1>9, <2>1, <2>2, <2>3, <3>2 DEF Uses
  <2>4. CASE x # v
    <3>1. MappersIn(wl, x) = MappersIn(vma_list, x)
      BY <1>7, <1>8, <2>4 DEF MappersIn, OpenInv, MapsOK
    <3> QED BY <1>9, <2>2, <2>4, <3>1 DEF Uses
  <2> QED BY <2>3, <2>4
<1> QED BY <1>4, <1>6, <1>8, <1>9, <1>10, <1>11 DEF sys_mmap, OpenInv, Backed

\* sys_munmap: one mapping and one reference less.
LEMMA UnmapKeeps ==
    ASSUME OpenInv, NEW t \in DOMAIN fd_table, NEW v \in Vnodes, sys_munmap(t, v)
    PROVE  OpenInv'
<1>1. t \in DOMAIN vma_list /\ v \in vma_list[t] /\ v \in DOMAIN vnode
  BY DEF sys_munmap, OpenInv, Backed, There
<1>2. PICK k : k = Once(DOMAIN vnode, v)
  OBVIOUS
<1>3. k \in [DOMAIN vnode -> Nat] /\ \A x \in DOMAIN vnode : k[x] = IF x = v THEN 1 ELSE 0
  BY <1>2 DEF Once
<1>4. vnode' = vnode_release(vnode, k)
  BY <1>1, <1>2 DEF sys_munmap
<1>5. PICK wl : wl = vma_list'
  OBVIOUS
<1>6. wl = [vma_list EXCEPT ![t] = @ \ {v}]
  BY <1>5 DEF sys_munmap
<1>7. MapsOK(wl) /\ DOMAIN wl = DOMAIN vma_list
  BY <1>6 DEF OpenInv, MapsOK
<1>8. There(vnode, file, wl)
  BY <1>6, <1>7 DEF OpenInv, Backed, There
<1>9. ASSUME NEW x \in DOMAIN vnode
      PROVE  vnode[x].refcount >= Uses(file, wl, x) + k[x]
  <2>1. /\ IsFiniteSet(MappersIn(vma_list, x))
        /\ Cardinality(FilesOn(file, x)) \in Nat /\ Cardinality(MappersIn(vma_list, x)) \in Nat
    BY UsesCount DEF OpenInv
  <2>2. vnode[x].refcount \in Nat /\ vnode[x].refcount >= Uses(file, vma_list, x)
    BY DEF OpenInv, Backed, VnodesOK, VnodeObject
  <2>3. CASE x = v
    <3>1. t \in MappersIn(vma_list, x) /\ MappersIn(wl, x) = MappersIn(vma_list, x) \ {t}
      BY <1>1, <1>6, <1>7, <2>3 DEF MappersIn, OpenInv, MapsOK
    <3>2. Cardinality(MappersIn(wl, x)) = Cardinality(MappersIn(vma_list, x)) - 1
      <4>1. PICK M : M = MappersIn(vma_list, x)
        OBVIOUS
      <4>2. Cardinality(M \ {t}) = Cardinality(M) - 1
        BY <2>1, <3>1, <4>1, FS_RemoveElement
      <4> QED BY <3>1, <4>1, <4>2
    <3> QED BY <1>3, <2>1, <2>2, <2>3, <3>2 DEF Uses
  <2>4. CASE x # v
    <3>1. MappersIn(wl, x) = MappersIn(vma_list, x)
      BY <1>1, <1>6, <1>7, <2>4 DEF MappersIn, OpenInv, MapsOK
    <3>2. Uses(file, wl, x) \in Nat /\ Uses(file, wl, x) = Uses(file, vma_list, x)
      BY <1>7, <3>1, UsesCount DEF OpenInv, Uses
    <3> QED BY <1>3, <2>2, <2>4, <3>2
  <2> QED BY <2>3, <2>4
<1>10. VnodesOK(vnode_release(vnode, k)) /\ Backed(vnode_release(vnode, k), file, wl)
  BY <1>3, <1>7, <1>8, <1>9, ReleaseVnodes DEF OpenInv
<1>11. litter' \subseteq AllVnodes
  BY DEF sys_munmap, OpenInv, AllVnodes
<1> QED BY <1>4, <1>5, <1>7, <1>10, <1>11 DEF sys_munmap, OpenInv

\* sys_fread and sys_fwrite move an offset, which no count depends on.
LEMMA MoveKeeps ==
    ASSUME OpenInv, NEW t \in DOMAIN fd_table, NEW d \in Fds, NEW n \in Nat,
           sys_fread(t, d, n) \/ sys_fwrite(t, d, n)
    PROVE  OpenInv'
<1>1. PICK f : f = fd_table[t][d]
  OBVIOUS
<1>2. f \in DOMAIN file /\ file[f] \in FileObject
  BY <1>1 DEF sys_fread, sys_fwrite, OpenInv, Counted, Named, FilesOK
<1>3. \E c \in Nat : file' = [file EXCEPT ![f] = [file[f] EXCEPT !.offset = c]]
  <2>1. CASE sys_fread(t, d, n)
    <3>1. PICK p : p = vnode[file[f].vn].path
      OBVIOUS
    <3>2. p \in DOMAIN size /\ size[p] \in Nat
      BY <1>1, <2>1, <3>1 DEF sys_fread, OpenInv
    <3>3. PICK c \in Nat :
            c = IF file[f].offset + n > size[p] THEN size[p] ELSE file[f].offset + n
      BY <1>2, <3>2 DEF FileObject
    <3>4. file' = [file EXCEPT ![f].offset = IF @ + n > size[p] THEN size[p] ELSE @ + n]
      BY <1>1, <2>1, <3>1 DEF sys_fread
    <3>5. file' = [file EXCEPT ![f] = [file[f] EXCEPT !.offset = c]]
      BY <1>2, <3>3, <3>4
    <3> QED BY <3>5
  <2>2. CASE sys_fwrite(t, d, n)
    <3>1. PICK c \in Nat : c = file[f].offset + n
      BY <1>2 DEF FileObject
    <3>2. file' = [file EXCEPT ![f].offset = @ + n]
      BY <1>1, <2>2 DEF sys_fwrite
    <3>3. file' = [file EXCEPT ![f] = [file[f] EXCEPT !.offset = c]]
      BY <1>2, <3>1, <3>2
    <3> QED BY <3>3
  <2> QED BY <2>1, <2>2
<1>4. PICK c \in Nat : file' = [file EXCEPT ![f] = [file[f] EXCEPT !.offset = c]]
  BY <1>3
<1>5. PICK g : g = [file[f] EXCEPT !.offset = c]
  OBVIOUS
<1>6. g \in FileObject /\ g.vn = file[f].vn /\ g.refcount = file[f].refcount
  BY <1>2, <1>5 DEF FileObject
<1>7. PICK gs : gs = file' /\ gs = [file EXCEPT ![f] = g]
  BY <1>4, <1>5
<1>8. /\ FilesOK(gs) /\ DOMAIN gs = DOMAIN file
      /\ \A x \in DOMAIN file : gs[x].vn = file[x].vn /\ gs[x].refcount = file[x].refcount
  BY <1>2, <1>6, <1>7 DEF OpenInv, FilesOK
<1>9. Counted(gs, fd_table)
  BY <1>8, SameCounted DEF OpenInv
<1>10. Backed(vnode, gs, vma_list)
  <2>1. \A v \in DOMAIN vnode : vnode[v].refcount >= vnode[v].refcount
    BY DEF OpenInv, VnodesOK, VnodeObject
  <2> QED BY <1>8, <2>1, LessUsed DEF OpenInv
<1>11. size' \in [DOMAIN size' -> Nat]
  BY DEF sys_fread, sys_fwrite, With, OpenInv
<1>12. UNCHANGED <<vnode, fd_table, vma_list, litter>>
  BY DEF sys_fread, sys_fwrite
<1> QED BY <1>7, <1>8, <1>9, <1>10, <1>11, <1>12 DEF OpenInv

\* The calls that change neither file objects nor descriptors in use.
LEMMA OthersKeep ==
    ASSUME OpenInv,
           \/ \E p \in Paths : vfs_unlink(p)
           \/ \E u \in Tasks : Spawn(u)
           \/ \E t \in DOMAIN fd_table : OpenRoot(t) \/ sys_exec(t)
    PROVE  OpenInv'
<1>0. \A v \in DOMAIN vnode : vnode[v].refcount \in Nat /\ vnode[v].refcount >= vnode[v].refcount
  BY DEF OpenInv, VnodesOK, VnodeObject
<1>1. ASSUME NEW p \in Paths, vfs_unlink(p) PROVE OpenInv'
  BY <1>1 DEF vfs_unlink, Without, OpenInv
<1>2. ASSUME NEW u \in Tasks, Spawn(u) PROVE OpenInv'
  <2>1. PICK gt : gt = fd_table'
    OBVIOUS
  <2>2. PICK wl : wl = vma_list'
    OBVIOUS
  <2>3. /\ gt = [x \in DOMAIN fd_table \cup {u} |-> IF x = u THEN NoFds ELSE fd_table[x]]
        /\ u \notin DOMAIN fd_table
    BY <1>2, <2>1 DEF Spawn, With
  <2>4. wl = [x \in DOMAIN vma_list \cup {u} |-> IF x = u THEN {} ELSE vma_list[x]]
    BY <1>2, <2>2 DEF Spawn, With
  <2>5. TablesOK(gt) /\ DOMAIN gt = DOMAIN fd_table \cup {u} /\ Named(file, gt)
    BY <2>3 DEF OpenInv, TablesOK, NoFds, Named, Counted
  <2>6. ASSUME NEW f \in DOMAIN file PROVE HeldIn(gt, f) = HeldIn(fd_table, f)
    <3>1. f # Nothing
      BY OpenAssumption DEF OpenInv, FilesOK, Nothing
    <3> QED BY <2>3, <3>1 DEF HeldIn, NoFds
  <2>7. Counted(file, gt)
    BY <2>5, <2>6 DEF Counted, OpenInv
  <2>8. /\ MapsOK(wl) /\ DOMAIN wl = DOMAIN gt
        /\ \A x \in DOMAIN wl :
               wl[x] # {} => x \in DOMAIN vma_list /\ wl[x] \subseteq vma_list[x]
    BY <2>4, <2>5 DEF OpenInv, MapsOK
  <2>9. Backed(vnode, file, wl)
    BY <1>0, <2>8, LessUsed DEF OpenInv
  <2> QED BY <1>2, <2>1, <2>2, <2>5, <2>7, <2>8, <2>9 DEF Spawn, OpenInv
<1>3. ASSUME NEW t \in DOMAIN fd_table, OpenRoot(t) PROVE OpenInv'
  <2>1. PICK ws : ws = vnode'
    OBVIOUS
  <2>2. Root \in DOMAIN vnode /\ vnode[Root] \in VnodeObject
    BY DEF OpenInv, Backed, There, VnodesOK
  <2>3. PICK c \in Nat : c = vnode[Root].refcount + 1
    BY <2>2 DEF VnodeObject
  <2>4. PICK w : w = [vnode[Root] EXCEPT !.refcount = c]
    OBVIOUS
  <2>5. w \in VnodeObject /\ w.refcount = c /\ c >= vnode[Root].refcount
    BY <2>2, <2>3, <2>4 DEF VnodeObject
  <2>6. ws = [vnode EXCEPT ![Root] = w]
    BY <1>3, <2>1, <2>2, <2>3, <2>4 DEF OpenRoot
  <2>7. /\ VnodesOK(ws) /\ DOMAIN ws = DOMAIN vnode
        /\ \A v \in DOMAIN vnode : ws[v].refcount >= vnode[v].refcount
    BY <1>0, <2>2, <2>5, <2>6 DEF OpenInv, VnodesOK
  <2>8. Backed(ws, file, vma_list)
    BY <2>7, LessUsed DEF OpenInv
  <2> QED BY <1>3, <2>1, <2>7, <2>8 DEF OpenRoot, OpenInv
<1>4. ASSUME NEW t \in DOMAIN fd_table, sys_exec(t) PROVE OpenInv'
  <2>1. PICK wl : wl = vma_list'
    OBVIOUS
  <2>2. /\ MapsOK(wl) /\ DOMAIN wl = DOMAIN vma_list
        /\ \A x \in DOMAIN wl :
               wl[x] # {} => x \in DOMAIN vma_list /\ wl[x] \subseteq vma_list[x]
    BY <1>4, <2>1 DEF sys_exec, OpenInv, MapsOK
  <2>3. Backed(vnode, file, wl)
    BY <1>0, <2>2, LessUsed DEF OpenInv
  <2>4. litter' \subseteq AllVnodes
    BY <1>4 DEF sys_exec, OpenInv, MapsOK
  <2> QED BY <1>4, <2>1, <2>2, <2>3, <2>4 DEF sys_exec, OpenInv
<1> QED BY <1>1, <1>2, <1>3, <1>4

\* Every step of OpenFiles keeps the invariant.
LEMMA OpenNextInv ==
    ASSUME ~ForkMapped, OpenInv, [OpenNext]_fvars
    PROVE  OpenInv'
<1>1. CASE UNCHANGED fvars
  BY <1>1 DEF fvars, OpenInv
<1>2. CASE \/ \E p \in Paths : vfs_unlink(p)
           \/ \E u \in Tasks : Spawn(u)
           \/ \E t \in DOMAIN fd_table : OpenRoot(t) \/ sys_exec(t)
  BY <1>2, OthersKeep
<1>3. ASSUME NEW t \in DOMAIN fd_table, ForkFails(t) \/ sys_exit(t)
      PROVE  OpenInv'
  BY <1>3, ForkFailsKeeps, ExitKeeps
<1>4. ASSUME NEW t \in DOMAIN fd_table, NEW p \in Paths, NEW m \in {"read", "write"},
             FreeVnodes # {}, sys_fopen(t, p, m, FirstOf(FreeVnodes))
      PROVE  OpenInv'
  <2>1. PICK S : S = FreeVnodes
    OBVIOUS
  <2>2. S \in SUBSET Nat /\ S # {}
    BY <1>4, <2>1, OpenAssumption DEF FreeVnodes
  <2>3. PICK v : v = FirstOf(S)
    OBVIOUS
  <2>4. v \in FreeVnodes /\ sys_fopen(t, p, m, v)
    BY <1>4, <2>1, <2>2, <2>3, FirstIsIn
  <2> QED BY <2>4, OpenKeeps
<1>5. ASSUME NEW t \in DOMAIN fd_table, NEW d \in Fds, NEW n \in 0 .. MaxSize,
             sys_fread(t, d, n) \/ sys_fwrite(t, d, n)
      PROVE  OpenInv'
  <2>1. n \in Nat
    OBVIOUS
  <2> QED BY <1>5, <2>1, MoveKeeps
<1>6. ASSUME NEW t \in DOMAIN fd_table, NEW d \in Fds, sys_fclose(t, d) \/ sys_mmap(t, d)
      PROVE  OpenInv'
  BY <1>6, CloseKeeps, MapKeeps
<1>7. ASSUME NEW t \in DOMAIN fd_table, NEW v \in Vnodes, sys_munmap(t, v) PROVE OpenInv'
  BY <1>7, UnmapKeeps
<1>8. ASSUME NEW t \in DOMAIN fd_table, NEW u \in Tasks, sys_fork(t, u) PROVE OpenInv'
  BY <1>8, ForkKeeps
<1> QED BY <1>1, <1>2, <1>3, <1>4, <1>5, <1>6, <1>7, <1>8 DEF OpenNext

\* OpenInv holds throughout.
THEOREM OpenInvariance == ASSUME ~ForkMapped PROVE OpenSpec => []OpenInv
<1>1. ASSUME OpenInit PROVE OpenInv
  <2>1. VnodesOK(vnode) /\ vnode[Root].refcount = 1 /\ DOMAIN vnode = {Root}
    BY <1>1 DEF OpenInit, VnodesOK, VnodeObject, AllVnodes, AllPaths
  <2>2. DOMAIN file = {} /\ FilesOK(file)
    BY <1>1 DEF OpenInit, FilesOK
  <2>3. DOMAIN fd_table = {} /\ TablesOK(fd_table)
    BY <1>1 DEF OpenInit, TablesOK
  <2>4. DOMAIN vma_list = {} /\ MapsOK(vma_list)
    BY <1>1 DEF OpenInit, MapsOK
  <2>5. Counted(file, fd_table)
    BY <2>2, <2>3 DEF Counted, Named
  <2>6. FilesOn(file, Root) = {} /\ MappersIn(vma_list, Root) = {}
    BY <2>2, <2>4 DEF FilesOn, MappersIn
  <2>7. Uses(file, vma_list, Root) = 1
    BY <2>6, FS_EmptySet DEF Uses
  <2>8. Backed(vnode, file, vma_list)
    BY <2>1, <2>2, <2>4, <2>7 DEF Backed, There
  <2>9. litter = {} /\ size \in [DOMAIN size -> Nat]
    BY <1>1 DEF OpenInit
  <2> QED BY <2>1, <2>2, <2>3, <2>4, <2>5, <2>8, <2>9 DEF OpenInv
<1> QED BY <1>1, OpenNextInv, PTL DEF OpenSpec

\* However fopen, fclose, fork, exec, exit, mmap and munmap follow each other, a
\* file object lives exactly as long as a descriptor names it and is counted by
\* those descriptors, and no vnode is freed while a file object, a mapping or
\* the mount uses it, as long as no process with mappings forks.
THEOREM OpenFilesOutliveUsers ==
    ASSUME ~ForkMapped PROVE OpenSpec => []FilesOutliveUsers
<1>1. ASSUME OpenInv PROVE FilesOutliveUsers
  <2>1. FilesCounted
    BY <1>1 DEF OpenInv, Counted, Named, HeldIn, FilesCounted, Holders
  <2>2. VnodesOutliveUsers
    BY <1>1 DEF OpenInv, Backed, There, Uses, FilesOn, MappersIn, VnodesOutliveUsers, Mappers
  <2> QED BY <2>1, <2>2 DEF FilesOutliveUsers
<1> QED BY <1>1, OpenInvariance, PTL
=============================================================================
