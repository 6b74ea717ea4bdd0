------------------------------ MODULE OpenFiles ------------------------------
(***************************************************************************)
(* Open files: the reference counts of vnodes and of file objects, the     *)
(* descriptor tables of the processes and the mappings of files            *)
(* (vfs.cpp, the file system calls of syscall_gate.cpp, thread_cleanup).   *)
(*                                                                         *)
(* Every look-up makes a vnode of its own, so two openings of one path     *)
(* share nothing but what is on the disk.  The disk is the size of each    *)
(* file: contents are the subject of Fat16, scheduling and the rest of     *)
(* fork, exec and exit that of Process and Memory.  System calls run with  *)
(* interrupts off, so one call is one step.                                *)
(***************************************************************************)
EXTENDS Integers, FiniteSets

CONSTANTS
    Tasks,              \* slots of the thread table
    Paths,              \* files and directories in the root directory
    Directories,        \* those of Paths that are directories
    Vnodes, Files,      \* blocks kmalloc may hand out for each
    MAX_OPEN_FILES,
    MaxSize,            \* bound: size of a file
    MaxRefs,            \* bound: references to one vnode
    ForkMapped          \* may a process with mappings fork?

ASSUME OpenAssumption ==
    /\ IsFiniteSet(Tasks) /\ IsFiniteSet(Vnodes) /\ IsFiniteSet(Files)
    /\ Vnodes \subseteq Nat \ {0} /\ Files \subseteq Nat /\ MAX_OPEN_FILES \in Nat

VARIABLES
    vnode,              \* the vnodes that are allocated: path and refcount
    file,               \* the file objects: vn, offset, write-only, refcount
    fd_table,           \* for every live task its descriptors
    vma_list,           \* for every live task the vnodes of its mappings
    litter,             \* vnode addresses that freed mappings left in the heap
    size                \* on disk: the size of every file that exists

fvars == <<vnode, file, fd_table, vma_list, litter, size>>

Nothing == -1
Root == 0               \* the address of the root vnode
Fds == 0 .. MAX_OPEN_FILES - 1
NoFds == [d \in Fds |-> Nothing]

FreeVnodes == Vnodes \ DOMAIN vnode
FreeFiles == Files \ DOMAIN file
Without(f, x) == [y \in DOMAIN f \ {x} |-> f[y]]
With(f, x, v) == [y \in DOMAIN f \cup {x} |-> IF y = x THEN v ELSE f[y]]
FirstOf(S) == CHOOSE x \in S : \A y \in S : x <= y
-----------------------------------------------------------------------------
(* Reference counts.                                                       *)

\* n[v] references to every vnode v less; the last one frees it.
vnode_release(vns, n) ==
    [v \in {v \in DOMAIN vns : vns[v].refcount # n[v]} |->
        [vns[v] EXCEPT !.refcount = @ - n[v]]]

\* The vnode is released as often as the file.
file_release_Twice(fs, vns, n) ==
    LET last == {f \in DOMAIN fs : fs[f].refcount = n[f]}
    IN  <<[f \in DOMAIN fs \ last |-> [fs[f] EXCEPT !.refcount = @ - n[f]]],
          vnode_release(vns, [v \in DOMAIN vns |->
              Cardinality({f \in DOMAIN fs : n[f] > 0 /\ fs[f].vn = v})])>>

\* Gives back n[f] references to every file object f, the last of which frees
\* it and releases its vnode: a pair of the file objects and the vnodes.
file_release(fs, vns, n) ==
    LET last == {f \in DOMAIN fs : fs[f].refcount = n[f]}
    IN  <<[f \in DOMAIN fs \ last |-> [fs[f] EXCEPT !.refcount = @ - n[f]]],
          vnode_release(vns, [v \in DOMAIN vns |-> Cardinality({f \in last : fs[f].vn = v})])>>

\* One reference to x of S.
Once(S, x) == [y \in S |-> IF y = x THEN 1 ELSE 0]

\* The references that the descriptors of t make: to file objects, and through
\* them to vnodes.
FileRefs(t) == [f \in DOMAIN file |-> Cardinality({d \in Fds : fd_table[t][d] = f})]
VnodeRefs(t) ==
    [v \in DOMAIN vnode |->
        Cardinality({d \in Fds : fd_table[t][d] # Nothing /\ file[fd_table[t][d]].vn = v})]

\* A fresh vnode from fat16_lookup for p.
NewVnode(v, p) == With(vnode, v, [path |-> p, refcount |-> 1])
-----------------------------------------------------------------------------
(* System calls of a live task t.                                          *)

find_free_fd(t) ==
    LET free == {d \in Fds : fd_table[t][d] = Nothing}
    IN  IF free = {} THEN Nothing ELSE FirstOf(free)

NewFile(f, v, mode) ==
    With(file, f, [vn |-> v, offset |-> 0, wronly |-> mode = "write", refcount |-> 1])

\* sys_fopen of a path that exists, or that the write mode creates in the
\* root directory.  The vnode is made first; for a directory, or without
\* memory for the file object, nobody releases it.
sys_fopen(t, p, mode, v) ==
    /\ find_free_fd(t) # Nothing
    /\ p \in DOMAIN size \/ p \in Directories \/ mode = "write"
    /\ size' = IF p \in DOMAIN size \/ p \in Directories THEN size ELSE With(size, p, 0)
    /\ IF p \in Directories \/ FreeFiles = {}
       THEN /\ vnode' = NewVnode(v, p)
            /\ UNCHANGED <<file, fd_table>>
       ELSE LET f == FirstOf(FreeFiles) IN
            /\ vnode' = NewVnode(v, p)
            /\ file' = NewFile(f, v, mode)
            /\ fd_table' = [fd_table EXCEPT ![t][find_free_fd(t)] = f]
    /\ UNCHANGED <<vma_list, litter>>

\* The path "/" resolves to the vnode the mount keeps, with one reference more,
\* and opening a directory fails.
OpenRoot(t) ==
    /\ find_free_fd(t) # Nothing
    /\ vnode[Root].refcount < MaxRefs
    /\ vnode' = [vnode EXCEPT ![Root].refcount = @ + 1]
    /\ UNCHANGED <<file, fd_table, vma_list, litter, size>>

\* vfs_readdir, vfs_stat, vfs_unlink, vfs_mkdir, vfs_rename: the vnodes of the
\* path are released before the call returns; an unlink removes the file
\* whoever has it open.
vfs_unlink(p) ==
    /\ p \in DOMAIN size
    /\ size' = Without(size, p)
    /\ UNCHANGED <<vnode, file, fd_table, vma_list, litter>>

\* fat16_read through a file object: the entry is looked up again by name, at
\* most n bytes come back and move the offset, which all holders share.
sys_fread(t, d, n) ==
    /\ fd_table[t][d] # Nothing
    /\ LET f == file[fd_table[t][d]]
           p == vnode[f.vn].path
       IN  /\ ~f.wronly
           /\ p \in DOMAIN size
           /\ n > 0 /\ f.offset < size[p]
           /\ file' = [file EXCEPT ![fd_table[t][d]].offset =
                          IF @ + n > size[p] THEN size[p] ELSE @ + n]
    /\ UNCHANGED <<vnode, fd_table, vma_list, litter, size>>

\* fat16_write replaces the file by the n bytes, whatever the offset was, and
\* makes the file again if it was removed.
sys_fwrite(t, d, n) ==
    /\ fd_table[t][d] # Nothing
    /\ LET f == file[fd_table[t][d]] IN
           /\ f.offset + n <= MaxSize
           /\ size' = With(size, vnode[f.vn].path, n)
           /\ file' = [file EXCEPT ![fd_table[t][d]].offset = @ + n]
    /\ UNCHANGED <<vnode, fd_table, vma_list, litter>>

sys_fclose(t, d) ==
    /\ fd_table[t][d] # Nothing
    /\ \E r \in {file_release(file, vnode, Once(DOMAIN file, fd_table[t][d]))} :
           file' = r[1] /\ vnode' = r[2]
    /\ fd_table' = [fd_table EXCEPT ![t][d] = Nothing]
    /\ UNCHANGED <<vma_list, litter, size>>

\* The vnode is used without a reference.
sys_mmap_NoReference(t, d) ==
    /\ fd_table[t][d] # Nothing
    /\ vma_list' = [vma_list EXCEPT ![t] = @ \cup {file[fd_table[t][d]].vn}]
    /\ UNCHANGED <<vnode, file, fd_table, litter, size>>

\* A mapping takes a reference of its own.  The descriptor is used as an index
\* as it is, while the calls above are given the index plus 3.
sys_mmap(t, d) ==
    /\ fd_table[t][d] # Nothing
    /\ LET v == file[fd_table[t][d]].vn IN
           /\ v \notin vma_list[t]
           /\ vnode[v].refcount < MaxRefs
           /\ vnode' = [vnode EXCEPT ![v].refcount = @ + 1]
           /\ vma_list' = [vma_list EXCEPT ![t] = @ \cup {v}]
    /\ UNCHANGED <<file, fd_table, litter, size>>

sys_munmap(t, v) ==
    /\ v \in vma_list[t]
    /\ vnode' = IF v \in DOMAIN vnode THEN vnode_release(vnode, Once(DOMAIN vnode, v)) ELSE vnode
    /\ vma_list' = [vma_list EXCEPT ![t] = @ \ {v}]
    /\ litter' = litter \cup {v}
    /\ UNCHANGED <<file, fd_table, size>>

\* One more holder of every descriptor of t: of each file object, and of the
\* vnode behind each.
Shared(t) == [f \in DOMAIN file |-> [file[f] EXCEPT !.refcount = @ + FileRefs(t)[f]]]
Inherited(t) == [v \in DOMAIN vnode |-> [vnode[v] EXCEPT !.refcount = @ + VnodeRefs(t)[v]]]

\* The type and the vnode of a copied mapping are what its heap block held:
\* nothing, or what an earlier mapping left there.
sys_fork(t, u) ==
    /\ u \in Tasks \ DOMAIN fd_table
    /\ vma_list[t] = {} \/ ForkMapped
    /\ \A v \in DOMAIN vnode : Inherited(t)[v].refcount <= MaxRefs
    /\ file' = Shared(t)
    /\ vnode' = Inherited(t)
    /\ fd_table' = With(fd_table, u, fd_table[t])
    /\ \E copied \in SUBSET litter :
           /\ Cardinality(copied) <= Cardinality(vma_list[t])
           /\ vma_list' = With(vma_list, u, copied)
    /\ UNCHANGED <<litter, size>>

\* Forking without memory for the page directory: the child's descriptors are
\* released again, and the references to the vnodes stay.
ForkFails(t) ==
    /\ Tasks \ DOMAIN fd_table # {}
    /\ \A v \in DOMAIN vnode : Inherited(t)[v].refcount <= MaxRefs
    /\ \E r \in {file_release(Shared(t), Inherited(t), FileRefs(t))} :
           file' = r[1] /\ vnode' = r[2]
    /\ UNCHANGED <<fd_table, vma_list, litter, size>>

\* The descriptors are forgotten and not released.
sys_exit_KeepsFiles(t) ==
    /\ fd_table' = Without(fd_table, t)
    /\ vma_list' = Without(vma_list, t)
    /\ litter' = litter \cup vma_list[t]
    /\ UNCHANGED <<file, vnode, size>>

\* sys_exit, and thread_cleanup of a task that was killed: the mappings are
\* freed without releasing their vnodes, the descriptors are released.
sys_exit(t) ==
    /\ \E r \in {file_release(file, vnode, FileRefs(t))} :
           file' = r[1] /\ vnode' = r[2]
    /\ fd_table' = Without(fd_table, t)
    /\ vma_list' = Without(vma_list, t)
    /\ litter' = litter \cup vma_list[t]
    /\ UNCHANGED size

\* sys_exec frees the mappings and keeps the descriptors: no caller sets
\* O_CLOEXEC.
sys_exec(t) ==
    /\ vma_list[t] # {}
    /\ litter' = litter \cup vma_list[t]
    /\ vma_list' = [vma_list EXCEPT ![t] = {}]
    /\ UNCHANGED <<vnode, file, fd_table, size>>

\* A new process from the shell.
Spawn(u) ==
    /\ u \in Tasks \ DOMAIN fd_table
    /\ fd_table' = With(fd_table, u, NoFds)
    /\ vma_list' = With(vma_list, u, {})
    /\ UNCHANGED <<vnode, file, litter, size>>
-----------------------------------------------------------------------------
\* After fat16_mount: the root vnode, referenced by its superblock.
OpenInit ==
    /\ vnode = [v \in {Root} |-> [path |-> "/", refcount |-> 1]]
    /\ file = [f \in {} |-> Nothing]
    /\ fd_table = [t \in {} |-> NoFds]
    /\ vma_list = [t \in {} |-> {}]
    /\ litter = {}
    /\ size = [p \in Paths \ Directories |-> 0]

OpenNext ==
    \/ \E p \in Paths : vfs_unlink(p)
    \/ \E u \in Tasks : Spawn(u)
    \/ \E t \in DOMAIN fd_table :
        \/ OpenRoot(t) \/ ForkFails(t) \/ sys_exit(t) \/ sys_exec(t)
        \/ \E p \in Paths, m \in {"read", "write"} :
               FreeVnodes # {} /\ sys_fopen(t, p, m, FirstOf(FreeVnodes))
        \/ \E d \in Fds, n \in 0 .. MaxSize : sys_fread(t, d, n) \/ sys_fwrite(t, d, n)
        \/ \E d \in Fds : sys_fclose(t, d) \/ sys_mmap(t, d)
        \/ \E v \in Vnodes : sys_munmap(t, v)
        \/ \E u \in Tasks : sys_fork(t, u)

OpenSpec == OpenInit /\ [][OpenNext]_fvars
-----------------------------------------------------------------------------
(* Properties.                                                             *)

Holders(f) == {h \in (DOMAIN fd_table) \X Fds : fd_table[h[1]][h[2]] = f}
Mappers(v) == {t \in DOMAIN vma_list : v \in vma_list[t]}

\* A file object lives exactly as long as a descriptor names it, and its count
\* is the number of those descriptors, over every order of fork, close and exit.
FilesCounted ==
    /\ \A t \in DOMAIN fd_table, d \in Fds :
           fd_table[t][d] # Nothing => fd_table[t][d] \in DOMAIN file
    /\ \A f \in DOMAIN file :
           Holders(f) # {} /\ file[f].refcount = Cardinality(Holders(f))

\* No vnode is freed while an open file, a mapping or the mount uses it: it is
\* allocated, and its count is at least the number of its users.
VnodesOutliveUsers ==
    /\ Root \in DOMAIN vnode
    /\ \A f \in DOMAIN file : file[f].vn \in DOMAIN vnode
    /\ \A t \in DOMAIN vma_list : vma_list[t] \subseteq DOMAIN vnode
    /\ \A v \in DOMAIN vnode :
           vnode[v].refcount >=
               Cardinality({f \in DOMAIN file : file[f].vn = v})
               + Cardinality(Mappers(v)) + (IF v = Root THEN 1 ELSE 0)

\* File objects and vnodes live as long as descriptors, mappings and the mount
\* use them, over every order of fopen, fclose, mmap, fork, exec and exit.
FilesOutliveUsers == FilesCounted /\ VnodesOutliveUsers
=============================================================================
