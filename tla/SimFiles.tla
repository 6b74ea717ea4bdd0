------------------------------ MODULE SimFiles ------------------------------
(***************************************************************************)
(* The simulator's hierarchical file system (filesystem.cpp): inodes with  *)
(* their lists of children, the cache of resolved paths, permissions, and  *)
(* the blocks of files, which come from the driver of SimFsDriver and are  *)
(* mirrored in the array blocks_ (here the set taken).                     *)
(*                                                                         *)
(* A path is the sequence of its components, "." and ".." included; the    *)
(* content of a file is its size.  Groups, times and events are left out.  *)
(* One action stands for each operation of the class; what fails changes   *)
(* nothing but the path cache, as in the code.                             *)
(***************************************************************************)
EXTENDS SimFsDriver, Functions

CONSTANTS
    RawPaths,           \* the paths callers name
    Sizes,              \* the sizes of contents
    Uids,
    Permissions,        \* arguments of changePermissions
    SystemDirectories,  \* the paths of createSystemDirectories, in order
    MaxInodeId          \* bound: inodes ever made

VARIABLE fs             \* [inodes, next, cache, taken]

filesVars == <<fs, drv, stored>>

ROOT_UID == 0
NoInode == 0
RootInode == 1
defaultFile == {"ownerRead", "ownerWrite", "otherRead"}
defaultDirectory == defaultFile

InodeOf(type, name, owner, perm, parent) ==
    [type |-> type, name |-> name, owner |-> owner, permissions |-> perm,
     parent |-> parent, children |-> <<>>, blocks |-> <<>>, size |-> 0]

Put(f, k, v) == [x \in DOMAIN f \cup {k} |-> IF x = k THEN v ELSE f[x]]
Without(s, x) == SelectSeq(s, LAMBDA y : y # x)
isDirectory(f, i) == f.inodes[i].type = "Directory"
-----------------------------------------------------------------------------
(* Paths.                                                                  *)

normalizePath(path) ==
    FoldLeft(LAMBDA parts, p :
                IF p = "." THEN parts
                ELSE IF p = ".." THEN (IF parts = <<>> THEN parts ELSE Front(parts))
                ELSE Append(parts, p),
             <<>>, path)

(* One component further down from inode cur, NoInode if there is none:    *)
(* the first child of that name.                                           *)
StepDown(f, cur, name) ==
    LET named == IF cur = NoInode THEN <<>>
                 ELSE IF ~isDirectory(f, cur) THEN <<>>
                 ELSE SelectSeq(f.inodes[cur].children,
                                LAMBDA c : c \in DOMAIN f.inodes /\ f.inodes[c].name = name)
    IN  IF named = <<>> THEN NoInode ELSE Head(named)
Walk(f, path) == FoldLeft(LAMBDA cur, name : StepDown(f, cur, name), RootInode, path)

CacheHit(f, path) == path \in DOMAIN f.cache /\ f.cache[path] \in DOMAIN f.inodes
resolvePath(f, path) == IF CacheHit(f, path) THEN f.cache[path] ELSE Walk(f, path)
Resolved(f, path) ==
    IF CacheHit(f, path) \/ Walk(f, path) = NoInode THEN f
    ELSE [f EXCEPT !.cache = Put(@, path, Walk(f, path))]

invalidatePathCache(f) == [f EXCEPT !.cache = (<<>> :> RootInode)]

checkPermission(f, i, uid, right) ==
    \/ uid = ROOT_UID
    \/ (IF uid = f.inodes[i].owner THEN "owner" \o right ELSE "other" \o right)
            \in f.inodes[i].permissions
-----------------------------------------------------------------------------
(* Blocks.  Both operators take and return the pair of file system and     *)
(* driver, s = [f |-> ..., d |-> ...].                                     *)

GivenBlocks(f, i, r) ==
    [f |-> [f EXCEPT !.inodes[i].blocks = r.blocks, !.taken = @ \cup ToSet(r.blocks)],
     d |-> r.d]
allocateBlocks(s, i, size) ==
    GivenBlocks(s.f, i, allocBlocks(s.d, Max({1, CeilDiv(size, blockSize_)})))

(* A bug: the array is not brought up to date.                             *)
freeBlocks_OnlyDriver(s, blocks) == [s EXCEPT !.d = FreeAll(@, blocks)]
freeBlocks(s, blocks) ==
    [f |-> [s.f EXCEPT !.taken = @ \ ToSet(blocks)], d |-> FreeAll(s.d, blocks)]
-----------------------------------------------------------------------------
(* Operations: each maps s to the state after the call; ok is its result.  *)

LookedUp(s, n) == [s EXCEPT !.f = Resolved(@, n)]
Fail(s) == [ok |-> FALSE, s |-> s]
Success(s) == [ok |-> TRUE, s |-> s]

Detached(f, i) ==
    LET p == f.inodes[i].parent
    IN  IF p \in DOMAIN f.inodes
        THEN [f EXCEPT !.inodes[p].children = Without(@, i)] ELSE f

(* createFile and makeDirectory: the lookup of the path itself fails, that *)
(* of the parent is cached.                                                *)
NodeIn(s, p, n, type, owner, perm) ==
    IF p = NoInode THEN Fail(s)
    ELSE IF ~isDirectory(s.f, p) THEN Fail(s)
    ELSE Success([s EXCEPT
            !.f.inodes = Put([@ EXCEPT ![p].children = Append(@, s.f.next)], s.f.next,
                             InodeOf(type, Last(n), owner, perm, p)),
            !.f.next = @ + 1, !.f.cache = Put(@, n, s.f.next)])
NewNode(s, path, type, owner, perm) ==
    LET n == normalizePath(path)
        up == IF n = <<>> THEN n ELSE Front(n)
    IN  IF resolvePath(s.f, n) # NoInode THEN Fail(LookedUp(s, n))
        ELSE NodeIn(LookedUp(s, up), resolvePath(s.f, up), n, type, owner, perm)
createFile(s, path, uid) == NewNode(s, path, "RegularFile", uid, defaultFile)
makeDirectory(s, path, uid) == NewNode(s, path, "Directory", uid, defaultDirectory)

ReadAt(s, i, uid) ==
    IF i = NoInode THEN Fail(s)
    ELSE IF isDirectory(s.f, i) \/ ~checkPermission(s.f, i, uid, "Read") THEN Fail(s)
    ELSE Success(s)
readFile(s, path, uid) ==
    LET n == normalizePath(path)
    IN  ReadAt(LookedUp(s, n), resolvePath(s.f, n), uid)

(* The file is made when it is missing; its blocks are freed before the    *)
(* new ones are allocated, and the content is set even if none were.       *)
WriteAt(s, i, size, uid) ==
    IF isDirectory(s.f, i) \/ ~checkPermission(s.f, i, uid, "Write") THEN Fail(s)
    ELSE Success([allocateBlocks(freeBlocks(s, s.f.inodes[i].blocks), i, size)
                    EXCEPT !.f.inodes[i].size = size])
WriteMade(made, n, size, uid) ==
    IF made.ok THEN WriteAt(made.s, resolvePath(made.s.f, n), size, uid) ELSE made
writeFile(s, path, size, uid) ==
    LET n == normalizePath(path)
    IN  WriteMade(IF resolvePath(s.f, n) # NoInode THEN Success(LookedUp(s, n))
                  ELSE createFile(s, path, uid),
                  n, size, uid)

(* deleteFile and removeDirectory, of inode i.                             *)
Forgotten(s, i) ==
    [s EXCEPT !.f = invalidatePathCache([@ EXCEPT !.inodes = Restrict(@, DOMAIN @ \ {i})])]
Removed(s, i) ==
    Success(Forgotten(freeBlocks([s EXCEPT !.f = Detached(@, i)], s.f.inodes[i].blocks), i))

DeleteAt(s, i, uid) ==
    IF i = NoInode THEN Fail(s)
    ELSE IF isDirectory(s.f, i) \/ ~checkPermission(s.f, i, uid, "Write") THEN Fail(s)
    ELSE Removed(s, i)
deleteFile(s, path, uid) ==
    LET n == normalizePath(path)
    IN  DeleteAt(LookedUp(s, n), resolvePath(s.f, n), uid)

RemoveDirectoryAt(s, i, uid) ==
    IF i = NoInode THEN Fail(s)
    ELSE IF ~isDirectory(s.f, i) \/ s.f.inodes[i].children # <<>>
            \/ ~checkPermission(s.f, i, uid, "Write") THEN Fail(s)
    ELSE Removed(s, i)
removeDirectory(s, path, uid) ==
    LET n == normalizePath(path)
    IN  IF n = <<>> THEN Fail(s)
        ELSE RemoveDirectoryAt(LookedUp(s, n), resolvePath(s.f, n), uid)

(* Moved as it is: the new parent may be a file, or lie below the inode.   *)
Moved(f, i, parent, name) ==
    LET f1 == Detached(f, i)
    IN  [f1 EXCEPT !.inodes = [[@ EXCEPT ![parent].children = Append(@, i)]
                                  EXCEPT ![i].name = name, ![i].parent = parent]]

(* A bug: the resolved paths outlive the move.                             *)
RenameTo_KeepsCache(f, i, parent, name) == Moved(f, i, parent, name)
RenameTo(f, i, parent, name) == invalidatePathCache(Moved(f, i, parent, name))

MoveInto(s, i, parent, name) ==
    IF parent = NoInode THEN Fail(s)
    ELSE Success([s EXCEPT !.f = RenameTo(@, i, parent, name)])
RenameAt(s, i, nn, uid) ==
    IF i = NoInode THEN Fail(s)
    ELSE IF resolvePath(s.f, nn) # NoInode \/ ~checkPermission(s.f, i, uid, "Write")
    THEN Fail(LookedUp(s, nn))
    ELSE MoveInto(LookedUp(s, Front(nn)), i, resolvePath(s.f, Front(nn)), Last(nn))
rename(s, old, new, uid) ==
    LET no == normalizePath(old)
    IN  RenameAt(LookedUp(s, no), resolvePath(s.f, no), normalizePath(new), uid)

CopyInto(c, to, size, uid) == IF c.ok THEN writeFile(c.s, to, size, uid) ELSE c
CopyRead(r, to, size, uid) ==
    IF r.ok THEN CopyInto(createFile(r.s, to, uid), to, size, uid) ELSE r
copyFile(s, from, to, uid) ==
    LET n == normalizePath(from)
    IN  CopyRead(readFile(s, from, uid), to, s.f.inodes[resolvePath(s.f, n)].size, uid)

(* stat, exists, listDirectory and getDirectoryTree only look a path up.   *)
Lookup(s, path) == Success(LookedUp(s, normalizePath(path)))

ChangePermissionsAt(s, i, perm, uid) ==
    IF i = NoInode THEN Fail(s)
    ELSE IF uid \notin {s.f.inodes[i].owner, ROOT_UID} THEN Fail(s)
    ELSE Success([s EXCEPT !.f.inodes[i].permissions = perm])
changePermissions(s, path, perm, uid) ==
    LET n == normalizePath(path)
    IN  ChangePermissionsAt(LookedUp(s, n), resolvePath(s.f, n), perm, uid)

changeOwner(s, path, owner, uid) ==
    LET n == normalizePath(path)
        i == resolvePath(s.f, n)
    IN  IF uid # ROOT_UID THEN Fail(s)
        ELSE IF i = NoInode THEN Fail(LookedUp(s, n))
        ELSE Success([LookedUp(s, n) EXCEPT !.f.inodes[i].owner = owner])
-----------------------------------------------------------------------------
createSystemDirectories(s) ==
    FoldLeft(LAMBDA t, p : makeDirectory(t, p, ROOT_UID).s, s, SystemDirectories)

FilesInit ==
    LET root == InodeOf("Directory", "/", ROOT_UID, defaultDirectory, NoInode)
        s == createSystemDirectories(
                [f |-> [inodes |-> (RootInode :> root), next |-> RootInode + 1,
                        cache |-> (<<>> :> RootInode), taken |-> {}],
                 d |-> mount(format)])
    IN  fs = s.f /\ drv = s.d /\ stored = <<>>

Effect(r) == r.s.f.next <= MaxInodeId + 1 /\ fs' = r.s.f /\ drv' = r.s.d /\ UNCHANGED stored

(* handleFsSyscall takes the caller's uid from the arguments.              *)
FilesNext ==
    LET s == [f |-> fs, d |-> drv] IN
    \E p \in RawPaths :
      \/ Effect(Lookup(s, p))
      \/ \E uid \in Uids :
        \/ Effect(createFile(s, p, uid))
        \/ Effect(readFile(s, p, uid))
        \/ \E n \in Sizes : Effect(writeFile(s, p, n, uid))
        \/ Effect(deleteFile(s, p, uid))
        \/ Effect(makeDirectory(s, p, uid))
        \/ Effect(removeDirectory(s, p, uid))
        \/ \E q \in RawPaths : Effect(rename(s, p, q, uid))
        \/ \E q \in RawPaths : Effect(copyFile(s, p, q, uid))
        \/ \E perm \in Permissions : Effect(changePermissions(s, p, perm, uid))
        \/ \E o \in Uids : Effect(changeOwner(s, p, o, uid))
-----------------------------------------------------------------------------
(* A path found in the cache names the inode a walk from the root finds:   *)
(* no lookup is answered by an inode that was moved, removed or replaced   *)
(* since (resolvePath, invalidatePathCache).                               *)
PathCacheTrue ==
    \A p \in DOMAIN fs.cache : CacheHit(fs, p) => Walk(fs, p) = fs.cache[p]

(* No block belongs to two files, the blocks of the files are the blocks   *)
(* the driver's bitmap and the array blocks_ hold taken, and the driver's  *)
(* count of free blocks agrees (allocateBlocks, freeBlocks).               *)
FileBlocksExact ==
    LET Of(i) == ToSet(fs.inodes[i].blocks)
        all == UNION {Of(i) : i \in DOMAIN fs.inodes}
    IN  /\ \A i, j \in DOMAIN fs.inodes : i # j => Of(i) \cap Of(j) = {}
        /\ fs.taken = all
        /\ drv.bitmap = all \cup 0 .. calculateLayout - 1
        /\ drv.free = totalBlocks_ - Cardinality(drv.bitmap)
=============================================================================
