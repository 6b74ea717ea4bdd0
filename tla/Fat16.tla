------------------------------- MODULE Fat16 -------------------------------
(***************************************************************************)
(* The FAT16 file system (kernel/src/fat16.cpp) as the path operations of  *)
(* kernel/src/vfs.cpp use it: the allocation table in memory and on disk,  *)
(* the root directory, subdirectories, and the order in which an operation *)
(* writes its sectors.  The power may fail between any two of those        *)
(* writes; the volume is then mounted again from what the disk holds.      *)
(*                                                                         *)
(* A cluster is one sector.  A file's contents are a sequence of blocks,   *)
(* one per cluster, and its size is their number; the bytes inside a block *)
(* are left out.  Names are short names that format_83_name leaves as they *)
(* are.  One operation runs at a time, and the disk reports no error.      *)
(***************************************************************************)
EXTENDS Integers, FiniteSets, SequencesExt

CONSTANTS
    Paths,              \* paths the callers use: sequences of one or two names
    Contents,           \* what they write: sequences of blocks
    NumClusters,        \* the data clusters are 2..NumClusters+1
    RootEntries,        \* root_entry_count
    EntriesPerCluster,  \* directory entries in a sector
    FatPerSector,       \* table entries in a sector
    Protected,          \* paths the shell's protect command is used on
    MaxOps              \* bound: operations that reach the disk

Clusters == 2..(NumClusters + 1)
EndOfChain == 65535
NoCluster == 0
End == "0x00"
Gone == "0xE5"
Protections == {"modify", "delete"}

Names == UNION {ToSet(p) : p \in Paths}
TreePaths == {<<n>> : n \in Names} \cup {<<m, n>> : m, n \in Names}

Blank == [name |-> End, dir |-> FALSE, prot |-> {}, first |-> 0, size |-> 0]
Deleted == [Blank EXCEPT !.name = Gone]
EmptySector == [entries |-> [i \in 1..EntriesPerCluster |-> Blank]]

VARIABLES
    disk,       \* the table (fat), the root directory (root), the data
    fat_table,  \* the table in memory
    mounted,
    torn,       \* a crash left a directory whose sector was never written
    ops,
    tree        \* auxiliary: what the volume holds, by path

fatVars == <<disk, fat_table, mounted, torn, ops, tree>>

-----------------------------------------------------------------------------
(* Clusters and sectors *)

InChain(c) == c \in Clusters

\* The clusters from c on, as every loop of the driver walks them.
Chain(fat, c) ==
    LET walk[n \in 0..NumClusters] ==
            IF n = 0 THEN IF InChain(c) THEN <<c>> ELSE <<>>
            ELSE LET s == walk[n - 1] IN
                 IF s # <<>> /\ InChain(fat[Last(s)])
                 THEN Append(s, fat[Last(s)]) ELSE s
    IN walk[NumClusters]

FreeClusters(fat) == {c \in Clusters : fat[c] = 0}
\* alloc_cluster: the lowest free cluster, or 0
alloc_cluster(fat) ==
    IF FreeClusters(fat) = {} THEN NoCluster
    ELSE CHOOSE c \in FreeClusters(fat) : \A b \in FreeClusters(fat) : c <= b
free_chain(fat, c) ==
    [d \in Clusters |-> IF d \in ToSet(Chain(fat, c)) THEN 0 ELSE fat[d]]

\* The sector writes an operation issues, in order.
EraseEntry(at) == [to |-> "entry", at |-> at, what |-> Deleted]
PutEntry(at, e) == [to |-> "entry", at |-> at, what |-> e]
MoveEntry(at, to, e) == [to |-> "move", at |-> at, new |-> to, what |-> e]
PutSector(c, b) == [to |-> "data", at |-> c, what |-> b]
FatSectors == 0..((NumClusters + 1) \div FatPerSector)
\* Mutant: the table stays in memory.
flush_fat_None(fat) == <<>>
flush_fat(fat) ==
    [s \in 1..Cardinality(FatSectors) |->
        [to |-> "fat", at |-> s - 1, what |-> fat]]

WithEntry(d, at, e) ==
    IF at[1] = 0 THEN [d EXCEPT !.root[at[2]] = e]
    ELSE [d EXCEPT !.data[at[1]].entries[at[2]] = e]
WriteSector(d, w) ==
    CASE w.to = "data" -> [d EXCEPT !.data[w.at] = w.what]
      [] w.to = "fat" ->
            [d EXCEPT !.fat = [c \in Clusters |->
                IF c \div FatPerSector = w.at THEN w.what[c] ELSE @[c]]]
      [] w.to = "entry" -> WithEntry(d, w.at, w.what)
      [] w.to = "move" -> WithEntry(WithEntry(d, w.at, Deleted), w.new, w.what)
WriteSectors(d, ws) == FoldLeft(WriteSector, d, ws)
\* What free clusters hold is never read: alloc_cluster's callers write first.
Unread == [block |-> "unused"]
Settled(fat, d) ==
    [d EXCEPT !.data = [c \in Clusters |-> IF fat[c] = 0 THEN Unread ELSE @[c]]]

-----------------------------------------------------------------------------
(* Directories.  A directory is the cluster its entry names, 0 for the     *)
(* root; the place of an entry is its cluster and its index there.         *)

NoPlace == <<0, 0>>
PlacesIn(cs) ==
    FlattenSeq([k \in DOMAIN cs |-> [i \in 1..EntriesPerCluster |-> <<cs[k], i>>]])
Places(fat, dir) ==
    IF dir = 0 THEN [i \in 1..RootEntries |-> <<0, i>>] ELSE PlacesIn(Chain(fat, dir))
SameSector(a, b) ==
    /\ a[1] = b[1]
    /\ a[1] = 0 => (a[2] - 1) \div EntriesPerCluster = (b[2] - 1) \div EntriesPerCluster
EntryAt(d, at) ==
    IF at[1] = 0 THEN d.root[at[2]] ELSE d.data[at[1]].entries[at[2]]

\* find_dir_entry: the search ends at the first 0x00.
PlaceOf(d, ps, name) ==
    LET i == SelectInSeq(ps, LAMBDA at : EntryAt(d, at).name \in {name, End})
    IN IF i = 0 \/ EntryAt(d, ps[i]).name = End THEN NoPlace ELSE ps[i]
find_dir_entry(fat, d, dir, name) == PlaceOf(d, Places(fat, dir), name)

\* find_free_dir_entry: a full subdirectory grows by a cluster, which is
\* linked and flushed before it is cleared.
Grown(fat, dir, new) ==
    [fat EXCEPT ![Last(Chain(fat, dir))] = new, ![new] = EndOfChain]
GrownSlot(grown, new) ==
    [at |-> <<new, 1>>, fat |-> grown, ok |-> TRUE,
     writes |-> Append(flush_fat(grown), PutSector(new, EmptySector))]
SlotIn(fat, d, dir, ps, new) ==
    LET i == SelectInSeq(ps, LAMBDA at : EntryAt(d, at).name \in {End, Gone})
    IN IF i # 0 THEN [at |-> ps[i], fat |-> fat, writes |-> <<>>, ok |-> TRUE]
       ELSE IF dir = 0 \/ new = NoCluster
       THEN [at |-> NoPlace, fat |-> fat, writes |-> <<>>, ok |-> FALSE]
       ELSE GrownSlot(Grown(fat, dir, new), new)
find_free_dir_entry(fat, d, dir) ==
    SlotIn(fat, d, dir, Places(fat, dir), alloc_cluster(fat))

\* fat16_lookup, and vfs_resolve_path for the directory part of a path: the
\* cluster of the entry, whatever its type.  The root's number is 0, which is
\* also the first cluster of an empty file; in a file with blocks, which would
\* be read as directory entries, nothing is found.
EntryOrBlank(d, at) == IF at = NoPlace THEN Blank ELSE EntryAt(d, at)
Lookup(fat, d, dir, name) == EntryOrBlank(d, find_dir_entry(fat, d, dir, name))
NoDir == -1
Dirname(p) == SubSeq(p, 1, Len(p) - 1)
Basename(p) == Last(p)
DirOf(e) ==
    IF e.name # End /\ (e.dir \/ e.size = 0) THEN e.first ELSE NoDir
ResolveDir(fat, d, p) == IF p = <<>> THEN 0 ELSE DirOf(Lookup(fat, d, 0, p[1]))

-----------------------------------------------------------------------------
(* Operations: the table in memory afterwards, the sectors written, and    *)
(* after how many of those writes a directory is linked but not written.   *)

Done(fat, ws) == [fat |-> fat, writes |-> ws, tears |-> {}, ok |-> TRUE]
Failed(fat, ws) == [fat |-> fat, writes |-> ws, tears |-> {}, ok |-> FALSE]

\* A directory that grew is torn from the first write of its flush to the
\* write that clears the new cluster.
TearsOf(before, slot) ==
    {Len(before) + k : k \in 1..(Len(slot.writes) - 1)}

\* The clusters a file of n blocks gets, lowest first.
FirstFree(fat, n) ==
    SubSeq(SetToSortSeq(FreeClusters(fat), <), 1,
           IF Cardinality(FreeClusters(fat)) < n
           THEN Cardinality(FreeClusters(fat)) ELSE n)
Linked(fat, cs) ==
    [c \in Clusters |->
        IF c \notin ToSet(cs) THEN fat[c]
        ELSE IF c = Last(cs) THEN EndOfChain
        ELSE cs[1 + CHOOSE i \in DOMAIN cs : cs[i] = c]]

\* The new entry of a file: a name, its first cluster and its size.
FileEntry(name, content, cs) ==
    [Blank EXCEPT !.name = name, !.size = Len(content),
                  !.first = IF cs = <<>> THEN 0 ELSE cs[1]]
BlockWrites(content, cs) ==
    [i \in DOMAIN cs |-> PutSector(cs[i], [block |-> content[i]])]
Entered(linked, ws, slot, entry) ==
    IF ~slot.ok THEN Failed(linked, ws)
    ELSE [fat |-> slot.fat, tears |-> TearsOf(ws, slot), ok |-> TRUE,
          writes |-> Append(ws \o slot.writes, PutEntry(slot.at, entry))]

\* Mutant: the entry is written before the table.
StoreFile_EntryFirst(linked, d, dir, entry, ws) ==
    LET r == Entered(linked, ws, find_free_dir_entry(linked, WriteSectors(d, ws), dir), entry)
    IN [r EXCEPT !.tears = {}, !.writes = @ \o flush_fat(linked)]

\* The blocks are in ws; the table is flushed, then the entry is written.
StoreFile(linked, d, dir, entry, ws) ==
    LET flushed == ws \o flush_fat(linked)
    IN Entered(linked, flushed,
               find_free_dir_entry(linked, WriteSectors(d, flushed), dir), entry)

\* write_file_in_dir: the old file goes first, then the blocks, the table
\* and the new entry are written.  With too few clusters the blocks that fit
\* are written all the same and their clusters given back.
WriteBlocks(freed, d, dir, name, content, before, cs) ==
    IF Len(cs) < Len(content)
    THEN Failed(freed, before \o BlockWrites(content, cs) \o flush_fat(freed))
    ELSE StoreFile(Linked(freed, cs), d, dir, FileEntry(name, content, cs),
                   before \o BlockWrites(content, cs))
WriteFreed(freed, d, dir, name, content, before) ==
    WriteBlocks(freed, d, dir, name, content, before, FirstFree(freed, Len(content)))
Rewrite(fat, d, dir, name, content, old) ==
    IF old = NoPlace THEN WriteFreed(fat, d, dir, name, content, <<>>)
    ELSE LET e == EntryAt(d, old) IN
         IF "modify" \in e.prot THEN Failed(fat, <<>>)
         ELSE WriteFreed(IF e.first >= 2 THEN free_chain(fat, e.first) ELSE fat,
                         d, dir, name, content, <<EraseEntry(old)>>)
write_file_in_dir(fat, d, dir, name, content) ==
    Rewrite(fat, d, dir, name, content, find_dir_entry(fat, d, dir, name))

\* fat16_unlink: any entry, a directory with entries in it included.
Unlink(fat, at, e) ==
    IF at = NoPlace \/ "delete" \in e.prot THEN Failed(fat, <<>>)
    ELSE LET freed == free_chain(fat, e.first) IN
         IF e.first >= 2 THEN Done(freed, <<EraseEntry(at)>> \o flush_fat(freed))
         ELSE Done(fat, <<EraseEntry(at)>>)
UnlinkAt(fat, d, at) == Unlink(fat, at, EntryOrBlank(d, at))
fat16_unlink(fat, d, dir, name) == UnlinkAt(fat, d, find_dir_entry(fat, d, dir, name))

\* delete_file: the same for the root directory only.
delete_file(fat, d, name) == fat16_unlink(fat, d, 0, name)

\* fat16_mkdir: the entry is written before the table, and both before the
\* sector of the new directory.
DirEntry(name, c) == [Blank EXCEPT !.name = name, !.dir = TRUE, !.first = c]
Dots(dir, new) ==
    [EmptySector EXCEPT !.entries[1] = DirEntry(".", new), !.entries[2] = DirEntry("..", dir)]
MakeDir(slot, dir, name, new) ==
    LET full == [slot.fat EXCEPT ![new] = EndOfChain]
        ws == Append(slot.writes, PutEntry(slot.at, DirEntry(name, new))) \o flush_fat(full)
    IN IF new = NoCluster
       THEN [Failed(slot.fat, slot.writes) EXCEPT !.tears = TearsOf(<<>>, slot)]
       ELSE [fat |-> full, ok |-> TRUE, writes |-> Append(ws, PutSector(new, Dots(dir, new))),
             tears |-> TearsOf(<<>>, slot) \cup (Len(slot.writes) + 1)..Len(ws)]
MakeDirIn(fat, slot, dir, name) ==
    IF ~slot.ok THEN Failed(fat, <<>>)
    ELSE MakeDir(slot, dir, name, alloc_cluster(slot.fat))
fat16_mkdir(fat, d, dir, name) ==
    IF find_dir_entry(fat, d, dir, name) # NoPlace THEN Failed(fat, <<>>)
    ELSE MakeDirIn(fat, find_free_dir_entry(fat, d, dir), dir, name)

\* fat16_rename: the old entry goes first, unless both are in one sector.
Moved(at, to, e) ==
    IF SameSector(at, to) THEN <<MoveEntry(at, to, e)>>
    ELSE <<EraseEntry(at), PutEntry(to, e)>>
MoveTo(fat, d, at, slot, newname) ==
    IF at = NoPlace \/ ~slot.ok THEN Failed(fat, <<>>)
    ELSE [fat |-> slot.fat, tears |-> TearsOf(<<>>, slot), ok |-> TRUE,
          writes |-> slot.writes
                       \o Moved(at, slot.at, [EntryAt(d, at) EXCEPT !.name = newname])
                       \o flush_fat(slot.fat)]
\* Mutant: the destination is not looked for.
fat16_rename_Overwrites(fat, d, dir, name, newdir, newname) ==
    MoveTo(fat, d, find_dir_entry(fat, d, dir, name),
           find_free_dir_entry(fat, d, newdir), newname)
fat16_rename(fat, d, dir, name, newdir, newname) ==
    IF find_dir_entry(fat, d, newdir, newname) # NoPlace THEN Failed(fat, <<>>)
    ELSE MoveTo(fat, d, find_dir_entry(fat, d, dir, name),
                find_free_dir_entry(fat, d, newdir), newname)

\* change_attributes: shell command protect, one sector.
Attributes(fat, at, e, flag, set) ==
    IF at = NoPlace THEN Failed(fat, <<>>)
    ELSE Done(fat, <<PutEntry(at, [e EXCEPT !.prot =
                        IF set THEN @ \cup {flag} ELSE @ \ {flag}])>>)
change_attributes(fat, d, dir, name, flag, set) ==
    LET at == find_dir_entry(fat, d, dir, name)
    IN Attributes(fat, at, EntryOrBlank(d, at), flag, set)

\* fat16_read and read_file: the blocks of the chain, no more than the size.
Blocks(d, c, n) == [i \in 1..(IF n < Len(c) THEN n ELSE Len(c)) |-> d.data[c[i]].block]
ReadFile(fat, d, e) == Blocks(d, Chain(fat, e.first), e.size)

-----------------------------------------------------------------------------
(* The operations of the VFS, by path, and what interrupts them *)

NewTable == [c \in Clusters |-> 0]
\* A formatted, empty volume, mounted.
FatInit ==
    /\ disk = [fat |-> NewTable, root |-> [i \in 1..RootEntries |-> Blank],
               data |-> [c \in Clusters |-> Unread]]
    /\ fat_table = NewTable
    /\ mounted = TRUE
    /\ torn = FALSE
    /\ ops = 0
    /\ tree = <<>>

\* The second operation starts from where the first left memory and disk.
Joint(r, s) ==
    [fat |-> s.fat, writes |-> r.writes \o s.writes, ok |-> s.ok,
     tears |-> r.tears \cup {Len(r.writes) + k : k \in s.tears}]
Then(r, Op(_, _)) ==
    IF ~r.ok THEN r ELSE Joint(r, Op(r.fat, WriteSectors(disk, r.writes)))

\* What the volume holds, by path: the contents of a file, or a directory.
FoundBelow(fat, d, up, p) ==
    IF Len(p) = 1 THEN up
    ELSE IF up.name # End /\ up.dir THEN Lookup(fat, d, up.first, p[2])
    ELSE Blank
Found(fat, d, p) == FoundBelow(fat, d, Lookup(fat, d, 0, p[1]), p)
Held(fat, d, e) ==
    [dir |-> e.dir, content |-> IF e.dir THEN <<>> ELSE ReadFile(fat, d, e)]
TreeOf(fat, d, found) ==
    [p \in {q \in TreePaths : found[q].name # End} |-> Held(fat, d, found[p])]
Tree(fat, d) == TreeOf(fat, d, [p \in TreePaths |-> Found(fat, d, p)])

\* An operation ends, or the power fails after some of its writes.
Run(op) ==
  /\ ops < MaxOps
  /\ ops' = ops + 1
  /\ \E r \in {op} : r.writes # <<>> /\
    \/ \E d \in {Settled(r.fat, WriteSectors(disk, r.writes))} :
           /\ disk' = d
           /\ fat_table' = r.fat
           /\ tree' = Tree(r.fat, d)
           /\ UNCHANGED <<mounted, torn>>
    \/ \E k \in 0..(Len(r.writes) - 1) :
       \E e \in {WriteSectors(disk, SubSeq(r.writes, 1, k))} :
       \E d \in {Settled(e.fat, e)} :
           /\ disk' = d
           /\ fat_table' = NewTable
           /\ mounted' = FALSE
           /\ torn' = (k \in r.tears)
           /\ tree' = IF k \in r.tears THEN <<>> ELSE Tree(d.fat, d)

\* vfs_resolve_path for the directory of p: the set of its cluster, or empty.
\* It looks up in whatever the path names, also in a file; the operations are
\* called with paths whose parent is a directory.  Below a file without a
\* cluster the driver would look into the root directory.
ParentOf(p) ==
    {dir \in {ResolveDir(fat_table, disk, Dirname(p))} :
        /\ mounted /\ dir # NoDir
        /\ Dirname(p) # <<>> => Lookup(fat_table, disk, 0, p[1]).dir}
Entry(dir, p) == Lookup(fat_table, disk, dir, Basename(p))

vfs_unlink(p) ==
    \E dir \in ParentOf(p) : Run(fat16_unlink(fat_table, disk, dir, Basename(p)))
DeleteFile(n) == mounted /\ Run(delete_file(fat_table, disk, n))
\* A missing file is created, empty, before it is written.
vfs_write_file(p, content) ==
    \E dir \in ParentOf(p) :
        LET Write(fat, d) == write_file_in_dir(fat, d, dir, Basename(p), content)
        IN Run(IF Entry(dir, p).name # End THEN Write(fat_table, disk)
               ELSE Then(write_file_in_dir(fat_table, disk, dir, Basename(p), <<>>), Write))
vfs_mkdir(p) ==
    \E dir \in ParentOf(p) : Run(fat16_mkdir(fat_table, disk, dir, Basename(p)))
\* Bound: paths have two levels, so a directory stays on its level.
vfs_rename(p, q) ==
    \E dir \in ParentOf(p), newdir \in ParentOf(q) :
        /\ Entry(dir, p).dir => Len(p) = Len(q)
        /\ Run(fat16_rename(fat_table, disk, dir, Basename(p), newdir, Basename(q)))
\* vfs_open with O_CREAT creates in the root directory whatever the path is:
\* the rest of the path becomes the name, slashes included.
Joined(p) == IF Len(p) = 1 THEN p[1] ELSE p[1] \o "/" \o p[2]
vfs_open_create(p) ==
    \E dir \in ParentOf(p) :
        /\ Entry(dir, p).name = End
        /\ Run(write_file_in_dir(fat_table, disk, 0, Joined(p), <<>>))
\* fat16_write through an open file: the whole file, whatever the offset.
fat16_write(p, content) ==
    \E dir \in ParentOf(p) : \E e \in {Entry(dir, p)} :
        /\ e.name # End /\ ~e.dir
        /\ Run(write_file_in_dir(fat_table, disk, dir, Basename(p), content))
protect(p, flag, set) ==
    \E dir \in ParentOf(p) :
        Run(change_attributes(fat_table, disk, dir, Basename(p), flag, set))
\* Fat16::init, when the machine comes up again.
FatMount ==
    /\ ~mounted /\ ~torn
    /\ mounted' = TRUE
    /\ fat_table' = disk.fat
    /\ UNCHANGED <<disk, torn, ops, tree>>

FatNext ==
    \/ \E p \in Paths :
           \/ vfs_unlink(p) \/ vfs_mkdir(p) \/ vfs_open_create(p)
           \/ \E c \in Contents : vfs_write_file(p, c) \/ fat16_write(p, c)
           \/ \E q \in Paths : vfs_rename(p, q)
    \/ \E p \in Protected, f \in Protections, set \in BOOLEAN : protect(p, f, set)
    \/ \E p \in Paths : Len(p) = 1 /\ DeleteFile(p[1])
    \/ FatMount

FatSpec == FatInit /\ [][FatNext]_fatVars

-----------------------------------------------------------------------------
(* Properties *)

FatNow == IF mounted THEN fat_table ELSE disk.fat
LivePlaces(dir) ==
    LET ps == Places(FatNow, dir)
    IN {ps[i] : i \in {i \in DOMAIN ps :
            /\ \A j \in 1..i : EntryAt(disk, ps[j]).name # End
            /\ EntryAt(disk, ps[i]).name \notin {Gone, ".", ".."}}}
Directories == {0} \cup {EntryAt(disk, at).first :
                            at \in {a \in LivePlaces(0) : EntryAt(disk, a).dir}}
AllPlaces == UNION {LivePlaces(dir) : dir \in Directories}

EntryType ==
    [name : STRING, dir : BOOLEAN, prot : SUBSET Protections,
     first : {0} \cup Clusters, size : Nat]
FatTypeOK ==
    /\ mounted \in BOOLEAN /\ torn \in BOOLEAN
    /\ fat_table \in [Clusters -> {0, EndOfChain} \cup Clusters]
    /\ disk.fat \in [Clusters -> {0, EndOfChain} \cup Clusters]
    /\ \A i \in 1..RootEntries : disk.root[i] \in EntryType

\* The chains of the entries, files and directories, are allocated, end, are
\* as long as the size says and share no cluster: whatever was written,
\* removed, renamed or cut short by a crash before (unless the crash fell
\* between linking a directory's sector and writing it).  Between operations
\* the table in memory is the one on disk.
ChainsApart ==
    ~torn =>
    /\ FatTypeOK
    /\ mounted => fat_table = disk.fat
    /\ \A at \in AllPlaces :
          LET e == EntryAt(disk, at)
              c == Chain(FatNow, e.first)
          IN /\ c = <<>> <=> e.first = 0
             /\ c # <<>> => FatNow[Last(c)] = EndOfChain
             /\ ~e.dir => e.size = Len(c)
             /\ \A b \in AllPlaces : b # at =>
                   ToSet(c) \cap ToSet(Chain(FatNow, EntryAt(disk, b).first)) = {}

\* No directory has two entries with the same name: find_dir_entry finds the
\* only one, so what was written last is what is read.
NamesUnique ==
    ~torn => \A dir \in Directories : \A a, b \in LivePlaces(dir) :
                EntryAt(disk, a).name = EntryAt(disk, b).name => a = b

TreeStore == INSTANCE FileStore WITH Paths <- TreePaths, files <- tree, broken <- torn

\* Every operation does to the tree of files what it says and nothing else:
\* it changes the file it names, a failure or a crash can cost that file but
\* no other, and a rename moves contents untouched.
FilesKept == TreeStore!StoreSpec
=============================================================================
