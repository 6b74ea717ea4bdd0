------------------------------- MODULE Loader -------------------------------
(***************************************************************************)
(* Starting a program: the kernel's ELF loader (kernel/src/elf_loader.cpp), *)
(* which lays the image out and writes the auxiliary vector, and the       *)
(* dynamic linker it hands over to (user/ldso/ldso.cpp), which loads the   *)
(* libraries, binds the symbols and jumps to the program.                  *)
(*                                                                         *)
(* Addresses are numbers and a page has PAGE of them.  words holds only the *)
(* ones that relocations patch.   A file is a record: its type, its        *)
(* PT_LOAD segments, where its program headers appear in them (0 for       *)
(* nowhere), whether it has a PT_DYNAMIC segment, the interpreter and the  *)
(* libraries it names, the values of the symbols it defines and its        *)
(* relocations in table order, each with the word the file holds there.    *)
(***************************************************************************)
EXTENDS Integers, Sequences, SequencesExt, FiniteSets, TLC

CONSTANTS
    PAGE,               \* bytes of a page
    PIE_LOAD_BASE,      \* where an ET_DYN program is put
    INTERP_LOAD_BASE,   \* where the interpreter is put
    LIBRARY_BASE,       \* the first g_next_load_addr
    USER_STACK_TOP,     \* the end of the user stack
    USER_STACK_PAGES,   \* its pages
    MAX_OBJECTS,        \* the linker's table of objects
    Image,              \* the files, by name
    Programs            \* the ones that are started

VARIABLES
    phase,      \* "new", "linking", "relocating", "running"; "failed", "exited", "faulted"
    program,    \* the file being started
    vmas,   \* the thread's areas, newest first
    heap_start, \* where the thread's heap begins
    stack,      \* the words the kernel pushed, the lowest address first
    words,      \* the words relocations patch, by address
    objects,    \* g_objects: name and load bias, in the order of registration
    next_load_addr,       \* g_next_load_addr
    needed,     \* the DT_NEEDED entries still to be handled
    areas,      \* what the linker mapped, as [start, end)
    relocated   \* the number of objects whose relocations are processed

kernelPart == <<program, vmas, heap_start, stack>>
linkerPart == <<objects, next_load_addr, needed, areas, relocated>>
loaderVars == <<kernelPart, phase, words, linkerPart>>

NoInterp == "none"
RoundDown(a) == a - (a % PAGE)
RoundUp(a) == RoundDown(a + PAGE - 1)

LoaderInit ==
    /\ phase = "new" /\ program \in Programs
    /\ vmas = <<>> /\ heap_start = 0 /\ stack = <<>>
    /\ words = <<>>
    /\ objects = <<>> /\ next_load_addr = LIBRARY_BASE /\ needed = <<>> /\ areas = <<>>
    /\ relocated = 0

-----------------------------------------------------------------------------
(* The kernel's part.                                                      *)

validate_elf(name) == name \in DOMAIN Image /\ Image[name].type \in {"EXEC", "DYN"}

\* The areas of the PT_LOAD segments, the last one first.
SegmentAreas(name, bias) ==
    LET f == Image[name]
        Area(s) == [start |-> RoundDown(s.vaddr + bias),
                    end   |-> RoundUp(s.vaddr + bias + s.memsz), file |-> name]
        loaded == SelectSeq(f.segments, LAMBDA s : s.memsz # 0)
    IN  Reverse([i \in DOMAIN loaded |-> Area(loaded[i])])

MaxVaddr(list) == FoldSeq(LAMBDA v, m : IF v.end > m THEN v.end ELSE m, 0, list)

\* What the file holds in the words that its relocations patch.
FileWords(name, bias) ==
    LET rels == Image[name].rels
    IN  [a \in {rels[i].offset + bias : i \in DOMAIN rels} |->
            rels[CHOOSE i \in DOMAIN rels : rels[i].offset + bias = a].word]

RelativeTargets(name, bias) ==
    {r.offset + bias : r \in {x \in ToSet(Image[name].rels) : x.type = "RELATIVE"}}

\* Only an ET_DYN file that is moved is relocated by the kernel.
Relocates(name, bias) ==
    Image[name].type = "DYN" /\ bias # 0 /\ Image[name].dynamic # 0

\* A word whose page gets no frame is passed over; once a page is mapped, its
\* later words are patched.
Skippable(name, bias) ==
    IF ~Relocates(name, bias) THEN {{}}
    ELSE {S \in SUBSET RelativeTargets(name, bias) :
            \A a \in S, b \in RelativeTargets(name, bias) :
                RoundDown(a) = RoundDown(b) /\ b < a => b \in S}

\* apply_relocations: the relative relocations only.
apply_relocations(name, bias, skipped, m) ==
    [a \in DOMAIN m |->
        IF a \in RelativeTargets(name, bias) \ skipped THEN m[a] + bias ELSE m[a]]

\* The words load_elf_segments leaves.
LoadedWords(name, bias, skipped) ==
    IF Relocates(name, bias)
    THEN apply_relocations(name, bias, skipped, FileWords(name, bias))
    ELSE FileWords(name, bias)

PhdrVaddr(name, bias) == IF Image[name].phdr = 0 THEN 0 ELSE Image[name].phdr + bias

ProgramBias == IF Image[program].type = "DYN" THEN PIE_LOAD_BASE ELSE 0

push_auxv(esp, type, val) == <<type, val>> \o esp

\* The stack the program starts with: argc, the end of argv, the end of envp
\* and the auxiliary vector.
InitialStack(has_interp, entry, phdr) ==
    LET none  == push_auxv(<<>>, "AT_NULL", 0)
        pages == push_auxv(none, "AT_PAGESZ", PAGE)
        base  == IF has_interp THEN push_auxv(pages, "AT_BASE", INTERP_LOAD_BASE)
                 ELSE pages
        start == push_auxv(base, "AT_ENTRY", entry)
    IN  <<"0", "0", "0">> \o push_auxv(start, "AT_PHDR", phdr)

AllAreas ==
    LET interp == Image[program].interp
    IN  IF interp = NoInterp \/ ~validate_elf(interp) THEN SegmentAreas(program, ProgramBias)
        ELSE SegmentAreas(interp, INTERP_LOAD_BASE) \o SegmentAreas(program, ProgramBias)

\* Every early return of elf_thread_entry: the file or the interpreter is
\* missing or no ELF file, or memory runs out when some areas exist.
elf_thread_entry_Fails ==
    /\ phase = "new"
    /\ phase' = "failed"
    /\ IF ~validate_elf(program) THEN UNCHANGED vmas
       ELSE \E i \in 0..Len(AllAreas) : vmas' = SubSeq(AllAreas, i + 1, Len(AllAreas))
    /\ UNCHANGED <<program, heap_start, stack, words, linkerPart>>

HeapBase(max_vaddr) == RoundUp(max_vaddr) + PAGE

elf_thread_entry ==
    LET f          == Image[program]
        has_interp == f.interp # NoInterp
    IN  /\ phase = "new"
        /\ validate_elf(program)
        /\ has_interp => validate_elf(f.interp)
        /\ vmas' = AllAreas
        /\ heap_start' = HeapBase(MaxVaddr(AllAreas))
        /\ stack' = InitialStack(has_interp, f.entry + ProgramBias,
                                 PhdrVaddr(program, ProgramBias))
        /\ \E own \in Skippable(program, ProgramBias) :
           \E its \in IF has_interp THEN Skippable(f.interp, INTERP_LOAD_BASE) ELSE {{}} :
              words' = LoadedWords(program, ProgramBias, own) @@
                       IF has_interp THEN LoadedWords(f.interp, INTERP_LOAD_BASE, its) ELSE <<>>
        /\ phase' = IF has_interp THEN "linking" ELSE "running"
        /\ UNCHANGED <<program, linkerPart>>

-----------------------------------------------------------------------------
(* The dynamic linker.                                                     *)

\* The vector starts after argc words of argv, their end, and the environment.
RECURSIVE AuxValue(_, _)
AuxValue(p, type) ==
    IF stack[p] = "AT_NULL" THEN 0
    ELSE IF stack[p] = type THEN stack[p + 1]
    ELSE AuxValue(p + 2, type)

Mapped(a) ==
    \E r \in ToSet(vmas \o areas) : r.start <= a /\ a < r.end

\* Objects get the slots of the table in turn; a full one takes no more.
HasSlot == Len(objects) < MAX_OBJECTS
register_object(name, bias) ==
    IF HasSlot THEN Append(objects, [name |-> name, bias |-> bias]) ELSE objects

\* _ld_main up to the loading of libraries.  The program is taken to lie where
\* it was linked, whatever the kernel's bias.
_ld_main ==
    LET f       == Image[program]
        at_phdr == AuxValue(4, "AT_PHDR")
    IN  /\ phase = "linking" /\ objects = <<>>
        /\ IF at_phdr = 0 \/ AuxValue(4, "AT_ENTRY") = 0
           THEN phase' = "exited" /\ UNCHANGED <<objects, needed>>
           ELSE IF f.dynamic # 0 /\ ~Mapped(f.dynamic)
           THEN phase' = "faulted" /\ UNCHANGED <<objects, needed>>
           ELSE /\ objects' = register_object(program, 0)
                /\ needed' = IF f.dynamic = 0 THEN <<>> ELSE f.needed
                /\ UNCHANGED phase
        /\ UNCHANGED <<kernelPart, words, next_load_addr, areas, relocated>>

Already(name) == \E i \in 2..Len(objects) : objects[i].name = name

SkipLoaded ==
    /\ phase = "linking" /\ objects # <<>> /\ needed # <<>> /\ Already(Head(needed))
    /\ needed' = Tail(needed)
    /\ UNCHANGED <<kernelPart, phase, words, objects, next_load_addr, areas, relocated>>

\* load_shared_object returns early: no such file, a bad header, no memory.  A
\* file that was opened once is taken to open again for its segments.
LoadFails ==
    /\ phase = "linking" /\ objects # <<>> /\ needed # <<>> /\ ~Already(Head(needed))
    /\ needed' = Tail(needed)
    /\ UNCHANGED <<kernelPart, phase, words, objects, next_load_addr, areas, relocated>>

TotalSize(name) ==
    RoundUp(FoldSeq(LAMBDA s, m : IF s.vaddr + s.memsz > m THEN s.vaddr + s.memsz ELSE m,
                    0, Image[name].segments))

\* The relative relocations, applied as soon as the library is registered.
RelocateOnLoad(name, bias, m) ==
    [a \in DOMAIN m |->
        IF Image[name].dynamic # 0 /\ a \in RelativeTargets(name, bias)
        THEN m[a] + bias ELSE m[a]]

NextLoadAddr_OnePage(size) == next_load_addr + PAGE

NextLoadAddr(size) == RoundUp(next_load_addr + size) + PAGE

load_shared_object ==
    /\ phase = "linking" /\ objects # <<>> /\ needed # <<>> /\ ~Already(Head(needed))
    /\ Head(needed) \in DOMAIN Image
    /\ LET name == Head(needed)
           m    == FileWords(name, next_load_addr) @@ words
       IN  /\ areas' = Append(areas, [start |-> next_load_addr, file |-> name,
                                    end   |-> next_load_addr + TotalSize(name)])
           /\ next_load_addr' = NextLoadAddr(TotalSize(name))
           /\ objects' = register_object(name, next_load_addr)
           /\ words' = IF HasSlot THEN RelocateOnLoad(name, next_load_addr, m) ELSE m
    /\ needed' = Tail(needed)
    /\ UNCHANGED <<kernelPart, phase, relocated>>

StartRelocating ==
    /\ phase = "linking" /\ objects # <<>> /\ needed = <<>>
    /\ phase' = "relocating"
    /\ UNCHANGED <<kernelPart, words, linkerPart>>

lookup_symbol_in_object(obj, sym) ==
    IF Image[obj.name].dynamic # 0 /\ sym \in DOMAIN Image[obj.name].defines
    THEN Image[obj.name].defines[sym] + obj.bias ELSE 0

lookup_symbol_global_Newest(sym) ==
    LET found == SelectLastInSeq(objects, LAMBDA o : lookup_symbol_in_object(o, sym) # 0)
    IN  IF found = 0 THEN 0 ELSE lookup_symbol_in_object(objects[found], sym)

\* The first object that has the symbol, in the order of registration.
lookup_symbol_global(sym) ==
    LET found == SelectInSeq(objects, LAMBDA o : lookup_symbol_in_object(o, sym) # 0)
    IN  IF found = 0 THEN 0 ELSE lookup_symbol_in_object(objects[found], sym)

\* One relocation of an object; a symbol nobody defines is bound to 0.
Relocate(obj, r, m) ==
    LET target == r.offset + obj.bias
        addr   == lookup_symbol_global(r.sym)
    IN  CASE r.type = "RELATIVE" -> [m EXCEPT ![target] = @ + obj.bias]
          [] r.type \in {"GLOB_DAT", "JMP_SLOT"} -> [m EXCEPT ![target] = addr]
          [] r.type = "32" -> [m EXCEPT ![target] = @ + addr]

\* The relocations of the next object, in the order of its tables.
process_relocations ==
    /\ phase = "relocating" /\ relocated < Len(objects)
    /\ LET obj == objects[relocated + 1]
       IN  words' = IF Image[obj.name].dynamic = 0 THEN words
                  ELSE FoldLeft(LAMBDA m, r : Relocate(obj, r, m), words,
                                Image[obj.name].rels)
    /\ relocated' = relocated + 1
    /\ UNCHANGED <<kernelPart, phase, objects, next_load_addr, needed, areas>>

\* _ld_main returns the entry point, whatever could not be loaded or bound.
JumpToProgram ==
    /\ phase = "relocating" /\ relocated = Len(objects)
    /\ phase' = "running"
    /\ UNCHANGED <<kernelPart, words, linkerPart>>

LoaderNext ==
    \/ elf_thread_entry \/ elf_thread_entry_Fails
    \/ _ld_main \/ SkipLoaded \/ LoadFails \/ load_shared_object
    \/ StartRelocating \/ process_relocations \/ JumpToProgram

-----------------------------------------------------------------------------
StackArea == [start |-> USER_STACK_TOP - USER_STACK_PAGES * PAGE, end |-> USER_STACK_TOP]

RangesApart(r, s) == r.end <= s.start \/ s.end <= r.start

\* The pieces of a running program do not overlap: the libraries that the
\* linker maps at fixed addresses, which replaces what is there, lie apart from
\* each other, from the segments and from the stack, and the heap starts above
\* every segment.  It rests on the address arithmetic of elf_thread_entry and
\* load_shared_object, over libraries that are loaded, fail or do not fit the
\* table.
ImageApart ==
    phase = "running" =>
        /\ \A i, j \in DOMAIN areas : i # j => RangesApart(areas[i], areas[j])
        /\ \A v \in ToSet(vmas), r \in ToSet(areas) : RangesApart(v, r)
        /\ \A r \in ToSet(vmas \o areas) : RangesApart(r, StackArea)
        /\ \A v \in ToSet(vmas) : v.end <= heap_start

\* The definition a reference is bound to: the one of the object registered
\* first, wherever it is referred to.
Definers(sym) ==
    {i \in DOMAIN objects : Image[objects[i].name].dynamic # 0
                            /\ sym \in DOMAIN Image[objects[i].name].defines}

Binding(sym) ==
    IF Definers(sym) = {} THEN 0
    ELSE LET i == CHOOSE i \in Definers(sym) : \A j \in Definers(sym) : i <= j
         IN  Image[objects[i].name].defines[sym] + objects[i].bias

\* When the program is entered, every reference to a symbol in every object is
\* bound to the same definition, the first in load order, and it is 0 only
\* when no loaded object defines the symbol: a library loaded last must be
\* visible to the objects before it (_ld_main relocates after all loading).
SymbolsBound ==
    phase = "running" =>
        \A i \in DOMAIN objects : \A r \in ToSet(Image[objects[i].name].rels) :
            LET word == words[r.offset + objects[i].bias]
            IN  Image[objects[i].name].dynamic # 0 =>
                /\ r.type \in {"GLOB_DAT", "JMP_SLOT"} => word = Binding(r.sym)
                /\ r.type = "32" => word = r.word + Binding(r.sym)

\* docs/LIBC_SO_REQUIREMENTS.md gives B + A for R_386_RELATIVE: when the program
\* is entered, such a word of a library holds the file's word plus the bias.
RelativeOnce ==
    phase = "running" =>
        \A i \in DOMAIN objects : \A r \in ToSet(Image[objects[i].name].rels) :
            r.type = "RELATIVE" /\ Image[objects[i].name].dynamic # 0 =>
                words[r.offset + objects[i].bias] = r.word + objects[i].bias
=============================================================================
