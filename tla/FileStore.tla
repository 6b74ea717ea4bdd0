------------------------------ MODULE FileStore ------------------------------
(***************************************************************************)
(* What the file system promises its callers: a tree of files by path,     *)
(* which an operation changes at the path it names only.  A write that     *)
(* fails, or any operation a crash interrupts, may lose the file it was    *)
(* about and nothing else.  A crash while a directory gets a new sector    *)
(* breaks the volume, and nothing is promised about it any more.           *)
(***************************************************************************)
EXTENDS Integers, Sequences

CONSTANTS Paths, Contents
VARIABLES
    files,      \* path -> [dir, content]
    broken

storeVars == <<files, broken>>

Parent(p) == SubSeq(p, 1, Len(p) - 1)
IsDir(p) == p = <<>> \/ (p \in DOMAIN files /\ files[p].dir)
Below(p) == {q \in DOMAIN files : Len(q) >= Len(p) /\ SubSeq(q, 1, Len(p)) = p}
Only(S) == [q \in S |-> files[q]]
With(f, p, x) == [q \in DOMAIN f \cup {p} |-> IF q = p THEN x ELSE f[q]]

StoreInit == files = <<>> /\ broken = FALSE

Put(p, c) ==
    /\ IsDir(Parent(p))
    /\ files' = With(Only(DOMAIN files \ Below(p)), p, [dir |-> FALSE, content |-> c])
    /\ UNCHANGED broken
MakeDir(p) ==
    /\ IsDir(Parent(p)) /\ p \notin DOMAIN files
    /\ files' = With(files, p, [dir |-> TRUE, content |-> <<>>])
    /\ UNCHANGED broken
Remove(p) ==
    /\ p \in DOMAIN files
    /\ files' = Only(DOMAIN files \ Below(p))
    /\ UNCHANGED broken
Rename(p, q) ==
    /\ p \in DOMAIN files /\ q \notin DOMAIN files /\ IsDir(Parent(q))
    /\ LET Old(r) == p \o SubSeq(r, Len(q) + 1, Len(r))
           new == {r \in Paths : Len(r) >= Len(q) /\ SubSeq(r, 1, Len(q)) = q
                                 /\ Old(r) \in Below(p)}
       IN files' = [r \in (DOMAIN files \ Below(p)) \cup new |->
                       IF r \in new THEN files[Old(r)] ELSE files[r]]
    /\ UNCHANGED broken
Break == broken' = TRUE /\ files' = <<>>

StoreNext ==
    \/ \E p \in Paths : \/ MakeDir(p) \/ Remove(p)
                        \/ \E c \in Contents \cup {<<>>} : Put(p, c)
                        \/ \E q \in Paths : Rename(p, q)
    \/ Break

StoreSpec == StoreInit /\ [][StoreNext]_storeVars
=============================================================================
