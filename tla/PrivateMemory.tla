--------------------------- MODULE PrivateMemory ---------------------------
(***************************************************************************)
(* What the virtual memory of the kernel promises its processes: each has  *)
(* an address space of its own.  A page a process sees changes only by the *)
(* process's own steps, and a forked process starts with its parent's      *)
(* pages.  How frames are shared behind this is Memory's business.         *)
(***************************************************************************)
CONSTANTS Procs, Pages, Values, Absent

VARIABLES
    alive,          \* the processes there are
    space           \* what a process finds at a page

pmVars == <<alive, space>>

Nothing == [v \in Pages |-> Absent]

PMInit == alive = {} /\ space = [p \in Procs |-> Nothing]

Create(p) ==
    /\ p \notin alive
    /\ alive' = alive \cup {p}
    /\ UNCHANGED space

\* The child starts with what the parent sees.
Fork(p, q) ==
    /\ p \in alive /\ q \notin alive
    /\ alive' = alive \cup {q}
    /\ space' = [space EXCEPT ![q] = space[p]]

Exit(p) ==
    /\ p \in alive
    /\ alive' = alive \ {p}
    /\ space' = [space EXCEPT ![p] = Nothing]

\* A store changes one page, to the value stored.
Store(p, v, x) ==
    /\ p \in alive /\ space[p][v] # Absent
    /\ space' = [space EXCEPT ![p][v] = x]
    /\ UNCHANGED alive

\* Pages come, with any contents, or go; those that stay keep theirs.
Remap(p) ==
    /\ p \in alive
    /\ \A v \in Pages : space[p][v] = Absent \/ space'[p][v] \in {space[p][v], Absent}
    /\ \A q \in Procs \ {p} : space'[q] = space[q]
    /\ UNCHANGED alive

PMNext ==
    \E p \in Procs :
        \/ Create(p) \/ Exit(p) \/ Remap(p)
        \/ \E q \in Procs : Fork(p, q)
        \/ \E v \in Pages, x \in Values : Store(p, v, x)

PMSpec == PMInit /\ [][PMNext]_pmVars
=============================================================================
