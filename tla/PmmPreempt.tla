----------------------------- MODULE PmmPreempt -----------------------------
(***************************************************************************)
(* alloc_frame as kernel threads call it.  pmm.cpp takes no lock: a system *)
(* call runs it with interrupts off, but the ELF loader (elf_thread_entry) *)
(* and the shell run it with interrupts on, and the timer may switch to    *)
(* another such thread between get_first_free_frame and set_frame.  The    *)
(* three stores after the scan are taken together.                         *)
(***************************************************************************)
EXTENDS Pmm

CONSTANT Threads        \* kernel threads that allocate with interrupts on

VARIABLES
    found,              \* the frame a thread's scan returned, not yet taken
    owned               \* the frames alloc_frame returned to a thread

preemptVars == <<pmmVars, found, owned>>

NotFound == -1

PreemptInit ==
    /\ PmmInit
    /\ found = [t \in Threads |-> NotFound]
    /\ owned = [t \in Threads |-> {}]

alloc_scan(t) ==
    /\ found[t] = NotFound
    /\ CanAlloc(pmm)
    /\ found' = [found EXCEPT ![t] = FirstFreeFrame(pmm)]
    /\ UNCHANGED <<pmmVars, owned>>

alloc_take(t) ==
    /\ found[t] # NotFound
    /\ pmm' = Claim(pmm, found[t])
    /\ held' = [held EXCEPT ![found[t]] = @ + 1]
    /\ owned' = [owned EXCEPT ![t] = @ \cup {found[t]}]
    /\ found' = [found EXCEPT ![t] = NotFound]
    /\ UNCHANGED areas

give_back(t, f) ==
    /\ f \in owned[t]
    /\ found[t] = NotFound
    /\ free_frame(f)
    /\ owned' = [owned EXCEPT ![t] = @ \ {f}]
    /\ UNCHANGED found

PreemptNext ==
    \E t \in Threads :
        \/ alloc_scan(t)
        \/ alloc_take(t)
        \/ \E f \in Frames : give_back(t, f)

PreemptSpec == PreemptInit /\ [][PreemptNext]_preemptVars

-----------------------------------------------------------------------------
\* alloc_frame returns a free frame: two threads never get the same one.
AllocUnique == \A t, u \in Threads : t # u => owned[t] \cap owned[u] = {}
=============================================================================
