--------------------------- MODULE TaskScheduler ---------------------------
(***************************************************************************)
(* The thread table and the priority scheduler of the kernel               *)
(* (kernel/src/thread.cpp, kernel/src/task_scheduler.cpp, and the timer    *)
(* interrupt of kernel/src/idt.cpp).  The machine has one CPU.  A handler  *)
(* runs with interrupts off (InterruptGuard, or the cli of its interrupt   *)
(* stub), so a handler is one action; between handlers the timer may       *)
(* interrupt whichever thread is current.                                  *)
(*                                                                         *)
(* `threads' is the table `Thread threads[MAX_THREADS]', restricted to the *)
(* fields that scheduling reads.  A wake-up tick (sleep_until) is kept as  *)
(* the number of ticks still to go, which is the same thing as long as the *)
(* 32-bit tick counter does not wrap.  Statistics (total_ticks,            *)
(* thread_count, which nothing reads) are left out.                        *)
(***************************************************************************)
EXTENDS Integers, FiniteSets

CONSTANTS
    MaxThreads,     \* MAX_THREADS
    Quantum,        \* DEFAULT_QUANTUM
    AgingInterval,  \* AGING_INTERVAL
    IdlePriority,   \* 255: pick_next_thread starts from it and wants less
    BootPriority,   \* 128: the priority of thread 0
    Priorities,     \* the priorities thread_create is called with
    SleepTicks,     \* the sleep times asked for, in ticks
    Channels,       \* ids a thread may block on
    KillTargets,    \* the tids the shell's kill and killall are given
    MaxDirs         \* page directories the physical memory has room for

ASSUME SchedulerAssumption ==
    /\ MaxThreads \in Nat \ {0}
    /\ Quantum \in Nat \ {0}
    /\ AgingInterval \in Nat \ {0}
    /\ IdlePriority \in Nat
    /\ BootPriority \in 0..IdlePriority
    /\ Priorities \subseteq 0..IdlePriority
    /\ SleepTicks \subseteq Nat
    /\ Channels \subseteq Int
    /\ KillTargets \subseteq 0..(MaxThreads - 1)
    /\ MaxDirs \in Nat

VARIABLES
    threads,        \* the thread table
    current_tid,    \* the thread on the CPU
    aging_counter,  \* the static counter of schedule()
    dirs,           \* page directories now allocated to processes
    cr3             \* the page directory the CPU uses

schedVars == <<threads, current_tid, aging_counter, dirs, cr3>>

Tids == 0..(MaxThreads - 1)
States == {"Unused", "Ready", "Running", "Blocked", "Sleeping", "Terminated", "Zombie"}
KernelDir == 0          \* VMM::kernel_directory_phys_
NoDir == -1             \* nullptr
NoChannel == -1
Dirs == 1..MaxDirs

\* What a thread's slot holds.
Thread == [state : States, priority : 0..IdlePriority, sleep_left : Nat,
           channel : Channels \cup {NoChannel}, quantum : 1..Quantum,
           dir : Dirs \cup {KernelDir, NoDir}]

cur == threads[current_tid]

-----------------------------------------------------------------------------
\* thread_init: every slot free, the boot code becomes thread 0.
thread_init ==
    threads = [t \in Tids |->
        [state      |-> IF t = 0 THEN "Running" ELSE "Unused",
         priority   |-> IF t = 0 THEN BootPriority ELSE IdlePriority,
         sleep_left |-> 0,
         channel    |-> NoChannel,
         quantum    |-> Quantum,
         dir        |-> IF t = 0 THEN KernelDir ELSE NoDir]]

Init ==
    /\ thread_init
    /\ current_tid = 0
    /\ aging_counter = 0
    /\ dirs = {}
    /\ cr3 = KernelDir

-----------------------------------------------------------------------------
(* Picking the next thread *)

\* Mutant: only threads with an address space of their own are cleaned up.
Dead_OnlyProcesses(th) ==
    {t \in Tids : th[t].state = "Terminated" /\ t # current_tid /\ th[t].dir \in Dirs}

\* The slots pick_next_thread frees: Terminated, and not on their own stack.
Dead(th) == {t \in Tids : th[t].state = "Terminated" /\ t # current_tid}

\* Mutant: the slot keeps the directory it has given back.
Cleaned_KeepsDir(t) == [t EXCEPT !.state = "Unused"]

\* thread_cleanup: destroy the address space and free the slot.
Cleaned(t) ==
    [t EXCEPT !.state = "Unused", !.dir = IF @ = NoDir THEN NoDir ELSE KernelDir]

\* Mutant: the sleepers are forgotten.
Sweep_NoWake(th) == [t \in Tids |-> IF t \in Dead(th) THEN Cleaned(th[t]) ELSE th[t]]

\* First loop of pick_next_thread: free the dead, wake the sleepers in time.
Sweep(th) ==
    [t \in Tids |->
        IF t \in Dead(th) THEN Cleaned(th[t])
        ELSE IF th[t].state = "Sleeping" /\ th[t].sleep_left = 0
        THEN [th[t] EXCEPT !.state = "Ready", !.channel = NoChannel]
        ELSE th[t]]

\* Second loop of pick_next_thread: whom it may choose.
Candidates(th) ==
    {t \in Tids \ {current_tid} :
        th[t].state = "Ready" /\ th[t].priority < IdlePriority}

\* The smallest priority number wins, then the smallest tid (strict <).
Best(th) ==
    IF Candidates(th) = {} THEN 0
    ELSE CHOOSE t \in Candidates(th) :
            \A u \in Candidates(th) :
                \/ th[t].priority < th[u].priority
                \/ th[t].priority = th[u].priority /\ t <= u

pick_next_thread(th) ==
    IF Best(th) = 0 /\ th[current_tid].state = "Running"
    THEN current_tid ELSE Best(th)

\* The tail all handlers that give up the CPU share: pick the next thread and
\* switch to it.  The address space is switched only when the two table
\* entries differ.  `th' is the table and `ds' the allocated directories after
\* what the handler did before.
Dispatch(th, ds) ==
    \E swept \in {Sweep(th)} :
    \E next \in {pick_next_thread(swept)} :
        /\ current_tid' = next
        /\ threads' = IF next # current_tid \/ swept[next].state = "Ready"
                      THEN [swept EXCEPT ![next].state = "Running",
                                         ![next].quantum = Quantum]
                      ELSE swept
        /\ cr3' = IF swept[next].dir # swept[current_tid].dir
                  THEN swept[next].dir ELSE cr3
        /\ dirs' = ds \ {th[t].dir : t \in Dead(th)}

\* Every AGING_INTERVAL calls, each Ready thread but thread 0 gains one step.
Aged(th) ==
    [t \in Tids |->
        IF t # 0 /\ th[t].state = "Ready" /\ th[t].priority > 1
        THEN [th[t] EXCEPT !.priority = @ - 1] ELSE th[t]]

\* Mutant: the test comes before the decrement.
QuantumUsedUp_TestFirst(t) == t.quantum = 0

\* cur.quantum_remaining-- reaches 0.
QuantumUsedUp(t) == t.quantum <= 1

\* schedule(): age, charge the current thread a tick, switch when its quantum
\* is used up or when it is no longer Running.
schedule(th0) ==
    LET aging   == aging_counter + 1 >= AgingInterval
        running == th0[current_tid].state = "Running"
    IN  \E th \in {IF aging THEN Aged(th0) ELSE th0} :
        /\ aging_counter' = IF aging THEN 0 ELSE aging_counter + 1
        /\ IF running /\ ~QuantumUsedUp(th[current_tid])
           THEN /\ threads' = [th EXCEPT ![current_tid].quantum = @ - 1]
                /\ UNCHANGED <<current_tid, dirs, cr3>>
           ELSE Dispatch(IF running
                         THEN [th EXCEPT ![current_tid].state = "Ready",
                                         ![current_tid].quantum = Quantum]
                         ELSE th, dirs)

-----------------------------------------------------------------------------
(* Handlers *)

\* The current thread is executing its own code.  Thread 0 only halts in its
\* loop once it has spawned the first threads.
Executing == cur.state = "Running"
Working == Executing /\ current_tid # 0

\* IRQ0: Timer::tick, then schedule().
TimerIrq ==
    schedule([t \in Tids |-> [threads[t] EXCEPT !.sleep_left = IF @ > 0 THEN @ - 1 ELSE 0]])

\* thread_yield, from the shell or at the end of a thread.
thread_yield == current_tid # 0 /\ schedule(threads)

\* thread_create: the first free slot from 1 on; -1 when there is none.
FreeSlots == {t \in Tids \ {0} : threads[t].state = "Unused"}
FirstFree == CHOOSE t \in FreeSlots : \A u \in FreeSlots : t <= u
NewThread(prio, dir) ==
    [state |-> "Ready", priority |-> prio, sleep_left |-> 0, channel |-> NoChannel,
     quantum |-> Quantum, dir |-> dir]

thread_create(prio) ==
    /\ Executing
    /\ FreeSlots # {}
    /\ threads' = [threads EXCEPT ![FirstFree] = NewThread(prio, KernelDir)]
    /\ UNCHANGED <<current_tid, aging_counter, dirs, cr3>>

\* elf_thread_entry: the new thread gives itself an address space and enters
\* it; alloc_frame takes the lowest free directory.  Without one it returns.
FreeDirs == Dirs \ dirs
NewDir == CHOOSE d \in FreeDirs : \A e \in FreeDirs : d <= e

\* Mutant: the loader fills in the slot and does not enter the new space.
elf_thread_entry_NoSwitch ==
    /\ Working /\ cur.dir = KernelDir
    /\ FreeDirs # {}
    /\ dirs' = dirs \cup {NewDir}
    /\ threads' = [threads EXCEPT ![current_tid].dir = NewDir]
    /\ UNCHANGED <<current_tid, aging_counter, cr3>>

elf_thread_entry ==
    /\ Working /\ cur.dir = KernelDir
    /\ FreeDirs # {}
    /\ dirs' = dirs \cup {NewDir}
    /\ threads' = [threads EXCEPT ![current_tid].dir = NewDir]
    /\ cr3' = NewDir
    /\ UNCHANGED <<current_tid, aging_counter>>

\* A thread function that returns ends up here.  The state is set without a
\* guard, so the timer may come before the yield.
thread_exit_wrapper ==
    /\ Working
    /\ threads' = [threads EXCEPT ![current_tid].state = "Terminated"]
    /\ UNCHANGED <<current_tid, aging_counter, dirs, cr3>>

\* Mutant: the state of the blocked thread is left Running.
block_current_StaysRunning(ch) ==
    /\ Dispatch([threads EXCEPT ![current_tid].channel = ch], dirs)
    /\ UNCHANGED aging_counter

block_current(ch) ==
    /\ Dispatch([threads EXCEPT ![current_tid].state = "Blocked",
                                ![current_tid].channel = ch], dirs)
    /\ UNCHANGED aging_counter

\* Mutant: a wake-up that does not look at the state.
Unblocked_AnyState(th, t) == [th EXCEPT ![t].state = "Ready", ![t].channel = NoChannel]

\* unblock wakes a Blocked thread and nothing else.
Unblocked(th, t) ==
    IF th[t].state = "Blocked"
    THEN [th EXCEPT ![t].state = "Ready", ![t].channel = NoChannel] ELSE th

unblock(t) ==
    /\ threads' = Unblocked(threads, t)
    /\ UNCHANGED <<current_tid, aging_counter, dirs, cr3>>

\* sleep_current: at least one tick.
sleep_current(ticks) ==
    /\ Working
    /\ Dispatch([threads EXCEPT ![current_tid].state = "Sleeping",
                                ![current_tid].sleep_left = IF ticks = 0 THEN 1 ELSE ticks],
                dirs)
    /\ UNCHANGED aging_counter

\* A fault or an exception in user mode.
terminate_current ==
    /\ Working
    /\ Dispatch([threads EXCEPT ![current_tid].state = "Terminated"], dirs)
    /\ UNCHANGED aging_counter

\* thread_terminate, from the shell: whatever state the victim is in.
thread_terminate(t) ==
    /\ Working
    /\ LET th == [threads EXCEPT ![t].state = "Terminated"]
       IN  IF t = current_tid
           THEN schedule(th)
           ELSE threads' = th /\ UNCHANGED <<current_tid, aging_counter, dirs, cr3>>

Next ==
    \/ TimerIrq
    \/ thread_yield
    \/ \E p \in Priorities : thread_create(p)
    \/ elf_thread_entry
    \/ thread_exit_wrapper
    \/ \E c \in Channels : Working /\ block_current(c)
    \/ \E t \in Tids : unblock(t)
    \/ \E k \in SleepTicks : sleep_current(k)
    \/ terminate_current
    \/ \E t \in KillTargets : thread_terminate(t)

\* The timer chip keeps interrupting; nothing else is promised.
Spec == Init /\ [][Next]_schedVars
FairSpec == Spec /\ WF_schedVars(TimerIrq)

-----------------------------------------------------------------------------
(* Properties *)

\* Every slot of the table holds a value of its type; in particular the
\* remaining quantum never reaches 0 or wraps below it between two handlers.
TypeOK ==
    /\ threads \in [Tids -> Thread]
    /\ current_tid \in Tids
    /\ aging_counter \in 0..(AgingInterval - 1)
    /\ dirs \subseteq Dirs
    /\ cr3 \in Dirs \cup {KernelDir}

\* One CPU, one Running thread: no other slot than current_tid is Running, and
\* the current one is Running unless it has just ended itself, whatever
\* order of yields, blocks, wake-ups, kills and timer interrupts led here.
OneRunning ==
    /\ cur.state \in {"Running", "Terminated"}
    /\ \A t \in Tids \ {current_tid} : threads[t].state # "Running"

\* The CPU uses the page directory of the thread it runs, though a switch
\* reloads CR3 only when the two table entries differ.
RunsOnItsDirectory == cr3 = cur.dir

\* A page directory belongs to one slot that is in use, and the slots name
\* every directory that is allocated: thread_cleanup frees each exactly once.
DirectoriesOwned ==
    /\ dirs = {threads[t].dir : t \in Tids} \ {KernelDir, NoDir}
    /\ \A t, u \in Tids : t # u /\ threads[t].dir \in Dirs => threads[t].dir # threads[u].dir
    /\ \A t \in Tids : threads[t].state = "Unused" => threads[t].dir \notin Dirs

\* A killed thread never comes back: the only way out of Terminated is that
\* pick_next_thread frees the slot, however late a wake-up for it arrives.
KilledStaysDead ==
    [][\A t \in Tids : threads[t].state = "Terminated"
          => threads'[t].state \in {"Terminated", "Unused"}]_schedVars

\* Nothing cuts a sleep short: neither a wake-up meant for another blocking
\* call nor one meant for a former owner of the slot.
SleepNotCutShort ==
    [][\A t \in Tids : threads[t].state = "Sleeping" /\ threads[t].sleep_left > 1
          => threads'[t].state \in {"Sleeping", "Terminated"}]_schedVars

\* A sleeper is woken, although pick_next_thread, which wakes it, only runs
\* when somebody's quantum ends.
SleeperWakes ==
    \A t \in Tids : threads[t].state = "Sleeping" ~> threads[t].state # "Sleeping"

\* The slot of a terminated thread becomes free again.
TerminatedFreed ==
    \A t \in Tids : threads[t].state = "Terminated" ~> threads[t].state # "Terminated"

\* The scheduler does not starve the thread: when it is ready again and again
\* it runs again and again.  (Not so for every thread: aging stops at priority
\* 1, where the lowest tid wins.)
NotStarved(t) == []<>(threads[t].state = "Ready") => []<>(current_tid = t)
=============================================================================
