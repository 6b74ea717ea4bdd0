------------------------------ MODULE Process ------------------------------
(***************************************************************************)
(* The life of a process: fork, exec, exit, wait, and the ends nobody asks *)
(* for (a fault, the shell's kill), on top of the scheduler.  The system   *)
(* calls are those of kernel/src/syscall_gate.cpp; a call runs with        *)
(* interrupts off from int 0x80 to iret, also when it blocks in the middle *)
(* and continues after another thread's switch.                            *)
(*                                                                         *)
(* A process is a thread with a page directory of its own.  What it maps,  *)
(* its files and its exit code are left out.                               *)
(***************************************************************************)
EXTENDS TaskScheduler

VARIABLES
    parent_tid,     \* Thread::parent_tid of every slot
    in_wait         \* the threads inside sys_wait, between two passes of its loop

procVars == <<schedVars, parent_tid, in_wait>>

NoParent == -1
WaitChild == -2         \* the blocked_channel_id of a thread in sys_wait

\* The value of Channels where nobody blocks but in sys_wait.
WaitChannels == {WaitChild}

ASSUME WaitChannel == WaitChild \in Channels

\* The slots are zeroed memory: until a slot is used its parent reads as 0.
ProcInit ==
    /\ Init
    /\ parent_tid = [t \in Tids |-> 0]
    /\ in_wait = {}

\* The current thread runs with interrupts on: its own code, not a call.
Interruptible == current_tid \notin in_wait
IsProcess == cur.dir \in Dirs
InUserMode == Working /\ Interruptible /\ IsProcess
InKernelThread == Working /\ Interruptible /\ ~IsProcess

-----------------------------------------------------------------------------
\* Kernel threads: the boot code and the shell spawn, the shell kills.
proc_create ==
    /\ Interruptible
    /\ \E p \in Priorities : thread_create(p)
    /\ parent_tid' = [parent_tid EXCEPT ![FirstFree] = NoParent]
    /\ in_wait' = in_wait \ {FirstFree}

proc_load ==
    /\ InKernelThread
    /\ elf_thread_entry
    /\ UNCHANGED <<parent_tid, in_wait>>

proc_kill(t) ==
    /\ InKernelThread
    /\ thread_terminate(t)
    /\ UNCHANGED <<parent_tid, in_wait>>

\* The loader gives up, or a kernel thread's function returns.
proc_return ==
    /\ InKernelThread
    /\ thread_exit_wrapper
    /\ UNCHANGED <<parent_tid, in_wait>>

proc_timer ==
    /\ Interruptible
    /\ TimerIrq
    /\ UNCHANGED <<parent_tid, in_wait>>

\* A page fault nobody handles, or an exception, in user mode.
proc_fault ==
    /\ InUserMode
    /\ terminate_current
    /\ UNCHANGED <<parent_tid, in_wait>>

-----------------------------------------------------------------------------
\* sys_fork: fill in the first free slot, then clone the directory.  When that
\* fails the slot is free again, but keeps what was written to it.
sys_fork ==
    /\ InUserMode
    /\ FreeSlots # {}
    /\ parent_tid' = [parent_tid EXCEPT ![FirstFree] = current_tid]
    /\ in_wait' = in_wait \ {FirstFree}
    /\ IF FreeDirs # {}
       THEN /\ threads' = [threads EXCEPT ![FirstFree] = NewThread(cur.priority, NewDir)]
            /\ dirs' = dirs \cup {NewDir}
       ELSE /\ threads' = [threads EXCEPT ![FirstFree] =
                  [NewThread(cur.priority, @.dir) EXCEPT !.state = "Unused"]]
            /\ UNCHANGED dirs
    /\ UNCHANGED <<current_tid, aging_counter, cr3>>

\* Mutant: the new space is not entered.
sys_exec_NoSwitch ==
    /\ InUserMode
    /\ LET free == FreeDirs \cup {cur.dir}
           new  == CHOOSE d \in free : \A e \in free : d <= e
       IN  /\ dirs' = (dirs \ {cur.dir}) \cup {new}
           /\ threads' = [threads EXCEPT ![current_tid].dir = new]
    /\ UNCHANGED <<current_tid, aging_counter, cr3, parent_tid, in_wait>>

\* Mutant: the old directory is not given back.
sys_exec_Leaks ==
    /\ InUserMode
    /\ FreeDirs # {}
    /\ dirs' = dirs \cup {NewDir}
    /\ threads' = [threads EXCEPT ![current_tid].dir = NewDir]
    /\ cr3' = NewDir
    /\ UNCHANGED <<current_tid, aging_counter, parent_tid, in_wait>>

\* sys_exec: give the old directory back, take a new one, enter it.  The one
\* just freed is there to be taken, so this cannot fail for want of memory.
sys_exec ==
    /\ InUserMode
    /\ LET free == FreeDirs \cup {cur.dir}
           new  == CHOOSE d \in free : \A e \in free : d <= e
       IN  /\ dirs' = (dirs \ {cur.dir}) \cup {new}
           /\ threads' = [threads EXCEPT ![current_tid].dir = new]
           /\ cr3' = new
    /\ UNCHANGED <<current_tid, aging_counter, parent_tid, in_wait>>

\* Mutant: nobody is told of the exit.
ZombieAndNotify_Silent(th, p) == [th EXCEPT ![current_tid].state = "Zombie"]

\* The table when the current thread turns Zombie: a parent that waits is woken.
ZombieAndNotify(th, p) ==
    LET z == [th EXCEPT ![current_tid].state = "Zombie"]
    IN  IF z[p].state = "Blocked" /\ z[p].channel = WaitChild THEN Unblocked(z, p) ELSE z

\* sys_exit: destroy the address space, then become a Zombie for the parent in
\* the slot parent_tid names, or terminate when that slot is free.
sys_exit ==
    /\ InUserMode
    /\ LET p  == parent_tid[current_tid]
           th == [threads EXCEPT ![current_tid].dir = KernelDir]
       IN  Dispatch(IF p \in Tids /\ th[p].state # "Unused"
                    THEN ZombieAndNotify(th, p)
                    ELSE [th EXCEPT ![current_tid].state = "Terminated"],
                    dirs \ {cur.dir})
    /\ UNCHANGED <<aging_counter, parent_tid, in_wait>>

\* One pass of the loop of sys_wait: reap the first Zombie child, or return -1
\* without children, or block.  Any slot that names the caller counts.
Children(p) == {t \in Tids \ {0} : parent_tid[t] = p}
ZombieChildren(p) == {t \in Children(p) : threads[t].state = "Zombie"}
Reap(p) == CHOOSE z \in ZombieChildren(p) : \A y \in ZombieChildren(p) : z <= y

WaitLoop ==
    /\ UNCHANGED parent_tid
    /\ \/ /\ ZombieChildren(current_tid) # {}
          /\ threads' = [threads EXCEPT ![Reap(current_tid)].state = "Unused"]
          /\ in_wait' = in_wait \ {current_tid}
          /\ UNCHANGED <<current_tid, aging_counter, dirs, cr3>>
       \/ /\ Children(current_tid) = {}
          /\ in_wait' = in_wait \ {current_tid}
          /\ UNCHANGED schedVars
       \/ /\ ZombieChildren(current_tid) = {}
          /\ Children(current_tid) # {}
          /\ in_wait' = in_wait \cup {current_tid}
          /\ block_current(WaitChild)

sys_wait == InUserMode /\ WaitLoop
sys_wait_resume == Executing /\ current_tid \in in_wait /\ WaitLoop

ProcNext ==
    \/ proc_timer
    \/ proc_create
    \/ proc_load
    \/ proc_return
    \/ proc_fault
    \/ \E t \in KillTargets : proc_kill(t)
    \/ sys_fork
    \/ sys_exec
    \/ sys_exit
    \/ sys_wait
    \/ sys_wait_resume

ProcSpec == ProcInit /\ [][ProcNext]_procVars

\* The timer keeps ticking, and a thread put back on the CPU inside sys_wait
\* goes on with its loop.
ProcFairSpec == ProcSpec /\ WF_procVars(proc_timer) /\ WF_procVars(sys_wait_resume)

-----------------------------------------------------------------------------
(* Properties *)

\* No exit is missed: a thread blocked in sys_wait has no Zombie child, because
\* the exit that made the Zombie woke it.
NoMissedExit ==
    \A p \in Tids : threads[p].state = "Blocked" /\ threads[p].channel = WaitChild
        => ZombieChildren(p) = {}

\* A process runs on its own, allocated, page directory: never on one that an
\* exit, an exec or a clean-up has given back.  Through fork, exec, exit and kill
\* no directory is shared or lost, and one thread runs.
ProcessRunsInOwnSpace ==
    /\ IsProcess => cr3 = cur.dir /\ cr3 \in dirs
    /\ DirectoriesOwned
    /\ OneRunning

\* Children a wait could still report: forked, and neither reaped nor freed.
LiveChildren(p) == {t \in Children(p) : threads[t].state \notin {"Unused", "Terminated"}}
Waiting(p) == p \in in_wait /\ threads[p].state \in {"Ready", "Running", "Blocked"}

\* A parent gets the exit of its child: with a Zombie to reap, wait returns,
\* unless a kill takes the Zombie first, or other threads keep the parent from
\* running.
ZombieIsReaped ==
    \A p \in Tids : NotStarved(p) =>
        (Waiting(p) /\ ZombieChildren(p) # {} ~> ~Waiting(p) \/ ZombieChildren(p) = {})

\* wait does not outlast the children: once none is left, it returns.
WaitReturns ==
    \A p \in Tids : Waiting(p) /\ LiveChildren(p) = {} ~> ~Waiting(p)
=============================================================================
