--------------------------- MODULE ProcessProofs ---------------------------
(***************************************************************************)
(* Proofs about Process, for any number of threads and page directories:   *)
(* no exit is missed by a waiting parent, and a process runs in an address *)
(* space of its own.                                                       *)
(***************************************************************************)
EXTENDS Process, TaskSchedulerProofs

-----------------------------------------------------------------------------
(* The invariant *)

\* What the scheduler's handlers keep by themselves.
TableInv ==
    /\ IInv
    /\ Owned(threads, dirs)
    /\ Awake(threads)
    /\ OnDir(threads, Dirs)

\* The inductive invariant.
ProcInv ==
    /\ TableInv
    /\ parent_tid \in [Tids -> Tids \cup {NoParent}]
    /\ in_wait \subseteq Tids \ {0}
    /\ NoMissedExit

\* The invariant holds at boot.
LEMMA ProcStart == ProcInit => ProcInv
<1> SUFFICES ASSUME ProcInit PROVE ProcInv
  OBVIOUS
<1>1. Init /\ parent_tid = [t \in Tids |-> 0] /\ in_wait = {} /\ 0 \in Tids
  BY SchedulerAssumption DEF ProcInit, Tids
<1>2. IInv
  BY <1>1, InitInv
<1>3. Owned(threads, dirs)
  <2>1. \A t \in Tids : threads[t].dir \in {KernelDir, NoDir}
    BY <1>1 DEF Init, thread_init
  <2>2. KernelDir \notin Dirs /\ NoDir \notin Dirs /\ dirs = {}
    BY <1>1, SchedulerAssumption DEF KernelDir, NoDir, Dirs, Init
  <2> QED BY <2>1, <2>2 DEF Owned
<1>4. Awake(threads) /\ OnDir(threads, Dirs)
  BY <1>1 DEF Init, thread_init, Awake, OnDir
<1>5. NoMissedExit
  BY <1>1 DEF Init, thread_init, NoMissedExit
<1> QED BY <1>1, <1>2, <1>3, <1>4, <1>5 DEF ProcInv, TableInv

\* A step of the scheduler by itself.
LEMMA TableNext == TableInv /\ [Next]_schedVars => TableInv'
  BY NextInv, NextOwned, NextWaits, NextOnDir DEF TableInv

\* NoMissedExit, one parent and one child at a time.
LEMMA Unseen ==
    NoMissedExit <=>
      \A p, t \in Tids : threads[p].state = "Blocked" /\ threads[p].channel = WaitChild
                           /\ t # 0 /\ parent_tid[t] = p => threads[t].state # "Zombie"
  BY DEF NoMissedExit, ZombieChildren, Children

\* The same after the step.
LEMMA UnseenNext ==
    NoMissedExit' <=>
      \A p, t \in Tids : threads'[p].state = "Blocked" /\ threads'[p].channel = WaitChild
                           /\ t # 0 /\ parent_tid'[t] = p => threads'[t].state # "Zombie"
  BY DEF NoMissedExit, ZombieChildren, Children

-----------------------------------------------------------------------------
(* Steps that block nobody *)

\* Interrupts, kernel threads, faults: the scheduler's step, and the parent of a
\* Zombie stays the same.
LEMMA QuietKeeps ==
    ASSUME ProcInv, [Unblocking]_schedVars, in_wait' \subseteq in_wait,
           parent_tid' \in [Tids -> Tids \cup {NoParent}],
           \A t \in Tids : threads'[t].state = "Zombie" => parent_tid'[t] = parent_tid[t]
    PROVE  ProcInv'
<1>1. TableInv'
  BY TableNext DEF ProcInv, Unblocking, Next
<1>2. WaitersKept({})
  BY UnblockingWaits DEF ProcInv, TableInv
<1>3. NoMissedExit'
  BY <1>2, Unseen, UnseenNext DEF ProcInv, WaitersKept
<1> QED BY <1>1, <1>3 DEF ProcInv

\* thread_create: the new thread, in the first free slot, is nobody's child.
LEMMA CreateKeeps ==
    ASSUME ProcInv, proc_create
    PROVE  ProcInv'
<1>1. PICK p \in Priorities : thread_create(p)
  BY DEF proc_create
<1>2. FirstFree \in Tids /\ threads \in [Tids -> Thread]
  BY <1>1, FirstFreeIsFree DEF thread_create, ProcInv, TableInv, IInv, TypeOK
<1>3. threads'[FirstFree].state = "Ready"
  BY <1>1, <1>2 DEF thread_create, NewThread
<1>4. parent_tid' \in [Tids -> Tids \cup {NoParent}]
      /\ \A t \in Tids \ {FirstFree} : parent_tid'[t] = parent_tid[t]
  BY <1>2 DEF proc_create, ProcInv
<1>5. [Unblocking]_schedVars /\ in_wait' \subseteq in_wait
  BY <1>1 DEF Unblocking, proc_create
<1> QED BY <1>3, <1>4, <1>5, QuietKeeps

-----------------------------------------------------------------------------
(* fork and exec *)

\* One slot changes its directory for one that nobody else has.
LEMMA SlotOwned ==
    ASSUME NEW th \in [Tids -> Thread], NEW ds, Owned(th, ds), NEW t \in Tids,
           NEW r, r.dir \in Dirs \cup {KernelDir, NoDir},
           r.dir \in Dirs => r.dir \notin ds \ {th[t].dir},
           r.state \in Bare => r.dir \notin Dirs
    PROVE  Owned([th EXCEPT ![t] = r], (ds \ {th[t].dir}) \cup ({r.dir} \cap Dirs))
<1>1. PICK s : s = [th EXCEPT ![t] = r]
  OBVIOUS
<1>2. s[t] = r /\ \A u \in Tids \ {t} : s[u] = th[u]
  BY <1>1
<1>3. KernelDir \notin Dirs /\ NoDir \notin Dirs
  BY SchedulerAssumption DEF KernelDir, NoDir, Dirs
<1>4. \A u \in Tids : th[u].dir \in Dirs \cup {KernelDir, NoDir}
  BY DEF Thread
<1>5. \A u \in Tids : th[u].dir \in Dirs => th[u].dir \in ds
  BY <1>3 DEF Owned
<1>6. (ds \ {th[t].dir}) \cup ({r.dir} \cap Dirs) = {s[u].dir : u \in Tids} \ {KernelDir, NoDir}
  <2>1. ASSUME NEW d \in {s[u].dir : u \in Tids} \ {KernelDir, NoDir}
        PROVE  d \in (ds \ {th[t].dir}) \cup ({r.dir} \cap Dirs)
    <3>1. PICK u \in Tids : d = s[u].dir
      OBVIOUS
    <3>2. CASE u = t
      BY <1>2, <3>1, <3>2
    <3>3. CASE u # t
      <4>1. d = th[u].dir /\ d \in Dirs
        BY <1>2, <1>4, <2>1, <3>1, <3>3
      <4> QED BY <1>5, <3>3, <4>1 DEF Owned
    <3> QED BY <3>2, <3>3
  <2>2. ASSUME NEW d \in ds \ {th[t].dir}
        PROVE  d \in {s[u].dir : u \in Tids} \ {KernelDir, NoDir}
    <3>1. PICK u \in Tids : d = th[u].dir /\ d \notin {KernelDir, NoDir}
      BY DEF Owned
    <3>2. u # t
      BY <3>1
    <3> QED BY <1>2, <3>1, <3>2
  <2>3. ASSUME r.dir \in Dirs
        PROVE  r.dir \in {s[u].dir : u \in Tids} \ {KernelDir, NoDir}
    BY <1>2, <1>3, <2>3
  <2> QED BY <2>1, <2>2, <2>3
<1>7. \A u, v \in Tids : u # v /\ s[u].dir \in Dirs => s[u].dir # s[v].dir
  <2>1. \A u \in Tids \ {t} : th[u].dir \in Dirs => th[u].dir \in ds \ {th[t].dir}
    BY <1>5 DEF Owned
  <2> QED BY <1>2, <2>1 DEF Owned
<1>8. \A u \in Tids : s[u].state \in Bare => s[u].dir \notin Dirs
  BY <1>2 DEF Owned
<1> QED BY <1>1, <1>6, <1>7, <1>8 DEF Owned

\* One slot is filled in or emptied; the thread that runs stays, on its directory.
LEMMA SlotKeeps ==
    ASSUME TableInv, NEW t \in Tids \ {0}, NEW r \in Thread,
           threads' = [threads EXCEPT ![t] = r],
           UNCHANGED <<current_tid, aging_counter>>,
           r.state \in Living => r.dir # NoDir,
           r.state \in Bare => r.dir \notin Dirs,
           r.dir \in Dirs => r.dir \notin dirs \ {threads[t].dir},
           dirs' = (dirs \ {threads[t].dir}) \cup ({r.dir} \cap Dirs),
           t = current_tid => r.state = "Running" /\ r.dir \in Dirs /\ cr3' = r.dir,
           t # current_tid => r.state # "Running" /\ cr3' = cr3
    PROVE  TableInv'
<1>1. threads \in [Tids -> Thread] /\ current_tid \in Tids /\ dirs \subseteq Dirs
      /\ cr3 \in Dirs \cup {KernelDir} /\ 0 \in Tids
  BY SchedulerAssumption DEF TableInv, IInv, TypeOK, Tids
<1>2. threads'[t] = r /\ \A u \in Tids \ {t} : threads'[u] = threads[u]
  BY <1>1
<1>3. IInv'
  <2>1. dirs' \subseteq Dirs /\ cr3' \in Dirs \cup {KernelDir}
    BY <1>1
  <2> QED BY <2>1, OneSlot DEF TableInv
<1>4. Owned(threads', dirs')
  <2>1. PICK th \in [Tids -> Thread] : th = threads
    BY <1>1
  <2>2. PICK ds : ds = dirs
    OBVIOUS
  <2>3. r.dir \in Dirs \cup {KernelDir, NoDir}
    BY DEF Thread
  <2>4. Owned([th EXCEPT ![t] = r], (ds \ {th[t].dir}) \cup ({r.dir} \cap Dirs))
    BY <2>1, <2>2, <2>3, SlotOwned DEF TableInv
  <2> QED BY <2>1, <2>2, <2>4
<1>5. Awake(threads')
  BY <1>1, <1>2 DEF TableInv, Awake
<1>6. OnDir(threads, Dirs)'
  BY <1>1, <1>2 DEF TableInv, OnDir
<1> QED BY <1>3, <1>4, <1>5, <1>6 DEF TableInv

\* sys_fork: the child is Ready on a directory of its own, or the slot is free again.
LEMMA ForkKeeps ==
    ASSUME ProcInv, sys_fork
    PROVE  ProcInv'
<1>1. /\ TableInv /\ threads \in [Tids -> Thread] /\ current_tid \in Tids /\ cur \in Thread
      /\ cur.state = "Running" /\ dirs \subseteq Dirs
  BY DEF ProcInv, TableInv, IInv, TypeOK, cur, sys_fork, InUserMode, Working, Executing
<1>2. PICK f : f = FirstFree
  OBVIOUS
<1>3. f \in Tids \ {0} /\ threads[f].state = "Unused" /\ f # current_tid
  BY <1>1, <1>2, FirstFreeIsFree DEF sys_fork, cur
<1>4. threads[f].dir \notin Dirs /\ threads[f].dir \notin dirs
  BY <1>1, <1>3 DEF TableInv, Owned, Bare
<1>5. ASSUME FreeDirs # {} PROVE TableInv' /\ threads'[f].state = "Ready"
  <2>1. PICK n : n = NewDir
    OBVIOUS
  <2>2. n \in Dirs \ dirs
    BY <1>5, <2>1, NewDirIsFree
  <2>3. PICK r : r = NewThread(cur.priority, n)
    OBVIOUS
  <2>4. r \in Thread /\ r.state = "Ready" /\ r.dir = n
    BY <1>1, <2>2, <2>3, FullQuantum DEF NewThread, Thread, States
  <2>5. threads' = [threads EXCEPT ![f] = r] /\ dirs' = dirs \cup {n}
    BY <1>2, <1>5, <2>1, <2>3 DEF sys_fork
  <2>6. dirs' = (dirs \ {threads[f].dir}) \cup ({r.dir} \cap Dirs)
    BY <1>4, <2>2, <2>4, <2>5
  <2>7. n # NoDir
    BY <2>2, SchedulerAssumption DEF Dirs, NoDir
  <2>8. UNCHANGED <<current_tid, aging_counter, cr3>>
    BY DEF sys_fork
  <2>9. r.state \notin Bare /\ r.state # "Running" /\ r.dir \notin dirs \ {threads[f].dir}
    BY <2>2, <2>4 DEF Bare
  <2>10. TableInv'
    BY <1>1, <1>3, <2>4, <2>5, <2>6, <2>7, <2>8, <2>9, SlotKeeps
  <2> QED BY <1>1, <1>3, <2>4, <2>5, <2>10
<1>6. ASSUME FreeDirs = {} PROVE TableInv' /\ threads'[f].state = "Unused"
  <2>1. PICK r : r = [NewThread(cur.priority, threads[f].dir) EXCEPT !.state = "Unused"]
    OBVIOUS
  <2>2. threads[f] \in Thread
    BY <1>1, <1>3
  <2>3. r \in Thread /\ r.state = "Unused" /\ r.dir = threads[f].dir
    BY <1>1, <2>1, <2>2, FullQuantum DEF NewThread, Thread, States
  <2>4. threads' = [threads EXCEPT ![f] = r] /\ dirs' = dirs
    BY <1>1, <1>2, <1>3, <1>6, <2>1 DEF sys_fork
  <2>5. dirs' = (dirs \ {threads[f].dir}) \cup ({r.dir} \cap Dirs)
    BY <1>4, <2>3, <2>4
  <2>6. UNCHANGED <<current_tid, aging_counter, cr3>>
    BY DEF sys_fork
  <2>7. r.state \notin Living /\ r.state # "Running" /\ r.dir \notin Dirs
    BY <1>4, <2>3 DEF Living
  <2>8. TableInv'
    BY <1>1, <1>3, <2>3, <2>4, <2>5, <2>6, <2>7, SlotKeeps
  <2> QED BY <1>1, <1>3, <2>3, <2>4, <2>8
<1>7. TableInv' /\ threads'[f].state \in {"Ready", "Unused"}
  BY <1>5, <1>6
<1>8. \A t \in Tids \ {f} : threads'[t] = threads[t]
  BY <1>1, <1>2, <1>3 DEF sys_fork
<1>9. /\ parent_tid' \in [Tids -> Tids \cup {NoParent}]
      /\ \A t \in Tids \ {f} : parent_tid'[t] = parent_tid[t]
      /\ in_wait' \subseteq Tids \ {0}
  BY <1>1, <1>2, <1>3 DEF ProcInv, sys_fork
<1>10. NoMissedExit'
  BY <1>7, <1>8, <1>9, Unseen, UnseenNext DEF ProcInv
<1> QED BY <1>7, <1>9, <1>10 DEF ProcInv

\* The directory just given back is free to be taken again.
LEMMA ExecKeeps ==
    ASSUME ProcInv, sys_exec
    PROVE  ProcInv'
<1>1. /\ TableInv /\ threads \in [Tids -> Thread] /\ current_tid \in Tids \ {0} /\ cur \in Thread
      /\ cur.state = "Running" /\ dirs \subseteq Dirs /\ cur.dir \in Dirs
  BY DEF ProcInv, TableInv, IInv, TypeOK, cur, sys_exec, InUserMode, Working, Executing, IsProcess
<1>2. PICK free : free = FreeDirs \cup {cur.dir}
  OBVIOUS
<1>3. PICK n : n = CHOOSE d \in free : \A e \in free : d <= e
  OBVIOUS
<1>4. n \in free
  <2>1. free \in SUBSET Nat /\ free # {}
    BY <1>1, <1>2, SchedulerAssumption DEF FreeDirs, Dirs
  <2>2. \E d \in free : \A e \in free : d <= e
    BY <2>1, Smallest
  <2> QED BY <1>3, <2>2
<1>5. n \in Dirs /\ n \notin dirs \ {cur.dir} /\ n # NoDir
  BY <1>1, <1>2, <1>4, SchedulerAssumption DEF FreeDirs, Dirs, NoDir
<1>6. /\ dirs' = (dirs \ {cur.dir}) \cup {n} /\ cr3' = n
      /\ threads' = [threads EXCEPT ![current_tid].dir = n]
      /\ UNCHANGED <<current_tid, aging_counter, parent_tid, in_wait>>
  BY <1>2, <1>3 DEF sys_exec
<1>7. PICK r : r = [cur EXCEPT !.dir = n]
  OBVIOUS
<1>8. /\ r \in Thread /\ r.dir = n /\ r.state = "Running" /\ r.channel = cur.channel
      /\ threads' = [threads EXCEPT ![current_tid] = r]
  BY <1>1, <1>5, <1>6, <1>7 DEF Thread, cur
<1>9. dirs' = (dirs \ {threads[current_tid].dir}) \cup ({r.dir} \cap Dirs)
  BY <1>5, <1>6, <1>8 DEF cur
<1>10. TableInv'
  <2>1. PICK t \in Tids \ {0} : t = current_tid
    BY <1>1
  <2>2. /\ r.dir \notin dirs \ {threads[t].dir} /\ r.state \notin Bare /\ r.dir # NoDir
        /\ dirs' = (dirs \ {threads[t].dir}) \cup ({r.dir} \cap Dirs)
        /\ threads' = [threads EXCEPT ![t] = r]
        /\ r.dir \in Dirs /\ cr3' = r.dir
    BY <1>5, <1>6, <1>8, <1>9, <2>1 DEF cur, Bare
  <2> QED BY <1>1, <1>6, <1>8, <2>1, <2>2, SlotKeeps
<1>11. \A t \in Tids : threads'[t].state = threads[t].state /\ threads'[t].channel = threads[t].channel
  BY <1>1, <1>8 DEF cur
<1>12. NoMissedExit'
  BY <1>6, <1>11, Unseen, UnseenNext DEF ProcInv
<1> QED BY <1>6, <1>10, <1>12 DEF ProcInv

-----------------------------------------------------------------------------
(* wait *)

\* The pass of sys_wait that reaps: a Zombie has no directory to lose.
LEMMA ReapKeeps ==
    ASSUME ProcInv, WaitLoop, ZombieChildren(current_tid) # {},
           threads' = [threads EXCEPT ![Reap(current_tid)].state = "Unused"],
           UNCHANGED <<current_tid, aging_counter, dirs, cr3>>,
           in_wait' = in_wait \ {current_tid}
    PROVE  ProcInv'
<1>1. /\ TableInv /\ threads \in [Tids -> Thread] /\ current_tid \in Tids
      /\ threads[current_tid].state \in {"Running", "Terminated"}
  BY DEF ProcInv, TableInv, IInv, TypeOK, OneRunning, cur
<1>2. PICK Z \in SUBSET Nat : Z = ZombieChildren(current_tid)
  <2>1. Tids \subseteq Nat
    BY SchedulerAssumption DEF Tids
  <2>2. ZombieChildren(current_tid) \subseteq Tids
    BY DEF ZombieChildren, Children
  <2> QED BY <2>1, <2>2
<1>3. \E z \in Z : \A y \in Z : z <= y
  BY <1>2, Smallest
<1>4. PICK z : z = Reap(current_tid)
  OBVIOUS
<1>5. z \in ZombieChildren(current_tid)
  BY <1>2, <1>3, <1>4 DEF Reap
<1>6. z \in Tids \ {0} /\ threads[z].state = "Zombie" /\ threads[z] \in Thread /\ z # current_tid
  BY <1>1, <1>5 DEF ZombieChildren, Children
<1>7. PICK r : r = [threads[z] EXCEPT !.state = "Unused"]
  OBVIOUS
<1>8. /\ r \in Thread /\ r.state = "Unused" /\ r.dir = threads[z].dir
      /\ threads' = [threads EXCEPT ![z] = r]
  BY <1>1, <1>4, <1>6, <1>7 DEF Thread, States
<1>9. r.dir \notin Dirs /\ threads[z].dir \notin dirs
  BY <1>1, <1>6, <1>8 DEF TableInv, Owned, Bare, IInv, TypeOK
<1>10. dirs' = (dirs \ {threads[z].dir}) \cup ({r.dir} \cap Dirs)
  BY <1>9
<1>11. TableInv'
  <2>1. r.state \notin Living /\ r.state # "Running"
    BY <1>8 DEF Living
  <2> QED BY <1>1, <1>6, <1>8, <1>9, <1>10, <2>1, SlotKeeps
<1>12. threads'[z].state = "Unused" /\ \A t \in Tids \ {z} : threads'[t] = threads[t]
  BY <1>1, <1>6, <1>8
<1>13. UNCHANGED parent_tid
  BY DEF WaitLoop
<1>14. NoMissedExit'
  BY <1>12, <1>13, Unseen, UnseenNext DEF ProcInv
<1> QED BY <1>11, <1>13, <1>14 DEF ProcInv

\* A parent blocks only after it has seen that no child is a Zombie, and no exit
\* comes in between.
LEMMA WaitKeeps ==
    ASSUME ProcInv, WaitLoop, Working
    PROVE  ProcInv'
<1>1. current_tid \in Tids \ {0} /\ UNCHANGED parent_tid
  BY DEF ProcInv, TableInv, IInv, TypeOK, WaitLoop, Working
<1>2. CASE /\ ZombieChildren(current_tid) # {}
           /\ threads' = [threads EXCEPT ![Reap(current_tid)].state = "Unused"]
           /\ in_wait' = in_wait \ {current_tid}
           /\ UNCHANGED <<current_tid, aging_counter, dirs, cr3>>
  BY <1>2, ReapKeeps
<1>3. CASE in_wait' = in_wait \ {current_tid} /\ UNCHANGED schedVars
  <2>1. in_wait' \subseteq in_wait /\ [Unblocking]_schedVars
    BY <1>3
  <2>2. parent_tid' \in [Tids -> Tids \cup {NoParent}] /\ parent_tid' = parent_tid
    BY <1>1 DEF ProcInv
  <2> QED BY <2>1, <2>2, QuietKeeps
<1>4. CASE /\ ZombieChildren(current_tid) = {}
           /\ in_wait' = in_wait \cup {current_tid}
           /\ block_current(WaitChild)
  <2>1. [Next]_schedVars
    BY <1>4, WaitChannel DEF Next
  <2>2. TableInv'
    BY <2>1, TableNext DEF ProcInv
  <2>3. WaitersKept({current_tid})
    BY <2>1, NextWaits DEF ProcInv, TableInv
  <2>4. \A t \in Tids : t # 0 /\ parent_tid[t] = current_tid => threads[t].state # "Zombie"
    BY <1>4 DEF ZombieChildren, Children
  <2>5. NoMissedExit'
    BY <1>1, <2>3, <2>4, Unseen, UnseenNext DEF ProcInv, WaitersKept
  <2> QED BY <1>1, <1>4, <2>2, <2>5 DEF ProcInv
<1> QED BY <1>2, <1>3, <1>4 DEF WaitLoop

-----------------------------------------------------------------------------
(* exit *)

\* What sys_exit hands to the switch: the directory is given back, and if the
\* caller is a Zombie its parent does not wait.
Ended(th, ds) ==
    /\ Handed(th)
    /\ Owned(th, ds)
    /\ Awake(th)
    /\ OnDir(th, Dirs)
    /\ \A t \in Tids : th[t].state = "Blocked"
         => threads[t].state = "Blocked" /\ th[t].channel = threads[t].channel
    /\ \A t \in Tids : th[t].state = "Zombie" => threads[t].state = "Zombie" \/ t = current_tid

\* The caller alone: a slot without address space that will not run again.
LEMMA LeaveTable ==
    ASSUME ProcInv, InUserMode, NEW q \in {"Zombie", "Terminated"},
           NEW z, z = [threads EXCEPT ![current_tid] = [cur EXCEPT !.dir = KernelDir, !.state = q]]
    PROVE  Ended(z, dirs \ {cur.dir}) /\ z[current_tid].state = q
<1>1. /\ TableInv /\ threads \in [Tids -> Thread] /\ current_tid \in Tids \ {0} /\ cur \in Thread
      /\ cur.state = "Running" /\ cur = threads[current_tid] /\ Ongoing(threads) /\ 0 \in Tids
  BY OngoingNow, SchedulerAssumption
     DEF ProcInv, TableInv, IInv, TypeOK, cur, InUserMode, Working, Executing, Tids
<1>2. PICK r : r = [cur EXCEPT !.dir = KernelDir, !.state = q]
  OBVIOUS
<1>3. r \in Thread /\ r.dir = KernelDir /\ r.state = q /\ KernelDir # NoDir /\ KernelDir \notin Dirs
  <2>1. KernelDir # NoDir /\ KernelDir \notin Dirs
    BY SchedulerAssumption DEF KernelDir, NoDir, Dirs
  <2>2. q \in States /\ KernelDir \in Dirs \cup {KernelDir, NoDir}
    BY DEF States
  <2>3. r \in Thread /\ r.dir = KernelDir /\ r.state = q
    BY <1>1, <1>2, <2>2 DEF Thread
  <2> QED BY <2>1, <2>3
<1>4. z = [threads EXCEPT ![current_tid] = r] /\ z[current_tid] = r
      /\ \A t \in Tids \ {current_tid} : z[t] = threads[t]
  BY <1>1, <1>2
<1>5. Handed(z)
  <2>1. PICK th : th = threads
    OBVIOUS
  <2>2. Ongoing(th) /\ current_tid \in Tids /\ current_tid # 0
    BY <1>1, <2>1
  <2>3. r.dir \in {th[current_tid].dir, KernelDir} /\ r.dir # NoDir /\ r.state # "Running"
    BY <1>3
  <2>4. Handed([th EXCEPT ![current_tid] = r])
    BY <1>3, <2>2, <2>3, Preempted
  <2> QED BY <1>4, <2>1, <2>4
<1>6. Owned(z, dirs \ {cur.dir})
  <2>1. PICK th \in [Tids -> Thread] : th = threads
    BY <1>1
  <2>2. PICK ds : ds = dirs
    OBVIOUS
  <2>3. PICK c \in Tids : c = current_tid
    BY <1>1
  <2>4. Owned([th EXCEPT ![c] = r], (ds \ {th[c].dir}) \cup ({r.dir} \cap Dirs))
    BY <1>1, <1>3, <2>1, <2>2, <2>3, SlotOwned DEF TableInv
  <2>5. (ds \ {th[c].dir}) \cup ({r.dir} \cap Dirs) = dirs \ {cur.dir}
    BY <1>1, <1>3, <2>1, <2>2, <2>3
  <2> QED BY <1>4, <2>1, <2>3, <2>4, <2>5
<1>7. Awake(z) /\ OnDir(z, Dirs)
  BY <1>1, <1>3, <1>4 DEF TableInv, Awake, OnDir
<1> QED BY <1>1, <1>3, <1>4, <1>5, <1>6, <1>7 DEF Ended

\* Waking the parent leaves a table for the switch too.
LEMMA WakeParent ==
    ASSUME NEW z, NEW ds, Ended(z, ds), NEW p \in Tids, z[p].state = "Blocked",
           current_tid \in Tids, NEW th, th = Unblocked(z, p)
    PROVE  /\ Ended(th, ds) /\ th[p].state # "Blocked"
           /\ \A t \in Tids : t # p => th[t] = z[t]
<1>1. z \in [Tids -> Thread] /\ z[p] \in Thread /\ 0 \in Tids
  BY SchedulerAssumption DEF Ended, Handed, Tids
<1>2. PICK r : r = [z[p] EXCEPT !.state = "Ready", !.channel = NoChannel]
  OBVIOUS
<1>3. r \in Thread /\ r.state = "Ready" /\ r.dir = z[p].dir /\ th = [z EXCEPT ![p] = r]
  BY <1>1, <1>2 DEF Unblocked, Thread, States
<1>4. th \in [Tids -> Thread] /\ th[p] = r /\ \A t \in Tids \ {p} : th[t] = z[t]
  BY <1>1, <1>3
<1>5. \A t \in Tids : th[t].dir = z[t].dir
  BY <1>3, <1>4
<1>6. HasDirectory(th)
  BY <1>1, <1>3, <1>4, <1>5 DEF Ended, Handed, HasDirectory, Living
<1>7. Handed(th)
  BY <1>1, <1>3, <1>4, <1>6 DEF Ended, Handed
<1>8. Owned(th, ds)
  <2>1. \A t \in Tids : th[t].state \in Bare => z[t].state \in Bare
    BY <1>3, <1>4 DEF Bare
  <2> QED BY <1>5, <2>1, OwnedKept DEF Ended
<1>9. Awake(th) /\ OnDir(th, Dirs)
  BY <1>1, <1>3, <1>4, <1>5 DEF Ended, Awake, OnDir
<1> QED BY <1>3, <1>4, <1>7, <1>8, <1>9 DEF Ended

\* The switch at the end of sys_exit.
LEMMA LeaveKeeps ==
    ASSUME ProcInv, NEW th, Ended(th, dirs \ {cur.dir}), Dispatch(th, dirs \ {cur.dir}),
           UNCHANGED <<aging_counter, parent_tid, in_wait>>,
           th[current_tid].state = "Zombie" =>
             \A p \in Tids : p = parent_tid[current_tid]
               => ~(th[p].state = "Blocked" /\ th[p].channel = WaitChild)
    PROVE  ProcInv'
<1>1. TypeOK /\ current_tid \in Tids
  BY DEF ProcInv, TableInv, IInv, TypeOK
<1>2. PICK ds \in SUBSET Dirs : ds = dirs \ {cur.dir}
  BY <1>1 DEF TypeOK
<1>3. Ended(th, ds) /\ Dispatch(th, ds) /\ aging_counter' \in 0..(AgingInterval - 1)
  BY <1>1, <1>2 DEF TypeOK
<1>4. IInv'
  BY <1>1, <1>3, DispatchInv DEF Ended
<1>5. Owned(threads', dirs')
  BY <1>1, <1>3, DispatchOwned DEF Ended
<1>6. Undisturbed(th) /\ Awake(threads')
  BY <1>1, <1>3, DispatchUndisturbed DEF Ended
<1>7. OnDir(threads, Dirs)'
  BY <1>1, <1>3, DispatchOnDir DEF Ended
<1>8. ASSUME NEW p \in Tids, NEW t \in Tids, t # 0, parent_tid'[t] = p,
             threads'[p].state = "Blocked", threads'[p].channel = WaitChild
      PROVE  threads'[t].state # "Zombie"
  <2> SUFFICES ASSUME threads'[t].state = "Zombie" PROVE FALSE
    OBVIOUS
  <2>1. th[t].state = "Zombie" /\ th[p].state = "Blocked" /\ th[p].channel = WaitChild
    BY <1>6, <1>8 DEF Undisturbed
  <2>2. threads[p].state = "Blocked" /\ threads[p].channel = WaitChild
    BY <1>3, <2>1 DEF Ended
  <2>3. parent_tid[t] = p
    BY <1>8
  <2>4. t # current_tid
    BY <2>1, <2>3
  <2>5. threads[t].state = "Zombie"
    BY <1>3, <2>1, <2>4 DEF Ended
  <2> QED BY <1>8, <2>2, <2>3, <2>5, Unseen DEF ProcInv
<1>9. NoMissedExit'
  BY <1>8, UnseenNext
<1> QED BY <1>4, <1>5, <1>6, <1>7, <1>9 DEF ProcInv, TableInv

\* sys_exit, with a parent to tell and without.
LEMMA ExitKeeps ==
    ASSUME ProcInv, sys_exit
    PROVE  ProcInv'
<1>1. /\ InUserMode /\ threads \in [Tids -> Thread] /\ current_tid \in Tids
      /\ threads[current_tid] = cur /\ cur \in Thread
      /\ UNCHANGED <<aging_counter, parent_tid, in_wait>>
  BY DEF sys_exit, ProcInv, TableInv, IInv, TypeOK, cur
<1> DEFINE left == [threads EXCEPT ![current_tid].dir = KernelDir]
           become(q) == [threads EXCEPT ![current_tid] = [cur EXCEPT !.dir = KernelDir, !.state = q]]
<1>2. PICK p : p = parent_tid[current_tid]
  OBVIOUS
<1>3. /\ [left EXCEPT ![current_tid].state = "Zombie"] = become("Zombie")
      /\ [left EXCEPT ![current_tid].state = "Terminated"] = become("Terminated")
  BY <1>1
<1>4. Dispatch(IF p \in Tids /\ left[p].state # "Unused"
               THEN ZombieAndNotify(left, p)
               ELSE become("Terminated"), dirs \ {cur.dir})
  BY <1>2, <1>3 DEF sys_exit
<1>5. CASE p \in Tids /\ left[p].state # "Unused"
  <2>1. PICK z : z = become("Zombie")
    OBVIOUS
  <2>2. Ended(z, dirs \ {cur.dir}) /\ z[current_tid].state = "Zombie"
    BY <1>1, <2>1, LeaveTable
  <2>3. ZombieAndNotify(left, p)
          = IF z[p].state = "Blocked" /\ z[p].channel = WaitChild THEN Unblocked(z, p) ELSE z
    <3>1. [left EXCEPT ![current_tid].state = "Zombie"] = z
      BY <1>3, <2>1
    <3> HIDE DEF left
    <3> QED BY <3>1 DEF ZombieAndNotify
  <2> HIDE DEF left, become
  <2>4. CASE z[p].state = "Blocked" /\ z[p].channel = WaitChild
    <3>1. PICK th : th = Unblocked(z, p)
      OBVIOUS
    <3>2. PICK ds : ds = dirs \ {cur.dir}
      OBVIOUS
    <3>3. Ended(th, ds) /\ th[p].state # "Blocked"
      BY <1>1, <1>5, <2>2, <2>4, <3>1, <3>2, WakeParent
    <3>4. Dispatch(th, dirs \ {cur.dir})
      BY <1>4, <1>5, <2>3, <2>4, <3>1
    <3> QED BY <1>1, <1>2, <3>2, <3>3, <3>4, LeaveKeeps
  <2>5. CASE ~(z[p].state = "Blocked" /\ z[p].channel = WaitChild)
    <3>1. Dispatch(z, dirs \ {cur.dir})
      BY <1>4, <1>5, <2>3, <2>5
    <3> QED BY <1>1, <1>2, <2>2, <2>5, <3>1, LeaveKeeps
  <2> QED BY <2>4, <2>5
<1>6. CASE ~(p \in Tids /\ left[p].state # "Unused")
  <2>1. PICK z : z = become("Terminated")
    OBVIOUS
  <2>2. Ended(z, dirs \ {cur.dir}) /\ z[current_tid].state = "Terminated"
    BY <1>1, <2>1, LeaveTable
  <2>3. Dispatch(z, dirs \ {cur.dir})
    BY <1>4, <1>6, <2>1
  <2> HIDE DEF left, become
  <2> QED BY <1>1, <2>2, <2>3, LeaveKeeps
<1> QED BY <1>5, <1>6

-----------------------------------------------------------------------------
\* Every step of a process or of the kernel keeps the invariant.
LEMMA ProcKeeps == ProcInv /\ [ProcNext]_procVars => ProcInv'
<1> SUFFICES ASSUME ProcInv, [ProcNext]_procVars PROVE ProcInv'
  OBVIOUS
<1>1. ASSUME [Unblocking]_schedVars, UNCHANGED <<parent_tid, in_wait>> PROVE ProcInv'
  <2>1. in_wait' \subseteq in_wait /\ parent_tid' = parent_tid
        /\ parent_tid' \in [Tids -> Tids \cup {NoParent}]
    BY <1>1 DEF ProcInv
  <2> QED BY <1>1, <2>1, QuietKeeps
<1>2. CASE proc_timer
  BY <1>1, <1>2 DEF proc_timer, Unblocking
<1>3. CASE proc_create
  BY <1>3, CreateKeeps
<1>4. CASE proc_load
  BY <1>1, <1>4 DEF proc_load, Unblocking
<1>5. CASE proc_return
  BY <1>1, <1>5 DEF proc_return, Unblocking
<1>6. CASE proc_fault
  BY <1>1, <1>6 DEF proc_fault, Unblocking
<1>7. ASSUME NEW t \in KillTargets, proc_kill(t) PROVE ProcInv'
  BY <1>1, <1>7 DEF proc_kill, Unblocking
<1>8. CASE sys_fork
  BY <1>8, ForkKeeps
<1>9. CASE sys_exec
  BY <1>9, ExecKeeps
<1>10. CASE sys_exit
  BY <1>10, ExitKeeps
<1>11. CASE sys_wait
  BY <1>11, WaitKeeps DEF sys_wait, InUserMode
<1>12. CASE sys_wait_resume
  <2>1. Working
    BY <1>12 DEF sys_wait_resume, Working, ProcInv
  <2> QED BY <1>12, <2>1, WaitKeeps DEF sys_wait_resume
<1>13. CASE UNCHANGED procVars
  BY <1>1, <1>13 DEF procVars
<1> QED BY <1>2, <1>3, <1>4, <1>5, <1>6, <1>7, <1>8, <1>9, <1>10, <1>11, <1>12, <1>13
        DEF ProcNext

-----------------------------------------------------------------------------
(* Theorems *)

\* The inductive invariant holds in every reachable state of the process model.
THEOREM ProcInvariance == ProcSpec => []ProcInv
  BY ProcStart, ProcKeeps, PTL DEF ProcSpec

\* For any number of threads: sys_exit, which looks whether the parent is blocked
\* in sys_wait at the moment it leaves a Zombie, never leaves one that a blocked
\* parent does not know of, whichever slots were reused in between.
THEOREM ExitsAreSeen == ProcSpec => []NoMissedExit
<1>1. ProcInv => NoMissedExit
  BY DEF ProcInv
<1> QED BY <1>1, ProcInvariance, PTL

\* For any number of threads and directories: through fork, exec, exit, wait,
\* faults and kills, the process on the CPU runs on the page directory its slot
\* names, which is allocated and shared with no other slot.
THEOREM OwnSpaces == ProcSpec => []ProcessRunsInOwnSpace
<1>1. ProcInv => ProcessRunsInOwnSpace
  <2> SUFFICES ASSUME ProcInv PROVE ProcessRunsInOwnSpace
    OBVIOUS
  <2>1. DirectoriesOwned /\ OneRunning
    BY DEF ProcInv, TableInv, IInv, Owned, Bare, DirectoriesOwned
  <2>2. current_tid \in Tids /\ KernelDir \notin Dirs /\ NoDir \notin Dirs
    BY SchedulerAssumption DEF ProcInv, TableInv, IInv, TypeOK, KernelDir, NoDir, Dirs
  <2>3. IsProcess => cur.dir \in dirs
    BY <2>2 DEF ProcInv, TableInv, Owned, IsProcess, cur
  <2>4. IsProcess => cr3 = cur.dir
    BY DEF ProcInv, TableInv, OnDir, IsProcess, cur
  <2> QED BY <2>1, <2>3, <2>4 DEF ProcessRunsInOwnSpace
<1> QED BY <1>1, ProcInvariance, PTL
=============================================================================
