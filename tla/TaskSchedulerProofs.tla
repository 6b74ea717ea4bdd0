------------------------- MODULE TaskSchedulerProofs -------------------------
(***************************************************************************)
(* Proofs about TaskScheduler, for any number of threads, any quantum, any *)
(* aging interval, any priorities and any set of kill targets.             *)
(***************************************************************************)
EXTENDS TaskScheduler, WellFoundedInduction, TLAPS

-----------------------------------------------------------------------------
(* The table seen as a whole *)

\* The states in which a thread will use its page directory again.
Living == {"Ready", "Running", "Blocked", "Sleeping"}

\* A thread that will run has a page directory, and thread 0 the kernel's.
HasDirectory(th) ==
    /\ th[0].dir = KernelDir
    /\ \A t \in Tids : th[t].state \in Living => th[t].dir # NoDir

\* The inductive invariant: TypeOK and OneRunning need each other, and the
\* directories of the threads that are not running.
IInv == TypeOK /\ OneRunning /\ HasDirectory(threads)

\* The table a handler passes to Dispatch: nobody runs.
Handed(th) ==
    /\ th \in [Tids -> Thread]
    /\ HasDirectory(th)
    /\ \A t \in Tids : th[t].state # "Running"
    /\ current_tid = 0 => th[0].state \in {"Ready", "Terminated"}

\* The table between two handlers: the current thread runs, or has ended.
Ongoing(th) ==
    /\ th \in [Tids -> Thread]
    /\ HasDirectory(th)
    /\ th[current_tid].state \in {"Running", "Terminated"}
    /\ \A t \in Tids \ {current_tid} : th[t].state # "Running"

\* DEFAULT_QUANTUM is a quantum a thread may have left.
LEMMA FullQuantum == Quantum \in 1..Quantum
  BY SchedulerAssumption

-----------------------------------------------------------------------------
(* pick_next_thread *)

\* Every nonempty set of natural numbers has a smallest element.
LEMMA Smallest ==
    ASSUME NEW S \in SUBSET Nat, S # {}
    PROVE  \E x \in S : \A y \in S : x <= y
<1>1. \E x \in S : \A y \in S : ~(<<y, x>> \in OpToRel(<, Nat))
  BY NatLessThanWellFounded, WFMin
<1>2. \A x, y \in S : y < x => <<y, x>> \in OpToRel(<, Nat)
  BY DEF OpToRel
<1>3. \E x \in S : \A y \in S : ~(y < x)
  BY <1>1, <1>2, Zenon
<1> QED BY <1>3

\* The search of pick_next_thread ends with one of its candidates, or with
\* thread 0 when it has none: the CHOOSE of Best is never over an empty set.
LEMMA BestIsCandidate ==
    ASSUME NEW th \in [Tids -> Thread], Candidates(th) # {}
    PROVE  Best(th) \in Candidates(th)
<1> DEFINE C == Candidates(th)
           P == {th[t].priority : t \in C}
<1>1. C \subseteq Tids /\ C # {}
  BY DEF Candidates
<1>2. P \in SUBSET Nat /\ P # {}
  BY <1>1, SchedulerAssumption DEF Thread
<1>3. PICK p \in P : \A q \in P : p <= q
  BY <1>2, Smallest
<1> DEFINE M == {t \in C : th[t].priority = p}
<1>4. M \in SUBSET Nat /\ M # {}
  BY <1>1, <1>3, SchedulerAssumption DEF Tids
<1>5. PICK t \in M : \A u \in M : t <= u
  BY <1>4, Smallest
<1>6. \A u \in C : th[t].priority <= th[u].priority
  BY <1>3, <1>5
<1>7. \A u \in C : \/ th[t].priority < th[u].priority
                   \/ th[t].priority = th[u].priority /\ t <= u
  <2> SUFFICES ASSUME NEW u \in C, ~(th[t].priority < th[u].priority)
               PROVE  th[t].priority = th[u].priority /\ t <= u
    OBVIOUS
  <2>1. th[t].priority \in Int /\ th[u].priority \in Int
    BY <1>1, <1>5, SchedulerAssumption DEF Thread
  <2>2. th[t].priority = th[u].priority
    BY <1>6, <2>1
  <2> QED BY <1>5, <2>2
<1> QED BY <1>1, <1>5, <1>7 DEF Best

\* Whom pick_next_thread returns.
LEMMA PickNext ==
    ASSUME NEW th \in [Tids -> Thread], current_tid \in Tids,
           th[current_tid].state # "Running"
    PROVE  \/ pick_next_thread(th) = 0
           \/ pick_next_thread(th) \in Candidates(th)
<1>1. pick_next_thread(th) = Best(th)
  BY DEF pick_next_thread
<1>2. CASE Candidates(th) = {}
  BY <1>1, <1>2 DEF Best
<1>3. CASE Candidates(th) # {}
  BY <1>1, <1>3, BestIsCandidate
<1> QED BY <1>2, <1>3

\* Freeing the dead and waking the sleepers keeps the table well formed and wakes
\* nobody to Running.
LEMMA SweepHanded ==
    ASSUME NEW th, Handed(th), current_tid \in Tids
    PROVE  Handed(Sweep(th))
<1> DEFINE s == Sweep(th)
<1>1. \A t \in Tids : th[t] \in Thread
  BY DEF Handed
<1>2. \A t \in Tids :
        \/ s[t] = th[t]
        \/ t \in Dead(th) /\ s[t] = Cleaned(th[t])
        \/ th[t].state = "Sleeping" /\ s[t] = [th[t] EXCEPT !.state = "Ready", !.channel = NoChannel]
  BY DEF Sweep
<1>3. ASSUME NEW t \in Tids PROVE s[t] \in Thread
  <2>1. \A r \in Thread : Cleaned(r) \in Thread
    BY DEF Cleaned, Thread, States
  <2>2. \A r \in Thread : [r EXCEPT !.state = "Ready", !.channel = NoChannel] \in Thread
    BY DEF Thread, States
  <2>3. CASE s[t] = th[t]
    BY <1>1, <2>3
  <2>4. CASE s[t] = Cleaned(th[t])
    BY <1>1, <2>1, <2>4
  <2>5. CASE s[t] = [th[t] EXCEPT !.state = "Ready", !.channel = NoChannel]
    BY <1>1, <2>2, <2>5
  <2> QED BY <1>2, <2>3, <2>4, <2>5
<1>4. s \in [Tids -> Thread]
  BY <1>3 DEF Sweep
<1>5. \A t \in Tids : s[t].state # "Running"
  BY <1>1, <1>2 DEF Handed, Cleaned, Thread
<1>6. HasDirectory(s)
  <2>1. \A r \in Thread : /\ Cleaned(r).state = "Unused"
                          /\ r.dir = KernelDir => Cleaned(r).dir = KernelDir
    BY DEF Cleaned, Thread, KernelDir, NoDir
  <2>2. ASSUME NEW t \in Tids
        PROVE  /\ th[t].dir = KernelDir => s[t].dir = KernelDir
               /\ s[t].state \in Living => th[t].state \in Living /\ s[t].dir = th[t].dir
    <3>1. CASE s[t] = th[t]
      BY <3>1
    <3>2. CASE s[t] = Cleaned(th[t])
      BY <1>1, <2>1, <3>2 DEF Living
    <3>3. CASE /\ th[t].state = "Sleeping"
               /\ s[t] = [th[t] EXCEPT !.state = "Ready", !.channel = NoChannel]
      BY <1>1, <3>3 DEF Living, Thread
    <3> QED BY <1>2, <3>1, <3>2, <3>3
  <2>3. 0 \in Tids
    BY SchedulerAssumption DEF Tids
  <2> QED BY <2>2, <2>3 DEF HasDirectory, Handed
<1>7. current_tid = 0 => s[0].state \in {"Ready", "Terminated"}
  BY <1>1, <1>2 DEF Handed, Dead
<1> QED BY <1>4, <1>5, <1>6, <1>7 DEF Handed

-----------------------------------------------------------------------------
(* Handlers that give up the CPU *)

\* Whatever the handler did, after the switch one thread runs.
LEMMA DispatchInv ==
    ASSUME TypeOK, NEW th, NEW ds \in SUBSET Dirs, Handed(th), Dispatch(th, ds),
           aging_counter' \in 0..(AgingInterval - 1)
    PROVE  IInv'
<1> DEFINE s == Sweep(th)
           n == pick_next_thread(s)
<1>1. Handed(s) /\ current_tid \in Tids
  BY SweepHanded DEF TypeOK
<1>2. n = 0 \/ n \in Candidates(s)
  BY <1>1, PickNext DEF Handed
<1>3. n \in Tids /\ (n # current_tid => s[n].dir # NoDir)
  BY <1>1, <1>2, SchedulerAssumption
     DEF Candidates, Handed, HasDirectory, Living, Tids, KernelDir, NoDir
<1>4. /\ current_tid' = n
      /\ threads' = IF n # current_tid \/ s[n].state = "Ready"
                    THEN [s EXCEPT ![n].state = "Running", ![n].quantum = Quantum]
                    ELSE s
      /\ cr3' = IF s[n].dir # s[current_tid].dir THEN s[n].dir ELSE cr3
      /\ dirs' = ds \ {th[t].dir : t \in Dead(th)}
  BY DEF Dispatch
<1>5. s \in [Tids -> Thread]
  BY <1>1 DEF Handed
<1>6. cr3' \in Dirs \cup {KernelDir}
  BY <1>3, <1>4, <1>5 DEF TypeOK, Thread
<1>7. CASE n # current_tid \/ s[n].state = "Ready"
  <2>1. threads' = [s EXCEPT ![n] = [s[n] EXCEPT !.state = "Running", !.quantum = Quantum]]
    BY <1>3, <1>4, <1>5, <1>7
  <2>2. [s[n] EXCEPT !.state = "Running", !.quantum = Quantum] \in Thread
    <3>1. \A r \in Thread : [r EXCEPT !.state = "Running", !.quantum = Quantum] \in Thread
      BY FullQuantum DEF Thread, States
    <3>2. s[n] \in Thread
      BY <1>3, <1>5
    <3> QED BY <3>1, <3>2
  <2>3. threads' \in [Tids -> Thread]
    BY <1>3, <1>5, <2>1, <2>2
  <2>4. /\ threads'[n].state = "Running" /\ threads'[n].dir = s[n].dir
        /\ \A t \in Tids \ {n} : threads'[t] = s[t]
    BY <1>3, <1>5, <2>1 DEF Thread
  <2>5. s[n].dir # NoDir
    BY <1>3, <1>5, <1>7, <1>1 DEF Handed, HasDirectory, Living
  <2>6. TypeOK'
    BY <1>3, <1>4, <1>5, <1>6, <2>3, <2>5 DEF TypeOK, Thread
  <2>7. OneRunning'
    BY <1>1, <1>4, <2>4 DEF OneRunning, cur, Handed
  <2>8. HasDirectory(threads)'
    <3>1. \A t \in Tids : threads'[t].dir = s[t].dir
      BY <2>4
    <3>2. \A t \in Tids : threads'[t].state \in Living => t = n \/ s[t].state \in Living
      BY <2>4
    <3>3. 0 \in Tids
      BY SchedulerAssumption DEF Tids
    <3> QED BY <1>1, <2>5, <3>1, <3>2, <3>3 DEF HasDirectory, Handed
  <2> QED BY <2>6, <2>7, <2>8 DEF IInv
<1>8. CASE n = current_tid /\ s[n].state # "Ready"
  <2>1. threads' = s /\ current_tid' = current_tid /\ cr3' = cr3
    BY <1>4, <1>8
  <2>2. s[n].state = "Terminated"
    BY <1>1, <1>2, <1>8 DEF Candidates, Handed
  <2>3. TypeOK'
    BY <1>3, <1>4, <1>5, <2>1 DEF TypeOK
  <2> QED BY <1>1, <1>5, <1>8, <2>1, <2>2, <2>3
          DEF IInv, OneRunning, cur, Handed, HasDirectory
<1> QED BY <1>7, <1>8

\* Taking the CPU from the current thread leaves a table for Dispatch.
LEMMA Preempted ==
    ASSUME NEW th, Ongoing(th), current_tid \in Tids,
           NEW r \in Thread, r.dir \in {th[current_tid].dir, KernelDir},
           r.dir # NoDir, r.state # "Running",
           current_tid = 0 => r.state \in {"Ready", "Terminated"}
    PROVE  Handed([th EXCEPT ![current_tid] = r])
<1> DEFINE s == [th EXCEPT ![current_tid] = r]
<1>1. /\ s \in [Tids -> Thread]
      /\ s[current_tid] = r
      /\ \A t \in Tids \ {current_tid} : s[t] = th[t]
  BY DEF Ongoing
<1>2. 0 \in Tids
  BY SchedulerAssumption DEF Tids
<1>3. HasDirectory(s)
  BY <1>1, <1>2 DEF HasDirectory, Ongoing
<1> QED BY <1>1, <1>2, <1>3 DEF Handed, Ongoing

\* Aging changes priorities only.
LEMMA AgedOngoing ==
    ASSUME NEW th, Ongoing(th), current_tid \in Tids
    PROVE  Ongoing(Aged(th)) /\ \A t \in Tids : Aged(th)[t].state = th[t].state
<1> DEFINE a == Aged(th)
<1>1. \A r \in Thread : r.priority > 1 =>
        /\ [r EXCEPT !.priority = @ - 1] \in Thread
        /\ [r EXCEPT !.priority = @ - 1].state = r.state
        /\ [r EXCEPT !.priority = @ - 1].dir = r.dir
  BY SchedulerAssumption DEF Thread
<1>2. ASSUME NEW t \in Tids
      PROVE  \/ a[t] = th[t]
             \/ th[t].priority > 1 /\ a[t] = [th[t] EXCEPT !.priority = @ - 1]
  BY DEF Aged
<1>3. \A t \in Tids : th[t] \in Thread
  BY DEF Ongoing
<1>4. \A t \in Tids : a[t] \in Thread /\ a[t].state = th[t].state /\ a[t].dir = th[t].dir
  BY <1>1, <1>2, <1>3
<1>5. a \in [Tids -> Thread] /\ 0 \in Tids
  BY <1>4, SchedulerAssumption DEF Aged, Tids
<1> QED BY <1>4, <1>5 DEF Ongoing, HasDirectory

\* schedule(), from any table the handlers call it with.
LEMMA ScheduleInv ==
    ASSUME TypeOK, NEW th0, Ongoing(th0), schedule(th0)
    PROVE  IInv'
<1> DEFINE aging == aging_counter + 1 >= AgingInterval
           running == th0[current_tid].state = "Running"
<1>1. PICK th \in {IF aging THEN Aged(th0) ELSE th0} :
        /\ aging_counter' = IF aging THEN 0 ELSE aging_counter + 1
        /\ IF running /\ ~QuantumUsedUp(th[current_tid])
           THEN /\ threads' = [th EXCEPT ![current_tid].quantum = @ - 1]
                /\ UNCHANGED <<current_tid, dirs, cr3>>
           ELSE Dispatch(IF running
                         THEN [th EXCEPT ![current_tid].state = "Ready",
                                         ![current_tid].quantum = Quantum]
                         ELSE th, dirs)
  BY DEF schedule
<1>2. current_tid \in Tids /\ th0 \in [Tids -> Thread] /\ dirs \in SUBSET Dirs
  BY DEF TypeOK, Ongoing
<1>3. aging_counter' \in 0..(AgingInterval - 1)
  BY <1>1, SchedulerAssumption DEF TypeOK
<1>4. Ongoing(th)
  BY <1>1, <1>2, AgedOngoing
<1>5. th \in [Tids -> Thread] /\ \A t \in Tids : th[t] \in Thread
  BY <1>4 DEF Ongoing
<1>6. th[current_tid].state = th0[current_tid].state
  BY <1>1, <1>2, AgedOngoing
<1>7. CASE running /\ ~QuantumUsedUp(th[current_tid])
  <2> DEFINE r == [th[current_tid] EXCEPT !.quantum = @ - 1]
  <2>1. threads' = [th EXCEPT ![current_tid] = r] /\ UNCHANGED <<current_tid, dirs, cr3>>
    BY <1>1, <1>7
  <2>2. th[current_tid] \in Thread /\ th[current_tid].quantum > 1
    BY <1>2, <1>5, <1>7, SchedulerAssumption DEF QuantumUsedUp, Thread
  <2>3. r \in Thread /\ r.state = "Running" /\ r.dir = th[current_tid].dir
    BY <1>6, <1>7, <2>2, SchedulerAssumption DEF Thread
  <2>4. /\ threads' \in [Tids -> Thread]
        /\ threads'[current_tid] = r
        /\ \A t \in Tids \ {current_tid} : threads'[t] = th[t]
    BY <1>2, <1>5, <2>1, <2>3
  <2>5. TypeOK'
    BY <1>3, <2>1, <2>4 DEF TypeOK
  <2>6. OneRunning'
    BY <1>4, <2>1, <2>3, <2>4 DEF OneRunning, cur, Ongoing
  <2>7. HasDirectory(threads)'
    <3>1. \A t \in Tids : threads'[t].dir = th[t].dir
      BY <2>3, <2>4
    <3>2. \A t \in Tids : threads'[t].state = th[t].state
      BY <1>6, <1>7, <2>3, <2>4
    <3>3. 0 \in Tids
      BY SchedulerAssumption DEF Tids
    <3> QED BY <1>4, <3>1, <3>2, <3>3 DEF HasDirectory, Ongoing
  <2> QED BY <2>5, <2>6, <2>7 DEF IInv
<1>8. CASE running /\ QuantumUsedUp(th[current_tid])
  <2> DEFINE r == [th[current_tid] EXCEPT !.state = "Ready", !.quantum = Quantum]
             s == [th EXCEPT ![current_tid] = r]
  <2>1. Dispatch(s, dirs)
    BY <1>1, <1>2, <1>5, <1>8
  <2>2. th[current_tid] \in Thread
    BY <1>2, <1>5
  <2>3. r \in Thread /\ r.state = "Ready" /\ r.dir = th[current_tid].dir
    BY <2>2, FullQuantum DEF Thread, States
  <2>4. r.dir # NoDir
    BY <1>2, <1>4, <1>6, <1>8, <2>3 DEF Ongoing, HasDirectory, Living
  <2>5. Handed(s)
    BY <1>2, <1>4, <2>3, <2>4, Preempted
  <2> QED BY <1>2, <1>3, <2>1, <2>5, DispatchInv
<1>9. CASE ~running
  <2>1. Dispatch(th, dirs)
    BY <1>1, <1>9
  <2>2. Handed(th)
    BY <1>2, <1>4, <1>6, <1>9 DEF Handed, Ongoing
  <2> QED BY <1>2, <1>3, <2>1, <2>2, DispatchInv
<1> QED BY <1>7, <1>8, <1>9

-----------------------------------------------------------------------------
(* The invariant *)

\* The state after thread_init satisfies the invariant.
LEMMA InitInv == Init => IInv
<1> SUFFICES ASSUME Init PROVE IInv
  OBVIOUS
<1>1. 0 \in Tids
  BY SchedulerAssumption DEF Tids
<1>2. /\ threads = [t \in Tids |->
                      [state |-> IF t = 0 THEN "Running" ELSE "Unused",
                       priority |-> IF t = 0 THEN BootPriority ELSE IdlePriority,
                       sleep_left |-> 0, channel |-> NoChannel, quantum |-> Quantum,
                       dir |-> IF t = 0 THEN KernelDir ELSE NoDir]]
      /\ current_tid = 0 /\ aging_counter = 0 /\ dirs = {} /\ cr3 = KernelDir
  BY DEF Init, thread_init
<1>3. threads \in [Tids -> Thread]
  BY <1>2, FullQuantum, SchedulerAssumption DEF Thread, States
<1>4. TypeOK
  BY <1>1, <1>2, <1>3, SchedulerAssumption DEF TypeOK
<1>5. OneRunning
  BY <1>1, <1>2 DEF OneRunning, cur
<1>6. HasDirectory(threads)
  BY <1>1, <1>2 DEF HasDirectory, Living, KernelDir, NoDir
<1> QED BY <1>4, <1>5, <1>6 DEF IInv

\* Between two handlers the table is as the lemmas about schedule want it.
LEMMA OngoingNow == IInv => Ongoing(threads)
  BY DEF IInv, TypeOK, OneRunning, Ongoing, cur

\* A handler that gives up the CPU with the current thread in a new state.
LEMMA GiveUp ==
    ASSUME IInv, Working, NEW r \in Thread, r.dir = cur.dir, r.state # "Running",
           Dispatch([threads EXCEPT ![current_tid] = r], dirs), UNCHANGED aging_counter
    PROVE  IInv'
<1>1. TypeOK /\ Ongoing(threads) /\ current_tid \in Tids /\ current_tid # 0
  BY OngoingNow DEF IInv, TypeOK, Working
<1>2. r.dir # NoDir
  BY <1>1 DEF Working, Executing, cur, Ongoing, HasDirectory, Living
<1>3. Handed([threads EXCEPT ![current_tid] = r])
  BY <1>1, <1>2, Preempted DEF cur
<1>4. PICK th : th = [threads EXCEPT ![current_tid] = r]
  OBVIOUS
<1>5. aging_counter' \in 0..(AgingInterval - 1) /\ dirs \in SUBSET Dirs
  BY <1>1 DEF TypeOK
<1> QED BY <1>1, <1>3, <1>4, <1>5, DispatchInv

\* A handler that changes one slot and goes on running the same thread.
LEMMA OneSlot ==
    ASSUME IInv, NEW t \in Tids, NEW r \in Thread,
           threads' = [threads EXCEPT ![t] = r],
           UNCHANGED <<current_tid, aging_counter>>,
           dirs' \subseteq Dirs,
           t = current_tid => r.state \in {"Running", "Terminated"},
           t # current_tid => r.state # "Running",
           r.state \in Living => r.dir # NoDir,
           t = 0 => r.dir = KernelDir,
           cr3' \in Dirs \cup {KernelDir}
    PROVE  IInv'
<1>1. /\ threads' \in [Tids -> Thread] /\ threads'[t] = r
      /\ \A u \in Tids \ {t} : threads'[u] = threads[u]
  BY DEF IInv, TypeOK
<1>2. TypeOK'
  BY <1>1 DEF IInv, TypeOK
<1>3. OneRunning'
  BY <1>1 DEF IInv, TypeOK, OneRunning, cur
<1>4. HasDirectory(threads)'
  <2>1. 0 \in Tids
    BY SchedulerAssumption DEF Tids
  <2> QED BY <1>1, <2>1 DEF IInv, HasDirectory
<1> QED BY <1>2, <1>3, <1>4 DEF IInv

\* Every handler preserves the invariant.
LEMMA NextInv == IInv /\ [Next]_schedVars => IInv'
<1> SUFFICES ASSUME IInv, [Next]_schedVars PROVE IInv'
  OBVIOUS
<1>1. /\ TypeOK /\ Ongoing(threads) /\ current_tid \in Tids /\ cur \in Thread
      /\ threads \in [Tids -> Thread]
  BY OngoingNow DEF IInv, TypeOK, cur
<1>2. CASE TimerIrq
  <2> DEFINE tick(r) == [r EXCEPT !.sleep_left = IF @ > 0 THEN @ - 1 ELSE 0]
             th == [t \in Tids |-> tick(threads[t])]
  <2>1. \A r \in Thread : tick(r) \in Thread /\ tick(r).state = r.state /\ tick(r).dir = r.dir
    BY DEF Thread
  <2>2. \A t \in Tids : th[t] \in Thread /\ th[t].state = threads[t].state
                        /\ th[t].dir = threads[t].dir
    BY <1>1, <2>1
  <2>3. Ongoing(th)
    <3>1. th \in [Tids -> Thread] /\ 0 \in Tids
      BY <2>2, SchedulerAssumption DEF Tids
    <3> HIDE DEF th
    <3> QED BY <1>1, <2>2, <3>1 DEF Ongoing, HasDirectory
  <2>4. schedule(th)
    BY <1>2 DEF TimerIrq
  <2> HIDE DEF th
  <2>5. PICK x : x = th
    OBVIOUS
  <2> QED BY <1>1, <2>3, <2>4, <2>5, ScheduleInv
<1>3. CASE thread_yield
  <2>1. PICK x : x = threads
    OBVIOUS
  <2> QED BY <1>1, <1>3, <2>1, ScheduleInv DEF thread_yield
<1>4. ASSUME NEW p \in Priorities, thread_create(p) PROVE IInv'
  <2> DEFINE r == NewThread(p, KernelDir)
  <2>1. r \in Thread /\ r.state = "Ready" /\ r.dir = KernelDir
    BY FullQuantum, SchedulerAssumption DEF NewThread, Thread, States
  <2>2. FirstFree \in FreeSlots
    <3>1. FreeSlots \in SUBSET Nat /\ FreeSlots # {}
      BY <1>4, SchedulerAssumption DEF thread_create, FreeSlots, Tids
    <3>2. PICK S \in SUBSET Nat : S = FreeSlots
      BY <3>1
    <3>3. \E t \in FreeSlots : \A u \in FreeSlots : t <= u
      BY <3>1, <3>2, Smallest
    <3> QED BY <3>3 DEF FirstFree
  <2>3. FirstFree \in Tids /\ FirstFree # 0 /\ FirstFree # current_tid
    BY <1>4, <2>2 DEF FreeSlots, thread_create, Executing, cur
  <2>4. /\ threads' = [threads EXCEPT ![FirstFree] = r]
        /\ UNCHANGED <<current_tid, aging_counter, dirs, cr3>>
        /\ dirs \subseteq Dirs /\ cr3 \in Dirs \cup {KernelDir} /\ KernelDir # NoDir
    BY <1>1, <1>4 DEF thread_create, TypeOK, KernelDir, NoDir
  <2> HIDE DEF r
  <2> QED BY <2>1, <2>3, <2>4, OneSlot
<1>5. CASE elf_thread_entry
  <2> DEFINE r == [cur EXCEPT !.dir = NewDir]
  <2>1. NewDir \in Dirs
    <3>1. FreeDirs \in SUBSET Nat /\ FreeDirs # {}
      BY <1>5, SchedulerAssumption DEF elf_thread_entry, FreeDirs, Dirs
    <3>2. PICK S \in SUBSET Nat : S = FreeDirs
      BY <3>1
    <3>3. \E d \in FreeDirs : \A e \in FreeDirs : d <= e
      BY <3>1, <3>2, Smallest
    <3> QED BY <3>3 DEF NewDir, FreeDirs
  <2>2. r \in Thread /\ r.state = "Running" /\ r.dir = NewDir /\ NewDir # NoDir
    BY <1>1, <1>5, <2>1, SchedulerAssumption
       DEF elf_thread_entry, Working, Executing, Thread, Dirs, NoDir
  <2>3. threads' = [threads EXCEPT ![current_tid] = r]
    BY <1>1, <1>5 DEF elf_thread_entry, cur
  <2>4. dirs' \subseteq Dirs /\ cr3' = NewDir /\ current_tid # 0
        /\ UNCHANGED <<current_tid, aging_counter>>
    BY <1>1, <1>5, <2>1 DEF elf_thread_entry, TypeOK, Working
  <2> QED BY <1>1, <2>1, <2>2, <2>3, <2>4, OneSlot
<1>6. CASE thread_exit_wrapper
  <2> DEFINE r == [cur EXCEPT !.state = "Terminated"]
  <2>1. r \in Thread /\ r.state = "Terminated" /\ r.dir = cur.dir
    BY <1>1 DEF Thread, States
  <2>2. threads' = [threads EXCEPT ![current_tid] = r]
    BY <1>1, <1>6 DEF thread_exit_wrapper, cur
  <2>3. /\ UNCHANGED <<current_tid, aging_counter, dirs, cr3>> /\ current_tid # 0
        /\ dirs \subseteq Dirs /\ cr3 \in Dirs \cup {KernelDir}
    BY <1>1, <1>6 DEF thread_exit_wrapper, Working, TypeOK, IInv
  <2> QED BY <1>1, <2>1, <2>2, <2>3, OneSlot DEF Living
<1>7. ASSUME NEW c \in Channels, Working, block_current(c) PROVE IInv'
  <2> DEFINE r == [cur EXCEPT !.state = "Blocked", !.channel = c]
  <2>1. r \in Thread /\ r.state = "Blocked" /\ r.dir = cur.dir
    BY <1>1 DEF Thread, States
  <2>2. [threads EXCEPT ![current_tid].state = "Blocked", ![current_tid].channel = c]
          = [threads EXCEPT ![current_tid] = r]
    BY <1>1 DEF cur
  <2> QED BY <1>7, <2>1, <2>2, GiveUp DEF block_current
<1>8. ASSUME NEW t \in Tids, unblock(t) PROVE IInv'
  <2>1. CASE threads[t].state # "Blocked"
    BY <1>8, <2>1 DEF unblock, Unblocked, IInv, TypeOK, OneRunning, cur, HasDirectory
  <2>2. CASE threads[t].state = "Blocked"
    <3> DEFINE r == [threads[t] EXCEPT !.state = "Ready", !.channel = NoChannel]
    <3>1. r \in Thread /\ r.state = "Ready" /\ r.dir = threads[t].dir
      BY <1>1 DEF Thread, States
    <3>2. threads' = [threads EXCEPT ![t] = r]
      BY <1>1, <1>8, <2>2 DEF unblock, Unblocked
    <3>3. /\ UNCHANGED <<current_tid, aging_counter, dirs, cr3>> /\ t # current_tid
          /\ dirs \subseteq Dirs /\ cr3 \in Dirs \cup {KernelDir}
          /\ threads[t].dir # NoDir /\ threads[0].dir = KernelDir
      BY <1>1, <1>8, <2>2 DEF unblock, TypeOK, Ongoing, HasDirectory, Living
    <3> QED BY <1>1, <3>1, <3>2, <3>3, OneSlot
  <2> QED BY <2>1, <2>2
<1>9. ASSUME NEW k \in SleepTicks, sleep_current(k) PROVE IInv'
  <2> DEFINE r == [cur EXCEPT !.state = "Sleeping", !.sleep_left = IF k = 0 THEN 1 ELSE k]
  <2>1. r \in Thread /\ r.state = "Sleeping" /\ r.dir = cur.dir
    BY <1>1, SchedulerAssumption DEF Thread, States
  <2>2. [threads EXCEPT ![current_tid].state = "Sleeping",
                        ![current_tid].sleep_left = IF k = 0 THEN 1 ELSE k]
          = [threads EXCEPT ![current_tid] = r]
    BY <1>1 DEF cur
  <2> QED BY <1>9, <2>1, <2>2, GiveUp DEF sleep_current
<1>10. CASE terminate_current
  <2> DEFINE r == [cur EXCEPT !.state = "Terminated"]
  <2>1. r \in Thread /\ r.state = "Terminated" /\ r.dir = cur.dir
    BY <1>1 DEF Thread, States
  <2>2. [threads EXCEPT ![current_tid].state = "Terminated"]
          = [threads EXCEPT ![current_tid] = r]
    BY <1>1 DEF cur
  <2> QED BY <1>10, <2>1, <2>2, GiveUp DEF terminate_current
<1>11. ASSUME NEW t \in KillTargets, thread_terminate(t) PROVE IInv'
  <2> DEFINE r == [threads[t] EXCEPT !.state = "Terminated"]
             s == [threads EXCEPT ![t] = r]
  <2>1. t \in Tids /\ threads[t] \in Thread
    BY <1>1, SchedulerAssumption DEF Tids
  <2>2. r \in Thread /\ r.state = "Terminated" /\ r.dir = threads[t].dir
    BY <2>1 DEF Thread, States
  <2>3. [threads EXCEPT ![t].state = "Terminated"] = s
    BY <1>1, <2>1
  <2>4. CASE t # current_tid
    <3>1. threads' = s /\ UNCHANGED <<current_tid, aging_counter, dirs, cr3>>
      BY <1>11, <2>3, <2>4 DEF thread_terminate
    <3>2. /\ dirs \subseteq Dirs /\ cr3 \in Dirs \cup {KernelDir}
          /\ threads[0].dir = KernelDir
      BY <1>1 DEF TypeOK, Ongoing, HasDirectory
    <3> QED BY <2>1, <2>2, <2>4, <3>1, <3>2, OneSlot DEF Living
  <2>5. CASE t = current_tid
    <3>1. schedule(s)
      BY <1>11, <2>3, <2>5 DEF thread_terminate
    <3>2. /\ s \in [Tids -> Thread] /\ s[t] = r
          /\ \A u \in Tids \ {t} : s[u] = threads[u]
      BY <1>1, <2>1, <2>2
    <3>3. Ongoing(s)
      BY <1>1, <2>2, <2>5, <3>2, SchedulerAssumption
         DEF Ongoing, HasDirectory, Living, Tids
    <3> HIDE DEF s
    <3>4. PICK x : x = s
      OBVIOUS
    <3> QED BY <1>1, <3>1, <3>3, <3>4, ScheduleInv
  <2> QED BY <2>4, <2>5
<1>12. CASE UNCHANGED schedVars
  BY <1>12 DEF schedVars, IInv, TypeOK, OneRunning, cur, HasDirectory
<1> QED BY <1>2, <1>3, <1>4, <1>5, <1>6, <1>7, <1>8, <1>9, <1>10, <1>11, <1>12 DEF Next

-----------------------------------------------------------------------------
(* Terminated threads *)

\* The step frees the terminated threads of th or leaves them terminated.
StayDead(th) ==
    \A t \in Tids : th[t].state = "Terminated" => threads'[t].state \in {"Terminated", "Unused"}

\* Thread 0, to which pick_next_thread falls back without looking at its state,
\* has not been ended.
IdleAlive == threads[0].state # "Terminated"

\* A switch frees or keeps the terminated: the next thread is another.
LEMMA DispatchDead ==
    ASSUME TypeOK, NEW th, NEW ds, Handed(th), Dispatch(th, ds),
           th[0].state # "Terminated"
    PROVE  StayDead(th) /\ IdleAlive'
<1> DEFINE s == Sweep(th)
           n == pick_next_thread(s)
<1>1. Handed(s) /\ current_tid \in Tids
  BY SweepHanded DEF TypeOK
<1>2. n = 0 \/ n \in Candidates(s)
  BY <1>1, PickNext DEF Handed
<1>3. 0 \in Tids /\ n \in Tids
  BY <1>2, SchedulerAssumption DEF Candidates, Tids
<1>4. threads' = IF n # current_tid \/ s[n].state = "Ready"
                 THEN [s EXCEPT ![n].state = "Running", ![n].quantum = Quantum] ELSE s
  BY DEF Dispatch
<1>5. \A t \in Tids :
        /\ th[t].state = "Terminated" => s[t].state \in {"Terminated", "Unused"}
        /\ th[t].state # "Terminated" => s[t].state # "Terminated"
  <2>1. \A r \in Thread : /\ Cleaned(r).state = "Unused"
                          /\ [r EXCEPT !.state = "Ready", !.channel = NoChannel].state = "Ready"
    BY DEF Cleaned, Thread
  <2>2. \A t \in Tids : th[t] \in Thread
    BY DEF Handed
  <2> QED BY <2>1, <2>2 DEF Sweep
<1>6. \A t \in Tids : \/ threads'[t].state = s[t].state
                      \/ t = n /\ threads'[t].state = "Running"
  BY <1>1, <1>3, <1>4 DEF Handed, Thread
<1>7. \A t \in Tids : th[t].state = "Terminated" => t # n
  BY <1>2, <1>5 DEF Candidates
<1> QED BY <1>3, <1>5, <1>6, <1>7 DEF StayDead, IdleAlive

\* The same for schedule().
LEMMA ScheduleDead ==
    ASSUME TypeOK, NEW th0, Ongoing(th0), schedule(th0), th0[0].state # "Terminated"
    PROVE  StayDead(th0) /\ IdleAlive'
<1> DEFINE aging == aging_counter + 1 >= AgingInterval
           running == th0[current_tid].state = "Running"
<1>1. PICK th \in {IF aging THEN Aged(th0) ELSE th0} :
        IF running /\ ~QuantumUsedUp(th[current_tid])
        THEN threads' = [th EXCEPT ![current_tid].quantum = @ - 1]
        ELSE Dispatch(IF running
                      THEN [th EXCEPT ![current_tid].state = "Ready",
                                      ![current_tid].quantum = Quantum]
                      ELSE th, dirs)
  BY DEF schedule
<1>2. current_tid \in Tids /\ 0 \in Tids
  BY SchedulerAssumption DEF TypeOK, Tids
<1>3. Ongoing(th) /\ \A t \in Tids : th[t].state = th0[t].state
  BY <1>1, <1>2, AgedOngoing
<1>4. th \in [Tids -> Thread] /\ \A t \in Tids : th[t] \in Thread
  BY <1>3 DEF Ongoing
<1>5. CASE running /\ ~QuantumUsedUp(th[current_tid])
  <2>1. \A t \in Tids : threads'[t].state = th[t].state
    BY <1>1, <1>2, <1>4, <1>5 DEF Thread
  <2> QED BY <1>2, <1>3, <2>1 DEF StayDead, IdleAlive
<1>6. CASE running /\ QuantumUsedUp(th[current_tid])
  <2> DEFINE r == [th[current_tid] EXCEPT !.state = "Ready", !.quantum = Quantum]
             s == [th EXCEPT ![current_tid] = r]
  <2>1. Dispatch(s, dirs)
    BY <1>1, <1>2, <1>4, <1>6
  <2>2. r \in Thread /\ r.state = "Ready" /\ r.dir = th[current_tid].dir
    BY <1>2, <1>4, FullQuantum DEF Thread, States
  <2>3. r.dir # NoDir
    BY <1>2, <1>3, <1>6, <2>2 DEF Ongoing, HasDirectory, Living
  <2>4. Handed(s)
    BY <1>2, <1>3, <2>2, <2>3, Preempted
  <2>5. \A t \in Tids : th0[t].state = "Terminated" <=> s[t].state = "Terminated"
    BY <1>2, <1>3, <1>4, <1>6, <2>2
  <2>6. StayDead(s) /\ IdleAlive'
    BY <1>2, <2>1, <2>4, <2>5, DispatchDead
  <2> QED BY <2>5, <2>6 DEF StayDead
<1>7. CASE ~running
  <2>1. Dispatch(th, dirs)
    BY <1>1, <1>7
  <2>2. Handed(th)
    BY <1>2, <1>3, <1>7 DEF Handed, Ongoing
  <2>3. StayDead(th) /\ IdleAlive'
    BY <1>2, <1>3, <2>1, <2>2, DispatchDead
  <2> QED BY <1>3, <2>3 DEF StayDead
<1> QED BY <1>5, <1>6, <1>7

\* A running thread that gives up the CPU in any other state.
LEMMA GiveUpDead ==
    ASSUME IInv, IdleAlive, Working, NEW r \in Thread, r.dir = cur.dir, r.state # "Running",
           Dispatch([threads EXCEPT ![current_tid] = r], dirs)
    PROVE  StayDead(threads) /\ IdleAlive'
<1>1. TypeOK /\ Ongoing(threads) /\ current_tid \in Tids /\ current_tid # 0
  BY OngoingNow DEF IInv, TypeOK, Working
<1>2. r.dir # NoDir
  BY <1>1 DEF Working, Executing, cur, Ongoing, HasDirectory, Living
<1>3. PICK th : th = [threads EXCEPT ![current_tid] = r]
  OBVIOUS
<1>4. Handed(th)
  BY <1>1, <1>2, <1>3, Preempted DEF cur
<1>5. 0 \in Tids /\ th[0] = threads[0]
      /\ \A t \in Tids : threads[t].state = "Terminated" => th[t].state = "Terminated"
  BY <1>1, <1>3, SchedulerAssumption DEF Ongoing, Working, Executing, cur, Tids
<1>6. StayDead(th) /\ IdleAlive'
  BY <1>1, <1>3, <1>4, <1>5, DispatchDead DEF IdleAlive
<1> QED BY <1>5, <1>6 DEF StayDead

\* A handler that changes one slot, which is not that of a terminated thread.
LEMMA OneSlotDead ==
    ASSUME IInv, IdleAlive, NEW t \in Tids, NEW r,
           threads' = [threads EXCEPT ![t] = r],
           threads[t].state = "Terminated" => r.state = "Terminated",
           t = 0 => r.state # "Terminated"
    PROVE  StayDead(threads) /\ IdleAlive'
<1>1. 0 \in Tids /\ threads'[t] = r /\ \A u \in Tids \ {t} : threads'[u] = threads[u]
  BY SchedulerAssumption DEF IInv, TypeOK, Tids
<1> QED BY <1>1 DEF StayDead, IdleAlive

\* No handler brings a terminated thread back, unless thread 0 can be killed.
LEMMA NextDead ==
    ASSUME 0 \notin KillTargets, IInv, IdleAlive, [Next]_schedVars
    PROVE  StayDead(threads) /\ IdleAlive'
<1>1. /\ TypeOK /\ Ongoing(threads) /\ current_tid \in Tids /\ cur \in Thread
      /\ threads \in [Tids -> Thread] /\ 0 \in Tids
  BY OngoingNow, SchedulerAssumption DEF IInv, TypeOK, cur, Tids
<1>2. CASE TimerIrq
  <2> DEFINE tick(r) == [r EXCEPT !.sleep_left = IF @ > 0 THEN @ - 1 ELSE 0]
             th == [t \in Tids |-> tick(threads[t])]
  <2>1. \A r \in Thread : tick(r) \in Thread /\ tick(r).state = r.state /\ tick(r).dir = r.dir
    BY DEF Thread
  <2>2. \A t \in Tids : th[t] \in Thread /\ th[t].state = threads[t].state
                        /\ th[t].dir = threads[t].dir
    BY <1>1, <2>1
  <2>3. th \in [Tids -> Thread]
    BY <2>2
  <2>4. schedule(th)
    BY <1>2 DEF TimerIrq
  <2> HIDE DEF th
  <2>5. Ongoing(th)
    BY <1>1, <2>2, <2>3 DEF Ongoing, HasDirectory
  <2>6. PICK x : x = th
    OBVIOUS
  <2>7. StayDead(x) /\ IdleAlive'
    BY <1>1, <2>2, <2>4, <2>5, <2>6, ScheduleDead DEF IdleAlive
  <2> QED BY <2>2, <2>6, <2>7 DEF StayDead
<1>3. CASE thread_yield
  <2>1. PICK x : x = threads
    OBVIOUS
  <2> QED BY <1>1, <1>3, <2>1, ScheduleDead DEF thread_yield, IdleAlive, StayDead
<1>4. ASSUME NEW p \in Priorities, thread_create(p) PROVE StayDead(threads) /\ IdleAlive'
  <2>1. FirstFree \in FreeSlots
    <3>1. FreeSlots \in SUBSET Nat /\ FreeSlots # {}
      BY <1>4, SchedulerAssumption DEF thread_create, FreeSlots, Tids
    <3>2. PICK S \in SUBSET Nat : S = FreeSlots
      BY <3>1
    <3>3. \E t \in FreeSlots : \A u \in FreeSlots : t <= u
      BY <3>1, <3>2, Smallest
    <3> QED BY <3>3 DEF FirstFree
  <2>2. FirstFree \in Tids /\ FirstFree # 0 /\ threads[FirstFree].state = "Unused"
    BY <2>1 DEF FreeSlots
  <2>3. threads' = [threads EXCEPT ![FirstFree] = NewThread(p, KernelDir)]
    BY <1>4 DEF thread_create
  <2> QED BY <2>2, <2>3, OneSlotDead
<1>5. CASE elf_thread_entry
  <2>1. threads' = [threads EXCEPT ![current_tid] = [cur EXCEPT !.dir = NewDir]]
    BY <1>1, <1>5 DEF elf_thread_entry, cur
  <2>2. threads[current_tid].state = "Running" /\ current_tid # 0
    BY <1>5 DEF elf_thread_entry, Working, Executing, cur
  <2> QED BY <1>1, <2>1, <2>2, OneSlotDead
<1>6. CASE thread_exit_wrapper
  <2>1. threads' = [threads EXCEPT ![current_tid] = [cur EXCEPT !.state = "Terminated"]]
    BY <1>1, <1>6 DEF thread_exit_wrapper, cur
  <2>2. threads[current_tid].state = "Running" /\ current_tid # 0
    BY <1>6 DEF thread_exit_wrapper, Working, Executing, cur
  <2> QED BY <1>1, <2>1, <2>2, OneSlotDead
<1>7. ASSUME NEW c \in Channels, Working, block_current(c)
      PROVE  StayDead(threads) /\ IdleAlive'
  <2> DEFINE r == [cur EXCEPT !.state = "Blocked", !.channel = c]
  <2>1. r \in Thread /\ r.state = "Blocked" /\ r.dir = cur.dir
    BY <1>1 DEF Thread, States
  <2>2. [threads EXCEPT ![current_tid].state = "Blocked", ![current_tid].channel = c]
          = [threads EXCEPT ![current_tid] = r]
    BY <1>1 DEF cur
  <2> QED BY <1>7, <2>1, <2>2, GiveUpDead DEF block_current
<1>8. ASSUME NEW t \in Tids, unblock(t) PROVE StayDead(threads) /\ IdleAlive'
  <2>1. \A u \in Tids : threads[u].state = "Terminated" <=> threads'[u].state = "Terminated"
    BY <1>1, <1>8 DEF unblock, Unblocked, Thread
  <2> QED BY <1>1, <2>1 DEF StayDead, IdleAlive
<1>9. ASSUME NEW k \in SleepTicks, sleep_current(k) PROVE StayDead(threads) /\ IdleAlive'
  <2> DEFINE r == [cur EXCEPT !.state = "Sleeping", !.sleep_left = IF k = 0 THEN 1 ELSE k]
  <2>1. r \in Thread /\ r.state = "Sleeping" /\ r.dir = cur.dir
    BY <1>1, SchedulerAssumption DEF Thread, States
  <2>2. [threads EXCEPT ![current_tid].state = "Sleeping",
                        ![current_tid].sleep_left = IF k = 0 THEN 1 ELSE k]
          = [threads EXCEPT ![current_tid] = r]
    BY <1>1 DEF cur
  <2> QED BY <1>9, <2>1, <2>2, GiveUpDead DEF sleep_current
<1>10. CASE terminate_current
  <2> DEFINE r == [cur EXCEPT !.state = "Terminated"]
  <2>1. r \in Thread /\ r.state = "Terminated" /\ r.dir = cur.dir
    BY <1>1 DEF Thread, States
  <2>2. [threads EXCEPT ![current_tid].state = "Terminated"]
          = [threads EXCEPT ![current_tid] = r]
    BY <1>1 DEF cur
  <2> QED BY <1>10, <2>1, <2>2, GiveUpDead DEF terminate_current
<1>11. ASSUME NEW t \in KillTargets, thread_terminate(t)
       PROVE  StayDead(threads) /\ IdleAlive'
  <2> DEFINE r == [threads[t] EXCEPT !.state = "Terminated"]
             s == [threads EXCEPT ![t] = r]
  <2>1. t \in Tids /\ t # 0 /\ threads[t] \in Thread
    BY <1>1, SchedulerAssumption DEF Tids
  <2>2. r \in Thread /\ r.state = "Terminated" /\ r.dir = threads[t].dir
    BY <2>1 DEF Thread, States
  <2>3. [threads EXCEPT ![t].state = "Terminated"] = s
    BY <1>1, <2>1
  <2>4. CASE t # current_tid
    <3>1. threads' = s
      BY <1>11, <2>3, <2>4 DEF thread_terminate
    <3> QED BY <2>1, <2>2, <3>1, OneSlotDead
  <2>5. CASE t = current_tid
    <3>1. schedule(s)
      BY <1>11, <2>3, <2>5 DEF thread_terminate
    <3>2. /\ s \in [Tids -> Thread] /\ s[t] = r
          /\ \A u \in Tids \ {t} : s[u] = threads[u]
      BY <1>1, <2>1, <2>2
    <3>3. Ongoing(s)
      BY <1>1, <2>2, <2>5, <3>2 DEF Ongoing, HasDirectory, Living
    <3> HIDE DEF s
    <3>4. PICK x : x = s
      OBVIOUS
    <3>5. StayDead(x) /\ IdleAlive'
      BY <1>1, <2>1, <3>1, <3>2, <3>3, <3>4, ScheduleDead DEF IdleAlive
    <3> QED BY <2>2, <3>2, <3>4, <3>5 DEF StayDead
  <2> QED BY <2>4, <2>5
<1>12. CASE UNCHANGED schedVars
  BY <1>12 DEF schedVars, StayDead, IdleAlive
<1> QED BY <1>2, <1>3, <1>4, <1>5, <1>6, <1>7, <1>8, <1>9, <1>10, <1>11, <1>12 DEF Next

-----------------------------------------------------------------------------
(* Directories *)

\* The states of a slot without a directory of its own.
Bare == {"Unused", "Zombie"}

\* The slots of th own the directories ds, each slot its own.
Owned(th, ds) ==
    /\ ds = {th[t].dir : t \in Tids} \ {KernelDir, NoDir}
    /\ \A t, u \in Tids : t # u /\ th[t].dir \in Dirs => th[t].dir # th[u].dir
    /\ \A t \in Tids : th[t].state \in Bare => th[t].dir \notin Dirs

\* A change that touches no directory and frees no slot.
LEMMA OwnedKept ==
    ASSUME NEW th, NEW s, NEW ds, Owned(th, ds),
           \A t \in Tids : s[t].dir = th[t].dir,
           \A t \in Tids : s[t].state \in Bare => th[t].state \in Bare
    PROVE  Owned(s, ds)
<1>1. {s[t].dir : t \in Tids} = {th[t].dir : t \in Tids}
  OBVIOUS
<1> QED BY <1>1 DEF Owned

\* Freeing the dead gives back exactly the directories they owned.
LEMMA SweepOwned ==
    ASSUME NEW th \in [Tids -> Thread], NEW ds, Owned(th, ds)
    PROVE  Owned(Sweep(th), ds \ {th[t].dir : t \in Dead(th)})
<1> DEFINE s == Sweep(th)
           given == {th[t].dir : t \in Dead(th)}
<1>1. \A t \in Tids : th[t] \in Thread
  OBVIOUS
<1>2. \A r \in Thread : /\ Cleaned(r).state = "Unused"
                        /\ Cleaned(r).dir \in {KernelDir, NoDir}
                        /\ [r EXCEPT !.state = "Ready", !.channel = NoChannel].dir = r.dir
                        /\ [r EXCEPT !.state = "Ready", !.channel = NoChannel].state = "Ready"
  BY DEF Cleaned, Thread
<1>3. ASSUME NEW t \in Tids
      PROVE  IF t \in Dead(th)
             THEN s[t].state = "Unused" /\ s[t].dir \in {KernelDir, NoDir}
             ELSE s[t].dir = th[t].dir /\ (s[t].state \in Bare => th[t].state \in Bare)
  BY <1>1, <1>2 DEF Sweep, Bare
<1>4. KernelDir \notin Dirs /\ NoDir \notin Dirs
  BY SchedulerAssumption DEF Dirs, KernelDir, NoDir
<1>5. \A t \in Tids : th[t].dir \in Dirs \cup {KernelDir, NoDir}
  BY <1>1 DEF Thread
<1>6. Dead(th) \subseteq Tids
  BY DEF Dead
<1> HIDE DEF s
<1>7. ds \ given = {s[t].dir : t \in Tids} \ {KernelDir, NoDir}
  <2>1. ASSUME NEW d \in ds \ given PROVE d \in {s[t].dir : t \in Tids} \ {KernelDir, NoDir}
    <3>1. PICK t \in Tids : d = th[t].dir /\ d \notin {KernelDir, NoDir}
      BY <2>1 DEF Owned
    <3>2. t \notin Dead(th)
      BY <2>1, <3>1
    <3> QED BY <1>3, <3>1, <3>2
  <2>2. ASSUME NEW d \in {s[t].dir : t \in Tids} \ {KernelDir, NoDir} PROVE d \in ds \ given
    <3>1. PICK t \in Tids : d = s[t].dir /\ d \notin {KernelDir, NoDir}
      BY <2>2
    <3>2. t \notin Dead(th) /\ d = th[t].dir
      BY <1>3, <3>1
    <3>3. d \in ds /\ d \in Dirs
      BY <1>5, <3>1, <3>2 DEF Owned
    <3>4. d \notin given
      BY <1>6, <3>2, <3>3 DEF Owned
    <3> QED BY <3>3, <3>4
  <2> QED BY <2>1, <2>2
<1>8. \A t, u \in Tids : t # u /\ s[t].dir \in Dirs => s[t].dir # s[u].dir
  BY <1>3, <1>4 DEF Owned
<1>9. \A t \in Tids : s[t].state \in Bare => s[t].dir \notin Dirs
  BY <1>3, <1>4 DEF Owned
<1> QED BY <1>7, <1>8, <1>9 DEF Owned, s

\* A switch leaves every directory with one owner.
LEMMA DispatchOwned ==
    ASSUME TypeOK, NEW th, NEW ds, Handed(th), Owned(th, ds), Dispatch(th, ds)
    PROVE  Owned(threads', dirs')
<1> DEFINE s == Sweep(th)
           n == pick_next_thread(s)
           given == {th[t].dir : t \in Dead(th)}
<1>1. Handed(s) /\ s \in [Tids -> Thread] /\ current_tid \in Tids /\ th \in [Tids -> Thread]
  BY SweepHanded DEF TypeOK, Handed
<1>2. n \in Tids
  BY <1>1, PickNext, SchedulerAssumption DEF Handed, Candidates, Tids
<1>3. /\ threads' = IF n # current_tid \/ s[n].state = "Ready"
                    THEN [s EXCEPT ![n].state = "Running", ![n].quantum = Quantum] ELSE s
      /\ dirs' = ds \ given
  BY DEF Dispatch
<1>4. Owned(s, ds \ given)
  BY <1>1, SweepOwned
<1> HIDE DEF s, n, given
<1>5. \A t \in Tids : /\ threads'[t].dir = s[t].dir
                      /\ threads'[t].state \in Bare => s[t].state \in Bare
  BY <1>1, <1>2, <1>3 DEF Thread, Bare
<1>6. PICK w : w = threads'
  OBVIOUS
<1>7. PICK d : d = ds \ given
  OBVIOUS
<1>8. PICK x : x = s
  OBVIOUS
<1>9. Owned(w, d)
  BY <1>4, <1>5, <1>6, <1>7, <1>8, OwnedKept
<1> QED BY <1>3, <1>6, <1>7, <1>9

\* The same for schedule().
LEMMA ScheduleOwned ==
    ASSUME TypeOK, NEW th0, Ongoing(th0), schedule(th0), Owned(th0, dirs)
    PROVE  Owned(threads', dirs')
<1> DEFINE aging == aging_counter + 1 >= AgingInterval
           running == th0[current_tid].state = "Running"
<1>1. PICK th \in {IF aging THEN Aged(th0) ELSE th0} :
        IF running /\ ~QuantumUsedUp(th[current_tid])
        THEN threads' = [th EXCEPT ![current_tid].quantum = @ - 1] /\ dirs' = dirs
        ELSE Dispatch(IF running
                      THEN [th EXCEPT ![current_tid].state = "Ready",
                                      ![current_tid].quantum = Quantum]
                      ELSE th, dirs)
  BY DEF schedule
<1>2. current_tid \in Tids /\ 0 \in Tids
  BY SchedulerAssumption DEF TypeOK, Tids
<1>3. Ongoing(th) /\ \A t \in Tids : th[t].state = th0[t].state
  BY <1>1, <1>2, AgedOngoing
<1>4. th \in [Tids -> Thread] /\ \A t \in Tids : th[t] \in Thread
  BY <1>3 DEF Ongoing
<1>5. PICK d : d = dirs
  OBVIOUS
<1>6. \A t \in Tids : th[t].dir = th0[t].dir
  BY <1>1 DEF Aged, Ongoing, Thread
<1>7. Owned(th, d)
  BY <1>3, <1>5, <1>6, OwnedKept
<1>8. CASE running /\ ~QuantumUsedUp(th[current_tid])
  <2>1. \A t \in Tids : threads'[t].state = th[t].state /\ threads'[t].dir = th[t].dir
    BY <1>1, <1>2, <1>4, <1>8 DEF Thread
  <2>2. PICK w : w = threads'
    OBVIOUS
  <2>3. Owned(w, d)
    BY <1>7, <2>1, <2>2, OwnedKept
  <2> QED BY <1>1, <1>5, <1>8, <2>2, <2>3
<1>9. CASE running /\ QuantumUsedUp(th[current_tid])
  <2> DEFINE r == [th[current_tid] EXCEPT !.state = "Ready", !.quantum = Quantum]
  <2>1. PICK s : s = [th EXCEPT ![current_tid] = r]
    OBVIOUS
  <2>2. Dispatch(s, d)
    BY <1>1, <1>2, <1>4, <1>5, <1>9, <2>1
  <2>3. r \in Thread /\ r.state = "Ready" /\ r.dir = th[current_tid].dir
    BY <1>2, <1>4, FullQuantum DEF Thread, States
  <2>4. r.dir # NoDir
    BY <1>2, <1>3, <1>9, <2>3 DEF Ongoing, HasDirectory, Living
  <2>5. Handed(s)
    BY <1>2, <1>3, <2>1, <2>3, <2>4, Preempted
  <2> HIDE DEF r
  <2>6. \A t \in Tids : /\ s[t].dir = th[t].dir
                        /\ s[t].state \in Bare => th[t].state \in Bare
    BY <1>2, <1>4, <2>1, <2>3 DEF Bare
  <2>7. Owned(s, d)
    BY <1>7, <2>6, OwnedKept
  <2> QED BY <2>2, <2>5, <2>7, DispatchOwned
<1>10. CASE ~running
  <2>1. Dispatch(th, d)
    BY <1>1, <1>5, <1>10
  <2>2. Handed(th)
    BY <1>2, <1>3, <1>10 DEF Handed, Ongoing
  <2> QED BY <1>7, <2>1, <2>2, DispatchOwned
<1> QED BY <1>8, <1>9, <1>10

\* A running thread that gives up the CPU in a state that keeps directories.
LEMMA GiveUpOwned ==
    ASSUME IInv, Owned(threads, dirs), Working, NEW r \in Thread, r.dir = cur.dir,
           r.state \notin {"Running"} \cup Bare,
           Dispatch([threads EXCEPT ![current_tid] = r], dirs)
    PROVE  Owned(threads', dirs')
<1>1. TypeOK /\ Ongoing(threads) /\ current_tid \in Tids /\ current_tid # 0
  BY OngoingNow DEF IInv, TypeOK, Working
<1>2. r.dir # NoDir
  BY <1>1 DEF Working, Executing, cur, Ongoing, HasDirectory, Living
<1>3. PICK th : th = [threads EXCEPT ![current_tid] = r]
  OBVIOUS
<1>4. PICK x : x = threads
  OBVIOUS
<1>5. PICK d : d = dirs
  OBVIOUS
<1>6. Handed(th)
  BY <1>1, <1>2, <1>3, Preempted DEF cur
<1>7. \A t \in Tids : /\ th[t].dir = x[t].dir
                      /\ th[t].state \in Bare => x[t].state \in Bare
  BY <1>1, <1>3, <1>4 DEF Ongoing, cur
<1>8. Owned(th, d)
  BY <1>4, <1>5, <1>7, OwnedKept
<1> QED BY <1>1, <1>3, <1>5, <1>6, <1>8, DispatchOwned

\* A handler that changes slots but no directory, and frees none.
LEMMA SlotsOwned ==
    ASSUME Owned(threads, dirs), dirs' = dirs,
           \A t \in Tids : threads'[t].dir = threads[t].dir,
           \A t \in Tids : threads'[t].state \in Bare => threads[t].state \in Bare
    PROVE  Owned(threads', dirs')
<1>1. PICK x : x = threads
  OBVIOUS
<1>2. PICK w : w = threads'
  OBVIOUS
<1>3. PICK d : d = dirs
  OBVIOUS
<1>4. Owned(w, d)
  BY <1>1, <1>2, <1>3, OwnedKept
<1> QED BY <1>2, <1>3, <1>4

\* schedule(), called on a table in which no directory has changed hands.
LEMMA CallOwned ==
    ASSUME TypeOK, Owned(threads, dirs), NEW th, Ongoing(th), schedule(th),
           \A t \in Tids : th[t].dir = threads[t].dir,
           \A t \in Tids : th[t].state \in Bare => threads[t].state \in Bare
    PROVE  Owned(threads', dirs')
<1>1. PICK x : x = threads
  OBVIOUS
<1>2. PICK d : d = dirs
  OBVIOUS
<1>3. Owned(th, d)
  BY <1>1, <1>2, OwnedKept
<1> QED BY <1>2, <1>3, ScheduleOwned

\* thread_create's slot: free, and not that of the boot thread.
LEMMA FirstFreeIsFree ==
    ASSUME FreeSlots # {}
    PROVE  FirstFree \in Tids /\ FirstFree # 0 /\ threads[FirstFree].state = "Unused"
<1>1. FreeSlots \in SUBSET Nat /\ FreeSlots # {}
  BY SchedulerAssumption DEF FreeSlots, Tids
<1>2. PICK S \in SUBSET Nat : S = FreeSlots
  BY <1>1
<1>3. \E t \in FreeSlots : \A u \in FreeSlots : t <= u
  BY <1>1, <1>2, Smallest
<1> QED BY <1>3 DEF FirstFree, FreeSlots

\* elf_thread_entry's directory: one that is not allocated.
LEMMA NewDirIsFree ==
    ASSUME FreeDirs # {}
    PROVE  NewDir \in Dirs \ dirs
<1>1. FreeDirs \in SUBSET Nat /\ FreeDirs # {}
  BY SchedulerAssumption DEF FreeDirs, Dirs
<1>2. PICK S \in SUBSET Nat : S = FreeDirs
  BY <1>1
<1>3. \E d \in FreeDirs : \A e \in FreeDirs : d <= e
  BY <1>1, <1>2, Smallest
<1> QED BY <1>3 DEF NewDir, FreeDirs

\* thread_create: the new thread starts on the kernel's directory, and the slot
\* it takes owned none.
LEMMA CreateOwned ==
    ASSUME IInv, Owned(threads, dirs), NEW p, thread_create(p)
    PROVE  Owned(threads', dirs')
<1>1. threads \in [Tids -> Thread]
  BY DEF IInv, TypeOK
<1>2. FirstFree \in Tids /\ threads[FirstFree].state = "Unused" /\ dirs' = dirs
  BY FirstFreeIsFree DEF thread_create
<1>3. threads' = [threads EXCEPT ![FirstFree] = NewThread(p, KernelDir)]
  BY DEF thread_create
<1>4. /\ NewThread(p, KernelDir).dir = KernelDir /\ NewThread(p, KernelDir).state = "Ready"
      /\ KernelDir \notin Dirs /\ NoDir \notin Dirs
  BY SchedulerAssumption DEF NewThread, KernelDir, NoDir, Dirs
<1>5. PICK f : f = FirstFree
  OBVIOUS
<1>6. /\ f \in Tids /\ threads[f].dir \notin Dirs
      /\ threads'[f].dir = KernelDir /\ threads'[f].state = "Ready"
      /\ \A t \in Tids \ {f} : threads'[t] = threads[t]
  BY <1>1, <1>2, <1>3, <1>4, <1>5 DEF Owned, Bare
<1>7. threads[f].dir \in {KernelDir, NoDir}
  BY <1>1, <1>6 DEF Thread
<1>8. {threads'[t].dir : t \in Tids} \ {KernelDir, NoDir}
        = {threads[t].dir : t \in Tids} \ {KernelDir, NoDir}
  BY <1>6, <1>7
<1> QED BY <1>2, <1>4, <1>6, <1>8 DEF Owned

\* elf_thread_entry: the directory it takes was nobody's.
LEMMA EnterOwned ==
    ASSUME IInv, Owned(threads, dirs), elf_thread_entry
    PROVE  Owned(threads', dirs')
<1>1. threads \in [Tids -> Thread] /\ current_tid \in Tids
  BY DEF IInv, TypeOK
<1>2. PICK n : n = NewDir
  OBVIOUS
<1>3. n \in Dirs \ dirs /\ dirs' = dirs \cup {n} /\ cur.dir = KernelDir /\ cur.state = "Running"
  BY <1>2, NewDirIsFree DEF elf_thread_entry, Working, Executing
<1>4. threads' = [threads EXCEPT ![current_tid].dir = n]
  BY <1>2 DEF elf_thread_entry
<1>5. /\ threads'[current_tid].dir = n /\ threads'[current_tid].state = "Running"
      /\ \A t \in Tids \ {current_tid} : threads'[t] = threads[t]
  BY <1>1, <1>3, <1>4 DEF cur, Thread
<1>6. n \notin {KernelDir, NoDir} /\ KernelDir \notin Dirs
  BY <1>3, SchedulerAssumption DEF KernelDir, NoDir, Dirs
<1>7. dirs' = {threads'[t].dir : t \in Tids} \ {KernelDir, NoDir}
  <2>1. ASSUME NEW d \in dirs' PROVE d \in {threads'[t].dir : t \in Tids} \ {KernelDir, NoDir}
    <3>1. CASE d = n
      BY <1>1, <1>5, <1>6, <3>1
    <3>2. CASE d \in dirs
      <4>1. PICK t \in Tids : d = threads[t].dir /\ d \notin {KernelDir, NoDir}
        BY <3>2 DEF Owned
      <4>2. t # current_tid
        BY <1>3, <4>1 DEF cur
      <4> QED BY <1>5, <4>1, <4>2
    <3> QED BY <1>3, <2>1, <3>1, <3>2
  <2>2. ASSUME NEW d \in {threads'[t].dir : t \in Tids} \ {KernelDir, NoDir} PROVE d \in dirs'
    <3>1. PICK t \in Tids : d = threads'[t].dir /\ d \notin {KernelDir, NoDir}
      BY <2>2
    <3> QED BY <1>3, <1>5, <3>1 DEF Owned
  <2> QED BY <2>1, <2>2
<1>8. \A t \in Tids : threads[t].dir # n
  BY <1>3, <1>6 DEF Owned
<1>9. \A t, u \in Tids : t # u /\ threads'[t].dir \in Dirs => threads'[t].dir # threads'[u].dir
  BY <1>5, <1>8 DEF Owned
<1>10. \A t \in Tids : threads'[t].state \in Bare => threads'[t].dir \notin Dirs
  BY <1>5 DEF Owned, Bare
<1> QED BY <1>7, <1>9, <1>10 DEF Owned

\* Every handler leaves every directory with one owner.
LEMMA NextOwned ==
    ASSUME IInv, Owned(threads, dirs), [Next]_schedVars
    PROVE  Owned(threads', dirs')
<1>1. /\ TypeOK /\ Ongoing(threads) /\ current_tid \in Tids /\ cur \in Thread
      /\ threads \in [Tids -> Thread] /\ 0 \in Tids
  BY OngoingNow, SchedulerAssumption DEF IInv, TypeOK, cur, Tids
<1>2. CASE TimerIrq
  <2> DEFINE tick(r) == [r EXCEPT !.sleep_left = IF @ > 0 THEN @ - 1 ELSE 0]
             th == [t \in Tids |-> tick(threads[t])]
  <2>1. \A r \in Thread : tick(r) \in Thread /\ tick(r).state = r.state /\ tick(r).dir = r.dir
    BY DEF Thread
  <2>2. \A t \in Tids : th[t] \in Thread /\ th[t].state = threads[t].state
                        /\ th[t].dir = threads[t].dir
    BY <1>1, <2>1
  <2>3. th \in [Tids -> Thread]
    BY <2>2
  <2>4. schedule(th)
    BY <1>2 DEF TimerIrq
  <2> HIDE DEF th
  <2>5. Ongoing(th)
    BY <1>1, <2>2, <2>3 DEF Ongoing, HasDirectory
  <2>6. PICK x : x = th
    OBVIOUS
  <2> QED BY <1>1, <2>2, <2>4, <2>5, <2>6, CallOwned
<1>3. CASE thread_yield
  <2>1. PICK x : x = threads
    OBVIOUS
  <2> QED BY <1>1, <1>3, <2>1, CallOwned DEF thread_yield
<1>4. ASSUME NEW p \in Priorities, thread_create(p) PROVE Owned(threads', dirs')
  BY <1>4, CreateOwned
<1>5. CASE elf_thread_entry
  BY <1>5, EnterOwned
<1>6. CASE thread_exit_wrapper
  <2>1. \A t \in Tids : /\ threads'[t].dir = threads[t].dir
                        /\ threads'[t].state \in Bare => threads[t].state \in Bare
    BY <1>1, <1>6 DEF thread_exit_wrapper, Thread, Bare
  <2> QED BY <1>6, <2>1, SlotsOwned DEF thread_exit_wrapper
<1>7. ASSUME NEW c \in Channels, Working, block_current(c) PROVE Owned(threads', dirs')
  <2> DEFINE r == [cur EXCEPT !.state = "Blocked", !.channel = c]
  <2>1. r \in Thread /\ r.state = "Blocked" /\ r.dir = cur.dir
    BY <1>1 DEF Thread, States
  <2>2. [threads EXCEPT ![current_tid].state = "Blocked", ![current_tid].channel = c]
          = [threads EXCEPT ![current_tid] = r]
    BY <1>1 DEF cur
  <2> QED BY <1>7, <2>1, <2>2, GiveUpOwned DEF block_current, Bare
<1>8. ASSUME NEW t \in Tids, unblock(t) PROVE Owned(threads', dirs')
  <2>1. \A u \in Tids : /\ threads'[u].dir = threads[u].dir
                        /\ threads'[u].state \in Bare => threads[u].state \in Bare
    BY <1>1, <1>8 DEF unblock, Unblocked, Thread, Bare
  <2> QED BY <1>8, <2>1, SlotsOwned DEF unblock
<1>9. ASSUME NEW k \in SleepTicks, sleep_current(k) PROVE Owned(threads', dirs')
  <2> DEFINE r == [cur EXCEPT !.state = "Sleeping", !.sleep_left = IF k = 0 THEN 1 ELSE k]
  <2>1. r \in Thread /\ r.state = "Sleeping" /\ r.dir = cur.dir
    BY <1>1, SchedulerAssumption DEF Thread, States
  <2>2. [threads EXCEPT ![current_tid].state = "Sleeping",
                        ![current_tid].sleep_left = IF k = 0 THEN 1 ELSE k]
          = [threads EXCEPT ![current_tid] = r]
    BY <1>1 DEF cur
  <2> QED BY <1>9, <2>1, <2>2, GiveUpOwned DEF sleep_current, Bare
<1>10. CASE terminate_current
  <2> DEFINE r == [cur EXCEPT !.state = "Terminated"]
  <2>1. r \in Thread /\ r.state = "Terminated" /\ r.dir = cur.dir
    BY <1>1 DEF Thread, States
  <2>2. [threads EXCEPT ![current_tid].state = "Terminated"]
          = [threads EXCEPT ![current_tid] = r]
    BY <1>1 DEF cur
  <2> QED BY <1>10, <2>1, <2>2, GiveUpOwned DEF terminate_current, Bare
<1>11. ASSUME NEW t \in KillTargets, thread_terminate(t) PROVE Owned(threads', dirs')
  <2>1. PICK s : s = [threads EXCEPT ![t].state = "Terminated"]
    OBVIOUS
  <2>2. t \in Tids /\ threads[t] \in Thread
    BY <1>1, SchedulerAssumption DEF Tids
  <2>3. [threads[t] EXCEPT !.state = "Terminated"] \in Thread
    BY <2>2 DEF Thread, States
  <2>4. /\ s \in [Tids -> Thread] /\ s[t].state = "Terminated" /\ s[t].dir = threads[t].dir
        /\ \A u \in Tids \ {t} : s[u] = threads[u]
    <3>1. s = [threads EXCEPT ![t] = [threads[t] EXCEPT !.state = "Terminated"]]
      BY <1>1, <2>1, <2>2
    <3> QED BY <1>1, <2>2, <2>3, <3>1 DEF Thread
  <2>5. CASE t # current_tid
    BY <1>11, <2>1, <2>4, <2>5, SlotsOwned DEF thread_terminate, Bare
  <2>6. CASE t = current_tid
    <3>1. schedule(s)
      BY <1>11, <2>1, <2>6 DEF thread_terminate
    <3>2. Ongoing(s)
      BY <1>1, <2>4, <2>6 DEF Ongoing, HasDirectory, Living
    <3> QED BY <1>1, <2>4, <3>1, <3>2, CallOwned DEF Bare
  <2> QED BY <2>5, <2>6
<1>12. CASE UNCHANGED schedVars
  BY <1>12 DEF schedVars, Owned
<1> QED BY <1>2, <1>3, <1>4, <1>5, <1>6, <1>7, <1>8, <1>9, <1>10, <1>11, <1>12 DEF Next

-----------------------------------------------------------------------------
(* Threads that wait *)

\* Nobody who sleeps for more ticks has been woken, nobody has been blocked and
\* nobody has become a Zombie.
Undisturbed(th) ==
    \A t \in Tids :
        /\ th[t].state = "Sleeping" /\ th[t].sleep_left > 0 => threads'[t].state = "Sleeping"
        /\ threads'[t].state = "Blocked"
             => th[t].state = "Blocked" /\ threads'[t].channel = th[t].channel
        /\ threads'[t].state = "Zombie" => th[t].state = "Zombie"

\* Thread 0, which pick_next_thread takes without looking at its state, does
\* not wait for anything.
Awake(th) == th[0].state \notin {"Sleeping", "Blocked"}

\* A switch disturbs nobody who waits.
LEMMA DispatchUndisturbed ==
    ASSUME TypeOK, NEW th, NEW ds, Handed(th), Dispatch(th, ds), Awake(th)
    PROVE  Undisturbed(th) /\ Awake(threads')
<1> DEFINE s == Sweep(th)
           n == pick_next_thread(s)
<1>1. Handed(s) /\ current_tid \in Tids
  BY SweepHanded DEF TypeOK
<1>2. n = 0 \/ n \in Candidates(s)
  BY <1>1, PickNext DEF Handed
<1>3. 0 \in Tids /\ n \in Tids
  BY <1>2, SchedulerAssumption DEF Candidates, Tids
<1>4. threads' = IF n # current_tid \/ s[n].state = "Ready"
                 THEN [s EXCEPT ![n].state = "Running", ![n].quantum = Quantum] ELSE s
  BY DEF Dispatch
<1>5. ASSUME NEW t \in Tids
      PROVE  /\ th[t].state = "Sleeping" /\ th[t].sleep_left > 0 => s[t].state = "Sleeping"
             /\ s[t].state \in {"Blocked", "Sleeping", "Zombie"}
                  => s[t].state = th[t].state /\ s[t].channel = th[t].channel
  <2>1. \A r \in Thread : /\ Cleaned(r).state = "Unused"
                          /\ [r EXCEPT !.state = "Ready", !.channel = NoChannel].state = "Ready"
    BY DEF Cleaned, Thread
  <2>2. th[t] \in Thread
    BY DEF Handed
  <2> QED BY <2>1, <2>2 DEF Sweep, Dead
<1>6. \A t \in Tids : \/ threads'[t].state = s[t].state /\ threads'[t].channel = s[t].channel
                      \/ t = n /\ threads'[t].state = "Running"
  BY <1>1, <1>3, <1>4 DEF Handed, Thread
<1>7. s[n].state # "Sleeping"
  BY <1>2, <1>3, <1>5 DEF Candidates, Awake
<1> HIDE DEF s, n
<1> QED BY <1>3, <1>5, <1>6, <1>7 DEF Undisturbed, Awake

\* The same for schedule().
LEMMA ScheduleUndisturbed ==
    ASSUME TypeOK, NEW th0, Ongoing(th0), schedule(th0), Awake(th0)
    PROVE  Undisturbed(th0) /\ Awake(threads')
<1> DEFINE aging == aging_counter + 1 >= AgingInterval
           running == th0[current_tid].state = "Running"
<1>1. PICK th \in {IF aging THEN Aged(th0) ELSE th0} :
        IF running /\ ~QuantumUsedUp(th[current_tid])
        THEN threads' = [th EXCEPT ![current_tid].quantum = @ - 1]
        ELSE Dispatch(IF running
                      THEN [th EXCEPT ![current_tid].state = "Ready",
                                      ![current_tid].quantum = Quantum]
                      ELSE th, dirs)
  BY DEF schedule
<1>2. current_tid \in Tids /\ 0 \in Tids
  BY SchedulerAssumption DEF TypeOK, Tids
<1>3. Ongoing(th) /\ \A t \in Tids : th[t].state = th0[t].state
  BY <1>1, <1>2, AgedOngoing
<1>4. th \in [Tids -> Thread] /\ \A t \in Tids : th[t] \in Thread
  BY <1>3 DEF Ongoing
<1>5. \A t \in Tids : th[t].sleep_left = th0[t].sleep_left /\ th[t].channel = th0[t].channel
  BY <1>1 DEF Aged, Ongoing, Thread
<1>6. CASE running /\ ~QuantumUsedUp(th[current_tid])
  <2>1. \A t \in Tids : threads'[t].state = th[t].state /\ threads'[t].channel = th[t].channel
    BY <1>1, <1>2, <1>4, <1>6 DEF Thread
  <2> QED BY <1>2, <1>3, <1>5, <2>1 DEF Undisturbed, Awake
<1>7. CASE running /\ QuantumUsedUp(th[current_tid])
  <2> DEFINE r == [th[current_tid] EXCEPT !.state = "Ready", !.quantum = Quantum]
  <2>1. PICK s : s = [th EXCEPT ![current_tid] = r]
    OBVIOUS
  <2>2. Dispatch(s, dirs)
    BY <1>1, <1>2, <1>4, <1>7, <2>1
  <2>3. r \in Thread /\ r.state = "Ready" /\ r.dir = th[current_tid].dir
    BY <1>2, <1>4, FullQuantum DEF Thread, States
  <2>4. r.dir # NoDir
    BY <1>2, <1>3, <1>7, <2>3 DEF Ongoing, HasDirectory, Living
  <2>5. Handed(s)
    BY <1>2, <1>3, <2>1, <2>3, <2>4, Preempted
  <2> HIDE DEF r
  <2>6. /\ s[current_tid].state = "Ready" /\ th0[current_tid].state = "Running"
        /\ \A t \in Tids \ {current_tid} : s[t].state = th0[t].state
                                           /\ s[t].sleep_left = th0[t].sleep_left
                                           /\ s[t].channel = th0[t].channel
    BY <1>2, <1>3, <1>4, <1>5, <1>7, <2>1, <2>3
  <2>7. Awake(s)
    BY <1>2, <2>6 DEF Awake
  <2>8. PICK d : d = dirs
    OBVIOUS
  <2>9. Undisturbed(s) /\ Awake(threads')
    BY <2>2, <2>5, <2>7, <2>8, DispatchUndisturbed
  <2> QED BY <2>6, <2>9 DEF Undisturbed
<1>8. CASE ~running
  <2>1. PICK d : d = dirs
    OBVIOUS
  <2>2. Dispatch(th, d)
    BY <1>1, <1>8, <2>1
  <2>3. Handed(th) /\ Awake(th)
    BY <1>2, <1>3, <1>8 DEF Handed, Ongoing, Awake
  <2>4. Undisturbed(th) /\ Awake(threads')
    BY <2>2, <2>3, DispatchUndisturbed
  <2> QED BY <1>3, <1>5, <2>4 DEF Undisturbed
<1> QED BY <1>6, <1>7, <1>8

\* A running thread that gives up the CPU: only it can have become a waiter.
LEMMA GiveUpUndisturbed ==
    ASSUME IInv, Awake(threads), Working, NEW r \in Thread, r.dir = cur.dir,
           r.state # "Running", Dispatch([threads EXCEPT ![current_tid] = r], dirs)
    PROVE  /\ Awake(threads')
           /\ \A t \in Tids :
                /\ threads[t].state = "Sleeping" /\ threads[t].sleep_left > 0
                     => threads'[t].state = "Sleeping"
                /\ threads'[t].state = "Blocked"
                     => \/ threads[t].state = "Blocked" /\ threads'[t].channel = threads[t].channel
                        \/ t = current_tid /\ r.state = "Blocked"
                /\ threads'[t].state = "Zombie"
                     => threads[t].state = "Zombie" \/ (t = current_tid /\ r.state = "Zombie")
<1>1. TypeOK /\ Ongoing(threads) /\ current_tid \in Tids /\ current_tid # 0 /\ 0 \in Tids
  BY OngoingNow, SchedulerAssumption DEF IInv, TypeOK, Working, Tids
<1>2. r.dir # NoDir
  BY <1>1 DEF Working, Executing, cur, Ongoing, HasDirectory, Living
<1>3. PICK th : th = [threads EXCEPT ![current_tid] = r]
  OBVIOUS
<1>4. PICK d : d = dirs
  OBVIOUS
<1>5. Handed(th)
  BY <1>1, <1>2, <1>3, Preempted DEF cur
<1>6. th[current_tid] = r /\ \A t \in Tids \ {current_tid} : th[t] = threads[t]
  BY <1>1, <1>3 DEF Ongoing
<1>7. Awake(th)
  BY <1>1, <1>6 DEF Awake
<1>8. Undisturbed(th) /\ Awake(threads')
  BY <1>1, <1>3, <1>4, <1>5, <1>7, DispatchUndisturbed
<1>9. threads[current_tid].state = "Running"
  BY DEF Working, Executing, cur
<1>10. ASSUME NEW t \in Tids
       PROVE  /\ threads[t].state = "Sleeping" /\ threads[t].sleep_left > 0
                   => threads'[t].state = "Sleeping"
              /\ threads'[t].state = "Blocked"
                   => \/ threads[t].state = "Blocked" /\ threads'[t].channel = threads[t].channel
                      \/ t = current_tid /\ r.state = "Blocked"
              /\ threads'[t].state = "Zombie"
                   => threads[t].state = "Zombie" \/ (t = current_tid /\ r.state = "Zombie")
  <2>1. CASE t = current_tid
    BY <1>6, <1>8, <1>9, <2>1 DEF Undisturbed
  <2>2. CASE t # current_tid
    <3>1. /\ th[t].state = threads[t].state /\ th[t].sleep_left = threads[t].sleep_left
          /\ th[t].channel = threads[t].channel
      BY <1>6, <2>2
    <3>2. /\ th[t].state = "Sleeping" /\ th[t].sleep_left > 0 => threads'[t].state = "Sleeping"
          /\ threads'[t].state = "Blocked"
               => th[t].state = "Blocked" /\ threads'[t].channel = th[t].channel
          /\ threads'[t].state = "Zombie" => th[t].state = "Zombie"
      BY <1>8 DEF Undisturbed
    <3> QED BY <3>1, <3>2
  <2> QED BY <2>1, <2>2
<1> QED BY <1>8, <1>10

\* The step cuts no sleep short, unless it ends the sleeper, blocks nobody but
\* the threads of B, and makes no Zombie.
WaitersKept(B) ==
    \A t \in Tids :
        /\ threads[t].state = "Sleeping" /\ threads[t].sleep_left > 1
             => threads'[t].state \in {"Sleeping", "Terminated"}
        /\ threads'[t].state = "Blocked"
             => \/ threads[t].state = "Blocked" /\ threads'[t].channel = threads[t].channel
                \/ t \in B
        /\ threads'[t].state = "Zombie" => threads[t].state = "Zombie"

\* The handlers other than block_current.
Unblocking ==
    \/ TimerIrq
    \/ thread_yield
    \/ \E p \in Priorities : thread_create(p)
    \/ elf_thread_entry
    \/ thread_exit_wrapper
    \/ \E t \in Tids : unblock(t)
    \/ \E k \in SleepTicks : sleep_current(k)
    \/ terminate_current
    \/ \E t \in KillTargets : thread_terminate(t)

\* No other handler blocks anybody.
LEMMA UnblockingWaits ==
    ASSUME IInv, Awake(threads), [Unblocking]_schedVars
    PROVE  Awake(threads') /\ WaitersKept({})
<1> DEFINE Asleep ==
             \A t \in Tids :
                /\ threads[t].state = "Sleeping" /\ threads[t].sleep_left > 1
                     => threads'[t].state \in {"Sleeping", "Terminated"}
                /\ threads'[t].state = "Blocked"
                     => threads[t].state = "Blocked" /\ threads'[t].channel = threads[t].channel
                /\ threads'[t].state = "Zombie" => threads[t].state = "Zombie"
<1> SUFFICES Awake(threads') /\ Asleep
  BY DEF WaitersKept
<1>1. /\ TypeOK /\ Ongoing(threads) /\ current_tid \in Tids /\ cur \in Thread
      /\ threads \in [Tids -> Thread] /\ 0 \in Tids
  BY OngoingNow, SchedulerAssumption DEF IInv, TypeOK, cur, Tids
<1>0. \A t \in Tids : threads[t].sleep_left \in Nat
  BY <1>1 DEF Thread
<1>2. CASE TimerIrq
  <2> DEFINE tick(r) == [r EXCEPT !.sleep_left = IF @ > 0 THEN @ - 1 ELSE 0]
             th == [t \in Tids |-> tick(threads[t])]
  <2>1. \A r \in Thread : /\ tick(r) \in Thread /\ tick(r).state = r.state /\ tick(r).dir = r.dir
                          /\ r.sleep_left > 1 => tick(r).sleep_left > 0
                          /\ tick(r).channel = r.channel
    BY DEF Thread
  <2>2. \A t \in Tids : /\ th[t] \in Thread /\ th[t].state = threads[t].state
                        /\ th[t].dir = threads[t].dir
                        /\ threads[t].sleep_left > 1 => th[t].sleep_left > 0
                        /\ th[t].channel = threads[t].channel
    BY <1>1, <2>1
  <2>3. th \in [Tids -> Thread]
    BY <2>2
  <2>4. schedule(th)
    BY <1>2 DEF TimerIrq
  <2> HIDE DEF th
  <2>5. Ongoing(th) /\ Awake(th)
    BY <1>1, <2>2, <2>3 DEF Ongoing, HasDirectory, Awake
  <2>6. PICK x : x = th
    OBVIOUS
  <2>7. Undisturbed(x) /\ Awake(threads')
    BY <1>1, <2>4, <2>5, <2>6, ScheduleUndisturbed
  <2> QED BY <2>2, <2>6, <2>7 DEF Undisturbed
<1>3. CASE thread_yield
  <2>1. PICK x : x = threads
    OBVIOUS
  <2>2. Undisturbed(x) /\ Awake(threads')
    BY <1>1, <1>3, <2>1, ScheduleUndisturbed DEF thread_yield
  <2> QED BY <1>0, <2>1, <2>2 DEF Undisturbed
<1>4. ASSUME NEW p \in Priorities, thread_create(p) PROVE Awake(threads') /\ Asleep
  <2>1. FirstFree \in Tids /\ FirstFree # 0 /\ threads[FirstFree].state = "Unused"
    BY <1>4, FirstFreeIsFree DEF thread_create
  <2>2. /\ \A t \in Tids \ {FirstFree} : threads'[t] = threads[t]
        /\ threads'[FirstFree].state = "Ready"
    BY <1>1, <1>4, <2>1 DEF thread_create, NewThread
  <2> QED BY <1>1, <2>1, <2>2 DEF Awake
<1>5. CASE elf_thread_entry
  <2>1. \A t \in Tids : /\ threads'[t].state = threads[t].state
                        /\ threads'[t].channel = threads[t].channel
    BY <1>1, <1>5 DEF elf_thread_entry, Thread
  <2> QED BY <1>1, <2>1 DEF Awake
<1>6. CASE thread_exit_wrapper
  <2>1. \A t \in Tids : /\ threads'[t].state \in {threads[t].state, "Terminated"}
                        /\ threads'[t].channel = threads[t].channel
    BY <1>1, <1>6 DEF thread_exit_wrapper, Thread
  <2> QED BY <1>1, <2>1 DEF Awake
<1>7. ASSUME NEW t \in Tids, unblock(t) PROVE Awake(threads') /\ Asleep
  <2>1. \A u \in Tids : \/ /\ threads'[u].state = threads[u].state
                           /\ threads'[u].channel = threads[u].channel
                        \/ threads[u].state = "Blocked" /\ threads'[u].state = "Ready"
    <3>1. CASE threads[t].state = "Blocked"
      <4>1. threads' = [threads EXCEPT ![t].state = "Ready", ![t].channel = NoChannel]
        BY <1>7, <3>1 DEF unblock, Unblocked
      <4>2. threads'[t].state = "Ready" /\ \A u \in Tids \ {t} : threads'[u] = threads[u]
        BY <1>1, <4>1 DEF Thread
      <4> QED BY <3>1, <4>2
    <3>2. CASE threads[t].state # "Blocked"
      <4>1. threads' = threads
        BY <1>7, <3>2 DEF unblock, Unblocked
      <4> QED BY <4>1
    <3> QED BY <3>1, <3>2
  <2> QED BY <1>1, <2>1 DEF Awake
<1>8. ASSUME NEW k \in SleepTicks, sleep_current(k) PROVE Awake(threads') /\ Asleep
  <2> DEFINE r == [cur EXCEPT !.state = "Sleeping", !.sleep_left = IF k = 0 THEN 1 ELSE k]
  <2>1. r \in Thread /\ r.state = "Sleeping" /\ r.dir = cur.dir
    BY <1>1, SchedulerAssumption DEF Thread, States
  <2>2. [threads EXCEPT ![current_tid].state = "Sleeping",
                        ![current_tid].sleep_left = IF k = 0 THEN 1 ELSE k]
          = [threads EXCEPT ![current_tid] = r]
    BY <1>1 DEF cur
  <2>3. Dispatch([threads EXCEPT ![current_tid] = r], dirs) /\ Working
    BY <1>8, <2>2 DEF sleep_current
  <2> HIDE DEF r
  <2>4. /\ Awake(threads')
        /\ \A t \in Tids :
             /\ threads[t].state = "Sleeping" /\ threads[t].sleep_left > 0
                  => threads'[t].state = "Sleeping"
             /\ threads'[t].state = "Blocked"
                  => threads[t].state = "Blocked" /\ threads'[t].channel = threads[t].channel
             /\ threads'[t].state = "Zombie" => threads[t].state = "Zombie"
    BY <2>1, <2>3, GiveUpUndisturbed
  <2> QED BY <1>0, <2>4
<1>9. CASE terminate_current
  <2> DEFINE r == [cur EXCEPT !.state = "Terminated"]
  <2>1. r \in Thread /\ r.state = "Terminated" /\ r.dir = cur.dir
    BY <1>1 DEF Thread, States
  <2>2. [threads EXCEPT ![current_tid].state = "Terminated"]
          = [threads EXCEPT ![current_tid] = r]
    BY <1>1 DEF cur
  <2>3. Dispatch([threads EXCEPT ![current_tid] = r], dirs) /\ Working
    BY <1>9, <2>2 DEF terminate_current
  <2> HIDE DEF r
  <2>4. /\ Awake(threads')
        /\ \A t \in Tids :
             /\ threads[t].state = "Sleeping" /\ threads[t].sleep_left > 0
                  => threads'[t].state = "Sleeping"
             /\ threads'[t].state = "Blocked"
                  => threads[t].state = "Blocked" /\ threads'[t].channel = threads[t].channel
             /\ threads'[t].state = "Zombie" => threads[t].state = "Zombie"
    BY <2>1, <2>3, GiveUpUndisturbed
  <2> QED BY <1>0, <2>4
<1>10. ASSUME NEW t \in KillTargets, thread_terminate(t) PROVE Awake(threads') /\ Asleep
  <2>1. PICK s : s = [threads EXCEPT ![t].state = "Terminated"]
    OBVIOUS
  <2>2. t \in Tids /\ threads[t] \in Thread
    BY <1>1, SchedulerAssumption DEF Tids
  <2>3. [threads[t] EXCEPT !.state = "Terminated"] \in Thread
    BY <2>2 DEF Thread, States
  <2>4. /\ s \in [Tids -> Thread] /\ s[t].state = "Terminated" /\ s[t].dir = threads[t].dir
        /\ \A u \in Tids \ {t} : s[u] = threads[u]
    <3>1. s = [threads EXCEPT ![t] = [threads[t] EXCEPT !.state = "Terminated"]]
      BY <1>1, <2>1, <2>2
    <3> QED BY <1>1, <2>2, <2>3, <3>1 DEF Thread
  <2>5. Awake(s)
    BY <1>1, <2>4 DEF Awake
  <2>6. CASE t # current_tid
    <3>1. threads' = s
      BY <1>10, <2>1, <2>6 DEF thread_terminate
    <3> QED BY <2>4, <2>5, <3>1 DEF Awake
  <2>7. CASE t = current_tid
    <3>1. schedule(s)
      BY <1>10, <2>1, <2>7 DEF thread_terminate
    <3>2. Ongoing(s)
      BY <1>1, <2>4, <2>7 DEF Ongoing, HasDirectory, Living
    <3>3. Undisturbed(s) /\ Awake(threads')
      BY <1>1, <2>5, <3>1, <3>2, ScheduleUndisturbed
    <3>4. threads[t].state = "Running"
      BY <1>10, <2>7 DEF thread_terminate, Working, Executing, cur
    <3> QED BY <1>0, <2>4, <3>3, <3>4 DEF Undisturbed
  <2> QED BY <2>6, <2>7
<1>11. CASE UNCHANGED schedVars
  BY <1>11 DEF schedVars, Awake
<1> QED BY <1>2, <1>3, <1>4, <1>5, <1>6, <1>7, <1>8, <1>9, <1>10, <1>11 DEF Unblocking

\* No handler blocks any thread but the one it runs for.
LEMMA NextWaits ==
    ASSUME IInv, Awake(threads), [Next]_schedVars
    PROVE  Awake(threads') /\ WaitersKept({current_tid})
<1>1. CASE [Unblocking]_schedVars
  BY <1>1, UnblockingWaits DEF WaitersKept
<1>2. cur \in Thread /\ threads \in [Tids -> Thread] /\ current_tid \in Tids
  BY DEF IInv, TypeOK, cur
<1>3. \A t \in Tids : threads[t].sleep_left \in Nat
  BY <1>2 DEF Thread
<1>4. ASSUME NEW c \in Channels, Working, block_current(c)
      PROVE  Awake(threads') /\ WaitersKept({current_tid})
  <2> DEFINE r == [cur EXCEPT !.state = "Blocked", !.channel = c]
  <2>1. r \in Thread /\ r.state = "Blocked" /\ r.dir = cur.dir
    BY <1>2 DEF Thread, States
  <2>2. [threads EXCEPT ![current_tid].state = "Blocked", ![current_tid].channel = c]
          = [threads EXCEPT ![current_tid] = r]
    BY <1>2 DEF cur
  <2>3. Dispatch([threads EXCEPT ![current_tid] = r], dirs) /\ Working
    BY <1>4, <2>2 DEF block_current
  <2> HIDE DEF r
  <2>4. /\ Awake(threads')
        /\ \A t \in Tids :
             /\ threads[t].state = "Sleeping" /\ threads[t].sleep_left > 0
                  => threads'[t].state = "Sleeping"
             /\ threads'[t].state = "Blocked"
                  => \/ threads[t].state = "Blocked" /\ threads'[t].channel = threads[t].channel
                     \/ t = current_tid
             /\ threads'[t].state = "Zombie" => threads[t].state = "Zombie"
    BY <2>1, <2>3, GiveUpUndisturbed
  <2> QED BY <1>3, <2>4 DEF WaitersKept
<1> QED BY <1>1, <1>4 DEF Next, Unblocking

-----------------------------------------------------------------------------
(* The address space in use *)

\* CR3 holds the directory the table th names for the current thread, if that
\* is one of S.
OnDir(th, S) == th[current_tid].dir \in S => cr3 = th[current_tid].dir

\* The conditional reload is enough: where the two entries agree, CR3 was right.
LEMMA DispatchOnDir ==
    ASSUME TypeOK, NEW S, NEW th, NEW ds, Handed(th), Dispatch(th, ds), OnDir(th, S)
    PROVE  OnDir(threads, S)'
<1> DEFINE s == Sweep(th)
           n == pick_next_thread(s)
<1>1. Handed(s) /\ s \in [Tids -> Thread] /\ current_tid \in Tids /\ th \in [Tids -> Thread]
  BY SweepHanded DEF TypeOK, Handed
<1>2. n \in Tids
  BY <1>1, PickNext, SchedulerAssumption DEF Handed, Candidates, Tids
<1>3. /\ current_tid' = n
      /\ threads' = IF n # current_tid \/ s[n].state = "Ready"
                    THEN [s EXCEPT ![n].state = "Running", ![n].quantum = Quantum] ELSE s
      /\ cr3' = IF s[n].dir # s[current_tid].dir THEN s[n].dir ELSE cr3
  BY DEF Dispatch
<1>4. s[current_tid].dir = th[current_tid].dir
  <2>1. \A r \in Thread : [r EXCEPT !.state = "Ready", !.channel = NoChannel].dir = r.dir
    BY DEF Thread
  <2> QED BY <1>1, <2>1 DEF Sweep, Dead
<1> HIDE DEF s, n
<1>5. threads'[n].dir = s[n].dir
  BY <1>1, <1>2, <1>3 DEF Thread
<1> QED BY <1>3, <1>4, <1>5 DEF OnDir

\* The same for schedule().
LEMMA ScheduleOnDir ==
    ASSUME TypeOK, NEW S, NEW th0, Ongoing(th0), schedule(th0), OnDir(th0, S)
    PROVE  OnDir(threads, S)'
<1> DEFINE aging == aging_counter + 1 >= AgingInterval
           running == th0[current_tid].state = "Running"
<1>1. PICK th \in {IF aging THEN Aged(th0) ELSE th0} :
        IF running /\ ~QuantumUsedUp(th[current_tid])
        THEN /\ threads' = [th EXCEPT ![current_tid].quantum = @ - 1]
             /\ UNCHANGED <<current_tid, dirs, cr3>>
        ELSE Dispatch(IF running
                      THEN [th EXCEPT ![current_tid].state = "Ready",
                                      ![current_tid].quantum = Quantum]
                      ELSE th, dirs)
  BY DEF schedule
<1>2. current_tid \in Tids /\ 0 \in Tids
  BY SchedulerAssumption DEF TypeOK, Tids
<1>3. Ongoing(th) /\ \A t \in Tids : th[t].state = th0[t].state
  BY <1>1, <1>2, AgedOngoing
<1>4. th \in [Tids -> Thread] /\ th[current_tid] \in Thread
  BY <1>2, <1>3 DEF Ongoing
<1>5. th[current_tid].dir = th0[current_tid].dir
  BY <1>1, <1>2 DEF Aged, Ongoing, Thread
<1>6. PICK d : d = dirs
  OBVIOUS
<1>7. CASE running /\ ~QuantumUsedUp(th[current_tid])
  <2>1. threads'[current_tid].dir = th[current_tid].dir /\ UNCHANGED <<current_tid, cr3>>
    BY <1>1, <1>2, <1>4, <1>7 DEF Thread
  <2> QED BY <1>5, <2>1 DEF OnDir
<1>8. CASE running /\ QuantumUsedUp(th[current_tid])
  <2> DEFINE r == [th[current_tid] EXCEPT !.state = "Ready", !.quantum = Quantum]
  <2>1. PICK s : s = [th EXCEPT ![current_tid] = r]
    OBVIOUS
  <2>2. Dispatch(s, d)
    BY <1>1, <1>2, <1>4, <1>6, <1>8, <2>1
  <2>3. r \in Thread /\ r.state = "Ready" /\ r.dir = th[current_tid].dir
    BY <1>4, FullQuantum DEF Thread, States
  <2>4. r.dir # NoDir
    BY <1>2, <1>3, <1>8, <2>3 DEF Ongoing, HasDirectory, Living
  <2>5. Handed(s)
    BY <1>2, <1>3, <2>1, <2>3, <2>4, Preempted
  <2> HIDE DEF r
  <2>6. OnDir(s, S)
    BY <1>2, <1>4, <1>5, <2>1, <2>3 DEF OnDir
  <2> QED BY <2>2, <2>5, <2>6, DispatchOnDir
<1>9. CASE ~running
  <2>1. Dispatch(th, d)
    BY <1>1, <1>6, <1>9
  <2>2. Handed(th) /\ OnDir(th, S)
    BY <1>2, <1>3, <1>5, <1>9 DEF Handed, Ongoing, OnDir
  <2> QED BY <2>1, <2>2, DispatchOnDir
<1> QED BY <1>7, <1>8, <1>9

\* A running thread that gives up the CPU keeps its directory.
LEMMA GiveUpOnDir ==
    ASSUME IInv, NEW S, OnDir(threads, S), Working, NEW r \in Thread, r.dir = cur.dir,
           r.state # "Running", Dispatch([threads EXCEPT ![current_tid] = r], dirs)
    PROVE  OnDir(threads, S)'
<1>1. TypeOK /\ Ongoing(threads) /\ current_tid \in Tids /\ current_tid # 0
  BY OngoingNow DEF IInv, TypeOK, Working
<1>2. r.dir # NoDir
  BY <1>1 DEF Working, Executing, cur, Ongoing, HasDirectory, Living
<1>3. PICK th : th = [threads EXCEPT ![current_tid] = r]
  OBVIOUS
<1>4. PICK d : d = dirs
  OBVIOUS
<1>5. Handed(th)
  BY <1>1, <1>2, <1>3, Preempted DEF cur
<1>6. OnDir(th, S)
  BY <1>1, <1>3 DEF OnDir, cur, Ongoing
<1> QED BY <1>1, <1>3, <1>4, <1>5, <1>6, DispatchOnDir

\* Every handler leaves CR3 on the directory of the thread that runs.
LEMMA NextOnDir ==
    ASSUME IInv, NEW S, OnDir(threads, S), [Next]_schedVars
    PROVE  OnDir(threads, S)'
<1>1. /\ TypeOK /\ Ongoing(threads) /\ current_tid \in Tids /\ cur \in Thread
      /\ threads \in [Tids -> Thread] /\ 0 \in Tids
  BY OngoingNow, SchedulerAssumption DEF IInv, TypeOK, cur, Tids
<1>2. CASE TimerIrq
  <2> DEFINE tick(r) == [r EXCEPT !.sleep_left = IF @ > 0 THEN @ - 1 ELSE 0]
             th == [t \in Tids |-> tick(threads[t])]
  <2>1. \A r \in Thread : tick(r) \in Thread /\ tick(r).state = r.state /\ tick(r).dir = r.dir
    BY DEF Thread
  <2>2. \A t \in Tids : th[t] \in Thread /\ th[t].state = threads[t].state
                        /\ th[t].dir = threads[t].dir
    BY <1>1, <2>1
  <2>3. th \in [Tids -> Thread]
    BY <2>2
  <2>4. schedule(th)
    BY <1>2 DEF TimerIrq
  <2> HIDE DEF th
  <2>5. Ongoing(th) /\ OnDir(th, S)
    BY <1>1, <2>2, <2>3 DEF Ongoing, HasDirectory, OnDir
  <2>6. PICK x : x = th
    OBVIOUS
  <2> QED BY <1>1, <2>4, <2>5, <2>6, ScheduleOnDir
<1>3. CASE thread_yield
  <2>1. PICK x : x = threads
    OBVIOUS
  <2> QED BY <1>1, <1>3, <2>1, ScheduleOnDir DEF thread_yield
<1>4. ASSUME NEW p \in Priorities, thread_create(p) PROVE OnDir(threads, S)'
  <2>1. FirstFree \in Tids /\ FirstFree # current_tid
    BY <1>4, FirstFreeIsFree DEF thread_create, Executing, cur
  <2> QED BY <1>1, <1>4, <2>1 DEF thread_create, OnDir
<1>5. CASE elf_thread_entry
  BY <1>1, <1>5 DEF elf_thread_entry, OnDir, Thread
<1>6. CASE thread_exit_wrapper
  BY <1>1, <1>6 DEF thread_exit_wrapper, OnDir, Thread
<1>7. ASSUME NEW c \in Channels, Working, block_current(c) PROVE OnDir(threads, S)'
  <2> DEFINE r == [cur EXCEPT !.state = "Blocked", !.channel = c]
  <2>1. r \in Thread /\ r.state = "Blocked" /\ r.dir = cur.dir
    BY <1>1 DEF Thread, States
  <2>2. [threads EXCEPT ![current_tid].state = "Blocked", ![current_tid].channel = c]
          = [threads EXCEPT ![current_tid] = r]
    BY <1>1 DEF cur
  <2> QED BY <1>7, <2>1, <2>2, GiveUpOnDir DEF block_current
<1>8. ASSUME NEW t \in Tids, unblock(t) PROVE OnDir(threads, S)'
  <2>1. threads[current_tid].state # "Blocked"
    BY <1>1 DEF Ongoing
  <2>2. threads'[current_tid] = threads[current_tid]
    BY <1>1, <1>8, <2>1 DEF unblock, Unblocked
  <2> QED BY <1>8, <2>2 DEF unblock, OnDir
<1>9. ASSUME NEW k \in SleepTicks, sleep_current(k) PROVE OnDir(threads, S)'
  <2> DEFINE r == [cur EXCEPT !.state = "Sleeping", !.sleep_left = IF k = 0 THEN 1 ELSE k]
  <2>1. r \in Thread /\ r.state = "Sleeping" /\ r.dir = cur.dir
    BY <1>1, SchedulerAssumption DEF Thread, States
  <2>2. [threads EXCEPT ![current_tid].state = "Sleeping",
                        ![current_tid].sleep_left = IF k = 0 THEN 1 ELSE k]
          = [threads EXCEPT ![current_tid] = r]
    BY <1>1 DEF cur
  <2> QED BY <1>9, <2>1, <2>2, GiveUpOnDir DEF sleep_current
<1>10. CASE terminate_current
  <2> DEFINE r == [cur EXCEPT !.state = "Terminated"]
  <2>1. r \in Thread /\ r.state = "Terminated" /\ r.dir = cur.dir
    BY <1>1 DEF Thread, States
  <2>2. [threads EXCEPT ![current_tid].state = "Terminated"]
          = [threads EXCEPT ![current_tid] = r]
    BY <1>1 DEF cur
  <2> QED BY <1>10, <2>1, <2>2, GiveUpOnDir DEF terminate_current
<1>11. ASSUME NEW t \in KillTargets, thread_terminate(t) PROVE OnDir(threads, S)'
  <2>1. PICK s : s = [threads EXCEPT ![t].state = "Terminated"]
    OBVIOUS
  <2>2. t \in Tids /\ threads[t] \in Thread
    BY <1>1, SchedulerAssumption DEF Tids
  <2>3. [threads[t] EXCEPT !.state = "Terminated"] \in Thread
    BY <2>2 DEF Thread, States
  <2>4. /\ s \in [Tids -> Thread] /\ s[t].state = "Terminated" /\ s[t].dir = threads[t].dir
        /\ \A u \in Tids \ {t} : s[u] = threads[u]
    <3>1. s = [threads EXCEPT ![t] = [threads[t] EXCEPT !.state = "Terminated"]]
      BY <1>1, <2>1, <2>2
    <3> QED BY <1>1, <2>2, <2>3, <3>1 DEF Thread
  <2>5. CASE t # current_tid
    BY <1>1, <1>11, <2>1, <2>4, <2>5 DEF thread_terminate, OnDir
  <2>6. CASE t = current_tid
    <3>1. schedule(s)
      BY <1>11, <2>1, <2>6 DEF thread_terminate
    <3>2. Ongoing(s) /\ OnDir(s, S)
      BY <1>1, <2>4, <2>6 DEF Ongoing, HasDirectory, Living, OnDir
    <3> QED BY <1>1, <3>1, <3>2, ScheduleOnDir
  <2> QED BY <2>5, <2>6
<1>12. CASE UNCHANGED schedVars
  BY <1>12 DEF schedVars, OnDir
<1> QED BY <1>2, <1>3, <1>4, <1>5, <1>6, <1>7, <1>8, <1>9, <1>10, <1>11, <1>12 DEF Next

-----------------------------------------------------------------------------
(* Theorems *)

\* In every reachable state of the scheduler the inductive invariant holds.
THEOREM Invariance == Spec => []IInv
  BY InitInv, NextInv, PTL DEF Spec

\* The thread table is well typed in every reachable state: no handler leaves a
\* quantum of 0, an unknown state or an unallocated directory in CR3.
THEOREM TypeCorrectness == Spec => []TypeOK
<1>1. IInv => TypeOK
  BY DEF IInv
<1> QED BY <1>1, Invariance, PTL

\* For any number of threads, exactly the current thread is Running (or has
\* just ended itself), whatever order of yields, blocks, wake-ups, sleeps,
\* kills and timer interrupts led here.
THEOREM OneThreadRuns == Spec => []OneRunning
<1>1. IInv => OneRunning
  BY DEF IInv
<1> QED BY <1>1, Invariance, PTL

\* The conditional reload of CR3 in schedule, block_current, sleep_current and
\* terminate_current is enough: the CPU is on the directory of the thread it
\* runs, as long as threads are ended by the scheduler's own handlers.
THEOREM DirectoryFollowsThread == Spec => []RunsOnItsDirectory
<1> DEFINE S == Dirs \cup {KernelDir, NoDir}
<1>1. Init => OnDir(threads, S)
  BY SchedulerAssumption DEF Init, thread_init, OnDir, Tids
<1>2. IInv /\ OnDir(threads, S) /\ [Next]_schedVars => OnDir(threads, S)'
  BY NextOnDir
<1>3. IInv /\ OnDir(threads, S) => RunsOnItsDirectory
  BY DEF IInv, TypeOK, OnDir, RunsOnItsDirectory, cur, Thread
<1> HIDE DEF S
<1> QED BY <1>1, <1>2, <1>3, Invariance, PTL DEF Spec

\* A killed thread never runs again, however late a wake-up for it arrives and
\* in whatever state it was killed: for any number of threads, as long as the
\* shell is not asked to kill thread 0, to which the scheduler falls back.
THEOREM KilledThreadStaysDead == 0 \notin KillTargets => (Spec => KilledStaysDead)
<1> SUFFICES ASSUME 0 \notin KillTargets PROVE Spec => KilledStaysDead
  OBVIOUS
<1>1. Init => IInv /\ IdleAlive
  <2>1. Init => IdleAlive
    BY SchedulerAssumption DEF Init, thread_init, IdleAlive, Tids
  <2> QED BY <2>1, InitInv
<1>2. IInv /\ IdleAlive /\ [Next]_schedVars => (IInv /\ IdleAlive)'
  BY NextInv, NextDead
<1>3. IInv /\ IdleAlive /\ [Next]_schedVars
        => [\A t \in Tids : threads[t].state = "Terminated"
              => threads'[t].state \in {"Terminated", "Unused"}]_schedVars
  BY NextDead DEF StayDead
<1> QED BY <1>1, <1>2, <1>3, PTL DEF Spec, KilledStaysDead

\* For any number of threads and directories: thread_cleanup destroys each
\* directory exactly once, no two threads share one, and none is allocated that
\* no slot names.
THEOREM DirectoriesAlwaysOwned == Spec => []DirectoriesOwned
<1>1. Init => Owned(threads, dirs)
  <2>1. ASSUME Init, NEW t \in Tids PROVE threads[t].dir \in {KernelDir, NoDir}
    BY <2>1 DEF Init, thread_init
  <2>2. KernelDir \notin Dirs /\ NoDir \notin Dirs
    BY SchedulerAssumption DEF KernelDir, NoDir, Dirs
  <2>3. Init => dirs = {}
    BY DEF Init
  <2> QED BY <2>1, <2>2, <2>3 DEF Owned
<1>2. IInv /\ Owned(threads, dirs) /\ [Next]_schedVars => Owned(threads, dirs)'
  BY NextOwned
<1>3. Owned(threads, dirs) => DirectoriesOwned
  BY DEF Owned, Bare, DirectoriesOwned
<1> QED BY <1>1, <1>2, <1>3, Invariance, PTL DEF Spec

\* For any number of threads and any sleep times: a thread that has ticks to
\* sleep stays asleep, or is killed; no late wake-up, and no switch to thread 0
\* without a look at its state, cuts its sleep short.
THEOREM SleepersSleepOn == Spec => SleepNotCutShort
<1>1. Init => Awake(threads)
  BY SchedulerAssumption DEF Init, thread_init, Awake, Tids
<1>2. IInv /\ Awake(threads) /\ [Next]_schedVars => Awake(threads)'
  BY NextWaits
<1>3. IInv /\ Awake(threads) /\ [Next]_schedVars
        => [\A t \in Tids : threads[t].state = "Sleeping" /\ threads[t].sleep_left > 1
              => threads'[t].state \in {"Sleeping", "Terminated"}]_schedVars
  BY NextWaits DEF WaitersKept
<1> QED BY <1>1, <1>2, <1>3, Invariance, PTL DEF Spec, SleepNotCutShort
=============================================================================
