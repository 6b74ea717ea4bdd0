------------------------------- MODULE MCSim -------------------------------
(***************************************************************************)
(* The subsystems of the simulator, side by side, and its kernel, which    *)
(* composes the scheduler, IPC, devices and applications.  Which of them   *)
(* moves is chosen at the start, the others rest in their initial states.  *)
(* The scheduler, the IPC manager and the block driver are also looked at  *)
(* alone, on constants of their own; the disk schedules are operators,     *)
(* checked on the inputs x.                                                *)
(***************************************************************************)
EXTENDS SimKernel, SimMemory, SimLogs, SimFiles, SimUsers, SimInput

VARIABLES which, x

Alone == INSTANCE SimScheduler WITH
            Programs <- {<<"CpuWork", "IoRequest">>},
            Priorities <- {1, 2}, Quanta <- {1, 2}
Locks == INSTANCE SimIpc WITH
            IpcPids <- 1 .. 3, MaxSemaphores <- 1, MaxMutexes <- 2
Pipes == INSTANCE SimIpc WITH
            IpcPids <- 1 .. 2, MaxSemaphores <- 0, MaxMutexes <- 0,
            MaxPipes <- 1, MaxQueues <- 1
Driver == INSTANCE SimFsDriver WITH totalBlocks_ <- 7, JOURNAL_MAX_ENTRIES <- 1

-----------------------------------------------------------------------------
(* Values of constants.                                                    *)
MCCpuWork == <<"CpuWork">>
MCProcessPrograms == {<<"IoRequest">>}
MCLatency == [d \in {"hdd0"} |-> 1]
MCPaths == {<<"a">>, <<"a", "b">>, <<".", "a", "..", "b">>}
MCNoDirectories == <<>>
MCHash == [p \in Passwords |-> IF p = "root" THEN 1 ELSE 2]
MCTexts == {[lines |-> <<2>>, open |-> TRUE], [lines |-> <<0, 1>>, open |-> TRUE]}

\* Requests at the cylinders 0 to 4, several of them equal, and a head position.
Orders == {<<r, head>> : r \in [1 .. 4 -> 0 .. 4], head \in 0 .. 4}

\* Bounds: one semaphore or mutex in the kernel; one inode whose owner or
\* permissions were changed.
OneLock == ipc'.nextSem + ipc'.nextMut <= 3
FewChanges ==
    LET Where(P(_)) == Cardinality({i \in DOMAIN fs'.inodes : P(fs'.inodes[i])})
    IN  Where(LAMBDA n : n.permissions # defaultFile) + Where(LAMBDA n : n.owner # ROOT_UID) <= 1

-----------------------------------------------------------------------------
Others(c) ==
    /\ c \notin {"kernel", "scheduler", "locks", "pipes"} => UNCHANGED kernelVars
    /\ c # "memory" => UNCHANGED mem
    /\ c # "logger" => UNCHANGED loggerVars
    /\ c # "bus" => UNCHANGED busVars
    /\ c # "bootlog" => UNCHANGED bootVars
    /\ c # "api" => UNCHANGED apiVars
    /\ c \notin {"files", "driver"} => UNCHANGED filesVars
    /\ c # "users" => UNCHANGED userVars
    /\ c \notin {"keys", "lines"} => UNCHANGED inputVars

RestOfKernel(v) == UNCHANGED <<state_, apps, memoryOf, subscriptions_, io, v>>

Components == {"kernel", "scheduler", "locks", "pipes", "memory", "logger", "bus",
               "bootlog", "api", "files", "driver", "users", "keys", "lines"}

SimInit ==
    /\ \/ which \in Components /\ x = 0
       \/ which = "order" /\ x \in Orders
    /\ CASE which = "scheduler" -> Alone!SchedulerInit
         [] OTHER -> sch = NewScheduler("RoundRobin", 1)
    /\ CASE which = "locks" -> Locks!SimIpcInit
         [] which = "pipes" -> Pipes!SimIpcInit
         [] OTHER -> ipc = NewIpc /\ told = {} /\ live = {}
    /\ io = <<>> /\ state_ = "Off" /\ apps = NewRuntime /\ memoryOf = {} /\ subscriptions_ = 0
    /\ SimMemoryInit /\ (which # "memory" => mem = NewMemory(FALSE))
    /\ LogInit /\ UsersInit /\ InputInit
    /\ CASE which = "driver" -> Driver!DriverInit /\ fs = <<>>
         [] OTHER -> FilesInit

SimNext ==
    /\ UNCHANGED <<which, x>>
    /\ \/ which = "kernel" /\ KernelNext /\ OneLock /\ Others("kernel")
       \/ which = "scheduler" /\ Alone!SchedulerNext /\ Others("scheduler")
          /\ RestOfKernel(<<ipc, told, live>>)
       \/ which = "locks" /\ Locks!SimIpcNext /\ Others("locks") /\ RestOfKernel(sch)
       \/ which = "pipes" /\ Pipes!SimIpcNext /\ Others("pipes") /\ RestOfKernel(sch)
       \/ which = "memory" /\ SimMemoryNext /\ Others("memory")
       \/ which = "logger" /\ LoggerNext /\ Others("logger")
       \/ which = "bus" /\ BusNext /\ Others("bus")
       \/ which = "bootlog" /\ logMessage /\ Others("bootlog")
       \/ which = "api" /\ ApiNext /\ Others("api")
       \/ which = "files" /\ FilesNext /\ FewChanges /\ Others("files")
       \/ which = "driver" /\ Driver!DriverNext /\ UNCHANGED fs /\ Others("driver")
       \/ which = "users" /\ UsersNext /\ Others("users")
       \/ which = "keys" /\ KeyboardNext /\ Others("keys")
       \/ which = "lines" /\ ConsoleNext /\ Others("lines")
simVars == <<which, x, kernelVars, mem, logVars, filesVars, userVars, inputVars>>
SimSpec == SimInit /\ [][SimNext]_simVars

-----------------------------------------------------------------------------
(* The properties of the components, each looked at while its component    *)
(* moves.                                                                  *)

\* The queues of the scheduler hold every process once, where its state says,
\* under every algorithm and every change between them (QueuesExact).
SchedulerExact == which = "scheduler" => QueuesExact

\* Frames, swap slots and page tables agree (PagesExact).
MemoryExact == which = "memory" => PagesExact

\* The wait graph is the waiting lists, and a deadlock is found exactly when
\* there is one (WaitersExact, DeadlockExact).
IpcExact == which \in {"locks", "pipes"} => WaitersExact /\ DeadlockExact

\* Nothing is left of a terminated process in any subsystem, a device works on
\* one request at a time, and no disk schedule loses or repeats a request
\* (DeadHoldNothing, OneRequestAtATime, OrderServesAll).
KernelExact ==
    /\ which = "kernel" => DeadHoldNothing /\ OneRequestAtATime
    /\ which = "order" => OrderServesAll(x[1], x[2])

\* Cached paths lead where a walk leads, every block is in one file or free, and
\* a block holds what its owner wrote last (PathCacheTrue, FileBlocksExact,
\* BlocksKeepData).
FilesExact ==
    /\ which = "files" => PathCacheTrue /\ FileBlocksExact
    /\ which = "driver" => Driver!BlocksKeepData

\* Logs hold the newest of what was written and the audit chain verifies while
\* it is whole; sessions belong to enabled accounts; only keys that are down
\* repeat, and no finished line waits while a reader does (LogsKeepNewest,
\* AuditVerifies, SessionsValid, KeyboardExact, LinesClaimed).
ServicesExact ==
    /\ which \in {"logger", "bus", "bootlog", "api"} => LogsKeepNewest /\ AuditVerifies
    /\ which = "users" => SessionsValid
    /\ which \in {"keys", "lines"} => KeyboardExact /\ LinesClaimed
=============================================================================
