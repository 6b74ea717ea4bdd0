------------------------------ MODULE SimKernel ------------------------------
(***************************************************************************)
(* The kernel of the simulator (kernel.cpp): it owns the subsystems, moves *)
(* them on with its clock, routes system calls to them, and clears up      *)
(* after a process through the ProcessTerminated event.                    *)
(*                                                                         *)
(* EventBus::publish calls the subscribers with its mutex locked, and the  *)
(* subscriber for ProcessTerminated publishes again.  Locking a std::mutex *)
(* twice is undefined: the call goes on, or it never returns ("Hung").     *)
(* stopApp goes on using the instance that the same event has erased, with *)
(* the same two outcomes.                                                  *)
(*                                                                         *)
(* Of memory the model keeps which processes have any (SimMemory has the   *)
(* rest); files, users, the console and the screen have modules of their   *)
(* own.                                                                    *)
(***************************************************************************)
EXTENDS SimScheduler, SimIpc, SimIo, SimApps

CONSTANTS
    IdleProgram,        \* bound: the idle process has 999999 instructions
    AppProgram,         \* bound: an app has 100
    MaxBoots            \* bound: how often the kernel is started

VARIABLES
    state_,             \* KernelState
    apps,               \* AppRuntime
    memoryOf,           \* processes with frames, swap slots or a page table
    subscriptions_      \* handlers of ProcessTerminated on the bus

kernelVars == <<sch, ipc, told, live, io, state_, apps, memoryOf, subscriptions_>>

\* Every subsystem at once; hangs tells whether a call may fail to return.
Kernel == [sch |-> sch, ipc |-> ipc, told |-> told, io |-> io, apps |-> apps,
           memory |-> memoryOf, hangs |-> FALSE]

LivePids(s) == {p \in Pids(s) : s.processes[p].state # "Terminated"}

Becomes(k) ==
    /\ \A d \in DOMAIN k.io : Len(k.io[d].queue) <= MaxRequests
    /\ sch' = k.sch /\ ipc' = k.ipc /\ told' = k.told /\ io' = k.io
    /\ apps' = k.apps /\ memoryOf' = k.memory
    /\ live' = LivePids(k.sch)

\* A call that leaves the kernel in state st, if it returns.
Ends(k, st) ==
    \/ Becomes(k) /\ state_' = st /\ UNCHANGED subscriptions_
    \/ /\ k.hangs
       /\ state_' = "Hung"
       /\ UNCHANGED <<sch, ipc, told, live, io, apps, memoryOf, subscriptions_>>
-----------------------------------------------------------------------------
(* Subscribers of ProcessTerminated and the interrupt callback.            *)

\* Requests of the dead process stay with the devices.
OnTerminated_KeepsRequests(k, pid) ==
    LET r == cleanupProcess(k.ipc, pid)
    IN  [k EXCEPT !.ipc = r.ipc, !.told = (@ \ r.woken) \ {pid},
                  !.apps = onProcessTerminated(@, pid),
                  !.memory = @ \ {pid},
                  !.hangs = TRUE]

OnTerminated(k, pid) ==
    LET r == cleanupProcess(k.ipc, pid)
    IN  [k EXCEPT !.ipc = r.ipc, !.told = (@ \ r.woken) \ {pid},
                  !.io = cancelProcessRequests(@, pid),
                  !.apps = onProcessTerminated(@, pid),
                  !.memory = @ \ {pid},
                  !.hangs = TRUE]

\* publish(ProcessTerminated): every subscription of it, one after another.
Publish(k, pid) ==
    FoldLeft(LAMBDA r, n : OnTerminated(r, pid), k, [n \in 1 .. subscriptions_ |-> n])

\* What the scheduler does to the other subsystems: it becomes s, and the
\* deaths on the way are published.
Scheduled(k, s) ==
    LET dead == {p \in LivePids(k.sch) : s.processes[p].state = "Terminated"}
    IN  FoldLeft(Publish, [k EXCEPT !.sch = s], SetToSeq(dead))

Kill(k, pid) == Scheduled(k, killProcess(k.sch, pid))

OnInterrupt(k, pid) == [k EXCEPT !.sch = onIoComplete(@, pid)]

\* The pid is read after the instruction has run, when a process that waits
\* for the device has left the CPU already.
handleInstruction(k, type) ==
    IF type = "IoRequest" THEN [k EXCEPT !.io = submitRequest(@, "hdd0", k.sch.currentPid)]
    ELSE k

IoManagerTick(k) ==
    FoldLeft(OnInterrupt, [k EXCEPT !.io = IoTick(@)], Interrupts(k.io))

Ticked(k) ==
    LET scheduled == Scheduled(k, schedule(k.sch))
        type == InstructionType(scheduled.sch)
        executed == Scheduled(scheduled, executeCurrentProcess(scheduled.sch))
    IN  IoManagerTick(handleInstruction(executed, type))

Tick == state_ = "Running" /\ Ends(Ticked(Kernel), "Running")
Step == state_ = "Paused" /\ Ends(Ticked(Kernel), "Paused")
-----------------------------------------------------------------------------
(* System calls, while the kernel is up.                                   *)

\* A process that was told to wait makes no further calls, even if the end
\* of a device request has made it Ready in the meantime.
Up == state_ \in {"Running", "Paused"}
Callers == live \ told
Return(k) == Ends(k, state_)

handleProcessSyscall ==
    /\ Up
    /\ \/ \E program \in Programs, priority \in Priorities :
            Return([Kernel EXCEPT !.sch = createProcess(@, program, priority)])
       \/ \E pid \in live : Return(Kill(Kernel, pid))

handleMemorySyscall ==
    /\ Up
    /\ \E pid \in Callers : \/ Return([Kernel EXCEPT !.memory = @ \cup {pid}])
                            \/ Return([Kernel EXCEPT !.memory = @ \ {pid}])

handleIoSyscall ==
    /\ Up
    /\ \E pid \in Callers, d \in IoDevices :
         Return([Kernel EXCEPT !.io = submitRequest(@, d, pid)])

\* A call of the IPC manager; its caller is suspended if it must wait.
IpcCall(r, pid) ==
    Return([Kernel EXCEPT !.ipc = r.ipc, !.told = (@ \cup r.waits) \ r.woken,
                          !.sch = IF r.waits = {} THEN @ ELSE suspendProcess(@, pid)])

handleIpcSyscall ==
    /\ Up
    /\ \/ ipc.nextSem <= MaxSemaphores /\ \E v \in 0 .. MaxValue :
            Return([Kernel EXCEPT !.ipc = createSemaphore(@, v)])
       \/ ipc.nextMut <= MaxMutexes /\ Return([Kernel EXCEPT !.ipc = createMutex(@)])
       \/ \E pid \in Callers, id \in DOMAIN ipc.semaphores :
            \/ IpcCall(semaphoreWait(ipc, id, pid), pid)
            \/ ipc.semaphores[id].value < MaxValue
               /\ IpcCall(semaphoreSignal(ipc, id), pid)
       \/ \E pid \in Callers, id \in DOMAIN ipc.mutexes :
            \/ IpcCall(mutexLock(ipc, id, pid), pid)
            \/ IpcCall(mutexUnlock(ipc, id, pid), pid)

runApp(k, app) ==
    LET s == createProcess(k.sch, AppProgram, 5)
        pid == Len(s.processes)
    IN  IF ~isInstalled(k.apps, app) \/ s = k.sch THEN k
        ELSE [k EXCEPT !.sch = s, !.apps = Started(@, app, pid)]

stopApp(k, id) == IF id \notin DOMAIN k.apps.instances THEN k
                  ELSE Kill(k, k.apps.instances[id].pid)

StopAll(k, ids) == FoldLeft(stopApp, k, SetToSeq(ids))

uninstallApp(k, app, root) ==
    IF ~mayUninstall(k.apps, app, root) THEN k
    ELSE LET stopped == StopAll(k, instancesOf(k.apps, app))
         IN  [stopped EXCEPT !.apps.registry = Erase(@, app)]

handleAppSyscall ==
    /\ Up
    /\ \/ \E app \in Packages : Return([Kernel EXCEPT !.apps = installApp(@, app)])
       \/ \E app \in Packages \cup BuiltinApps :
            \/ Return(runApp(Kernel, app))
            \/ \E root \in BOOLEAN : Return(uninstallApp(Kernel, app, root))
       \/ \E id \in DOMAIN apps.instances : Return(stopApp(Kernel, id))
-----------------------------------------------------------------------------
(* The life of the kernel.                                                 *)

\* boot makes every subsystem anew, but subscribes to the bus once more.
Booted == [sch |-> createProcess(NewScheduler("RoundRobin", 1), IdleProgram, 255),
           ipc |-> NewIpc, told |-> {}, io |-> [d \in IoDevices |-> NewDevice],
           apps |-> NewRuntime, memory |-> {}, hangs |-> FALSE]

Boot ==
    /\ state_ \in {"Off", "ShutDown"} /\ subscriptions_ < MaxBoots
    /\ Becomes(Booted)
    /\ state_' = "Running" /\ subscriptions_' = subscriptions_ + 1

AllKilled(k) ==
    LET stopped == StopAll(k, DOMAIN k.apps.instances)
    IN  FoldLeft(Kill, stopped, SetToSeq(LivePids(stopped.sch)))

Shutdown == Up /\ Ends(AllKilled(Kernel), "ShutDown")

Pause == /\ state_ = "Running" /\ state_' = "Paused"
         /\ UNCHANGED <<sch, ipc, told, live, io, apps, memoryOf, subscriptions_>>
Resume == /\ state_ = "Paused" /\ state_' = "Running"
          /\ UNCHANGED <<sch, ipc, told, live, io, apps, memoryOf, subscriptions_>>

KernelInit ==
    /\ sch = NewScheduler("RoundRobin", 1) /\ ipc = NewIpc /\ told = {} /\ live = {}
    /\ io = <<>> /\ state_ = "Off" /\ apps = NewRuntime /\ memoryOf = {}
    /\ subscriptions_ = 0

KernelNext ==
    \/ Tick \/ Step \/ Boot \/ Shutdown \/ Pause \/ Resume
    \/ handleProcessSyscall \/ handleMemorySyscall \/ handleIoSyscall
    \/ handleIpcSyscall \/ handleAppSyscall
-----------------------------------------------------------------------------
\* Nothing is left of a terminated process in any subsystem, as long as the
\* kernel has not hung: it owns no mutex and waits for nothing, no device
\* has a request of it, no memory is its own, and no app instance is
\* attached to it (the ProcessTerminated handler of boot, through every way
\* to die: exit, kill, stopApp, uninstallApp, shutdown; also after a second
\* boot, when the handler runs twice).
DeadHoldNothing ==
    LET Waiters(table) == UNION {ToSet(table[id].waiting) : id \in DOMAIN table}
        Holders == Waiters(ipc.semaphores) \cup Waiters(ipc.mutexes)
                   \cup {ipc.mutexes[id].owner : id \in DOMAIN ipc.mutexes}
                   \cup UNION {{r.pid : r \in ToSet(io[d].queue)} : d \in DOMAIN io}
                   \cup memoryOf \cup DOMAIN apps.pidToInstance
                   \cup {apps.instances[id].pid : id \in DOMAIN apps.instances}
    IN  Holders \subseteq LivePids(sch) \cup {NoPid}
=============================================================================
