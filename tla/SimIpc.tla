------------------------------- MODULE SimIpc -------------------------------
(***************************************************************************)
(* Inter-process communication of the simulator (ipc.cpp): semaphores,     *)
(* mutexes, pipes, message queues and the search for deadlocks in the      *)
(* graph of who waits for what.                                            *)
(*                                                                         *)
(* ipc is the IPCManager.  A call that makes its caller wait puts it into  *)
(* told, where it stays until an IpcUnblocked event names it: a process    *)
(* that was told to wait makes no further calls.  Messages and bytes are   *)
(* counted, not told apart; names, totals and the history are left out.    *)
(***************************************************************************)
EXTENDS Naturals, FiniteSets, Sequences, SequencesExt

CONSTANTS
    IpcPids,
    MaxSemaphores, MaxMutexes, MaxPipes, MaxQueues,   \* bounds: how many are ever made
    MaxValue,           \* bound: value of a semaphore
    PipeSize,           \* bufferSize
    QueueSize           \* maxSize of a message queue

VARIABLES
    ipc,
    told,               \* processes told to wait
    live                \* processes that have not terminated

NoPid == 0

Add(f, x, v) == [y \in DOMAIN f \cup {x} |-> IF y = x THEN v ELSE f[y]]
Drop(f, x) == [y \in DOMAIN f \ {x} |-> f[y]]
Leaves(queue, pid) == SelectSeq(queue, LAMBDA p : p # pid)

addWaitEdge(c, pid, id, type) == [c EXCEPT !.waitGraph = Add(@, pid, <<type, id>>)]
removeWaitEdge(c, pid) == [c EXCEPT !.waitGraph = Drop(@, pid)]
RemoveWaitEdges(c, queue) == [c EXCEPT !.waitGraph =
    [p \in DOMAIN @ \ ToSet(queue) |-> @[p]]]

\* What a call does: the manager after it, who must wait, who is woken.
Done(c) == [ipc |-> c, waits |-> {}, woken |-> {}]
Blocks(c, pid) == [ipc |-> c, waits |-> {pid}, woken |-> {}]
Wakes(c, pid) == [ipc |-> c, waits |-> {}, woken |-> {pid} \ {NoPid}]
-----------------------------------------------------------------------------
(* Semaphores.                                                             *)

createSemaphore(c, initial) ==
    [c EXCEPT !.semaphores = Add(@, c.nextSem, [value |-> initial, waiting |-> <<>>]),
              !.nextSem = @ + 1]

semaphoreWait(c, id, pid) ==
    IF c.semaphores[id].value > 0
    THEN Done([c EXCEPT !.semaphores[id].value = @ - 1])
    ELSE Blocks(addWaitEdge([c EXCEPT !.semaphores[id].waiting = Append(@, pid)],
                            pid, id, "semaphore"), pid)

\* The value grows although somebody takes the signal at once.
semaphoreSignal_Both(c, id) ==
    IF c.semaphores[id].waiting # <<>>
    THEN LET woken == Head(c.semaphores[id].waiting)
         IN  Wakes(removeWaitEdge([c EXCEPT !.semaphores[id].waiting = Tail(@),
                                            !.semaphores[id].value = @ + 1],
                                  woken), woken)
    ELSE Done([c EXCEPT !.semaphores[id].value = @ + 1])

semaphoreSignal(c, id) ==
    IF c.semaphores[id].waiting # <<>>
    THEN LET woken == Head(c.semaphores[id].waiting)
         IN  Wakes(removeWaitEdge([c EXCEPT !.semaphores[id].waiting = Tail(@)],
                                  woken), woken)
    ELSE Done([c EXCEPT !.semaphores[id].value = @ + 1])

destroySemaphore(c, id) ==
    [RemoveWaitEdges(c, c.semaphores[id].waiting) EXCEPT
       !.semaphores = Drop(@, id)]
-----------------------------------------------------------------------------
(* Mutexes: owner is NoPid exactly when the mutex is not locked.           *)

createMutex(c) ==
    [c EXCEPT !.mutexes = Add(@, c.nextMut, [owner |-> NoPid, waiting |-> <<>>]),
              !.nextMut = @ + 1]

mutexLock(c, id, pid) ==
    IF c.mutexes[id].owner = NoPid THEN Done([c EXCEPT !.mutexes[id].owner = pid])
    ELSE IF c.mutexes[id].owner = pid THEN Done(c)
    ELSE Blocks(addWaitEdge([c EXCEPT !.mutexes[id].waiting = Append(@, pid)],
                            pid, id, "mutex"), pid)

mutexUnlock(c, id, pid) ==
    LET waiting == c.mutexes[id].waiting
    IN  IF c.mutexes[id].owner # pid THEN Done(c)
        ELSE IF waiting = <<>> THEN Done([c EXCEPT !.mutexes[id].owner = NoPid])
        ELSE Wakes(removeWaitEdge([c EXCEPT !.mutexes[id].waiting = Tail(@),
                                            !.mutexes[id].owner = Head(waiting)],
                                  Head(waiting)), Head(waiting))

destroyMutex(c, id) ==
    [RemoveWaitEdges(c, c.mutexes[id].waiting) EXCEPT !.mutexes = Drop(@, id)]
-----------------------------------------------------------------------------
(* Pipes and message queues.                                               *)

createPipe(c) ==
    [c EXCEPT !.pipes = Add(@, c.nextPipe, [bytes |-> 0, closed |-> FALSE,
                                            reader |-> NoPid, writer |-> NoPid]),
              !.nextPipe = @ + 1]

pipeWrite(c, id, pid, size) ==
    IF c.pipes[id].closed THEN Done(c)
    ELSE IF c.pipes[id].bytes + size > PipeSize
    THEN Blocks([c EXCEPT !.pipes[id].writer = pid], pid)
    ELSE Wakes([c EXCEPT !.pipes[id].bytes = @ + size, !.pipes[id].reader = NoPid],
               c.pipes[id].reader)

pipeRead(c, id, pid, maxBytes) ==
    LET bytes == c.pipes[id].bytes
        toRead == IF maxBytes < bytes THEN maxBytes ELSE bytes
    IN  IF bytes = 0
        THEN IF c.pipes[id].closed THEN Done(c)
             ELSE Blocks([c EXCEPT !.pipes[id].reader = pid], pid)
        ELSE Wakes([c EXCEPT !.pipes[id].bytes = @ - toRead, !.pipes[id].writer = NoPid],
                   c.pipes[id].writer)

closePipe(c, id) == [c EXCEPT !.pipes[id].closed = TRUE]
destroyPipe(c, id) == [c EXCEPT !.pipes = Drop(@, id)]

createMessageQueue(c) ==
    [c EXCEPT !.queues = Add(@, c.nextMq, [messages |-> 0, waiting |-> <<>>]),
              !.nextMq = @ + 1]

sendMessage(c, id) ==
    LET mq == c.queues[id]
    IN  IF mq.messages >= QueueSize THEN Done(c)
        ELSE IF mq.waiting = <<>> THEN Done([c EXCEPT !.queues[id].messages = @ + 1])
        ELSE Wakes([c EXCEPT !.queues[id] = [messages |-> mq.messages + 1,
                                             waiting |-> Tail(mq.waiting)]],
                   Head(mq.waiting))

receiveMessage(c, id, pid) ==
    IF c.queues[id].messages = 0
    THEN Blocks([c EXCEPT !.queues[id].waiting = Append(@, pid)], pid)
    ELSE Done([c EXCEPT !.queues[id].messages = @ - 1])

destroyMessageQueue(c, id) == [c EXCEPT !.queues = Drop(@, id)]
-----------------------------------------------------------------------------
(* Deadlocks.  A process waits for one thing at most, so the search follows *)
(* one edge from each process.                                             *)

findResourceOwner(c, edge) ==
    IF edge[1] = "mutex" /\ edge[2] \in DOMAIN c.mutexes THEN c.mutexes[edge[2]].owner
    ELSE NoPid

\* A process seen before ends the search, on the way or not.
RECURSIVE dfsDeadlock_Seen(_, _, _, _)
dfsDeadlock_Seen(c, pid, visited, inStack) ==
    LET owner == IF pid \in DOMAIN c.waitGraph
                 THEN findResourceOwner(c, c.waitGraph[pid]) ELSE NoPid
        seen == visited \cup {pid}
    IN  IF owner = NoPid \/ owner \in seen THEN [found |-> FALSE, visited |-> seen]
        ELSE dfsDeadlock_Seen(c, owner, seen, inStack \cup {pid})

RECURSIVE dfsDeadlock(_, _, _, _)
dfsDeadlock(c, pid, visited, inStack) ==
    LET owner == IF pid \in DOMAIN c.waitGraph
                 THEN findResourceOwner(c, c.waitGraph[pid]) ELSE NoPid
        seen == visited \cup {pid}
        stack == inStack \cup {pid}
    IN  IF owner # NoPid /\ owner \in stack THEN [found |-> TRUE, visited |-> seen]
        ELSE IF owner = NoPid \/ owner \in seen THEN [found |-> FALSE, visited |-> seen]
        ELSE dfsDeadlock(c, owner, seen, stack)

detectDeadlock(c) ==
    LET Search(r, pid) == IF r.found \/ pid \in r.visited THEN r
                          ELSE dfsDeadlock(c, pid, r.visited, {})
    IN  FoldLeft(Search, [found |-> FALSE, visited |-> {}],
                 SetToSeq(DOMAIN c.waitGraph)).found

\* The path dfsDeadlockPath leaves behind: from pid to the first repetition.
RECURSIVE dfsDeadlockPath(_, _, _, _)
dfsDeadlockPath(c, pid, visited, path) ==
    LET owner == IF pid \in DOMAIN c.waitGraph
                 THEN findResourceOwner(c, c.waitGraph[pid]) ELSE NoPid
        seen == visited \cup {pid}
        longer == Append(path, pid)
    IN  IF owner # NoPid /\ owner \in ToSet(longer)
        THEN [path |-> Append(longer, owner), visited |-> seen]
        ELSE IF owner = NoPid \/ owner \in seen THEN [path |-> <<>>, visited |-> seen]
        ELSE dfsDeadlockPath(c, owner, seen, longer)

getDeadlockedProcesses(c) ==
    LET Search(r, pid) == IF r.path # <<>> \/ pid \in r.visited THEN r
                          ELSE dfsDeadlockPath(c, pid, r.visited, <<>>)
    IN  FoldLeft(Search, [path |-> <<>>, visited |-> {}],
                 SetToSeq(DOMAIN c.waitGraph)).path

\* Everything a terminated process held or waited for.
cleanupProcess(c, pid) ==
    LET Owned == {id \in DOMAIN c.mutexes : c.mutexes[id].owner = pid}
        Unlock(r, id) == [ipc |-> mutexUnlock(r.ipc, id, pid).ipc,
                          woken |-> r.woken \cup mutexUnlock(r.ipc, id, pid).woken]
        r == FoldLeft(Unlock, [ipc |-> c, woken |-> {}], SetToSeq(Owned))
        Away(rec) == [rec EXCEPT !.waiting = Leaves(@, pid)]
        Off(p) == IF p = pid THEN NoPid ELSE p
    IN  [ipc |-> [removeWaitEdge(r.ipc, pid) EXCEPT
                    !.semaphores = [id \in DOMAIN @ |-> Away(@[id])],
                    !.mutexes = [id \in DOMAIN @ |-> Away(@[id])],
                    !.pipes = [id \in DOMAIN @ |-> [@[id] EXCEPT !.reader = Off(@),
                                                                 !.writer = Off(@)]],
                    !.queues = [id \in DOMAIN @ |-> Away(@[id])]],
         waits |-> {}, woken |-> r.woken]

NewIpc == [semaphores |-> <<>>, mutexes |-> <<>>, pipes |-> <<>>, queues |-> <<>>,
           waitGraph |-> <<>>, nextSem |-> 1, nextMut |-> 1, nextPipe |-> 1, nextMq |-> 1]
-----------------------------------------------------------------------------
(* The IPC manager alone.                                                  *)

Apply(r) == /\ ipc' = r.ipc
            /\ told' = (told \cup r.waits) \ r.woken

Create ==
    /\ \/ ipc.nextSem <= MaxSemaphores
          /\ \E v \in 0 .. MaxValue : ipc' = createSemaphore(ipc, v)
       \/ ipc.nextMut <= MaxMutexes /\ ipc' = createMutex(ipc)
       \/ ipc.nextPipe <= MaxPipes /\ ipc' = createPipe(ipc)
       \/ ipc.nextMq <= MaxQueues /\ ipc' = createMessageQueue(ipc)
    /\ UNCHANGED <<told, live>>

Destroy ==
    /\ \/ \E id \in DOMAIN ipc.semaphores : ipc' = destroySemaphore(ipc, id)
       \/ \E id \in DOMAIN ipc.mutexes : ipc' = destroyMutex(ipc, id)
       \/ \E id \in DOMAIN ipc.pipes : ipc' \in {closePipe(ipc, id), destroyPipe(ipc, id)}
       \/ \E id \in DOMAIN ipc.queues : ipc' = destroyMessageQueue(ipc, id)
    /\ UNCHANGED <<told, live>>

Call(pid) ==
    /\ pid \in live \ told
    /\ \/ \E id \in DOMAIN ipc.semaphores : Apply(semaphoreWait(ipc, id, pid))
       \/ \E id \in DOMAIN ipc.semaphores :
            ipc.semaphores[id].value < MaxValue /\ Apply(semaphoreSignal(ipc, id))
       \/ \E id \in DOMAIN ipc.mutexes : Apply(mutexLock(ipc, id, pid))
       \/ \E id \in DOMAIN ipc.mutexes : Apply(mutexUnlock(ipc, id, pid))
       \/ \E id \in DOMAIN ipc.pipes, n \in 1 .. PipeSize : Apply(pipeWrite(ipc, id, pid, n))
       \/ \E id \in DOMAIN ipc.pipes, n \in 1 .. PipeSize : Apply(pipeRead(ipc, id, pid, n))
       \/ \E id \in DOMAIN ipc.queues : Apply(sendMessage(ipc, id))
       \/ \E id \in DOMAIN ipc.queues : Apply(receiveMessage(ipc, id, pid))
    /\ UNCHANGED live

Terminate(pid) ==
    /\ pid \in live
    /\ Apply(cleanupProcess(ipc, pid))
    /\ live' = live \ {pid}

SimIpcInit == ipc = NewIpc /\ told = {} /\ live = IpcPids
SimIpcNext == Create \/ Destroy \/ \E pid \in IpcPids : Call(pid) \/ Terminate(pid)
-----------------------------------------------------------------------------
\* The wait graph is exactly the waiting lists of semaphores and mutexes;
\* nobody waits for a semaphore that has a value or a mutex that is free or
\* its own; and a terminated process neither waits nor owns anything
\* (semaphoreWait/Signal, mutexLock/Unlock, cleanupProcess).
WaitersExact ==
    LET Edges == {<<p, ipc.waitGraph[p]>> : p \in DOMAIN ipc.waitGraph}
        On(type, table) == UNION {{<<p, <<type, id>>>> : p \in ToSet(table[id].waiting)} :
                                   id \in DOMAIN table}
    IN  /\ Edges = On("semaphore", ipc.semaphores) \cup On("mutex", ipc.mutexes)
        /\ \A id \in DOMAIN ipc.semaphores :
             ipc.semaphores[id].waiting # <<>> => ipc.semaphores[id].value = 0
        /\ \A id \in DOMAIN ipc.mutexes :
             LET m == ipc.mutexes[id]
             IN  /\ m.waiting # <<>> => m.owner # NoPid
                 /\ m.owner \notin ToSet(m.waiting)
                 /\ m.owner \in live \cup {NoPid}
        /\ DOMAIN ipc.waitGraph \subseteq live \cap told

\* detectDeadlock finds a deadlock exactly when there is one: a set of
\* processes each of which waits for a mutex another one of them owns.  The
\* processes getDeadlockedProcesses lists then contain such a set, and are
\* all blocked by it.
DeadlockExact ==
    LET Blocker(p) == findResourceOwner(ipc, ipc.waitGraph[p])
        Stuck(S) == S # {} /\ \A p \in S : Blocker(p) \in S
        listed == ToSet(getDeadlockedProcesses(ipc))
    IN  /\ detectDeadlock(ipc) <=> \E S \in SUBSET DOMAIN ipc.waitGraph : Stuck(S)
        /\ detectDeadlock(ipc) => Stuck(listed)
        /\ ~detectDeadlock(ipc) => listed = {}
=============================================================================
