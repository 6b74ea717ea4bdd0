---------------------------- MODULE SimScheduler ----------------------------
(***************************************************************************)
(* The process scheduler of the simulator (scheduler.cpp, process.cpp):    *)
(* the life cycle of the processes and the four scheduling algorithms.     *)
(*                                                                         *)
(* A scheduler is one record, and every method an operator on it, so that  *)
(* SimKernel can run several of them in one step.  A process is never      *)
(* taken out of processes_, so the table is a sequence indexed by pid.     *)
(* Left out: names, owners, exit codes and everything that is only         *)
(* counted or drawn (waiting times, CPU usage, the Gantt chart).           *)
(***************************************************************************)
EXTENDS Naturals, FiniteSets, Sequences, SequencesExt

CONSTANTS
    MaxProcesses,       \* config_.maxProcesses
    Programs,           \* instruction sequences a process may be given
    Priorities,
    Quanta,             \* values of timeQuantum_
    AGING_INTERVAL

ASSUME SimSchedulerAssumption ==
    /\ MaxProcesses \in Nat \ {0} /\ AGING_INTERVAL \in Nat \ {0}
    /\ Quanta \subseteq Nat

VARIABLE sch            \* the Scheduler object

INVALID_PID == 0
MAX_LEVEL == 2
Algorithms == {"FCFS", "RoundRobin", "Priority", "MultilevelQueue"}
ProcessStates == {"Ready", "Running", "Waiting", "Terminated"}

Pids(s) == DOMAIN s.processes
Current(s) == s.processes[s.currentPid]
hasMoreInstructions(p) == p.programCounter <= Len(p.instructions)
removeFromQueue(queue, pid) == SelectSeq(queue, LAMBDA p : p # pid)
changeState(s, pid, new) == [s EXCEPT !.processes[pid].state = new]
-----------------------------------------------------------------------------
(* The algorithms.                                                         *)

FirstReady(queue) == IF queue = <<>> THEN INVALID_PID ELSE Head(queue)

\* The first of the queue with the smallest key.
Best(queue, key(_)) ==
    LET first == CHOOSE i \in DOMAIN queue :
                   /\ \A j \in DOMAIN queue : key(queue[i]) <= key(queue[j])
                   /\ \A j \in 1 .. i - 1 : key(queue[i]) < key(queue[j])
    IN  IF queue = <<>> THEN INVALID_PID ELSE queue[first]

getQuantumForLevel(level) ==
    IF level = 0 THEN 2 ELSE IF level = 1 THEN 4 ELSE 8

FCFS_selectNext(s) ==
    IF s.currentPid # INVALID_PID THEN s.currentPid ELSE FirstReady(s.readyQueue)

RoundRobin_selectNext(s) ==
    IF s.currentPid # INVALID_PID /\ Current(s).quantumRemaining > 0
    THEN s.currentPid
    ELSE FirstReady(s.readyQueue)

Priority_selectNext(s) ==
    Best(s.readyQueue, LAMBDA p : s.processes[p].priority)

MultilevelQueue_selectNext(s) ==
    LET level(p) == s.processes[p].queueLevel
        higher == SelectSeq(s.readyQueue, LAMBDA p : level(p) < level(s.currentPid))
    IN  IF s.currentPid # INVALID_PID /\ Current(s).quantumRemaining > 0
        THEN IF higher = <<>> THEN s.currentPid ELSE Head(higher)
        ELSE Best(s.readyQueue, level)

selectNext(s) ==
    CASE s.algorithm = "FCFS" -> FCFS_selectNext(s)
      [] s.algorithm = "RoundRobin" -> RoundRobin_selectNext(s)
      [] s.algorithm = "Priority" -> Priority_selectNext(s)
      [] s.algorithm = "MultilevelQueue" -> MultilevelQueue_selectNext(s)

\* selectNext of the multilevel queue also counts the ticks up to the next
\* boost, and starts again from 0 when the interval is over.
CountAging(s) ==
    IF s.algorithm # "MultilevelQueue" THEN s
    ELSE [s EXCEPT !.ticksSinceBoost =
                     IF @ + 1 >= AGING_INTERVAL THEN 0 ELSE @ + 1]

RoundRobin_shouldPreempt(s) ==
    Current(s).quantumRemaining = 0 /\ s.readyQueue # <<>>

Priority_shouldPreempt(s) ==
    \E i \in DOMAIN s.readyQueue :
        s.processes[s.readyQueue[i]].priority < Current(s).priority

MultilevelQueue_shouldPreempt(s) ==
    IF Current(s).quantumRemaining = 0 THEN s.readyQueue # <<>>
    ELSE \E i \in DOMAIN s.readyQueue :
            s.processes[s.readyQueue[i]].queueLevel < Current(s).queueLevel

shouldPreempt(s) ==
    CASE s.algorithm = "FCFS" -> FALSE
      [] s.algorithm = "RoundRobin" -> RoundRobin_shouldPreempt(s)
      [] s.algorithm = "Priority" -> Priority_shouldPreempt(s)
      [] s.algorithm = "MultilevelQueue" -> MultilevelQueue_shouldPreempt(s)

onQuantumExpired(s, p) ==
    CASE s.algorithm = "RoundRobin" ->
           [p EXCEPT !.quantumRemaining = s.timeQuantum]
      [] s.algorithm = "MultilevelQueue" ->
           LET level == IF p.queueLevel < MAX_LEVEL THEN p.queueLevel + 1
                        ELSE p.queueLevel
           IN  [p EXCEPT !.queueLevel = level,
                         !.quantumRemaining = getQuantumForLevel(level)]
      [] OTHER -> p

shouldBoost(s) ==
    s.algorithm = "MultilevelQueue" /\ s.ticksSinceBoost >= AGING_INTERVAL
-----------------------------------------------------------------------------
(* The life of a process.                                                  *)

createProcess(s, program, priority) ==
    IF Len(s.processes) >= MaxProcesses THEN s
    ELSE [s EXCEPT
            !.processes = Append(@,
                [state |-> "Ready", instructions |-> program,
                 programCounter |-> 1, priority |-> priority,
                 quantumRemaining |-> s.timeQuantum, queueLevel |-> 0]),
            !.readyQueue = Append(@, Len(s.processes) + 1)]

killProcess(s, pid) ==
    IF pid \notin Pids(s) \/ s.processes[pid].state = "Terminated" THEN s
    ELSE [changeState(s, pid, "Terminated") EXCEPT
            !.currentPid = IF @ = pid THEN INVALID_PID ELSE @,
            !.readyQueue = removeFromQueue(@, pid),
            !.waitingQueue = removeFromQueue(@, pid)]

suspendProcess(s, pid) ==
    IF pid \notin Pids(s) \/ s.processes[pid].state \notin {"Running", "Ready"}
    THEN s
    ELSE [changeState(s, pid, "Waiting") EXCEPT
            !.currentPid = IF @ = pid THEN INVALID_PID ELSE @,
            !.readyQueue = removeFromQueue(@, pid),
            !.waitingQueue = Append(@, pid)]

resumeProcess(s, pid) ==
    IF pid \notin Pids(s) \/ s.processes[pid].state # "Waiting" THEN s
    ELSE [changeState(s, pid, "Ready") EXCEPT
            !.waitingQueue = removeFromQueue(@, pid),
            !.readyQueue = Append(@, pid)]

onIoComplete(s, pid) == resumeProcess(s, pid)
-----------------------------------------------------------------------------
(* One tick.                                                               *)

\* Every process that wants the CPU starts again on level 0.
Refreshed(s, level0(_)) ==
    [s EXCEPT !.processes =
       [p \in DOMAIN @ |->
          IF @[p].state \in {"Ready", "Running"} THEN level0(@[p]) ELSE @[p]]]

TopLevel(p) == [p EXCEPT !.queueLevel = 0,
                         !.quantumRemaining = getQuantumForLevel(0)]

Boost(s) == IF shouldBoost(s) THEN Refreshed(s, TopLevel) ELSE s

ReleaseFinished(s) ==
    IF s.currentPid # INVALID_PID /\ ~hasMoreInstructions(Current(s))
    THEN killProcess(s, s.currentPid)
    ELSE s

ChargeQuantum(s) ==
    IF s.currentPid = INVALID_PID \/ Current(s).quantumRemaining = 0 THEN s
    ELSE [s EXCEPT !.processes[s.currentPid].quantumRemaining = @ - 1]

Preempt(s) ==
    IF s.currentPid = INVALID_PID \/ ~shouldPreempt(s) THEN s
    ELSE [s EXCEPT !.processes[s.currentPid] =
                        onQuantumExpired(s, [@ EXCEPT !.state = "Ready"]),
                   !.readyQueue = Append(@, s.currentPid),
                   !.currentPid = INVALID_PID]

\* The process that leaves the CPU keeps its place.
contextSwitch_NoReturn(s, newPid) ==
    LET p == [s.processes[newPid] EXCEPT !.state = "Running"]
    IN  [s EXCEPT !.processes[newPid] = p,
                  !.readyQueue = removeFromQueue(@, newPid),
                  !.currentPid = newPid]

contextSwitch(s, newPid) ==
    LET leaves == s.currentPid # INVALID_PID /\ Current(s).state = "Running"
        left == IF leaves
                THEN [changeState(s, s.currentPid, "Ready") EXCEPT
                        !.readyQueue = Append(@, s.currentPid)]
                ELSE s
        quantum == IF s.algorithm = "MultilevelQueue"
                   THEN getQuantumForLevel(s.processes[newPid].queueLevel)
                   ELSE s.timeQuantum
    IN  [changeState(left, newPid, "Running") EXCEPT
           !.processes[newPid].quantumRemaining = IF @ = 0 THEN quantum ELSE @,
           !.readyQueue = removeFromQueue(@, newPid),
           !.currentPid = newPid]

schedule(s) ==
    LET ready == Preempt(ChargeQuantum(ReleaseFinished(Boost(s))))
        next == selectNext(ready)
        counted == CountAging(ready)
    IN  IF next # INVALID_PID /\ next # ready.currentPid
        THEN contextSwitch(counted, next)
        ELSE counted

\* The instruction the process on the CPU is about to execute.
InstructionType(s) ==
    IF s.currentPid = INVALID_PID THEN "none"
    ELSE IF ~hasMoreInstructions(Current(s)) THEN "Exit"
    ELSE Current(s).instructions[Current(s).programCounter]

executeCurrentProcess(s) ==
    LET pid == s.currentPid
        type == InstructionType(s)
        advanced == [s EXCEPT !.processes[pid].programCounter = @ + 1]
    IN  CASE type = "none" -> s
          [] type = "Exit" -> killProcess(s, pid)
          [] type \in {"IoRequest", "Sleep"} ->
               [changeState(advanced, pid, "Waiting") EXCEPT
                  !.readyQueue = removeFromQueue(@, pid),
                  !.waitingQueue = Append(@, pid),
                  !.currentPid = INVALID_PID]
          [] type \in {"CpuWork", "MemoryAccess", "IpcOperation"} -> advanced
-----------------------------------------------------------------------------
(* Changing the algorithm while processes run.                             *)

setAlgorithm(s, algo) ==
    LET chosen == [s EXCEPT !.algorithm = algo, !.ticksSinceBoost = 0]
        FullQuantum(p) == [p EXCEPT !.quantumRemaining = s.timeQuantum]
    IN  CASE algo = "RoundRobin" -> Refreshed(chosen, FullQuantum)
          [] algo = "MultilevelQueue" -> Refreshed(chosen, TopLevel)
          [] OTHER -> chosen

setTimeQuantum(s, quantum) == [s EXCEPT !.timeQuantum = quantum]

NewScheduler(algo, quantum) ==
    [processes |-> <<>>, readyQueue |-> <<>>, waitingQueue |-> <<>>,
     currentPid |-> INVALID_PID, algorithm |-> algo, timeQuantum |-> quantum,
     ticksSinceBoost |-> 0]
-----------------------------------------------------------------------------
(* The scheduler alone, called in any order.                               *)

SchedulerTick == sch' = executeCurrentProcess(schedule(sch))
SchedulerCreate == \E program \in Programs, priority \in Priorities :
                      sch' = createProcess(sch, program, priority)
SchedulerCall ==
    \E pid \in Pids(sch) :
        \/ sch' = killProcess(sch, pid)
        \/ sch' = suspendProcess(sch, pid)
        \/ sch' = resumeProcess(sch, pid)
SchedulerTune ==
    \/ \E algo \in Algorithms : sch' = setAlgorithm(sch, algo)
    \/ \E quantum \in Quanta : sch' = setTimeQuantum(sch, quantum)

SchedulerInit ==
    \E algo \in Algorithms, quantum \in Quanta : sch = NewScheduler(algo, quantum)

SchedulerNext ==
    SchedulerTick \/ SchedulerCreate \/ SchedulerCall \/ SchedulerTune
-----------------------------------------------------------------------------
(* Properties.                                                             *)

\* The queues are exact: the ready queue holds every Ready process once and
\* nothing else, the waiting queue every Waiting one, and the process on
\* the CPU is the only Running one (createProcess, killProcess,
\* suspendProcess, resumeProcess, schedule, executeCurrentProcess).
QueuesExact ==
    LET In(st) == {p \in Pids(sch) : sch.processes[p].state = st}
        Lists(queue, S) == ToSet(queue) = S /\ Len(queue) = Cardinality(S)
    IN  /\ Lists(sch.readyQueue, In("Ready"))
        /\ Lists(sch.waitingQueue, In("Waiting"))
        /\ In("Running") = {sch.currentPid} \ {INVALID_PID}
=============================================================================
