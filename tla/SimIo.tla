-------------------------------- MODULE SimIo --------------------------------
(***************************************************************************)
(* Devices of the simulator (io_manager.cpp): a queue of requests and a    *)
(* state per device, moved on by one tick of the kernel's clock, and the   *)
(* order in which disk requests are to be served.  Data, sizes, request    *)
(* numbers and totals are left out.                                        *)
(***************************************************************************)
EXTENDS Naturals, FiniteSets, Sequences, SequencesExt

CONSTANTS
    IoDevices,          \* names of devices
    Latency,            \* latency[d]: ticks one operation of d takes
    MaxRequests         \* bound: length of a device's queue

VARIABLE io             \* devices_

NewDevice == [state |-> "Idle", queue |-> <<>>]

registerDevice(devices, d) ==
    IF d \in DOMAIN devices THEN devices
    ELSE [x \in DOMAIN devices \cup {d} |-> IF x = d THEN NewDevice ELSE devices[x]]

removeDevice(devices, d) ==
    IF d \notin DOMAIN devices \/ devices[d].queue # <<>> THEN devices
    ELSE [x \in DOMAIN devices \ {d} |-> devices[x]]

submitRequest(devices, d, pid) ==
    IF d \notin DOMAIN devices THEN devices
    ELSE [devices EXCEPT ![d].queue = Append(@, [pid |-> pid, remaining |-> Latency[d]])]

\* A tick on one device: what it becomes, and the pids it interrupts for.
\* The request at the head is worked on, and finished when nothing remains.
\* A device that is idle afterwards takes up its next request.
DeviceTick(dev) ==
    LET working == dev.state = "Busy" /\ dev.queue # <<>>
        left == IF Head(dev.queue).remaining > 0 THEN Head(dev.queue).remaining - 1 ELSE 0
        finished == working /\ left = 0
        queue == IF finished THEN Tail(dev.queue)
                 ELSE IF working THEN [dev.queue EXCEPT ![1].remaining = left]
                 ELSE dev.queue
        state == IF finished /\ queue = <<>> THEN "Idle" ELSE dev.state
    IN  [dev |-> [state |-> IF state = "Idle" /\ queue # <<>> THEN "Busy" ELSE state,
                  queue |-> queue],
         pids |-> IF finished THEN <<Head(dev.queue).pid>> ELSE <<>>]

IoTick(devices) == [d \in DOMAIN devices |-> DeviceTick(devices[d]).dev]

\* The processes whose requests this tick completes, device by device.
Interrupts(devices) ==
    FoldLeft(LAMBDA pids, d : pids \o DeviceTick(devices[d]).pids,
             <<>>, SetToSeq(DOMAIN devices))

\* The device stays busy although its queue is empty now.
cancelProcessRequests_StillBusy(devices, pid) ==
    [d \in DOMAIN devices |->
        [devices[d] EXCEPT !.queue = SelectSeq(@, LAMBDA r : r.pid # pid)]]

cancelProcessRequests(devices, pid) ==
    LET Others(queue) == SelectSeq(queue, LAMBDA r : r.pid # pid)
    IN  [d \in DOMAIN devices |->
            [queue |-> Others(devices[d].queue),
             state |-> IF Others(devices[d].queue) = <<>> /\ devices[d].state = "Busy"
                       THEN "Idle" ELSE devices[d].state]]
-----------------------------------------------------------------------------
(* getDiskScheduleOrder.                                                   *)

Distance(a, b) == IF a > b THEN a - b ELSE b - a

\* Shortest seek first: again and again the nearest of what is left, the
\* first of several.
RECURSIVE SSTF(_, _)
SSTF(requests, head) ==
    IF requests = <<>> THEN <<>>
    ELSE LET best == CHOOSE i \in DOMAIN requests :
                /\ \A j \in DOMAIN requests :
                     Distance(requests[i], head) <= Distance(requests[j], head)
                /\ \A j \in 1 .. i - 1 :
                     Distance(requests[i], head) < Distance(requests[j], head)
         IN  <<requests[best]>> \o SSTF(RemoveAt(requests, best), requests[best])

\* The elevator: upwards from the head, then downwards from it.
SCAN(requests, head) ==
    SortSeq(SelectSeq(requests, LAMBDA r : r >= head), <)
    \o SortSeq(SelectSeq(requests, LAMBDA r : r < head), >)

getDiskScheduleOrder(algo, requests, head) ==
    CASE algo = "FCFS" -> requests
      [] algo = "SSTF" -> SSTF(requests, head)
      [] algo = "SCAN" -> SCAN(requests, head)
-----------------------------------------------------------------------------
\* A device works on one request at a time, from the first tick to the
\* last: it is idle when it has none, and every request but the head of
\* the queue of a busy device still has its whole latency before it
\* (tick, submitRequest, cancelProcessRequests).
OneRequestAtATime ==
    \A d \in DOMAIN io :
        /\ io[d].state = "Busy" => io[d].queue # <<>>
        /\ \A i \in DOMAIN io[d].queue :
             (i > 1 \/ io[d].state = "Idle") => io[d].queue[i].remaining = Latency[d]

\* No request is forgotten or served twice, whatever the algorithm.
OrderServesAll(requests, head) ==
    \A algo \in {"FCFS", "SSTF", "SCAN"} :
        LET order == getDiskScheduleOrder(algo, requests, head)
            Times(s, r) == Cardinality({i \in DOMAIN s : s[i] = r})
        IN  \A r \in ToSet(requests) \cup ToSet(order) : Times(order, r) = Times(requests, r)
=============================================================================
