---------------------------- MODULE IpcMessages ----------------------------
(***************************************************************************)
(* Message passing between threads (sys_send_msg and sys_recv_msg of       *)
(* kernel/src/syscall_gate.cpp): every thread has a ring of                *)
(* IPC_MSG_QUEUE_SIZE messages; a receiver that finds it empty sets        *)
(* waiting_for_msg and blocks.  Both calls run with interrupts off.  A     *)
(* message is its sender and an abstract payload; its size and the cut at  *)
(* the receiver's buffer are left out.                                     *)
(***************************************************************************)
EXTENDS TaskScheduler, Sequences

CONSTANTS
    QueueSize,      \* IPC_MSG_QUEUE_SIZE
    Payloads,
    Targets         \* the tids messages are sent to

ASSUME QueueAssumption ==
    /\ QueueSize \in Nat \ {0}
    /\ NoChannel \in Channels
    /\ Targets \subseteq Tids

VARIABLES
    ring,               \* messages, msg_head, msg_tail and msg_count of a thread
    waiting_for_msg,    \* Thread::waiting_for_msg, as the set of threads it is set for
    in_recv             \* the threads inside sys_recv_msg, between two passes

ipcVars == <<schedVars, ring, waiting_for_msg, in_recv>>

\* A receiver blocks on no channel: the value of Channels where nobody else blocks.
RecvChannels == {NoChannel}

Slots == 0..(QueueSize - 1)
Message == [sender : Tids, data : Payloads]
NoMessage == [sender |-> 0, data |-> CHOOSE d \in Payloads : TRUE]

\* A cleared ring: the indices are reset, the slots keep what they held.
Cleared(r) == [r EXCEPT !.head = 0, !.tail = 0, !.count = 0]

IpcInit ==
    /\ Init
    /\ ring = [t \in Tids |-> [messages |-> [i \in Slots |-> NoMessage],
                               head |-> 0, tail |-> 0, count |-> 0]]
    /\ waiting_for_msg = {}
    /\ in_recv = {}

Interruptible == current_tid \notin in_recv
InCall == Working /\ Interruptible

-----------------------------------------------------------------------------
\* sys_send_msg fails for a thread that is not there, and when the ring is full.
CanReceive(t) == threads[t].state \notin {"Unused", "Terminated"}

\* Mutant: the message goes where the oldest one is.
Put_AtHead(r, m) ==
    [r EXCEPT !.messages[r.head] = m, !.tail = (@ + 1) % QueueSize, !.count = @ + 1]

Put(r, m) ==
    [r EXCEPT !.messages[r.tail] = m, !.tail = (@ + 1) % QueueSize, !.count = @ + 1]

Take(r) == [r EXCEPT !.head = (@ + 1) % QueueSize, !.count = @ - 1]

HasRoom(r) == r.count < QueueSize

\* Mutant: the receiver is not woken.
sys_send_msg_NoWake(t, d) ==
    /\ InCall
    /\ CanReceive(t)
    /\ HasRoom(ring[t])
    /\ ring' = [ring EXCEPT ![t] = Put(@, [sender |-> current_tid, data |-> d])]
    /\ UNCHANGED <<schedVars, waiting_for_msg, in_recv>>

sys_send_msg(t, d) ==
    /\ InCall
    /\ CanReceive(t)
    /\ HasRoom(ring[t])
    /\ ring' = [ring EXCEPT ![t] = Put(@, [sender |-> current_tid, data |-> d])]
    /\ waiting_for_msg' = waiting_for_msg \ {t}
    /\ threads' = IF t \in waiting_for_msg THEN Unblocked(threads, t) ELSE threads
    /\ UNCHANGED <<current_tid, aging_counter, dirs, cr3, in_recv>>

\* One pass of the loop of sys_recv_msg: take the oldest message, or block.
RecvLoop ==
    \/ /\ ring[current_tid].count > 0
       /\ ring' = [ring EXCEPT ![current_tid] = Take(@)]
       /\ in_recv' = in_recv \ {current_tid}
       /\ UNCHANGED <<schedVars, waiting_for_msg>>
    \/ /\ ring[current_tid].count = 0
       /\ waiting_for_msg' = waiting_for_msg \cup {current_tid}
       /\ in_recv' = in_recv \cup {current_tid}
       /\ block_current(NoChannel)
       /\ UNCHANGED ring

sys_recv_msg == InCall /\ RecvLoop
recv_resume == Executing /\ current_tid \in in_recv /\ RecvLoop

-----------------------------------------------------------------------------
\* Threads come and go; a new one starts with an empty ring.
ipc_timer == Interruptible /\ TimerIrq /\ UNCHANGED <<ring, waiting_for_msg, in_recv>>
ipc_create ==
    /\ Interruptible
    /\ \E p \in Priorities : thread_create(p)
    /\ ring' = [ring EXCEPT ![FirstFree] = Cleared(@)]
    /\ waiting_for_msg' = waiting_for_msg \ {FirstFree}
    /\ in_recv' = in_recv \ {FirstFree}
ipc_kill(t) == InCall /\ thread_terminate(t) /\ UNCHANGED <<ring, waiting_for_msg, in_recv>>

IpcNext ==
    \/ ipc_timer
    \/ ipc_create
    \/ \E t \in KillTargets : ipc_kill(t)
    \/ \E t \in Targets, d \in Payloads : sys_send_msg(t, d)
    \/ sys_recv_msg
    \/ recv_resume

IpcSpec == IpcInit /\ [][IpcNext]_ipcVars

\* The timer ticks, and a thread switched to inside sys_recv_msg goes on.
IpcFairSpec == IpcSpec /\ WF_ipcVars(ipc_timer) /\ WF_ipcVars(recv_resume)

-----------------------------------------------------------------------------
(* Properties *)

\* No message is slept through: a thread blocked in sys_recv_msg has an empty
\* ring and has asked to be woken, whoever else sends, dies or is created.
NoMissedMessage ==
    \A t \in in_recv : threads[t].state = "Blocked"
        => ring[t].count = 0 /\ t \in waiting_for_msg

\* A message for a thread inside sys_recv_msg ends the call, or it is killed,
\* unless other threads keep it from running.
MessageEndsRecv ==
    \A t \in Tids : NotStarved(t) =>
        ((t \in in_recv /\ CanReceive(t) /\ ring[t].count > 0)
            ~> (t \notin in_recv \/ ~CanReceive(t)))

\* The messages of a ring, oldest first.
Contents(t) ==
    [i \in 1..ring[t].count |-> ring[t].messages[(ring[t].head + i - 1) % QueueSize]]

Mail == INSTANCE Mailbox
    WITH Owners <- Tids, Messages <- Message, Capacity <- QueueSize,
         mail <- [t \in Tids |-> Contents(t)]

\* The rings implement mailboxes.
RingIsMailbox == Mail!Spec
=============================================================================
