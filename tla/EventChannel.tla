---------------------------- MODULE EventChannel ----------------------------
(***************************************************************************)
(* Event channels (kernel/src/event_channel.cpp): a ring of events and a   *)
(* bounded list of waiting threads per channel.  Hardware interrupts push  *)
(* into channels 0..15, user programs send and receive (sys_send,          *)
(* sys_recv, sys_wait_irq).  wait() is only called from system calls, that *)
(* is with interrupts off, also when it goes on after having blocked.      *)
(***************************************************************************)
EXTENDS TaskScheduler, Sequences

CONSTANTS
    BufferSize,     \* CHANNEL_BUFFER_SIZE
    MaxWaiters,     \* MAX_WAITERS
    Active,         \* the channels in use: the interrupt lines and the drivers'
    Irqs,           \* those the hardware pushes into
    Data            \* event values

ASSUME ChannelAssumption ==
    /\ BufferSize \in Nat \ {0, 1}
    /\ MaxWaiters \in Nat
    /\ Active \subseteq Channels
    /\ Irqs \subseteq Channels
    /\ NoChannel \notin Channels
    /\ 1 \in Data

VARIABLES
    channels,       \* EventSystem::channels_
    waiting,        \* the channel a thread is inside wait() for, or NoChannel
    unlisted        \* history: the threads whose last block found the list full

evVars == <<schedVars, channels, waiting, unlisted>>

Slots == 0..(BufferSize - 1)

\* EventSystem::init, and the channels created at boot.
EvInit ==
    /\ Init
    /\ channels = [c \in Channels |->
                     [active |-> c \in Active, buffer |-> [i \in Slots |-> 1],
                      head |-> 0, tail |-> 0, waiting_tids |-> <<>>]]
    /\ waiting = [t \in Tids |-> NoChannel]
    /\ unlisted = {}

Interruptible == waiting[current_tid] = NoChannel
InCall == Working /\ Interruptible

-----------------------------------------------------------------------------
Advance(i) == (i + 1) % BufferSize

\* Mutant: a full ring is not moved on, so head runs into tail.
Pushed_KeepsTail(ch, d) ==
    [ch EXCEPT !.buffer[ch.head] = d, !.head = Advance(@), !.waiting_tids = <<>>]

\* push: when the ring is full the oldest event makes room.
Pushed(ch, d) ==
    [ch EXCEPT !.buffer[ch.head] = d,
               !.head = Advance(@),
               !.tail = IF Advance(ch.head) = @ THEN Advance(@) ELSE @,
               !.waiting_tids = <<>>]

\* Mutant: only the first waiter is woken.
WakeAll_FirstOnly(th, tids) == IF tids = <<>> THEN th ELSE Unblocked(th, tids[1])

\* Wake everybody on the list.
WakeAll(th, tids) ==
    [t \in Tids |-> IF (\E i \in DOMAIN tids : tids[i] = t) /\ th[t].state = "Blocked"
                    THEN [th[t] EXCEPT !.state = "Ready", !.channel = NoChannel]
                    ELSE th[t]]

push(c, d) ==
    /\ channels[c].active
    /\ channels' = [channels EXCEPT ![c] = Pushed(@, d)]
    /\ threads' = WakeAll(threads, channels[c].waiting_tids)
    /\ UNCHANGED <<current_tid, aging_counter, dirs, cr3, waiting, unlisted>>

\* A hardware interrupt: the value is always 1.
irq(c) == Interruptible /\ push(c, 1)

sys_send(c, d) == InCall /\ push(c, d)

\* pop, the non-blocking sys_recv: nothing happens on an empty channel.
NonEmpty(c) == channels[c].head # channels[c].tail
Popped(ch) == [ch EXCEPT !.tail = Advance(@)]

pop(c) ==
    /\ InCall
    /\ channels[c].active /\ NonEmpty(c)
    /\ channels' = [channels EXCEPT ![c] = Popped(@)]
    /\ UNCHANGED <<schedVars, waiting, unlisted>>

\* Mutant: one entry of the list is never used.
Register_OffByOne(ch) ==
    IF Len(ch.waiting_tids) < MaxWaiters - 1
    THEN [ch EXCEPT !.waiting_tids = Append(@, current_tid)] ELSE ch

\* Put the caller on the list, if there is room.
Register(ch) ==
    IF Len(ch.waiting_tids) < MaxWaiters
    THEN [ch EXCEPT !.waiting_tids = Append(@, current_tid)] ELSE ch

\* One pass of the loop of wait(): take an event, or register and block.
WaitLoop(c) ==
    \/ /\ channels[c].active /\ NonEmpty(c)
       /\ channels' = [channels EXCEPT ![c] = Popped(@)]
       /\ waiting' = [waiting EXCEPT ![current_tid] = NoChannel]
       /\ UNCHANGED <<schedVars, unlisted>>
    \/ /\ channels[c].active /\ ~NonEmpty(c)
       /\ channels' = [channels EXCEPT ![c] = Register(@)]
       /\ waiting' = [waiting EXCEPT ![current_tid] = c]
       /\ unlisted' = IF Len(channels[c].waiting_tids) < MaxWaiters
                      THEN unlisted \ {current_tid} ELSE unlisted \cup {current_tid}
       /\ block_current(c)

wait(c) == InCall /\ WaitLoop(c)
wait_resume == Executing /\ ~Interruptible /\ WaitLoop(waiting[current_tid])

-----------------------------------------------------------------------------
\* Threads come and go around the channels.
ev_timer == Interruptible /\ TimerIrq /\ UNCHANGED <<channels, waiting, unlisted>>
ev_create ==
    /\ Interruptible
    /\ \E p \in Priorities : thread_create(p)
    /\ waiting' = [waiting EXCEPT ![FirstFree] = NoChannel]
    /\ unlisted' = unlisted \ {FirstFree}
    /\ UNCHANGED channels
ev_kill(t) == InCall /\ thread_terminate(t) /\ UNCHANGED <<channels, waiting, unlisted>>
ev_sleep(k) == Interruptible /\ sleep_current(k) /\ UNCHANGED <<channels, waiting, unlisted>>

EvNext ==
    \/ ev_timer
    \/ ev_create
    \/ \E t \in KillTargets : ev_kill(t)
    \/ \E k \in SleepTicks : ev_sleep(k)
    \/ \E c \in Irqs : irq(c)
    \/ \E c \in Channels, d \in Data : sys_send(c, d)
    \/ \E c \in Channels : pop(c)
    \/ \E c \in Channels : wait(c)
    \/ wait_resume

EvSpec == EvInit /\ [][EvNext]_evVars

\* The timer ticks, and a thread switched to inside wait() goes on with it.
EvFairSpec == EvSpec /\ WF_evVars(ev_timer) /\ WF_evVars(wait_resume)

-----------------------------------------------------------------------------
(* Properties *)

Alive(t) == threads[t].state \notin {"Unused", "Terminated"}
BlockedOn(t, c) == threads[t].state = "Blocked" /\ waiting[t] = c

\* No wake-up is lost: a thread that sleeps in wait() sleeps on an empty
\* channel, so whoever waits for an interrupt or an event is told of it.  Only
\* a thread that found the list of waiters full can sleep through an event.
\* Every other waiter stays on its channel's list until it runs again, whatever
\* wakes it in between, so that the next push wakes it.
NoMissedEvent ==
    \A t \in Tids \ unlisted, c \in Channels : BlockedOn(t, c) =>
        /\ ~NonEmpty(c)
        /\ \E i \in DOMAIN channels[c].waiting_tids : channels[c].waiting_tids[i] = t

\* A wake-up ends the wait, or the event has gone to somebody else, unless the
\* list was full, the waiter is killed, or other threads keep it from running.
EventEndsWait ==
    \A t \in Tids : NotStarved(t) =>
        \A c \in Channels :
            (waiting[t] = c /\ NonEmpty(c))
                ~> (waiting[t] # c \/ ~NonEmpty(c) \/ t \in unlisted \/ ~Alive(t))

\* What a channel holds, oldest first; it behaves as a queue that drops its
\* oldest event when it overflows.
Contents(c) ==
    [i \in 1..((channels[c].head - channels[c].tail) % BufferSize) |->
        channels[c].buffer[(channels[c].tail + i - 1) % BufferSize]]

Queues == INSTANCE LossyQueue
    WITH Names <- Active, Values <- Data, Capacity <- BufferSize - 1,
         queue <- [c \in Active |-> Contents(c)]

\* Every handler is a push, a take or nothing to the queues.
ChannelIsLossyQueue == Queues!Spec
=============================================================================
