---------------------------- MODULE EventProofs ----------------------------
(***************************************************************************)
(* Proofs about EventChannel, for any number of threads, channels and      *)
(* waiters and rings of any size above one: no event is slept through, and *)
(* the channels implement lossy queues.                                    *)
(***************************************************************************)
EXTENDS EventChannel, TaskSchedulerProofs, SequenceTheorems

R == INSTANCE RingBuffers WITH Q <- BufferSize

-----------------------------------------------------------------------------
(* A channel as a sequence and a list of waiters *)

Channel == [active : BOOLEAN, buffer : [Slots -> Data], head : Slots, tail : Slots,
            waiting_tids : Seq(Tids)]

Listed(ch) == R!RingSeq(ch.buffer, ch.tail, R!Held(ch.head, ch.tail))

OnList(ch, t) == \E i \in DOMAIN ch.waiting_tids : ch.waiting_tids[i] = t

\* The facts on rings of any size hold of these.
LEMMA RingSized == R!Sized /\ R!Wide
  BY ChannelAssumption DEF R!Sized, R!Wide

\* The places of the ring are the slots of the model.
LEMMA RingPlaces == R!Places = Slots /\ BufferSize \in Nat \ {0, 1}
  BY ChannelAssumption DEF R!Places, Slots

\* push appends; when the ring is full the oldest event is given up.
LEMMA PushAppends ==
    ASSUME NEW ch \in Channel, NEW d \in Data
    PROVE  /\ Pushed(ch, d) \in Channel /\ Pushed(ch, d).active = ch.active
           /\ Listed(Pushed(ch, d))
                = Append(IF Len(Listed(ch)) = BufferSize - 1 THEN Tail(Listed(ch)) ELSE Listed(ch), d)
<1>1. PICK f \in [R!Places -> Data] : f = ch.buffer
  BY RingPlaces DEF Channel
<1>2. PICK h \in R!Places : h = ch.head
  BY RingPlaces DEF Channel
<1>3. PICK t \in R!Places : t = ch.tail
  BY RingPlaces DEF Channel
<1>4. PICK c \in Nat : c = R!Held(h, t)
  BY RingSized, R!HeldPlaces, Zenon
<1>5. PICK n : n = (h + 1) % BufferSize
  OBVIOUS
<1>6. PICK u : u = (t + 1) % BufferSize
  OBVIOUS
<1>7. c \in Nat /\ c < BufferSize /\ h = (t + c) % BufferSize
  BY <1>4, RingSized, R!HeldPlaces, Zenon
<1>8. /\ n \in R!Places /\ u \in R!Places
      /\ n = t \/ (c < BufferSize - 1 /\ R!Held(n, t) = c + 1)
      /\ n # t \/ (c = BufferSize - 1 /\ R!Held(n, u) = c)
  <2>1. R!HeadMovesOn(h, t)
    BY RingSized, R!HeldAdvance, Zenon
  <2> QED BY <1>4, <1>5, <1>6, <2>1 DEF R!HeadMovesOn
<1>9. PICK g \in [R!Places -> Data] : g = [f EXCEPT ![h] = d]
  OBVIOUS
<1>10. PICK v \in R!Places : v = IF n = t THEN u ELSE t
  BY <1>8
<1>11. Pushed(ch, d) = [ch EXCEPT !.buffer = g, !.head = n, !.tail = v, !.waiting_tids = <<>>]
  BY <1>1, <1>2, <1>3, <1>5, <1>6, <1>9, <1>10 DEF Pushed, Advance, Channel
<1>12. <<>> \in Seq(Tids)
  OBVIOUS
<1>13. [ch EXCEPT !.buffer = g, !.head = n, !.tail = v, !.waiting_tids = <<>>] \in Channel
  BY <1>8, <1>12, RingPlaces DEF Channel
<1>14. /\ Pushed(ch, d).buffer = g /\ Pushed(ch, d).head = n /\ Pushed(ch, d).tail = v
       /\ Pushed(ch, d).active = ch.active
  BY <1>11 DEF Channel
<1>15. PICK l \in Seq(Data) : l = R!RingSeq(f, t, c) /\ Len(l) = c
  <2>1. R!RingSeq(f, t, c) \in Seq(Data) /\ Len(R!RingSeq(f, t, c)) = c
    BY <1>7, RingSized, R!RingIsSeq, ZenonT(60)
  <2> QED BY <2>1
<1>16. Listed(ch) = l
  BY <1>1, <1>2, <1>3, <1>4, <1>15 DEF Listed
<1>17. R!RingSeq(g, t, c + 1) = Append(l, d)
  <2>1. c < BufferSize /\ h = (t + c) % BufferSize
    BY <1>7
  <2>2. R!PutAppends(f, t, c, d)
    BY <2>1, RingSized, R!RingPut, Zenon
  <2> QED BY <1>9, <1>15, <2>1, <2>2 DEF R!PutAppends
<1>18. CASE n # t
  <2>1. Listed(Pushed(ch, d)) = Append(l, d)
    BY <1>8, <1>10, <1>14, <1>17, <1>18 DEF Listed
  <2> QED BY <1>7, <1>8, <1>11, <1>13, <1>14, <1>15, <1>16, <1>18, <2>1, RingPlaces
<1>19. CASE n = t
  <2>1. PICK e \in Nat : e = c + 1 /\ e - 1 = c
    BY <1>7
  <2>2. e > 0 /\ e <= BufferSize
    BY <1>7, <2>1, RingPlaces
  <2>3. R!RingSeq(g, (t + 1) % BufferSize, e - 1) = Tail(R!RingSeq(g, t, e))
    BY <2>2, RingSized, R!RingTake, ZenonT(60)
  <2>4. l # <<>>
    BY <1>8, <1>15, <1>19, RingPlaces, EmptySeq
  <2>5. Tail(Append(l, d)) = Append(Tail(l), d)
    BY <2>4, HeadTailAppend
  <2>6. Listed(Pushed(ch, d)) = R!RingSeq(g, u, c)
    BY <1>8, <1>10, <1>14, <1>19 DEF Listed
  <2>7. Listed(Pushed(ch, d)) = Append(Tail(l), d)
    BY <1>6, <1>17, <2>1, <2>3, <2>5, <2>6
  <2> QED BY <1>8, <1>11, <1>13, <1>14, <1>15, <1>16, <1>19, <2>7
<1> QED BY <1>18, <1>19

\* pop takes the oldest.
LEMMA PopTakes ==
    ASSUME NEW ch \in Channel, ch.head # ch.tail
    PROVE  /\ Popped(ch) \in Channel /\ Popped(ch).active = ch.active
           /\ Popped(ch).waiting_tids = ch.waiting_tids
           /\ Listed(ch) # <<>> /\ Listed(Popped(ch)) = Tail(Listed(ch))
<1>1. PICK f \in [R!Places -> Data] : f = ch.buffer
  BY RingPlaces DEF Channel
<1>2. PICK h \in R!Places : h = ch.head
  BY RingPlaces DEF Channel
<1>3. PICK t \in R!Places : t = ch.tail
  BY RingPlaces DEF Channel
<1>4. PICK c \in Nat : c = R!Held(h, t)
  BY RingSized, R!HeldPlaces, Zenon
<1>5. PICK u : u = (t + 1) % BufferSize
  OBVIOUS
<1>6. c \in Nat /\ c < BufferSize
  BY <1>4, RingSized, R!HeldPlaces, Zenon
<1>7. u \in R!Places /\ c > 0 /\ R!Held(h, u) = c - 1
  <2>1. R!TailMovesOn(h, t)
    BY RingSized, R!HeldTake, Zenon
  <2> QED BY <1>2, <1>3, <1>4, <1>5, <2>1 DEF R!TailMovesOn
<1>8. /\ R!RingSeq(f, t, c) # <<>>
      /\ R!RingSeq(f, (t + 1) % BufferSize, c - 1) = Tail(R!RingSeq(f, t, c))
  <2>1. c > 0 /\ c <= BufferSize
    BY <1>6, <1>7, RingPlaces
  <2> QED BY <1>6, <2>1, RingSized, R!RingTake, ZenonT(60)
<1>9. Popped(ch) = [ch EXCEPT !.tail = u]
  BY <1>3, <1>5 DEF Popped, Advance, Channel
<1>10. /\ [ch EXCEPT !.tail = u] \in Channel
       /\ Popped(ch).buffer = f /\ Popped(ch).head = h /\ Popped(ch).tail = u
       /\ Popped(ch).active = ch.active /\ Popped(ch).waiting_tids = ch.waiting_tids
  BY <1>1, <1>2, <1>7, <1>9, RingPlaces DEF Channel
<1>11. Listed(Popped(ch)) = R!RingSeq(f, u, c - 1)
  BY <1>7, <1>10 DEF Listed
<1>12. Listed(ch) = R!RingSeq(f, t, c)
  BY <1>1, <1>2, <1>3, <1>4 DEF Listed
<1> QED BY <1>5, <1>8, <1>9, <1>10, <1>11, <1>12

\* A thread that goes to sleep leaves the events alone and takes nobody off the
\* list of waiters.
LEMMA RegisterKeeps ==
    ASSUME NEW ch \in Channel, current_tid \in Tids
    PROVE  /\ Register(ch) \in Channel /\ Register(ch).active = ch.active
           /\ Register(ch).head = ch.head /\ Register(ch).tail = ch.tail
           /\ Listed(Register(ch)) = Listed(ch)
           /\ \A t : OnList(ch, t) => OnList(Register(ch), t)
           /\ Len(ch.waiting_tids) < MaxWaiters => OnList(Register(ch), current_tid)
<1>1. CASE Len(ch.waiting_tids) < MaxWaiters
  <2>1. PICK w \in Seq(Tids) : w = ch.waiting_tids
    BY DEF Channel
  <2>2. PICK t \in Tids : t = current_tid
    OBVIOUS
  <2>3. PICK a \in Seq(Tids) : a = Append(w, t)
    BY AppendProperties
  <2>4. /\ Len(w) \in Nat /\ DOMAIN w = 1..Len(w) /\ DOMAIN a = 1..(Len(w) + 1)
        /\ a[Len(w) + 1] = t /\ \A i \in 1..Len(w) : a[i] = w[i]
    BY <2>3, AppendProperties, LenProperties
  <2>5. Register(ch) = [ch EXCEPT !.waiting_tids = a]
    BY <1>1, <2>1, <2>2, <2>3 DEF Register, Channel
  <2>6. /\ Register(ch) \in Channel /\ Register(ch).active = ch.active
        /\ Register(ch).head = ch.head /\ Register(ch).tail = ch.tail
        /\ Register(ch).buffer = ch.buffer /\ Register(ch).waiting_tids = a
    BY <2>5 DEF Channel
  <2>7. Listed(Register(ch)) = Listed(ch)
    BY <2>6 DEF Listed
  <2>8. \A x : OnList(ch, x) => OnList(Register(ch), x)
    BY <2>1, <2>4, <2>6 DEF OnList
  <2>9. OnList(Register(ch), current_tid)
    <3>1. Len(w) + 1 \in DOMAIN a
      BY <2>4
    <3> QED BY <2>2, <2>4, <2>6, <3>1 DEF OnList
  <2> QED BY <2>6, <2>7, <2>8, <2>9
<1>2. CASE ~(Len(ch.waiting_tids) < MaxWaiters)
  <2>1. Register(ch) = ch
    BY <1>2 DEF Register
  <2> QED BY <1>2, <2>1
<1> QED BY <1>1, <1>2

-----------------------------------------------------------------------------
(* The inductive invariant *)

\* The channels are well formed, only those in use are active, thread 0 never
\* waits, and no event is slept through; about the thread table, what the
\* scheduler keeps.
WaitInv ==
    /\ IInv /\ Awake(threads)
    /\ channels \in [Channels -> Channel]
    /\ \A c \in Channels : channels[c].active => c \in Active
    /\ waiting \in [Tids -> Channels \cup {NoChannel}]
    /\ waiting[0] = NoChannel
    /\ NoMissedEvent

\* The invariant holds at boot.
LEMMA WaitInit == EvInit => WaitInv
<1> SUFFICES ASSUME EvInit PROVE WaitInv
  OBVIOUS
<1>1. IInv /\ Awake(threads) /\ 0 \in Tids
  BY InitInv, SchedulerAssumption DEF EvInit, Init, thread_init, Awake, Tids
<1>2. 0 \in Slots /\ [i \in Slots |-> 1] \in [Slots -> Data] /\ <<>> \in Seq(Tids)
  BY ChannelAssumption DEF Slots
<1>3. ASSUME NEW c \in Channels
      PROVE  channels[c] \in Channel /\ (channels[c].active => c \in Active)
  <2>1. PICK b \in BOOLEAN : b = (c \in Active)
    <3>1. (c \in Active) \in BOOLEAN
      OBVIOUS
    <3> QED BY <3>1, Zenon
  <2>2. channels[c] = [active |-> c \in Active, buffer |-> [i \in Slots |-> 1],
                       head |-> 0, tail |-> 0, waiting_tids |-> <<>>]
    BY Zenon DEF EvInit
  <2>3. channels[c] = [active |-> b, buffer |-> [i \in Slots |-> 1],
                       head |-> 0, tail |-> 0, waiting_tids |-> <<>>]
    BY <2>1, <2>2, Zenon
  <2>4. channels[c] \in Channel
    BY <1>2, <2>3 DEF Channel
  <2>5. channels[c].active = b
    BY <2>3
  <2>6. channels[c].active => c \in Active
    BY <2>1, <2>5, Zenon
  <2> QED BY <2>4, <2>6
<1>4. channels \in [Channels -> Channel]
  BY <1>3 DEF EvInit
<1>5. NoMissedEvent
  BY ChannelAssumption DEF EvInit, NoMissedEvent, BlockedOn
<1> QED BY <1>1, <1>3, <1>4, <1>5 DEF EvInit, WaitInv

\* Waking everybody on a list: those on it are not Blocked any more, and
\* nothing else that matters to the scheduler changes.
LEMMA WokenKeep ==
    ASSUME IInv, Awake(threads), NEW tids, threads' = WakeAll(threads, tids),
           UNCHANGED <<current_tid, aging_counter, dirs, cr3>>
    PROVE  /\ IInv' /\ Awake(threads')
           /\ \A t \in Tids : threads'[t].state = "Blocked"
                => threads[t].state = "Blocked" /\ ~\E i \in DOMAIN tids : tids[i] = t
<1>1. threads \in [Tids -> Thread] /\ current_tid \in Tids /\ 0 \in Tids
  BY SchedulerAssumption DEF IInv, TypeOK, Tids
<1>2. ASSUME NEW r \in Thread
      PROVE  /\ [r EXCEPT !.state = "Ready", !.channel = NoChannel] \in Thread
             /\ [r EXCEPT !.state = "Ready", !.channel = NoChannel].state = "Ready"
             /\ [r EXCEPT !.state = "Ready", !.channel = NoChannel].dir = r.dir
  BY DEF Thread, States
<1>3. ASSUME NEW t \in Tids
      PROVE  /\ threads'[t] \in Thread /\ threads'[t].dir = threads[t].dir
             /\ \/ /\ threads'[t].state = threads[t].state
                   /\ threads[t].state = "Blocked" => ~\E i \in DOMAIN tids : tids[i] = t
                \/ threads[t].state = "Blocked" /\ threads'[t].state = "Ready"
  <2>1. CASE (\E i \in DOMAIN tids : tids[i] = t) /\ threads[t].state = "Blocked"
    <3>1. threads'[t] = [threads[t] EXCEPT !.state = "Ready", !.channel = NoChannel]
      BY <2>1 DEF WakeAll
    <3>2. PICK r \in Thread : r = threads[t]
      BY <1>1
    <3> QED BY <1>2, <2>1, <3>1, <3>2
  <2>2. CASE ~((\E i \in DOMAIN tids : tids[i] = t) /\ threads[t].state = "Blocked")
    <3>1. threads'[t] = threads[t]
      BY <2>2 DEF WakeAll
    <3> QED BY <1>1, <2>2, <3>1
  <2> QED BY <2>1, <2>2
<1>4. threads' \in [Tids -> Thread]
  BY <1>3 DEF WakeAll
<1>5. TypeOK'
  BY <1>4 DEF IInv, TypeOK
<1>6. OneRunning'
  BY <1>1, <1>3 DEF IInv, OneRunning, cur
<1>7. HasDirectory(threads)'
  BY <1>1, <1>3 DEF IInv, HasDirectory, Living
<1>8. Awake(threads')
  BY <1>1, <1>3 DEF Awake
<1> QED BY <1>3, <1>5, <1>6, <1>7, <1>8 DEF IInv

\* To the scheduler, every step but a push is one of its own handlers.
LEMMA WaitsSchedule ==
    ASSUME WaitInv, [EvNext]_evVars
    PROVE  [Next]_schedVars \/ \E c \in Channels, d \in Data : push(c, d)
<1>1. ASSUME NEW c \in Channels, WaitLoop(c), Executing, current_tid # 0
      PROVE  [Next]_schedVars
  <2>1. CASE UNCHANGED schedVars
    BY <2>1
  <2>2. CASE block_current(c)
    BY <1>1, <2>2 DEF Next, Working
  <2> QED BY <1>1, <2>1, <2>2 DEF WaitLoop
<1>2. CASE ev_timer
  BY <1>2 DEF ev_timer, Next
<1>3. CASE ev_create
  BY <1>3 DEF ev_create, Next
<1>4. ASSUME NEW t \in KillTargets, ev_kill(t) PROVE [Next]_schedVars
  BY <1>4 DEF ev_kill, Next
<1>5. ASSUME NEW k \in SleepTicks, ev_sleep(k) PROVE [Next]_schedVars
  BY <1>5 DEF ev_sleep, Next
<1>6. ASSUME NEW c \in Irqs, irq(c) PROVE \E d \in Data : c \in Channels /\ push(c, d)
  BY <1>6, ChannelAssumption DEF irq
<1>7. ASSUME NEW c \in Channels, NEW d \in Data, sys_send(c, d) PROVE push(c, d)
  BY <1>7 DEF sys_send
<1>8. ASSUME NEW c \in Channels, pop(c) PROVE [Next]_schedVars
  BY <1>8 DEF pop
<1>9. ASSUME NEW c \in Channels, wait(c) PROVE [Next]_schedVars
  BY <1>1, <1>9 DEF wait, InCall, Working
<1>10. CASE wait_resume
  <2>1. PICK c : c = waiting[current_tid]
    OBVIOUS
  <2>2. c \in Channels /\ current_tid # 0 /\ WaitLoop(c) /\ Executing
    BY <1>10, <2>1 DEF wait_resume, Interruptible, WaitInv, IInv, TypeOK
  <2> QED BY <1>1, <2>2
<1>11. CASE UNCHANGED evVars
  BY <1>11 DEF evVars, schedVars
<1> QED BY <1>2, <1>3, <1>4, <1>5, <1>6, <1>7, <1>8, <1>9, <1>10, <1>11 DEF EvNext

\* A change of one channel.
LEMMA OneChannel ==
    ASSUME WaitInv, NEW c \in Channels, NEW x \in Channel, x.active = channels[c].active,
           channels' = [channels EXCEPT ![c] = x]
    PROVE  /\ channels' \in [Channels -> Channel]
           /\ channels'[c] = x /\ \A e \in Channels \ {c} : channels'[e] = channels[e]
           /\ \A e \in Channels : channels'[e].active => e \in Active
<1>1. channels \in [Channels -> Channel] /\ \A e \in Channels : channels[e].active => e \in Active
  BY DEF WaitInv
<1>2. /\ channels' \in [Channels -> Channel]
      /\ channels'[c] = x /\ \A e \in Channels \ {c} : channels'[e] = channels[e]
  BY <1>1
<1>3. \A e \in Channels : channels'[e].active = channels[e].active
  BY <1>2
<1>4. \A e \in Channels : channels'[e].active => e \in Active
  BY <1>1, <1>3, Zenon
<1> QED BY <1>2, <1>4

\* NoMissedEvent in terms of the list.
LEMMA Missed ==
    NoMissedEvent <=> \A t \in Tids \ unlisted, c \in Channels :
        threads[t].state = "Blocked" /\ waiting[t] = c
            => channels[c].head = channels[c].tail /\ OnList(channels[c], t)
  BY DEF NoMissedEvent, BlockedOn, NonEmpty, OnList

\* NoMissedEvent after the step, one thread at a time.
LEMMA MissedNext ==
    NoMissedEvent' <=> \A t \in Tids \ unlisted', c \in Channels :
        threads'[t].state = "Blocked" /\ waiting'[t] = c
            => channels'[c].head = channels'[c].tail /\ OnList(channels'[c], t)
  BY DEF NoMissedEvent, BlockedOn, NonEmpty, OnList

\* What a step keeps besides the thread table.
ChannelsKept ==
    /\ channels' \in [Channels -> Channel]
    /\ \A c \in Channels : channels'[c].active => c \in Active
    /\ waiting' \in [Tids -> Channels \cup {NoChannel}]
    /\ waiting'[0] = NoChannel
    /\ NoMissedEvent'

\* A push empties the list of its channel and wakes everybody who was on it.
LEMMA PushKeeps ==
    ASSUME WaitInv, NEW c \in Channels, NEW d \in Data, push(c, d)
    PROVE  IInv' /\ Awake(threads') /\ ChannelsKept
<1>1. PICK w : w = channels[c].waiting_tids
  OBVIOUS
<1>2. /\ threads' = WakeAll(threads, w) /\ UNCHANGED <<current_tid, aging_counter, dirs, cr3>>
      /\ UNCHANGED <<waiting, unlisted>>
  BY <1>1 DEF push
<1>3. /\ IInv' /\ Awake(threads')
      /\ \A t \in Tids : threads'[t].state = "Blocked"
           => threads[t].state = "Blocked" /\ ~\E i \in DOMAIN w : w[i] = t
  BY <1>2, WokenKeep DEF WaitInv
<1>4. PICK ch \in Channel : ch = channels[c]
  BY DEF WaitInv
<1>5. Pushed(ch, d) \in Channel /\ Pushed(ch, d).active = ch.active
  BY PushAppends
<1>6. channels' = [channels EXCEPT ![c] = Pushed(ch, d)]
  BY <1>4 DEF push, WaitInv
<1>7. /\ channels' \in [Channels -> Channel]
      /\ \A e \in Channels \ {c} : channels'[e] = channels[e]
      /\ \A e \in Channels : channels'[e].active => e \in Active
  BY <1>4, <1>5, <1>6, OneChannel
<1>8. ASSUME NEW t \in Tids \ unlisted', NEW e \in Channels,
             threads'[t].state = "Blocked", waiting'[t] = e
      PROVE  channels'[e].head = channels'[e].tail /\ OnList(channels'[e], t)
  <2>1. threads[t].state = "Blocked" /\ waiting[t] = e /\ t \in Tids \ unlisted
    BY <1>2, <1>3, <1>8
  <2>2. channels[e].head = channels[e].tail /\ OnList(channels[e], t)
    BY <2>1, Missed DEF WaitInv
  <2>3. e # c
    BY <1>1, <1>3, <1>8, <2>2 DEF OnList
  <2> QED BY <1>7, <2>2, <2>3
<1>9. NoMissedEvent'
  BY <1>8, MissedNext
<1> QED BY <1>2, <1>3, <1>7, <1>9 DEF WaitInv, ChannelsKept

\* A thread that takes an event takes it from a channel nobody sleeps on.
LEMMA PopKeeps ==
    ASSUME WaitInv, NEW c \in Channels, NonEmpty(c), channels' = [channels EXCEPT ![c] = Popped(@)],
           threads' = threads, unlisted' = unlisted,
           waiting' \in [Tids -> Channels \cup {NoChannel}], waiting'[0] = NoChannel,
           \A t \in Tids : waiting'[t] \in {waiting[t], NoChannel}
    PROVE  ChannelsKept
<1>1. PICK ch \in Channel : ch = channels[c]
  BY DEF WaitInv
<1>2. ch.head # ch.tail
  BY <1>1 DEF NonEmpty
<1>3. Popped(ch) \in Channel /\ Popped(ch).active = ch.active
  BY <1>2, PopTakes
<1>4. channels' = [channels EXCEPT ![c] = Popped(ch)]
  BY <1>1 DEF WaitInv
<1>5. /\ channels' \in [Channels -> Channel]
      /\ \A e \in Channels \ {c} : channels'[e] = channels[e]
      /\ \A e \in Channels : channels'[e].active => e \in Active
  BY <1>1, <1>3, <1>4, OneChannel
<1>6. ASSUME NEW t \in Tids \ unlisted', NEW e \in Channels,
             threads'[t].state = "Blocked", waiting'[t] = e
      PROVE  channels'[e].head = channels'[e].tail /\ OnList(channels'[e], t)
  <2>1. threads[t].state = "Blocked" /\ waiting[t] = e /\ t \in Tids \ unlisted
    BY <1>6, ChannelAssumption
  <2>2. channels[e].head = channels[e].tail /\ OnList(channels[e], t)
    BY <2>1, Missed DEF WaitInv
  <2>3. e # c
    BY <1>1, <1>2, <2>2
  <2> QED BY <1>5, <2>2, <2>3
<1>7. NoMissedEvent'
  BY <1>6, MissedNext
<1> QED BY <1>5, <1>7 DEF ChannelsKept

\* One pass of wait(): whoever goes to sleep does so on an empty channel, on its
\* list unless that is full.
LEMMA PassKeeps ==
    ASSUME WaitInv, NEW c \in Channels, WaitLoop(c), current_tid # 0,
           \A t \in Tids : threads'[t].state = "Blocked"
                             => threads[t].state = "Blocked" \/ t = current_tid
    PROVE  ChannelsKept
<1>1. /\ current_tid \in Tids /\ channels \in [Channels -> Channel]
      /\ waiting \in [Tids -> Channels \cup {NoChannel}] /\ waiting[0] = NoChannel
  BY DEF WaitInv, IInv, TypeOK
<1>2. CASE NonEmpty(c)
  <2>1. /\ channels' = [channels EXCEPT ![c] = Popped(@)]
        /\ waiting' = [waiting EXCEPT ![current_tid] = NoChannel]
        /\ threads' = threads /\ unlisted' = unlisted
    BY <1>2 DEF WaitLoop, schedVars
  <2>2. /\ waiting' \in [Tids -> Channels \cup {NoChannel}] /\ waiting'[0] = NoChannel
        /\ \A t \in Tids : waiting'[t] \in {waiting[t], NoChannel}
    BY <1>1, <2>1
  <2> QED BY <1>2, <2>1, <2>2, PopKeeps
<1>3. CASE ~NonEmpty(c)
  <2>1. /\ channels' = [channels EXCEPT ![c] = Register(@)]
        /\ waiting' = [waiting EXCEPT ![current_tid] = c]
        /\ unlisted' = IF Len(channels[c].waiting_tids) < MaxWaiters
                       THEN unlisted \ {current_tid} ELSE unlisted \cup {current_tid}
    BY <1>3 DEF WaitLoop
  <2>2. PICK ch \in Channel : ch = channels[c]
    BY <1>1
  <2>3. /\ Register(ch) \in Channel /\ Register(ch).active = ch.active
        /\ Register(ch).head = ch.head /\ Register(ch).tail = ch.tail
        /\ \A t : OnList(ch, t) => OnList(Register(ch), t)
        /\ Len(ch.waiting_tids) < MaxWaiters => OnList(Register(ch), current_tid)
    BY <1>1, RegisterKeeps
  <2>4. channels' = [channels EXCEPT ![c] = Register(ch)]
    BY <1>1, <2>1, <2>2
  <2>5. /\ channels' \in [Channels -> Channel] /\ channels'[c] = Register(ch)
        /\ \A e \in Channels \ {c} : channels'[e] = channels[e]
        /\ \A e \in Channels : channels'[e].active => e \in Active
    <3>1. PICK x \in Channel : x = Register(ch)
      BY <2>3
    <3>2. x.active = channels[c].active /\ channels' = [channels EXCEPT ![c] = x]
      BY <2>2, <2>3, <2>4, <3>1
    <3>3. /\ channels' \in [Channels -> Channel] /\ channels'[c] = x
          /\ \A e \in Channels \ {c} : channels'[e] = channels[e]
          /\ \A e \in Channels : channels'[e].active => e \in Active
      BY <3>2, OneChannel
    <3> QED BY <3>1, <3>3
  <2>6. /\ waiting' \in [Tids -> Channels \cup {NoChannel}] /\ waiting'[0] = NoChannel
        /\ \A t \in Tids \ {current_tid} : waiting'[t] = waiting[t]
    BY <1>1, <2>1
  <2>7. waiting'[current_tid] = c
    BY <1>1, <2>1
  <2>8. ASSUME NEW t \in Tids \ unlisted', NEW e \in Channels,
               threads'[t].state = "Blocked", waiting'[t] = e
        PROVE  channels'[e].head = channels'[e].tail /\ OnList(channels'[e], t)
    <3>1. CASE t = current_tid
      <4>1. e = c /\ Len(ch.waiting_tids) < MaxWaiters
        BY <2>1, <2>2, <2>7, <2>8, <3>1
      <4> QED BY <1>3, <2>2, <2>3, <2>5, <3>1, <4>1 DEF NonEmpty
    <3>2. CASE t # current_tid
      <4>1. threads[t].state = "Blocked" /\ waiting[t] = e /\ t \in Tids \ unlisted
        BY <2>1, <2>6, <2>8, <3>2
      <4>2. channels[e].head = channels[e].tail /\ OnList(channels[e], t)
        BY <4>1, Missed DEF WaitInv
      <4> QED BY <2>2, <2>3, <2>5, <4>2
    <3> QED BY <3>1, <3>2
  <2>9. NoMissedEvent'
    BY <2>8, MissedNext
  <2> QED BY <2>5, <2>6, <2>9 DEF ChannelsKept
<1> QED BY <1>2, <1>3

\* Every step keeps the invariant.
LEMMA WaitNext == WaitInv /\ [EvNext]_evVars => WaitInv'
<1> SUFFICES ASSUME WaitInv, [EvNext]_evVars PROVE WaitInv'
  OBVIOUS
<1>1. CASE \E c \in Channels, d \in Data : push(c, d)
  BY <1>1, PushKeeps DEF WaitInv, ChannelsKept
<1>2. CASE [Next]_schedVars
  <2>1. IInv' /\ Awake(threads')
    BY <1>2, NextInv, NextWaits DEF WaitInv
  <2>2. \A t \in Tids : threads'[t].state = "Blocked"
                          => threads[t].state = "Blocked" \/ t = current_tid
    BY <1>2, NextWaits DEF WaitInv, WaitersKept
  <2>3. /\ current_tid \in Tids /\ waiting \in [Tids -> Channels \cup {NoChannel}]
        /\ waiting[0] = NoChannel /\ NoMissedEvent
    BY DEF WaitInv, IInv, TypeOK
  <2> SUFFICES ChannelsKept
    BY <2>1 DEF WaitInv, ChannelsKept
  <2>4. ASSUME UNCHANGED <<channels, waiting, unlisted>>, Interruptible
        PROVE  ChannelsKept
    <3>1. ASSUME NEW t \in Tids \ unlisted', NEW e \in Channels,
                 threads'[t].state = "Blocked", waiting'[t] = e
          PROVE  channels'[e].head = channels'[e].tail /\ OnList(channels'[e], t)
      <4>1. waiting[t] = e /\ t \in Tids \ unlisted /\ t # current_tid
        BY <2>4, <3>1, ChannelAssumption DEF Interruptible
      <4>2. threads[t].state = "Blocked"
        BY <2>2, <3>1, <4>1
      <4> QED BY <2>3, <2>4, <4>1, <4>2, Missed
    <3>2. NoMissedEvent'
      BY <3>1, MissedNext
    <3> QED BY <2>4, <3>2 DEF WaitInv, ChannelsKept
  <2>6. CASE ev_timer
    BY <2>4, <2>6 DEF ev_timer
  <2>7. CASE ev_create
    <3>1. PICK f \in Tids : f = FirstFree
      BY <2>7, FirstFreeIsFree DEF ev_create, thread_create
    <3>2. /\ waiting' = [waiting EXCEPT ![f] = NoChannel] /\ unlisted' = unlisted \ {f}
          /\ UNCHANGED channels /\ Interruptible
      BY <2>7, <3>1 DEF ev_create
    <3>3. /\ waiting' \in [Tids -> Channels \cup {NoChannel}] /\ waiting'[0] = NoChannel
          /\ waiting'[f] = NoChannel /\ \A t \in Tids \ {f} : waiting'[t] = waiting[t]
      BY <2>3, <3>2
    <3>4. ASSUME NEW t \in Tids \ unlisted', NEW e \in Channels,
                 threads'[t].state = "Blocked", waiting'[t] = e
          PROVE  channels'[e].head = channels'[e].tail /\ OnList(channels'[e], t)
      <4>1. t # f
        BY <3>3, <3>4, ChannelAssumption
      <4>2. waiting[t] = e /\ t \in Tids \ unlisted /\ t # current_tid
        BY <3>2, <3>3, <3>4, <4>1, ChannelAssumption DEF Interruptible
      <4>3. threads[t].state = "Blocked"
        BY <2>2, <3>4, <4>2
      <4> QED BY <2>3, <3>2, <4>2, <4>3, Missed
    <3>5. NoMissedEvent'
      BY <3>4, MissedNext
    <3> QED BY <3>2, <3>3, <3>5 DEF WaitInv, ChannelsKept
  <2>8. ASSUME NEW t \in KillTargets, ev_kill(t) PROVE ChannelsKept
    BY <2>4, <2>8 DEF ev_kill, InCall
  <2>9. ASSUME NEW k \in SleepTicks, ev_sleep(k) PROVE ChannelsKept
    BY <2>4, <2>9 DEF ev_sleep
  <2>10. ASSUME NEW c \in Irqs, irq(c) PROVE ChannelsKept
    BY <2>10, PushKeeps, ChannelAssumption DEF irq
  <2>11. ASSUME NEW c \in Channels, NEW d \in Data, sys_send(c, d) PROVE ChannelsKept
    BY <2>11, PushKeeps DEF sys_send
  <2>12. ASSUME NEW c \in Channels, pop(c) PROVE ChannelsKept
    BY <2>3, <2>12, PopKeeps DEF pop, schedVars
  <2>13. ASSUME NEW c \in Channels, wait(c) PROVE ChannelsKept
    BY <2>2, <2>13, PassKeeps DEF wait, InCall, Working
  <2>14. CASE wait_resume
    <3>1. PICK c : c = waiting[current_tid]
      OBVIOUS
    <3>2. c \in Channels /\ current_tid # 0 /\ WaitLoop(c)
      BY <2>3, <2>14, <3>1 DEF wait_resume, Interruptible
    <3> QED BY <2>2, <3>2, PassKeeps
  <2>15. CASE UNCHANGED evVars
    <3>1. NoMissedEvent'
      BY <2>3, <2>15 DEF evVars, schedVars, NoMissedEvent, BlockedOn, NonEmpty
    <3> QED BY <2>15, <3>1 DEF evVars, WaitInv, ChannelsKept
  <2> QED BY <2>6, <2>7, <2>8, <2>9, <2>10, <2>11, <2>12, <2>13, <2>14, <2>15 DEF EvNext
<1> QED BY <1>1, <1>2, WaitsSchedule

-----------------------------------------------------------------------------
(* The refinement *)

Lists == [c \in Active |-> Contents(c)]

\* The abstract queue of a channel is its ring read as a sequence.
LEMMA ContentsListed ==
    /\ Lists = [c \in Active |-> Listed(channels[c])]
    /\ Lists' = [c \in Active |-> Listed(channels'[c])]
<1>1. ASSUME NEW c \in Active PROVE Contents(c) = Listed(channels[c])
  BY DEF Contents, Listed, R!RingSeq, R!Held
<1>2. ASSUME NEW c \in Active PROVE Contents(c)' = Listed(channels'[c])
  BY DEF Contents, Listed, R!RingSeq, R!Held
<1> QED BY <1>1, <1>2 DEF Lists

\* A change of one channel in use is that change of one queue.
LEMMA OneQueue ==
    ASSUME NEW c \in Active, NEW s, \A e \in Active \ {c} : channels'[e] = channels[e],
           Listed(channels'[c]) = s
    PROVE  Lists' = [Lists EXCEPT ![c] = s] /\ Lists[c] = Listed(channels[c])
  BY ContentsListed

\* Steps that leave the channels alone leave the queues alone.
LEMMA SameQueues == channels' = channels => Lists' = Lists
  BY ContentsListed

\* push is a put of the abstract queue, on its channel only.
LEMMA PushPuts ==
    ASSUME WaitInv, NEW c \in Channels, NEW d \in Data, push(c, d)
    PROVE  Queues!Next
<1>1. c \in Active /\ Active \subseteq Channels /\ channels \in [Channels -> Channel]
  BY ChannelAssumption DEF WaitInv, push
<1>2. PICK ch \in Channel : ch = channels[c]
  BY <1>1
<1>3. PICK l : l = Listed(ch)
  OBVIOUS
<1>4. Listed(Pushed(ch, d)) = Append(IF Len(l) = BufferSize - 1 THEN Tail(l) ELSE l, d)
  BY <1>3, PushAppends
<1>5. channels' = [channels EXCEPT ![c] = Pushed(ch, d)]
  BY <1>1, <1>2 DEF push
<1>6. channels'[c] = Pushed(ch, d) /\ \A e \in Active \ {c} : channels'[e] = channels[e]
  BY <1>1, <1>5
<1>7. /\ Lists' = [Lists EXCEPT ![c] = Append(IF Len(l) = BufferSize - 1 THEN Tail(l) ELSE l, d)]
      /\ Lists[c] = l
  <2>1. PICK s : s = Append(IF Len(l) = BufferSize - 1 THEN Tail(l) ELSE l, d)
    OBVIOUS
  <2>2. Lists' = [Lists EXCEPT ![c] = s] /\ Lists[c] = Listed(channels[c])
    BY <1>1, <1>4, <1>6, <2>1, OneQueue
  <2> QED BY <1>2, <1>3, <2>1, <2>2
<1>8. Lists' = [Lists EXCEPT ![c] = Append(IF Len(@) = BufferSize - 1 THEN Tail(@) ELSE @, d)]
  BY <1>7
<1>9. Queues!Put(c, d)
  BY <1>8 DEF Queues!Put, Lists
<1> QED BY <1>1, <1>9 DEF Queues!Next

\* pop is a take of the abstract queue, on its channel only.
LEMMA PopIsTake ==
    ASSUME WaitInv, NEW c \in Channels, channels[c].active, NonEmpty(c),
           channels' = [channels EXCEPT ![c] = Popped(@)]
    PROVE  Queues!Next
<1>1. c \in Active /\ Active \subseteq Channels /\ channels \in [Channels -> Channel]
  BY ChannelAssumption DEF WaitInv
<1>2. PICK ch \in Channel : ch = channels[c]
  BY <1>1
<1>3. Listed(ch) # <<>> /\ Listed(Popped(ch)) = Tail(Listed(ch))
  BY <1>2, PopTakes DEF NonEmpty
<1>4. channels' = [channels EXCEPT ![c] = Popped(ch)]
  BY <1>1, <1>2
<1>5. channels'[c] = Popped(ch) /\ \A e \in Active \ {c} : channels'[e] = channels[e]
  BY <1>1, <1>4
<1>6. Lists' = [Lists EXCEPT ![c] = Tail(Listed(ch))] /\ Lists[c] = Listed(ch)
  BY <1>1, <1>2, <1>3, <1>5, OneQueue
<1>7. Lists[c] # <<>> /\ Lists' = [Lists EXCEPT ![c] = Tail(@)]
  BY <1>3, <1>6
<1>8. Queues!Take(c)
  BY <1>7 DEF Queues!Take, Lists
<1> QED BY <1>1, <1>8 DEF Queues!Next

\* Every handler puts an event, takes one or leaves the queues alone.
LEMMA QueueStep == WaitInv /\ [EvNext]_evVars => [Queues!Next]_Lists
<1> SUFFICES ASSUME WaitInv, [EvNext]_evVars PROVE [Queues!Next]_Lists
  OBVIOUS
<1>1. ASSUME NEW c \in Channels, WaitLoop(c) PROVE [Queues!Next]_Lists
  <2>1. CASE NonEmpty(c)
    BY <1>1, <2>1, PopIsTake DEF WaitLoop
  <2>2. CASE ~NonEmpty(c)
    <3>1. channels' = [channels EXCEPT ![c] = Register(@)]
      BY <1>1, <2>2 DEF WaitLoop
    <3>2. /\ current_tid \in Tids /\ channels \in [Channels -> Channel] /\ Active \subseteq Channels
      BY ChannelAssumption DEF WaitInv, IInv, TypeOK
    <3>3. PICK ch \in Channel : ch = channels[c]
      BY <3>2
    <3>4. Listed(Register(ch)) = Listed(ch)
      BY <3>2, RegisterKeeps
    <3>5. channels'[c] = Register(ch) /\ \A e \in Channels \ {c} : channels'[e] = channels[e]
      BY <3>1, <3>2, <3>3
    <3>6. \A e \in Active : Listed(channels'[e]) = Listed(channels[e])
      BY <3>2, <3>3, <3>4, <3>5
    <3>7. Lists' = Lists
      BY <3>6, ContentsListed
    <3> QED BY <3>7
  <2> QED BY <2>1, <2>2
<1>2. CASE ev_timer
  BY <1>2, SameQueues DEF ev_timer
<1>3. CASE ev_create
  BY <1>3, SameQueues DEF ev_create
<1>4. ASSUME NEW t \in KillTargets, ev_kill(t) PROVE [Queues!Next]_Lists
  BY <1>4, SameQueues DEF ev_kill
<1>5. ASSUME NEW k \in SleepTicks, ev_sleep(k) PROVE [Queues!Next]_Lists
  BY <1>5, SameQueues DEF ev_sleep
<1>6. ASSUME NEW c \in Irqs, irq(c) PROVE [Queues!Next]_Lists
  BY <1>6, PushPuts, ChannelAssumption DEF irq
<1>7. ASSUME NEW c \in Channels, NEW d \in Data, sys_send(c, d) PROVE [Queues!Next]_Lists
  BY <1>7, PushPuts DEF sys_send
<1>8. ASSUME NEW c \in Channels, pop(c) PROVE [Queues!Next]_Lists
  BY <1>8, PopIsTake DEF pop
<1>9. ASSUME NEW c \in Channels, wait(c) PROVE [Queues!Next]_Lists
  BY <1>1, <1>9 DEF wait
<1>10. CASE wait_resume
  <2>1. PICK c : c = waiting[current_tid]
    OBVIOUS
  <2>2. c \in Channels /\ WaitLoop(c)
    BY <1>10, <2>1 DEF wait_resume, Interruptible, WaitInv, IInv, TypeOK
  <2> QED BY <1>1, <2>2
<1>11. CASE UNCHANGED evVars
  BY <1>11, SameQueues DEF evVars
<1> QED BY <1>2, <1>3, <1>4, <1>5, <1>6, <1>7, <1>8, <1>9, <1>10, <1>11 DEF EvNext

-----------------------------------------------------------------------------
(* Theorems *)

\* The inductive invariant holds in every reachable state.
THEOREM WaitInvariance == EvSpec => []WaitInv
  BY WaitInit, WaitNext, PTL DEF EvSpec

\* For any number of threads, channels and list entries: a thread blocked in
\* wait() whose registration found room is on the list of an empty channel.
THEOREM NoEventMissed == EvSpec => []NoMissedEvent
<1>1. WaitInv => NoMissedEvent
  BY DEF WaitInv
<1> QED BY <1>1, WaitInvariance, PTL

\* For rings of any size above one: events are taken in the order they were
\* pushed, and a push into a full ring gives up exactly the oldest.
THEOREM ChannelsAreQueues == EvSpec => ChannelIsLossyQueue
<1>1. EvInit => Queues!Init
  <2> SUFFICES ASSUME EvInit PROVE Queues!Init
    OBVIOUS
  <2>1. ASSUME NEW c \in Active PROVE Listed(channels[c]) = <<>>
    <3>1. c \in Channels /\ channels[c].head = 0 /\ channels[c].tail = 0
      BY ChannelAssumption DEF EvInit
    <3>2. channels[c] \in Channel
      BY <3>1, WaitInit DEF WaitInv
    <3>3. PICK f \in [R!Places -> Data] : f = channels[c].buffer
      BY <3>2, RingPlaces DEF Channel
    <3>4. PICK t \in R!Places : t = 0
      BY RingPlaces DEF Slots
    <3>5. PICK n \in Nat : n = 0 /\ R!Held(t, t) = n
      BY <3>4, RingPlaces DEF R!Held
    <3>6. R!RingSeq(f, t, n) \in Seq(Data) /\ Len(R!RingSeq(f, t, n)) = n
      BY RingSized, R!RingIsSeq, Zenon
    <3>7. Listed(channels[c]) = R!RingSeq(f, t, n)
      BY <3>1, <3>3, <3>4, <3>5 DEF Listed
    <3> QED BY <3>5, <3>6, <3>7, EmptySeq
  <2>2. Lists = [c \in Active |-> <<>>]
    BY <2>1, ContentsListed
  <2> QED BY <2>2 DEF Queues!Init, Lists
<1>2. WaitInv /\ [EvNext]_evVars => [Queues!Next]_[c \in Active |-> Contents(c)]
  BY QueueStep DEF Lists
<1> QED BY <1>1, <1>2, WaitInvariance, PTL DEF EvSpec, ChannelIsLossyQueue, Queues!Spec
=============================================================================
