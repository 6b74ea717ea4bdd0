----------------------------- MODULE IpcProofs -----------------------------
(***************************************************************************)
(* Proofs about IpcMessages, for any number of threads, rings of any size  *)
(* and any payloads: no message is slept through, and the rings implement  *)
(* mailboxes.                                                              *)
(***************************************************************************)
EXTENDS IpcMessages, TaskSchedulerProofs

R == INSTANCE RingBuffers WITH Q <- QueueSize

-----------------------------------------------------------------------------
(* A ring as a sequence *)

\* The slots of a cleared ring keep what they held.
Kept == Message \cup {NoMessage}
Ring == [messages : [Slots -> Kept], head : Slots, tail : Slots, count : 0..QueueSize]

\* The tail is where the messages end.
Closed(r) == r.tail = (r.head + r.count) % QueueSize

Listed(r) == R!RingSeq(r.messages, r.head, r.count)

\* The facts on rings of any size hold of these.
LEMMA RingSized == R!Sized
  BY QueueAssumption DEF R!Sized

\* The places of the ring are the slots of the model.
LEMMA RingPlaces == R!Places = Slots /\ QueueSize \in Nat \ {0}
  BY QueueAssumption DEF R!Places, Slots

\* sys_send_msg appends.
LEMMA PutAppends ==
    ASSUME NEW r \in Ring, Closed(r), HasRoom(r), NEW m \in Message
    PROVE  /\ Put(r, m) \in Ring /\ Closed(Put(r, m))
           /\ Len(Listed(r)) < QueueSize /\ Listed(Put(r, m)) = Append(Listed(r), m)
<1>1. PICK h \in R!Places : h = r.head
  BY RingPlaces DEF Ring
<1>2. PICK c \in Nat : c = r.count /\ c < QueueSize
  BY RingPlaces DEF Ring, HasRoom
<1>3. PICK f \in [R!Places -> Kept] : f = r.messages
  BY RingPlaces DEF Ring
<1>4. PICK t : t = (h + c) % QueueSize
  OBVIOUS
<1>5. t = r.tail
  BY <1>1, <1>2, <1>4 DEF Closed
<1>6. /\ t \in R!Places /\ (t + 1) % QueueSize \in R!Places
      /\ (t + 1) % QueueSize = (h + (c + 1)) % QueueSize
  BY <1>2, <1>4, RingSized, R!NextPlace, Zenon
<1>7. m \in Kept
  BY DEF Kept
<1>8. R!RingSeq([f EXCEPT ![t] = m], h, c + 1) = Append(R!RingSeq(f, h, c), m)
  <2>1. c < QueueSize
    BY <1>2
  <2>2. PICK e \in Kept : e = m
    BY <1>7
  <2>3. R!PutAppends(f, h, c, e)
    BY <2>1, RingSized, R!RingPut, Zenon
  <2> QED BY <1>4, <2>2, <2>3 DEF R!PutAppends
<1>9. Len(R!RingSeq(f, h, c)) = c
  BY RingSized, R!RingIsSeq, Zenon
<1>10. /\ Put(r, m).messages = [f EXCEPT ![t] = m] /\ Put(r, m).head = h
       /\ Put(r, m).tail = (t + 1) % QueueSize /\ Put(r, m).count = c + 1
  BY <1>1, <1>2, <1>3, <1>5 DEF Put, Ring
<1>11. Put(r, m) \in Ring
  <2>1. PICK x \in 0..QueueSize : x = c + 1
    BY <1>2, RingPlaces
  <2>2. PICK g \in [Slots -> Kept] : g = [f EXCEPT ![t] = m]
    BY <1>6, <1>7, RingPlaces
  <2>3. PICK y \in Slots : y = (t + 1) % QueueSize
    BY <1>6, RingPlaces
  <2>4. Put(r, m) = [r EXCEPT !.messages = g, !.tail = y, !.count = x]
    BY <1>2, <1>3, <1>5, <2>1, <2>2, <2>3 DEF Put, Ring
  <2>5. [r EXCEPT !.messages = g, !.tail = y, !.count = x] \in Ring
    BY DEF Ring
  <2> QED BY <2>4, <2>5
<1>12. Closed(Put(r, m))
  BY <1>6, <1>10 DEF Closed
<1>13. Listed(Put(r, m)) = R!RingSeq([f EXCEPT ![t] = m], h, c + 1)
  BY <1>10 DEF Listed
<1>14. Listed(r) = R!RingSeq(f, h, c)
  BY <1>1, <1>2, <1>3 DEF Listed
<1> QED BY <1>2, <1>8, <1>9, <1>11, <1>12, <1>13, <1>14

\* sys_recv_msg takes the oldest.
LEMMA TakeIsTail ==
    ASSUME NEW r \in Ring, Closed(r), r.count > 0
    PROVE  /\ Take(r) \in Ring /\ Closed(Take(r))
           /\ Listed(r) # <<>> /\ Listed(Take(r)) = Tail(Listed(r))
<1>1. PICK h \in R!Places : h = r.head
  BY RingPlaces DEF Ring
<1>2. PICK c \in Nat : c = r.count /\ c > 0 /\ c <= QueueSize
  BY RingPlaces DEF Ring
<1>3. PICK f \in [R!Places -> Kept] : f = r.messages
  BY RingPlaces DEF Ring
<1>4. PICK n : n = (h + 1) % QueueSize
  OBVIOUS
<1>5. n \in R!Places /\ \A i \in 1..c : (n + i - 1) % QueueSize = (h + i) % QueueSize
  <2>1. c <= QueueSize
    BY <1>2
  <2> QED BY <1>4, <2>1, RingSized, R!LaterPlaces, ZenonT(60)
<1>6. /\ R!RingSeq(f, h, c) # <<>>
      /\ R!RingSeq(f, (h + 1) % QueueSize, c - 1) = Tail(R!RingSeq(f, h, c))
  BY <1>2, RingSized, R!RingTake, Zenon
<1>7. /\ Take(r).messages = f /\ Take(r).head = n
      /\ Take(r).tail = r.tail /\ Take(r).count = c - 1
  BY <1>1, <1>2, <1>3, <1>4 DEF Take, Ring
<1>8. Take(r) \in Ring
  <2>1. PICK x \in 0..QueueSize : x = c - 1
    BY <1>2, RingPlaces
  <2>2. PICK y \in Slots : y = n
    BY <1>5, RingPlaces
  <2>3. Take(r) = [r EXCEPT !.head = y, !.count = x]
    BY <1>1, <1>2, <1>4, <2>1, <2>2 DEF Take, Ring
  <2>4. [r EXCEPT !.head = y, !.count = x] \in Ring
    BY DEF Ring
  <2> QED BY <2>3, <2>4
<1>9. Closed(Take(r))
  <2>1. (n + c - 1) % QueueSize = (h + c) % QueueSize
    BY <1>2, <1>5
  <2>2. n \in Int /\ n + c - 1 = n + (c - 1)
    BY <1>5, RingPlaces DEF Slots
  <2> QED BY <1>1, <1>2, <1>7, <2>1, <2>2 DEF Closed
<1>10. Listed(Take(r)) = R!RingSeq(f, (h + 1) % QueueSize, c - 1)
  BY <1>4, <1>7 DEF Listed
<1>11. Listed(r) = R!RingSeq(f, h, c)
  BY <1>1, <1>2, <1>3 DEF Listed
<1> QED BY <1>6, <1>8, <1>9, <1>10, <1>11

\* An empty ring holds nothing.
LEMMA EmptyRing ==
    ASSUME NEW r \in Ring, r.count = 0
    PROVE  Listed(r) = <<>>
<1>1. PICK h \in R!Places : h = r.head
  BY RingPlaces DEF Ring
<1>2. PICK f \in [R!Places -> Kept] : f = r.messages
  BY RingPlaces DEF Ring
<1>3. R!RingSeq(f, h, 0) \in Seq(Kept) /\ Len(R!RingSeq(f, h, 0)) = 0
  <2>1. PICK c \in Nat : c = 0
    OBVIOUS
  <2>2. R!RingSeq(f, h, c) \in Seq(Kept) /\ Len(R!RingSeq(f, h, c)) = c
    BY RingSized, R!RingIsSeq, Zenon
  <2> QED BY <2>1, <2>2
<1> QED BY <1>1, <1>2, <1>3 DEF Listed

\* A new thread's ring is empty.
LEMMA ClearedIsEmpty ==
    ASSUME NEW r \in Ring
    PROVE  Cleared(r) \in Ring /\ Closed(Cleared(r)) /\ Listed(Cleared(r)) = <<>>
<1>1. Cleared(r).head = 0 /\ Cleared(r).tail = 0 /\ Cleared(r).count = 0
  BY DEF Cleared, Ring
<1>2. 0 \in Slots /\ 0 \in 0..QueueSize /\ 0 % QueueSize = 0
  BY QueueAssumption DEF Slots
<1>3. Cleared(r) \in Ring
  BY <1>2 DEF Cleared, Ring
<1>4. Closed(Cleared(r))
  BY <1>1, <1>2 DEF Closed
<1> QED BY <1>1, <1>3, <1>4, EmptyRing

-----------------------------------------------------------------------------
(* The inductive invariant *)

\* The rings are well formed, thread 0 never receives, and no message is
\* slept through; about the thread table, what the scheduler keeps.
RecvInv ==
    /\ IInv /\ Awake(threads)
    /\ in_recv \subseteq Tids \ {0}
    /\ ring \in [Tids -> Ring]
    /\ \A t \in Tids : Closed(ring[t])
    /\ NoMissedMessage

\* The invariant holds at boot.
LEMMA RecvInit == IpcInit => RecvInv
<1> SUFFICES ASSUME IpcInit PROVE RecvInv
  OBVIOUS
<1>1. IInv /\ Awake(threads)
  BY InitInv, SchedulerAssumption DEF IpcInit, Init, thread_init, Awake, Tids
<1>2. 0 \in Slots /\ 0 \in 0..QueueSize /\ (0 + 0) % QueueSize = 0
  BY QueueAssumption DEF Slots
<1>3. [i \in Slots |-> NoMessage] \in [Slots -> Kept]
  BY DEF Kept
<1>4. PICK r : r = [messages |-> [i \in Slots |-> NoMessage], head |-> 0, tail |-> 0, count |-> 0]
  OBVIOUS
<1>5. r \in Ring /\ Closed(r)
  BY <1>2, <1>3, <1>4 DEF Ring, Closed
<1>6. ring = [t \in Tids |-> r]
  BY <1>4 DEF IpcInit
<1> QED BY <1>1, <1>5, <1>6 DEF IpcInit, RecvInv, NoMissedMessage

\* To the scheduler, every step of a call is one of its own handlers.
LEMMA CallsSchedule == RecvInv /\ [IpcNext]_ipcVars => [Next]_schedVars
<1> SUFFICES ASSUME RecvInv, [IpcNext]_ipcVars PROVE [Next]_schedVars
  OBVIOUS
<1>1. ASSUME RecvLoop, Executing, current_tid # 0 PROVE [Next]_schedVars
  <2>1. CASE UNCHANGED schedVars
    BY <2>1
  <2>2. CASE block_current(NoChannel)
    BY <1>1, <2>2, QueueAssumption DEF Next, Working
  <2> QED BY <1>1, <2>1, <2>2 DEF RecvLoop
<1>2. CASE ipc_timer
  BY <1>2 DEF ipc_timer, Next
<1>3. CASE ipc_create
  BY <1>3 DEF ipc_create, Next
<1>4. ASSUME NEW t \in KillTargets, ipc_kill(t) PROVE [Next]_schedVars
  BY <1>4 DEF ipc_kill, Next
<1>5. ASSUME NEW t \in Targets, NEW d \in Payloads, sys_send_msg(t, d) PROVE [Next]_schedVars
  <2>1. t \in Tids
    BY QueueAssumption
  <2>2. CASE t \in waiting_for_msg
    <3>1. unblock(t)
      BY <1>5, <2>2 DEF sys_send_msg, unblock
    <3> QED BY <2>1, <3>1 DEF Next
  <2>3. CASE t \notin waiting_for_msg
    BY <1>5, <2>3 DEF sys_send_msg, schedVars
  <2> QED BY <2>2, <2>3
<1>6. CASE sys_recv_msg
  BY <1>1, <1>6 DEF sys_recv_msg, InCall, Working
<1>7. CASE recv_resume
  BY <1>1, <1>7 DEF recv_resume, RecvInv
<1>8. CASE UNCHANGED ipcVars
  BY <1>8 DEF ipcVars, schedVars
<1> QED BY <1>2, <1>3, <1>4, <1>5, <1>6, <1>7, <1>8 DEF IpcNext

\* What one pass of sys_recv_msg does to the rings and to who is waiting.
LEMMA PassKeeps ==
    ASSUME RecvInv, RecvLoop, current_tid # 0,
           \A t \in Tids : threads'[t].state = "Blocked"
                             => threads[t].state = "Blocked" \/ t = current_tid
    PROVE  /\ in_recv' \subseteq Tids \ {0}
           /\ ring' \in [Tids -> Ring]
           /\ \A t \in Tids : Closed(ring'[t])
           /\ NoMissedMessage'
<1>1. current_tid \in Tids /\ ring \in [Tids -> Ring] /\ in_recv \subseteq Tids \ {0}
  BY DEF RecvInv, IInv, TypeOK
<1>2. CASE ring[current_tid].count > 0
  <2>1. /\ ring' = [ring EXCEPT ![current_tid] = Take(ring[current_tid])]
        /\ in_recv' = in_recv \ {current_tid}
        /\ UNCHANGED <<threads, waiting_for_msg>>
    BY <1>2, <1>1 DEF RecvLoop, schedVars
  <2>2. PICK r \in Ring : r = ring[current_tid]
    BY <1>1
  <2>3. Take(r) \in Ring /\ Closed(Take(r))
    BY <1>1, <1>2, <2>2, TakeIsTail DEF RecvInv
  <2>4. /\ ring' \in [Tids -> Ring] /\ ring'[current_tid] = Take(r)
        /\ \A t \in Tids \ {current_tid} : ring'[t] = ring[t]
    BY <1>1, <2>1, <2>2, <2>3
  <2>5. \A t \in Tids : Closed(ring'[t])
    BY <2>3, <2>4 DEF RecvInv
  <2>6. NoMissedMessage'
    BY <1>1, <2>1, <2>4 DEF RecvInv, NoMissedMessage
  <2> QED BY <1>1, <2>1, <2>4, <2>5, <2>6
<1>3. CASE ring[current_tid].count = 0
  <2>1. /\ ring' = ring /\ waiting_for_msg' = waiting_for_msg \cup {current_tid}
        /\ in_recv' = in_recv \cup {current_tid}
    BY <1>3, <1>1 DEF RecvLoop
  <2>2. NoMissedMessage'
    BY <1>1, <1>3, <2>1 DEF RecvInv, NoMissedMessage
  <2> QED BY <1>1, <2>1, <2>2 DEF RecvInv
<1> QED BY <1>2, <1>3 DEF RecvLoop

\* Every step keeps the invariant.
LEMMA RecvNext == RecvInv /\ [IpcNext]_ipcVars => RecvInv'
<1> SUFFICES ASSUME RecvInv, [IpcNext]_ipcVars PROVE RecvInv'
  OBVIOUS
<1>1. [Next]_schedVars /\ IInv /\ Awake(threads)
  BY CallsSchedule DEF RecvInv
<1>2. IInv' /\ Awake(threads')
  BY <1>1, NextInv, NextWaits
<1>3. \A t \in Tids : threads'[t].state = "Blocked"
                        => threads[t].state = "Blocked" \/ t = current_tid
  BY <1>1, NextWaits DEF WaitersKept
<1>4. ring \in [Tids -> Ring] /\ in_recv \subseteq Tids \ {0} /\ current_tid \in Tids
  BY DEF RecvInv, IInv, TypeOK
<1> DEFINE Rest == /\ in_recv' \subseteq Tids \ {0}
                   /\ ring' \in [Tids -> Ring]
                   /\ \A t \in Tids : Closed(ring'[t])
                   /\ NoMissedMessage'
<1> SUFFICES Rest
  BY <1>2 DEF RecvInv
<1>5. ASSUME Interruptible, UNCHANGED <<ring, waiting_for_msg, in_recv>> PROVE Rest
  BY <1>3, <1>4, <1>5 DEF RecvInv, Interruptible, NoMissedMessage
<1>6. CASE ipc_timer
  BY <1>5, <1>6 DEF ipc_timer
<1>7. CASE ipc_create
  <2>1. PICK f \in Tids : f = FirstFree
    BY <1>7, FirstFreeIsFree DEF ipc_create, thread_create
  <2>2. /\ ring' = [ring EXCEPT ![f] = Cleared(ring[f])]
        /\ waiting_for_msg' = waiting_for_msg \ {f} /\ in_recv' = in_recv \ {f}
    BY <1>7, <2>1, <1>4 DEF ipc_create
  <2>3. PICK r \in Ring : r = ring[f]
    BY <1>4
  <2>4. Cleared(r) \in Ring /\ Closed(Cleared(r))
    BY ClearedIsEmpty
  <2>5. /\ ring' \in [Tids -> Ring] /\ ring'[f] = Cleared(r)
        /\ \A t \in Tids \ {f} : ring'[t] = ring[t]
    BY <1>4, <2>2, <2>3, <2>4
  <2>6. \A t \in Tids : Closed(ring'[t])
    BY <2>4, <2>5 DEF RecvInv
  <2>7. NoMissedMessage'
    BY <1>3, <1>4, <1>7, <2>2, <2>5 DEF RecvInv, NoMissedMessage, ipc_create, Interruptible
  <2> QED BY <1>4, <2>2, <2>5, <2>6, <2>7
<1>8. ASSUME NEW t \in KillTargets, ipc_kill(t) PROVE Rest
  BY <1>5, <1>8 DEF ipc_kill, InCall
<1>9. ASSUME NEW t \in Targets, NEW d \in Payloads, sys_send_msg(t, d) PROVE Rest
  <2>1. t \in Tids
    BY QueueAssumption
  <2>2. PICK m \in Message : m = [sender |-> current_tid, data |-> d]
    BY <1>4 DEF Message
  <2>3. PICK r \in Ring : r = ring[t]
    BY <1>4, <2>1
  <2>4. Put(r, m) \in Ring /\ Closed(Put(r, m))
    BY <1>9, <2>1, <2>3, PutAppends DEF sys_send_msg, RecvInv
  <2>5. /\ ring' \in [Tids -> Ring] /\ ring'[t] = Put(r, m)
        /\ \A u \in Tids \ {t} : ring'[u] = ring[u]
    BY <1>4, <1>9, <2>1, <2>2, <2>3, <2>4 DEF sys_send_msg
  <2>6. \A u \in Tids : Closed(ring'[u])
    BY <2>4, <2>5 DEF RecvInv
  <2>7. t \in in_recv => threads'[t].state # "Blocked"
    <3>1. CASE threads[t].state = "Blocked" /\ t \in in_recv
      <4>1. t \in waiting_for_msg
        BY <3>1 DEF RecvInv, NoMissedMessage
      <4>2. threads' = [threads EXCEPT ![t].state = "Ready", ![t].channel = NoChannel]
        BY <1>9, <3>1, <4>1 DEF sys_send_msg, Unblocked
      <4>3. threads \in [Tids -> Thread]
        BY DEF RecvInv, IInv, TypeOK
      <4> QED BY <2>1, <4>2, <4>3 DEF Thread
    <3>2. CASE threads[t].state # "Blocked"
      <4>1. threads' = threads
        BY <1>9, <3>2 DEF sys_send_msg, Unblocked
      <4> QED BY <3>2, <4>1
    <3> QED BY <3>1, <3>2
  <2>8. /\ waiting_for_msg' = waiting_for_msg \ {t} /\ in_recv' = in_recv
        /\ current_tid \notin in_recv
    BY <1>9 DEF sys_send_msg, InCall, Interruptible
  <2>9. NoMissedMessage'
    BY <1>3, <1>4, <2>5, <2>7, <2>8 DEF RecvInv, NoMissedMessage
  <2> QED BY <1>4, <2>5, <2>6, <2>8, <2>9
<1>10. CASE sys_recv_msg
  BY <1>3, <1>10, PassKeeps DEF sys_recv_msg, InCall, Working
<1>11. CASE recv_resume
  BY <1>3, <1>4, <1>11, PassKeeps DEF recv_resume
<1>12. CASE UNCHANGED ipcVars
  BY <1>4, <1>12 DEF ipcVars, schedVars, RecvInv, NoMissedMessage
<1> QED BY <1>6, <1>7, <1>8, <1>9, <1>10, <1>11, <1>12 DEF IpcNext

-----------------------------------------------------------------------------
(* The refinement *)

Mails == [t \in Tids |-> Contents(t)]

\* The mailboxes of the abstraction are the rings read as sequences.
LEMMA MailsListed == Mails = [t \in Tids |-> Listed(ring[t])]
<1>1. ASSUME NEW t \in Tids PROVE Contents(t) = Listed(ring[t])
  BY DEF Contents, Listed, R!RingSeq
<1> QED BY <1>1 DEF Mails

\* The same after the step.
LEMMA MailsListedNext == Mails' = [t \in Tids |-> Listed(ring'[t])]
<1>1. ASSUME NEW t \in Tids PROVE Contents(t)' = Listed(ring'[t])
  BY DEF Contents, Listed, R!RingSeq
<1> QED BY <1>1 DEF Mails

\* A change of one ring is that change of one mailbox.
LEMMA OneMail ==
    ASSUME NEW t \in Tids, NEW s, \A u \in Tids \ {t} : ring'[u] = ring[u],
           Listed(ring'[t]) = s
    PROVE  Mails' = [Mails EXCEPT ![t] = s] /\ Mails[t] = Listed(ring[t])
  BY MailsListed, MailsListedNext

\* Steps that leave the rings alone leave the mailboxes alone.
LEMMA SameMail == ring' = ring => Mails' = Mails
  BY MailsListed, MailsListedNext

\* Every step of a call accepts a message, receives one, hands the ring to a new
\* thread or leaves the mailboxes alone.
LEMMA MailStep == RecvInv /\ [IpcNext]_ipcVars => [Mail!Next]_Mails
<1> SUFFICES ASSUME RecvInv, [IpcNext]_ipcVars PROVE [Mail!Next]_Mails
  OBVIOUS
<1>1. ring \in [Tids -> Ring] /\ current_tid \in Tids /\ \A t \in Tids : Closed(ring[t])
  BY DEF RecvInv, IInv, TypeOK
<1>2. ASSUME RecvLoop PROVE [Mail!Next]_Mails
  <2>1. CASE ring[current_tid].count > 0
    <3>1. PICK t \in Tids : t = current_tid
      BY <1>1
    <3>2. PICK r \in Ring : r = ring[t]
      BY <1>1
    <3>3. Listed(r) # <<>> /\ Listed(Take(r)) = Tail(Listed(r))
      BY <1>1, <2>1, <3>1, <3>2, TakeIsTail
    <3>4. ring' = [ring EXCEPT ![t] = Take(r)]
      BY <1>1, <1>2, <2>1, <3>1, <3>2 DEF RecvLoop
    <3>5. ring'[t] = Take(r) /\ \A u \in Tids \ {t} : ring'[u] = ring[u]
      BY <1>1, <3>4
    <3>6. Mails' = [Mails EXCEPT ![t] = Tail(Listed(r))] /\ Mails[t] = Listed(r)
      BY <3>2, <3>3, <3>5, OneMail
    <3>7. Mails[t] # <<>> /\ Mails' = [Mails EXCEPT ![t] = Tail(@)]
      BY <3>3, <3>6
    <3>8. Mail!Receive(t)
      BY <3>7 DEF Mail!Receive, Mails
    <3> QED BY <3>8 DEF Mail!Next
  <2>2. CASE ring[current_tid].count = 0
    BY <1>1, <1>2, <2>2, SameMail DEF RecvLoop
  <2> QED BY <1>2, <2>1, <2>2 DEF RecvLoop
<1>3. CASE ipc_timer
  BY <1>3, SameMail DEF ipc_timer
<1>4. CASE ipc_create
  <2>1. PICK f \in Tids : f = FirstFree
    BY <1>4, FirstFreeIsFree DEF ipc_create, thread_create
  <2>2. PICK r \in Ring : r = ring[f]
    BY <1>1
  <2>3. ring' = [ring EXCEPT ![f] = Cleared(r)]
    BY <1>1, <1>4, <2>1, <2>2 DEF ipc_create
  <2>4. ring'[f] = Cleared(r) /\ \A u \in Tids \ {f} : ring'[u] = ring[u]
    BY <1>1, <2>3
  <2>5. Listed(ring'[f]) = <<>>
    BY <2>4, ClearedIsEmpty
  <2>6. Mails' = [Mails EXCEPT ![f] = <<>>]
    BY <2>4, <2>5, OneMail
  <2>7. Mail!NewOwner(f)
    BY <2>6 DEF Mail!NewOwner, Mails
  <2> QED BY <2>7 DEF Mail!Next
<1>5. ASSUME NEW t \in KillTargets, ipc_kill(t) PROVE [Mail!Next]_Mails
  BY <1>5, SameMail DEF ipc_kill
<1>6. ASSUME NEW t \in Targets, NEW d \in Payloads, sys_send_msg(t, d) PROVE [Mail!Next]_Mails
  <2>1. t \in Tids
    BY QueueAssumption
  <2>2. PICK m \in Message : m = [sender |-> current_tid, data |-> d]
    BY <1>1 DEF Message
  <2>3. PICK r \in Ring : r = ring[t]
    BY <1>1, <2>1
  <2>4. Len(Listed(r)) < QueueSize /\ Listed(Put(r, m)) = Append(Listed(r), m)
    BY <1>1, <1>6, <2>1, <2>3, PutAppends DEF sys_send_msg
  <2>5. ring' = [ring EXCEPT ![t] = Put(r, m)]
    BY <1>1, <1>6, <2>1, <2>2, <2>3 DEF sys_send_msg
  <2>6. ring'[t] = Put(r, m) /\ \A u \in Tids \ {t} : ring'[u] = ring[u]
    BY <1>1, <2>1, <2>5
  <2>7. Mails' = [Mails EXCEPT ![t] = Append(Listed(r), m)] /\ Mails[t] = Listed(r)
    BY <2>1, <2>3, <2>4, <2>6, OneMail
  <2>8. Len(Mails[t]) < QueueSize /\ Mails' = [Mails EXCEPT ![t] = Append(@, m)]
    BY <2>4, <2>7
  <2>9. Mail!Accept(t, m)
    BY <2>8 DEF Mail!Accept, Mails
  <2> QED BY <2>1, <2>9 DEF Mail!Next
<1>7. CASE sys_recv_msg
  BY <1>2, <1>7 DEF sys_recv_msg
<1>8. CASE recv_resume
  BY <1>2, <1>8 DEF recv_resume
<1>9. CASE UNCHANGED ipcVars
  BY <1>9, SameMail DEF ipcVars
<1> QED BY <1>3, <1>4, <1>5, <1>6, <1>7, <1>8, <1>9 DEF IpcNext

-----------------------------------------------------------------------------
(* Theorems *)

\* The inductive invariant holds in every reachable state of the message system.
THEOREM RecvInvariance == IpcSpec => []RecvInv
  BY RecvInit, RecvNext, PTL DEF IpcSpec

\* For any number of threads and rings of any size: a thread blocked in
\* sys_recv_msg has an empty ring and has asked to be woken.
THEOREM NoMessageMissed == IpcSpec => []NoMissedMessage
<1>1. RecvInv => NoMissedMessage
  BY DEF RecvInv
<1> QED BY <1>1, RecvInvariance, PTL

\* For any number of threads, rings of any size and any payloads: messages are
\* received in the order they were accepted, none is lost and none comes twice,
\* though head and tail go round the ring and a new thread inherits the slots.
THEOREM RingsAreMailboxes == IpcSpec => RingIsMailbox
<1>1. IpcInit => Mail!Init
  <2> SUFFICES ASSUME IpcInit PROVE Mail!Init
    OBVIOUS
  <2>1. ASSUME NEW t \in Tids PROVE Listed(ring[t]) = <<>>
    <3>1. RecvInv /\ ring[t].count = 0
      BY RecvInit DEF IpcInit
    <3> QED BY <3>1, EmptyRing DEF RecvInv
  <2>2. Mails = [t \in Tids |-> <<>>]
    BY <2>1, MailsListed
  <2> QED BY <2>2 DEF Mail!Init, Mails
<1>2. RecvInv /\ [IpcNext]_ipcVars => [Mail!Next]_[t \in Tids |-> Contents(t)]
  BY MailStep DEF Mails
<1> QED BY <1>1, <1>2, RecvInvariance, PTL DEF IpcSpec, RingIsMailbox, Mail!Spec
=============================================================================
