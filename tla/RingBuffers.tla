--------------------------- MODULE RingBuffers ------------------------------
(***************************************************************************)
(* What a ring buffer holds, and that putting and taking are Append and    *)
(* Tail: shared by the proofs about message rings and event channels,      *)
(* which both count positions modulo the number Q of places.               *)
(***************************************************************************)
EXTENDS Integers, SequenceTheorems, TLAPS

CONSTANT Q

Sized == Q \in Nat \ {0}
Places == 0..(Q - 1)

\* A function on 1..n is a sequence of n elements.
LEMMA FunctionIsSeq ==
    ASSUME NEW S, NEW n \in Nat, NEW f \in [1..n -> S]
    PROVE  f \in Seq(S) /\ Len(f) = n
<1>1. f \in Seq(S)
  BY SeqDef
<1>2. Len(f) \in Nat /\ DOMAIN f = 1..Len(f) /\ DOMAIN f = 1..n
  BY <1>1, LenProperties
<1> QED BY <1>1, <1>2

\* The remainder of a number that is at most once around the ring.
LEMMA Around ==
    ASSUME Sized, NEW a \in Nat, a < Q + Q
    PROVE  a % Q = IF a < Q THEN a ELSE a - Q
  BY DEF Sized

\* Where the next message goes, and that no message is there.
LEMMA NextPlace ==
    ASSUME Sized, NEW h \in Places, NEW c \in Nat, c < Q,
           NEW t, t = (h + c) % Q
    PROVE  /\ t \in Places /\ (t + 1) % Q \in Places
           /\ (t + 1) % Q = (h + (c + 1)) % Q
           /\ \A i \in 1..c : /\ (h + i - 1) % Q \in Places
                              /\ (h + i - 1) % Q # t
<1>1. Q \in Nat \ {0} /\ h \in Nat /\ h < Q
  BY DEF Sized, Places
<1>2. t = IF h + c < Q THEN h + c ELSE h + c - Q
  <2>1. h + c \in Nat /\ h + c < Q + Q
    BY <1>1
  <2> QED BY <1>1, <2>1, Around DEF Sized
<1>3. t \in Nat /\ t < Q
  BY <1>1, <1>2
<1>4. (t + 1) % Q = IF t + 1 < Q THEN t + 1 ELSE t + 1 - Q
  <2>1. t + 1 \in Nat /\ t + 1 < Q + Q
    BY <1>1, <1>3
  <2> QED BY <1>1, <2>1, Around DEF Sized
<1>5. (h + (c + 1)) % Q
        = IF h + (c + 1) < Q THEN h + (c + 1) ELSE h + (c + 1) - Q
  <2>1. h + (c + 1) \in Nat /\ h + (c + 1) < Q + Q
    BY <1>1
  <2> QED BY <1>1, <2>1, Around DEF Sized
<1>6. ASSUME NEW i \in 1..c
      PROVE  (h + i - 1) % Q
               = IF h + i - 1 < Q THEN h + i - 1 ELSE h + i - 1 - Q
  <2>1. h + i - 1 \in Nat /\ h + i - 1 < Q + Q
    BY <1>1
  <2> QED BY <1>1, <2>1, Around DEF Sized
<1>7. t \in Places /\ (t + 1) % Q \in Places
  BY <1>1, <1>3, <1>4 DEF Places
<1>8. (t + 1) % Q = (h + (c + 1)) % Q
  BY <1>1, <1>2, <1>4, <1>5
<1>9. ASSUME NEW i \in 1..c
      PROVE  (h + i - 1) % Q \in Places /\ (h + i - 1) % Q # t
  BY <1>1, <1>2, <1>6 DEF Places
<1> QED BY <1>7, <1>8, <1>9

\* The places of the messages after the oldest.
LEMMA LaterPlaces ==
    ASSUME Sized, NEW h \in Places, NEW c \in Nat, c <= Q,
           NEW n, n = (h + 1) % Q
    PROVE  /\ n \in Places
           /\ \A i \in 1..c : (n + i - 1) % Q = (h + i) % Q
<1>1. Q \in Nat \ {0} /\ h \in Nat /\ h < Q
  BY DEF Sized, Places
<1>2. n = IF h + 1 < Q THEN h + 1 ELSE h + 1 - Q
  <2>1. h + 1 \in Nat /\ h + 1 < Q + Q
    BY <1>1
  <2> QED BY <1>1, <2>1, Around DEF Sized
<1>3. n \in Nat /\ n < Q /\ n \in Places
  BY <1>1, <1>2 DEF Places
<1>4. ASSUME NEW i \in 1..c PROVE (n + i - 1) % Q = (h + i) % Q
  <2>1. PICK a \in Nat : a = h + i
    BY <1>1
  <2>2. PICK b \in Nat : b = n + i - 1
    BY <1>3
  <2>3. a < Q + Q /\ b < Q + Q
    BY <1>1, <1>3, <2>1, <2>2
  <2>4. a % Q = IF a < Q THEN a ELSE a - Q
    BY <1>1, <2>3, Around DEF Sized
  <2>5. b % Q = IF b < Q THEN b ELSE b - Q
    BY <1>1, <2>3, Around DEF Sized
  <2>6. b = a \/ b = a - Q
    BY <1>1, <1>2, <2>1, <2>2
  <2>7. a % Q = b % Q
    BY <1>1, <2>1, <2>2, <2>3, <2>4, <2>5, <2>6
  <2> QED BY <2>1, <2>2, <2>7
<1> QED BY <1>3, <1>4

-----------------------------------------------------------------------------
\* The c elements of buffer f, the oldest at h.
RingSeq(f, h, c) == [i \in 1..c |-> f[(h + i - 1) % Q]]

\* It is a sequence of c elements.
LEMMA RingIsSeq ==
    ASSUME Sized, NEW S, NEW f \in [Places -> S], NEW h \in Places,
           NEW c \in Nat
    PROVE  /\ RingSeq(f, h, c) \in Seq(S) /\ Len(RingSeq(f, h, c)) = c
           /\ \A i \in 1..c : RingSeq(f, h, c)[i] = f[(h + i - 1) % Q]
<1> DEFINE l == RingSeq(f, h, c)
<1>1. ASSUME NEW i \in 1..c PROVE f[(h + i - 1) % Q] \in S
  <2>1. PICK a \in Nat : a = h + i - 1
    BY DEF Places
  <2>2. a % Q \in Places
    BY DEF Places, Sized
  <2> QED BY <2>1, <2>2
<1>2. l \in [1..c -> S]
  BY <1>1 DEF RingSeq
<1>3. \A i \in 1..c : l[i] = f[(h + i - 1) % Q]
  BY DEF RingSeq
<1> HIDE DEF l
<1>4. l \in Seq(S) /\ Len(l) = c
  BY <1>2, FunctionIsSeq
<1> QED BY <1>3, <1>4 DEF l

\* Sequence l holds the c elements of buffer f, the oldest at h.
Reads(l, S, f, h, c) ==
    /\ l \in Seq(S) /\ Len(l) = c
    /\ \A i \in 1..c : l[i] = f[(h + i - 1) % Q]

\* The elements of a ring are such a sequence.
LEMMA RingReads ==
    ASSUME Sized, NEW S, NEW f \in [Places -> S], NEW h \in Places,
           NEW c \in Nat
    PROVE  Reads(RingSeq(f, h, c), S, f, h, c)
<1>1. /\ RingSeq(f, h, c) \in Seq(S) /\ Len(RingSeq(f, h, c)) = c
      /\ \A i \in 1..c : RingSeq(f, h, c)[i] = f[(h + i - 1) % Q]
  BY ONLY RingIsSeq, Sized, f \in [Places -> S], h \in Places, c \in Nat, ZenonT(60)
<1> QED BY ONLY <1>1, Zenon DEF Reads

\* The places counted from n are the ones counted from h, one later.
OneLater(n, h, c) == \A i \in 1..c : (n + i - 1) % Q = (h + i) % Q

\* The place after the oldest is such an n.
LEMMA AfterOldest ==
    ASSUME Sized, NEW h \in Places, NEW c \in Nat, c <= Q
    PROVE  (h + 1) % Q \in Places /\ OneLater((h + 1) % Q, h, c)
<1>1. PICK n : n = (h + 1) % Q
  OBVIOUS
<1>2. n \in Places /\ \A i \in 1..c : (n + i - 1) % Q = (h + i) % Q
  BY ONLY LaterPlaces, Sized, h \in Places, c \in Nat, c <= Q, <1>1, ZenonT(60)
<1> QED BY ONLY <1>1, <1>2, Zenon DEF OneLater

\* An element put behind the newest is appended.
PutAppends(f, h, c, m) ==
    RingSeq([f EXCEPT ![(h + c) % Q] = m], h, c + 1) = Append(RingSeq(f, h, c), m)

\* A put at the place behind the last element appends.
LEMMA RingPut ==
    ASSUME Sized, NEW S, NEW f \in [Places -> S], NEW h \in Places,
           NEW c \in Nat, c < Q, NEW m \in S
    PROVE  PutAppends(f, h, c, m)
<1>b. PICK t : t = (h + c) % Q
  OBVIOUS
<1>a. ASSUME NEW g \in [Places -> S], NEW d \in Nat
      PROVE  Reads(RingSeq(g, h, d), S, g, h, d)
  BY RingReads
<1>1. /\ t \in Places
      /\ \A i \in 1..c : (h + i - 1) % Q \in Places /\ (h + i - 1) % Q # t
  BY <1>b, NextPlace, ZenonT(60)
<1>2. PICK g \in [Places -> S] : g = [f EXCEPT ![t] = m]
  BY <1>1
<1>3. g[t] = m
  BY <1>1, <1>2
<1>4. PICK l : l = RingSeq(f, h, c)
  OBVIOUS
<1>0. PICK d \in Nat : d = c + 1
  OBVIOUS
<1>5. PICK k : k = RingSeq(g, h, d)
  OBVIOUS
<1>6. /\ l \in Seq(S) /\ Len(l) = c
      /\ \A i \in 1..c : l[i] = f[(h + i - 1) % Q]
  <2>1. Reads(RingSeq(f, h, c), S, f, h, c)
    BY <1>a
  <2> QED BY ONLY <2>1, <1>4, ZenonT(60) DEF Reads
<1>7. /\ k \in Seq(S) /\ Len(k) = c + 1
      /\ \A i \in 1..(c + 1) : k[i] = g[(h + i - 1) % Q]
  <2>1. /\ k \in Seq(S) /\ Len(k) = d
        /\ \A i \in 1..d : k[i] = g[(h + i - 1) % Q]
    <3>1. Reads(RingSeq(g, h, d), S, g, h, d)
      BY <1>a
    <3> QED BY ONLY <3>1, <1>5, ZenonT(60) DEF Reads
  <2> QED BY <1>0, <2>1
<1>8. /\ Append(l, m) \in Seq(S) /\ Len(Append(l, m)) = c + 1
      /\ Append(l, m)[c + 1] = m /\ \A i \in 1..c : Append(l, m)[i] = l[i]
  BY <1>6, AppendProperties
<1>9. ASSUME NEW i \in 1..(c + 1) PROVE k[i] = Append(l, m)[i]
  <2>1. CASE i = c + 1
    <3>1. h + i - 1 = h + c
      BY <2>1
    <3> QED BY <1>b, <1>3, <1>7, <1>8, <2>1, <3>1
  <2>2. CASE i # c + 1
    <3>1. i \in 1..c
      BY <2>2
    <3>2. g[(h + i - 1) % Q] = f[(h + i - 1) % Q]
      BY <1>1, <1>2, <3>1
    <3> QED BY <1>6, <1>7, <1>8, <3>1, <3>2
  <2> QED BY <2>1, <2>2
<1>10. k = Append(l, m)
  BY <1>7, <1>8, <1>9, SeqEqual, SMTT(30)
<1> QED BY <1>b, <1>0, <1>2, <1>4, <1>5, <1>10 DEF PutAppends

\* Without its oldest element the ring holds the tail.
LEMMA RingTake ==
    ASSUME Sized, NEW S, NEW f \in [Places -> S], NEW h \in Places,
           NEW c \in Nat, c > 0, c <= Q
    PROVE  /\ RingSeq(f, h, c) # <<>>
           /\ RingSeq(f, (h + 1) % Q, c - 1) = Tail(RingSeq(f, h, c))
<1>1. PICK n : n = (h + 1) % Q
  OBVIOUS
<1>2. n \in Places /\ \A i \in 1..c : (n + i - 1) % Q = (h + i) % Q
  BY <1>1, AfterOldest DEF OneLater
<1>3. PICK d \in Nat : d = c - 1
  OBVIOUS
<1>4. PICK l : l = RingSeq(f, h, c)
  OBVIOUS
<1>5. PICK k : k = RingSeq(f, n, d)
  OBVIOUS
<1>6. /\ l \in Seq(S) /\ Len(l) = c
      /\ \A i \in 1..c : l[i] = f[(h + i - 1) % Q]
  <2>1. Reads(RingSeq(f, h, c), S, f, h, c)
    BY RingReads
  <2> QED BY ONLY <2>1, <1>4, ZenonT(60) DEF Reads
<1>7. /\ k \in Seq(S) /\ Len(k) = c - 1
      /\ \A i \in 1..(c - 1) : k[i] = f[(n + i - 1) % Q]
  <2>1. /\ k \in Seq(S) /\ Len(k) = d
        /\ \A i \in 1..d : k[i] = f[(n + i - 1) % Q]
    <3>1. Reads(RingSeq(f, n, d), S, f, n, d)
      BY <1>2, <1>3, RingReads
    <3> QED BY ONLY <3>1, <1>5, ZenonT(60) DEF Reads
  <2> QED BY <1>3, <2>1
<1>8. l # <<>>
  BY <1>6, EmptySeq
<1>9. /\ Tail(l) \in Seq(S) /\ Len(Tail(l)) = c - 1
      /\ \A i \in 1..(c - 1) : Tail(l)[i] = l[i + 1]
  BY <1>6, <1>8, HeadTailProperties
<1>10. ASSUME NEW i \in 1..(c - 1) PROVE k[i] = Tail(l)[i]
  <2>1. i \in 1..c /\ i + 1 \in 1..c /\ h + (i + 1) - 1 = h + i
    OBVIOUS
  <2>2. l[i + 1] = f[(h + i) % Q]
    BY <1>6, <2>1
  <2> QED BY <1>2, <1>7, <1>9, <2>1, <2>2
<1>11. k = Tail(l)
  BY <1>7, <1>9, <1>10, SeqEqual, SMTT(30)
<1> QED BY <1>1, <1>3, <1>4, <1>5, <1>8, <1>11

-----------------------------------------------------------------------------
(* Rings without a counter: what lies between tail t and head h *)

Held(h, t) == (h - t) % Q

\* Such a ring always leaves one place free.
Wide == Q \in Nat \ {0, 1}

\* The number of elements between tail and head, without %.
LEMMA HeldIs ==
    ASSUME Sized, NEW h \in Places, NEW t \in Places
    PROVE  Held(h, t) = IF h < t THEN h - t + Q ELSE h - t
<1>1. Q \in Nat \ {0} /\ t \in Nat /\ t < Q /\ h \in Nat /\ h < Q
  BY DEF Sized, Places
<1>2. PICK a \in Int : a = h - t
  BY <1>1
<1>3. a % Q = IF a < 0 THEN a + Q ELSE a
  BY <1>1, <1>2
<1> QED BY <1>1, <1>2, <1>3 DEF Held

\* The head is Held places after the tail.
LEMMA HeldPlaces ==
    ASSUME Sized, NEW h \in Places, NEW t \in Places, NEW c, c = Held(h, t)
    PROVE  c \in Nat /\ c < Q /\ h = (t + c) % Q /\ (c = 0 <=> h = t)
<1>1. Q \in Nat \ {0} /\ t \in Nat /\ t < Q /\ h \in Nat /\ h < Q
  BY DEF Sized, Places
<1>2. c = IF h < t THEN h - t + Q ELSE h - t
  BY HeldIs
<1>3. c \in Nat /\ c < Q /\ t + c \in Nat /\ t + c < Q + Q
  BY <1>1, <1>2
<1>4. (t + c) % Q = IF t + c < Q THEN t + c ELSE t + c - Q
  BY <1>1, <1>3, Around DEF Sized
<1> QED BY <1>1, <1>2, <1>3, <1>4

\* When the head moves on, it holds one more, unless it has caught up with the
\* tail: then the tail moves on too, and it holds all places but one.
HeadMovesOn(h, t) ==
    LET n == (h + 1) % Q
        u == (t + 1) % Q
    IN  /\ n \in Places /\ u \in Places
        /\ n = t \/ (Held(h, t) < Q - 1 /\ Held(n, t) = Held(h, t) + 1)
        /\ n # t \/ (Held(h, t) = Q - 1 /\ Held(n, u) = Q - 1)

\* Moving the head adds one element, unless the ring is full.
LEMMA HeldAdvance ==
    ASSUME Wide, NEW h \in Places, NEW t \in Places
    PROVE  HeadMovesOn(h, t)
<1>a. PICK c : c = Held(h, t)
  OBVIOUS
<1>b. PICK n : n = (h + 1) % Q
  OBVIOUS
<1>c. PICK u : u = (t + 1) % Q
  OBVIOUS
<1>1. Q \in Nat \ {0, 1} /\ t \in Nat /\ t < Q /\ h \in Nat /\ h < Q
  BY DEF Wide, Places
<1>2. n = IF h + 1 < Q THEN h + 1 ELSE h + 1 - Q
  <2>1. h + 1 \in Nat /\ h + 1 < Q + Q
    BY <1>1
  <2> QED BY <1>b, <1>1, <2>1, Around DEF Sized
<1>3. u = IF t + 1 < Q THEN t + 1 ELSE t + 1 - Q
  <2>1. t + 1 \in Nat /\ t + 1 < Q + Q
    BY <1>1
  <2> QED BY <1>c, <1>1, <2>1, Around DEF Sized
<1>4. n \in Places /\ u \in Places
  BY <1>1, <1>2, <1>3 DEF Places
<1>5. c = IF h < t THEN h - t + Q ELSE h - t
  BY <1>a, <1>1, HeldIs DEF Sized
<1>6. Held(n, t) = IF n < t THEN n - t + Q ELSE n - t
  BY <1>1, <1>4, HeldIs DEF Sized
<1>7. Held(n, u) = IF n < u THEN n - u + Q ELSE n - u
  BY <1>1, <1>4, HeldIs DEF Sized
<1>8. n # t => c < Q - 1 /\ Held(n, t) = c + 1
  BY <1>1, <1>2, <1>5, <1>6
<1>9. n = t => c = Q - 1 /\ Held(n, u) = Q - 1
  BY <1>1, <1>2, <1>3, <1>5, <1>7
<1> QED BY <1>a, <1>b, <1>c, <1>4, <1>8, <1>9 DEF HeadMovesOn

\* When the tail moves on, it holds one less.
TailMovesOn(h, t) ==
    LET u == (t + 1) % Q
    IN  u \in Places /\ (h = t \/ (Held(h, t) > 0 /\ Held(h, u) = Held(h, t) - 1))

\* Moving the tail takes one element away.
LEMMA HeldTake ==
    ASSUME Sized, NEW h \in Places, NEW t \in Places
    PROVE  TailMovesOn(h, t)
<1>a. PICK c : c = Held(h, t)
  OBVIOUS
<1>c. PICK u : u = (t + 1) % Q
  OBVIOUS
<1>1. Q \in Nat \ {0} /\ t \in Nat /\ t < Q /\ h \in Nat /\ h < Q
  BY DEF Sized, Places
<1>2. u = IF t + 1 < Q THEN t + 1 ELSE t + 1 - Q
  <2>1. t + 1 \in Nat /\ t + 1 < Q + Q
    BY <1>1
  <2> QED BY <1>c, <1>1, <2>1, Around DEF Sized
<1>3. u \in Places
  BY <1>1, <1>2 DEF Places
<1>4. c = IF h < t THEN h - t + Q ELSE h - t
  BY <1>a, HeldIs
<1>5. Held(h, u) = IF h < u THEN h - u + Q ELSE h - u
  BY <1>3, HeldIs
<1>6. h = t \/ (c > 0 /\ Held(h, u) = c - 1)
  BY <1>1, <1>2, <1>4, <1>5
<1> QED BY <1>a, <1>c, <1>3, <1>6 DEF TailMovesOn
=============================================================================
