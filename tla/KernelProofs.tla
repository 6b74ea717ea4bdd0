--------------------------- MODULE KernelProofs ---------------------------
(***************************************************************************)
(* Proofs about the page cache and the keyboard, for any sizes of the      *)
(* cache and of the ring and any sets of keys and frames.                  *)
(***************************************************************************)
EXTENDS PageCache, Keyboard, FiniteSetTheorems, SequenceTheorems, TLAPS

\* Every nonempty set of natural numbers has a smallest element, and LeastOf
\* is it.
LEMMA LeastIsIn ==
    ASSUME NEW S \in SUBSET Nat, S # {}
    PROVE  LeastOf(S) \in S /\ \A y \in S : LeastOf(S) <= y
<1>1. \E x \in S : \A y \in S : ~(<<y, x>> \in OpToRel(<, Nat))
  BY NatLessThanWellFounded, WFMin
<1>2. \A x, y \in S : y < x => <<y, x>> \in OpToRel(<, Nat)
  BY DEF OpToRel
<1>3. \E x \in S : \A y \in S : ~(y < x)
  BY <1>1, <1>2, Zenon
<1>4. \E x \in S : \A y \in S : x <= y
  BY <1>3
<1> QED BY <1>4 DEF LeastOf

-----------------------------------------------------------------------------
(* The page cache *)

\* What a slot may hold: the newest frame of a key that is probed for there.
Current(e, s) ==
    /\ e.key \in Keys /\ e.frame \in CacheFrames
    /\ e.frame = newest[e.key]
    /\ \E i \in Ways : s = Probe(e.key, i)

\* The inductive invariant: LookupFindsNewest looks at the slots a key is
\* probed for, and an insertion changes what is newest for a key wherever the
\* key sits.
CacheInv ==
    /\ bitmap_ \subseteq CacheFrames
    /\ DOMAIN entries_ = Slots /\ DOMAIN newest = Keys
    /\ \A s \in Slots : entries_[s] = Invalid \/ Current(entries_[s], s)

\* The four slots of a key are slots of the cache.
LEMMA ProbesAreSlots ==
    ASSUME NEW k \in Keys, NEW i \in Ways
    PROVE  Probe(k, i) \in Slots
<1>1. k[1] \in Nat /\ k[2] \in Nat /\ PAGE_CACHE_SIZE \in Nat \ {0} /\ HashFactor \in Nat
  BY CacheAssumption DEF Keys
<1>2. k[1] * HashFactor + k[2] \in Int
  BY <1>1
<1>3. hash(k) \in Int
  BY <1>1, <1>2 DEF hash
<1> QED BY <1>1, <1>3 DEF Probe, Slots, Ways

\* A look-up that finds a slot with the key returns the newest frame, and one
\* that returns nothing has found none.
LEMMA LookupHits ==
    ASSUME CacheInv, NEW k \in Keys
    PROVE  /\ lookup(k) \in {NoFrame, newest[k]}
           /\ lookup(k) = NoFrame =>
                \A i \in Ways : entries_[Probe(k, i)] = Invalid \/ entries_[Probe(k, i)].key # k
<1> DEFINE hits == {i \in Ways : entries_[Probe(k, i)] # Invalid /\ entries_[Probe(k, i)].key = k}
<1>1. CASE hits = {}
  BY <1>1 DEF lookup
<1>2. CASE hits # {}
  <2>1. hits \in SUBSET Nat
    BY DEF Ways
  <2>2. LeastOf(hits) \in hits
    <3> HIDE DEF hits
    <3> QED BY <1>2, <2>1, LeastIsIn
  <2>3. PICK i \in Ways : i = LeastOf(hits) /\ entries_[Probe(k, i)] # Invalid
                          /\ entries_[Probe(k, i)].key = k
    BY <2>2
  <2>4. Current(entries_[Probe(k, i)], Probe(k, i))
    BY <2>3, ProbesAreSlots DEF CacheInv
  <2>5. lookup(k) = entries_[Probe(k, i)].frame
    BY <1>2, <2>3 DEF lookup
  <2>6. lookup(k) = newest[k] /\ lookup(k) # NoFrame
    BY <2>3, <2>4, <2>5, CacheAssumption DEF Current, NoFrame
  <2> QED BY <2>6
<1> QED BY <1>1, <1>2

\* An insertion writes one of the key's slots.
LEMMA InsertWrites ==
    ASSUME NEW k \in Keys, NEW f
    PROVE  \E i \in Ways :
             insert(k, f) = [entries_ EXCEPT ![Probe(k, i)] = [key |-> k, frame |-> f]]
<1> DEFINE fits == {i \in Ways : entries_[Probe(k, i)] = Invalid \/ entries_[Probe(k, i)].key = k}
<1>1. CASE fits = {}
  <2>1. insert(k, f) = [entries_ EXCEPT ![Probe(k, 0)] = [key |-> k, frame |-> f]]
    BY <1>1 DEF insert
  <2>2. 0 \in Ways
    BY DEF Ways
  <2> QED BY <2>1, <2>2
<1>2. CASE fits # {}
  <2>1. fits \in SUBSET Nat
    BY DEF Ways
  <2>2. LeastOf(fits) \in fits
    <3> HIDE DEF fits
    <3> QED BY <1>2, <2>1, LeastIsIn
  <2>3. insert(k, f) = [entries_ EXCEPT ![Probe(k, LeastOf(fits))] = [key |-> k, frame |-> f]]
    BY <1>2 DEF insert
  <2>4. LeastOf(fits) \in Ways
    BY <2>2
  <2> QED BY <2>3, <2>4
<1> QED BY <1>1, <1>2

\* A free frame that is handed out exists.
LEMMA FreeFrameExists ==
    ASSUME FreeFrames # {}
    PROVE  LeastOf(FreeFrames) \in CacheFrames
<1>1. FreeFrames \in SUBSET Nat /\ FreeFrames \subseteq CacheFrames
  BY CacheAssumption DEF FreeFrames
<1>2. PICK S \in SUBSET Nat : S = FreeFrames
  BY <1>1
<1> QED BY <1>1, <1>2, LeastIsIn

\* A fault that reads a page from the file keeps the invariant: the key was in
\* none of its slots, so no slot is left with its older frame.
LEMMA ReadKeepsCache ==
    ASSUME CacheInv, NEW p \in MapTasks, NEW i \in Inodes, NEW o \in MapPages,
           FaultRead(p, i, o)
    PROVE  CacheInv'
<1> DEFINE k == <<i, o>>
<1>1. k \in Keys
  BY DEF Keys
<1>2. PICK f : f = LeastOf(FreeFrames)
  OBVIOUS
<1>3. /\ f \in CacheFrames /\ bitmap_' = bitmap_ \cup {f}
      /\ entries_' = insert(k, f) /\ newest' = [newest EXCEPT ![k] = f]
  BY <1>2, FreeFrameExists DEF FaultRead
<1>4. PICK w \in Ways : entries_' = [entries_ EXCEPT ![Probe(k, w)] = [key |-> k, frame |-> f]]
  BY <1>1, <1>3, InsertWrites
<1>5. \A j \in Ways : entries_[Probe(k, j)] = Invalid \/ entries_[Probe(k, j)].key # k
  BY <1>1, LookupHits DEF FaultRead
<1>6. DOMAIN entries_' = Slots /\ DOMAIN newest' = Keys /\ bitmap_' \subseteq CacheFrames
  BY <1>3, <1>4 DEF CacheInv
<1>7. ASSUME NEW s \in Slots
      PROVE  entries_'[s] = Invalid \/ Current(entries_[s], s)' 
  <2>1. CASE s = Probe(k, w)
    <3>1. entries_'[s].key = k /\ entries_'[s].frame = f
      BY <1>4, <2>1 DEF CacheInv
    <3>2. newest'[k] = f
      BY <1>1, <1>3 DEF CacheInv
    <3> QED BY <1>1, <1>3, <2>1, <3>1, <3>2 DEF Current
  <2>2. CASE s # Probe(k, w)
    <3>1. entries_'[s] = entries_[s]
      BY <1>4, <2>2 DEF CacheInv
    <3>2. CASE entries_[s] # Invalid
      <4>1. Current(entries_[s], s)
        BY <3>2 DEF CacheInv
      <4>2. entries_[s].key # k
        BY <1>5, <3>2, <4>1 DEF Current
      <4>3. newest'[entries_[s].key] = newest[entries_[s].key]
        BY <1>3, <4>1, <4>2 DEF CacheInv, Current
      <4> QED BY <3>1, <4>1, <4>3 DEF Current
    <3> QED BY <3>1, <3>2
  <2> QED BY <2>1, <2>2
<1> QED BY <1>6, <1>7 DEF CacheInv

\* Every step keeps the invariant; the cache changes in FaultRead only.
LEMMA CacheNextInv ==
    ASSUME CacheInv, CacheNext
    PROVE  CacheInv'
<1>1. CASE TakeFrame
  BY <1>1, FreeFrameExists DEF TakeFrame, CacheInv, Current
<1>2. ASSUME NEW p \in MapTasks, NEW i \in Inodes, Map(p, i) PROVE CacheInv'
  BY <1>2 DEF Map, CacheInv, Current
<1>3. ASSUME NEW p \in MapTasks, NEW i \in Inodes, UnmapFile(p, i) PROVE CacheInv'
  <2>1. bitmap_' \subseteq CacheFrames /\ UNCHANGED <<entries_, newest>>
    BY <1>3 DEF UnmapFile, CacheInv
  <2> QED BY <2>1 DEF CacheInv, Current
<1>4. ASSUME NEW p \in MapTasks, NEW i \in Inodes, NEW o \in MapPages, FaultCached(p, i, o)
      PROVE  CacheInv'
  BY <1>4 DEF FaultCached, CacheInv, Current
<1> QED BY <1>1, <1>2, <1>3, <1>4, ReadKeepsCache DEF CacheNext

\* The cache keeps CacheInv.
THEOREM CacheInvariance == CacheSpec => []CacheInv
<1>1. CacheInit => CacheInv
  BY DEF CacheInit, CacheInv
<1>2. CacheInv /\ [CacheNext]_pcvars => CacheInv'
  <2>1. CacheInv /\ UNCHANGED pcvars => CacheInv'
    BY DEF CacheInv, Current, pcvars
  <2> QED BY <2>1, CacheNextInv
<1> QED BY <1>1, <1>2, PTL DEF CacheSpec

\* PageCache::lookup returns the frame inserted last for its key, or nothing,
\* for every number of slots and every hash factor, whatever was taken over in
\* between.
THEOREM NewestIsFound == CacheSpec => []LookupFindsNewest
<1>1. CacheInv => LookupFindsNewest
  BY LookupHits DEF LookupFindsNewest
<1> QED BY <1>1, CacheInvariance, PTL

-----------------------------------------------------------------------------
(* The keyboard *)

R == INSTANCE RingBuffers WITH Q <- RING

\* What a ring holds between its tail t and its head h.
Between(f, h, t) == R!RingSeq(f, t, R!Held(h, t))

\* The characters the driver makes.
AllKeys == KeyCodes \cup {"none"}
Chars == [key : AllKeys]
         \cup [key : AllKeys, layout : {0, 1}, upper : BOOLEAN, ctrl : BOOLEAN]

KeysTypeOK ==
    /\ shift_pressed_ \in BOOLEAN /\ ctrl_pressed_ \in BOOLEAN
    /\ caps_lock_active_ \in BOOLEAN /\ current_layout_ \in {0, 1}
    /\ char_buffer_ \in [R!Places -> Chars]
    /\ buffer_head_ \in R!Places /\ buffer_tail_ \in R!Places
    /\ taken \in Chars /\ accepted \in Seq(Chars) /\ got \in Seq(Chars)

\* KeysInOrder, with the types, is inductive: the reader between its look and
\* its step of the tail holds the oldest character, which no handler moves.
KeysInv == KeysTypeOK /\ KeysInOrder

\* The positions of the ring.
LEMMA RingSizes == R!Sized /\ R!Wide
  BY KeyboardAssumption DEF R!Sized, R!Wide

\* A sequence followed by one more element.
LEMMA ConcatAppend ==
    ASSUME NEW S, NEW g \in Seq(S), NEW s \in Seq(S), NEW m \in S
    PROVE  g \o Append(s, m) = Append(g \o s, m)
<1>1. /\ Append(s, m) = s \o <<m>> /\ <<m>> \in Seq(S)
      /\ g \o s \in Seq(S)
  OBVIOUS
<1>2. Append(g \o s, m) = (g \o s) \o <<m>>
  BY <1>1
<1> QED BY <1>1, <1>2, ConcatAssociative

\* The first element of a sequence may as well be the last of the one before.
LEMMA ConcatTail ==
    ASSUME NEW S, NEW g \in Seq(S), NEW s \in Seq(S), s # <<>>
    PROVE  Append(g, Head(s)) \o Tail(s) = g \o s
<1>1. /\ Head(s) \in S /\ Tail(s) \in Seq(S) /\ <<Head(s)>> \in Seq(S)
      /\ s = <<Head(s)>> \o Tail(s)
      /\ Append(g, Head(s)) = g \o <<Head(s)>>
  OBVIOUS
<1> QED BY <1>1, ConcatAssociative

\* What the ring holds is a sequence; the model's InRing is it.
LEMMA BetweenIsSeq ==
    ASSUME NEW S, NEW f \in [R!Places -> S], NEW h \in R!Places, NEW t \in R!Places
    PROVE  /\ Between(f, h, t) \in Seq(S)
           /\ Len(Between(f, h, t)) = 0 <=> h = t
           /\ h # t => Between(f, h, t) # <<>> /\ Head(Between(f, h, t)) = f[t]
<1>1. PICK c : c = R!Held(h, t)
  OBVIOUS
<1>2. c \in Nat /\ c < RING /\ (c = 0 <=> h = t)
  BY <1>1, RingSizes, R!HeldPlaces, Zenon
<1>3. PICK s : s = Between(f, h, t)
  OBVIOUS
<1>4. s \in Seq(S) /\ Len(s) = c /\ \A i \in 1..c : s[i] = f[(t + i - 1) % RING]
  <2>1. s = R!RingSeq(f, t, c)
    BY <1>1, <1>3 DEF Between
  <2>2. /\ R!RingSeq(f, t, c) \in Seq(S) /\ Len(R!RingSeq(f, t, c)) = c
        /\ \A i \in 1..c : R!RingSeq(f, t, c)[i] = f[(t + i - 1) % RING]
    BY <1>2, RingSizes, R!RingIsSeq, Zenon
  <2> QED BY <2>1, <2>2
<1>5. h # t => s[1] = f[t]
  <2>1. t \in Nat /\ t < RING /\ (t + 1 - 1) = t /\ t % RING = t
    BY KeyboardAssumption DEF R!Places
  <2> QED BY <1>2, <1>4, <2>1
<1>6. h # t => s # <<>>
  BY <1>2, <1>4
<1> QED BY <1>2, <1>3, <1>4, <1>5, <1>6

\* A character goes behind the others, unless the ring is full.
PutBehind(f, h, t, m) ==
    (h + 1) % RING # t =>
        /\ (h + 1) % RING \in R!Places
        /\ Between([f EXCEPT ![h] = m], (h + 1) % RING, t) = Append(Between(f, h, t), m)

\* EnterChar puts its character behind the others.
LEMMA BetweenPut ==
    ASSUME NEW S, NEW f \in [R!Places -> S], NEW h \in R!Places, NEW t \in R!Places,
           NEW m \in S
    PROVE  PutBehind(f, h, t, m)
<1> SUFFICES ASSUME (h + 1) % RING # t
             PROVE  /\ (h + 1) % RING \in R!Places
                    /\ Between([f EXCEPT ![h] = m], (h + 1) % RING, t)
                         = Append(Between(f, h, t), m)
  BY DEF PutBehind
<1>1. PICK c : c = R!Held(h, t)
  OBVIOUS
<1>2. c \in Nat /\ c < RING /\ h = (t + c) % RING /\ (c = 0 <=> h = t)
  BY <1>1, RingSizes, R!HeldPlaces, Zenon
<1>3. R!HeadMovesOn(h, t)
  BY RingSizes, R!HeldAdvance, Zenon
<1>4. (h + 1) % RING \in R!Places /\ R!Held((h + 1) % RING, t) = c + 1
  BY <1>1, <1>3 DEF R!HeadMovesOn
<1>5. R!PutAppends(f, t, c, m)
  BY <1>2, RingSizes, R!RingPut, Zenon
<1> QED BY <1>1, <1>2, <1>4, <1>5 DEF R!PutAppends, Between

\* Moving the tail takes the oldest away.
LEMMA BetweenTake ==
    ASSUME NEW S, NEW f \in [R!Places -> S], NEW h \in R!Places, NEW t \in R!Places,
           h # t
    PROVE  /\ (t + 1) % RING \in R!Places
           /\ Between(f, h, (t + 1) % RING) = Tail(Between(f, h, t))
<1>1. PICK c : c = R!Held(h, t)
  OBVIOUS
<1>2. c \in Nat /\ c < RING
  BY <1>1, RingSizes, R!HeldPlaces, Zenon
<1>3. R!TailMovesOn(h, t)
  BY RingSizes, R!HeldTake, Zenon
<1>4. (t + 1) % RING \in R!Places /\ c > 0 /\ R!Held(h, (t + 1) % RING) = c - 1
  BY <1>1, <1>3 DEF R!TailMovesOn
<1>5. c <= RING
  BY <1>2, KeyboardAssumption
<1>6. R!RingSeq(f, (t + 1) % RING, c - 1) = Tail(R!RingSeq(f, t, c))
  BY <1>2, <1>4, <1>5, RingSizes, R!RingTake, Zenon
<1> QED BY <1>1, <1>4, <1>6 DEF Between

\* InRing is what lies between tail and head.
LEMMA InRingIs == InRing = Between(char_buffer_, buffer_head_, buffer_tail_)
  BY DEF InRing, Between, R!RingSeq, R!Held

\* The handler's part: EnterChar appends the character or drops it, and the
\* reader's character stays the oldest.
LEMMA EnterKeeps ==
    ASSUME KeysInv, NEW m \in Chars, EnterChar(m) \/ NoChar,
           UNCHANGED <<buffer_tail_, taken, got>>
    PROVE  /\ char_buffer_' \in [R!Places -> Chars] /\ buffer_head_' \in R!Places
           /\ accepted' \in Seq(Chars) /\ got' \o InRing' = accepted'
           /\ ~Empty => ~Empty' /\ char_buffer_'[buffer_tail_'] = char_buffer_[buffer_tail_]
<1> DEFINE f == char_buffer_
           h == buffer_head_
           t == buffer_tail_
<1>1. /\ f \in [R!Places -> Chars] /\ h \in R!Places /\ t \in R!Places
      /\ accepted \in Seq(Chars) /\ got \in Seq(Chars)
      /\ got \o Between(f, h, t) = accepted
  BY InRingIs DEF KeysInv, KeysTypeOK, KeysInOrder
<1>2. InRing' = Between(char_buffer_', buffer_head_', t)
  BY InRingIs DEF InRing, Between, R!RingSeq, R!Held
<1>3. CASE UNCHANGED <<char_buffer_, buffer_head_, accepted>>
  BY <1>1, <1>2, <1>3 DEF Empty
<1>4. CASE /\ (h + 1) % RING # t
           /\ char_buffer_' = [f EXCEPT ![h] = m]
           /\ buffer_head_' = (h + 1) % RING
           /\ accepted' = Append(accepted, m)
  <2>1. /\ (h + 1) % RING \in R!Places
        /\ Between([f EXCEPT ![h] = m], (h + 1) % RING, t) = Append(Between(f, h, t), m)
    <3>1. PutBehind(f, h, t, m)
      <4> HIDE DEF f, h, t
      <4> QED BY <1>1, BetweenPut, Zenon
    <3> QED BY <1>4, <3>1 DEF PutBehind
  <2>2. Between(f, h, t) \in Seq(Chars)
    BY <1>1, BetweenIsSeq
  <2>3. got' \o InRing' = accepted'
    <3>1. got \o Append(Between(f, h, t), m) = Append(accepted, m)
      BY <1>1, <2>2, ConcatAppend
    <3> QED BY <1>2, <1>4, <2>1, <3>1
  <2>4. accepted' \in Seq(Chars) /\ char_buffer_' \in [R!Places -> Chars]
    BY <1>1, <1>4
  <2>5. ~Empty => ~Empty' /\ char_buffer_'[t] = f[t]
    BY <1>1, <1>4 DEF Empty
  <2> QED BY <1>4, <2>1, <2>3, <2>4, <2>5
<1> QED BY <1>3, <1>4 DEF EnterChar, NoChar

\* The reader's part: the oldest character leaves the ring and is returned.
LEMMA TakeKeeps ==
    ASSUME KeysInv, ~Empty, buffer_tail_' = AfterTail,
           got' = Append(got, char_buffer_[buffer_tail_]),
           UNCHANGED <<char_buffer_, buffer_head_, accepted>>
    PROVE  /\ buffer_tail_' \in R!Places /\ got' \in Seq(Chars)
           /\ got' \o InRing' = accepted'
<1> DEFINE f == char_buffer_
           h == buffer_head_
           t == buffer_tail_
<1>1. /\ f \in [R!Places -> Chars] /\ h \in R!Places /\ t \in R!Places /\ h # t
      /\ accepted \in Seq(Chars) /\ got \in Seq(Chars)
      /\ got \o Between(f, h, t) = accepted
  BY InRingIs DEF KeysInv, KeysTypeOK, KeysInOrder, Empty
<1>2. InRing' = Between(f, h, buffer_tail_')
  BY DEF InRing, Between, R!RingSeq, R!Held
<1>3. PICK s : s = Between(f, h, t)
  OBVIOUS
<1>4. s \in Seq(Chars) /\ s # <<>> /\ Head(s) = f[t]
  BY <1>1, <1>3, BetweenIsSeq
<1>5. (t + 1) % RING \in R!Places /\ Between(f, h, (t + 1) % RING) = Tail(s)
  BY <1>1, <1>3, BetweenTake
<1>6. Append(got, Head(s)) \o Tail(s) = got \o s
  BY <1>1, <1>4, ConcatTail
<1>7. got' \in Seq(Chars)
  BY <1>1, <1>4
<1> QED BY <1>1, <1>2, <1>3, <1>4, <1>5, <1>6, <1>7 DEF AfterTail

\* Any scancode, in any state of the reader.
LEMMA ScancodeKeeps ==
    ASSUME KeysInv, NEW key \in KeyCodes, NEW is_release \in BOOLEAN,
           process_scancode(key, is_release)
    PROVE  KeysInv'
<1>1. key \in AllKeys
  BY DEF AllKeys
<1>2. /\ shift_pressed_' \in BOOLEAN /\ ctrl_pressed_' \in BOOLEAN
      /\ caps_lock_active_' \in BOOLEAN /\ current_layout_' \in {0, 1}
  <2>1. (current_layout_ + 1) % 2 \in {0, 1}
    BY DEF KeysInv, KeysTypeOK
  <2>2. CASE key \in {"shift", "ctrl", "alt"} /\ ~extended_key_
    BY <2>2 DEF process_scancode, KeysInv, KeysTypeOK, modifiers
  <2>3. CASE key = "caps" /\ ~extended_key_
    BY <2>3 DEF process_scancode, KeysInv, KeysTypeOK, modifiers
  <2>4. CASE ~(key \in {"shift", "ctrl", "alt", "caps"} /\ ~extended_key_)
    <3>1. /\ UNCHANGED <<shift_pressed_, ctrl_pressed_, caps_lock_active_>>
          /\ current_layout_' \in {current_layout_, (current_layout_ + 1) % 2}
      BY <2>4 DEF process_scancode, modifiers
    <3> QED BY <2>1, <3>1 DEF KeysInv, KeysTypeOK
  <2> QED BY <2>2, <2>3, <2>4
<1>3. UNCHANGED <<buffer_tail_, taken, got>>
  BY DEF process_scancode
<1>4. Ascii(key) \in Chars /\ [key |-> key] \in Chars
  BY <1>1 DEF Ascii, Chars, KeysInv, KeysTypeOK
<1>5. \E m \in Chars : EnterChar(m) \/ NoChar
  BY <1>4 DEF process_scancode
<1>6. /\ char_buffer_' \in [R!Places -> Chars] /\ buffer_head_' \in R!Places
      /\ accepted' \in Seq(Chars) /\ got' \o InRing' = accepted'
      /\ ~Empty => ~Empty' /\ char_buffer_'[buffer_tail_'] = char_buffer_[buffer_tail_]
  BY <1>3, <1>5, EnterKeeps
<1>7. reader' = "taking" => reader = "taking"
  BY DEF process_scancode, Interrupted
<1> QED BY <1>2, <1>3, <1>6, <1>7 DEF KeysInv, KeysTypeOK, KeysInOrder

\* Every step of the handler, the timer and the reader keeps the invariant.
LEMMA KeyboardNextInv ==
    ASSUME KeysInv, KernelKeyboardNext
    PROVE  KeysInv'
<1>1. ASSUME UNCHANGED <<ring, buffer_tail_, got>>, taken' \in Chars,
             reader' = "taking" => ~Empty /\ taken' = char_buffer_[buffer_tail_]
      PROVE  KeysInv'
  <2>1. InRing' = InRing /\ Empty' = Empty
    BY <1>1 DEF InRing, Empty, ring
  <2> QED BY <1>1, <2>1 DEF KeysInv, KeysTypeOK, KeysInOrder, ring, modifiers
<1>2. ASSUME ~Empty, buffer_tail_' = AfterTail, UNCHANGED <<ring, taken>>,
             got' = Append(got, char_buffer_[buffer_tail_]), reader' = "busy"
      PROVE  KeysInv'
  <2>1. /\ buffer_tail_' \in R!Places /\ got' \in Seq(Chars)
        /\ got' \o InRing' = accepted'
    BY <1>2, TakeKeeps DEF ring
  <2> QED BY <1>2, <2>1 DEF KeysInv, KeysTypeOK, KeysInOrder, ring, modifiers
<1>3. CASE TimerInterrupt
  BY <1>1, <1>3 DEF TimerInterrupt, Interrupted, ring, KeysInv, KeysTypeOK
<1>4. CASE FirstLook
  <2>1. char_buffer_[buffer_tail_] \in Chars
    BY DEF KeysInv, KeysTypeOK
  <2> QED BY <1>1, <1>4, <2>1 DEF FirstLook, KeysInv, KeysTypeOK
<1>5. CASE TakeFirst
  <2>1. ~Empty /\ taken = char_buffer_[buffer_tail_]
    BY <1>5 DEF TakeFirst, KeysInv, KeysInOrder
  <2> QED BY <1>2, <1>5, <2>1 DEF TakeFirst
<1>6. CASE Halt
  BY <1>1, <1>6 DEF Halt, KeysInv, KeysTypeOK
<1>7. CASE LookAgain
  <2>1. CASE Empty
    BY <1>1, <1>7, <2>1 DEF LookAgain, KeysInv, KeysTypeOK
  <2>2. CASE ~Empty
    BY <1>2, <1>7, <2>2 DEF LookAgain
  <2> QED BY <2>1, <2>2
<1> QED BY <1>3, <1>4, <1>5, <1>6, <1>7, ScancodeKeeps DEF KernelKeyboardNext, get_char

\* KeysInv is an invariant of the driver and its reader.
THEOREM KeysInvariance == KernelKeyboardSpec => []KeysInv
<1>1. KeyboardInit => KeysInv
  <2> SUFFICES ASSUME KeyboardInit PROVE KeysInv
    OBVIOUS
  <2>a. NoKey \in Chars
    <3>1. NoKey \in [key : AllKeys]
      BY DEF NoKey, AllKeys
    <3> QED BY <3>1 DEF Chars
  <2>b. 0 \in R!Places
    BY KeyboardAssumption DEF R!Places
  <2>c. char_buffer_ \in [R!Places -> Chars]
    BY <2>a DEF KeyboardInit, R!Places
  <2>2. KeysTypeOK
    BY <2>a, <2>b, <2>c DEF KeyboardInit, KeysTypeOK
  <2>3. InRing \in Seq(Chars) /\ Len(InRing) = 0
    BY <2>2, InRingIs, BetweenIsSeq DEF KeysTypeOK, KeyboardInit
  <2>4. InRing = <<>>
    BY <2>3, EmptySeq
  <2> QED BY <2>2, <2>4 DEF KeyboardInit, KeysInv, KeysInOrder
<1>2. KeysInv /\ [KernelKeyboardNext]_keyboardVars => KeysInv'
  <2>1. KeysInv /\ UNCHANGED keyboardVars => KeysInv'
    BY DEF KeysInv, KeysTypeOK, KeysInOrder, InRing, Empty, keyboardVars, modifiers
  <2> QED BY <2>1, KeyboardNextInv
<1> QED BY <1>1, <1>2, PTL DEF KernelKeyboardSpec

\* For every size of the ring, the reader gets every character that entered it
\* once and in order, wherever the interrupts fall in its look at the ring.
THEOREM KeysArriveInOrder == KernelKeyboardSpec => []KeysInOrder
<1>1. KeysInv => KeysInOrder
  BY DEF KeysInv
<1> QED BY <1>1, KeysInvariance, PTL
=============================================================================
