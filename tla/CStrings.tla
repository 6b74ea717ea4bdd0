------------------------------ MODULE CStrings ------------------------------
(***************************************************************************)
(* The C library's block and string functions (user/libc/src/string.cpp),  *)
(* which work a word at a time where the pointers are aligned and test a   *)
(* word for a zero byte with carries and masks.                            *)
(*                                                                         *)
(* A memory is a function from the addresses 1..n to byte values; 0 is the *)
(* null pointer.  Words have WORD bytes of BITS bits (four of eight in the *)
(* code).  Each function is written twice: as the code computes it, and as *)
(* the reference at the end says what it must compute.                     *)
(***************************************************************************)
EXTENDS Integers, Sequences, SequencesExt, FiniteSetsExt, Bitwise

CONSTANTS WORD, BITS

BYTE == 2^BITS
ALIGNED(p) == p % WORD = 0
AlignUp(p) == p + ((-p) % WORD)

\* The value of the word at p, the first byte the lowest.
WordAt(m, p) == FoldLeft(LAMBDA v, i : v + m[p + i - 1] * BYTE^(i - 1), 0,
                         [i \in 1..WORD |-> i])

SWAR_MASK_01 == FoldLeft(LAMBDA v, i : v + BYTE^(i - 1), 0, [i \in 1..WORD |-> i])
SWAR_MASK_80 == SWAR_MASK_01 * (BYTE \div 2)

\* HAS_ZERO_BYTE(v): (v - 0x0101...) & ~v & 0x8080..., with the borrow wrapping.
HasZeroByte ==
    [v \in 0..(BYTE^WORD - 1) |->
        ((((v - SWAR_MASK_01) % BYTE^WORD) & (BYTE^WORD - 1 - v)) & SWAR_MASK_80) # 0]

Steps(k) == [i \in 1..k |-> i - 1]

\* Read k bytes at s, then store them at d.
Store(m, d, s, k) ==
    [a \in DOMAIN m |-> IF d <= a /\ a < d + k THEN m[s + a - d] ELSE m[a]]

CopyWords(m, d, s, k) ==
    FoldLeft(LAMBDA x, i : Store(x, d + i * WORD, s + i * WORD, WORD), m, Steps(k))

CopyBytes(m, d, s, k) == FoldLeft(LAMBDA x, i : Store(x, d + i, s + i, 1), m, Steps(k))

memcpy(m, dest, src, n) ==
    IF dest = 0 \/ src = 0 \/ n = 0 THEN m
    ELSE LET n32 == IF ALIGNED(dest) /\ ALIGNED(src) THEN n \div WORD ELSE 0
         IN  CopyBytes(CopyWords(m, dest, src, n32),
                       dest + n32 * WORD, src + n32 * WORD, n - n32 * WORD)

memmove_Forward(m, dest, src, n) ==
    IF dest = 0 \/ src = 0 \/ n = 0 \/ dest = src THEN m ELSE memcpy(m, dest, src, n)

\* Downwards it is memcpy; upwards it copies from the last byte.
memmove(m, dest, src, n) ==
    IF dest = 0 \/ src = 0 \/ n = 0 \/ dest = src THEN m
    ELSE IF dest < src THEN memcpy(m, dest, src, n)
    ELSE FoldLeft(LAMBDA x, i : Store(x, dest + n - 1 - i, src + n - 1 - i, 1), m, Steps(n))

Fill(m, p, c, k) == [a \in DOMAIN m |-> IF p <= a /\ a < p + k THEN c ELSE m[a]]

\* Bytes up to a boundary, whole words, and the bytes that are left.
memset(m, s, c, n) ==
    IF s = 0 \/ n = 0 THEN m
    ELSE LET head  == Min({n, AlignUp(s) - s})
             p     == s + head
             words == (n - head) \div WORD
         IN  Fill(Fill(Fill(m, s, c % BYTE, head), p, c % BYTE, words * WORD),
                  p + words * WORD, c % BYTE, (n - head) % WORD)

\* The number of leading steps that a loop passes before it stops at one of
\* the steps in `stops`, or makes all n.
Passes(stops, n) == Min({n} \union stops)

memcmp(m, s1, s2, n) ==
    LET words == IF ALIGNED(s1) /\ ALIGNED(s2)
                 THEN Passes({i \in 0..(n \div WORD - 1) :
                                WordAt(m, s1 + i * WORD) # WordAt(m, s2 + i * WORD)},
                             n \div WORD)
                 ELSE 0
        from  == words * WORD
        at    == Passes({i \in from..(n - 1) : m[s1 + i] # m[s2 + i]}, n)
    IN  IF n = 0 \/ at = n THEN 0 ELSE m[s1 + at] - m[s2 + at]

memcmp_s(m, s1, s1max, s2, s2max) ==
    IF s1 = 0 \/ s2 = 0 THEN 0 ELSE memcmp(m, s1, s2, Min({s1max, s2max}))

\* Bytes up to a boundary, then words until one is flagged and has a zero.
strlen(m, s) ==
    IF s = 0 THEN 0
    ELSE LET head    == {a \in s..(AlignUp(s) - 1) : m[a] = 0}
             flagged == {p \in DOMAIN m : p >= AlignUp(s) /\ ALIGNED(p)
                                          /\ HasZeroByte[WordAt(m, p)]}
             zeros   == {a \in DOMAIN m : m[a] = 0 /\ \E p \in flagged : a \in p..(p + WORD - 1)}
         IN  IF head # {} THEN Min(head) - s ELSE Min(zeros) - s

\* The offsets below n that lie in memory from p on.
Offsets(m, p, n) == 0..(Min({n, Len(m) - p + 1}) - 1)

strnlen(m, s, maxlen) ==
    IF s = 0 THEN 0 ELSE Passes({i \in Offsets(m, s, maxlen) : m[s + i] = 0}, maxlen)

\* Whole words until one is flagged, then bytes including the terminator.
strcpy(m, dest, src) ==
    IF dest = 0 \/ src = 0 THEN m
    ELSE LET words == IF ALIGNED(dest) /\ ALIGNED(src)
                      THEN Min({i \in 0..((Len(m) - src + 1) \div WORD - 1) :
                                HasZeroByte[WordAt(m, src + i * WORD)]})
                      ELSE 0
             from  == words * WORD
             last  == Min({i \in from..(Len(m) - src) : m[src + i] = 0})
         IN  CopyBytes(CopyWords(m, dest, src, words), dest + from, src + from,
                       last - from + 1)

Terminate(m, p) == [m EXCEPT ![p] = 0]

\* The memory and the result.
strlcpy(m, dest, src, size) ==
    IF dest = 0 \/ src = 0 \/ size = 0 THEN <<m, 0>>
    ELSE LET to_copy == Min({strlen(m, src), size - 1})
         IN  <<Terminate(memcpy(m, dest, src, to_copy), dest + to_copy), strlen(m, src)>>

strcat(m, dest, src) ==
    IF dest = 0 \/ src = 0 THEN m ELSE strcpy(m, dest + strlen(m, dest), src)

strncat(m, dest, src, n) ==
    IF dest = 0 \/ src = 0 \/ n = 0 THEN m
    ELSE LET d == dest + strlen(m, dest)
             k == Passes({i \in Offsets(m, src, n) : m[src + i] = 0}, n)
         IN  Terminate(CopyBytes(m, d, src, k), d + k)

strlcat(m, dest, src, size) ==
    IF dest = 0 \/ src = 0 \/ size = 0 THEN <<m, 0>>
    ELSE LET dest_len == strlen(m, dest)
             src_len  == strlen(m, src)
             to_copy  == Min({size - dest_len - 1, src_len})
         IN  IF dest_len >= size THEN <<m, size + src_len>>
             ELSE <<Terminate(memcpy(m, dest + dest_len, src, to_copy),
                              dest + dest_len + to_copy), dest_len + src_len>>

\* The offset at which two strings are told apart: words that are equal and not
\* flagged are passed, then equal bytes that are not zero.
strcmp(m, s1, s2) ==
    IF s1 = 0 \/ s2 = 0 THEN 0
    ELSE LET room  == Len(m) - Max({s1, s2}) + 1
             words == IF ALIGNED(s1) /\ ALIGNED(s2)
                      THEN Min({i \in 0..(room \div WORD - 1) :
                                \/ WordAt(m, s1 + i * WORD) # WordAt(m, s2 + i * WORD)
                                \/ HasZeroByte[WordAt(m, s1 + i * WORD)]})
                      ELSE 0
             at    == Min({i \in (words * WORD)..(room - 1) :
                            m[s1 + i] = 0 \/ m[s1 + i] # m[s2 + i]})
         IN  m[s1 + at] - m[s2 + at]

strncmp(m, s1, s2, n) ==
    IF s1 = 0 \/ s2 = 0 \/ n = 0 THEN 0
    ELSE LET at == Passes({i \in Offsets(m, Max({s1, s2}), n) :
                            m[s1 + i] # m[s2 + i] \/ m[s1 + i] = 0}, n)
         IN  IF at = n THEN 0 ELSE m[s1 + at] - m[s2 + at]

strncmp_s(m, s1, s1max, s2, s2max) ==
    IF s1 = 0 \/ s2 = 0 THEN 0 ELSE strncmp(m, s1, s2, Min({s1max, s2max}))

\* The first match before the terminator, or the terminator itself for 0.
strchr(m, s, c) ==
    IF s = 0 THEN 0
    ELSE LET end == Min({a \in s..Len(m) : m[a] = 0})
             hit == {a \in s..(end - 1) : m[a] = c % BYTE}
         IN  IF hit # {} THEN Min(hit) ELSE IF c = 0 THEN end ELSE 0

strrchr(m, s, c) ==
    IF s = 0 THEN 0
    ELSE LET end == Min({a \in s..Len(m) : m[a] = 0})
             hit == {a \in s..(end - 1) : m[a] = c % BYTE}
         IN  IF c = 0 THEN end ELSE IF hit # {} THEN Max(hit) ELSE 0

\* The first place from which the needle's bytes follow before either ends.
strstr(m, haystack, needle) ==
    IF haystack = 0 \/ needle = 0 THEN 0
    ELSE IF m[needle] = 0 THEN haystack
    ELSE LET end    == Min({a \in haystack..Len(m) : m[a] = 0})
             len    == Min({i \in 0..(Len(m) - needle) : m[needle + i] = 0})
             hit    == {a \in haystack..(end - 1) :
                            \A i \in 0..(len - 1) : a + i < end /\ m[a + i] = m[needle + i]}
         IN  IF hit = {} THEN 0 ELSE Min(hit)

-----------------------------------------------------------------------------
(* What the functions must compute.                                        *)

IsString(m, p) == \E a \in p..Len(m) : m[a] = 0
StringAt(m, p) == SubSeq(m, p, Min({a \in p..Len(m) : m[a] = 0}) - 1)

Moved(m, d, s, n) == [a \in DOMAIN m |-> IF a \in d..(d + n - 1) THEN m[s + a - d] ELSE m[a]]

\* Memory m with the string t and its terminator at p.
WithString(m, p, t) ==
    [a \in DOMAIN m |-> IF a \in p..(p + Len(t) - 1) THEN t[a - p + 1]
                        ELSE IF a = p + Len(t) THEN 0 ELSE m[a]]

Sign(x) == IF x < 0 THEN -1 ELSE IF x > 0 THEN 1 ELSE 0

\* The lexicographic order of two sequences.
Order(t, u) ==
    LET common == {i \in 1..Min({Len(t), Len(u)}) : t[i] # u[i]}
    IN  IF common # {} THEN Sign(t[Min(common)] - u[Min(common)]) ELSE Sign(Len(t) - Len(u))

Prefix(t, n) == SubSeq(t, 1, Min({n, Len(t)}))

\* Two strings and the room after each, none overlapping the other.
Separate(m, d, s, room) ==
    LET end == s + Len(StringAt(m, s))
    IN  d + room - 1 <= Len(m) /\ (d + room - 1 < s \/ end < d)

\* Blocks: memmove leaves the source's old bytes at the destination however the
\* two overlap, memcpy does when the destination starts before the source or
\* the blocks are apart, memset fills exactly its range, and memcmp orders by
\* the first byte that differs (string.cpp: whole words where aligned).
BlocksExact(m) ==
    \A d, s \in DOMAIN m : \A n \in 0..(Len(m) - Max({d, s}) + 1) :
        /\ memmove(m, d, s, n) = Moved(m, d, s, n)
        /\ (d <= s \/ s + n <= d) => memcpy(m, d, s, n) = Moved(m, d, s, n)
        /\ memset(m, d, BYTE + 1, n) =
              [a \in DOMAIN m |-> IF a \in d..(d + n - 1) THEN 1 ELSE m[a]]
        /\ Sign(memcmp_s(m, d, n, s, n + 1)) =
              Order(SubSeq(m, d, d + n - 1), SubSeq(m, s, s + n - 1))

\* Strings: the length and every comparison and search agree with the plain
\* definitions over the sequence of bytes before the terminator, whatever the
\* alignment of the two pointers and whatever follows the terminator.
SearchesExact(m) ==
    \A p, q \in {a \in DOMAIN m : IsString(m, a)} :
        LET t == StringAt(m, p)
            u == StringAt(m, q)
        IN  /\ strlen(m, p) = Len(t)
            /\ Sign(strcmp(m, p, q)) = Order(t, u)
            /\ \A n \in 0..3 : /\ strnlen(m, p, n) = Min({n, Len(t)})
                               /\ Sign(strncmp_s(m, p, n, q, 3)) = Order(Prefix(t, n), Prefix(u, n))
            /\ \A c \in 1..2 :
                  LET at == {i \in DOMAIN t : t[i] = c}
                  IN  /\ strchr(m, p, c) = IF at = {} THEN 0 ELSE p + Min(at) - 1
                      /\ strrchr(m, p, c) = IF at = {} THEN 0 ELSE p + Max(at) - 1
            /\ strchr(m, p, 0) = p + Len(t) /\ strrchr(m, p, 0) = p + Len(t)
            /\ LET at == {i \in 0..Len(t) : Prefix(SubSeq(t, i + 1, Len(t)), Len(u)) = u}
               IN  strstr(m, p, q) = IF at = {} THEN 0 ELSE p + Min(at)

\* Copies: each leaves the right string at the destination and no other byte
\* changed, and the bounded ones never pass the size they were given.
CopiesExact(m) ==
    \A d, s \in {a \in DOMAIN m : IsString(m, a)} :
        LET t == StringAt(m, d)
            u == StringAt(m, s)
        IN  /\ Separate(m, d, s, Len(u) + 1) => strcpy(m, d, s) = WithString(m, d, u)
            /\ Separate(m, d, s, Len(t) + Len(u) + 1) =>
                  strcat(m, d, s) = WithString(m, d, t \o u)
            /\ \A n \in 1..3 :
                  /\ Separate(m, d, s, n) =>
                        strlcpy(m, d, s, n) = <<WithString(m, d, Prefix(u, n - 1)), Len(u)>>
                  /\ Separate(m, d, s, Len(t) + n + 1) =>
                        strncat(m, d, s, n) = WithString(m, d, t \o Prefix(u, n))
                  /\ Separate(m, d, s, Max({n, Len(t) + 1})) =>
                        strlcat(m, d, s, n) =
                            IF Len(t) >= n THEN <<m, n + Len(u)>>
                            ELSE <<WithString(m, d, Prefix(t \o u, n - 1)), Len(t) + Len(u)>>
=============================================================================
