-------------------------------- MODULE Stdio --------------------------------
(***************************************************************************)
(* The buffered streams of the C library (user/libc/src/stdio.cpp) over    *)
(* the kernel's file calls: fopen, fgetc, fputc, fread, fwrite, fflush and *)
(* fclose on one file, and standard output.                                *)
(*                                                                         *)
(* A byte written is its serial number, so that order and loss show.  The  *)
(* locks make every call atomic.  What sys_fread and sys_fwrite do to the  *)
(* file is fat16_read and fat16_write: a read copies from the descriptor's *)
(* offset, a write ignores the offset and replaces the whole file.  A      *)
(* device may refuse any write.                                            *)
(***************************************************************************)
EXTENDS Naturals, Sequences, SequencesExt

CONSTANTS
    BUFSIZ,             \* of a stream
    StdoutSize,         \* sizeof(stdout_buf)
    MaxFile,            \* bound: bytes in the file, and bytes written
    MaxOut              \* bound: characters put to standard output

VARIABLES
    content,            \* the bytes of the file
    stream,             \* the FILE, with the kernel's offset; Closed if none
    wrote,              \* the bytes the stream accepted since it was opened
    flushed,            \* ... and those of them given to the kernel
    got,                \* the bytes read from the stream since it was opened
    stdout_buf, printed, put    \* ... what was printed, and all that was put

streamVars == <<content, stream, wrote, flushed, got>>
stdoutVars == <<stdout_buf, printed, put>>
stdioVars == <<streamVars, stdoutVars>>

FMODE_READ == 1
FMODE_WRITE == 2
Opened(mode) == [mode |-> mode, eof |-> FALSE, error |-> FALSE, buffer |-> <<>>,
                 pos |-> 0, offset |-> 0]
Closed == Opened(0)
-----------------------------------------------------------------------------
(* The kernel: what a read of size bytes returns, from fat16_read.         *)
sys_fread(offset, size) ==
    IF offset >= Len(content) THEN <<>>
    ELSE SubSeq(content, offset + 1,
                IF offset + size > Len(content) THEN Len(content) ELSE offset + size)

(* ... and the file after a write of data, from fat16_write.               *)
sys_fwrite(data) == data
-----------------------------------------------------------------------------
(* fopen: neither mode changes the file, for O_TRUNC has no effect.        *)
fopen(mode) ==
    /\ stream = Closed
    /\ stream' = Opened(mode)
    /\ wrote' = <<>> /\ flushed' = <<>> /\ got' = <<>>
    /\ UNCHANGED content

(* s = [st, content, flushed]: a stream and the file under it.  Reading,   *)
(* buffer holds bytes_in_buf bytes of which pos are consumed; writing, it  *)
(* holds the buffer_pos bytes not yet written.                             *)
Here == [st |-> stream, content |-> content, flushed |-> flushed]

_fflush_unlocked(s, fails) ==
    IF s.st.mode = FMODE_WRITE /\ s.st.buffer # <<>>
    THEN IF fails THEN [ok |-> FALSE, s |-> [s EXCEPT !.st.error = TRUE]]
         ELSE [ok |-> TRUE,
               s |-> [st |-> [s.st EXCEPT !.buffer = <<>>, !.offset = @ + Len(s.st.buffer)],
                      content |-> sys_fwrite(s.st.buffer),
                      flushed |-> s.flushed \o s.st.buffer]]
    ELSE [ok |-> TRUE, s |-> [s EXCEPT !.st.buffer = <<>>, !.st.pos = 0]]

Takes(s) == stream' = s.st /\ content' = s.content /\ flushed' = s.flushed

(* Of a stream that is being written; a read stream has nothing to flush.  *)
fflush ==
    /\ stream # Closed
    /\ stream.mode = FMODE_WRITE
    /\ \E fails \in BOOLEAN : Takes(_fflush_unlocked(Here, fails).s)
    /\ UNCHANGED <<wrote, got>>

(* Flushed, then closed and freed, whatever the flush returned.            *)
fclose ==
    /\ stream # Closed
    /\ \E fails \in BOOLEAN : \E r \in {_fflush_unlocked(Here, fails)} :
          /\ content' = r.s.content /\ flushed' = r.s.flushed
          /\ stream' = Closed
    /\ UNCHANGED <<wrote, got>>

(* The next bytes of the file, or the end.                                 *)
Refill(st) ==
    LET bytes == sys_fread(st.offset, BUFSIZ)
    IN  IF bytes = <<>> THEN [st EXCEPT !.eof = TRUE]
        ELSE [st EXCEPT !.buffer = bytes, !.pos = 0, !.offset = @ + Len(bytes)]

Reads(st, bytes) ==
    stream' = st /\ got' = got \o bytes /\ UNCHANGED <<content, wrote, flushed>>

fgetc ==
    /\ stream # Closed
    /\ stream.mode = FMODE_READ /\ ~stream.eof /\ ~stream.error
    /\ \E st \in {IF stream.pos >= Len(stream.buffer) THEN Refill(stream) ELSE stream} :
          IF st.eof THEN Reads(st, <<>>)
          ELSE Reads([st EXCEPT !.pos = @ + 1], <<st.buffer[st.pos + 1]>>)

fputc(c) ==
    /\ stream # Closed
    /\ stream.mode = FMODE_WRITE /\ ~stream.error
    /\ \E fails \in BOOLEAN :
       \E r \in {IF Len(stream.buffer) >= BUFSIZ THEN _fflush_unlocked(Here, fails)
                 ELSE [ok |-> TRUE, s |-> Here]} :
          IF r.ok THEN Takes([r.s EXCEPT !.st.buffer = Append(@, c)])
                       /\ wrote' = Append(wrote, c)
          ELSE Takes(r.s) /\ UNCHANGED wrote
    /\ UNCHANGED got

(* Copies what is buffered, refills, and goes on until it has n bytes or   *)
(* the file ends; eof does not keep it from trying.                        *)
RECURSIVE FreadLoop(_, _, _)
FreadLoop(st, bytes, n) ==
    LET available == Len(st.buffer) - st.pos
        k == IF n - Len(bytes) > available THEN available ELSE n - Len(bytes)
        more == Refill(st)
    IN  IF Len(bytes) = n THEN [st |-> st, bytes |-> bytes]
        ELSE IF available > 0
        THEN FreadLoop([st EXCEPT !.pos = @ + k],
                       bytes \o SubSeq(st.buffer, st.pos + 1, st.pos + k), n)
        ELSE IF sys_fread(st.offset, BUFSIZ) = <<>> THEN [st |-> more, bytes |-> bytes]
        ELSE FreadLoop(more, bytes, n)

fread(n) ==
    /\ stream # Closed
    /\ stream.mode = FMODE_READ
    /\ \E r \in {FreadLoop(stream, <<>>, n)} : Reads(r.st, r.bytes)

(* Fills the buffer and flushes it when it is full and more is to come; a  *)
(* failed flush ends the call.                                             *)
RECURSIVE FwriteLoop(_, _, _)
FwriteLoop(s, data, fails) ==
    LET space == BUFSIZ - Len(s.st.buffer)
        k == IF Len(data) > space THEN space ELSE Len(data)
        r == _fflush_unlocked(s, fails)
    IN  IF data = <<>> THEN [s |-> s, left |-> data]
        ELSE IF space > 0
        THEN FwriteLoop([s EXCEPT !.st.buffer = @ \o SubSeq(data, 1, k)],
                        SubSeq(data, k + 1, Len(data)), fails)
        ELSE IF r.ok THEN FwriteLoop(r.s, data, fails)
        ELSE [s |-> r.s, left |-> data]

fwrite(data) ==
    /\ stream # Closed
    /\ stream.mode = FMODE_WRITE
    /\ \E fails \in BOOLEAN : \E r \in {FwriteLoop(Here, data, fails)} :
          /\ Takes(r.s)
          /\ wrote' = wrote \o SubSeq(data, 1, Len(data) - Len(r.left))
    /\ UNCHANGED got

Serial(n) == [i \in 1 .. n |-> i]
From_(k, n) == [i \in 1 .. n |-> k + i]

StreamInit ==
    /\ content \in {Serial(n) : n \in 0 .. MaxFile}
    /\ stream = Closed
    /\ wrote = <<>> /\ flushed = <<>> /\ got = <<>>

StreamNext ==
    \/ \E mode \in {FMODE_READ, FMODE_WRITE} : fopen(mode)
    \/ fflush \/ fclose \/ fgetc
    \/ \E n \in 1 .. BUFSIZ + 1 : fread(n)
    \/ Len(wrote) < MaxFile /\ fputc(Len(wrote) + 1)
    \/ \E n \in 1 .. BUFSIZ + 1 :
            Len(wrote) + n <= MaxFile /\ fwrite(From_(Len(wrote), n))
-----------------------------------------------------------------------------
(* Standard output.                                                        *)

_fflush_stdout_unlocked(o) ==
    IF o.buf = <<>> THEN o ELSE [buf |-> <<>>, printed |-> o.printed \o o.buf]

(* A bug: the character that finds the buffer full is dropped.             *)
_putchar_unlocked_Drops(o, c) ==
    IF Len(o.buf) >= StdoutSize THEN _fflush_stdout_unlocked(o)
    ELSE LET o2 == [o EXCEPT !.buf = Append(@, c)]
         IN  IF c = "newline" THEN _fflush_stdout_unlocked(o2) ELSE o2

_putchar_unlocked(o, c) ==
    LET o1 == IF Len(o.buf) >= StdoutSize THEN _fflush_stdout_unlocked(o) ELSE o
        o2 == [o1 EXCEPT !.buf = Append(@, c)]
    IN  IF c = "newline" THEN _fflush_stdout_unlocked(o2) ELSE o2

Out == [buf |-> stdout_buf, printed |-> printed]
PutAll(o, text) == FoldLeft(_putchar_unlocked, o, text)
Shows(o, text) == stdout_buf' = o.buf /\ printed' = o.printed /\ put' = put \o text

putchar(c) == Shows(_putchar_unlocked(Out, c), <<c>>)
puts(text) == Shows(PutAll(Out, Append(text, "newline")), Append(text, "newline"))
(* printf flushes whatever its format made it put.                         *)
printf(text) == Shows(_fflush_stdout_unlocked(PutAll(Out, text)), text)

StdoutInit == stdout_buf = <<>> /\ printed = <<>> /\ put = <<>>
StdoutNext ==
    /\ Len(put) < MaxOut
    /\ \/ \E c \in {"a", "newline"} : putchar(c)
       \/ \E text \in {<<>>, <<"a", "a", "a">>} : puts(text) \/ printf(text)
-----------------------------------------------------------------------------
(* A stream loses, repeats and reorders nothing on its side: what was read *)
(* is the file from its start, a stream at its end was read to the end,    *)
(* what was accepted is what was given to the kernel and what is still     *)
(* buffered, and what was put is what was printed and what is buffered     *)
(* (fgetc, fread, fputc, fwrite, putchar, puts, printf).                   *)
StreamsInOrder ==
    /\ put = printed \o stdout_buf /\ Len(stdout_buf) <= StdoutSize
    /\ IsPrefix(got, content) \/ wrote # <<>>
    /\ stream # Closed =>
          IF stream.mode = FMODE_READ
          THEN /\ stream.offset = Len(got) + Len(stream.buffer) - stream.pos
               /\ stream.eof => got = content
          ELSE /\ wrote = flushed \o stream.buffer
               /\ Len(stream.buffer) <= BUFSIZ
=============================================================================
