-------------------------------- MODULE Shell --------------------------------
(***************************************************************************)
(* The kernel's shell: the line being typed, completion, the history ring, *)
(* pipes, redirection and the editor (kernel/src/shell.cpp,                *)
(* shell_history.cpp, shell_autocomplete.cpp, shell_redirect.cpp).  Text   *)
(* is a sequence of characters.  What a command does is not modelled: ran  *)
(* records which commands a line executes.  Nothing in the source calls    *)
(* ShellRedirect::append, so what is captured is always empty.             *)
(***************************************************************************)
EXTENDS Integers, Sequences, SequencesExt

CONSTANTS
    SHELL_HISTORY_SIZE, SHELL_MAX_CMD_LEN,
    Letters,        \* printable characters that are typed
    Builtins,       \* builtin_cmds, in order
    DirEntries,     \* names in the root directory, in order
    WriteWord,      \* the prefix that makes a pipe write to a file
    RedirFileMax,   \* size of redir_file
    MaxAdded        \* bound on the commands that enter the history

VARIABLES
    input_buf, entries_, head_, count_, cursor_,
    ran,            \* the commands the last line executed
    redirected,     \* the file it wrote to, or <<>>
    added,          \* every command that entered the history
    recalled        \* whether the line is one the history gave
shellVars == <<input_buf, entries_, head_, count_, cursor_, ran, redirected, added, recalled>>

ShellInit ==
    /\ input_buf = <<>> /\ ran = <<>> /\ redirected = <<>> /\ added = <<>> /\ recalled = FALSE
    /\ entries_ = [i \in 0..(SHELL_HISTORY_SIZE - 1) |-> <<>>]
    /\ head_ = 0 /\ count_ = 0 /\ cursor_ = -1

Truncated(s, n) == SubSeq(s, 1, IF Len(s) < n THEN Len(s) ELSE n)

-----------------------------------------------------------------------------
(* The history.                                                            *)

Slot(back) == (head_ - 1 - back) % SHELL_HISTORY_SIZE

\* ShellHistory::add: a repetition of the newest entry is not stored.
AddToHistory(cmd) ==
    IF count_ > 0 /\ entries_[Slot(0)] = cmd
    THEN UNCHANGED <<entries_, head_, count_, added>>
    ELSE /\ entries_' = [entries_ EXCEPT ![head_] = Truncated(cmd, SHELL_MAX_CMD_LEN - 1)]
         /\ head_' = (head_ + 1) % SHELL_HISTORY_SIZE
         /\ count_' = IF count_ < SHELL_HISTORY_SIZE THEN count_ + 1 ELSE count_
         /\ added' = Append(added, cmd)

set_input(text) == input_buf' = Truncated(text, SHELL_MAX_CMD_LEN - 1)

navigate_up_Past ==
    /\ count_ > 0
    /\ cursor_' = IF cursor_ < count_ THEN cursor_ + 1 ELSE cursor_
    /\ set_input(entries_[Slot(cursor_')]) /\ recalled' = TRUE
    /\ UNCHANGED <<entries_, head_, count_, ran, redirected, added>>

\* The up key: one command further back, stopping at the oldest.
navigate_up ==
    /\ count_ > 0
    /\ cursor_' = IF cursor_ < count_ - 1 THEN cursor_ + 1 ELSE cursor_
    /\ set_input(entries_[Slot(cursor_')]) /\ recalled' = TRUE
    /\ UNCHANGED <<entries_, head_, count_, ran, redirected, added>>

\* The down key: one command forward, and after the newest an empty line.
navigate_down ==
    /\ IF cursor_ <= 0
       THEN cursor_' = -1 /\ set_input(<<>>) /\ recalled' = FALSE
       ELSE cursor_' = cursor_ - 1 /\ set_input(entries_[Slot(cursor_ - 1)]) /\ recalled' = TRUE
    /\ UNCHANGED <<entries_, head_, count_, ran, redirected, added>>

-----------------------------------------------------------------------------
(* Completion, pipes and redirection.                                      *)

starts_with(str, prefix) == Len(prefix) <= Len(str) /\ SubSeq(str, 1, Len(prefix)) = prefix

\* The first builtin, or with a blank in the line the first file, that begins
\* with what is typed; <<>> for none.  (Files are matched without regard to case;
\* letters have no case here.)
complete(partial) ==
    LET last_space == SelectLastInSeq(partial, LAMBDA c : c = " ")
        file_part  == SubSeq(partial, last_space + 1, Len(partial))
        builtin    == SelectInSeq(Builtins, LAMBDA b : starts_with(b, partial))
        file       == SelectInSeq(DirEntries, LAMBDA f : starts_with(f, file_part))
    IN  IF partial = <<>> THEN <<>>
        ELSE IF last_space = 0 THEN (IF builtin = 0 THEN <<>> ELSE Builtins[builtin])
        ELSE IF file_part = <<>> \/ file = 0 THEN <<>>
        ELSE SubSeq(partial, 1, last_space) \o DirEntries[file]

TrimRight(s) == SubSeq(s, 1, SelectLastInSeq(s, LAMBDA c : c # " "))
TrimLeft(s) == SubSeq(s, SelectInSeq(s \o <<"end">>, LAMBDA c : c # " "), Len(s))

\* The parts of a line around the first occurrence of a mark, without blanks;
\* the second keeps at most `max` characters.
SplitAt(line, mark, max) ==
    LET at == SelectInSeq(line, LAMBDA c : c = mark)
    IN  IF at = 0 THEN <<TrimRight(line), <<>>>>
        ELSE <<TrimRight(SubSeq(line, 1, at - 1)),
               TrimRight(Truncated(TrimLeft(SubSeq(line, at + 1, Len(line))), max))>>

parse_pipe(line) == SplitAt(line, "|", SHELL_MAX_CMD_LEN - 1)
parse(line) == SplitAt(line, ">", RedirFileMax - 1)

\* exec_command returns at once for an empty command.
Executed(cmds) == SelectSeq(cmds, LAMBDA c : c # <<>>)

process_line(line) ==
    LET pipe  == parse_pipe(line)
        redir == parse(line)
    IN  IF line = <<>>
        THEN UNCHANGED <<entries_, head_, count_, added, ran, redirected>>
        ELSE /\ AddToHistory(line)
             /\ CASE pipe[2] # <<>> /\ starts_with(pipe[2], WriteWord) ->
                        /\ ran' = Executed(<<pipe[1]>>)
                        /\ redirected' = SubSeq(pipe[2], Len(WriteWord) + 1, Len(pipe[2]))
                  [] pipe[2] # <<>> /\ ~starts_with(pipe[2], WriteWord) ->
                        ran' = Executed(<<pipe[1], pipe[2]>>) /\ redirected' = <<>>
                  [] pipe[2] = <<>> /\ redir[2] # <<>> ->
                        ran' = Executed(<<redir[1]>>) /\ redirected' = redir[2]
                  [] OTHER -> ran' = Executed(<<line>>) /\ redirected' = <<>>

-----------------------------------------------------------------------------
(* The keys shell_main handles.                                            *)

EnterKey ==
    /\ Len(added) < MaxAdded
    /\ process_line(input_buf)
    /\ cursor_' = -1 /\ input_buf' = <<>> /\ recalled' = FALSE

BackspaceKey ==
    /\ input_buf # <<>>
    /\ input_buf' = SubSeq(input_buf, 1, Len(input_buf) - 1) /\ recalled' = FALSE
    /\ UNCHANGED <<entries_, head_, count_, cursor_, ran, redirected, added>>

TabKey ==
    /\ complete(input_buf) # <<>>
    /\ set_input(complete(input_buf)) /\ recalled' = FALSE
    /\ UNCHANGED <<entries_, head_, count_, cursor_, ran, redirected, added>>

LetterKey(c) ==
    /\ Len(input_buf) < SHELL_MAX_CMD_LEN - 1
    /\ input_buf' = Append(input_buf, c) /\ recalled' = FALSE
    /\ UNCHANGED <<entries_, head_, count_, cursor_, ran, redirected, added>>

ShellNext ==
    \/ EnterKey \/ BackspaceKey \/ TabKey \/ navigate_up \/ navigate_down
    \/ \E c \in Letters : LetterKey(c)

-----------------------------------------------------------------------------
\* The history gives back the commands as they were entered: the ring holds the
\* newest ones, the cursor never leaves them, and a recalled line is the command
\* that many steps back, over any mix of new commands, repetitions and keys.
HistoryRecalls ==
    /\ count_ = IF Len(added) < SHELL_HISTORY_SIZE THEN Len(added) ELSE SHELL_HISTORY_SIZE
    /\ cursor_ \in -1..(count_ - 1)
    /\ \A back \in 0..(count_ - 1) : entries_[Slot(back)] = added[Len(added) - back]
    /\ recalled => cursor_ >= 0 /\ input_buf = added[Len(added) - cursor_]
-----------------------------------------------------------------------------
(* The interactive editor (run_interactive_write in shell.cpp): writei     *)
(* starts with an empty text, writeo with what the file holds, and ESC     *)
(* saves the whole text over the file.                                     *)

CONSTANTS
    max_len,        \* bytes of the text (16380 in the code)
    TabWidth,       \* blanks of a tab (4 in the code)
    EditorFiles     \* what the file may hold at first

VARIABLES
    content,        \* the file
    before,         \* what it held when the editor was started
    appending,      \* whether writeo started it
    editing,        \* whether the editor runs
    ebuf, orig_len

editorVars == <<content, before, appending, editing, ebuf, orig_len>>

EditorInit ==
    /\ content \in EditorFiles /\ before = content
    /\ appending = FALSE /\ editing = FALSE /\ ebuf = <<>> /\ orig_len = 0

\* writeo reads up to max_len bytes of the file.
StartEditor(append) ==
    /\ ~editing /\ editing' = TRUE /\ appending' = append
    /\ before' = content
    /\ ebuf' = IF append
               THEN SubSeq(content, 1, IF Len(content) < max_len THEN Len(content) ELSE max_len)
               ELSE <<>>
    /\ orig_len' = Len(ebuf')
    /\ UNCHANGED content

\* Text added at the end as far as there is room.
Extended(text, more) ==
    LET room == max_len - Len(text)
    IN  text \o SubSeq(more, 1, IF Len(more) < room THEN Len(more) ELSE room)

Typing(text) ==
    /\ editing /\ ebuf' = text
    /\ UNCHANGED <<content, before, appending, editing, orig_len>>

\* The blanks at the start of the line that the last byte of `text` ends; only
\* what was typed counts.
Indent(text) ==
    LET body  == SubSeq(text, 1, Len(text) - 1)
        typed == SubSeq(body, orig_len + 1, Len(body))
        start == orig_len + SelectLastInSeq(typed, LAMBDA c : c = "newline")
        line  == SubSeq(body, start + 1, Len(body))
    IN  SelectInSeq(line \o <<"end">>, LAMBDA c : c # " ") - 1

NewLine ==
    LET text == Extended(ebuf, <<"newline">>)
    IN  Typing(Extended(text, [i \in 1..Indent(text) |-> " "]))

EraseChar_Any == /\ ebuf # <<>> /\ Typing(SubSeq(ebuf, 1, Len(ebuf) - 1))

\* What the file held, and a line end, cannot be erased.
EraseChar ==
    /\ Len(ebuf) > orig_len /\ ebuf[Len(ebuf)] # "newline"
    /\ Typing(SubSeq(ebuf, 1, Len(ebuf) - 1))

TypeChar == Len(ebuf) < max_len /\ Typing(Append(ebuf, "c"))
TypeTab == Typing(Extended(ebuf, [i \in 1..TabWidth |-> " "]))

\* ESC; a write that fails leaves the file as it was.
Save ==
    /\ editing /\ editing' = FALSE
    /\ content' \in {ebuf, content}
    /\ UNCHANGED <<before, appending, ebuf, orig_len>>

EditorNext ==
    \/ \E append \in BOOLEAN : StartEditor(append)
    \/ NewLine \/ EraseChar \/ TypeChar \/ TypeTab \/ Save

-----------------------------------------------------------------------------
\* While the editor appends, the bytes it read stay at the start of the text
\* whatever is typed and erased, and the text stays within its buffer.
EditorKeepsRead ==
    /\ Len(ebuf) <= max_len /\ orig_len <= Len(ebuf)
    /\ appending => SubSeq(ebuf, 1, orig_len) = SubSeq(before, 1, orig_len)
=============================================================================
