----------------------------- MODULE MCPrograms -----------------------------
(***************************************************************************)
(* What programs and people at the console rely on, side by side: open     *)
(* files, the program loader, the C library, the keyboard, the screen and  *)
(* the shell.  Which of them moves is chosen at the start, the others rest *)
(* in their initial states; the string functions and printf are operators, *)
(* checked on the inputs x.                                                *)
(***************************************************************************)
EXTENDS OpenFiles, UserMalloc, MCLoader, CStrings, Printf, Terminal, Keyboard, Shell

VARIABLES which, x

-----------------------------------------------------------------------------
(* Inputs of the string functions: a memory of seven bytes of which the    *)
(* first is not zero and the last two are equal.  Inputs of printf: every   *)
(* 8-bit number, and formats of two directives.                           *)
Memories == {m \in [1..7 -> 0..2] : m[1] = 1 /\ m[6] = m[7]}

Item(c, a, w, l, z) == [conv |-> c, arg |-> a, width |-> w, left |-> l, zero |-> z]
Ints == {-128, -9, 0, 10, 127}
Plain(c, a) == Item(c, a, 0, FALSE, FALSE)
Seconds ==
    {Plain("lit", <<"a">>), Plain("%", <<>>), Plain("c", <<"b">>)}
    \cup {Item(c, a, w, l, z) : c \in {"d", "u", "X"}, a \in Ints, w \in {0, 3, 10},
                                l \in BOOLEAN, z \in BOOLEAN}
    \cup {Item("s", a, w, l, FALSE) : a \in {<<>>, <<"h", "i">>}, w \in {0, 3}, l \in BOOLEAN}
    \cup {Plain(c, a) : c \in {"p", "i", "x"}, a \in Ints}
Firsts ==
    {Plain("lit", <<"a">>), Plain("%", <<>>), Item("d", -9, 10, TRUE, FALSE),
     Item("s", <<"h">>, 3, FALSE, FALSE), Item("x", 10, 0, FALSE, TRUE), Plain("s", <<"null">>)}

-----------------------------------------------------------------------------
(* The shell: what is typed are the beginnings of a few lines, among them  *)
(* a pipe into a file, a pipe, a redirection and arguments.                *)
MCWriteWord == <<"w", " ">>
MCBuiltins == <<<<"a", "b">>, <<"a", "a">>>>
MCDirEntries == <<<<"b", "a">>>>
Lines == {<<"a", "|", "w", " ", "a">>, <<"a", ">", "b", "a">>, <<"a", "|", "b">>, <<"a", "b">>,
          <<"a", " ", "b", "a">>}
MCFiles == {<<>>, <<" ", "newline">>, <<"x", "x", "x", "x", "x">>}

-----------------------------------------------------------------------------
Others(c) ==
    /\ c # "files" => UNCHANGED fvars
    /\ c # "malloc" => UNCHANGED mallocVars
    /\ c # "loader" => UNCHANGED loaderVars
    /\ c # "terminal" => UNCHANGED terminalVars
    /\ c # "keyboard" => UNCHANGED keyboardVars
    /\ c # "shell" => UNCHANGED shellVars
    /\ c # "editor" => UNCHANGED editorVars

Components == {"files", "malloc", "loader", "terminal", "keyboard", "shell", "editor"}

ProgramsInit ==
    /\ \/ which \in Components /\ x = 0
       \/ which = "strings" /\ x \in Memories
       \/ which = "number" /\ x \in -128..127
       \/ which = "format" /\ x \in Firsts \X Seconds
    /\ OpenInit /\ MallocInit /\ KeyboardInit /\ ShellInit
    /\ LoaderInit /\ (which # "loader" => program = "static")
    /\ TerminalInit /\ (which # "terminal" => mode = "text")
    /\ EditorInit /\ (which # "editor" => content = <<>>)

ProgramsNext ==
    /\ UNCHANGED <<which, x>>
    /\ \/ which = "files" /\ OpenNext /\ Others("files")
       \/ which = "malloc" /\ MallocNext /\ Others("malloc")
       \/ which = "loader" /\ LoaderNext /\ Others("loader")
       \/ which = "terminal" /\ TerminalNext /\ Others("terminal")
       \/ which = "keyboard" /\ KernelKeyboardNext /\ Others("keyboard")
       \/ which = "shell" /\ ShellNext /\ Others("shell")
          /\ \E t \in Lines : IsPrefix(input_buf', t)
       \/ which = "editor" /\ EditorNext /\ Others("editor")

programsVars ==
    <<which, x, fvars, mallocVars, loaderVars, terminalVars, keyboardVars, shellVars, editorVars>>

Reads == which = "keyboard" /\ get_char /\ Others("keyboard") /\ UNCHANGED <<which, x>>
Ticks == which = "keyboard" /\ TimerInterrupt /\ Others("keyboard") /\ UNCHANGED <<which, x>>

\* The reader of the keyboard goes on, and the timer ticks.
ProgramsSpec ==
    /\ ProgramsInit /\ [][ProgramsNext]_programsVars
    /\ WF_programsVars(Reads) /\ WF_programsVars(Ticks)

-----------------------------------------------------------------------------
(* The properties of the components, each looked at while its component    *)
(* moves.  FilesOutliveUsers of OpenFiles and KeysInOrder of Keyboard are  *)
(* checked as they are: a component at rest satisfies them.                *)

\* The blocks of malloc tile the heap, and what is in use is apart (HeapTiled of
\* UserMalloc).
MallocTilesHeap == which = "malloc" => HeapTiled

\* A started program's segments, libraries, heap and stack are apart, and every
\* symbol is bound to its first definition (ImageApart, SymbolsBound of Loader).
ProgramLinked == which = "loader" => ImageApart /\ SymbolsBound

\* The string functions do what a reference definition says, overlapping,
\* unaligned and empty areas included (CStrings).
StringsExact == which = "strings" => BlocksExact(x) /\ SearchesExact(x) /\ CopiesExact(x)

\* Numbers read back and directives print their fields, for both printf
\* functions (NumbersReadBack, FormatsExact of Printf).
PrintfExact ==
    /\ which = "number" => NumbersReadBack(x)
    /\ which = "format" => FormatsExact(x)

\* The screen shows a window on everything written (ScreenShowsSheet of
\* Terminal).
ScreenExact == which = "terminal" => ScreenShowsSheet

\* What the arrows recall is what was entered, and the editor keeps what it read
\* (HistoryRecalls, EditorKeepsRead).
ShellExact ==
    /\ which = "shell" => HistoryRecalls
    /\ which = "editor" => EditorKeepsRead
=============================================================================
