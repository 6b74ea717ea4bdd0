------------------------------ MODULE SimInput ------------------------------
(***************************************************************************)
(* The simulator's line input, from key to reader: the keyboard driver     *)
(* (kbd_driver.cpp) with its modifiers, auto-repeat and control sequences, *)
(* the queue of the input manager (input_manager.cpp), and the console     *)
(* (console_driver.cpp), which edits a line, keeps the finished lines and  *)
(* wakes the processes that wait for one.                                  *)
(*                                                                         *)
(* A character is the key and whether it is shifted; a line is its length, *)
(* and a text is the lengths of the lines std::getline cuts it into.       *)
(* Times are counted from the last key; statistics, layouts (both give the *)
(* same characters) and bus events are left out.                           *)
(***************************************************************************)
EXTENDS Naturals, Sequences, FiniteSets, SequencesExt

CONSTANTS
    Keys,                   \* the scancodes in use, among them
    Letters, Symbols,       \* those that capsLock and shift, or shift, change
    Readers,                \* processes that read lines
    KBD_BUFFER_SIZE, MAX_EVENT_LOG, InputQueueSize,
    repeatDelay_, repeatInterval_,
    MaxLine,                \* characters of the input line
    maxHistoryLines_,
    Texts,                  \* written by processes: [lines, open]
    MaxEvents, MaxLines     \* bounds: key events emitted; finished lines held

VARIABLES
    kbd,        \* the KeyboardDriver
    eventQueue_,
    con,        \* the ConsoleDriver
    woken,      \* readers resumed that have not called again
    ended,      \* readers that terminated
    strayed,    \* wake-ups given to readers that had terminated
    emitted     \* every event the keyboard ever delivered

inputVars == <<kbd, eventQueue_, con, woken, ended, strayed, emitted>>

Modifiers == {"LeftShift", "LeftCtrl", "CapsLock"}
NoKey == "None"
Newest(s, n) == IF Len(s) > n THEN SubSeq(s, Len(s) - n + 1, Len(s)) ELSE s
-----------------------------------------------------------------------------
(* The keyboard.                                                           *)

NewKeyboard == [keyBuffer |-> <<>>, eventLog |-> <<>>, pressed |-> {}, held |-> {},
                caps |-> FALSE, lastKey |-> NoKey, repeating |-> FALSE, since |-> 0]

(* reset keeps the log of events.                                          *)
KeyboardReset(k) == [NewKeyboard EXCEPT !.eventLog = k.eventLog]

(* held is the shift and the ctrl of modifiers_, caps its capsLock.        *)
updateModifiers(k, key, press) ==
    IF key = "CapsLock" THEN [k EXCEPT !.caps = IF press THEN ~@ ELSE @]
    ELSE IF key \in Modifiers
    THEN [k EXCEPT !.held = IF press THEN @ \cup {key} ELSE @ \ {key}]
    ELSE k

NoChar == [key |-> NoKey, shifted |-> FALSE]
translateUS(k, key) ==
    LET shift == "LeftShift" \in k.held
    IN  IF key \in Letters THEN [key |-> key, shifted |-> shift # k.caps]
        ELSE IF key \in Symbols THEN [key |-> key, shifted |-> shift]
        ELSE IF key \in {"Enter", "Backspace"} THEN [key |-> key, shifted |-> FALSE]
        ELSE NoChar
isPrintable(char) == char.key \in Letters \cup Symbols

handleControlSequence(k, key) == "LeftCtrl" \in k.held /\ key \in {"C", "D", "L", "Z"}

(* s = [k, queue, out]: the driver, the input manager's queue, the events. *)
processKey(s, key, action) ==
    LET e == [key |-> key, action |-> action,
              char |-> IF action = "Release" THEN NoChar ELSE translateUS(s.k, key)]
    IN  IF action = "Press" /\ handleControlSequence(s.k, key) THEN s
        ELSE [k |-> [s.k EXCEPT !.keyBuffer = Newest(Append(@, e), KBD_BUFFER_SIZE),
                                !.eventLog = Newest(Append(@, e), MAX_EVENT_LOG)],
              queue |-> Newest(Append(s.queue, e), InputQueueSize),
              out |-> Append(s.out, e)]

injectKeyPress(s, key) ==
    LET down == [s EXCEPT !.k = updateModifiers([@ EXCEPT !.pressed = @ \cup {key}], key, TRUE)]
    IN  IF key \in s.k.pressed THEN s
        ELSE [processKey(down, key, "Press") EXCEPT
                !.k.lastKey = key, !.k.since = 0, !.k.repeating = FALSE]

(* A bug: the key that was released goes on repeating.                     *)
injectKeyRelease_Repeats(s, key) ==
    processKey([s EXCEPT !.k = updateModifiers([@ EXCEPT !.pressed = @ \ {key}], key, FALSE)],
               key, "Release")
injectKeyRelease(s, key) ==
    LET up == processKey([s EXCEPT !.k = updateModifiers([@ EXCEPT !.pressed = @ \ {key}],
                                                         key, FALSE)], key, "Release")
    IN  IF s.k.lastKey = key
        THEN [up EXCEPT !.k.lastKey = NoKey, !.k.repeating = FALSE] ELSE up

(* One character of injectString, in upper case or not.                    *)
injectChar(s, key, upper) ==
    LET s1 == IF upper THEN injectKeyPress(s, "LeftShift") ELSE s
        s2 == injectKeyRelease(injectKeyPress(s1, key), key)
    IN  IF upper THEN injectKeyRelease(s2, "LeftShift") ELSE s2

KeyboardTick(s) ==
    LET elapsed == s.k.since + 1
        due == elapsed >= (IF s.k.repeating THEN repeatInterval_ ELSE repeatDelay_)
    IN  IF s.k.lastKey = NoKey THEN s
        ELSE IF due THEN [processKey(s, s.k.lastKey, "Repeat") EXCEPT
                            !.k.repeating = TRUE, !.k.since = 0]
        ELSE [s EXCEPT !.k.since = elapsed]
-----------------------------------------------------------------------------
(* The console.                                                            *)

NewConsole == [screen |-> <<>>, line |-> 0, inputLines |-> <<>>, waiting |-> <<>>]
ConsoleReset(c) == [NewConsole EXCEPT !.inputLines = c.inputLines]

(* The input line and the last line of the screen share one buffer: text   *)
(* takes up what is being typed, and a text that ends with a newline, or   *)
(* begins with one and ends without, drops it.                             *)
AddLine(c, t, n) ==
    IF c.line # 0 /\ Head(t.lines) # 0
    THEN [c EXCEPT !.screen = Append(@, c.line + n), !.line = 0]
    ELSE [c EXCEPT !.screen = Append(@, n)]
appendToScreen(c, t) ==
    LET c1 == FoldLeft(LAMBDA d, n : AddLine(d, t, n), c, t.lines)
        c2 == IF t.open THEN [c1 EXCEPT !.line = Last(c1.screen), !.screen = Front(@)] ELSE c1
    IN  [c2 EXCEPT !.screen = Newest(@, maxHistoryLines_)]

OneChar == [lines |-> <<1>>, open |-> TRUE]
Newline == [lines |-> <<0>>, open |-> FALSE]

(* s = [c, woken, strayed].  A bug: an empty line wakes nobody.            *)
Enter_SkipsEmpty(s) ==
    LET c == appendToScreen(s.c, Newline)
        c1 == [c EXCEPT !.inputLines = Append(@, c.line), !.line = 0]
    IN  IF c1.waiting = <<>> \/ c.line = 0 THEN [s EXCEPT !.c = c1]
        ELSE [s EXCEPT !.c = [c1 EXCEPT !.waiting = Tail(@)],
                       !.woken = @ \cup {Head(c1.waiting)}]

Enter(s) ==
    LET c == appendToScreen(s.c, Newline)
        c1 == [c EXCEPT !.inputLines = Append(@, c.line), !.line = 0]
        first == Head(c1.waiting)
    IN  IF c1.waiting = <<>> THEN [s EXCEPT !.c = c1]
        ELSE [c |-> [c1 EXCEPT !.waiting = Tail(@)],
              woken |-> IF first \in ended THEN s.woken ELSE s.woken \cup {first},
              strayed |-> s.strayed + (IF first \in ended THEN 1 ELSE 0)]
handleCharInput(s, char) ==
    IF char.key = "Backspace"
    THEN IF s.c.line = 0 THEN s
         ELSE [s EXCEPT !.c = appendToScreen([@ EXCEPT !.line = @ - 1], OneChar)]
    ELSE IF char.key = "Enter" THEN Enter(s)
    ELSE IF isPrintable(char) /\ s.c.line < MaxLine
    THEN [s EXCEPT !.c = appendToScreen([@ EXCEPT !.line = @ + 1], OneChar)]
    ELSE s

(* Every queued event, in order; releases are skipped.                     *)
ConsoleTick(s, queue) ==
    FoldLeft(LAMBDA t, e : IF e.action = "Release" THEN t ELSE handleCharInput(t, e.char),
             s, queue)
-----------------------------------------------------------------------------
InputInit ==
    /\ kbd = NewKeyboard /\ eventQueue_ = <<>> /\ con = NewConsole
    /\ woken = {} /\ ended = {} /\ strayed = 0 /\ emitted = <<>>

Here_ == [k |-> kbd, queue |-> eventQueue_, out |-> emitted]
KeyStep(s) ==
    /\ Len(s.out) <= MaxEvents
    /\ kbd' = s.k /\ eventQueue_' = s.queue /\ emitted' = s.out
    /\ UNCHANGED <<con, woken, ended, strayed>>

Press == \E key \in Keys : KeyStep(injectKeyPress(Here_, key))
Release == \E key \in Keys : KeyStep(injectKeyRelease(Here_, key))
Inject ==
    \/ \E key \in Letters : KeyStep(injectChar(Here_, key, TRUE))
    \/ \E key \in Letters \cup Symbols \cup {"Enter"} : KeyStep(injectChar(Here_, key, FALSE))
ResetKeyboard == KeyStep([Here_ EXCEPT !.k = KeyboardReset(@)])

(* pollEvent, of a consumer other than the console.                        *)
pollEvent ==
    /\ kbd.keyBuffer # <<>>
    /\ kbd' = [kbd EXCEPT !.keyBuffer = Tail(@)]
    /\ UNCHANGED <<eventQueue_, con, woken, ended, strayed, emitted>>

(* Kernel::tick: the keyboard's tick, then the console's.                  *)
InputTick ==
    LET s == KeyboardTick(Here_)
        t == ConsoleTick([c |-> con, woken |-> woken, strayed |-> strayed], s.queue)
    IN  /\ Len(s.out) <= MaxEvents /\ Len(t.c.inputLines) <= MaxLines
        /\ kbd' = s.k /\ emitted' = s.out /\ eventQueue_' = <<>>
        /\ con' = t.c /\ woken' = t.woken /\ strayed' = t.strayed
        /\ UNCHANGED ended

(* A reader that waits does not call; one that was woken calls again.      *)
requestReadLine(p) ==
    /\ p \notin ended /\ p \notin ToSet(con.waiting)
    /\ con' = IF con.inputLines # <<>> THEN [con EXCEPT !.inputLines = Tail(@)]
              ELSE [con EXCEPT !.waiting = Append(@, p)]
    /\ woken' = woken \ {p}
    /\ UNCHANGED <<kbd, eventQueue_, ended, strayed, emitted>>

(* Nobody tells the console that a process terminated.                     *)
ReaderEnds(p) ==
    /\ p \notin ended
    /\ ended' = ended \cup {p} /\ woken' = woken \ {p}
    /\ strayed' = strayed + (IF p \in woken THEN 1 ELSE 0)
    /\ UNCHANGED <<kbd, eventQueue_, con, emitted>>

ConsoleStep(c) == con' = c /\ UNCHANGED <<kbd, eventQueue_, woken, ended, strayed, emitted>>
(* Bound: output goes on an unfinished line of at most MaxLine characters. *)
writeText == con.line <= MaxLine /\ \E t \in Texts : ConsoleStep(appendToScreen(con, t))
clearScreen == ConsoleStep([con EXCEPT !.screen = <<>>, !.line = 0])

KeyboardNext == Press \/ Release \/ Inject \/ ResetKeyboard \/ pollEvent \/ InputTick
ConsoleNext ==
    \/ Inject \/ InputTick
    \/ \E p \in Readers : requestReadLine(p) \/ ReaderEnds(p)
    \/ writeText \/ clearScreen
-----------------------------------------------------------------------------
(* Only a key that is down repeats, the modifiers in force are those that  *)
(* are down, and the driver's buffer, its log and the input manager's      *)
(* queue each hold the newest of the delivered events, in order            *)
(* (injectKeyPress, injectKeyRelease, processKey).                         *)
KeyboardExact ==
    /\ kbd.lastKey # NoKey => kbd.lastKey \in kbd.pressed
    /\ kbd.held = kbd.pressed \cap {"LeftShift", "LeftCtrl"}
    /\ \A s \in {kbd.keyBuffer, kbd.eventLog, eventQueue_} : IsSuffix(s, emitted)

(* While a process waits, no finished line lies unclaimed: for each there  *)
(* is a reader that was woken and has yet to call again, or the wake-up    *)
(* went to a process that had terminated (handleCharInput,                 *)
(* requestReadLine).                                                       *)
LinesClaimed ==
    con.waiting # <<>> => Len(con.inputLines) <= Cardinality(woken) + strayed
=============================================================================
