------------------------------ MODULE Keyboard ------------------------------
(***************************************************************************)
(* The kernel's keyboard driver (kernel/src/keyboard.cpp): the interrupt   *)
(* handler turns scancodes into characters and puts them in a ring; a      *)
(* thread takes them out, halting the processor while there are none.      *)
(*                                                                         *)
(* The handler runs with interrupts off, so it is one step.  The reader's  *)
(* first look at the ring happens with interrupts on and can be cut in two *)
(* by the handler; after a halt it runs with them off until it halts again *)
(* or has a character.  Every character that enters the ring is also       *)
(* announced on the keyboard's event channel (module EventChannel).        *)
(***************************************************************************)
EXTENDS Integers, Sequences

CONSTANTS
    RING,           \* slots of char_buffer_ (256 in the code)
    KeyCodes,       \* what the keyboard can send, see process_scancode
    MaxAccepted     \* bound on the characters that enter the ring

ASSUME KeyboardAssumption == RING \in Nat \ {0, 1}

VARIABLES
    shift_pressed_, ctrl_pressed_, alt_pressed_, caps_lock_active_, current_layout_,
    extended_key_,
    char_buffer_, buffer_head_, buffer_tail_,
    reader,         \* "busy", "empty" (saw no character), "taking", "halted" or "woken"
    taken,          \* the character the reader holds before it moves the tail
    accepted, got   \* the characters that entered the ring and that were returned

modifiers == <<shift_pressed_, ctrl_pressed_, alt_pressed_, caps_lock_active_, current_layout_>>
keyboardVars == <<modifiers, extended_key_, char_buffer_, buffer_head_, buffer_tail_, reader,
                  taken, accepted, got>>

NoKey == [key |-> "none"]

KeyboardInit ==
    /\ shift_pressed_ = FALSE /\ ctrl_pressed_ = FALSE /\ alt_pressed_ = FALSE
    /\ caps_lock_active_ = FALSE /\ current_layout_ = 0 /\ extended_key_ = FALSE
    /\ char_buffer_ = [i \in 0..(RING - 1) |-> NoKey]
    /\ buffer_head_ = 0 /\ buffer_tail_ = 0
    /\ reader = "busy" /\ taken = NoKey /\ accepted = <<>> /\ got = <<>>

Empty == buffer_head_ = buffer_tail_
AfterTail == (buffer_tail_ + 1) % RING

EnterChar_Overwrites(c) ==
    /\ char_buffer_' = [char_buffer_ EXCEPT ![buffer_head_] = c]
    /\ buffer_head_' = (buffer_head_ + 1) % RING
    /\ accepted' = Append(accepted, c)

\* A character goes in unless the ring is full, in which case it is dropped.
EnterChar(c) ==
    LET next_head == (buffer_head_ + 1) % RING
    IN  IF next_head # buffer_tail_
        THEN /\ char_buffer_' = [char_buffer_ EXCEPT ![buffer_head_] = c]
             /\ buffer_head_' = next_head
             /\ accepted' = Append(accepted, c)
        ELSE UNCHANGED <<char_buffer_, buffer_head_, accepted>>

NoChar == UNCHANGED <<char_buffer_, buffer_head_, accepted>>

\* The character of a key in the layout: for a letter Shift and CapsLock cancel
\* out and Ctrl makes a control code; for a symbol only Shift counts.
Ascii(key) ==
    [key |-> key, layout |-> current_layout_,
     upper |-> IF key = "letter" THEN shift_pressed_ # caps_lock_active_ ELSE shift_pressed_,
     ctrl |-> ctrl_pressed_ /\ key = "letter"]

\* An interrupt ends the reader's halt.
Interrupted == reader' = IF reader = "halted" THEN "woken" ELSE reader

\* process_scancode: a prefix, a key after a prefix, a modifier, the layout
\* switch, a function key, the release of a key, and a key with a character.
process_scancode(key, is_release) ==
    /\ Len(accepted) < MaxAccepted
    /\ Interrupted
    /\ extended_key_' = (key = "prefix")
    /\ IF key = "prefix" THEN NoChar /\ UNCHANGED modifiers
       ELSE IF extended_key_
       THEN /\ IF ~is_release /\ key \in {"up", "down"} THEN EnterChar([key |-> key]) ELSE NoChar
            /\ UNCHANGED modifiers
       ELSE IF key \in {"shift", "ctrl", "alt"}
       THEN /\ shift_pressed_' = IF key = "shift" THEN ~is_release ELSE shift_pressed_
            /\ ctrl_pressed_' = IF key = "ctrl" THEN ~is_release ELSE ctrl_pressed_
            /\ alt_pressed_' = IF key = "alt" THEN ~is_release ELSE alt_pressed_
            /\ NoChar /\ UNCHANGED <<caps_lock_active_, current_layout_>>
       ELSE IF is_release THEN NoChar /\ UNCHANGED modifiers
       ELSE IF key = "caps"
       THEN /\ caps_lock_active_' = ~caps_lock_active_
            /\ NoChar
            /\ UNCHANGED <<shift_pressed_, ctrl_pressed_, alt_pressed_, current_layout_>>
       ELSE IF alt_pressed_ /\ shift_pressed_
       THEN /\ current_layout_' = (current_layout_ + 1) % 2
            /\ NoChar
            /\ UNCHANGED <<shift_pressed_, ctrl_pressed_, alt_pressed_, caps_lock_active_>>
       ELSE /\ IF key \in {"letter", "symbol"} THEN EnterChar(Ascii(key)) ELSE NoChar
            /\ UNCHANGED modifiers
    /\ UNCHANGED <<buffer_tail_, taken, got>>

\* Any other interrupt: the timer's comes for ever.
TimerInterrupt ==
    /\ reader = "halted" /\ Interrupted
    /\ UNCHANGED <<modifiers, extended_key_, char_buffer_, buffer_head_, buffer_tail_, taken,
                   accepted, got>>

ring == <<modifiers, extended_key_, char_buffer_, buffer_head_, accepted>>

\* The first call of get_char_nonblocking, up to its reading of the character.
FirstLook ==
    /\ reader = "busy"
    /\ reader' = IF Empty THEN "empty" ELSE "taking"
    /\ taken' = IF Empty THEN taken ELSE char_buffer_[buffer_tail_]
    /\ UNCHANGED <<ring, buffer_tail_, got>>

\* It moves the tail and returns the character.
TakeFirst ==
    /\ reader = "taking"
    /\ buffer_tail_' = AfterTail
    /\ got' = Append(got, taken)
    /\ reader' = "busy"
    /\ UNCHANGED <<ring, taken>>

\* sti; hlt: an interrupt between the look and the halt is not noticed.
Halt ==
    /\ reader = "empty"
    /\ reader' = "halted"
    /\ UNCHANGED <<ring, buffer_tail_, taken, got>>

LookAgain_Stale ==
    /\ reader = "woken"
    /\ reader' = "halted"
    /\ UNCHANGED <<ring, taken, buffer_tail_, got>>

\* After the halt interrupts are off: look again, and take or halt again.
LookAgain ==
    /\ reader = "woken"
    /\ IF Empty
       THEN reader' = "halted" /\ UNCHANGED <<buffer_tail_, got>>
       ELSE /\ reader' = "busy"
            /\ got' = Append(got, char_buffer_[buffer_tail_])
            /\ buffer_tail_' = AfterTail
    /\ UNCHANGED <<ring, taken>>

get_char == FirstLook \/ TakeFirst \/ Halt \/ LookAgain

KernelKeyboardNext ==
    \/ \E key \in KeyCodes, is_release \in BOOLEAN : process_scancode(key, is_release)
    \/ TimerInterrupt \/ get_char

KernelKeyboardSpec == KeyboardInit /\ [][KernelKeyboardNext]_keyboardVars

-----------------------------------------------------------------------------
InRing ==
    [i \in 1..((buffer_head_ - buffer_tail_) % RING) |->
        char_buffer_[(buffer_tail_ + i - 1) % RING]]

\* One reader gets the characters that entered the ring, each once and in
\* order, however the handler cuts into its look at the ring and however full
\* the ring is; what it has not got is in the ring.  (process_scancode writes
\* the head and get_char_nonblocking the tail, and neither locks.)
KeysInOrder ==
    /\ got \o InRing = accepted
    /\ reader = "taking" => ~Empty /\ taken = char_buffer_[buffer_tail_]

\* A reader that found no character and halted gets the one that arrives, even
\* one that arrived between its look and the halt: the timer's interrupt ends
\* the halt.
KeyIsDelivered == (~Empty /\ reader \in {"empty", "halted"}) ~> Empty \/ reader = "busy"
=============================================================================
