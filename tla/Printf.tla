------------------------------- MODULE Printf -------------------------------
(***************************************************************************)
(* Numbers and formats: itoa and atoi (user/libc/src/stdlib.cpp), the C    *)
(* library's printf (user/libc/src/stdio.cpp) and the kernel's             *)
(* (kernel/src/libc.cpp).  Text is a sequence of one-character strings and *)
(* an int has INT_BITS bits and wraps, as in the build.  The conversion %f *)
(* is left out.                                                            *)
(***************************************************************************)
EXTENDS Integers, Sequences, SequencesExt

CONSTANT INT_BITS   \* 32 in the code

Unsigned(v) == v % 2^INT_BITS
Signed(v) == ((v + 2^(INT_BITS - 1)) % 2^INT_BITS) - 2^(INT_BITS - 1)

Decimal == <<"0", "1", "2", "3", "4", "5", "6", "7", "8", "9">>
Lower == Decimal \o <<"a", "b", "c", "d", "e", "f", "g", "h", "i", "j", "k", "l", "m", "n", "o",
                      "p", "q", "r", "s", "t", "u", "v", "w", "x", "y", "z">>
Upper == Decimal \o <<"A", "B", "C", "D", "E", "F">>
IsDigit(c) == Contains(Decimal, c)
DigitValue(c) == (CHOOSE i \in DOMAIN Decimal : Decimal[i] = c) - 1

CharAt(s, i) == IF i <= Len(s) THEN s[i] ELSE "NUL"
Repeat(c, n) == [i \in 1..n |-> c]
Concat(ss) == FoldLeft(LAMBDA a, b : a \o b, <<>>, ss)

\* The digits of a value as the loops produce them, the last digit first.
RECURSIVE DigitsReversed(_, _, _)
DigitsReversed(val, base, digits) ==
    IF val = 0 THEN <<>>
    ELSE <<digits[(val % base) + 1]>> \o DigitsReversed(val \div base, base, digits)

itoa(value, base) ==
    LET isNegative == value < 0 /\ base = 10
        uvalue     == Unsigned(IF isNegative THEN -value ELSE value)
    IN  IF base < 2 \/ base > 36 THEN <<>>
        ELSE IF value = 0 THEN <<"0">>
        ELSE Reverse(DigitsReversed(uvalue, base, Lower)
                     \o IF isNegative THEN <<"-">> ELSE <<>>)

\* Leading blanks, one sign, then digits up to the first other character.
atoi(str) ==
    LET blanks == SelectInSeq(str \o <<"NUL">>, LAMBDA c : c \notin {" ", "tab", "newline"})
        signed == CharAt(str, blanks) \in {"-", "+"}
        digits == SubSeq(str, blanks + (IF signed THEN 1 ELSE 0), Len(str))
        end    == SelectInSeq(digits \o <<"NUL">>, LAMBDA c : ~IsDigit(c))
        value  == FoldLeft(LAMBDA res, c : Signed(res * 10 + DigitValue(c)), 0,
                           SubSeq(digits, 1, end - 1))
    IN  IF CharAt(str, blanks) = "-" THEN Signed(-value) ELSE value

-----------------------------------------------------------------------------
print_uint_core(val, base, digits, is_negative, width, pad_char, left_justify) ==
    LET body    == IF val = 0 THEN <<"0">> ELSE Reverse(DigitsReversed(val, base, digits))
        sign    == IF is_negative THEN <<"-">> ELSE <<>>
        missing == width - Len(body) - Len(sign)
        pad_len == IF missing < 0 THEN 0 ELSE missing
    IN  (IF ~left_justify /\ pad_char = " " THEN Repeat(" ", pad_len) ELSE <<>>)
        \o sign
        \o (IF ~left_justify /\ pad_char = "0" THEN Repeat("0", pad_len) ELSE <<>>)
        \o body
        \o (IF left_justify THEN Repeat(" ", pad_len) ELSE <<>>)

print_int(val, width, pad_char, left_justify) ==
    print_uint_core(Unsigned(IF val < 0 THEN -val ELSE val), 10, Lower, val < 0, width,
                    pad_char, left_justify)

print_hex(val, uppercase, width, pad_char, left_justify) ==
    print_uint_core(val, 16, IF uppercase THEN Upper ELSE Lower, FALSE, width, pad_char,
                    left_justify)

\* All the nibbles of a pointer, without the leading zeros.
print_ptr(val) ==
    LET nibbles == INT_BITS \div 4
        buf     == [i \in 1..nibbles |-> Lower[((val \div 16^(nibbles - i)) % 16) + 1]]
        start   == SelectInSeq(SubSeq(buf, 1, nibbles - 1) \o <<"end">>, LAMBDA c : c # "0")
    IN  <<"0", "x">> \o IF val = 0 THEN <<"0">> ELSE SubSeq(buf, start, nibbles)

PadText(str, width, left_justify) ==
    LET pad == Repeat(" ", IF width > Len(str) THEN width - Len(str) ELSE 0)
    IN  IF left_justify THEN str \o pad ELSE pad \o str

NullText == <<"(", "n", "u", "l", "l", ")">>
TextOf(arg) == IF arg = <<"null">> THEN NullText ELSE arg

\* The switch of the library's printf: what one conversion writes.
Convert(conv, arg, width, pad_char, left) ==
    CASE conv = "s" -> PadText(TextOf(arg), width, left)
      [] conv \in {"d", "i"} -> print_int(arg, width, pad_char, left)
      [] conv = "u" -> print_uint_core(Unsigned(arg), 10, Lower, FALSE, width, pad_char, left)
      [] conv = "c" -> arg
      [] conv \in {"x", "X"} -> print_hex(Unsigned(arg), conv = "X", width, pad_char, left)
      [] conv = "p" -> print_ptr(Unsigned(arg))
      [] OTHER -> <<"%">> \o IF conv \in {"%", "NUL"} THEN <<>> ELSE <<conv>>

\* The switch of the kernel's.
KernelConvert(conv, arg, width, pad_char, left) ==
    CASE conv = "s" -> PadText(TextOf(arg), width, left)
      [] conv = "d" -> print_int(arg, width, pad_char, left)
      [] conv = "u" -> print_uint_core(Unsigned(arg), 10, Upper, FALSE, width, pad_char, left)
      [] conv = "c" -> arg
      [] conv \in {"x", "X"} -> print_hex(Unsigned(arg), TRUE, width, pad_char, left)
      [] OTHER -> <<"%">> \o IF conv \in {"%", "NUL"} THEN <<>> ELSE <<conv>>

UserTakes == {"s", "d", "i", "u", "c", "x", "X", "p"}
KernelTakes == {"s", "d", "u", "c", "x", "X"}

Directive_OneDigit(format, from) ==
    LET left  == CharAt(format, from) = "-"
        j     == from + (IF left THEN 1 ELSE 0)
        zero  == CharAt(format, j) = "0"
        k     == j + (IF zero THEN 1 ELSE 0)
        width == IsDigit(CharAt(format, k))
    IN  [left |-> left, pad |-> IF zero THEN "0" ELSE " ",
         width |-> IF width THEN DigitValue(format[k]) ELSE 0,
         at |-> k + (IF width THEN 1 ELSE 0)]

\* The flags and the width from position `from`, and where the conversion is.
Directive(format, from) ==
    LET left   == CharAt(format, from) = "-"
        j      == from + (IF left THEN 1 ELSE 0)
        zero   == CharAt(format, j) = "0"
        k      == j + (IF zero THEN 1 ELSE 0)
        rest   == SubSeq(format, k, Len(format))
        digits == SelectInSeq(rest \o <<"NUL">>, LAMBDA c : ~IsDigit(c)) - 1
    IN  [left |-> left, pad |-> IF zero THEN "0" ELSE " ",
         width |-> FoldLeft(LAMBDA w, c : w * 10 + DigitValue(c), 0, SubSeq(rest, 1, digits)),
         at |-> k + digits]

\* The library's printf from position i: what it writes.  A directive cut off
\* by the end of the format is written as %, and the step past it leaves the
\* format; that reading is marked "beyond".
RECURSIVE printf(_, _, _)
printf(format, i, args) ==
    IF i > Len(format) \/ (format[i] = "%" /\ i = Len(format)) THEN <<>>
    ELSE IF format[i] # "%" THEN <<format[i]>> \o printf(format, i + 1, args)
    ELSE LET d     == Directive(format, i + 1)
             conv  == CharAt(format, d.at)
             takes == conv \in UserTakes
             text  == Convert(conv, IF takes THEN Head(args) ELSE <<>>, d.width, d.pad, d.left)
         IN  text \o IF conv = "NUL" THEN <<"beyond">>
                     ELSE printf(format, d.at + 1, IF takes THEN Tail(args) ELSE args)

\* The kernel's, which stays at the end when it gets there.
RECURSIVE kernel_printf(_, _, _)
kernel_printf(format, i, args) ==
    IF i > Len(format) THEN <<>>
    ELSE IF format[i] # "%" THEN <<format[i]>> \o kernel_printf(format, i + 1, args)
    ELSE LET d     == Directive(format, i + 1)
             conv  == CharAt(format, d.at)
             takes == conv \in KernelTakes
             text  == KernelConvert(conv, IF takes THEN Head(args) ELSE <<>>, d.width, d.pad,
                                    d.left)
         IN  text \o kernel_printf(format, d.at + 1, IF takes THEN Tail(args) ELSE args)

-----------------------------------------------------------------------------
(* The reference: positional digits, padding, and items one after another. *)

Length(n, base) == CHOOSE k \in 1..INT_BITS : n < base^k /\ (k = 1 \/ n >= base^(k - 1))
Digits(n, base, digits) ==
    [i \in 1..Length(n, base) |-> digits[((n \div base^(Length(n, base) - i)) % base) + 1]]

\* A number in a field: its digits and sign, widened to the right by blanks, or
\* to the left by zeros behind the sign or by blanks before it.
Field(negative, digits, item) ==
    LET sign == IF negative THEN <<"-">> ELSE <<>>
        gap  == IF item.width > Len(sign \o digits)
                THEN item.width - Len(sign \o digits) ELSE 0
    IN  CASE item.left -> sign \o digits \o Repeat(" ", gap)
          [] ~item.left /\ item.zero -> sign \o Repeat("0", gap) \o digits
          [] ~item.left /\ ~item.zero -> Repeat(" ", gap) \o sign \o digits

Magnitude(v) == IF v < 0 THEN -v ELSE v

\* What an item of a format stands for; the kernel has only upper-case digits.
Shown(item, kernel) ==
    CASE item.conv = "lit" -> item.arg
      [] item.conv \in {"d", "i"} ->
            Field(item.arg < 0, Digits(Magnitude(item.arg), 10, Lower), item)
      [] item.conv = "u" -> Field(FALSE, Digits(Unsigned(item.arg), 10, Lower), item)
      [] item.conv \in {"x", "X"} ->
            Field(FALSE, Digits(Unsigned(item.arg), 16,
                                IF kernel \/ item.conv = "X" THEN Upper ELSE Lower), item)
      [] item.conv = "p" -> <<"0", "x">> \o Digits(Unsigned(item.arg), 16, Lower)
      [] item.conv = "c" -> item.arg
      [] item.conv = "s" -> Field(FALSE, TextOf(item.arg), [item EXCEPT !.zero = FALSE])
      [] item.conv = "%" -> <<"%">>

\* The item as it is written in a format.
Written(item) ==
    IF item.conv = "lit" THEN item.arg
    ELSE <<"%">> \o (IF item.left THEN <<"-">> ELSE <<>>)
         \o (IF item.zero THEN <<"0">> ELSE <<>>)
         \o (IF item.width = 0 THEN <<>> ELSE itoa(item.width, 10)) \o <<item.conv>>

Args(items) ==
    LET taking == SelectSeq(items, LAMBDA x : x.conv \notin {"lit", "%"})
    IN  [i \in DOMAIN taking |-> taking[i].arg]

\* A format of any items writes each item in turn, with its own argument, and
\* both printf functions agree with the reference wherever both know the
\* conversion: the scanners find the end of every directive, and the smallest
\* int, whose negation overflows, is written like any other.
FormatsExact(items) ==
    LET format == Concat([i \in DOMAIN items |-> Written(items[i])])
        text(k) == Concat([i \in DOMAIN items |-> Shown(items[i], k)])
    IN  /\ printf(format, 1, Args(items)) = text(FALSE)
        /\ (\A i \in DOMAIN items : items[i].conv \notin {"i", "p"}) =>
                kernel_printf(format, 1, Args(items)) = text(TRUE)

\* atoi reads back what itoa writes in base 10, for every int, with blanks
\* before it and other text behind it; in the other bases itoa writes the
\* value's bits.
NumbersReadBack(v) ==
    /\ atoi(itoa(v, 10)) = v
    /\ atoi(<<" ", "tab">> \o itoa(v, 10) \o <<"x", "1">>) = v
    /\ \A base \in {2, 8, 16} : itoa(v, base) = Digits(Unsigned(v), base, Lower)
=============================================================================
