------------------------------- MODULE Strings -------------------------------
(***************************************************************************)
(* Routines of lib/string.c that the formatter uses, and strtol, which     *)
(* reads a number back.  A string is a sequence of one-character strings;  *)
(* its end is the terminating NUL.                                         *)
(***************************************************************************)
EXTENDS Integers, Sequences

Digit == <<"0", "1", "2", "3", "4", "5", "6", "7", "8", "9",
           "a", "b", "c", "d", "e", "f">>

DigitValue(ch) == CHOOSE n \in 0..15 : Digit[n + 1] = ch

Blank == " "

\* The character at position n, or the NUL.
NUL == "NUL"
At(s, n) == IF n <= Len(s) THEN s[n] ELSE NUL

\* A negative size is the largest one.
strnlen(s, size) == IF size < 0 \/ Len(s) < size THEN Len(s) ELSE size

\* Where a scan from position n that skips the characters in S stops.
Skip(s, n, S) ==
    CHOOSE stop \in n..(Len(s) + 1) :
        At(s, stop) \notin S /\ \A k \in n..(stop - 1) : At(s, k) \in S

\* The number that the digits from position a up to b stand for.
Value(s, a, b, base) ==
    LET val[k \in a..b] == IF k = a THEN 0
                           ELSE val[k - 1] * base + DigitValue(s[k - 1])
    IN  val[b]

\* strtol, for a base that is given.  What it does not detect is an overflow.
strtol(s, base) ==
    LET sign == Skip(s, 1, {Blank, "TAB"})
        first == IF At(s, sign) \in {"+", "-"} THEN sign + 1 ELSE sign
        start == IF base = 16 /\ At(s, first) = "0" /\ At(s, first + 1) = "x"
                 THEN first + 2 ELSE first
        num == Value(s, start, Skip(s, start, {Digit[n] : n \in 1..base}), base)
    IN  IF At(s, sign) = "-" THEN -num ELSE num
=============================================================================
