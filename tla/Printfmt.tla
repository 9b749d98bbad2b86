------------------------------ MODULE Printfmt ------------------------------
(***************************************************************************)
(* vprintfmt of lib/printfmt.c, with its three users: cprintf of the       *)
(* kernel (kern/printf.c), cprintf of programs, which collects characters  *)
(* for sys_cputs (lib/printf.c), and snprintf.                             *)
(*                                                                         *)
(* A character of the format is a step, a character of the output is one,  *)
(* too.  An argument is a record with the number and the string that it is *)
(* when the format asks for one.                                           *)
(***************************************************************************)
EXTENDS Strings, FiniteSets

CONSTANTS
    FmtChar,      \* characters of formats
    MaxFmt,       \* length of the longest one
    Arg,          \* arguments, as [num, str]
    Sink,         \* which of "kernel", "user" and "snprintf" are used
    SNSIZE,       \* the size given to snprintf
    PRINTBUF,     \* 256 - 1: characters of one sys_cputs
    INTBITS       \* width of an int (and of a long)

NULL == <<"NULL">>

ASSUME PrintfmtAssumption ==
    /\ MaxFmt \in Nat
    /\ NUL \notin FmtChar
    /\ SNSIZE \in Nat \ {0}
    /\ PRINTBUF \in Nat \ {0}
    /\ INTBITS \in Nat \ {0}
    /\ \A n \in {INTBITS, 2 * INTBITS} : 2^n \in Nat \ {0}  \* the provers do not know ^
    /\ \A a \in Arg : a.num \in -(2^(INTBITS - 1))..(2^(INTBITS - 1) - 1)
    /\ Sink \subseteq {"kernel", "user", "snprintf"}

VARIABLES
    fmt,        \* the format
    next,       \* position of the next character in it
    arg,        \* the argument that every va_arg returns
    esc,        \* [on, padc, width, precision, lflag, altflag]
    done,       \* vprintfmt has returned
    todo,       \* characters of the last conversion that are still to be put
    all,        \* what was given to putch, from the start
    sink,       \* whose putch it is
    pbuf,       \* characters in printbuf or sprintbuf
    console,    \* characters on the console
    cnt         \* b.cnt, cnt

pfVars == <<fmt, next, arg, esc, done, todo, all, sink, pbuf, console, cnt>>

NoEscape == [on |-> FALSE, padc |-> Blank, width |-> -1, precision |-> -1,
             lflag |-> 0, altflag |-> FALSE]

-----------------------------------------------------------------------------
(* putch                                                                   *)

\* A bug for the runs: the last character of a full buffer stays behind.
PutUserShort(b, ch) ==
    LET full == Append(b.buf, ch)
    IN  IF Len(full) = PRINTBUF
        THEN [buf |-> <<>>, console |-> b.console \o b.buf]
        ELSE [buf |-> full, console |-> b.console]

PutUser(b, ch) ==
    LET full == Append(b.buf, ch)
    IN  IF Len(full) = PRINTBUF
        THEN [buf |-> <<>>, console |-> b.console \o full]
        ELSE [buf |-> full, console |-> b.console]

\* sprintputch: ebuf leaves room for the NUL.
PutSn(b, ch) ==
    IF Len(b.buf) < SNSIZE - 1 THEN [b EXCEPT !.buf = Append(@, ch)] ELSE b

PutKernel(b, ch) == [b EXCEPT !.console = Append(@, ch)]

putch(b, ch) == CASE sink = "kernel" -> PutKernel(b, ch)
                  [] sink = "user" -> PutUser(b, ch)
                  [] sink = "snprintf" -> PutSn(b, ch)

\* The next character goes through putch.
Putch ==
    /\ todo # <<>>
    /\ LET b == putch([buf |-> pbuf, console |-> console], Head(todo))
       IN  pbuf' = b.buf /\ console' = b.console
    /\ cnt' = cnt + 1
    /\ all' = Append(all, Head(todo))
    /\ todo' = Tail(todo)
    /\ UNCHANGED <<fmt, next, arg, esc, done, sink>>

Emit(text) == todo' = text /\ UNCHANGED <<all, pbuf, console, cnt>>
EmitNothing == UNCHANGED <<todo, all, pbuf, console, cnt>>

-----------------------------------------------------------------------------
(* Conversions                                                             *)

Times(n, ch) == [k \in 1..(IF n > 0 THEN n ELSE 0) |-> ch]

digits(num, base) ==
    LET d[n \in 0..num] == IF n < base THEN <<Digit[n + 1]>>
                           ELSE Append(d[n \div base], Digit[(n % base) + 1])
    IN  d[num]

\* A bug for the runs: the padding stands between the digits.
printnumLate(num, base, width, padc) ==
    LET d == digits(num, base)
    IN  SubSeq(d, 1, 1) \o Times(width - Len(d), padc) \o Tail(d)

\* The padding comes before the most significant digit, whatever padc is.
printnum(num, base, width, padc) ==
    LET d == digits(num, base) IN Times(width - Len(d), padc) \o d

getuint(lflag) == arg.num % (2^(IF lflag >= 2 THEN 2 * INTBITS ELSE INTBITS))
getint(lflag) == arg.num

ErrorText == <<"e">>   \* what stands in error_string
MAXERROR == 9

\* The text of a conversion.
Converted(ch) ==
    LET number(num, base) == printnum(num, base, esc.width, esc.padc)
        string == IF arg.str = NULL THEN <<"n">> ELSE arg.str
        plain == SubSeq(string, 1, strnlen(string, esc.precision))
        shown == [n \in DOMAIN plain |->
                    IF esc.altflag /\ plain[n] = "^A" THEN "?" ELSE plain[n]]
        left == IF esc.width > 0 /\ esc.padc # "-"
                THEN Times(esc.width - Len(shown), esc.padc) ELSE <<>>
        right == IF esc.padc = "-"
                 THEN Times(esc.width - Len(shown), Blank) ELSE <<>>
        err == IF arg.num < 0 THEN -arg.num ELSE arg.num
    IN  CASE ch = "c" -> <<"c">>
          [] ch = "e" -> IF err \in 1..(MAXERROR - 1) THEN ErrorText
                         ELSE <<"E">> \o digits(err, 10)
          [] ch = "s" -> left \o shown \o right
          [] ch = "d" -> LET n == getint(esc.lflag)
                         IN  IF n < 0 THEN <<"-">> \o number(-n, 10)
                                      ELSE number(n, 10)
          [] ch = "u" -> number(getuint(esc.lflag), 10)
          [] ch = "o" -> number(getuint(esc.lflag), 8)
          [] ch = "p" -> <<"0", "x">> \o number(getuint(0), 16)
          [] ch = "x" -> number(getuint(esc.lflag), 16)
          [] ch = "%" -> <<"%">>

Conversion == {"c", "e", "s", "d", "u", "o", "p", "x", "%"}

-----------------------------------------------------------------------------

PfInit ==
    /\ fmt \in UNION {[1..n -> FmtChar] : n \in 0..MaxFmt}
    /\ next = 1
    /\ arg \in Arg
    /\ esc = NoEscape
    /\ done = FALSE
    /\ sink \in Sink
    /\ todo = <<>> /\ all = <<>> /\ pbuf = <<>> /\ console = <<>> /\ cnt = 0

PfIdle ==
    /\ fmt = <<>> /\ next = 1 /\ arg \in Arg /\ arg = CHOOSE a \in Arg : TRUE
    /\ esc = NoEscape /\ done = TRUE
    /\ sink = "kernel"
    /\ todo = <<>> /\ all = <<>> /\ pbuf = <<>> /\ console = <<>> /\ cnt = 0

PfChar == At(fmt, next)
InText == ~done /\ ~esc.on /\ todo = <<>>
InEscape == ~done /\ esc.on /\ todo = <<>>

Text ==
    /\ InText /\ PfChar \notin {"%", NUL}
    /\ Emit(<<PfChar>>)
    /\ next' = next + 1
    /\ UNCHANGED <<fmt, arg, esc, done, sink>>

Percent ==
    /\ InText /\ PfChar = "%"
    /\ esc' = [NoEscape EXCEPT !.on = TRUE]
    /\ next' = next + 1
    /\ EmitNothing
    /\ UNCHANGED <<fmt, arg, done, sink>>

\* The end of the format, and what the callers of vprintfmt do then: the program
\* prints what is left in its buffer.
EndOfFmt ==
    /\ InText /\ PfChar = NUL
    /\ done' = TRUE
    /\ IF sink = "user" THEN console' = console \o pbuf /\ pbuf' = <<>>
                        ELSE UNCHANGED <<console, pbuf>>
    /\ UNCHANGED <<fmt, next, arg, esc, todo, all, sink, cnt>>

\* Flags: the switch is entered again with the next character.
Flag ==
    /\ InEscape /\ PfChar \in {"-", "0", ".", "#", "l"}
    /\ esc' = CASE PfChar \in {"-", "0"} -> [esc EXCEPT !.padc = PfChar]
                [] PfChar = "." -> [esc EXCEPT !.width = IF @ < 0 THEN 0 ELSE @]
                [] PfChar = "#" -> [esc EXCEPT !.altflag = TRUE]
                [] PfChar = "l" -> [esc EXCEPT !.lflag = @ + 1]
    /\ next' = next + 1
    /\ EmitNothing
    /\ UNCHANGED <<fmt, arg, done, sink>>

\* process_precision: a number is the width, unless there is one.
SetField(n) ==
    esc' = IF esc.width < 0
           THEN [esc EXCEPT !.width = n, !.precision = -1]
           ELSE [esc EXCEPT !.precision = n]

DecDigit == {Digit[n] : n \in 1..10}

Field ==
    /\ InEscape /\ PfChar \in DecDigit \ {"0"}
    /\ LET end == Skip(fmt, next, DecDigit)
       IN  /\ SetField(Value(fmt, next, end, 10))
           /\ next' = end
    /\ EmitNothing
    /\ UNCHANGED <<fmt, arg, done, sink>>

StarField ==
    /\ InEscape /\ PfChar = "*"
    /\ SetField(arg.num)
    /\ next' = next + 1
    /\ EmitNothing
    /\ UNCHANGED <<fmt, arg, done, sink>>

Convert ==
    /\ InEscape /\ PfChar \in Conversion
    /\ Emit(Converted(PfChar))
    /\ esc' = NoEscape
    /\ next' = next + 1
    /\ UNCHANGED <<fmt, arg, done, sink>>

\* The position after the last % up to n, which the loop goes back to.
AfterPercent(n) ==
    1 + CHOOSE k \in 1..n : fmt[k] = "%" /\ \A i \in (k + 1)..n : fmt[i] # "%"

\* A bug for the runs: the text of the escape is skipped, the NUL with it.
UnknownSkips ==
    /\ InEscape
    /\ PfChar \notin Conversion \cup DecDigit \cup {"-", ".", "#", "l", "*"}
    /\ Emit(<<"%">>)
    /\ next' = next + 1
    /\ esc' = NoEscape
    /\ UNCHANGED <<fmt, arg, done, sink>>

\* A bug for the runs: the escape is looked at again.
UnknownAgain ==
    /\ InEscape
    /\ PfChar \notin Conversion \cup DecDigit \cup {"-", ".", "#", "l", "*"}
    /\ EmitNothing
    /\ next' = AfterPercent(next - 1) - 1
    /\ esc' = NoEscape
    /\ UNCHANGED <<fmt, arg, done, sink>>

\* Anything else, the end of the format included: print the % and go back to
\* the character after it.
Unknown ==
    /\ InEscape
    /\ PfChar \notin Conversion \cup DecDigit \cup {"-", ".", "#", "l", "*"}
    /\ Emit(<<"%">>)
    /\ next' = AfterPercent(next - 1)
    /\ esc' = NoEscape
    /\ UNCHANGED <<fmt, arg, done, sink>>

PfNext ==
    \/ Putch \/ Text \/ Percent \/ EndOfFmt
    \/ Flag \/ Field \/ StarField \/ Convert \/ Unknown

-----------------------------------------------------------------------------
(* Properties                                                              *)

FormatInBounds == ~done => next <= Len(fmt) + 1

\* Everything that was formatted arrives, in order, wherever the buffer of a
\* program was emptied; snprintf keeps what fits with the NUL; and the number
\* that is returned counts all of it.
Delivered ==
    done =>
        /\ cnt = Len(all)
        /\ sink # "snprintf" => console = all
        /\ sink = "snprintf" =>
              pbuf = SubSeq(all, 1, IF cnt < SNSIZE THEN cnt ELSE SNSIZE - 1)

Between == {"-", ".", "#", "l"} \cup DecDigit

\* Where the escape that starts at n gets its last character from.
EscapeEnd(n) == Skip(fmt, n + 1, Between)

\* "unrecognized escape sequence - just print it literally": a format without a
\* known conversion is printed as it stands, and vprintfmt never reads beyond the
\* NUL of its format, not even for an escape that the end of the format cuts off.
LiteralText ==
    /\ FormatInBounds
    /\ (done /\ \A n \in 1..Len(fmt) :
           fmt[n] = "%" => At(fmt, EscapeEnd(n)) \notin Conversion \cup {"*"})
       => all = fmt

\* printnum and strtol agree: what a number is printed as reads back as the
\* number, in each base and for the smallest int, as long as no padding stands
\* between its sign and its digits.
NumberReadsBack ==
    (done /\ fmt # <<>> /\ fmt[1] = "%" /\ EscapeEnd(1) = Len(fmt)) =>
        LET conv == fmt[Len(fmt)]
            base == CASE conv = "x" -> 16 [] conv = "o" -> 8 [] OTHER -> 10
            longs == Cardinality({n \in 1..Len(fmt) : fmt[n] = "l"})
            bits == IF longs >= 2 THEN 2 * INTBITS ELSE INTBITS
            num == IF conv = "d" THEN arg.num ELSE arg.num % (2^bits)
            dash == \E n \in 1..Len(fmt) : fmt[n] = "-"
            zero == At(fmt, 2) = "0"
        IN  (conv \in {"d", "u", "x", "o"} /\ ~dash
                /\ (num >= 0 \/ zero \/ Len(fmt) = 2))
            => strtol(all, base) = num
=============================================================================
