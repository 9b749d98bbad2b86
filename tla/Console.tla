------------------------------- MODULE Console -------------------------------
(***************************************************************************)
(* The console of the kernel in sched/: kern/console.c (keyboard, serial   *)
(* input, the circular input buffer, the text screen), readline            *)
(* (lib/readline.c), getchar of user programs (lib/console.c) and the      *)
(* kernel monitor (kern/monitor.c).                                        *)
(*                                                                         *)
(* Keyboard and serial port run beside the kernel.  One CPU uses the       *)
(* console at a time, with the kernel lock and interrupts off: a program   *)
(* that waits in getchar, and the monitor once no program is left.         *)
(*                                                                         *)
(* Characters are the strings below; a scan code is the pair of the code's *)
(* low seven bits and whether bit 7 (key released) is set.                 *)
(***************************************************************************)
EXTENDS Integers, SequencesExt

CONSTANTS
    Key,           \* the keys that are used, as <<code, extended>>
    SerialChar,    \* the characters that arrive at the serial port
    CONSBUFSIZE, BUFLEN, CRT_COLS, CRT_ROWS, MAXARGS,
    UserChar,      \* the characters that programs print
    MaxEvents      \* bound on key presses and releases, serial input, and prints

ASSUME ConsoleAssumption ==
    /\ \A k \in Key : k = <<k[1], k[2]>> /\ k[1] # "E0" /\ k[2] \in BOOLEAN
    /\ CONSBUFSIZE \in Nat \ {0, 1}
    /\ BUFLEN \in Nat \ {0}
    /\ CRT_COLS \in Nat \ {0}
    /\ CRT_ROWS \in Nat
    /\ BUFLEN <= CRT_COLS * (CRT_ROWS - 1)
    /\ MaxEvents \in Nat

CRT_SIZE == CRT_ROWS * CRT_COLS

NoChar == "0"     \* what cons_getc returns when there is nothing
NoData == "-1"    \* what a device routine returns when there is nothing

Char == {"a", "A", "^A", " ", "LF", "CR", "BS", "TAB", "DEL", "KEY_DEL"}

ASSUME SerialAssumption == SerialChar \subseteq Char \cup {NoChar}

VARIABLES
    kbd,         \* scan codes in the keyboard controller
    rx,          \* the serial receive buffer (the FIFO is off)
    irq,         \* IRQ_KBD is pending
    held,        \* keys held down
    events,      \* what the user did so far, counted for MaxEvents
    shift,       \* of kbd_proc_data
    cons,        \* [buf, rpos, wpos]
    crt,         \* [buf, pos]: crt_buf, crt_pos
    mode,        \* "user", "monitor", "reboot", or "off"
    pc,          \* where the reader is: in user mode, or in cons_getc
    c,           \* what cons_getc returned
    buf,         \* the line that readline has so far (i is its length)
    out          \* characters that cprintf has still to print

devVars == <<kbd, rx, irq, held, events>>
csVars == <<devVars, shift, cons, crt, mode, pc, c, buf, out>>

-----------------------------------------------------------------------------
(* Output: cga_putc                                                        *)

\* The screen moves up by a line when the cursor has left it.
Scroll(s) ==
    IF s.pos < CRT_SIZE THEN s
    ELSE [buf |-> [n \in 0..(CRT_SIZE - 1) |->
                     IF n < CRT_SIZE - CRT_COLS THEN s.buf[n + CRT_COLS]
                                                ELSE " "],
          pos |-> s.pos - CRT_COLS]

LineStart(pos) == pos - (pos % CRT_COLS)

Glyph(s, ch) == Scroll([buf |-> [s.buf EXCEPT ![s.pos] = ch], pos |-> s.pos + 1])

\* Not for a tab, which is printed as five blanks.
cga_putc(s, ch) ==
    CASE ch = "BS" -> IF s.pos = 0 THEN s
                      ELSE [buf |-> [s.buf EXCEPT ![s.pos - 1] = " "],
                            pos |-> s.pos - 1]
      [] ch = "LF" -> Scroll([s EXCEPT !.pos = LineStart(@ + CRT_COLS)])
      [] ch = "CR" -> [s EXCEPT !.pos = LineStart(@)]
      [] OTHER -> Glyph(s, ch)

Prompt == <<"K">>
Message == <<"m", "LF">>

-----------------------------------------------------------------------------
(* Keyboard: kbd_proc_data                                                 *)

shiftcode(data) ==
    CASE data \in {<<"1D", FALSE>>, <<"1D", TRUE>>} -> {"CTL"}
      [] data \in {<<"2A", FALSE>>, <<"36", FALSE>>} -> {"SHIFT"}
      [] data \in {<<"38", FALSE>>, <<"38", TRUE>>} -> {"ALT"}
      [] OTHER -> {}

togglecode(data) ==
    CASE data = <<"3A", FALSE>> -> {"CAPSLOCK"}
      [] data = <<"45", FALSE>> -> {"NUMLOCK"}
      [] data = <<"46", FALSE>> -> {"SCROLLLOCK"}
      [] OTHER -> {}

\* One key of each kind stands for the others: a letter, the keys whose
\* character depends on the map, and those that give the same in every map.
charcode(sh, data) ==
    LET ctl == "CTL" \in sh
        shifted == "SHIFT" \in sh
    IN  CASE data = <<"1E", FALSE>> -> IF ctl THEN "^A"
                                       ELSE IF shifted THEN "A" ELSE "a"
          [] data = <<"1C", FALSE>> -> IF ctl THEN "CR" ELSE "LF"
          [] data = <<"1C", TRUE>> -> IF ctl THEN NoChar ELSE "LF"
          [] data = <<"0E", FALSE>> -> IF ctl THEN NoChar ELSE "BS"
          [] data = <<"0F", FALSE>> -> IF ctl THEN NoChar ELSE "TAB"
          [] data = <<"39", FALSE>> -> IF ctl THEN NoChar ELSE " "
          [] data = <<"53", TRUE>> -> "KEY_DEL"
          [] OTHER -> NoChar

SwapCase(ch) == CASE ch = "a" -> "A" [] ch = "A" -> "a" [] OTHER -> ch

\* A bug for the runs: the release of a key leaves a pending escape.
KeyReleasedKeepsEscape(sh, code) ==
    sh \ shiftcode(<<code, "E0ESC" \in sh>>)

KeyReleased(sh, code) ==
    sh \ (shiftcode(<<code, "E0ESC" \in sh>>) \cup {"E0ESC"})

\* The new shift and the character (0 when there is none) for a scan code.
kbd_proc_data(sh, code, released) ==
    IF code = "E0"
    THEN [shift |-> sh \cup {"E0ESC"}, c |-> NoChar]
    ELSE IF released
    THEN [shift |-> KeyReleased(sh, code), c |-> NoChar]
    ELSE LET data == <<code, "E0ESC" \in sh>>
             sh1 == SymDiff((sh \ {"E0ESC"}) \cup shiftcode(data),
                            togglecode(data))
             ch == charcode(sh1, data)
         IN  [shift |-> sh1,
              c |-> IF "CAPSLOCK" \in sh1 THEN SwapCase(ch) ELSE ch]

\* Ctrl-Alt-Del
Reboots(r) == {"CTL", "ALT"} \subseteq r.shift /\ r.c = "KEY_DEL"

-----------------------------------------------------------------------------
(* The circular buffer: cons_intr, cons_getc                               *)

Wrap(pos) == IF pos + 1 = CONSBUFSIZE THEN 0 ELSE pos + 1

\* A bug for the runs: the test for c == 0 is missing.
StashAll(q, ch) == [q EXCEPT !.buf[q.wpos] = ch, !.wpos = Wrap(@)]

Stash(q, ch) ==
    IF ch = NoChar THEN q
    ELSE [q EXCEPT !.buf[q.wpos] = ch, !.wpos = Wrap(@)]

\* A bug for the runs: the test for waiting characters forgets the wrap.
WaitingBefore(q) == q.rpos < q.wpos

Waiting(q) == q.rpos # q.wpos

CsState(m) ==
    /\ kbd = <<>> /\ rx = NoData /\ irq = FALSE /\ held = {} /\ events = 0
    /\ shift = {}
    /\ cons = [buf |-> [n \in 0..(CONSBUFSIZE - 1) |-> NoChar],
               rpos |-> 0, wpos |-> 0]
    /\ crt = [buf |-> [n \in 0..(CRT_SIZE - 1) |-> " "], pos |-> 0]
    /\ mode = m
    /\ pc = m
    /\ c = NoChar
    /\ buf = <<>>
    /\ out = <<>>

CsInit == CsState("user")
CsIdle == CsState("off")

-----------------------------------------------------------------------------
(* The next character of cprintf goes through cons_putc.                   *)

ConsPutc ==
    /\ out # <<>>
    /\ IF Head(out) = "TAB"
       THEN /\ out' = <<" ", " ", " ", " ", " ">> \o Tail(out)
            /\ UNCHANGED crt
       ELSE /\ crt' = cga_putc(crt, Head(out))
            /\ out' = Tail(out)
    /\ UNCHANGED <<devVars, shift, cons, mode, pc, c, buf>>

-----------------------------------------------------------------------------
(* The devices                                                             *)

Codes(k, released) ==
    IF k[2] THEN <<<<"E0", TRUE>>, <<k[1], released>>>>
            ELSE <<<<k[1], released>>>>

Event == events < MaxEvents /\ events' = events + 1 /\ mode \in {"user", "monitor"}

\* A key goes down, or repeats while it is held.
KeyDown(k) ==
    /\ Event
    /\ kbd' = kbd \o Codes(k, FALSE)
    /\ irq' = TRUE
    /\ held' = held \cup {k}
    /\ UNCHANGED <<rx, shift, cons, crt, mode, pc, c, buf, out>>

KeyUp(k) ==
    /\ Event
    /\ k \in held
    /\ kbd' = kbd \o Codes(k, TRUE)
    /\ irq' = TRUE
    /\ held' = held \ {k}
    /\ UNCHANGED <<rx, shift, cons, crt, mode, pc, c, buf, out>>

\* A character that nobody has fetched is overrun by the next one.
SerialIn(ch) ==
    /\ Event
    /\ rx' = ch
    /\ UNCHANGED <<kbd, irq, held, shift, cons, crt, mode, pc, c, buf, out>>

-----------------------------------------------------------------------------
(* cons_getc, called by sys_cgetc and by getchar of the kernel             *)

\* cons_intr(serial_proc_data): one round of its loop.
SerialIntr ==
    /\ pc = "serial" /\ out = <<>>
    /\ IF rx = NoData
       THEN pc' = "kbd" /\ UNCHANGED <<rx, cons>>
       ELSE /\ cons' = Stash(cons, rx)
            /\ rx' = NoData
            /\ UNCHANGED pc
    /\ UNCHANGED <<kbd, irq, held, events, shift, crt, mode, c, buf, out>>

\* cons_intr(kbd_proc_data): one round of its loop.
KbdIntr ==
    /\ pc = "kbd"
    /\ IF kbd = <<>>
       THEN pc' = "take" /\ UNCHANGED <<kbd, shift, cons, mode, out>>
       ELSE LET r == kbd_proc_data(shift, kbd[1][1], kbd[1][2])
            IN  /\ kbd' = Tail(kbd)
                /\ shift' = r.shift
                /\ IF Reboots(r)
                   THEN /\ out' = Message
                        /\ mode' = "reboot" /\ pc' = "reboot"
                        /\ UNCHANGED cons
                   ELSE /\ cons' = Stash(cons, r.c)
                        /\ UNCHANGED <<mode, pc, out>>
    /\ UNCHANGED <<rx, irq, held, events, crt, c, buf>>

\* The rest of cons_getc.
Take ==
    /\ pc = "take"
    /\ IF Waiting(cons)
       THEN /\ c' = cons.buf[cons.rpos]
            /\ cons' = [cons EXCEPT !.rpos = Wrap(@)]
       ELSE c' = NoChar /\ UNCHANGED cons
    /\ pc' = "got"
    /\ UNCHANGED <<devVars, shift, crt, mode, buf, out>>

-----------------------------------------------------------------------------
(* A program in getchar                                                    *)

\* sys_cgetc
SysCgetc ==
    /\ mode = "user" /\ pc = "user" /\ out = <<>>
    /\ pc' = "serial"
    /\ UNCHANGED <<devVars, shift, cons, crt, mode, c, buf, out>>

\* sys_cputs
SysCputs(ch) ==
    /\ mode = "user" /\ pc = "user" /\ out = <<>>
    /\ Event
    /\ out' = <<ch>>
    /\ UNCHANGED <<kbd, rx, irq, held, shift, cons, crt, mode, pc, c, buf>>

\* The system call returns; without a character getchar yields and tries again.
UserReturn ==
    /\ mode = "user" /\ pc = "got"
    /\ pc' = "user"
    /\ c' = NoChar
    /\ UNCHANGED <<devVars, shift, cons, crt, mode, buf, out>>

\* monitor(), up to its first call of getchar.
EnterMonitor ==
    /\ mode' = "monitor" /\ pc' = "serial" /\ buf' = <<>>
    /\ out' = Message \o Message \o Prompt
    /\ c' = NoChar
    /\ UNCHANGED crt

\* The program ends; the kernel has nothing else to run and calls monitor().
ProgramEnds ==
    /\ mode = "user" /\ pc = "user" /\ out = <<>>
    /\ EnterMonitor
    /\ UNCHANGED <<devVars, shift, cons>>

\* kbd_init lets IRQ_KBD through and trap_init has no gate for it: the interrupt
\* is a general protection fault, which destroys the running program.
KbdIrq ==
    /\ mode = "user" /\ pc = "user" /\ irq /\ out = <<>>
    /\ irq' = FALSE
    /\ EnterMonitor
    /\ UNCHANGED <<kbd, rx, held, events, shift, cons>>

-----------------------------------------------------------------------------
(* readline and the monitor                                                *)

\* c >= ' '
Printable(ch) == ch \in {"a", "A", " ", "KEY_DEL", "DEL"}

IsErase(ch) == ch \in {"BS", "DEL"} /\ buf # <<>>
Fits(ch) == Printable(ch) /\ Len(buf) < BUFLEN - 1

Reading == mode = "monitor" /\ pc = "got"

\* getchar calls cons_getc again.
GetNext == pc' = "serial" /\ c' = NoChar

Erase ==
    /\ Reading /\ IsErase(c)
    /\ crt' = cga_putc(crt, "BS")
    /\ buf' = Front(buf)
    /\ GetNext
    /\ UNCHANGED <<devVars, shift, cons, mode, out>>

\* A bug for the runs: the character is shown before the test for room.
StoreEchoFirst ==
    /\ Reading /\ ~IsErase(c) /\ Printable(c)
    /\ crt' = cga_putc(crt, c)
    /\ buf' = IF Fits(c) THEN Append(buf, c) ELSE buf
    /\ GetNext
    /\ UNCHANGED <<devVars, shift, cons, mode, out>>

Store ==
    /\ Reading /\ ~IsErase(c) /\ Fits(c)
    /\ crt' = cga_putc(crt, c)
    /\ buf' = Append(buf, c)
    /\ GetNext
    /\ UNCHANGED <<devVars, shift, cons, mode, out>>

\* Where the words of a line begin, as runcmd finds them.
WordStarts(line) ==
    {i \in 1..Len(line) : line[i] # " " /\ (i = 1 \/ line[i - 1] = " ")}

\* argv[0]: up to the next blank.
FirstWord(line) ==
    LET first == Min(WordStarts(line))
        blanks == {i \in first..Len(line) : line[i] = " "}
    IN  SubSeq(line, first, IF blanks = {} THEN Len(line) ELSE Min(blanks) - 1)

\* The commands; <<"a">> stands for "help" and <<"A">> for "kerninfo".
mon_help == Message \o Message
mon_kerninfo == Message \o Message \o Message

\* What runcmd prints.
runcmd(line) ==
    LET argc == Cardinality(WordStarts(line))
    IN  CASE WordStarts(line) = {} -> <<>>
          [] argc >= MAXARGS -> Message
          [] argc \in 1..(MAXARGS - 1) /\ FirstWord(line) = <<"a">> -> mon_help
          [] argc \in 1..(MAXARGS - 1) /\ FirstWord(line) = <<"A">> -> mon_kerninfo
          [] OTHER -> FirstWord(line) \o Message

\* The end of readline, the command, and the prompt of the next line: no
\* command returns -1, so that the monitor never ends.
EndLine ==
    /\ Reading /\ c \in {"LF", "CR"}
    /\ out' = <<"LF">> \o runcmd(buf) \o Prompt
    /\ buf' = <<>>
    /\ GetNext
    /\ UNCHANGED <<devVars, shift, cons, crt, mode>>

\* Nothing was waiting, the line is full, or a control character.
Ignore ==
    /\ Reading
    /\ ~IsErase(c) /\ ~Fits(c) /\ c \notin {"LF", "CR"}
    /\ GetNext
    /\ UNCHANGED <<devVars, shift, cons, crt, mode, buf, out>>

Cpu ==
    \/ ConsPutc
    \/ SerialIntr \/ KbdIntr \/ Take
    \/ SysCgetc \/ UserReturn \/ ProgramEnds \/ KbdIrq
    \/ Erase \/ Store \/ EndLine \/ Ignore

Input ==
    \/ \E k \in Key : KeyDown(k) \/ KeyUp(k)
    \/ \E ch \in SerialChar : SerialIn(ch)

CsNext == Cpu \/ Input \/ \E ch \in UserChar : SysCputs(ch)

-----------------------------------------------------------------------------
(* Properties                                                              *)

\* The characters between rpos and wpos.
Content(q) ==
    [n \in 1..((q.wpos - q.rpos + CONSBUFSIZE) % CONSBUFSIZE) |->
        q.buf[(q.rpos + n - 1) % CONSBUFSIZE]]

Queue == INSTANCE InputQueue WITH
    Size <- CONSBUFSIZE, q <- Content(cons), got <- c

\* cons_intr and cons_getc: what is typed comes out once and in order, across the
\* wrap of both positions; it is lost only when CONSBUFSIZE - 1 characters wait.
IsInputQueue == Queue!Spec

CursorOnScreen == crt.pos \in 0..(CRT_SIZE - 1)

ShowsLine ==
    LET shown == Prompt \o buf
        start == crt.pos - Len(shown)
    IN  /\ start >= 0
        /\ \A n \in 1..Len(shown) : crt.buf[start + n - 1] = shown[n]

\* readline and cga_putc: the user sees the line that runcmd will get.  The cells
\* before the cursor are the prompt and the line, also after the line wrapped,
\* was erased or the screen moved, and the cursor is always on the screen.
EchoIsLine ==
    CursorOnScreen /\ (mode = "monitor" /\ out = <<>> => ShowsLine)

\* kbd_proc_data: no modifier is stuck.  When the codes of all keys are processed
\* and no modifier key is held, no modifier is on, and no escape is pending.
NoStuckModifier ==
    (kbd = <<>> /\ (\A k \in held : shiftcode(k) = {})) =>
        shift \cap {"SHIFT", "CTL", "ALT", "E0ESC"} = {}

\* cons_getc and getchar: whatever was typed, the kernel gets through it: in the
\* end no scan code and no character is left waiting.
InputDrains ==
    <>[](mode \in {"reboot", "off"}
         \/ (kbd = <<>> /\ rx = NoData /\ Content(cons) = <<>>))
=============================================================================
