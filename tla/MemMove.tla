------------------------------- MODULE MemMove -------------------------------
(***************************************************************************)
(* memmove of lib/string.c (memcpy is the same routine): the choice of the *)
(* direction, and the string instruction it picks, one iteration of which  *)
(* is a step.  fork copies pages with it and the console moves the screen, *)
(* where the two areas overlap.                                            *)
(***************************************************************************)
EXTENDS Integers

CONSTANTS
    MEMSIZE,   \* bytes of memory
    WORD       \* bytes that movsl moves: 4 in the code

ASSUME MemMoveAssumption == MEMSIZE \in Nat /\ WORD \in Nat \ {0}

Address == 0..(MEMSIZE - 1)

VARIABLES
    mem,    \* which byte of the initial memory is where
    call,   \* the arguments [dst, src, n]
    rep     \* [on, s, d, count, unit, step]: the instruction, its registers

mvVars == <<mem, call, rep>>

Idle == [on |-> FALSE, s |-> 0, d |-> 0, count |-> 0, unit |-> 1, step |-> 1]

MvIdle ==
    /\ mem = [a \in Address |-> a]
    /\ call = [dst |-> 0, src |-> 0, n |-> 0]
    /\ rep = Idle

Aligned(s, d, n) == s % WORD = 0 /\ d % WORD = 0 /\ n % WORD = 0

Overlaps(c) == c.src < c.dst /\ c.src + c.n > c.dst

\* A bug for the runs: an overlap from below is not seen.
memmoveForward(c) ==
    LET unit == IF Aligned(c.src, c.dst, c.n) THEN WORD ELSE 1
    IN  [on |-> TRUE, s |-> c.src, d |-> c.dst, count |-> c.n \div unit,
         unit |-> unit, step |-> unit]

\* From the end downwards when the source overlaps what lies above it.
memmove(c) ==
    LET unit == IF Aligned(c.src, c.dst, c.n) THEN WORD ELSE 1
        backUnit == IF Aligned(c.src + c.n, c.dst + c.n, c.n) THEN WORD ELSE 1
    IN  IF Overlaps(c)
        THEN [on |-> TRUE, s |-> c.src + c.n - backUnit,
              d |-> c.dst + c.n - backUnit, count |-> c.n \div backUnit,
              unit |-> backUnit, step |-> -backUnit]
        ELSE [on |-> TRUE, s |-> c.src, d |-> c.dst, count |-> c.n \div unit,
              unit |-> unit, step |-> unit]

MvInit ==
    /\ mem = [a \in Address |-> a]
    /\ call \in [dst : Address, src : Address, n : 0..MEMSIZE]
    /\ call.dst + call.n <= MEMSIZE /\ call.src + call.n <= MEMSIZE
    /\ rep = memmove(call)

\* movsl, movsb
Movs ==
    /\ rep.on /\ rep.count > 0
    /\ mem' = [a \in Address |->
                 IF a \in rep.d..(rep.d + rep.unit - 1)
                 THEN mem[a - rep.d + rep.s] ELSE mem[a]]
    /\ rep' = [rep EXCEPT !.s = @ + rep.step, !.d = @ + rep.step,
                          !.count = @ - 1]
    /\ UNCHANGED call

MvNext == Movs

\* memmove: in the end the destination holds what the source held at the start,
\* however they overlap and whichever instruction did it, and nothing else has
\* changed.
CopyIsExact ==
    (rep.on /\ rep.count = 0) =>
        mem = [a \in Address |->
                 IF a \in call.dst..(call.dst + call.n - 1)
                 THEN a - call.dst + call.src ELSE a]
=============================================================================
