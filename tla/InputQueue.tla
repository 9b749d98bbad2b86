------------------------------ MODULE InputQueue ------------------------------
(***************************************************************************)
(* What the console's input buffer promises: characters come out in the    *)
(* order they went in, each once.  Input is lost in one case only: when    *)
(* the buffer is full, one more character empties it.                      *)
(***************************************************************************)
EXTENDS Naturals, Sequences

CONSTANTS Char, Size, NoChar

VARIABLES
    q,     \* characters waiting
    got    \* what the last read returned

vars == <<q, got>>

Init == q = <<>> /\ got = NoChar

Put(c) ==
    /\ q' = IF Len(q) = Size - 1 THEN <<>> ELSE Append(q, c)
    /\ UNCHANGED got

Get ==
    /\ IF q = <<>> THEN got' = NoChar /\ UNCHANGED q
                   ELSE got' = Head(q) /\ q' = Tail(q)

\* The reader is done with the character.
Used == got' = NoChar /\ UNCHANGED q

Next == (\E c \in Char : Put(c)) \/ Get \/ Used

Spec == Init /\ [][Next]_vars
=============================================================================
