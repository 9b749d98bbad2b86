---------------------------- MODULE PrivateMemory ----------------------------
(***************************************************************************)
(* What fork promises: every environment has a memory of its own.  A child *)
(* starts with a copy of its parent's pages; nothing that one of them      *)
(* writes later is seen by the other.                                      *)
(*                                                                         *)
(* The copy is made page by page while the parent is inside fork, where    *)
(* the only page it still writes is its stack.                             *)
(***************************************************************************)
CONSTANTS Env, UserVa, Stack, Value, Absent

VARIABLES
    state,    \* "free", "embryo" (made and not started) or "live"
    parent,   \* of an embryo
    memory    \* what each environment reads at each address

vars == <<state, parent, memory>>

Nothing == [va \in UserVa |-> Absent]

Init ==
    \E e \in Env :
        /\ state = [x \in Env |-> IF x = e THEN "live" ELSE "free"]
        /\ parent = [x \in Env |-> Absent]
        /\ memory \in [Env -> [UserVa -> Value \cup {Absent}]]
        /\ \A va \in UserVa : memory[e][va] # Absent
        /\ \A x \in Env \ {e} : memory[x] = Nothing

InFork(e) == \E c \in Env : state[c] = "embryo" /\ parent[c] = e

\* A store changes one page of one environment.
Write(e, va, x) ==
    /\ state[e] = "live"
    /\ InFork(e) => va = Stack
    /\ memory' = [memory EXCEPT ![e][va] = x]
    /\ UNCHANGED <<state, parent>>

NewChild(e, c) ==
    /\ state[e] = "live" /\ state[c] = "free"
    /\ ~InFork(e)
    /\ state' = [state EXCEPT ![c] = "embryo"]
    /\ parent' = [parent EXCEPT ![c] = e]
    /\ UNCHANGED memory

CopyPage(e, c, va) ==
    /\ state[c] = "embryo" /\ parent[c] = e
    /\ memory[c][va] = Absent
    /\ memory' = [memory EXCEPT ![c][va] = memory[e][va]]
    /\ UNCHANGED <<state, parent>>

\* The child starts when it has everything.
Start(c) ==
    /\ state[c] = "embryo"
    /\ \A va \in UserVa : memory[c][va] # Absent
    /\ state' = [state EXCEPT ![c] = "live"]
    /\ parent' = [parent EXCEPT ![c] = Absent]
    /\ UNCHANGED memory

Gone(e) ==
    /\ state' = [state EXCEPT ![e] = "free"]
    /\ parent' = [x \in Env |-> IF x = e \/ parent[x] = e THEN Absent
                                                         ELSE parent[x]]
    /\ memory' = [memory EXCEPT ![e] = Nothing]

Exit(e) == state[e] = "live" /\ ~InFork(e) /\ Gone(e)

\* The end of an embryo that could not be completed, or of its parent, which
\* leaves the embryo behind.
Abandon(e) == \/ state[e] = "embryo" /\ Gone(e)
              \/ state[e] = "live" /\ InFork(e) /\ Gone(e)

Next ==
    \E e \in Env :
        \/ \E va \in UserVa, x \in Value : Write(e, va, x)
        \/ \E c \in Env : NewChild(e, c)
        \/ \E c \in Env, va \in UserVa : CopyPage(e, c, va)
        \/ Start(e) \/ Exit(e) \/ Abandon(e)

Spec == Init /\ [][Next]_vars
=============================================================================
