----------------------------- MODULE ShellPipe -----------------------------
(***************************************************************************)
(* A pipeline of N commands in shell/exec.c.  parse_line nests to the      *)
(* right, so exec_cmd(PIPE) runs once for each of the N - 1 pipes: manager *)
(* k makes pipe k, forks command k on its left, and on its right manager   *)
(* k + 1 or the last command; then it waits for both.                      *)
(*                                                                         *)
(* The commands are cat-like: the first writes Items numbers, the others   *)
(* copy their input; any of them may stop early, as head does.             *)
(***************************************************************************)
EXTENDS Integers, Sequences, FiniteSets

CONSTANTS
    N,              \* commands of the pipeline
    Cap,            \* numbers that fit in a pipe
    Items,          \* numbers that the first command writes
    ForkFails,      \* whether pipe and fork may fail
    Redirections    \* whether commands may carry < and >

ASSUME PipeAssumption ==
    /\ N \in Nat /\ N >= 2
    /\ Cap \in Nat \ {0}
    /\ Items \in Nat
    /\ ForkFails \in BOOLEAN /\ Redirections \in BOOLEAN

Pipes == 1..(N - 1)
Commands == 1..N
Mgr(k) == <<"mgr", k>>
Cmd(k) == <<"cmd", k>>
Procs == {Mgr(k) : k \in Pipes} \cup {Cmd(k) : k \in Commands}

LeftChild(k) == Cmd(k)

RightChild(k) == IF k + 1 = N THEN Cmd(N) ELSE Mgr(k + 1)

\* The ends of pipe k.
R(k) == <<k, "r">>
W(k) == <<k, "w">>
Ends == {R(k) : k \in Pipes} \cup {W(k) : k \in Pipes}

None == 0

VARIABLES
    pc,             \* where each process is
    fds,            \* the pipe ends that each process has open
    buf,            \* what is in each pipe
    sent,           \* how much the first command has written
    held,           \* what each command has read and not yet written
    out,            \* what came out of the last command
    cut             \* commands that ended early or were redirected

vars == <<pc, fds, buf, sent, held, out, cut>>
dataVars == <<buf, sent, held, out, cut>>

Init ==
    /\ pc = [q \in Procs |-> IF q = Mgr(1) THEN "pipe" ELSE "none"]
    /\ fds = [q \in Procs |-> {}]
    /\ buf = [k \in Pipes |-> <<>>]
    /\ sent = 0
    /\ held = [k \in Commands |-> None]
    /\ out = <<>>
    /\ cut = {}

-----------------------------------------------------------------------------

\* exit, or death by a signal: the kernel closes what was open.
ExitAs(q, how) ==
    /\ pc' = [pc EXCEPT ![q] = how]
    /\ fds' = [fds EXCEPT ![q] = {}]

Exit(q) == ExitAs(q, "gone")

\* The manager's exit(-1), when pipe or fork returned an error.
Fail(k) == ForkFails /\ ExitAs(Mgr(k), "failed")

Ended(q) == pc[q] \in {"gone", "failed"}

Goto(q, label) == pc' = [pc EXCEPT ![q] = label]

-----------------------------------------------------------------------------
(* exec_cmd, case PIPE: the manager of pipe k.                             *)

MakePipe(k) ==
    /\ pc[Mgr(k)] = "pipe"
    /\ \/ /\ Goto(Mgr(k), "fork_l")
          /\ fds' = [fds EXCEPT ![Mgr(k)] = @ \cup {R(k), W(k)}]
       \/ Fail(k)
    /\ UNCHANGED dataVars

\* fork: the child begins with all that its parent has open.  When it fails
\* the manager exits.
Fork(k, from, child, to) ==
    /\ pc[Mgr(k)] = from
    /\ \/ /\ pc' = [pc EXCEPT ![Mgr(k)] = to, ![child] = "forked"]
          /\ fds' = [fds EXCEPT ![child] = fds[Mgr(k)]]
       \/ Fail(k)
    /\ UNCHANGED dataVars

ForkLeft(k) == Fork(k, "fork_l", LeftChild(k), "fork_r")
ForkRight(k) == Fork(k, "fork_r", RightChild(k), "close")

\* Mutation of CloseEnds: the write end stays open in the manager.
CloseEndsMut(k) ==
    /\ pc[Mgr(k)] = "close"
    /\ Goto(Mgr(k), "wait_l")
    /\ fds' = [fds EXCEPT ![Mgr(k)] = @ \ {R(k)}]
    /\ UNCHANGED dataVars

\* The manager keeps its own standard input, the read end of pipe k - 1.
CloseEnds(k) ==
    /\ pc[Mgr(k)] = "close"
    /\ Goto(Mgr(k), "wait_l")
    /\ fds' = [fds EXCEPT ![Mgr(k)] = @ \ {R(k), W(k)}]
    /\ UNCHANGED dataVars

\* Mutation of WaitLeft: only the right child is waited for.
WaitLeftMut(k) ==
    /\ pc[Mgr(k)] = "wait_l"
    /\ Goto(Mgr(k), "wait_r")
    /\ UNCHANGED <<fds, dataVars>>

WaitLeft(k) ==
    /\ pc[Mgr(k)] = "wait_l"
    /\ Ended(LeftChild(k))
    /\ Goto(Mgr(k), "wait_r")
    /\ UNCHANGED <<fds, dataVars>>

\* waitpid for the right child, free_command, exit(0).
WaitRight(k) ==
    /\ pc[Mgr(k)] = "wait_r"
    /\ Ended(RightChild(k))
    /\ Exit(Mgr(k))
    /\ UNCHANGED dataVars

-----------------------------------------------------------------------------
(* The children, between fork and exec_cmd.                                *)

\* Mutation of LeftStart: without dup2, standard output is still the terminal.
LeftStartMut(k) ==
    /\ pc[LeftChild(k)] = "forked"
    /\ fds' = [fds EXCEPT ![LeftChild(k)] = @ \ {R(k), W(k)}]
    /\ Goto(LeftChild(k), "exec")
    /\ UNCHANGED dataVars

\* Standard output is the pipe; the read end is closed.
LeftStart(k) ==
    /\ pc[LeftChild(k)] = "forked"
    /\ fds' = [fds EXCEPT ![LeftChild(k)] = @ \ {R(k)}]
    /\ Goto(LeftChild(k), "exec")
    /\ UNCHANGED dataVars

\* Mutation of RightStart: dup2 is forgotten, and with it that the old
\* standard input is closed.
RightStartMut(k) ==
    /\ pc[RightChild(k)] = "forked"
    /\ fds' = [fds EXCEPT ![RightChild(k)] = @ \ {W(k)}]
    /\ Goto(RightChild(k), IF k + 1 = N THEN "exec" ELSE "pipe")
    /\ UNCHANGED dataVars

\* Standard input is the pipe: dup2 closes the one that was inherited, the
\* read end of pipe k - 1.  The write end is closed.
RightStart(k) ==
    /\ pc[RightChild(k)] = "forked"
    /\ fds' = [fds EXCEPT ![RightChild(k)] = {R(k)}]
    /\ Goto(RightChild(k), IF k + 1 = N THEN "exec" ELSE "pipe")
    /\ UNCHANGED dataVars

\* exec_cmd, cases REDIR and EXEC: a redirection takes the place of a pipe end.
\* A file that cannot be opened, or execvp failing, is an early exit.
Exec(c) ==
    /\ pc[Cmd(c)] = "exec"
    /\ \E files \in IF Redirections THEN SUBSET {R(c - 1), W(c)} ELSE {{}} :
          /\ fds' = [fds EXCEPT ![Cmd(c)] = @ \ files]
          /\ cut' = IF files = {} THEN cut ELSE cut \cup {c}
    /\ Goto(Cmd(c), "run")
    /\ UNCHANGED <<buf, sent, held, out>>

-----------------------------------------------------------------------------
(* The commands that run, and the pipes of the kernel.                     *)

Open(end) == \E q \in Procs : end \in fds[q]

\* The first command has more to write, and the others after a read.
ToWrite(c) == IF c = 1 THEN sent < Items ELSE held[c] # None
Value(c) == IF c = 1 THEN sent + 1 ELSE held[c]

\* What was written is no longer to be written.
Consume(c) ==
    /\ sent' = IF c = 1 THEN sent + 1 ELSE sent
    /\ held' = [held EXCEPT ![c] = None]

\* Into the pipe when there is room; without a reader, SIGPIPE.  What is not
\* sent into a pipe goes to a file, or to the terminal.
Write(c) ==
    /\ pc[Cmd(c)] = "run"
    /\ ToWrite(c)
    /\ \/ /\ W(c) \in fds[Cmd(c)]
          /\ Open(R(c))
          /\ Len(buf[c]) < Cap
          /\ buf' = [buf EXCEPT ![c] = Append(@, Value(c))]
          /\ Consume(c)
          /\ UNCHANGED <<pc, fds, out, cut>>
       \/ /\ W(c) \in fds[Cmd(c)]
          /\ ~Open(R(c))
          /\ Exit(Cmd(c))
          /\ cut' = cut \cup {c}
          /\ UNCHANGED <<buf, sent, held, out>>
       \/ /\ W(c) \notin fds[Cmd(c)]
          /\ Consume(c)
          /\ out' = IF c = N THEN Append(out, Value(c)) ELSE out
          /\ UNCHANGED <<pc, fds, buf, cut>>

\* From the pipe when there is something; at its end, with no writer left, or
\* from a file, the command is done.
Read(c) ==
    /\ pc[Cmd(c)] = "run"
    /\ ~ToWrite(c)
    /\ \/ /\ R(c - 1) \in fds[Cmd(c)]
          /\ buf[c - 1] # <<>>
          /\ held' = [held EXCEPT ![c] = Head(buf[c - 1])]
          /\ buf' = [buf EXCEPT ![c - 1] = Tail(@)]
          /\ UNCHANGED <<pc, fds>>
       \/ /\ R(c - 1) \in fds[Cmd(c)]
          /\ buf[c - 1] = <<>>
          /\ ~Open(W(c - 1))
          /\ Exit(Cmd(c))
          /\ UNCHANGED <<buf, held>>
       \/ /\ R(c - 1) \notin fds[Cmd(c)]
          /\ Exit(Cmd(c))
          /\ UNCHANGED <<buf, held>>
    /\ UNCHANGED <<sent, out, cut>>

StopEarly(c) ==
    /\ pc[Cmd(c)] \in {"exec", "run"}
    /\ Exit(Cmd(c))
    /\ cut' = cut \cup {c}
    /\ UNCHANGED <<buf, sent, held, out>>

-----------------------------------------------------------------------------

ManagerStep(k) == MakePipe(k) \/ ForkLeft(k) \/ ForkRight(k) \/ CloseEnds(k)
                  \/ WaitLeft(k) \/ WaitRight(k)

CommandStep(c) == Exec(c) \/ Write(c) \/ Read(c)

Next ==
    \/ \E k \in Pipes : ManagerStep(k) \/ LeftStart(k) \/ RightStart(k)
    \/ \E c \in Commands : CommandStep(c) \/ StopEarly(c)

Spec == Init /\ [][Next]_vars

\* Every process gets the CPU.
FairSpec ==
    /\ Spec
    /\ \A k \in Pipes : WF_vars(ManagerStep(k)) /\ WF_vars(LeftStart(k))
                        /\ WF_vars(RightStart(k))
    /\ \A c \in Commands : WF_vars(CommandStep(c))

-----------------------------------------------------------------------------

MgrPCs == {"none", "forked", "pipe", "fork_l", "fork_r", "close", "wait_l",
           "wait_r", "gone", "failed"}
CmdPCs == {"none", "forked", "exec", "run", "gone"}

\* A manager or a command is at one of its own steps.
TypeOK ==
    /\ pc \in [Procs -> MgrPCs \cup CmdPCs]
    /\ \A k \in Pipes : pc[Mgr(k)] \in MgrPCs
    /\ \A c \in Commands : pc[Cmd(c)] \in CmdPCs
    /\ fds \in [Procs -> SUBSET Ends]
    /\ buf \in [Pipes -> Seq(Nat)]
    /\ sent \in 0..Items
    /\ held \in [Commands -> Nat]
    /\ out \in Seq(Nat)
    /\ cut \subseteq Commands

\* No pipe end leaks into a command (tests/specs/pipes_do_not_leak_fds.yaml):
\* it has its standard input and its standard output, and no other.
NoLeakedEnds ==
    \A c \in Commands :
        pc[Cmd(c)] \in {"exec", "run"} => fds[Cmd(c)] \subseteq {R(c - 1), W(c)}

\* The processes that manager k starts, and the ones those start.
Below(k) == {Mgr(j) : j \in {i \in Pipes : i > k}}
            \cup {Cmd(j) : j \in {i \in Commands : i >= k}}

\* "shell properly waits for the left child", "... the right child"
\* (tests/specs/pipes_wait_*.yaml): when a manager is gone, so is everything
\* that was started below it, at any depth, unless a fork failed.
WaitsForAll ==
    \A k \in Pipes :
        pc[Mgr(k)] = "gone" /\ (\A j \in Pipes : pc[Mgr(j)] # "failed")
           => \A q \in Below(k) : Ended(q)

\* The last command reads the end of its input only when everything was
\* written, in order, unless some command gave up.
NothingLost ==
    /\ \A i \in DOMAIN out : out[i] = i
    /\ pc[Cmd(N)] = "gone" /\ cut = {} => Len(out) = Items

\* The pipeline ends: no process waits for ever for an end of file, for room
\* in a pipe, or for a child.
PipelineEnds == <>(\A q \in Procs : pc[q] = "none" \/ Ended(q))
=============================================================================
