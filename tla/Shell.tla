------------------------------- MODULE Shell -------------------------------
(***************************************************************************)
(* Job control of shell/: run_cmd (runcmd.c), the SIGCHLD handler (sh.c),  *)
(* print_status_info (printstatus.c), and the processes they fork and wait *)
(* for.  What a pipeline does inside is in ShellPipe.                      *)
(*                                                                         *)
(* A system call that waits has two steps, into the kernel and the scan of *)
(* the children: a child may end in between.  A signal is delivered before *)
(* the next step in user mode.  The handler runs on top of the shell's own *)
(* control, which stays where it is; SIGCHLD is blocked meanwhile.         *)
(***************************************************************************)
EXTENDS Integers, FiniteSets

CONSTANTS
    MaxCmds,        \* commands that are typed
    Kinds,          \* kinds of commands: EXEC (or REDIR), PIPE, BACK
    RawStatuses,    \* ways to end, as waitpid encodes them
    ForkFails       \* whether fork may fail

ASSUME ShellAssumption ==
    /\ MaxCmds \in Nat \ {0}
    /\ Kinds \subseteq {"EXEC", "PIPE", "BACK"}
    /\ RawStatuses \subseteq Nat
    /\ ForkFails \in BOOLEAN

Pids == 1..MaxCmds
NoPid == 0          \* fork returned -1

VARIABLES
    spc,            \* where the shell is in run_cmd
    p,              \* its local p: what fork returned
    type,           \* parsed->type
    ncmds,          \* commands typed so far
    status,         \* the global
    in_handler, sigchld,    \* handler running, signal pending
    proc,           \* "none", "new", "running", "zombie" or "gone"
    job,            \* the kind of each child
    own_group,      \* has called setpgid
    raw,            \* how each child ended
    notified        \* children whose end was announced

vars == <<spc, p, type, ncmds, status, in_handler, sigchld, proc, job,
          own_group, raw, notified>>
childVars == <<job, own_group, raw>>

Init ==
    /\ spc = "prompt"
    /\ p = NoPid
    /\ type = "EXEC"
    /\ ncmds = 0
    /\ status = 0
    /\ in_handler = FALSE
    /\ sigchld = FALSE
    /\ proc = [c \in Pids |-> "none"]
    /\ job = [c \in Pids |-> "EXEC"]
    /\ own_group = [c \in Pids |-> FALSE]
    /\ raw = [c \in Pids |-> 0]
    /\ notified = {}

-----------------------------------------------------------------------------
(* The wait status: an exit code in the second byte, or a signal.          *)

WEXITSTATUS(s) == (s \div 256) % 256
WTERMSIG(s) == s % 128
WIFEXITED(s) == WTERMSIG(s) = 0
WIFSIGNALED(s) == WTERMSIG(s) \in 1..126
WSTOPSIG(s) == WEXITSTATUS(s)

\* What print_status_info leaves in status.
Decoded(s) ==
    IF WIFEXITED(s) THEN WEXITSTATUS(s)
    ELSE IF WIFSIGNALED(s) THEN -WTERMSIG(s)
    ELSE -WSTOPSIG(s)

-----------------------------------------------------------------------------
(* Children.                                                               *)

Zombies == {c \in Pids : proc[c] = "zombie"}
Alive == {c \in Pids : proc[c] \in {"new", "running"}}

\* Mutation of ChildStart: every child stays in the shell's process group.
ChildStartMut(c) ==
    /\ proc[c] = "new"
    /\ proc' = [proc EXCEPT ![c] = "running"]
    /\ UNCHANGED <<spc, p, type, ncmds, status, in_handler, sigchld, childVars,
                   notified>>

\* The child leaves the shell's process group, unless it goes to the back.
ChildStart(c) ==
    /\ proc[c] = "new"
    /\ proc' = [proc EXCEPT ![c] = "running"]
    /\ own_group' = [own_group EXCEPT ![c] = job[c] # "BACK"]
    /\ UNCHANGED <<spc, p, type, ncmds, status, in_handler, sigchld, job, raw,
                   notified>>

\* How waitpid encodes exit(-1).
ExitMinusOne == 255 * 256

\* The child ends: a zombie, and SIGCHLD for the shell.  exec_cmd of a PIPE
\* ends with exit(0), or with exit(-1) when it could not fork.
ChildExit(c) ==
    /\ proc[c] = "running"
    /\ \E s \in RawStatuses :
          /\ job[c] = "PIPE" => s \in {0} \cup (IF ForkFails THEN {ExitMinusOne} ELSE {})
          /\ raw' = [raw EXCEPT ![c] = s]
    /\ proc' = [proc EXCEPT ![c] = "zombie"]
    /\ sigchld' = TRUE
    /\ UNCHANGED <<spc, p, type, ncmds, status, in_handler, job, own_group,
                   notified>>

\* waitpid takes zombie c and stores how it ended.
Reap(c) ==
    /\ proc' = [proc EXCEPT ![c] = "gone"]
    /\ status' = raw[c]

-----------------------------------------------------------------------------
(* sigchld_handler                                                         *)

\* On the way back to user mode, or in a wait that blocks.
Deliver ==
    /\ sigchld
    /\ ~in_handler
    /\ spc \notin {"exit", "polling"}
    /\ in_handler' = TRUE
    /\ sigchld' = FALSE
    /\ UNCHANGED <<spc, p, type, ncmds, status, proc, childVars, notified>>

\* The children that waitpid(0, ...) may take.
InShellGroup == {c \in Zombies : ~own_group[c]}

\* Mutation of Handler: one child per signal.
HandlerMut ==
    /\ in_handler
    /\ \/ \E c \in InShellGroup :
             /\ Reap(c)
             /\ notified' = notified \cup {c}
             /\ in_handler' = FALSE
       \/ /\ InShellGroup = {}
          /\ in_handler' = FALSE
          /\ UNCHANGED <<proc, status, notified>>
    /\ UNCHANGED <<spc, p, type, ncmds, sigchld, childVars>>

\* One round of its loop: take a child and announce it, or return.
Handler ==
    /\ in_handler
    /\ \/ \E c \in InShellGroup :
             /\ Reap(c)
             /\ notified' = notified \cup {c}
             /\ UNCHANGED in_handler
       \/ /\ InShellGroup = {}
          /\ in_handler' = FALSE
          /\ UNCHANGED <<proc, status, notified>>
    /\ UNCHANGED <<spc, p, type, ncmds, sigchld, childVars>>

-----------------------------------------------------------------------------
(* run_cmd                                                                 *)

\* The shell executes an instruction of its own.
UserMode(label) == spc = label /\ ~in_handler /\ ~sigchld

\* A line is read and parsed, and fork returns.
Fork(kind) ==
    /\ UserMode("prompt")
    /\ ncmds < MaxCmds
    /\ ncmds' = ncmds + 1
    /\ type' = kind
    /\ \/ LET c == ncmds + 1
          IN /\ p' = c
             /\ proc' = [proc EXCEPT ![c] = "new"]
             /\ job' = [job EXCEPT ![c] = kind]
       \/ /\ ForkFails
          /\ p' = NoPid
          /\ UNCHANGED <<proc, job>>
    /\ spc' = IF kind = "BACK" THEN "poll" ELSE "wait"
    /\ UNCHANGED <<status, in_handler, sigchld, own_group, raw, notified>>

\* A system call begins.
Enter(from, to) ==
    /\ UserMode(from)
    /\ spc' = to
    /\ UNCHANGED <<p, type, ncmds, status, in_handler, sigchld, proc, childVars,
                   notified>>

EnterWait == Enter("wait", "waiting")

\* The children that waitpid(p, ...) waits for: with p = -1, any.
Awaited == IF p = NoPid THEN {c \in Pids : proc[c] \notin {"none", "gone"}}
           ELSE {c \in Pids : c = p /\ proc[c] # "gone"}

\* Mutation of Waitpid: it does not block.
WaitpidMut ==
    /\ spc = "waiting"
    /\ ~in_handler
    /\ \/ \E c \in Awaited \cap Zombies : Reap(c)
       \/ Awaited \cap Zombies = {} /\ UNCHANGED <<proc, status>>
    /\ spc' = "print"
    /\ UNCHANGED <<p, type, ncmds, in_handler, sigchld, childVars, notified>>

\* waitpid(p, &status, 0) returns with a child, or with ECHILD.  When the
\* handler has run it starts again (SA_RESTART).
Waitpid ==
    /\ spc = "waiting"
    /\ ~in_handler
    /\ \/ \E c \in Awaited \cap Zombies : Reap(c)
       \/ Awaited = {} /\ UNCHANGED <<proc, status>>
    /\ spc' = "print"
    /\ UNCHANGED <<p, type, ncmds, in_handler, sigchld, childVars, notified>>

\* Mutation of PrintStatusInfo: status is left encoded.
PrintStatusInfoMut ==
    /\ UserMode("print")
    /\ spc' = "poll"
    /\ UNCHANGED <<p, type, ncmds, status, in_handler, sigchld, proc, childVars,
                   notified>>

\* print_status_info decodes status where it is, but for pipes.
PrintStatusInfo ==
    /\ UserMode("print")
    /\ status' = IF type = "PIPE" THEN status ELSE Decoded(status)
    /\ spc' = "poll"
    /\ UNCHANGED <<p, type, ncmds, in_handler, sigchld, proc, childVars, notified>>

EnterPoll == Enter("poll", "polling")

\* waitpid(WAIT_ANY, &status, WNOHANG)
Poll ==
    /\ spc = "polling"
    /\ \/ \E c \in Zombies : Reap(c)
       \/ Zombies = {} /\ UNCHANGED <<proc, status>>
    /\ spc' = "prompt"
    /\ UNCHANGED <<p, type, ncmds, in_handler, sigchld, childVars, notified>>

\* exit, or the end of the input.
ExitShell == Enter("prompt", "exit")

ShellStep == Deliver \/ Handler \/ EnterWait \/ Waitpid \/ PrintStatusInfo
             \/ EnterPoll \/ Poll

Next ==
    \/ ShellStep
    \/ \E kind \in Kinds : Fork(kind)
    \/ ExitShell
    \/ \E c \in Pids : ChildStart(c) \/ ChildExit(c)

Spec == Init /\ [][Next]_vars

\* The shell runs, and a child that has started gets to its setpgid; nothing
\* is assumed of how long commands run, nor of what is typed.
FairSpec ==
    /\ Spec
    /\ WF_vars(ShellStep)
    /\ \A c \in Pids : WF_vars(ChildStart(c))

-----------------------------------------------------------------------------

\* Only pids are stored and announced; status is an encoded wait status, an
\* exit code, or minus a signal.
TypeOK ==
    /\ spc \in {"prompt", "wait", "waiting", "print", "poll", "polling", "exit"}
    /\ p \in Pids \cup {NoPid}
    /\ type \in {"EXEC", "PIPE", "BACK"}
    /\ ncmds \in 0..MaxCmds
    /\ status \in -255..255 \cup RawStatuses
    /\ in_handler \in BOOLEAN /\ sigchld \in BOOLEAN
    /\ proc \in [Pids -> {"none", "new", "running", "zombie", "gone"}]
    /\ job \in [Pids -> {"EXEC", "PIPE", "BACK"}]
    /\ own_group \in [Pids -> BOOLEAN]
    /\ raw \in [Pids -> Nat]
    /\ notified \subseteq Pids

\* At the prompt no foreground command is left behind, running or not reaped,
\* whatever the handler did meanwhile.
ForegroundDone ==
    spc = "prompt" =>
        \A c \in Pids : job[c] # "BACK" => proc[c] \in {"none", "gone"}

\* The foreground child is waited for by run_cmd: its group keeps the handler
\* away from it ("para evitar que el manejador se active innecesariamente").
HandlerSparesForeground == \A c \in notified : job[c] = "BACK"

\* $? "almacena el valor de retorno del ultimo proceso ejecutado" (shell.md):
\* at the prompt status is how the last foreground command ended.
StatusOfLast ==
    spc = "prompt" /\ ncmds > 0 /\ p # NoPid /\ type # "BACK"
        => status = Decoded(raw[p])

\* As long as no command went to the back it is so, for a simple command.
StatusWithoutBack ==
    type = "EXEC" /\ (\A c \in Pids : job[c] # "BACK") => StatusOfLast

\* What expand_environ_var makes of $?: one byte.
DollarQuestion == (status + 48) % 256

\* "magic variable $? works properly" (env_magic_variable.yaml): $? expands to
\* the numeral of status; a numeral of one byte is a digit.
DollarIsNumeral == spc = "prompt" => DollarQuestion \in 48..57

\* The handler "se encarga de notificar cuando un proceso hijo ha finalizado"
\* (shell.md): a background command that is gone was announced.
BackgroundNotified ==
    \A c \in Pids : proc[c] = "gone" /\ job[c] = "BACK" => c \in notified

\* No zombie is left for ever: a child that has ended is reaped, unless the
\* shell ends first.
ZombiesReaped ==
    \A c \in Pids : proc[c] = "zombie" ~> (proc[c] = "gone" \/ spc = "exit")
=============================================================================
