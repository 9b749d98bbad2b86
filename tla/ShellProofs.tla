---------------------------- MODULE ShellProofs ----------------------------
(* Proofs about Shell, for any number of commands and any ways to end.     *)
EXTENDS Shell, TLAPS

\* Children that were forked and not yet reaped.
Unreaped(c) == proc[c] \notin {"none", "gone"}

\* p is the child of the last command, if it was forked.
LastChild == p # NoPid => p <= ncmds /\ job[p] = type /\ proc[p] # "none"

\* Pids beyond the last command are unused.
FreshPids == \A c \in Pids : c > ncmds => proc[c] = "none" /\ job[c] = "EXEC"

\* A child has left the shell's group once it runs, unless it is in the back.
Groups ==
    \A c \in Pids :
        proc[c] \in {"running", "zombie"} => (own_group[c] <=> job[c] # "BACK")

\* What the handler announced is gone, and was in the back.
NotifiedGone == \A c \in notified : proc[c] = "gone" /\ job[c] = "BACK"

\* A foreground child that is not reaped is the one that run_cmd waits for.
ForegroundAwaited ==
    \A c \in Pids :
        job[c] # "BACK" /\ Unreaped(c) => c = p /\ spc \in {"wait", "waiting"}

\* A zombie ended in one of the ways to end.
RawRecorded ==
    \A c \in Pids : proc[c] = "zombie" => raw[c] \in RawStatuses

NoBack == \A c \in Pids : job[c] # "BACK"

\* Without background commands status goes from the child to the prompt: the
\* wait takes it, print_status_info decodes it, and nothing overwrites it.
StatusFlow ==
    NoBack /\ p # NoPid =>
        /\ spc \in {"wait", "waiting"} => Unreaped(p)
        /\ spc = "print" => status = raw[p]
        /\ spc \in {"poll", "polling", "prompt", "exit"} /\ type = "EXEC"
              => status = Decoded(raw[p])

ShellInv ==
    /\ TypeOK
    /\ LastChild
    /\ FreshPids
    /\ Groups
    /\ NotifiedGone
    /\ RawRecorded
    /\ ForegroundAwaited
    /\ StatusFlow

-----------------------------------------------------------------------------

\* print_status_info leaves an exit code or minus a signal, of any wait status.
LEMMA DecodedRange == ASSUME NEW s \in Int PROVE Decoded(s) \in -255..255
  <1>1. WTERMSIG(s) \in 0..127
    BY DEF WTERMSIG
  <1>2. WEXITSTATUS(s) \in 0..255
    <2>1. s \div 256 \in Int
      OBVIOUS
    <2> QED BY <2>1 DEF WEXITSTATUS
  <1> QED BY <1>1, <1>2 DEF Decoded, WSTOPSIG

\* The state in which main enters run_cmd for the first time.
LEMMA ShellInit == Init => ShellInv
  <1> SUFFICES ASSUME Init PROVE ShellInv
    OBVIOUS
  <1>1. TypeOK
    <2>1. ncmds \in 0..MaxCmds /\ p \in Pids \cup {NoPid} /\ status \in -255..255
      BY ShellAssumption DEF Init
    <2>2. /\ proc \in [Pids -> {"none", "new", "running", "zombie", "gone"}]
          /\ job \in [Pids -> {"EXEC", "PIPE", "BACK"}]
          /\ own_group \in [Pids -> BOOLEAN]
          /\ raw \in [Pids -> Nat]
      BY DEF Init
    <2> QED BY <2>1, <2>2 DEF Init, TypeOK
  <1>2. LastChild /\ FreshPids /\ NotifiedGone /\ RawRecorded /\ StatusFlow
    BY DEF Init, RawRecorded, LastChild, FreshPids, NotifiedGone, StatusFlow, NoPid
  <1>3. Groups /\ ForegroundAwaited
    BY DEF Init, Groups, ForegroundAwaited, Unreaped
  <1> QED BY <1>1, <1>2, <1>3 DEF ShellInv

\* A child gets to its setpgid.
LEMMA ChildStartInv ==
    ASSUME ShellInv, NEW c \in Pids, ChildStart(c)
    PROVE  ShellInv'
  <1>1. TypeOK'
    BY DEF ShellInv, ChildStart, TypeOK
  <1>2. /\ proc[c] = "new" /\ proc'[c] = "running"
        /\ \A d \in Pids : d # c => proc'[d] = proc[d]
    BY DEF ShellInv, ChildStart, TypeOK
  <1>3. /\ LastChild' /\ FreshPids' /\ NotifiedGone' /\ ForegroundAwaited'
        /\ RawRecorded' /\ StatusFlow'
    BY <1>2 DEF ShellInv, ChildStart, TypeOK, LastChild, FreshPids,
                NotifiedGone, RawRecorded, ForegroundAwaited, StatusFlow, NoBack, Unreaped
  <1>4. Groups'
    <2>1. own_group'[c] = (job[c] # "BACK")
      BY DEF ShellInv, ChildStart, TypeOK
    <2>2. \A d \in Pids : d # c => own_group'[d] = own_group[d]
      BY DEF ShellInv, ChildStart, TypeOK
    <2>3. job' = job
      BY DEF ChildStart
    <2> QED BY <1>2, <2>1, <2>2, <2>3 DEF Groups, ShellInv
  <1> QED BY <1>1, <1>3, <1>4 DEF ShellInv

\* A child ends.
LEMMA ChildExitInv ==
    ASSUME ShellInv, NEW c \in Pids, ChildExit(c)
    PROVE  ShellInv'
  <1>1. PICK s \in RawStatuses : raw' = [raw EXCEPT ![c] = s]
    BY DEF ChildExit
  <1>2. s \in Nat
    BY ShellAssumption
  <1>3. /\ proc[c] = "running" /\ proc'[c] = "zombie"
        /\ raw'[c] = s
        /\ \A d \in Pids : d # c => proc'[d] = proc[d] /\ raw'[d] = raw[d]
        /\ UNCHANGED <<spc, p, type, ncmds, status, in_handler, job, own_group,
                       notified>>
    BY <1>1 DEF ShellInv, ChildExit, TypeOK
  <1>4. TypeOK'
    <2>1. /\ proc' \in [Pids -> {"none", "new", "running", "zombie", "gone"}]
          /\ sigchld' \in BOOLEAN
      BY DEF ShellInv, ChildExit, TypeOK
    <2>2. raw' \in [Pids -> Nat]
      BY <1>1, <1>2 DEF ShellInv, TypeOK
    <2> QED BY <1>3, <2>1, <2>2 DEF ShellInv, TypeOK
  <1>5. /\ LastChild' /\ FreshPids' /\ Groups' /\ NotifiedGone' /\ RawRecorded'
        /\ ForegroundAwaited'
    BY <1>3 DEF ShellInv, TypeOK, LastChild, FreshPids, Groups,
                NotifiedGone, RawRecorded, ForegroundAwaited, Unreaped
  <1>6. StatusFlow'
    BY <1>3 DEF ShellInv, TypeOK, LastChild, ForegroundAwaited, StatusFlow,
                NoBack, Unreaped
  <1> QED BY <1>4, <1>5, <1>6 DEF ShellInv

\* A step that only moves the shell's own control, among the places where status
\* and the awaited child are the same to the invariant.
LEMMA ControlInv ==
    ASSUME ShellInv,
           UNCHANGED <<p, type, ncmds, status, proc, job, own_group, raw, notified>>,
           in_handler' \in BOOLEAN, sigchld' \in BOOLEAN,
           \/ spc' = spc
           \/ spc = "wait" /\ spc' = "waiting"
           \/ spc = "poll" /\ spc' = "polling"
           \/ spc = "prompt" /\ spc' = "exit"
    PROVE  ShellInv'
  <1>1. TypeOK'
    BY DEF ShellInv, TypeOK
  <1>2. LastChild' /\ FreshPids' /\ NotifiedGone' /\ RawRecorded'
    BY DEF ShellInv, LastChild, FreshPids, NotifiedGone, RawRecorded
  <1>3. Groups'
    BY DEF ShellInv, Groups
  <1>4. ForegroundAwaited'
    BY DEF ShellInv, ForegroundAwaited, Unreaped
  <1>5. StatusFlow'
    BY DEF ShellInv, StatusFlow, NoBack, Unreaped
  <1> QED BY <1>1, <1>2, <1>3, <1>4, <1>5 DEF ShellInv

\* A child that is taken by waitpid: what holds of every way to reap, whoever
\* does it.
LEMMA ReapFacts ==
    ASSUME ShellInv, NEW c \in Zombies, Reap(c)
    PROVE  /\ c \in Pids
           /\ proc[c] = "zombie" /\ proc'[c] = "gone"
           /\ \A d \in Pids : d # c => proc'[d] = proc[d]
           /\ proc' \in [Pids -> {"none", "new", "running", "zombie", "gone"}]
           /\ status' = raw[c]
           /\ status' \in Nat
  BY DEF ShellInv, TypeOK, Reap, Zombies

\* A child ended with one of the ways to end.
LEMMA RawIsStatus ==
    ASSUME ShellInv, NEW c \in Zombies
    PROVE  raw[c] \in RawStatuses
  BY DEF ShellInv, RawRecorded, Zombies

\* The handler takes no foreground child, since that has left the group.
LEMMA HandlerInv ==
    ASSUME ShellInv, Handler
    PROVE  ShellInv'
  <1>1. UNCHANGED <<spc, p, type, ncmds, sigchld, job, own_group, raw>>
    BY DEF Handler, childVars
  <1>2. ASSUME NEW c \in InShellGroup, Reap(c), notified' = notified \cup {c},
               UNCHANGED in_handler
        PROVE  ShellInv'
    <2>1. c \in Zombies /\ ~own_group[c]
      BY <1>2 DEF InShellGroup
    <2>2. /\ c \in Pids
          /\ proc[c] = "zombie" /\ proc'[c] = "gone"
          /\ \A d \in Pids : d # c => proc'[d] = proc[d]
          /\ proc' \in [Pids -> {"none", "new", "running", "zombie", "gone"}]
          /\ status' = raw[c]
      BY <1>2, <2>1, ReapFacts
    <2>3. job[c] = "BACK"
      BY <2>1, <2>2 DEF ShellInv, Groups
    <2>4. TypeOK'
      BY <1>1, <1>2, <2>1, <2>2, RawIsStatus DEF ShellInv, TypeOK
    <2>5. /\ LastChild' /\ FreshPids' /\ Groups' /\ NotifiedGone'
          /\ ForegroundAwaited' /\ RawRecorded'
      BY <1>1, <1>2, <2>2, <2>3
      DEF ShellInv, TypeOK, LastChild, FreshPids, Groups, NotifiedGone,
          ForegroundAwaited, RawRecorded, Unreaped
    <2>6. StatusFlow'
      BY <1>1, <2>2, <2>3 DEF StatusFlow, NoBack
    <2> QED BY <2>4, <2>5, <2>6 DEF ShellInv
  <1>3. CASE in_handler' = FALSE /\ UNCHANGED <<proc, status, notified>>
    BY <1>1, <1>3, ControlInv DEF ShellInv, TypeOK
  <1> QED BY <1>2, <1>3 DEF Handler

\* A signal is delivered.
LEMMA DeliverInv ==
    ASSUME ShellInv, Deliver
    PROVE  ShellInv'
  BY ControlInv DEF Deliver, childVars

\* fork, at the prompt: no foreground child is left from before.
LEMMA ForkInv ==
    ASSUME ShellInv, NEW kind \in Kinds, Fork(kind)
    PROVE  ShellInv'
  <1> DEFINE c == ncmds + 1
  <1>1. /\ spc = "prompt" /\ ncmds < MaxCmds /\ ncmds' = c /\ type' = kind
        /\ spc' = IF kind = "BACK" THEN "poll" ELSE "wait"
        /\ UNCHANGED <<status, in_handler, sigchld, own_group, raw, notified>>
    BY DEF Fork, UserMode
  <1>2. ncmds \in 0..MaxCmds /\ MaxCmds \in Nat /\ c \in Pids /\ c # NoPid
    BY <1>1, ShellAssumption DEF ShellInv, TypeOK, Pids, NoPid
  <1>3. kind \in {"EXEC", "PIPE", "BACK"}
    BY ShellAssumption
  <1>4. proc[c] = "none" /\ job[c] = "EXEC"
    BY <1>2 DEF ShellInv, FreshPids
  <1>5. \A d \in Pids : job[d] # "BACK" => ~Unreaped(d)
    BY <1>1 DEF ShellInv, ForegroundAwaited
  <1>6. \A d \in Pids : d > c => d > ncmds
    BY <1>2 DEF Pids
  <1>7. CASE /\ p' = c
             /\ proc' = [proc EXCEPT ![c] = "new"]
             /\ job' = [job EXCEPT ![c] = kind]
    <2>1. /\ proc'[c] = "new" /\ job'[c] = kind
          /\ \A d \in Pids : d # c => proc'[d] = proc[d] /\ job'[d] = job[d]
      BY <1>2, <1>7 DEF ShellInv, TypeOK
    <2>2. TypeOK'
      BY <1>1, <1>2, <1>3, <1>7 DEF ShellInv, TypeOK
    <2>3. LastChild' /\ FreshPids'
      BY <1>1, <1>2, <1>6, <1>7, <2>1 DEF ShellInv, LastChild, FreshPids, Pids
    <2>4. Groups' /\ NotifiedGone' /\ RawRecorded'
      BY <1>1, <1>4, <2>1
      DEF ShellInv, TypeOK, Groups, NotifiedGone, RawRecorded
    <2>5. ForegroundAwaited'
      BY <1>1, <1>5, <1>7, <2>1 DEF ForegroundAwaited, Unreaped
    <2>6. StatusFlow'
      BY <1>1, <1>2, <1>7, <2>1 DEF StatusFlow, NoBack, Unreaped
    <2> QED BY <2>2, <2>3, <2>4, <2>5, <2>6 DEF ShellInv
  <1>8. CASE p' = NoPid /\ UNCHANGED <<proc, job>>
    <2>1. TypeOK'
      BY <1>1, <1>2, <1>3, <1>8 DEF ShellInv, TypeOK
    <2>2. LastChild' /\ FreshPids' /\ StatusFlow'
      BY <1>1, <1>2, <1>6, <1>8 DEF ShellInv, LastChild, FreshPids, StatusFlow
    <2>3. Groups' /\ NotifiedGone' /\ RawRecorded'
      BY <1>1, <1>8 DEF ShellInv, Groups, NotifiedGone, RawRecorded
    <2>4. ForegroundAwaited'
      BY <1>1, <1>5, <1>8 DEF ForegroundAwaited, Unreaped
    <2> QED BY <2>1, <2>2, <2>3, <2>4 DEF ShellInv
  <1> QED BY <1>7, <1>8 DEF Fork

\* waitpid in the foreground.  When it returns, the child of this command is
\* gone: it takes it, or it was taken before.
LEMMA WaitpidInv ==
    ASSUME ShellInv, Waitpid
    PROVE  ShellInv'
  <1>1. /\ spc = "waiting" /\ spc' = "print"
        /\ UNCHANGED <<p, type, ncmds, in_handler, sigchld, job, own_group, raw,
                       notified>>
    BY DEF Waitpid, childVars
  <1>2. ASSUME NEW c \in Awaited \cap Zombies, Reap(c) PROVE ShellInv'
    <2>1. /\ c \in Pids
          /\ proc[c] = "zombie" /\ proc'[c] = "gone"
          /\ \A d \in Pids : d # c => proc'[d] = proc[d]
          /\ proc' \in [Pids -> {"none", "new", "running", "zombie", "gone"}]
          /\ status' = raw[c]
      BY <1>2, ReapFacts
    <2>2. p # NoPid => c = p
      BY <1>2 DEF Awaited
    <2>3. TypeOK'
      BY <1>1, <1>2, <2>1, RawIsStatus DEF ShellInv, TypeOK
    <2>4. LastChild' /\ FreshPids' /\ Groups' /\ NotifiedGone' /\ RawRecorded'
      BY <1>1, <2>1 DEF ShellInv, TypeOK, LastChild, FreshPids, Groups,
                        NotifiedGone, RawRecorded
    <2>5. ForegroundAwaited'
      <3> SUFFICES ASSUME NEW d \in Pids, job[d] # "BACK", Unreaped(d)'
                   PROVE  FALSE
        BY <1>1 DEF ForegroundAwaited
      <3>1. d # c /\ Unreaped(d)
        BY <2>1 DEF Unreaped
      <3>2. d = p /\ d # NoPid
        BY <3>1, ShellAssumption DEF ShellInv, ForegroundAwaited, Pids, NoPid
      <3> QED BY <2>2, <3>1, <3>2
    <2>6. StatusFlow'
      BY <1>1, <2>1, <2>2 DEF StatusFlow
    <2> QED BY <2>3, <2>4, <2>5, <2>6 DEF ShellInv
  <1>3. CASE Awaited = {} /\ UNCHANGED <<proc, status>>
    <2>1. TypeOK'
      BY <1>1, <1>3 DEF ShellInv, TypeOK
    <2>2. LastChild' /\ FreshPids' /\ NotifiedGone' /\ RawRecorded'
      BY <1>1, <1>3 DEF ShellInv, LastChild, FreshPids, NotifiedGone, RawRecorded
    <2>3. Groups'
      BY <1>1, <1>3 DEF ShellInv, Groups
    <2>4. \A d \in Pids : job[d] # "BACK" => ~Unreaped(d)
      BY <1>3 DEF ShellInv, ForegroundAwaited, Awaited, Unreaped
    <2>5. ForegroundAwaited' /\ StatusFlow'
      BY <1>1, <1>3, <2>4
      DEF ShellInv, TypeOK, ForegroundAwaited, StatusFlow, NoBack, Unreaped
    <2> QED BY <2>1, <2>2, <2>3, <2>5 DEF ShellInv
  <1> QED BY <1>2, <1>3 DEF Waitpid

\* print_status_info.
LEMMA PrintStatusInfoInv ==
    ASSUME ShellInv, PrintStatusInfo
    PROVE  ShellInv'
  <1>1. /\ spc = "print" /\ spc' = "poll"
        /\ status' = IF type = "PIPE" THEN status ELSE Decoded(status)
        /\ UNCHANGED <<p, type, ncmds, in_handler, sigchld, proc, job, own_group,
                       raw, notified>>
    BY DEF PrintStatusInfo, UserMode, childVars
  <1>2. TypeOK'
    <2>1. status \in Int
      BY ShellAssumption DEF ShellInv, TypeOK
    <2>2. Decoded(status) \in -255..255
      BY <2>1, DecodedRange
    <2>3. status' \in -255..255 \cup RawStatuses
      BY <1>1, <2>2 DEF ShellInv, TypeOK
    <2> QED BY <1>1, <2>3 DEF ShellInv, TypeOK
  <1>3. LastChild' /\ FreshPids' /\ NotifiedGone' /\ RawRecorded'
    BY <1>1 DEF ShellInv, LastChild, FreshPids, NotifiedGone, RawRecorded
  <1>4. Groups'
    BY <1>1 DEF ShellInv, Groups
  <1>5. ForegroundAwaited'
    BY <1>1 DEF ShellInv, ForegroundAwaited, Unreaped
  <1>6. StatusFlow'
    BY <1>1 DEF ShellInv, StatusFlow, NoBack
  <1> QED BY <1>2, <1>3, <1>4, <1>5, <1>6 DEF ShellInv

\* The poll behind every command takes children of any kind, but there is no
\* foreground child to take, and without background commands none at all.
LEMMA PollInv ==
    ASSUME ShellInv, Poll
    PROVE  ShellInv'
  <1>1. /\ spc = "polling" /\ spc' = "prompt"
        /\ UNCHANGED <<p, type, ncmds, in_handler, sigchld, job, own_group, raw,
                       notified>>
    BY DEF Poll, childVars
  <1>2. ASSUME NEW c \in Zombies, Reap(c) PROVE ShellInv'
    <2>1. /\ c \in Pids
          /\ proc[c] = "zombie" /\ proc'[c] = "gone"
          /\ \A d \in Pids : d # c => proc'[d] = proc[d]
          /\ proc' \in [Pids -> {"none", "new", "running", "zombie", "gone"}]
          /\ status' = raw[c]
      BY <1>2, ReapFacts
    <2>2. job[c] = "BACK"
      BY <1>1, <2>1 DEF ShellInv, ForegroundAwaited, Unreaped
    <2>3. TypeOK'
      BY <1>1, <1>2, <2>1, RawIsStatus DEF ShellInv, TypeOK
    <2>4. LastChild' /\ FreshPids' /\ Groups' /\ NotifiedGone' /\ RawRecorded'
      BY <1>1, <2>1 DEF ShellInv, TypeOK, LastChild, FreshPids, Groups,
                        NotifiedGone, RawRecorded
    <2>5. ForegroundAwaited'
      BY <1>1, <2>1 DEF ShellInv, ForegroundAwaited, Unreaped
    <2>6. StatusFlow'
      BY <1>1, <2>1, <2>2 DEF StatusFlow, NoBack
    <2> QED BY <2>3, <2>4, <2>5, <2>6 DEF ShellInv
  <1>3. CASE UNCHANGED <<proc, status>>
    <2>1. TypeOK'
      BY <1>1, <1>3 DEF ShellInv, TypeOK
    <2>2. LastChild' /\ FreshPids' /\ NotifiedGone' /\ RawRecorded'
      BY <1>1, <1>3 DEF ShellInv, LastChild, FreshPids, NotifiedGone, RawRecorded
    <2>3. Groups'
      BY <1>1, <1>3 DEF ShellInv, Groups
    <2>4. ForegroundAwaited'
      BY <1>1, <1>3 DEF ShellInv, ForegroundAwaited, Unreaped
    <2>5. StatusFlow'
      BY <1>1, <1>3 DEF ShellInv, StatusFlow, NoBack
    <2> QED BY <2>1, <2>2, <2>3, <2>4, <2>5 DEF ShellInv
  <1> QED BY <1>2, <1>3 DEF Poll

\* Every step of the shell and of its children keeps the invariant.
LEMMA ShellStepInv == ShellInv /\ [Next]_vars => ShellInv'
  <1> SUFFICES ASSUME ShellInv, [Next]_vars PROVE ShellInv'
    OBVIOUS
  <1>1. CASE UNCHANGED vars
    BY <1>1, ControlInv DEF vars, ShellInv, TypeOK
  <1>2. CASE EnterWait \/ EnterPoll \/ ExitShell
    BY <1>2, ControlInv DEF EnterWait, EnterPoll, ExitShell, Enter, UserMode,
                            childVars, ShellInv, TypeOK
  <1>3. ASSUME NEW kind \in Kinds, Fork(kind) PROVE ShellInv'
    BY <1>3, ForkInv
  <1>4. ASSUME NEW c \in Pids, ChildStart(c) \/ ChildExit(c) PROVE ShellInv'
    BY <1>4, ChildStartInv, ChildExitInv
  <1> QED BY <1>1, <1>2, <1>3, <1>4, DeliverInv, HandlerInv, WaitpidInv,
             PrintStatusInfoInv, PollInv
      DEF Next, ShellStep

\* The bookkeeping of run_cmd and sigchld_handler, for any number of commands,
\* with forks that fail and with signals at any time.
THEOREM ShellSafe == Spec => []ShellInv
  <1> QED BY ShellInit, ShellStepInv, PTL DEF Spec

\* The prompt comes back only when the foreground command is reaped.
THEOREM PromptAfterForeground == Spec => []ForegroundDone
  <1>1. ShellInv => ForegroundDone
    BY DEF ShellInv, TypeOK, ForegroundAwaited, ForegroundDone, Unreaped
  <1> QED BY <1>1, ShellSafe, PTL

\* The SIGCHLD handler never takes the child that run_cmd waits for.
THEOREM HandlerLeavesForeground == Spec => []HandlerSparesForeground
  <1>1. ShellInv => HandlerSparesForeground
    BY DEF ShellInv, NotifiedGone, HandlerSparesForeground
  <1> QED BY <1>1, ShellSafe, PTL

\* Without background commands $? is how the last simple command ended, even
\* when forks failed in between.
THEOREM StatusIsOfLast == Spec => []StatusWithoutBack
  <1>1. ShellInv => StatusWithoutBack
    BY DEF ShellInv, StatusFlow, NoBack, StatusWithoutBack, StatusOfLast
  <1> QED BY <1>1, ShellSafe, PTL
=============================================================================
