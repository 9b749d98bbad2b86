-------------------------- MODULE ShellPipeProofs --------------------------
(* Proofs about ShellPipe, for pipelines of any length, pipes of any size  *)
(* and any amount of data.                                                 *)
EXTENDS ShellPipe, TLAPS

-----------------------------------------------------------------------------
(* The processes: who has been forked, and who has been waited for.        *)

\* A manager forks its left child and then its right one, and waits for them in
\* the same order.
Forked(k) ==
    /\ pc[Mgr(k)] \in {"none", "forked", "pipe", "fork_l"}
          => pc[Cmd(k)] = "none"
    /\ pc[Mgr(k)] \in {"none", "forked", "pipe", "fork_l", "fork_r"}
          => pc[RightChild(k)] = "none"
    /\ pc[Mgr(k)] \in {"fork_r", "close", "wait_l", "wait_r"}
          => pc[Cmd(k)] # "none"
    /\ pc[Mgr(k)] = "wait_r" => Ended(Cmd(k))
    /\ pc[RightChild(k)] # "none" => pc[Cmd(k)] # "none"

Tree == \A k \in Pipes : Forked(k)

-----------------------------------------------------------------------------
(* The pipe ends that are open.                                            *)

Stdin(k) == IF k = 1 THEN {} ELSE {R(k - 1)}
Stdout(k) == IF k = N THEN {} ELSE {W(k)}

ManagerEnds ==
    \A k \in Pipes :
        /\ pc[Mgr(k)] = "pipe" => fds[Mgr(k)] = Stdin(k)
        /\ pc[Mgr(k)] \in {"fork_l", "fork_r", "close"}
              => fds[Mgr(k)] = Stdin(k) \cup {R(k), W(k)}

\* Without a redirection a command has its standard input and output exactly.
CommandEnds ==
    \A c \in Commands :
        /\ c # N /\ pc[Cmd(c)] = "forked"
              => fds[Cmd(c)] = Stdin(c) \cup {R(c), W(c)}
        /\ pc[Cmd(c)] \in {"exec", "run"} => fds[Cmd(c)] \subseteq Stdin(c) \cup Stdout(c)
        /\ pc[Cmd(c)] = "exec" \/ (pc[Cmd(c)] = "run" /\ c \notin cut)
              => fds[Cmd(c)] = Stdin(c) \cup Stdout(c)

-----------------------------------------------------------------------------
(* The data: w[c] is how much command c has written.                       *)

\* How much command c has in its hands.
Holding(c) == IF held[c] = None THEN 0 ELSE 1

\* What command k has written is in pipe k or has been read from it.
Piped(w, k) ==
    /\ w[k] = w[k + 1] + Holding(k + 1) + Len(buf[k])
    /\ \A i \in 1..Len(buf[k]) : buf[k][i] = w[k + 1] + Holding(k + 1) + i

\* Command k writes to a file, and nothing goes through pipe k.
Filed(w, k) ==
    /\ k \in cut
    /\ pc[Cmd(k)] \in {"run", "gone"}
    /\ pc[Cmd(k)] = "run" => W(k) \notin fds[Cmd(k)]
    /\ buf[k] = <<>>
    /\ w[k + 1] = 0
    /\ held[k + 1] = None

Flow(w) ==
    /\ w[1] = sent
    /\ w[N] = Len(out)
    /\ \A i \in 1..Len(out) : out[i] = i
    /\ held[1] = None
    /\ \A c \in Commands :
          /\ pc[Cmd(c)] \in {"none", "forked", "exec"} => w[c] = 0 /\ held[c] = None
          /\ held[c] # None => held[c] = w[c] + 1
          /\ cut = {} /\ pc[Cmd(c)] = "gone" => w[c] = Items
    /\ \A k \in Pipes :
          /\ Piped(w, k) \/ Filed(w, k)
          /\ pc[Cmd(k)] = "run" /\ W(k) \notin fds[Cmd(k)] => Filed(w, k)

DataFlows == \E w \in [Commands -> 0..Items] : Flow(w)

PipeInv ==
    /\ TypeOK
    /\ Tree
    /\ ManagerEnds
    /\ CommandEnds
    /\ WaitsForAll
    /\ DataFlows

-----------------------------------------------------------------------------
(* Facts about the names of processes and pipe ends.                       *)

\* Pipes, commands and their numbers.
LEMMA Numbers ==
    /\ N \in Nat /\ N >= 2 /\ N \in Commands /\ 1 \in Commands /\ 1 \in Pipes
    /\ \A k \in Pipes : k \in Nat /\ k >= 1 /\ k < N /\ k \in Commands /\ k + 1 \in Commands
    /\ \A c \in Commands : c \in Nat /\ c >= 1 /\ c <= N /\ (c # N => c \in Pipes)
                           /\ (c # 1 => c - 1 \in Pipes)
  BY PipeAssumption DEF Pipes, Commands

\* Processes and ends of pipes have different names.
LEMMA Names ==
    /\ \A k \in Pipes : Mgr(k) \in Procs
    /\ \A c \in Commands : Cmd(c) \in Procs
    /\ \A k \in Pipes, c \in Commands : Mgr(k) # Cmd(c)
    /\ \A j, k \in Pipes : Mgr(j) = Mgr(k) => j = k
    /\ \A c, d \in Commands : Cmd(c) = Cmd(d) => c = d
    /\ \A k \in Pipes : R(k) \in Ends /\ W(k) \in Ends
    /\ \A j, k \in Int : (R(j) = R(k) => j = k) /\ (W(j) = W(k) => j = k) /\ R(j) # W(k)
    /\ R(0) \notin Ends /\ W(N) \notin Ends
  BY Numbers DEF Procs, Mgr, Cmd, R, W, Ends

\* Three counts that add up to nothing are nothing.
LEMMA NothingAddsUp ==
    ASSUME NEW a \in Nat, NEW b \in Nat, NEW d \in Nat, a + b + d = 0
    PROVE  a = 0 /\ b = 0 /\ d = 0
  OBVIOUS

\* One more than a count that something at least as large bounds.
LEMMA OneMoreFits ==
    ASSUME NEW a \in Nat, NEW b \in Nat, NEW d \in Nat, NEW m \in Nat,
           d = a + 1 + b, d <= m
    PROVE  a + 1 \in 0..m
  OBVIOUS

\* Adding one tells numbers apart.
LEMMA SameAfterOne ==
    ASSUME NEW a \in Int, NEW b \in Int, a + 1 = b + 1
    PROVE  a = b
  OBVIOUS

\* The length and the head of what is in a pipe that is not empty.
LEMMA NotEmptyPipe ==
    ASSUME NEW q \in Seq(Nat), q # <<>>
    PROVE  Len(q) \in Nat /\ Len(q) >= 1 /\ 1 \in 1..Len(q) /\ Head(q) = q[1]
  OBVIOUS

\* The right child of a manager is the last command or the next manager.
LEMMA RightChildIs ==
    ASSUME NEW k \in Pipes
    PROVE  \/ k + 1 = N /\ RightChild(k) = Cmd(N)
           \/ k + 1 # N /\ k + 1 \in Pipes /\ RightChild(k) = Mgr(k + 1)
  BY Numbers DEF RightChild, Pipes

\* What is below a manager, without set constructions.
LEMMA WaitsForAllMeans ==
    WaitsForAll <=>
        \A k \in Pipes :
            pc[Mgr(k)] = "gone" /\ (\A j \in Pipes : pc[Mgr(j)] # "failed")
               => /\ \A j \in Pipes : j > k => Ended(Mgr(j))
                  /\ \A c \in Commands : c >= k => Ended(Cmd(c))
  BY DEF WaitsForAll, Below

\* The initial state: one manager, no pipe.
LEMMA PipeInit == Init => PipeInv
  <1> SUFFICES ASSUME Init PROVE PipeInv
    OBVIOUS
  <1> USE Numbers, Names
  <1>1. \A c \in Commands : pc[Cmd(c)] = "none"
    BY DEF Init
  <1>2. \A k \in Pipes : pc[Mgr(k)] = IF k = 1 THEN "pipe" ELSE "none"
    BY DEF Init
  <1>3. TypeOK
    <2>1. buf \in [Pipes -> Seq(Nat)] /\ out \in Seq(Nat)
      <3>1. <<>> \in Seq(Nat)
        OBVIOUS
      <3> QED BY <3>1 DEF Init
    <2>2. sent \in 0..Items
      BY PipeAssumption DEF Init
    <2>3. pc \in [Procs -> MgrPCs \cup CmdPCs] /\ fds \in [Procs -> SUBSET Ends]
          /\ held \in [Commands -> Nat] /\ cut \subseteq Commands
      BY DEF Init, None, MgrPCs, CmdPCs
    <2> QED BY <1>1, <1>2, <2>1, <2>2, <2>3 DEF TypeOK, MgrPCs, CmdPCs
  <1>4. Tree
    BY <1>1, <1>2, RightChildIs DEF Tree, Forked
  <1>5. ManagerEnds /\ CommandEnds
    BY <1>1, <1>2 DEF ManagerEnds, CommandEnds, Stdin, Init
  <1>6. WaitsForAll
    BY <1>2 DEF WaitsForAll
  <1>7. DataFlows
    <2> DEFINE w == [c \in Commands |-> 0]
    <2>1. w \in [Commands -> 0..Items]
      BY PipeAssumption
    <2>2. Flow(w)
      BY <1>1 DEF Flow, Piped, Holding, Init
    <2> QED BY <2>1, <2>2 DEF DataFlows
  <1> QED BY <1>3, <1>4, <1>5, <1>6, <1>7 DEF PipeInv

-----------------------------------------------------------------------------
(* Frames: what a step of one process leaves alone.                        *)

\* A step that moves one process.
LEMMA OneMoves ==
    ASSUME TypeOK, NEW q \in Procs, NEW label \in MgrPCs \cup CmdPCs,
           NEW F \in SUBSET Ends,
           pc' = [pc EXCEPT ![q] = label], fds' = [fds EXCEPT ![q] = F]
    PROVE  /\ pc'[q] = label /\ fds'[q] = F
           /\ \A r \in Procs : r # q => pc'[r] = pc[r] /\ fds'[r] = fds[r]
           /\ pc' \in [Procs -> MgrPCs \cup CmdPCs] /\ fds' \in [Procs -> SUBSET Ends]
  <1>1. pc \in [Procs -> MgrPCs \cup CmdPCs] /\ fds \in [Procs -> SUBSET Ends]
    BY DEF TypeOK
  <1>2. /\ pc'[q] = label /\ \A r \in Procs : r # q => pc'[r] = pc[r]
        /\ pc' \in [Procs -> MgrPCs \cup CmdPCs]
    BY <1>1
  <1>3. /\ fds'[q] = F /\ \A r \in Procs : r # q => fds'[r] = fds[r]
        /\ fds' \in [Procs -> SUBSET Ends]
    BY <1>1
  <1> QED BY <1>2, <1>3

\* A step that ends no manager, and starts nothing that has ended.
LEMMA WaitsFrame ==
    ASSUME WaitsForAll,
           \A q \in Procs : Ended(q) => pc'[q] = pc[q],
           \A k \in Pipes : pc'[Mgr(k)] = "gone" => pc[Mgr(k)] = "gone"
    PROVE  WaitsForAll'
  <1>1. \A q \in Procs : Ended(q) => Ended(q)'
    BY DEF Ended
  <1>2. \A j \in Pipes : pc'[Mgr(j)] # "failed" => pc[Mgr(j)] # "failed"
    BY Names DEF Ended
  <1>3. (\A k \in Pipes :
            pc[Mgr(k)] = "gone" /\ (\A j \in Pipes : pc[Mgr(j)] # "failed")
               => /\ \A j \in Pipes : j > k => Ended(Mgr(j))
                  /\ \A c \in Commands : c >= k => Ended(Cmd(c)))'
    BY <1>1, <1>2, WaitsForAllMeans, Names
  <1> QED BY <1>3, WaitsForAllMeans DEF WaitsForAll, Below

\* A step that moves no data, before a command runs.
LEMMA FlowFrame ==
    ASSUME DataFlows, UNCHANGED dataVars,
           \A c \in Commands :
              \/ pc'[Cmd(c)] = pc[Cmd(c)] /\ fds'[Cmd(c)] = fds[Cmd(c)]
              \/ pc[Cmd(c)] \in {"none", "forked"} /\ pc'[Cmd(c)] \in {"forked", "exec"}
    PROVE  DataFlows'
  <1>1. PICK w \in [Commands -> 0..Items] : Flow(w)
    BY DEF DataFlows
  <1>2. UNCHANGED <<buf, sent, held, out, cut>>
    BY DEF dataVars
  <1>3. \A k \in Pipes : Filed(w, k) => Filed(w, k)'
    BY <1>2, Numbers DEF Filed
  <1>4. \A k \in Pipes : Piped(w, k) => Piped(w, k)'
    BY <1>2 DEF Piped, Holding
  <1>5. Flow(w)'
    BY <1>1, <1>2, <1>3, <1>4, Numbers DEF Flow
  <1> QED BY <1>5 DEF DataFlows

-----------------------------------------------------------------------------
(* The manager.                                                            *)

\* exit(-1) after pipe or fork failed: what was started is left behind.
LEMMA FailInv ==
    ASSUME PipeInv, NEW k \in Pipes, pc[Mgr(k)] \in {"pipe", "fork_l", "fork_r"},
           Fail(k), UNCHANGED dataVars
    PROVE  PipeInv'
  <1> USE Numbers, Names
  <1>1. /\ pc'[Mgr(k)] = "failed" /\ fds'[Mgr(k)] = {}
        /\ \A q \in Procs : q # Mgr(k) => pc'[q] = pc[q] /\ fds'[q] = fds[q]
        /\ pc' \in [Procs -> MgrPCs \cup CmdPCs] /\ fds' \in [Procs -> SUBSET Ends]
    BY DEF Fail, ExitAs, PipeInv, TypeOK, MgrPCs, CmdPCs
  <1>2. \A j \in Pipes : j # k => pc'[Mgr(j)] = pc[Mgr(j)] /\ fds'[Mgr(j)] = fds[Mgr(j)]
    BY <1>1
  <1>3. \A c \in Commands : pc'[Cmd(c)] = pc[Cmd(c)] /\ fds'[Cmd(c)] = fds[Cmd(c)]
    BY <1>1
  <1>4. TypeOK'
    BY <1>1, <1>2, <1>3 DEF PipeInv, TypeOK, MgrPCs, CmdPCs, dataVars
  <1>5. Tree'
    BY <1>1, <1>2, <1>3, RightChildIs, SMTT(20) DEF PipeInv, Tree, Forked, Ended
  <1>6. ManagerEnds' /\ CommandEnds'
    BY <1>1, <1>2, <1>3 DEF PipeInv, ManagerEnds, CommandEnds, dataVars
  <1>7. WaitsForAll'
    BY <1>1, <1>2, WaitsFrame DEF PipeInv, Ended
  <1>8. DataFlows'
    BY <1>3, FlowFrame DEF PipeInv
  <1> QED BY <1>4, <1>5, <1>6, <1>7, <1>8 DEF PipeInv

\* pipe keeps PipeInv, whether it succeeds or fails.
LEMMA MakePipeInv ==
    ASSUME PipeInv, NEW k \in Pipes, MakePipe(k)
    PROVE  PipeInv'
  <1> USE Numbers, Names
  <1>1. pc[Mgr(k)] = "pipe" /\ UNCHANGED dataVars
    BY DEF MakePipe
  <1>2. CASE Fail(k)
    BY <1>1, <1>2, FailInv
  <1>3. CASE /\ Goto(Mgr(k), "fork_l")
             /\ fds' = [fds EXCEPT ![Mgr(k)] = @ \cup {R(k), W(k)}]
    <2>1. /\ pc'[Mgr(k)] = "fork_l" /\ fds'[Mgr(k)] = Stdin(k) \cup {R(k), W(k)}
          /\ \A q \in Procs : q # Mgr(k) => pc'[q] = pc[q] /\ fds'[q] = fds[q]
          /\ pc' \in [Procs -> MgrPCs \cup CmdPCs] /\ fds' \in [Procs -> SUBSET Ends]
      <3>1. fds[Mgr(k)] = Stdin(k) /\ fds[Mgr(k)] \in SUBSET Ends
        BY <1>1 DEF PipeInv, TypeOK, ManagerEnds
      <3>2. Stdin(k) \cup {R(k), W(k)} \in SUBSET Ends
        BY <3>1
      <3>3. fds' = [fds EXCEPT ![Mgr(k)] = Stdin(k) \cup {R(k), W(k)}]
        BY <1>3, <3>1
      <3>4. "fork_l" \in MgrPCs \cup CmdPCs
        BY DEF MgrPCs
      <3>5. pc' = [pc EXCEPT ![Mgr(k)] = "fork_l"] /\ TypeOK
        BY <1>3 DEF Goto, PipeInv
      <3> QED BY <3>2, <3>3, <3>4, <3>5, OneMoves
    <2>2. \A j \in Pipes : j # k => pc'[Mgr(j)] = pc[Mgr(j)] /\ fds'[Mgr(j)] = fds[Mgr(j)]
      BY <2>1
    <2>3. \A c \in Commands : pc'[Cmd(c)] = pc[Cmd(c)] /\ fds'[Cmd(c)] = fds[Cmd(c)]
      BY <2>1
    <2>4. TypeOK'
      BY <1>1, <2>1, <2>2, <2>3 DEF PipeInv, TypeOK, MgrPCs, CmdPCs, dataVars
    <2>5. Tree'
      BY <1>1, <2>1, <2>2, <2>3, RightChildIs DEF PipeInv, Tree, Forked, Ended
    <2>6. ManagerEnds' /\ CommandEnds'
      BY <1>1, <2>1, <2>2, <2>3 DEF PipeInv, ManagerEnds, CommandEnds, dataVars
    <2>7. WaitsForAll'
      BY <1>1, <2>1, <2>2, WaitsFrame DEF PipeInv, Ended
    <2>8. DataFlows'
      BY <1>1, <2>3, FlowFrame DEF PipeInv
    <2> QED BY <2>4, <2>5, <2>6, <2>7, <2>8 DEF PipeInv
  <1> QED BY <1>2, <1>3 DEF MakePipe

\* The fork of the left child keeps PipeInv.
LEMMA ForkLeftInv ==
    ASSUME PipeInv, NEW k \in Pipes, ForkLeft(k)
    PROVE  PipeInv'
  <1> USE Numbers, Names
  <1>1. pc[Mgr(k)] = "fork_l" /\ UNCHANGED dataVars
    BY DEF ForkLeft, Fork
  <1>2. CASE Fail(k)
    BY <1>1, <1>2, FailInv
  <1>3. CASE /\ pc' = [pc EXCEPT ![Mgr(k)] = "fork_r", ![Cmd(k)] = "forked"]
             /\ fds' = [fds EXCEPT ![Cmd(k)] = fds[Mgr(k)]]
    <2>1. pc[Cmd(k)] = "none"
      BY <1>1 DEF PipeInv, Tree, Forked
    <2>2. /\ pc'[Mgr(k)] = "fork_r" /\ fds'[Mgr(k)] = Stdin(k) \cup {R(k), W(k)}
          /\ pc'[Cmd(k)] = "forked" /\ fds'[Cmd(k)] = Stdin(k) \cup {R(k), W(k)}
          /\ \A q \in Procs \ {Mgr(k), Cmd(k)} : pc'[q] = pc[q] /\ fds'[q] = fds[q]
          /\ pc' \in [Procs -> MgrPCs \cup CmdPCs] /\ fds' \in [Procs -> SUBSET Ends]
      BY <1>1, <1>3 DEF PipeInv, TypeOK, MgrPCs, CmdPCs, ManagerEnds
    <2>3. \A j \in Pipes : j # k => pc'[Mgr(j)] = pc[Mgr(j)] /\ fds'[Mgr(j)] = fds[Mgr(j)]
      BY <2>2
    <2>4. \A c \in Commands : c # k => pc'[Cmd(c)] = pc[Cmd(c)] /\ fds'[Cmd(c)] = fds[Cmd(c)]
      BY <2>2
    <2>5. TypeOK'
      BY <1>1, <2>2, <2>3, <2>4 DEF PipeInv, TypeOK, MgrPCs, CmdPCs, dataVars
    <2>6. Tree'
      BY <1>1, <2>1, <2>2, <2>3, <2>4, RightChildIs, SMTT(20) DEF PipeInv, Tree, Forked, Ended
    <2>7. ManagerEnds' /\ CommandEnds'
      BY <1>1, <2>2, <2>3, <2>4 DEF PipeInv, ManagerEnds, CommandEnds, dataVars
    <2>8. WaitsForAll'
      BY <1>1, <2>1, <2>2, <2>3, WaitsFrame DEF PipeInv, Ended
    <2>9. DataFlows'
      BY <1>1, <2>1, <2>2, <2>4, FlowFrame DEF PipeInv
    <2> QED BY <2>5, <2>6, <2>7, <2>8, <2>9 DEF PipeInv
  <1> QED BY <1>2, <1>3 DEF ForkLeft, Fork, LeftChild

\* The fork of the right child keeps PipeInv.
LEMMA ForkRightInv ==
    ASSUME PipeInv, NEW k \in Pipes, ForkRight(k)
    PROVE  PipeInv'
  <1> USE Numbers, Names
  <1>1. pc[Mgr(k)] = "fork_r" /\ UNCHANGED dataVars
    BY DEF ForkRight, Fork
  <1>2. CASE Fail(k)
    BY <1>1, <1>2, FailInv
  <1>3. CASE /\ pc' = [pc EXCEPT ![Mgr(k)] = "close", ![RightChild(k)] = "forked"]
             /\ fds' = [fds EXCEPT ![RightChild(k)] = fds[Mgr(k)]]
    <2> DEFINE rc == RightChild(k)
    <2>1. /\ pc[rc] = "none" /\ pc[Cmd(k)] # "none"
          /\ rc \in Procs /\ rc # Mgr(k) /\ rc # Cmd(k)
      BY <1>1, RightChildIs DEF PipeInv, Tree, Forked
    <2>a. \/ k + 1 = N /\ rc = Cmd(N)
          \/ k + 1 # N /\ k + 1 \in Pipes /\ rc = Mgr(k + 1)
      BY RightChildIs
    <2> HIDE DEF rc
    <2>2. /\ pc'[Mgr(k)] = "close" /\ fds'[Mgr(k)] = fds[Mgr(k)]
          /\ pc'[rc] = "forked"
          /\ \A q \in Procs \ {Mgr(k), rc} : pc'[q] = pc[q] /\ fds'[q] = fds[q]
          /\ pc' \in [Procs -> MgrPCs \cup CmdPCs] /\ fds' \in [Procs -> SUBSET Ends]
      <3>1. /\ pc' = [pc EXCEPT ![Mgr(k)] = "close", ![rc] = "forked"]
            /\ fds' = [fds EXCEPT ![rc] = fds[Mgr(k)]]
        BY <1>3 DEF rc
      <3> QED BY <2>1, <3>1 DEF PipeInv, TypeOK, MgrPCs, CmdPCs
    <2>3. \A j \in Pipes : j # k /\ Mgr(j) # rc
              => pc'[Mgr(j)] = pc[Mgr(j)] /\ fds'[Mgr(j)] = fds[Mgr(j)]
      BY <2>2
    <2>4. \A c \in Commands : Cmd(c) # rc
              => pc'[Cmd(c)] = pc[Cmd(c)] /\ fds'[Cmd(c)] = fds[Cmd(c)]
      BY <2>2
    <2>5. TypeOK'
      <3>1. \A j \in Pipes : pc'[Mgr(j)] \in MgrPCs
        BY <2>2, <2>3 DEF PipeInv, TypeOK, MgrPCs, CmdPCs
      <3>2. \A c \in Commands : pc'[Cmd(c)] \in CmdPCs
        BY <2>2, <2>4 DEF PipeInv, TypeOK, MgrPCs, CmdPCs
      <3> QED BY <1>1, <2>2, <3>1, <3>2 DEF PipeInv, TypeOK, MgrPCs, CmdPCs, dataVars
    <2>6. Tree'
      <3> SUFFICES ASSUME NEW j \in Pipes PROVE Forked(j)'
        BY DEF Tree
      <3>1. Forked(j) /\ Forked(k)
        BY DEF PipeInv, Tree
      <3>2. \/ j + 1 = N /\ RightChild(j) = Cmd(N)
            \/ j + 1 # N /\ j + 1 \in Pipes /\ RightChild(j) = Mgr(j + 1)
        BY RightChildIs
      <3>3. CASE j = k
        BY <1>1, <2>1, <2>2, <3>1, <3>3 DEF Forked, rc
      <3>4. CASE j # k
        <4>1. RightChild(j) # rc /\ Cmd(j) # rc
          BY <2>a, <3>2, <3>4
        <4>2. pc'[Cmd(j)] = pc[Cmd(j)]
          BY <2>4, <4>1
        <4>3. RightChild(j) # Mgr(k) => pc'[RightChild(j)] = pc[RightChild(j)]
          BY <2>2, <3>2, <4>1
        <4>4. RightChild(j) = Mgr(k) => pc[Mgr(j)] \notin
                 {"none", "forked", "pipe", "fork_l", "fork_r"} /\ pc[Cmd(j)] # "none"
          BY <1>1, <3>1 DEF Forked
        <4>5. CASE Mgr(j) = rc
          BY <1>1, <2>1, <2>2, <3>1, <4>2, <4>3, <4>4, <4>5 DEF Forked, Ended
        <4>6. CASE Mgr(j) # rc
          BY <1>1, <2>2, <2>3, <3>1, <3>4, <4>2, <4>3, <4>4, <4>6 DEF Forked, Ended
        <4> QED BY <4>5, <4>6
      <3> QED BY <3>3, <3>4
    <2>7. ManagerEnds' /\ CommandEnds'
      <3>1. ManagerEnds'
        BY <1>1, <2>2, <2>3 DEF PipeInv, ManagerEnds
      <3>2. CommandEnds'
        BY <1>1, <2>a, <2>2, <2>4 DEF PipeInv, CommandEnds, dataVars
      <3> QED BY <3>1, <3>2
    <2>8. WaitsForAll'
      BY <1>1, <2>1, <2>2, <2>3, WaitsFrame DEF PipeInv, Ended
    <2>9. DataFlows'
      BY <1>1, <2>1, <2>2, <2>4, FlowFrame DEF PipeInv
    <2> QED BY <2>5, <2>6, <2>7, <2>8, <2>9 DEF PipeInv
  <1> QED BY <1>2, <1>3 DEF ForkRight, Fork

\* The closes of a manager keep PipeInv.
LEMMA CloseEndsInv ==
    ASSUME PipeInv, NEW k \in Pipes, CloseEnds(k)
    PROVE  PipeInv'
  <1> USE Numbers, Names
  <1>1. /\ pc[Mgr(k)] = "close" /\ UNCHANGED dataVars
        /\ pc'[Mgr(k)] = "wait_l"
        /\ \A q \in Procs : q # Mgr(k) => pc'[q] = pc[q] /\ fds'[q] = fds[q]
        /\ pc' \in [Procs -> MgrPCs \cup CmdPCs] /\ fds' \in [Procs -> SUBSET Ends]
    BY DEF CloseEnds, Goto, PipeInv, TypeOK, MgrPCs, CmdPCs
  <1>2. \A j \in Pipes : j # k => pc'[Mgr(j)] = pc[Mgr(j)] /\ fds'[Mgr(j)] = fds[Mgr(j)]
    BY <1>1
  <1>3. \A c \in Commands : pc'[Cmd(c)] = pc[Cmd(c)] /\ fds'[Cmd(c)] = fds[Cmd(c)]
    BY <1>1
  <1>4. TypeOK'
    BY <1>1, <1>2, <1>3 DEF PipeInv, TypeOK, MgrPCs, CmdPCs, dataVars
  <1>5. Tree'
    BY <1>1, <1>2, <1>3, RightChildIs, SMTT(20) DEF PipeInv, Tree, Forked, Ended
  <1>6. ManagerEnds' /\ CommandEnds'
    BY <1>1, <1>2, <1>3 DEF PipeInv, ManagerEnds, CommandEnds, dataVars
  <1>7. WaitsForAll'
    BY <1>1, <1>2, WaitsFrame DEF PipeInv, Ended
  <1>8. DataFlows'
    BY <1>1, <1>3, FlowFrame DEF PipeInv
  <1> QED BY <1>4, <1>5, <1>6, <1>7, <1>8 DEF PipeInv

\* The waitpid for the left child keeps PipeInv.
LEMMA WaitLeftInv ==
    ASSUME PipeInv, NEW k \in Pipes, WaitLeft(k)
    PROVE  PipeInv'
  <1> USE Numbers, Names
  <1>1. /\ pc[Mgr(k)] = "wait_l" /\ UNCHANGED dataVars
        /\ Ended(Cmd(k))
        /\ pc'[Mgr(k)] = "wait_r"
        /\ \A q \in Procs : q # Mgr(k) => pc'[q] = pc[q]
        /\ fds' = fds
        /\ pc' \in [Procs -> MgrPCs \cup CmdPCs]
    BY DEF WaitLeft, LeftChild, Goto, PipeInv, TypeOK, MgrPCs, CmdPCs
  <1>2. \A j \in Pipes : j # k => pc'[Mgr(j)] = pc[Mgr(j)] /\ fds'[Mgr(j)] = fds[Mgr(j)]
    BY <1>1
  <1>3. \A c \in Commands : pc'[Cmd(c)] = pc[Cmd(c)] /\ fds'[Cmd(c)] = fds[Cmd(c)]
    BY <1>1
  <1>4. TypeOK'
    BY <1>1, <1>2, <1>3 DEF PipeInv, TypeOK, MgrPCs, CmdPCs, dataVars
  <1>5. Tree'
    BY <1>1, <1>2, <1>3, RightChildIs, SMTT(20) DEF PipeInv, Tree, Forked, Ended
  <1>6. ManagerEnds' /\ CommandEnds'
    BY <1>1, <1>2, <1>3 DEF PipeInv, ManagerEnds, CommandEnds, dataVars
  <1>7. WaitsForAll'
    BY <1>1, <1>2, WaitsFrame DEF PipeInv, Ended
  <1>8. DataFlows'
    BY <1>1, <1>3, FlowFrame DEF PipeInv
  <1> QED BY <1>4, <1>5, <1>6, <1>7, <1>8 DEF PipeInv

\* The manager is done: its right child has ended, and if that is a manager
\* so has everything below it.
LEMMA WaitRightInv ==
    ASSUME PipeInv, NEW k \in Pipes, WaitRight(k)
    PROVE  PipeInv'
  <1> USE Numbers, Names
  <1>1. /\ pc[Mgr(k)] = "wait_r" /\ UNCHANGED dataVars
        /\ Ended(RightChild(k))
        /\ pc'[Mgr(k)] = "gone" /\ fds'[Mgr(k)] = {}
        /\ \A q \in Procs : q # Mgr(k) => pc'[q] = pc[q] /\ fds'[q] = fds[q]
        /\ pc' \in [Procs -> MgrPCs \cup CmdPCs] /\ fds' \in [Procs -> SUBSET Ends]
    BY DEF WaitRight, Exit, ExitAs, PipeInv, TypeOK, MgrPCs, CmdPCs
  <1>2. \A j \in Pipes : j # k => pc'[Mgr(j)] = pc[Mgr(j)] /\ fds'[Mgr(j)] = fds[Mgr(j)]
    BY <1>1
  <1>3. \A c \in Commands : pc'[Cmd(c)] = pc[Cmd(c)] /\ fds'[Cmd(c)] = fds[Cmd(c)]
    BY <1>1
  <1>4. TypeOK'
    BY <1>1, <1>2, <1>3 DEF PipeInv, TypeOK, MgrPCs, CmdPCs, dataVars
  <1>5. Tree'
    BY <1>1, <1>2, <1>3, RightChildIs DEF PipeInv, Tree, Forked, Ended
  <1>6. ManagerEnds' /\ CommandEnds'
    BY <1>1, <1>2, <1>3 DEF PipeInv, ManagerEnds, CommandEnds, dataVars
  <1>7. WaitsForAll'
    <2>1. \A q \in Procs : Ended(q) => Ended(q)'
      BY <1>1 DEF Ended
    <2>2. \A j \in Pipes : pc'[Mgr(j)] # "failed" => pc[Mgr(j)] # "failed"
      BY <1>1, <1>2
    <2>3. Ended(Cmd(k))
      BY <1>1 DEF PipeInv, Tree, Forked
    <2>4. ASSUME NEW j \in Pipes, pc'[Mgr(j)] = "gone",
                 \A i \in Pipes : pc'[Mgr(i)] # "failed"
          PROVE  /\ \A i \in Pipes : i > j => Ended(Mgr(i))'
                 /\ \A c \in Commands : c >= j => Ended(Cmd(c))'
      <3>1. CASE j # k
        BY <1>2, <2>1, <2>2, <2>4, <3>1, WaitsForAllMeans DEF PipeInv
      <3>2. CASE j = k /\ k + 1 = N
        <4>1. Ended(Cmd(N))
          BY <1>1, <3>2, RightChildIs
        <4>2. \A i \in Pipes : ~(i > j)
          BY <3>2
        <4>3. \A c \in Commands : c >= j => c = k \/ c = N
          BY <3>2
        <4> QED BY <2>1, <2>3, <4>1, <4>2, <4>3
      <3>3. CASE j = k /\ k + 1 # N
        <4>1. k + 1 \in Pipes /\ Ended(Mgr(k + 1))
          BY <1>1, <3>3, RightChildIs
        <4>2. pc[Mgr(k + 1)] = "gone"
          BY <2>2, <2>4, <4>1 DEF Ended
        <4>3. /\ \A i \in Pipes : i > k + 1 => Ended(Mgr(i))
              /\ \A c \in Commands : c >= k + 1 => Ended(Cmd(c))
          BY <2>2, <2>4, <4>1, <4>2, WaitsForAllMeans DEF PipeInv
        <4>4. \A i \in Pipes : i > j => i = k + 1 \/ i > k + 1
          BY <3>3
        <4>5. \A c \in Commands : c >= j => c = k \/ c >= k + 1
          BY <3>3
        <4> QED BY <2>1, <2>3, <4>1, <4>3, <4>4, <4>5
      <3> QED BY <3>1, <3>2, <3>3
    <2> QED BY <2>4 DEF WaitsForAll, Below
  <1>8. DataFlows'
    BY <1>1, <1>3, FlowFrame DEF PipeInv
  <1> QED BY <1>4, <1>5, <1>6, <1>7, <1>8 DEF PipeInv

-----------------------------------------------------------------------------
(* The children, between fork and exec.                                    *)

\* The left child closes the end it does not use: PipeInv stays.
LEMMA LeftStartInv ==
    ASSUME PipeInv, NEW k \in Pipes, LeftStart(k)
    PROVE  PipeInv'
  <1> USE Numbers, Names
  <1>1. /\ pc[Cmd(k)] = "forked" /\ UNCHANGED dataVars
        /\ pc' = [pc EXCEPT ![Cmd(k)] = "exec"]
        /\ fds' = [fds EXCEPT ![Cmd(k)] = fds[Cmd(k)] \ {R(k)}]
    BY DEF LeftStart, LeftChild, Goto
  <1>2. fds[Cmd(k)] \ {R(k)} = Stdin(k) \cup Stdout(k)
    <2>1. fds[Cmd(k)] = Stdin(k) \cup {R(k), W(k)}
      BY <1>1 DEF PipeInv, CommandEnds
    <2>2. R(k) \notin Stdin(k) /\ W(k) # R(k)
      BY DEF Stdin
    <2> QED BY <2>1, <2>2 DEF Stdout
  <1>3. /\ pc'[Cmd(k)] = "exec" /\ fds'[Cmd(k)] = Stdin(k) \cup Stdout(k)
        /\ \A q \in Procs : q # Cmd(k) => pc'[q] = pc[q] /\ fds'[q] = fds[q]
        /\ pc' \in [Procs -> MgrPCs \cup CmdPCs] /\ fds' \in [Procs -> SUBSET Ends]
    BY <1>1, <1>2 DEF PipeInv, TypeOK, MgrPCs, CmdPCs
  <1>4. \A j \in Pipes : pc'[Mgr(j)] = pc[Mgr(j)] /\ fds'[Mgr(j)] = fds[Mgr(j)]
    BY <1>3
  <1>5. \A c \in Commands : c # k => pc'[Cmd(c)] = pc[Cmd(c)] /\ fds'[Cmd(c)] = fds[Cmd(c)]
    BY <1>3
  <1>6. TypeOK'
    BY <1>1, <1>3, <1>4, <1>5 DEF PipeInv, TypeOK, MgrPCs, CmdPCs, dataVars
  <1>7. Tree'
    BY <1>1, <1>3, <1>4, <1>5, RightChildIs DEF PipeInv, Tree, Forked, Ended
  <1>8. ManagerEnds' /\ CommandEnds'
    BY <1>1, <1>3, <1>4, <1>5 DEF PipeInv, ManagerEnds, CommandEnds, dataVars
  <1>9. WaitsForAll'
    BY <1>1, <1>3, <1>4, WaitsFrame DEF PipeInv, Ended
  <1>10. DataFlows'
    BY <1>1, <1>3, <1>5, FlowFrame DEF PipeInv
  <1> QED BY <1>6, <1>7, <1>8, <1>9, <1>10 DEF PipeInv

\* The right child keeps the read end only: PipeInv stays.
LEMMA RightStartInv ==
    ASSUME PipeInv, NEW k \in Pipes, RightStart(k)
    PROVE  PipeInv'
  <1> USE Numbers, Names
  <1>1. /\ pc[RightChild(k)] = "forked" /\ UNCHANGED dataVars
        /\ pc' = [pc EXCEPT ![RightChild(k)] = IF k + 1 = N THEN "exec" ELSE "pipe"]
        /\ fds' = [fds EXCEPT ![RightChild(k)] = {R(k)}]
    BY DEF RightStart, Goto
  <1>2. CASE k + 1 = N
    <2>1. RightChild(k) = Cmd(N)
      BY <1>2, RightChildIs
    <2>2. {R(k)} = Stdin(N) \cup Stdout(N)
      BY <1>2 DEF Stdin, Stdout
    <2>3. /\ pc[Cmd(N)] = "forked"
          /\ pc'[Cmd(N)] = "exec" /\ fds'[Cmd(N)] = Stdin(N) \cup Stdout(N)
          /\ \A q \in Procs : q # Cmd(N) => pc'[q] = pc[q] /\ fds'[q] = fds[q]
          /\ pc' \in [Procs -> MgrPCs \cup CmdPCs] /\ fds' \in [Procs -> SUBSET Ends]
      <3>1. /\ pc' = [pc EXCEPT ![Cmd(N)] = "exec"]
            /\ fds' = [fds EXCEPT ![Cmd(N)] = {R(k)}]
        BY <1>1, <1>2, <2>1
      <3>2. {R(k)} \in SUBSET Ends
        OBVIOUS
      <3>3. "exec" \in MgrPCs \cup CmdPCs /\ TypeOK
        BY DEF CmdPCs, PipeInv
      <3>4. /\ pc'[Cmd(N)] = "exec" /\ fds'[Cmd(N)] = {R(k)}
            /\ \A q \in Procs : q # Cmd(N) => pc'[q] = pc[q] /\ fds'[q] = fds[q]
            /\ pc' \in [Procs -> MgrPCs \cup CmdPCs] /\ fds' \in [Procs -> SUBSET Ends]
        BY <3>1, <3>2, <3>3, OneMoves
      <3> QED BY <1>1, <2>1, <2>2, <3>4
    <2>4. \A j \in Pipes : pc'[Mgr(j)] = pc[Mgr(j)] /\ fds'[Mgr(j)] = fds[Mgr(j)]
      BY <2>3
    <2>5. \A c \in Commands : c # N => pc'[Cmd(c)] = pc[Cmd(c)] /\ fds'[Cmd(c)] = fds[Cmd(c)]
      BY <2>3
    <2>6. TypeOK'
      BY <1>1, <2>3, <2>4, <2>5 DEF PipeInv, TypeOK, MgrPCs, CmdPCs, dataVars
    <2>7. Tree'
      BY <2>3, <2>4, <2>5, RightChildIs DEF PipeInv, Tree, Forked, Ended
    <2>8. ManagerEnds' /\ CommandEnds'
      BY <1>1, <2>3, <2>4, <2>5 DEF PipeInv, ManagerEnds, CommandEnds, dataVars
    <2>9. WaitsForAll'
      BY <2>3, <2>4, WaitsFrame DEF PipeInv, Ended
    <2>10. DataFlows'
      BY <1>1, <2>3, <2>5, FlowFrame DEF PipeInv
    <2> QED BY <2>6, <2>7, <2>8, <2>9, <2>10 DEF PipeInv
  <1>3. CASE k + 1 # N
    <2>1. RightChild(k) = Mgr(k + 1) /\ k + 1 \in Pipes
      BY <1>3, RightChildIs
    <2>2. {R(k)} = Stdin(k + 1)
      BY DEF Stdin
    <2>3. /\ pc[Mgr(k + 1)] = "forked"
          /\ pc'[Mgr(k + 1)] = "pipe" /\ fds'[Mgr(k + 1)] = Stdin(k + 1)
          /\ \A q \in Procs : q # Mgr(k + 1) => pc'[q] = pc[q] /\ fds'[q] = fds[q]
          /\ pc' \in [Procs -> MgrPCs \cup CmdPCs] /\ fds' \in [Procs -> SUBSET Ends]
      <3>1. /\ pc' = [pc EXCEPT ![Mgr(k + 1)] = "pipe"]
            /\ fds' = [fds EXCEPT ![Mgr(k + 1)] = {R(k)}]
        BY <1>1, <1>3, <2>1
      <3>2. {R(k)} \in SUBSET Ends
        OBVIOUS
      <3>3. "pipe" \in MgrPCs \cup CmdPCs /\ TypeOK
        BY DEF MgrPCs, PipeInv
      <3>4. /\ pc'[Mgr(k + 1)] = "pipe" /\ fds'[Mgr(k + 1)] = {R(k)}
            /\ \A q \in Procs : q # Mgr(k + 1) => pc'[q] = pc[q] /\ fds'[q] = fds[q]
            /\ pc' \in [Procs -> MgrPCs \cup CmdPCs] /\ fds' \in [Procs -> SUBSET Ends]
        BY <2>1, <3>1, <3>2, <3>3, OneMoves
      <3> QED BY <1>1, <2>1, <2>2, <3>4
    <2>4. \A j \in Pipes : j # k + 1
              => pc'[Mgr(j)] = pc[Mgr(j)] /\ fds'[Mgr(j)] = fds[Mgr(j)]
      BY <2>1, <2>3
    <2>5. \A c \in Commands : pc'[Cmd(c)] = pc[Cmd(c)] /\ fds'[Cmd(c)] = fds[Cmd(c)]
      BY <2>1, <2>3
    <2>6. TypeOK'
      BY <1>1, <2>3, <2>4, <2>5 DEF PipeInv, TypeOK, MgrPCs, CmdPCs, dataVars
    <2>7. Tree'
      <3> SUFFICES ASSUME NEW j \in Pipes PROVE Forked(j)'
        BY DEF Tree
      <3>1. Forked(j)
        BY DEF PipeInv, Tree
      <3>2. CASE RightChild(j) = Mgr(k + 1)
        <4>1. j # k + 1
          BY <2>1, <3>2, RightChildIs
        <4> QED BY <2>3, <2>4, <2>5, <3>1, <3>2, <4>1 DEF Forked, Ended
      <3>3. CASE RightChild(j) # Mgr(k + 1)
        <4>1. pc'[RightChild(j)] = pc[RightChild(j)]
          BY <2>3, <3>3, RightChildIs
        <4> QED BY <2>3, <2>4, <2>5, <3>1, <4>1 DEF Forked, Ended
      <3> QED BY <3>2, <3>3
    <2>8. ManagerEnds' /\ CommandEnds'
      BY <1>1, <2>3, <2>4, <2>5 DEF PipeInv, ManagerEnds, CommandEnds, dataVars
    <2>9. WaitsForAll'
      BY <2>1, <2>3, <2>4, WaitsFrame DEF PipeInv, Ended
    <2>10. DataFlows'
      BY <1>1, <2>5, FlowFrame DEF PipeInv
    <2> QED BY <2>6, <2>7, <2>8, <2>9, <2>10 DEF PipeInv
  <1> QED BY <1>2, <1>3

-----------------------------------------------------------------------------
(* The commands.                                                           *)

\* A command that begins to run, runs or ends: the managers are where they were.
LEMMA CommandMoves ==
    ASSUME PipeInv, NEW c \in Commands,
           pc[Cmd(c)] \in {"exec", "run"}, pc'[Cmd(c)] \in {"run", "gone"},
           fds'[Cmd(c)] \subseteq fds[Cmd(c)],
           \A q \in Procs : q # Cmd(c) => pc'[q] = pc[q] /\ fds'[q] = fds[q],
           cut \subseteq cut',
           pc'[Cmd(c)] = "run" /\ c \notin cut' => fds'[Cmd(c)] = fds[Cmd(c)]
    PROVE  /\ \A k \in Pipes : pc'[Mgr(k)] \in MgrPCs
           /\ \A d \in Commands : pc'[Cmd(d)] \in CmdPCs
           /\ Tree' /\ ManagerEnds' /\ CommandEnds' /\ WaitsForAll'
  <1> USE Numbers, Names
  <1>1. \A j \in Pipes : pc'[Mgr(j)] = pc[Mgr(j)] /\ fds'[Mgr(j)] = fds[Mgr(j)]
    OBVIOUS
  <1>2. \A d \in Commands : d # c => pc'[Cmd(d)] = pc[Cmd(d)] /\ fds'[Cmd(d)] = fds[Cmd(d)]
    OBVIOUS
  <1>3. /\ \A k \in Pipes : pc'[Mgr(k)] \in MgrPCs
        /\ \A d \in Commands : pc'[Cmd(d)] \in CmdPCs
    BY <1>1, <1>2 DEF PipeInv, TypeOK, CmdPCs
  <1>4. Tree'
    BY <1>1, <1>2, RightChildIs DEF PipeInv, Tree, Forked, Ended
  <1>5. ManagerEnds'
    BY <1>1 DEF PipeInv, ManagerEnds
  <1>6. CommandEnds'
    <2> SUFFICES ASSUME NEW d \in Commands
                 PROVE  /\ d # N /\ pc'[Cmd(d)] = "forked"
                              => fds'[Cmd(d)] = Stdin(d) \cup {R(d), W(d)}
                        /\ pc'[Cmd(d)] \in {"exec", "run"}
                              => fds'[Cmd(d)] \subseteq Stdin(d) \cup Stdout(d)
                        /\ pc'[Cmd(d)] = "exec" \/ (pc'[Cmd(d)] = "run" /\ d \notin cut')
                              => fds'[Cmd(d)] = Stdin(d) \cup Stdout(d)
      BY DEF CommandEnds
    <2>1. /\ d # N /\ pc[Cmd(d)] = "forked"
                => fds[Cmd(d)] = Stdin(d) \cup {R(d), W(d)}
          /\ pc[Cmd(d)] \in {"exec", "run"} => fds[Cmd(d)] \subseteq Stdin(d) \cup Stdout(d)
          /\ pc[Cmd(d)] = "exec" \/ (pc[Cmd(d)] = "run" /\ d \notin cut)
                => fds[Cmd(d)] = Stdin(d) \cup Stdout(d)
      BY DEF PipeInv, CommandEnds
    <2>2. CASE d # c
      <3>1. pc'[Cmd(d)] = pc[Cmd(d)] /\ fds'[Cmd(d)] = fds[Cmd(d)] /\ (d \notin cut' => d \notin cut)
        BY <1>2, <2>2
      <3> QED BY <2>1, <3>1
    <2>3. CASE d = c
      <3>1. fds'[Cmd(d)] \subseteq Stdin(d) \cup Stdout(d)
        BY <2>1, <2>3
      <3>2. pc'[Cmd(d)] = "run" /\ d \notin cut' => fds'[Cmd(d)] = Stdin(d) \cup Stdout(d)
        BY <2>1, <2>3
      <3> QED BY <2>3, <3>1, <3>2
    <2> QED BY <2>2, <2>3
  <1>7. WaitsForAll'
    BY <1>1, WaitsFrame DEF PipeInv, Ended
  <1> QED BY <1>3, <1>4, <1>5, <1>6, <1>7

\* A command ends, after all of its data or because it gave up.
LEMMA CommandGone ==
    ASSUME PipeInv, NEW c \in Commands, pc[Cmd(c)] \in {"exec", "run"},
           Exit(Cmd(c)), UNCHANGED <<buf, sent, held, out>>,
           cut' \in {cut, cut \cup {c}},
           NEW w \in [Commands -> 0..Items], Flow(w),
           cut' = {} => w[c] = Items
    PROVE  PipeInv'
  <1> USE Numbers, Names
  <1>1. /\ pc'[Cmd(c)] = "gone" /\ fds'[Cmd(c)] = {}
        /\ \A q \in Procs : q # Cmd(c) => pc'[q] = pc[q] /\ fds'[q] = fds[q]
        /\ pc' \in [Procs -> MgrPCs \cup CmdPCs] /\ fds' \in [Procs -> SUBSET Ends]
    <2>1. "gone" \in MgrPCs \cup CmdPCs /\ {} \in SUBSET Ends /\ TypeOK
      BY DEF CmdPCs, PipeInv
    <2> QED BY <2>1, OneMoves DEF Exit, ExitAs
  <1>2. cut \subseteq cut' /\ cut' \subseteq Commands /\ (cut' = {} => cut = {})
    BY DEF PipeInv, TypeOK
  <1>3. /\ \A k \in Pipes : pc'[Mgr(k)] \in MgrPCs
        /\ \A d \in Commands : pc'[Cmd(d)] \in CmdPCs
        /\ Tree' /\ ManagerEnds' /\ CommandEnds' /\ WaitsForAll'
    BY <1>1, <1>2, CommandMoves
  <1>4. TypeOK'
    BY <1>1, <1>2, <1>3 DEF PipeInv, TypeOK
  <1>5. Flow(w)'
    <2>1. \A d \in Commands : d # c => pc'[Cmd(d)] = pc[Cmd(d)] /\ fds'[Cmd(d)] = fds[Cmd(d)]
      BY <1>1
    <2>2. \A k \in Pipes : Piped(w, k) => Piped(w, k)'
      BY DEF Piped, Holding
    <2>3. \A k \in Pipes : Filed(w, k) => Filed(w, k)'
      BY <1>1, <1>2, <2>1 DEF Filed
    <2>4. \A k \in Pipes :
             /\ (Piped(w, k) \/ Filed(w, k))'
             /\ pc'[Cmd(k)] = "run" /\ W(k) \notin fds'[Cmd(k)] => Filed(w, k)'
      BY <1>1, <2>1, <2>2, <2>3 DEF Flow
    <2>5. \A d \in Commands :
             /\ pc'[Cmd(d)] \in {"none", "forked", "exec"} => w[d] = 0 /\ held'[d] = None
             /\ held'[d] # None => held'[d] = w[d] + 1
             /\ cut' = {} /\ pc'[Cmd(d)] = "gone" => w[d] = Items
      BY <1>1, <1>2, <2>1 DEF Flow
    <2> QED BY <2>4, <2>5 DEF Flow
  <1>6. DataFlows'
    BY <1>5 DEF DataFlows
  <1> QED BY <1>3, <1>4, <1>6 DEF PipeInv

\* A command that ends before its input does keeps PipeInv.
LEMMA StopEarlyInv ==
    ASSUME PipeInv, NEW c \in Commands, StopEarly(c)
    PROVE  PipeInv'
  <1>1. PICK w \in [Commands -> 0..Items] : Flow(w)
    BY DEF PipeInv, DataFlows
  <1>2. cut' # {}
    BY DEF StopEarly
  <1> QED BY <1>1, <1>2, CommandGone DEF StopEarly

\* The exec of a command, with its redirections, keeps PipeInv.
LEMMA ExecInv ==
    ASSUME PipeInv, NEW c \in Commands, Exec(c)
    PROVE  PipeInv'
  <1> USE Numbers, Names
  <1>1. PICK w \in [Commands -> 0..Items] : Flow(w)
    BY DEF PipeInv, DataFlows
  <1>2. PICK files \in SUBSET {R(c - 1), W(c)} :
           /\ fds' = [fds EXCEPT ![Cmd(c)] = fds[Cmd(c)] \ files]
           /\ cut' = IF files = {} THEN cut ELSE cut \cup {c}
    BY DEF Exec
  <1>3. /\ pc[Cmd(c)] = "exec" /\ pc' = [pc EXCEPT ![Cmd(c)] = "run"]
        /\ UNCHANGED <<buf, sent, held, out>>
    BY DEF Exec, Goto
  <1>4. /\ pc'[Cmd(c)] = "run" /\ fds'[Cmd(c)] = fds[Cmd(c)] \ files
        /\ \A q \in Procs : q # Cmd(c) => pc'[q] = pc[q] /\ fds'[q] = fds[q]
        /\ pc' \in [Procs -> MgrPCs \cup CmdPCs] /\ fds' \in [Procs -> SUBSET Ends]
    <2>1. fds[Cmd(c)] \ files \in SUBSET Ends
      BY DEF PipeInv, TypeOK
    <2>2. "run" \in MgrPCs \cup CmdPCs /\ TypeOK
      BY DEF CmdPCs, PipeInv
    <2> QED BY <1>2, <1>3, <2>1, <2>2, OneMoves
  <1>5. cut \subseteq cut' /\ cut' \subseteq Commands /\ (c \notin cut' => files = {})
    BY <1>2 DEF PipeInv, TypeOK
  <1>6. /\ \A k \in Pipes : pc'[Mgr(k)] \in MgrPCs
        /\ \A d \in Commands : pc'[Cmd(d)] \in CmdPCs
        /\ Tree' /\ ManagerEnds' /\ CommandEnds' /\ WaitsForAll'
    <2>1. /\ fds'[Cmd(c)] \subseteq fds[Cmd(c)]
          /\ c \notin cut' => fds'[Cmd(c)] = fds[Cmd(c)]
      BY <1>4, <1>5
    <2> QED BY <1>3, <1>4, <1>5, <2>1, CommandMoves
  <1>7. TypeOK'
    BY <1>3, <1>4, <1>5, <1>6 DEF PipeInv, TypeOK
  <1>8. Flow(w)'
    <2>1. \A d \in Commands : d # c => pc'[Cmd(d)] = pc[Cmd(d)] /\ fds'[Cmd(d)] = fds[Cmd(d)]
      BY <1>4
    <2>2. \A k \in Pipes : Piped(w, k) => Piped(w, k)'
      BY <1>3 DEF Piped, Holding
    <2>3. \A k \in Pipes : k # c /\ Filed(w, k) => Filed(w, k)'
      BY <1>3, <1>4, <1>5, <2>1 DEF Filed
    <2>4. ASSUME c \in Pipes
          PROVE  /\ Piped(w, c)
                 /\ W(c) \notin fds'[Cmd(c)] => Filed(w, c)'
      <3>1. Piped(w, c)
        BY <1>1, <1>3, <2>4 DEF Flow, Filed
      <3>2. w[c] = 0 /\ w[c + 1] \in Nat /\ Holding(c + 1) \in Nat /\ Len(buf[c]) \in Nat
        BY <1>1, <1>3, <2>4 DEF Flow, Holding, PipeInv, TypeOK
      <3>3. w[c + 1] = 0 /\ Holding(c + 1) = 0 /\ Len(buf[c]) = 0
        <4>1. w[c + 1] + Holding(c + 1) + Len(buf[c]) = 0
          BY <3>1, <3>2, Zenon DEF Piped
        <4> HIDE Numbers, Names
        <4> QED BY <3>2, <4>1, NothingAddsUp
      <3>4. held[c + 1] = None /\ buf[c] = <<>>
        BY <2>4, <3>3 DEF Holding, PipeInv, TypeOK
      <3>5. W(c) \in fds[Cmd(c)]
        BY <1>3, <2>4 DEF PipeInv, CommandEnds, Stdout
      <3>6. W(c) \notin fds'[Cmd(c)] => c \in cut'
        BY <1>4, <1>5, <3>5
      <3>7. held' = held /\ buf' = buf
        BY <1>3
      <3>8. W(c) \notin fds'[Cmd(c)] => Filed(w, c)'
        BY <1>4, <3>3, <3>4, <3>6, <3>7 DEF Filed
      <3> QED BY <3>1, <3>8
    <2>5. \A k \in Pipes :
             /\ (Piped(w, k) \/ Filed(w, k))'
             /\ pc'[Cmd(k)] = "run" /\ W(k) \notin fds'[Cmd(k)] => Filed(w, k)'
      <3> SUFFICES ASSUME NEW k \in Pipes
                   PROVE  /\ (Piped(w, k) \/ Filed(w, k))'
                          /\ pc'[Cmd(k)] = "run" /\ W(k) \notin fds'[Cmd(k)] => Filed(w, k)'
        OBVIOUS
      <3>1. CASE k = c
        BY <2>2, <2>4, <3>1, Zenon
      <3>2. CASE k # c
        <4>1. k \in Commands /\ (Piped(w, k) \/ Filed(w, k))
              /\ (pc[Cmd(k)] = "run" /\ W(k) \notin fds[Cmd(k)] => Filed(w, k))
          BY <1>1 DEF Flow
        <4> QED BY <2>1, <2>2, <2>3, <3>2, <4>1, Zenon
      <3> QED BY <3>1, <3>2
    <2>6. \A d \in Commands :
             /\ pc'[Cmd(d)] \in {"none", "forked", "exec"} => w[d] = 0 /\ held'[d] = None
             /\ held'[d] # None => held'[d] = w[d] + 1
             /\ cut' = {} /\ pc'[Cmd(d)] = "gone" => w[d] = Items
      <3>1. cut' = {} => cut = {}
        BY <1>5
      <3>2. held' = held /\ pc'[Cmd(c)] = "run"
        BY <1>3, <1>4
      <3>3. \A d \in Commands :
               /\ pc[Cmd(d)] \in {"none", "forked", "exec"} => w[d] = 0 /\ held[d] = None
               /\ held[d] # None => held[d] = w[d] + 1
               /\ cut = {} /\ pc[Cmd(d)] = "gone" => w[d] = Items
        BY <1>1 DEF Flow
      <3> QED BY <2>1, <3>1, <3>2, <3>3
    <2> QED BY <1>1, <1>3, <2>5, <2>6 DEF Flow
  <1>9. DataFlows'
    BY <1>8 DEF DataFlows
  <1> QED BY <1>6, <1>7, <1>9 DEF PipeInv

\* What a command has to write is the number after those it wrote, and there
\* is such a number.
LEMMA NextValue ==
    ASSUME PipeInv, NEW c \in Commands, ToWrite(c),
           NEW w \in [Commands -> 0..Items], Flow(w)
    PROVE  Value(c) = w[c] + 1 /\ w[c] + 1 \in 0..Items
  <1> USE Numbers, PipeAssumption
  <1>1. CASE c = 1
    <2>1. w[c] = sent /\ sent \in 0..Items /\ sent < Items /\ Value(c) = sent + 1
      BY <1>1 DEF ToWrite, Value, Flow, PipeInv, TypeOK
    <2>2. sent + 1 \in 0..Items
      BY <2>1
    <2> QED BY <2>1, <2>2, Zenon
  <1>2. CASE c # 1
    <2>1. held[c] # None /\ Value(c) = held[c] /\ held[c] = w[c] + 1
      BY <1>2 DEF ToWrite, Value, Flow
    <2>2. c - 1 \in Pipes /\ (c - 1) + 1 = c
      BY <1>2
    <2>3. Piped(w, c - 1)
      BY <2>1, <2>2 DEF Flow, Filed
    <2>4. w[c - 1] = w[c] + 1 + Len(buf[c - 1])
      BY <2>1, <2>2, <2>3 DEF Piped, Holding
    <2>5. /\ Len(buf[c - 1]) \in Nat /\ w[c - 1] \in Nat /\ w[c] \in Nat
          /\ w[c - 1] <= Items /\ Items \in Nat
      BY <2>2 DEF PipeInv, TypeOK
    <2>6. w[c] + 1 \in 0..Items
      BY <2>4, <2>5, OneMoreFits, Zenon
    <2> QED BY <2>1, <2>6, Zenon
  <1> QED BY <1>1, <1>2

\* The data after command c has written one more number, into pipe c or
\* elsewhere.
LEMMA WriteFlows ==
    ASSUME PipeInv, NEW c \in Commands, pc[Cmd(c)] = "run", ToWrite(c),
           NEW w \in [Commands -> 0..Items], Flow(w),
           Consume(c), UNCHANGED <<pc, fds, cut>>,
           \A k \in Pipes : k # c => buf'[k] = buf[k],
           NEW v, v = [w EXCEPT ![c] = w[c] + 1],
           v[N] = Len(out'), \A i \in 1..Len(out') : out'[i] = i,
           c \in Pipes => Piped(v, c)' \/ Filed(v, c)',
           c \in Pipes /\ W(c) \notin fds[Cmd(c)] => Filed(v, c)'
    PROVE  Flow(v)' /\ v \in [Commands -> 0..Items]
  <1> USE Numbers
  <1>1. w[c] + 1 \in 0..Items
    BY NextValue
  <1>2. v \in [Commands -> 0..Items] /\ v[c] = w[c] + 1 /\ \A d \in Commands : d # c => v[d] = w[d]
    BY <1>1
  <1>3. held'[c] = None /\ \A d \in Commands : d # c => held'[d] = held[d]
    BY DEF Consume, PipeInv, TypeOK
  <1>4. v[1] = sent'
    BY <1>2 DEF Consume, Flow
  <1>5. \A d \in Commands :
           /\ pc'[Cmd(d)] \in {"none", "forked", "exec"} => v[d] = 0 /\ held'[d] = None
           /\ held'[d] # None => held'[d] = v[d] + 1
           /\ cut' = {} /\ pc'[Cmd(d)] = "gone" => v[d] = Items
    BY <1>2, <1>3 DEF Flow
  <1>6. ASSUME NEW k \in Pipes, k # c, Piped(w, k)
        PROVE  Piped(v, k)'
    <2>1. v[k] = w[k] /\ buf'[k] = buf[k]
      BY <1>2, <1>6
    <2>2. v[k + 1] + Holding(k + 1)' = w[k + 1] + Holding(k + 1)
      <3>1. CASE k + 1 # c
        <4>1. held'[k + 1] = held[k + 1] /\ v[k + 1] = w[k + 1]
          BY <1>2, <1>3, <3>1
        <4>2. Holding(k + 1)' = Holding(k + 1)
          BY <4>1 DEF Holding
        <4> QED BY <4>1, <4>2
      <3>2. CASE k + 1 = c
        <4>1. held[c] # None /\ held'[c] = None
          BY <1>3, <3>2 DEF ToWrite
        <4>2. v[c] = w[c] + 1 /\ w[c] \in Nat
          BY <1>2, PipeAssumption
        <4>3. Holding(k + 1)' = 0 /\ Holding(k + 1) = 1
          BY <3>2, <4>1 DEF Holding
        <4>4. v[k + 1] = w[k + 1] + 1 /\ w[k + 1] \in Nat
          BY <3>2, <4>2
        <4> QED BY <4>3, <4>4
      <3> QED BY <3>1, <3>2
    <2> QED BY <1>6, <2>1, <2>2 DEF Piped
  <1>7. ASSUME NEW k \in Pipes, k # c, Filed(w, k)
        PROVE  Filed(v, k)'
    <2>1. k + 1 # c
      BY <1>7 DEF Filed, ToWrite
    <2> QED BY <1>2, <1>3, <1>7, <2>1 DEF Filed
  <1>8. \A k \in Pipes :
           /\ (Piped(v, k) \/ Filed(v, k))'
           /\ pc'[Cmd(k)] = "run" /\ W(k) \notin fds'[Cmd(k)] => Filed(v, k)'
    BY <1>6, <1>7 DEF Flow
  <1>9. held'[1] = None
    BY <1>3 DEF Flow
  <1> QED BY <1>2, <1>4, <1>5, <1>8, <1>9 DEF Flow

\* What a write that moves no process leaves alone.
LEMMA NoneMoves ==
    ASSUME PipeInv, UNCHANGED <<pc, fds, cut>>
    PROVE  Tree' /\ ManagerEnds' /\ CommandEnds' /\ WaitsForAll'
  <1>1. Tree' /\ ManagerEnds' /\ CommandEnds'
    BY DEF PipeInv, Tree, Forked, Ended, ManagerEnds, CommandEnds
  <1>2. WaitsForAll'
    BY Names, WaitsFrame DEF PipeInv
  <1> QED BY <1>1, <1>2

\* A write of a command keeps PipeInv: what it holds goes to its pipe.
LEMMA WriteInv ==
    ASSUME PipeInv, NEW c \in Commands, Write(c)
    PROVE  PipeInv'
  <1> USE Numbers, Names
  <1>1. PICK w \in [Commands -> 0..Items] : Flow(w)
    BY DEF PipeInv, DataFlows
  <1>2. pc[Cmd(c)] = "run" /\ ToWrite(c)
    BY DEF Write
  <1>3. Value(c) = w[c] + 1 /\ w[c] + 1 \in 0..Items
    BY <1>1, <1>2, NextValue
  <1> DEFINE v == [w EXCEPT ![c] = w[c] + 1]
  <1>4. v[c] = w[c] + 1 /\ \A d \in Commands : d # c => v[d] = w[d]
    BY <1>1
  <1>5. Consume(c) => sent' \in 0..Items /\ held' \in [Commands -> Nat]
    <2>1. sent \in 0..Items /\ held \in [Commands -> Nat] /\ None \in Nat
      BY DEF None, PipeInv, TypeOK
    <2>2. c = 1 => sent + 1 \in 0..Items
      BY <1>1, <1>3 DEF Flow
    <2> QED BY <2>1, <2>2 DEF Consume
  <1>6. CASE /\ W(c) \in fds[Cmd(c)]
             /\ buf' = [buf EXCEPT ![c] = Append(@, Value(c))]
             /\ Consume(c)
             /\ UNCHANGED <<pc, fds, out, cut>>
    <2>1. c \in Pipes /\ c # N
      <3>1. W(c) \in Ends
        BY <1>6 DEF PipeInv, TypeOK
      <3> QED BY <3>1
    <2>2. Piped(w, c)
      BY <1>1, <1>2, <1>6, <2>1 DEF Flow, Filed
    <2>3. buf[c] \in Seq(Nat) /\ Value(c) \in Nat
      BY <1>3, <2>1 DEF PipeInv, TypeOK
    <2>4. buf'[c] = Append(buf[c], w[c] + 1) /\ \A k \in Pipes : k # c => buf'[k] = buf[k]
      BY <1>3, <1>6, <2>1 DEF PipeInv, TypeOK
    <2>5. buf' \in [Pipes -> Seq(Nat)]
      <3>1. Append(buf[c], Value(c)) \in Seq(Nat)
        BY <2>3
      <3>2. buf' = [buf EXCEPT ![c] = Append(buf[c], Value(c))]
        BY <1>6
      <3> QED BY <3>1, <3>2 DEF PipeInv, TypeOK
    <2>6. Piped(v, c)'
      <3>1. v[c] = w[c] + 1 /\ v[c + 1] = w[c + 1] /\ held'[c + 1] = held[c + 1]
        BY <1>4, <1>6, <2>1 DEF Consume, PipeInv, TypeOK
      <3>2. Holding(c + 1)' = Holding(c + 1) /\ Holding(c + 1) \in Nat
        BY <3>1 DEF Holding
      <3>3. w[c] \in Nat /\ w[c + 1] \in Nat
        BY <1>1, <2>1, PipeAssumption
      <3> DEFINE b == w[c + 1] + Holding(c + 1)
      <3>4. /\ Len(buf'[c]) = Len(buf[c]) + 1 /\ Len(buf[c]) \in Nat
            /\ buf'[c][Len(buf[c]) + 1] = w[c] + 1
            /\ \A i \in 1..Len(buf[c]) : buf'[c][i] = buf[c][i]
        BY <2>3, <2>4, <3>3
      <3>5. w[c] = b + Len(buf[c]) /\ \A i \in 1..Len(buf[c]) : buf[c][i] = b + i
        BY <2>2 DEF Piped
      <3>6. b \in Nat /\ v[c + 1] + Holding(c + 1)' = b
        BY <3>1, <3>2, <3>3
      <3> HIDE DEF b, v
      <3>7. v[c] = b + Len(buf'[c])
        BY <3>1, <3>4, <3>5, <3>6
      <3>8. \A i \in 1..Len(buf'[c]) : buf'[c][i] = b + i
        <4> SUFFICES ASSUME NEW i \in 1..Len(buf'[c]) PROVE buf'[c][i] = b + i
          OBVIOUS
        <4> HIDE Numbers, Names
        <4>1. i \in 1..Len(buf[c]) \/ i = Len(buf[c]) + 1
          BY <3>4
        <4>2. CASE i \in 1..Len(buf[c])
          BY <3>4, <3>5, <4>2
        <4>3. CASE i = Len(buf[c]) + 1
          BY <3>4, <3>5, <3>6, <4>3
        <4> QED BY <4>1, <4>2, <4>3
      <3> QED BY <3>6, <3>7, <3>8 DEF Piped
    <2>7. v[N] = Len(out') /\ \A i \in 1..Len(out') : out'[i] = i
      BY <1>1, <1>4, <1>6, <2>1 DEF Flow
    <2> HIDE DEF v
    <2>8. Flow(v)' /\ v \in [Commands -> 0..Items]
      BY <1>1, <1>2, <1>6, <2>4, <2>6, <2>7, WriteFlows DEF v
    <2>9. DataFlows'
      BY <2>8 DEF DataFlows
    <2>10. TypeOK'
      BY <1>5, <1>6, <2>5 DEF PipeInv, TypeOK
    <2> QED BY <1>6, <2>9, <2>10, NoneMoves DEF PipeInv
  <1>7. CASE /\ Exit(Cmd(c))
             /\ cut' = cut \cup {c}
             /\ UNCHANGED <<buf, sent, held, out>>
    BY <1>1, <1>2, <1>7, CommandGone
  <1>8. CASE /\ W(c) \notin fds[Cmd(c)]
             /\ Consume(c)
             /\ out' = IF c = N THEN Append(out, Value(c)) ELSE out
             /\ UNCHANGED <<pc, fds, buf, cut>>
    <2>1. out \in Seq(Nat) /\ Value(c) \in Nat
      BY <1>3 DEF PipeInv, TypeOK
    <2>2. out' \in Seq(Nat)
      BY <1>8, <2>1
    <2>3. v[N] = Len(out') /\ \A i \in 1..Len(out') : out'[i] = i
      <3>1. w[N] = Len(out) /\ \A i \in 1..Len(out) : out[i] = i
        BY <1>1 DEF Flow
      <3>2. CASE c # N
        BY <1>4, <1>8, <3>1, <3>2
      <3>3. CASE c = N
        <4>1. out' = Append(out, Len(out) + 1)
          BY <1>3, <1>8, <3>1, <3>3
        <4>2. Len(out') = Len(out) + 1 /\ Len(out) \in Nat
          BY <2>1, <4>1
        <4>3. \A i \in 1..Len(out') : out'[i] = i
          <5> SUFFICES ASSUME NEW i \in 1..Len(out') PROVE out'[i] = i
            OBVIOUS
          <5>1. i \in 1..Len(out) \/ i = Len(out) + 1
            BY <4>2
          <5> QED BY <2>1, <3>1, <4>1, <4>2, <5>1
        <4> QED BY <1>4, <3>1, <3>3, <4>2, <4>3
      <3> QED BY <3>2, <3>3
    <2>4. c \in Pipes => Filed(v, c)'
      <3> SUFFICES ASSUME c \in Pipes PROVE Filed(v, c)'
        OBVIOUS
      <3>1. Filed(w, c)
        BY <1>1, <1>2, <1>8 DEF Flow
      <3>2. v[c + 1] = w[c + 1] /\ held'[c + 1] = held[c + 1]
        BY <1>4, <1>8 DEF Consume, PipeInv, TypeOK
      <3> HIDE DEF v
      <3> QED BY <1>8, <3>1, <3>2 DEF Filed
    <2> HIDE DEF v
    <2>5. Flow(v)' /\ v \in [Commands -> 0..Items]
      BY <1>1, <1>2, <1>8, <2>3, <2>4, WriteFlows DEF v
    <2>6. DataFlows'
      BY <2>5 DEF DataFlows
    <2>7. TypeOK'
      BY <1>5, <1>8, <2>2 DEF PipeInv, TypeOK
    <2> QED BY <1>8, <2>6, <2>7, NoneMoves DEF PipeInv
  <1> QED BY <1>6, <1>7, <1>8 DEF Write

\* An end of file means that the command before has ended, when none gave up.
LEMMA EndOfFile ==
    ASSUME PipeInv, NEW c \in Commands, c # 1, pc[Cmd(c)] = "run",
           ~Open(W(c - 1)), cut = {}
    PROVE  pc[Cmd(c - 1)] = "gone"
  <1> USE Numbers, Names
  <1> DEFINE k == c - 1
  <1>1. k \in Pipes /\ k + 1 = c /\ k \in Commands
    OBVIOUS
  <1> HIDE DEF k
  <1>2. pc[Cmd(k)] # "none"
    <2>1. Forked(k)
      BY <1>1 DEF PipeInv, Tree
    <2>2. CASE c = N
      BY <1>1, <2>1, <2>2, RightChildIs DEF Forked
    <2>3. CASE c # N
      <3>1. c \in Pipes /\ Forked(c)
        BY <2>3 DEF PipeInv, Tree
      <3>2. pc[Mgr(c)] # "none"
        BY <3>1 DEF Forked
      <3> QED BY <1>1, <2>1, <2>3, <3>2, RightChildIs DEF Forked
    <2> QED BY <2>2, <2>3
  <1>3. W(k) \notin fds[Cmd(k)]
    BY <1>1 DEF Open, k
  <1>4. k # N /\ W(k) \in Stdout(k)
    BY <1>1 DEF Stdout
  <1>5. pc[Cmd(k)] \notin {"forked", "exec", "run"}
    <2>1. /\ pc[Cmd(k)] = "forked" => fds[Cmd(k)] = Stdin(k) \cup {R(k), W(k)}
          /\ pc[Cmd(k)] \in {"exec", "run"} => fds[Cmd(k)] = Stdin(k) \cup Stdout(k)
      BY <1>1, <1>4 DEF PipeInv, CommandEnds
    <2> QED BY <1>3, <1>4, <2>1
  <1> QED BY <1>1, <1>2, <1>5 DEF PipeInv, TypeOK, CmdPCs, k

\* A read of a command keeps PipeInv: what it takes it holds.
LEMMA ReadInv ==
    ASSUME PipeInv, NEW c \in Commands, Read(c)
    PROVE  PipeInv'
  <1> USE Numbers, Names
  <1>1. PICK w \in [Commands -> 0..Items] : Flow(w)
    BY DEF PipeInv, DataFlows
  <1>2. pc[Cmd(c)] = "run" /\ ~ToWrite(c) /\ UNCHANGED <<sent, out, cut>>
    BY DEF Read
  <1>3. R(c - 1) \in fds[Cmd(c)] => c # 1 /\ c - 1 \in Pipes /\ held[c] = None
    <2> SUFFICES ASSUME R(c - 1) \in fds[Cmd(c)] PROVE c # 1
      BY <1>2 DEF ToWrite
    <2>1. R(c - 1) \in Ends
      BY DEF PipeInv, TypeOK
    <2> QED BY <2>1
  <1>4. CASE /\ R(c - 1) \in fds[Cmd(c)]
             /\ buf[c - 1] # <<>>
             /\ held' = [held EXCEPT ![c] = Head(buf[c - 1])]
             /\ buf' = [buf EXCEPT ![c - 1] = Tail(@)]
             /\ UNCHANGED <<pc, fds>>
    <2> DEFINE p == c - 1
    <2>1. p \in Pipes /\ p + 1 = c /\ held[c] = None /\ buf[p] # <<>> /\ buf[p] \in Seq(Nat)
      BY <1>3, <1>4 DEF PipeInv, TypeOK
    <2>2. /\ held' = [held EXCEPT ![c] = Head(buf[p])]
          /\ buf' = [buf EXCEPT ![p] = Tail(buf[p])]
      BY <1>4
    <2> HIDE DEF p
    <2>3. Piped(w, p)
      BY <1>1, <2>1 DEF Flow, Filed
    <2>4. w[c] \in Nat
      BY <1>1, PipeAssumption
    <2>5. /\ w[p] = w[c] + Len(buf[p])
          /\ \A i \in 1..Len(buf[p]) : buf[p][i] = w[c] + i
      <3>1. Holding(p + 1) = 0 /\ w[p + 1] = w[c]
        BY <2>1 DEF Holding
      <3>2. w[p + 1] + Holding(p + 1) = w[c]
        BY <2>4, <3>1
      <3> QED BY <2>3, <3>2 DEF Piped
    <2>6. /\ Len(buf[p]) \in Nat /\ Len(buf[p]) >= 1
          /\ 1 \in 1..Len(buf[p]) /\ Head(buf[p]) = buf[p][1]
      BY <2>1, NotEmptyPipe, Zenon
    <2>7. Head(buf[p]) = w[c] + 1
      BY <2>5, <2>6, Zenon
    <2>8. /\ held'[c] = w[c] + 1 /\ \A d \in Commands : d # c => held'[d] = held[d]
          /\ held' \in [Commands -> Nat]
      <3>1. held' = [held EXCEPT ![c] = w[c] + 1]
        BY <2>2, <2>7
      <3>2. w[c] + 1 \in Nat
        BY <2>4
      <3> QED BY <3>1, <3>2 DEF PipeInv, TypeOK
    <2>9. Tail(buf[p]) \in Seq(Nat) /\ Len(Tail(buf[p])) = Len(buf[p]) - 1
          /\ \A i \in 1..(Len(buf[p]) - 1) : Tail(buf[p])[i] = buf[p][i + 1]
      BY <2>1
    <2>10. /\ buf'[p] = Tail(buf[p]) /\ \A k \in Pipes : k # p => buf'[k] = buf[k]
           /\ buf' \in [Pipes -> Seq(Nat)]
      BY <2>1, <2>2, <2>9 DEF PipeInv, TypeOK
    <2>11. Piped(w, p)'
      <3>1. Holding(p + 1)' = 1
        BY <2>1, <2>4, <2>8 DEF Holding, None
      <3>2. w[p] = w[c] + 1 + Len(buf'[p])
        <4>1. Len(buf'[p]) = Len(buf[p]) - 1
          BY <2>9, <2>10
        <4>2. w[p] = w[c] + Len(buf[p])
          BY <2>5
        <4> HIDE Numbers, Names
        <4>3. w[c] + Len(buf[p]) = w[c] + 1 + (Len(buf[p]) - 1)
          BY <2>4, <2>6
        <4> QED BY <4>1, <4>2, <4>3
      <3>3. \A i \in 1..Len(buf'[p]) : buf'[p][i] = w[c] + 1 + i
        <4> SUFFICES ASSUME NEW i \in 1..Len(buf'[p]) PROVE buf'[p][i] = w[c] + 1 + i
          OBVIOUS
        <4>1. i \in 1..(Len(buf[p]) - 1) /\ i + 1 \in 1..Len(buf[p])
          BY <2>6, <2>9, <2>10
        <4>2. buf'[p][i] = buf[p][i + 1]
          BY <2>9, <2>10, <4>1
        <4>3. buf[p][i + 1] = w[c] + (i + 1)
          BY <2>5, <4>1
        <4> QED BY <2>4, <4>2, <4>3
      <3> QED BY <2>1, <3>1, <3>2, <3>3 DEF Piped
    <2>12. \A k \in Pipes : k # p => k + 1 # c
      <3>1. p \in Int /\ \A k \in Pipes : k \in Int
        BY <2>1
      <3> QED BY <2>1, <3>1, SameAfterOne, Zenon
    <2>13. \A k \in Pipes : k # p => (Piped(w, k) => Piped(w, k)')
      BY <2>8, <2>10, <2>12 DEF Piped, Holding
    <2>14. \A k \in Pipes : k # p => (Filed(w, k) => Filed(w, k)')
      BY <1>2, <1>4, <2>8, <2>10, <2>12 DEF Filed
    <2>15. \A k \in Pipes :
             /\ (Piped(w, k) \/ Filed(w, k))'
             /\ pc'[Cmd(k)] = "run" /\ W(k) \notin fds'[Cmd(k)] => Filed(w, k)'
      <3>1. ~Filed(w, p)
        BY <2>1 DEF Filed
      <3> QED BY <1>1, <1>4, <2>11, <2>13, <2>14, <3>1 DEF Flow
    <2>16. \A d \in Commands :
             /\ pc'[Cmd(d)] \in {"none", "forked", "exec"} => w[d] = 0 /\ held'[d] = None
             /\ held'[d] # None => held'[d] = w[d] + 1
             /\ cut' = {} /\ pc'[Cmd(d)] = "gone" => w[d] = Items
      BY <1>1, <1>2, <1>4, <2>8 DEF Flow
    <2>17. held'[1] = None
      BY <1>1, <1>3, <1>4, <2>8 DEF Flow
    <2>18. Flow(w)'
      BY <1>1, <1>2, <2>15, <2>16, <2>17 DEF Flow
    <2>19. DataFlows'
      BY <2>18 DEF DataFlows
    <2>20. TypeOK'
      BY <1>2, <1>4, <2>8, <2>10 DEF PipeInv, TypeOK
    <2> QED BY <1>2, <1>4, <2>19, <2>20, NoneMoves DEF PipeInv
  <1>5. CASE /\ R(c - 1) \in fds[Cmd(c)]
             /\ buf[c - 1] = <<>>
             /\ ~Open(W(c - 1))
             /\ Exit(Cmd(c))
             /\ UNCHANGED <<buf, held>>
    <2>1. ASSUME cut = {} PROVE w[c] = Items
      <3>1. c # 1 /\ c - 1 \in Pipes /\ (c - 1) + 1 = c /\ held[c] = None /\ c - 1 \in Commands
        BY <1>3, <1>5
      <3>2. w[c - 1] = Items
        BY <1>1, <1>2, <1>5, <2>1, <3>1, EndOfFile DEF Flow
      <3>3. Piped(w, c - 1)
        BY <1>1, <2>1, <3>1 DEF Flow, Filed
      <3>4. Len(buf[c - 1]) = 0 /\ Holding(c) = 0
        BY <1>5, <3>1 DEF Holding
      <3>5. w[c] \in Nat
        BY <1>1, PipeAssumption
      <3> QED BY <3>1, <3>2, <3>3, <3>4, <3>5 DEF Piped
    <2> QED BY <1>1, <1>2, <1>5, <2>1, CommandGone
  <1>6. CASE /\ R(c - 1) \notin fds[Cmd(c)]
             /\ Exit(Cmd(c))
             /\ UNCHANGED <<buf, held>>
    <2>1. ASSUME cut = {} PROVE w[c] = Items
      <3>1. CASE c = 1
        BY <1>1, <1>2, <3>1, PipeAssumption DEF ToWrite, Flow, PipeInv, TypeOK
      <3>2. CASE c # 1
        <4>1. fds[Cmd(c)] = Stdin(c) \cup Stdout(c)
          BY <1>2, <2>1 DEF PipeInv, CommandEnds
        <4>2. R(c - 1) \in Stdin(c)
          BY <3>2 DEF Stdin
        <4> QED BY <1>6, <4>1, <4>2
      <3> QED BY <3>1, <3>2
    <2> QED BY <1>1, <1>2, <1>6, <2>1, CommandGone
  <1> QED BY <1>4, <1>5, <1>6 DEF Read

-----------------------------------------------------------------------------
(* The theorems.                                                           *)

\* Every step keeps PipeInv.
LEMMA PipeStep == PipeInv /\ [Next]_vars => PipeInv'
  <1> SUFFICES ASSUME PipeInv, [Next]_vars PROVE PipeInv'
    OBVIOUS
  <1>1. CASE UNCHANGED vars
    <2>1. UNCHANGED <<pc, fds, cut, buf, sent, held, out>>
      BY <1>1 DEF vars
    <2>2. TypeOK'
      BY <2>1 DEF PipeInv, TypeOK
    <2>3. DataFlows'
      BY <2>1 DEF PipeInv, DataFlows, Flow, Piped, Filed, Holding
    <2> QED BY <2>1, <2>2, <2>3, NoneMoves DEF PipeInv
  <1>2. CASE \E k \in Pipes : ManagerStep(k) \/ LeftStart(k) \/ RightStart(k)
    BY <1>2, MakePipeInv, ForkLeftInv, ForkRightInv, CloseEndsInv, WaitLeftInv,
       WaitRightInv, LeftStartInv, RightStartInv DEF ManagerStep
  <1>3. CASE \E c \in Commands : CommandStep(c) \/ StopEarly(c)
    BY <1>3, ExecInv, WriteInv, ReadInv, StopEarlyInv DEF CommandStep
  <1> QED BY <1>1, <1>2, <1>3 DEF Next

\* PipeInv is an invariant of exec_cmd's pipelines of any length.
THEOREM PipeSafe == Spec => []PipeInv
  BY PipeInit, PipeStep, PTL DEF Spec

\* A manager of a pipe exits after everything it started, at any depth.
THEOREM PipelineAwaited == Spec => []WaitsForAll
  <1>1. PipeInv => WaitsForAll
    BY DEF PipeInv
  <1> QED BY <1>1, PipeSafe, PTL

\* What comes out is what was written, in order, and all of it when no command
\* gave up: an end of file is never read too early.
THEOREM AllArrives == Spec => []NothingLost
  <1>1. PipeInv => NothingLost
    <2> SUFFICES ASSUME PipeInv PROVE NothingLost
      OBVIOUS
    <2>1. PICK w \in [Commands -> 0..Items] : Flow(w)
      BY DEF PipeInv, DataFlows
    <2>2. w[N] = Len(out) /\ \A i \in 1..Len(out) : out[i] = i
      BY <2>1 DEF Flow
    <2>3. DOMAIN out = 1..Len(out)
      BY DEF PipeInv, TypeOK
    <2>4. pc[Cmd(N)] = "gone" /\ cut = {} => w[N] = Items
      BY <2>1, Numbers DEF Flow
    <2> QED BY <2>2, <2>3, <2>4 DEF NothingLost
  <1> QED BY <1>1, PipeSafe, PTL

\* No pipe end leaks into a command.
THEOREM EndsDoNotLeak == Spec => []NoLeakedEnds
  <1>1. PipeInv => NoLeakedEnds
    BY DEF PipeInv, CommandEnds, NoLeakedEnds, Stdin, Stdout
  <1> QED BY <1>1, PipeSafe, PTL
=============================================================================
