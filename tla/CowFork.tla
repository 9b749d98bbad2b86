------------------------------- MODULE CowFork -------------------------------
(***************************************************************************)
(* fork in user space: copy-on-write fork and fork_v0 (lib/fork.c),        *)
(* dumbfork (user/dumbfork.c), set_pgfault_handler (lib/pgfault.c), the    *)
(* fault handler with its assembly wrapper (lib/pfentry.S) and what the    *)
(* kernel does on a page fault (kern/trap.c).                              *)
(*                                                                         *)
(* Each system call is a step, on the page tables of PageOps, and so is    *)
(* each store and each copy of a page.  Between two steps of fork the      *)
(* parent may write its stack, which is one of the pages that fork is      *)
(* sharing; other environments run in between as well.                     *)
(*                                                                         *)
(* A program has a page of data and a page of stack, and beside them the   *)
(* exception stack and two addresses for temporary mappings.               *)
(***************************************************************************)
EXTENDS PageOps, Sequences, FiniteSetsExt

CONSTANTS
    Value,       \* contents of a page; 0 is a cleared page
    ForkKinds,   \* the forks that programs call: "cow", "v0" or "dumb"
    MaxForks     \* bound on how many environments sys_exofork makes

UTEMP == 0
PFTEMP == 1
DATA == 2
STACK == 3
EXSTACK == 4     \* UXSTACKTOP - PGSIZE

UserVa == {DATA, STACK}

NoEnv == "none"
Absent == -1

ASSUME ForkAssumption ==
    /\ NVA = 5
    /\ NPAGES # 0
    /\ 0 \in Value
    /\ ForkKinds \subseteq {"cow", "v0", "dumb"}
    /\ MaxForks \in Nat
    /\ NoEnv \notin Env
    /\ Absent \notin Env \cup Value

\* All mappings of a page fit into its count: NENV * 5 is below 2^16.
ASSUME ShareAssumption == Cardinality(Env) * NVA < MaxRef

VARIABLES
    m,           \* pages and page tables
    data,        \* contents of the pages
    env_pgfault_upcall,
    handler,     \* _pgfault_handler is set (a global of the program)
    pc,          \* where an environment is
    fork_kind,   \* the fork that the program calls (the same in its children)
    fork_child, fork_va, fork_pte,   \* envid, pnum and pte in a fork
    utf,         \* the frames on an exception stack, the newest first
    forks        \* calls of sys_exofork so far, for their bound only

forkVars == <<fork_child, fork_va, fork_pte>>
progVars == <<env_pgfault_upcall, handler>>
vars == <<m, data, progVars, pc, fork_kind, forkVars, utf, forks>>

ForkPCs == {"exofork", "loop", "share", "mark", "alloc", "temp", "copy",
            "untemp", "xstack", "upcall", "status"}
FaultPCs == {"alloc", "copy", "map", "unmap", "ret"}

TypeOK ==
    /\ m \in Memory
    /\ data \in [Page -> Value]
    /\ env_pgfault_upcall \in [Env -> BOOLEAN]
    /\ handler \in [Env -> BOOLEAN]
    /\ pc \in [Env -> ForkPCs \cup {"free", "embryo", "run", "panic"}]
    /\ fork_kind \in ForkKinds
    /\ fork_child \in [Env -> Env \cup {NoEnv}]
    /\ fork_va \in [Env -> 0..NVA]
    /\ fork_pte \in [Env -> SUBSET Flag]
    /\ forks \in 0..MaxForks
    /\ \A e \in Env :
          /\ Len(utf[e]) <= 2
          /\ \A i \in DOMAIN utf[e] : utf[e][i] \in UserVa \X FaultPCs

-----------------------------------------------------------------------------

\* What load_icode makes of the first environment.
Loaded(e) ==
    LET empty == [page_free_list |-> Page,
                  pp_ref |-> [p \in Page |-> 0],
                  env_pgdir |-> [x \in Env |-> NoPage],
                  pde |-> [x \in Env |-> [i \in Pdx |-> NoPage]],
                  pte |-> [x \in Env |-> [va \in Va |-> Zero]],
                  double_free |-> FALSE]
        region_alloc(mm, va) == env_page_alloc(mm, e, va, {"W"}).mem
    IN  region_alloc(region_alloc(env_setup_vm(empty, e), DATA), STACK)

Init ==
    \E e \in Env :
        /\ m = Loaded(e)
        /\ \A va \in UserVa : Mapped(m, e, va)   \* or load_icode panics
        /\ data = [p \in Page |-> 0]
        /\ env_pgfault_upcall = [x \in Env |-> FALSE]
        /\ handler = [x \in Env |-> FALSE]
        /\ pc = [x \in Env |-> IF x = e THEN "run" ELSE "free"]
        /\ fork_kind \in ForkKinds
        /\ fork_child = [x \in Env |-> NoEnv]
        /\ fork_va = [x \in Env |-> 0]
        /\ fork_pte = [x \in Env |-> {}]
        /\ utf = [x \in Env |-> <<>>]
        /\ forks = 0

\* Nobody reads a free page, and page_alloc(ALLOC_ZERO) clears it: it counts as
\* clear from the moment it is freed.
SetMem(mm) ==
    /\ m' = mm
    /\ data' = [p \in Page |-> IF p \in mm.page_free_list THEN 0 ELSE data[p]]

Goto(e, l) == pc' = [pc EXCEPT ![e] = l]

\* A system call of e: the library panics over every error.
Syscall(e, r, l) ==
    /\ SetMem(r.mem)
    /\ Goto(e, IF r.ret = "ok" THEN l ELSE "panic")

PageAt(e, va) == m.pte[e][va].page
Perm(e, va) == m.pte[e][va].perm

\* memmove of a page.
CopyTo(e, dst, src) ==
    data' = [data EXCEPT ![PageAt(e, dst)] = data[PageAt(e, src)]]

\* e executes its program or fork; in the fault handler it executes that.
Executes(e) == utf[e] = <<>> /\ pc[e] \notin {"free", "embryo", "panic"}

-----------------------------------------------------------------------------
(* The end of an environment                                               *)

\* The loops of env_free: first every entry, then every table.
remove_entries(mm, e) ==
    LET done[n \in 0..NVA] ==
            IF n = 0 THEN mm ELSE page_remove(done[n - 1], e, n - 1)
    IN  done[NVA]

free_tables(mm, e) ==
    LET done[n \in 0..NVA] ==
            IF n = 0 THEN mm
            ELSE IF HasTable(done[n - 1], e, n - 1)
            THEN free_table(done[n - 1], e, PDX[n - 1])
            ELSE done[n - 1]
    IN  done[NVA]

env_free(mm, e) == free_pgdir(free_tables(remove_entries(mm, e), e), e)

Reset(e) ==
    /\ fork_child' = [fork_child EXCEPT ![e] = NoEnv]
    /\ fork_va' = [fork_va EXCEPT ![e] = 0]
    /\ fork_pte' = [fork_pte EXCEPT ![e] = {}]

EnvDestroy(e) ==
    /\ SetMem(env_free(m, e))
    /\ env_pgfault_upcall' = [env_pgfault_upcall EXCEPT ![e] = FALSE]
    /\ handler' = [handler EXCEPT ![e] = FALSE]
    /\ utf' = [utf EXCEPT ![e] = <<>>]

Exit(e) ==
    /\ Executes(e) /\ pc[e] = "run"
    /\ EnvDestroy(e)
    /\ Goto(e, "free")
    /\ UNCHANGED forkVars

-----------------------------------------------------------------------------
(* Stores and page faults                                                  *)

\* page_fault_handler: without an upcall, or a stack for it, the environment is
\* destroyed.
PageFault(e, va) ==
    IF env_pgfault_upcall[e] /\ user_mem_check(m, e, EXSTACK, {"W"})
    THEN /\ utf' = [utf EXCEPT ![e] = <<<<va, "alloc">>>> \o @]
         /\ UNCHANGED <<m, data, progVars, pc, forkVars>>
    ELSE EnvDestroy(e) /\ Goto(e, "free") /\ Reset(e)

\* A store; inside fork only to the stack.
Store(e, va, x) ==
    /\ Executes(e)
    /\ pc[e] = "run" \/ va = STACK
    /\ IF user_mem_check(m, e, va, {"W"})
       THEN /\ data' = [data EXCEPT ![PageAt(e, va)] = x]
            /\ UNCHANGED <<m, progVars, pc, forkVars, utf>>
       ELSE PageFault(e, va)

InHandler(e, l) == utf[e] # <<>> /\ utf[e][1][2] = l /\ pc[e] # "panic"
Handler(e, l) == utf' = [utf EXCEPT ![e][1][2] = l]

\* pgfault.  Its test for a page that is not copy-on-write never holds: it is
\* the conjunction of bit 1 of err and a Boolean, which is 0.
PfAlloc(e) ==
    /\ InHandler(e, "alloc")
    /\ Syscall(e, env_page_alloc(m, e, PFTEMP, {"W"}), pc[e])
    /\ Handler(e, "copy")
    /\ UNCHANGED <<progVars, forkVars>>

PfCopy(e) ==
    /\ InHandler(e, "copy")
    /\ CopyTo(e, PFTEMP, utf[e][1][1])
    /\ Handler(e, "map")
    /\ UNCHANGED <<m, progVars, pc, forkVars>>

PfMap(e) ==
    /\ InHandler(e, "map")
    /\ Syscall(e, env_page_map(m, e, PFTEMP, e, utf[e][1][1], {"W"}), pc[e])
    /\ Handler(e, "unmap")
    /\ UNCHANGED <<progVars, forkVars>>

PfUnmap(e) ==
    /\ InHandler(e, "unmap")
    /\ SetMem(page_remove(m, e, PFTEMP))
    /\ Handler(e, "ret")
    /\ UNCHANGED <<progVars, pc, forkVars>>

\* The end of _pgfault_upcall pushes the return address on the stack of the
\* code that faulted, which may fault in turn: below the newest frame that is
\* the program's stack, and below a second one the exception stack itself.
PfRet(e) ==
    /\ InHandler(e, "ret")
    /\ IF Len(utf[e]) = 1 /\ ~user_mem_check(m, e, STACK, {"W"})
       THEN PageFault(e, STACK)
       ELSE /\ utf' = [utf EXCEPT ![e] = Tail(@)]
            /\ UNCHANGED <<m, data, progVars, pc, forkVars>>

Fault(e) == PfAlloc(e) \/ PfCopy(e) \/ PfMap(e) \/ PfUnmap(e) \/ PfRet(e)

-----------------------------------------------------------------------------
(* fork, fork_v0, dumbfork                                                 *)

\* set_pgfault_handler, the first time: when there is no page for the exception
\* stack it returns as if nothing had happened.
SetHandler(e) ==
    LET r == env_page_alloc(m, e, EXSTACK, {"W"})
    IN  /\ SetMem(r.mem)
        /\ handler' = [handler EXCEPT ![e] = r.ret = "ok"]
        /\ env_pgfault_upcall' =
              [env_pgfault_upcall EXCEPT ![e] = @ \/ r.ret = "ok"]

ForkEnter(e) ==
    /\ Executes(e) /\ pc[e] = "run"
    /\ IF fork_kind = "cow" /\ ~handler[e]
       THEN SetHandler(e)
       ELSE UNCHANGED <<m, data, progVars>>
    /\ Goto(e, "exofork")
    /\ UNCHANGED <<forkVars, utf>>

Exofork(e, c) ==
    /\ Executes(e) /\ pc[e] = "exofork"
    /\ pc[c] = "free" /\ HasFree(m)
    /\ forks < MaxForks
    /\ forks' = forks + 1
    /\ SetMem(env_setup_vm(m, c))
    /\ pc' = [pc EXCEPT ![e] = "loop", ![c] = "embryo"]
    /\ fork_child' = [fork_child EXCEPT ![e] = c]
    /\ UNCHANGED <<progVars, fork_va, fork_pte, utf>>

ExoforkFails(e) ==
    /\ Executes(e) /\ pc[e] = "exofork"
    /\ ~HasFree(m) \/ \A c \in Env : pc[c] # "free"
    /\ Goto(e, "panic")
    /\ UNCHANGED <<m, data, progVars, forkVars, utf>>

\* A bug for the runs: the exception stack is shared like any other page.
ConsideredAll(e, va) == Mapped(m, e, va)

\* The pages that a fork looks at.
Considered(e, va) ==
    CASE fork_kind = "cow" -> va # EXSTACK /\ Mapped(m, e, va)
      [] fork_kind = "v0" -> Mapped(m, e, va)
      [] fork_kind = "dumb" -> va \in UserVa

ToDo(e) == {va \in Va : va >= fork_va[e] /\ Considered(e, va)}

\* How the next page goes to the child, decided by the entry read from uvpt.
Way(e, pte) ==
    IF fork_kind = "cow" \/ (fork_kind = "v0" /\ "W" \notin pte)
    THEN "share" ELSE "alloc"

Loop(e) ==
    /\ Executes(e) /\ pc[e] = "loop"
    /\ IF ToDo(e) # {}
       THEN LET va == Min(ToDo(e))
            IN  /\ fork_va' = [fork_va EXCEPT ![e] = va]
                /\ fork_pte' = [fork_pte EXCEPT ![e] = Perm(e, va)]
                /\ Goto(e, Way(e, Perm(e, va)))
       ELSE /\ fork_va' = [fork_va EXCEPT ![e] = NVA]
            /\ Goto(e, IF fork_kind = "cow" THEN "xstack" ELSE "status")
            /\ UNCHANGED fork_pte
    /\ UNCHANGED <<m, data, progVars, fork_child, utf>>

NextVa(e) ==
    /\ fork_va' = [fork_va EXCEPT ![e] = @ + 1]
    /\ fork_pte' = [fork_pte EXCEPT ![e] = {}]
    /\ UNCHANGED fork_child

AtPage(e, l) == Executes(e) /\ pc[e] = l

\* duppage of fork.c, first call: into the child, copy-on-write if the entry
\* was writable or copy-on-write.  (dup_or_share: read-only.)
Share(e) ==
    /\ AtPage(e, "share")
    /\ LET va == fork_va[e]
           cow == fork_kind = "cow" /\ fork_pte[e] \cap {"W", "COW"} # {}
           perm == IF cow THEN {"COW"} ELSE {}
       IN  /\ Syscall(e, env_page_map(m, e, va, fork_child[e], va, perm),
                      IF cow THEN "mark" ELSE "loop")
           /\ IF cow THEN UNCHANGED forkVars ELSE NextVa(e)
    /\ UNCHANGED <<progVars, utf>>

\* A bug for the runs: a page that is copy-on-write already is not marked again.
MarkIfWritable(e) ==
    /\ AtPage(e, "mark")
    /\ IF "COW" \in fork_pte[e]
       THEN Goto(e, "loop") /\ UNCHANGED <<m, data>>
       ELSE Syscall(e, env_page_map(m, e, fork_va[e], e, fork_va[e], {"COW"}),
                    "loop")
    /\ NextVa(e)
    /\ UNCHANGED <<progVars, utf>>

\* duppage, second call: the parent's own entry, again even if it was
\* copy-on-write before.
Mark(e) ==
    /\ AtPage(e, "mark")
    /\ Syscall(e, env_page_map(m, e, fork_va[e], e, fork_va[e], {"COW"}), "loop")
    /\ NextVa(e)
    /\ UNCHANGED <<progVars, utf>>

\* dup_or_share and duppage of dumbfork.c: a page for the child, seen by the
\* parent at UTEMP while it copies.
Alloc(e) ==
    /\ AtPage(e, "alloc")
    /\ Syscall(e, env_page_alloc(m, fork_child[e], fork_va[e], {"W"}), "temp")
    /\ UNCHANGED <<progVars, forkVars, utf>>

Temp(e) ==
    /\ AtPage(e, "temp")
    /\ Syscall(e, env_page_map(m, fork_child[e], fork_va[e], e, UTEMP, {"W"}),
               "copy")
    /\ UNCHANGED <<progVars, forkVars, utf>>

Copy(e) ==
    /\ AtPage(e, "copy")
    /\ CopyTo(e, UTEMP, fork_va[e])
    /\ Goto(e, "untemp")
    /\ UNCHANGED <<m, progVars, forkVars, utf>>

Untemp(e) ==
    /\ AtPage(e, "untemp")
    /\ SetMem(page_remove(m, e, UTEMP))
    /\ Goto(e, "loop")
    /\ NextVa(e)
    /\ UNCHANGED <<progVars, utf>>

\* The end of fork: the child's exception stack and upcall.
XStack(e) ==
    /\ AtPage(e, "xstack")
    /\ Syscall(e, env_page_alloc(m, fork_child[e], EXSTACK, {"W"}), "upcall")
    /\ UNCHANGED <<progVars, forkVars, utf>>

\* sys_env_set_pgfault_upcall.  Without an upcall of the parent's own the address
\* is 0, where nothing is mapped, and user_mem_assert destroys the child.
Upcall(e) ==
    /\ AtPage(e, "upcall")
    /\ LET c == fork_child[e]
       IN  IF env_pgfault_upcall[e]
           THEN /\ env_pgfault_upcall' = [env_pgfault_upcall EXCEPT ![c] = TRUE]
                /\ Goto(e, "status")
                /\ UNCHANGED <<m, data, handler, fork_child, utf>>
           ELSE /\ EnvDestroy(c)
                /\ pc' = [pc EXCEPT ![e] = "status", ![c] = "free"]
                /\ fork_child' = [fork_child EXCEPT ![e] = NoEnv]
    /\ UNCHANGED <<fork_va, fork_pte>>

\* sys_env_set_status; the child has the parent's globals.
Status(e) ==
    /\ AtPage(e, "status")
    /\ LET c == fork_child[e]
       IN  IF c = NoEnv
           THEN Goto(e, "panic") /\ UNCHANGED <<handler, forkVars>>
           ELSE /\ pc' = [pc EXCEPT ![e] = "run", ![c] = "run"]
                /\ handler' = [handler EXCEPT ![c] = handler[e]]
                /\ Reset(e)
    /\ UNCHANGED <<m, data, env_pgfault_upcall, utf>>

Fork(e) ==
    \/ ForkEnter(e) \/ ExoforkFails(e)
    \/ Loop(e) \/ Share(e) \/ Mark(e)
    \/ Alloc(e) \/ Temp(e) \/ Copy(e) \/ Untemp(e)
    \/ XStack(e) \/ Upcall(e) \/ Status(e)

Next ==
    /\ \E e \in Env :
          \/ \E c \in Env : Exofork(e, c)
          \/ /\ \/ \E va \in UserVa, x \in Value : Store(e, va, x)
                \/ Fault(e)
                \/ Fork(e)
                \/ Exit(e)
             /\ UNCHANGED forks
    /\ UNCHANGED fork_kind

Spec == Init /\ [][Next]_vars

-----------------------------------------------------------------------------
(* fork keeps its promise.                                                 *)

ParentOf(c) == IF \E e \in Env : fork_child[e] = c
               THEN CHOOSE e \in Env : fork_child[e] = c
               ELSE Absent

\* The page of an embryo counts once the parent is done with it: it has copied
\* the contents, or it cannot write the shared page any more.  A parent that
\* failed before it copied is never done.
InTheMaking(c, va) ==
    \E e \in Env :
        /\ fork_child[e] = c /\ fork_va[e] = va
        /\ \/ pc[e] \in {"temp", "copy"}
           \/ pc[e] = "panic" /\ fork_kind # "cow"
           \/ pc[e] = "mark" /\ m.pte[e][va] = [page |-> PageAt(c, va),
                                                perm |-> {"W"}]

Visible(e, va) == IF Mapped(m, e, va) /\ ~InTheMaking(e, va)
                  THEN data[PageAt(e, va)] ELSE Absent

\* To every environment its memory looks private: copy-on-write sharing, the
\* order of the two calls of duppage, writes to the stack in between, nested
\* faults and the pages freed by others never show.
Private == INSTANCE PrivateMemory WITH
    Stack <- STACK,
    state <- [e \in Env |-> IF pc[e] \in {"free", "embryo"} THEN pc[e]
                                                            ELSE "live"],
    parent <- [e \in Env |-> IF pc[e] = "embryo" THEN ParentOf(e) ELSE Absent],
    memory <- [e \in Env |-> [va \in UserVa |-> Visible(e, va)]]

IsPrivateMemory == Private!Spec

\* An environment that was made by fork can take a fault: while it has a
\* copy-on-write page it has an upcall and an exception stack of its own.
CowIsHandled ==
    \A e \in Env :
        (pc[e] = "run" /\ utf[e] = <<>>) =>
            \/ \A va \in UserVa : "COW" \notin Perm(e, va)
            \/ /\ env_pgfault_upcall[e]
               /\ user_mem_check(m, e, EXSTACK, {"W"})
               /\ PteRefs(m, PageAt(e, EXSTACK)) = {<<e, EXSTACK>>}
=============================================================================
