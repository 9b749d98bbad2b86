-------------------------------- MODULE Pmap --------------------------------
(***************************************************************************)
(* Memory in the running kernel: environments on several CPUs that         *)
(* allocate, share and unmap pages (kern/syscall.c), send pages by IPC and *)
(* are freed page by page (env_free), with the page tables that the CPUs   *)
(* have loaded and what their TLBs remember.                               *)
(*                                                                         *)
(* A system call is one step that ends on its way back ("ret"), because    *)
(* the TLB is only flushed when env_run loads the page table again.  The   *)
(* loop of env_free is one step per iteration.  The big lock keeps other   *)
(* CPUs out meanwhile.  Kernel has the life cycle in detail; here the      *)
(* scheduler picks any runnable environment, and a slot any free one.      *)
(***************************************************************************)
EXTENDS PageOps

CONSTANTS
    Cpu,
    LoadVas,   \* what load_icode maps for the first environment
    Perms,     \* permissions that programs ask for
    Misuse     \* what programs do beyond the library's ways

NoEnv == "none"
NotRecving == -1
KernDir == "kern_pgdir"

ASSUME CpuAssumption ==
    /\ {NoEnv, KernDir} \cap Env = {}
    /\ LoadVas \subseteq Va
    /\ Perms \subseteq SUBSET Flag
    /\ Misuse \subseteq {"remap"}

VARIABLES
    m,                 \* pages and page tables
    env_status, env_parent_id,
    env_ipc_dstva,     \* where an environment receives, if it does
    curenv, cr3, tlb,  \* per CPU
    pc, victim         \* where a CPU is; what it is freeing or loading

envVars == <<env_status, env_parent_id>>
cpuVars == <<curenv, cr3, tlb>>
vars == <<m, envVars, env_ipc_dstva, cpuVars, pc, victim>>

LockedPCs == {"boot", "load", "ret", "sched", "free", "monitor", "panic"}

TypeOK ==
    /\ m \in Memory
    /\ env_status \in [Env -> {"FREE", "DYING", "RUNNABLE", "RUNNING",
                               "NOT_RUNNABLE"}]
    /\ env_parent_id \in [Env -> Env \cup {NoEnv}]
    /\ env_ipc_dstva \in [Env -> Va \cup {NotRecving}]
    /\ curenv \in [Cpu -> Env \cup {NoEnv}]
    /\ cr3 \in [Cpu -> Env \cup {KernDir}]
    /\ tlb \in [Cpu -> [Va -> PTE]]
    /\ pc \in [Cpu -> LockedPCs \cup {"user", "halt"}]
    /\ victim \in Env \cup {NoEnv}

NoTlb == [va \in Va |-> Zero]

-----------------------------------------------------------------------------
(* Boot                                                                    *)

Init ==
    /\ m = [page_free_list |-> Page,
            pp_ref |-> [p \in Page |-> 0],
            env_pgdir |-> [e \in Env |-> NoPage],
            pde |-> [e \in Env |-> [x \in Pdx |-> NoPage]],
            pte |-> [e \in Env |-> [va \in Va |-> Zero]],
            double_free |-> FALSE]
    /\ env_status = [e \in Env |-> "FREE"]
    /\ env_parent_id = [e \in Env |-> NoEnv]
    /\ env_ipc_dstva = [e \in Env |-> NotRecving]
    /\ curenv = [c \in Cpu |-> NoEnv]
    /\ cr3 = [c \in Cpu |-> KernDir]
    /\ tlb = [c \in Cpu |-> NoTlb]
    /\ \E boot \in Cpu :
          pc = [c \in Cpu |-> IF c = boot THEN "boot" ELSE "halt"]
    /\ victim = NoEnv

LoadCr3(c, dir) ==
    /\ cr3' = [cr3 EXCEPT ![c] = dir]
    /\ tlb' = [tlb EXCEPT ![c] = NoTlb]

Panic(c) == pc' = [pc EXCEPT ![c] = "panic"]

\* env_alloc, for env_create and sys_exofork: a page directory or E_NO_MEM.
EnvAlloc(e, parent, status) ==
    /\ env_status[e] = "FREE"
    /\ HasFree(m)
    /\ m' = env_setup_vm(m, e)
    /\ env_status' = [env_status EXCEPT ![e] = status]
    /\ env_parent_id' = [env_parent_id EXCEPT ![e] = parent]
    /\ env_ipc_dstva' = [env_ipc_dstva EXCEPT ![e] = NotRecving]

\* env_create up to the loop of load_icode, which works in the new address
\* space.
EnvCreate(c, e) ==
    /\ pc[c] = "boot"
    /\ EnvAlloc(e, NoEnv, "RUNNABLE")
    /\ LoadCr3(c, e)
    /\ victim' = e
    /\ pc' = [pc EXCEPT ![c] = "load"]
    /\ UNCHANGED curenv

\* region_alloc, one page: the kernel panics when a page or a table is missing.
RegionAlloc(c, va) ==
    /\ pc[c] = "load"
    /\ va \in LoadVas /\ ~Mapped(m, victim, va)
    /\ \A w \in LoadVas : w < va => Mapped(m, victim, w)
    /\ LET r == env_page_alloc(m, victim, va, {"W"})
       IN  /\ m' = r.mem
           /\ IF r.ret = "ok" THEN UNCHANGED pc ELSE Panic(c)
    /\ UNCHANGED <<envVars, env_ipc_dstva, cpuVars, victim>>

\* The end of load_icode, and the way to sched_yield.
LoadDone(c) ==
    /\ pc[c] = "load"
    /\ \A va \in LoadVas : Mapped(m, victim, va)
    /\ LoadCr3(c, KernDir)
    /\ victim' = NoEnv
    /\ pc' = [pc EXCEPT ![c] = "sched"]
    /\ UNCHANGED <<m, envVars, env_ipc_dstva, curenv>>

-----------------------------------------------------------------------------
(* Scheduling                                                              *)

LockFree == \A c \in Cpu : pc[c] \notin LockedPCs

\* env_run: what ran here becomes runnable again; the page table is loaded even
\* when it is the one in use.
EnvRun(c, e) ==
    /\ env_status' = [x \in Env |->
           IF x = e THEN "RUNNING"
           ELSE IF x = curenv[c] /\ env_status[x] = "RUNNING" THEN "RUNNABLE"
           ELSE env_status[x]]
    /\ curenv' = [curenv EXCEPT ![c] = e]
    /\ LoadCr3(c, e)
    /\ pc' = [pc EXCEPT ![c] = "user"]
    /\ UNCHANGED <<m, env_parent_id, env_ipc_dstva, victim>>

\* sched_yield.
Resumable(c, e) == \/ env_status[e] = "RUNNABLE"
                   \/ env_status[e] = "RUNNING" /\ curenv[c] = e

SchedYield(c) ==
    /\ pc[c] = "sched"
    /\ \E e \in Env : Resumable(c, e) /\ EnvRun(c, e)

\* sched_halt: to sleep, or into the monitor for good when nobody is left.
SchedHalt(c) ==
    /\ pc[c] = "sched"
    /\ \A e \in Env : ~Resumable(c, e)
    /\ IF \E e \in Env : env_status[e] \in {"RUNNABLE", "RUNNING", "DYING"}
       THEN /\ curenv' = [curenv EXCEPT ![c] = NoEnv]
            /\ LoadCr3(c, KernDir)
            /\ pc' = [pc EXCEPT ![c] = "halt"]
       ELSE /\ pc' = [pc EXCEPT ![c] = "monitor"]
            /\ UNCHANGED cpuVars
    /\ UNCHANGED <<m, envVars, env_ipc_dstva, victim>>

\* A timer interrupt, in user mode or on a halted CPU.
Timer(c) ==
    /\ LockFree
    /\ pc[c] = "user" => env_status[curenv[c]] = "RUNNING"
    /\ pc' = [pc EXCEPT ![c] = "sched"]
    /\ UNCHANGED <<m, envVars, env_ipc_dstva, cpuVars, victim>>

\* The end of trap for a handler that returned.
Ret(c) ==
    /\ pc[c] = "ret"
    /\ EnvRun(c, curenv[c])

\* The MMU fills the TLB from the page table that is loaded.
TlbFill(c, va) ==
    /\ pc[c] = "user"
    /\ Mapped(m, cr3[c], va)
    /\ tlb[c][va] = Zero
    /\ tlb' = [tlb EXCEPT ![c][va] = m.pte[cr3[c]][va]]
    /\ UNCHANGED <<m, envVars, env_ipc_dstva, curenv, cr3, pc, victim>>

-----------------------------------------------------------------------------
(* System calls                                                            *)

\* The environment on c traps; a zombie does not get this far (TrapDying).
Calls(c, e) ==
    /\ LockFree
    /\ pc[c] = "user"
    /\ e = curenv[c]
    /\ env_status[e] = "RUNNING"

Return(c) == pc' = [pc EXCEPT ![c] = "ret"]

\* envid2env with checkperm: oneself or a child.  Programs leave the memory of
\* a child alone while it runs, unless "remap".
Reaches(e, t) ==
    /\ env_status[t] # "FREE"
    /\ t = e \/ env_parent_id[t] = e
    /\ t = e \/ "remap" \in Misuse \/ env_status[t] \notin {"RUNNING", "DYING"}

\* A bug for the runs: the TLB is not flushed.
TlbInvalidateNot(c, t, va) == tlb' = tlb

\* tlb_invalidate for the removal of t's page at va: this CPU, this address
\* space.
TlbInvalidate(c, t, va) ==
    tlb' = IF t = curenv[c] /\ Mapped(m, t, va)
           THEN [tlb EXCEPT ![c][va] = Zero] ELSE tlb

SysPageAlloc(c, e, t, va, perm) ==
    /\ Calls(c, e) /\ Reaches(e, t)
    /\ LET r == env_page_alloc(m, t, va, perm)
       IN  /\ m' = r.mem
           /\ IF r.ret = "ok" THEN TlbInvalidate(c, t, va) ELSE tlb' = tlb
    /\ Return(c)
    /\ UNCHANGED <<envVars, env_ipc_dstva, curenv, cr3, victim>>

SysPageMap(c, e, s, sva, t, va, perm) ==
    /\ Calls(c, e) /\ Reaches(e, s) /\ Reaches(e, t)
    /\ LET r == env_page_map(m, s, sva, t, va, perm)
       IN  /\ m' = r.mem
           /\ IF r.ret = "ok" THEN TlbInvalidate(c, t, va) ELSE tlb' = tlb
    /\ Return(c)
    /\ UNCHANGED <<envVars, env_ipc_dstva, curenv, cr3, victim>>

SysPageUnmap(c, e, t, va) ==
    /\ Calls(c, e) /\ Reaches(e, t)
    /\ m' = page_remove(m, t, va)
    /\ TlbInvalidate(c, t, va)
    /\ Return(c)
    /\ UNCHANGED <<envVars, env_ipc_dstva, curenv, cr3, victim>>

\* sys_ipc_recv at a proper address.
SysIpcRecv(c, e, dstva) ==
    /\ Calls(c, e)
    /\ env_ipc_dstva' = [env_ipc_dstva EXCEPT ![e] = dstva]
    /\ env_status' = [env_status EXCEPT ![e] = "NOT_RUNNABLE"]
    /\ pc' = [pc EXCEPT ![c] = "sched"]
    /\ UNCHANGED <<m, env_parent_id, cpuVars, victim>>

Recving(t) == env_status[t] # "FREE" /\ env_ipc_dstva[t] # NotRecving

\* The label bail of sys_ipc_try_send.
Wake(t) ==
    /\ env_ipc_dstva' = [env_ipc_dstva EXCEPT ![t] = NotRecving]
    /\ env_status' = [env_status EXCEPT ![t] = "RUNNABLE"]

\* srcva at or above UTOP: a value without a page.
SysIpcSendValue(c, e, t) ==
    /\ Calls(c, e)
    /\ Recving(t)
    /\ Wake(t)
    /\ Return(c)
    /\ UNCHANGED <<m, env_parent_id, cpuVars, victim>>

\* A page: a fresh page is mapped at dstva first, and then replaced; with dstva
\* 0 the receiver wants no page.
IpcPage(e, t, srcva, perm) ==
    LET dstva == env_ipc_dstva[t]
        a == env_page_alloc(m, t, dstva, perm)
    IN  IF dstva = 0 THEN [mem |-> m, ret |-> "ok"]
        ELSE IF a.ret # "ok" THEN a
        ELSE env_page_map(a.mem, e, srcva, t, dstva, perm)

SysIpcSendPage(c, e, t, srcva, perm) ==
    /\ Calls(c, e)
    /\ Recving(t)
    /\ Mapped(m, e, srcva)
    /\ "W" \notin perm \ m.pte[e][srcva].perm
    /\ LET r == IpcPage(e, t, srcva, perm)
       IN  /\ m' = r.mem
           /\ IF r.ret = "ok"
              THEN Wake(t)
              ELSE UNCHANGED <<env_ipc_dstva, env_status>>
    /\ Return(c)
    /\ UNCHANGED <<env_parent_id, cpuVars, victim>>

\* When nothing is mapped at srcva, page_lookup leaves srcpte uninitialized and
\* the tests read through it: the kernel faults, or what they read lets the
\* call fail at once, or it goes on: it fails in env_page_map, or succeeds when
\* the receiver wants no page.
SysIpcSendUnmapped(c, e, t, srcva, perm) ==
    /\ Calls(c, e)
    /\ Recving(t)
    /\ ~Mapped(m, e, srcva)
    /\ \/ Panic(c) /\ UNCHANGED <<m, env_ipc_dstva, env_status>>
       \/ Return(c) /\ UNCHANGED <<m, env_ipc_dstva, env_status>>
       \/ /\ env_ipc_dstva[t] # 0
          /\ m' = IpcPage(e, t, srcva, perm).mem
          /\ Return(c)
          /\ UNCHANGED <<env_ipc_dstva, env_status>>
       \/ env_ipc_dstva[t] = 0 /\ Wake(t) /\ Return(c) /\ UNCHANGED m
    /\ UNCHANGED <<env_parent_id, cpuVars, victim>>

SysExofork(c, e, t) ==
    /\ Calls(c, e)
    /\ EnvAlloc(t, e, "NOT_RUNNABLE")
    /\ Return(c)
    /\ UNCHANGED <<cpuVars, victim>>

\* Starting a child that is ready, once (see Kernel for the rest).
SysEnvSetStatus(c, e, t) ==
    /\ Calls(c, e)
    /\ env_parent_id[t] = e
    /\ env_status[t] = "NOT_RUNNABLE" /\ ~Recving(t)
    /\ env_status' = [env_status EXCEPT ![t] = "RUNNABLE"]
    /\ Return(c)
    /\ UNCHANGED <<m, env_parent_id, env_ipc_dstva, cpuVars, victim>>

-----------------------------------------------------------------------------
(* The end of an environment                                               *)

\* The first lines of env_free: away from the address space that goes.
StartFree(c, t) ==
    /\ victim' = t
    /\ IF t = curenv[c] THEN LoadCr3(c, KernDir) ELSE UNCHANGED <<cr3, tlb>>
    /\ pc' = [pc EXCEPT ![c] = "free"]
    /\ UNCHANGED <<m, envVars, env_ipc_dstva, curenv>>

\* env_destroy: what runs elsewhere only gets a mark.
EnvDestroy(c, e, t) ==
    IF env_status[t] = "RUNNING" /\ t # e
    THEN /\ env_status' = [env_status EXCEPT ![t] = "DYING"]
         /\ Return(c)
         /\ UNCHANGED <<m, env_parent_id, env_ipc_dstva, cpuVars, victim>>
    ELSE StartFree(c, t)

\* sys_env_destroy of oneself (also: a fault that nobody handles) or a child.
SysEnvDestroy(c, e, t) ==
    /\ Calls(c, e)
    /\ t = e \/ env_parent_id[t] = e
    /\ env_status[t] \notin {"FREE", "DYING"}
    /\ EnvDestroy(c, e, t)

\* user_mem_assert, in sys_cputs (for oneself, with PTE_W) and in
\* sys_env_set_pgfault_upcall (also for a child).
UserMemAssert(c, e, t, va, perm) ==
    /\ Calls(c, e)
    /\ t = e \/ (perm = {} /\ env_parent_id[t] = e)
    /\ env_status[t] \notin {"FREE", "DYING"}
    /\ IF user_mem_check(m, t, va, perm)
       THEN Return(c) /\ UNCHANGED <<m, envVars, env_ipc_dstva, cpuVars, victim>>
       ELSE EnvDestroy(c, e, t)

\* A zombie traps.
TrapDying(c) ==
    /\ LockFree
    /\ pc[c] = "user"
    /\ env_status[curenv[c]] = "DYING"
    /\ StartFree(c, curenv[c])

\* The loops of env_free: all entries of a table, then the table.
FreePte(c, va) ==
    /\ pc[c] = "free"
    /\ Mapped(m, victim, va)
    /\ \A w \in Va : Mapped(m, victim, w) => va <= w
    /\ \A y \in Pdx : y < PDX[va] => m.pde[victim][y] = NoPage
    /\ m' = page_remove(m, victim, va)
    /\ TlbInvalidate(c, victim, va)
    /\ UNCHANGED <<envVars, env_ipc_dstva, curenv, cr3, pc, victim>>

FreeTable(c, x) ==
    /\ pc[c] = "free"
    /\ m.pde[victim][x] # NoPage
    /\ \A y \in Pdx : y < x => m.pde[victim][y] = NoPage
    /\ \A va \in Va : PDX[va] = x => ~Mapped(m, victim, va)
    /\ m' = free_table(m, victim, x)
    /\ UNCHANGED <<envVars, env_ipc_dstva, cpuVars, pc, victim>>

\* The directory and the slot; children of the environment have no parent any
\* more, since its id is not used again.
FreeDir(c) ==
    /\ pc[c] = "free"
    /\ \A x \in Pdx : m.pde[victim][x] = NoPage
    /\ m' = free_pgdir(m, victim)
    /\ env_status' = [env_status EXCEPT ![victim] = "FREE"]
    /\ env_parent_id' = [t \in Env |-> IF env_parent_id[t] = victim
                                       THEN NoEnv ELSE env_parent_id[t]]
    /\ IF victim = curenv[c]
       THEN /\ curenv' = [curenv EXCEPT ![c] = NoEnv]
            /\ pc' = [pc EXCEPT ![c] = "sched"]
       ELSE /\ Return(c)
            /\ UNCHANGED curenv
    /\ victim' = NoEnv
    /\ UNCHANGED <<env_ipc_dstva, cr3, tlb>>

-----------------------------------------------------------------------------

Boot(c) == \/ \E e \in Env : EnvCreate(c, e)
           \/ \E va \in LoadVas : RegionAlloc(c, va)
           \/ LoadDone(c)

Sched(c) == SchedYield(c) \/ SchedHalt(c) \/ Timer(c) \/ Ret(c)

PageCall(c, e) ==
    \E t \in Env, va \in Va :
        \/ \E perm \in Perms : SysPageAlloc(c, e, t, va, perm)
        \/ \E s \in Env, sva \in Va, perm \in Perms :
              SysPageMap(c, e, s, sva, t, va, perm)
        \/ SysPageUnmap(c, e, t, va)

IpcCall(c, e) ==
    \/ \E va \in Va : SysIpcRecv(c, e, va)
    \/ \E t \in Env : SysIpcSendValue(c, e, t)
    \/ \E t \in Env, va \in Va, perm \in Perms :
          \/ SysIpcSendPage(c, e, t, va, perm)
          \/ SysIpcSendUnmapped(c, e, t, va, perm)

EnvCall(c, e) ==
    \E t \in Env :
        \/ SysExofork(c, e, t)
        \/ SysEnvSetStatus(c, e, t)
        \/ SysEnvDestroy(c, e, t)
        \/ \E va \in Va, perm \in {{}, {"W"}} : UserMemAssert(c, e, t, va, perm)

Free(c) == \/ \E va \in Va : FreePte(c, va)
           \/ \E x \in Pdx : FreeTable(c, x)
           \/ FreeDir(c)
           \/ TrapDying(c)

Next ==
    /\ ~m.double_free
    /\ \E c \in Cpu :
          \/ Boot(c)
          \/ Sched(c)
          \/ \E va \in Va : TlbFill(c, va)
          \/ \E e \in Env : PageCall(c, e) \/ IpcCall(c, e) \/ EnvCall(c, e)
          \/ Free(c)

Spec == Init /\ [][Next]_vars

-----------------------------------------------------------------------------
(* Properties                                                              *)

\* pp_ref is the number of references to a page, from page tables, page
\* directories and environments, after every step of every system call, and
\* page_free never finds a page that is free already.
RefsExact ==
    /\ \A p \in Page : m.pp_ref[p] = Cardinality(PteRefs(m, p))
                                   + Cardinality(PdeRefs(m, p))
                                   + Cardinality(DirRefs(m, p))
    /\ ~m.double_free

FreeListUnused ==
    \A p \in m.page_free_list :
        PteRefs(m, p) = {} /\ PdeRefs(m, p) = {} /\ DirRefs(m, p) = {}

TablesPrivate ==
    \A p \in Page :
        /\ Cardinality(PdeRefs(m, p)) + Cardinality(DirRefs(m, p)) <= 1
        /\ PteRefs(m, p) # {} => PdeRefs(m, p) = {} /\ DirRefs(m, p) = {}

\* A page has one use at a time.  Nobody refers to a page on the free list, so
\* that page_alloc never hands out a page in use; a page table or directory
\* belongs to one environment and no program can write to it.
OneUse == FreeListUnused /\ TablesPrivate

TlbCoherent ==
    \A c \in Cpu, va \in Va :
        tlb[c][va] # Zero => /\ cr3[c] \in Env
                             /\ tlb[c][va] = m.pte[cr3[c]][va]

Cr3Live ==
    \A c \in Cpu : cr3[c] \in Env => m.env_pgdir[cr3[c]] # NoPage

\* A CPU translates addresses as the tables say.  What its TLB remembers is in
\* the table, also between tlb_invalidate and the return to user mode, and the
\* directory it has loaded is allocated: env_free leaves it before it frees it,
\* and nobody frees that of a running environment.
MmuCoherent == TlbCoherent /\ Cr3Live

\* A step loses a page only when memory is exhausted (the page that
\* env_page_alloc took and could not insert).
LostOnlyWhenFull ==
    [][Lost(m') # Lost(m) => /\ m'.page_free_list = {}
                             /\ m.page_free_list # {}]_vars
=============================================================================
