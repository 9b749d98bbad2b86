------------------------------- MODULE Kernel -------------------------------
(***************************************************************************)
(* The environment life cycle of the JOS kernel in sched/: env_alloc,      *)
(* env_free, env_destroy and env_run (kern/env.c), the two schedulers and  *)
(* sched_halt (kern/sched.c), trap entry and dispatch (kern/trap.c), the   *)
(* environment system calls (kern/syscall.c), the big kernel lock          *)
(* (kern/spinlock.c, kern/spinlock.h) and the boot of the CPUs             *)
(* (kern/init.c).                                                          *)
(*                                                                         *)
(* Every CPU has a program counter.  A handler that runs with the lock     *)
(* held may span several steps of its CPU (handler, "ret", "sched"): their *)
(* order is forced by pc, and the lock keeps the other CPUs outside.       *)
(* What happens outside the lock are steps of their own: a trap on its way *)
(* to lock_kernel, and the part of env_run after unlock_kernel.            *)
(*                                                                         *)
(* Memory is not modelled here (see Pmap), nor the payload of a message.   *)
(***************************************************************************)
EXTENDS Integers

CONSTANTS
    NCPU,             \* CPUs found by mp_init; CPU 0 is the boot CPU
    NENV,             \* size of the envs array
    NBOOT,            \* ENV_CREATEs in i386_init
    MaxGen,           \* generations of a slot before env_id wraps to the first
    Policy,           \* SCHED_ROUND_ROBIN ("rr") or SCHED_PRIORITIES ("pr")
    BOOST_CYCLES,
    DEFAULT_PRIORITY,
    UserPriorities,   \* values that programs pass to sys_set_priority
    UserCalls,        \* what the user programs of the instance may do
    Misuse            \* calls outside of the library's protocol they may make

Misuses == {"restart", "redestroy", "badrecv", "overflow"}

Calls == {"yield", "exofork", "set_status", "destroy", "set_upcall", "recv",
          "send", "set_priority", "fault", "brkpt", "other"}

ASSUME SizeAssumption ==
    /\ NCPU \in Nat \ {0}
    /\ NENV \in Nat \ {0}
    /\ NBOOT \in 1..NENV
    /\ MaxGen \in Nat \ {0}

ASSUME PolicyAssumption ==
    /\ Policy \in {"rr", "pr"}
    /\ BOOST_CYCLES \in Nat \ {0}
    /\ DEFAULT_PRIORITY \in Nat \ {0}
    /\ UserPriorities \subseteq Int

ASSUME UserAssumption ==
    /\ UserCalls \subseteq Calls
    /\ Misuse \subseteq Misuses

NULL == -1

CPUs == 0..(NCPU - 1)
Slots == 0..(NENV - 1)

\* An env_id is a generation and an index into envs; <<0, 0>> is envid 0.
EnvIds == (0..MaxGen) \X Slots
NoId == <<0, 0>>
ENVX(id) == id[2]

Statuses == {"FREE", "DYING", "RUNNABLE", "RUNNING", "NOT_RUNNABLE"}

\* Where a CPU is when it does not hold the lock, and when it does.
OutsidePCs == {"boot", "off", "mp_main", "ap", "idle", "wake", "user", "irq",
               "trap", "restore", "hlt"}
KernelPCs == {"boot_aps", "create", "irq_k", "trap_k", "ret", "sched",
              "monitor", "panic"}

\* A CPU here has an environment whose registers are live on the CPU.
EnvPCs == {"user", "irq", "trap", "restore", "irq_k", "trap_k"}

VARIABLES
    env_status, env_id, env_parent_id, env_runs, env_cpunum,
    env_pgfault_upcall, env_ipc_recving, priority,
    env_link, env_free_list,   \* the linked list of free slots
    boost_counter,
    cpu_env, cpu_status, kernel_lock,
    pc

ipcVars == <<env_ipc_recving>>
prioVars == <<priority, boost_counter>>
idVars == <<env_id, env_parent_id, env_link, env_free_list>>
infoVars == <<env_runs, env_cpunum, env_pgfault_upcall>>
cpuVars == <<cpu_env, cpu_status, kernel_lock>>
envVars == <<env_status, idVars, infoVars, ipcVars, prioVars>>
vars == <<envVars, cpuVars, pc>>

\* The ranges of the kernel's tables: ids keep their slot in the low bits, and
\* links and current environments are slots.
TypeOK ==
    /\ env_status \in [Slots -> Statuses]
    /\ env_id \in [Slots -> EnvIds]
    /\ env_parent_id \in [Slots -> EnvIds]
    /\ env_runs \in [Slots -> {0, 1}]
    /\ env_cpunum \in [Slots -> CPUs]
    /\ env_pgfault_upcall \in [Slots -> BOOLEAN]
    /\ env_ipc_recving \in [Slots -> BOOLEAN]
    /\ priority \in [Slots -> Int]
    /\ env_link \in [Slots -> Slots \cup {NULL}]
    /\ env_free_list \in Slots \cup {NULL}
    /\ boost_counter \in 0..(BOOST_CYCLES - 1)
    /\ cpu_env \in [CPUs -> Slots \cup {NULL}]
    /\ cpu_status \in [CPUs -> {"UNUSED", "STARTED", "HALTED"}]
    /\ kernel_lock \in CPUs \cup {NULL}
    /\ pc \in [CPUs -> OutsidePCs \cup KernelPCs]

-----------------------------------------------------------------------------
(* Boot: i386_init, boot_aps, mp_main.                                     *)

\* mp_init marks the boot CPU started; env_init threads envs in order.
Init ==
    /\ env_status = [s \in Slots |-> "FREE"]
    /\ env_id = [s \in Slots |-> NoId]
    /\ env_parent_id = [s \in Slots |-> NoId]
    /\ env_runs = [s \in Slots |-> 0]
    /\ env_cpunum = [s \in Slots |-> 0]
    /\ env_pgfault_upcall = [s \in Slots |-> FALSE]
    /\ env_ipc_recving = [s \in Slots |-> FALSE]
    /\ priority = [s \in Slots |-> DEFAULT_PRIORITY]
    /\ env_link = [s \in Slots |-> IF s = NENV - 1 THEN NULL ELSE s + 1]
    /\ env_free_list = 0
    /\ boost_counter = 0
    /\ cpu_env = [c \in CPUs |-> NULL]
    /\ cpu_status = [c \in CPUs |-> IF c = 0 THEN "STARTED" ELSE "UNUSED"]
    /\ kernel_lock = NULL
    /\ pc = [c \in CPUs |-> IF c = 0 THEN "boot" ELSE "off"]

Goto(c, label) == pc' = [pc EXCEPT ![c] = label]

\* _panic: the CPU drops into the monitor and keeps the lock for ever.
Panicked == \E c \in CPUs : pc[c] = "panic"

\* Where lock_kernel was called from, and where its caller goes on.
AfterLock(label) ==
    CASE label = "boot" -> "boot_aps"
      [] label = "ap"   -> "sched"
      [] label = "wake" -> "sched"
      [] label = "irq"  -> "irq_k"
      [] label = "trap" -> "trap_k"

\* Mutation of LockKernel: it does not wait until the lock is free.
LockKernelMut(c) ==
    /\ pc[c] \in {"boot", "ap", "wake", "irq", "trap"}
    /\ kernel_lock' = c
    /\ Goto(c, AfterLock(pc[c]))
    /\ UNCHANGED <<envVars, cpu_env, cpu_status>>

\* spin_lock: the xchg that finds the lock free.
LockKernel(c) ==
    /\ pc[c] \in {"boot", "ap", "wake", "irq", "trap"}
    /\ kernel_lock = NULL
    /\ kernel_lock' = c
    /\ Goto(c, AfterLock(pc[c]))
    /\ UNCHANGED <<envVars, cpu_env, cpu_status>>

\* boot_aps: start the next AP; the one before has reported itself started.
StartAp(c) ==
    /\ pc[0] = "boot_aps"
    /\ pc[c] = "off"
    /\ \A d \in CPUs : d < c => cpu_status[d] # "UNUSED"
    /\ Goto(c, "mp_main")
    /\ UNCHANGED <<envVars, cpuVars>>

\* Mutation of MpMain: it asks for the lock before it reports.
MpMainMut(c) ==
    /\ pc[c] = "mp_main"
    /\ kernel_lock = NULL
    /\ cpu_status' = [cpu_status EXCEPT ![c] = "STARTED"]
    /\ Goto(c, "ap")
    /\ UNCHANGED <<envVars, cpu_env, kernel_lock>>

\* mp_main: report to boot_aps, then go for the lock.
MpMain(c) ==
    /\ pc[c] = "mp_main"
    /\ cpu_status' = [cpu_status EXCEPT ![c] = "STARTED"]
    /\ Goto(c, "ap")
    /\ UNCHANGED <<envVars, cpu_env, kernel_lock>>

\* boot_aps returns once every AP has reported.
ApsStarted ==
    /\ pc[0] = "boot_aps"
    /\ \A d \in CPUs : cpu_status[d] # "UNUSED"
    /\ Goto(0, "create")
    /\ UNCHANGED <<envVars, cpuVars>>

-----------------------------------------------------------------------------
(* kern/env.c                                                              *)

\* The next generation of a slot, after the last the first.
NextGen(g) == IF g + 1 > MaxGen THEN 1 ELSE g + 1

\* env_alloc, with the status that its caller leaves.  A page for the
\* directory was found: the caller covers the other case.
EnvAlloc(e, parent, status) ==
    /\ e = env_free_list
    /\ e # NULL
    /\ env_free_list' = env_link[e]
    /\ env_id' = [env_id EXCEPT ![e] = <<NextGen(@[1]), e>>]
    /\ env_parent_id' = [env_parent_id EXCEPT ![e] = parent]
    /\ env_status' = [env_status EXCEPT ![e] = status]
    /\ env_runs' = [env_runs EXCEPT ![e] = 0]
    /\ priority' = [priority EXCEPT ![e] = DEFAULT_PRIORITY]
    /\ env_pgfault_upcall' = [env_pgfault_upcall EXCEPT ![e] = FALSE]
    /\ env_ipc_recving' = [env_ipc_recving EXCEPT ![e] = FALSE]
    /\ UNCHANGED <<env_link, env_cpunum, boost_counter>>

\* The ENV_CREATEs of i386_init: parent 0, runnable, in slots 0..NBOOT - 1.
EnvCreate ==
    /\ pc[0] = "create"
    /\ env_status[NBOOT - 1] = "FREE"
    /\ EnvAlloc(env_free_list, NoId, "RUNNABLE")
    /\ UNCHANGED <<cpuVars, pc>>

BootDone ==
    /\ pc[0] = "create"
    /\ env_status[NBOOT - 1] # "FREE"
    /\ Goto(0, "sched")
    /\ UNCHANGED <<envVars, cpuVars>>

\* env_free; the caller makes sure that e is not free already.
EnvFree(e) ==
    /\ env_status' = [env_status EXCEPT ![e] = "FREE"]
    /\ env_link' = [env_link EXCEPT ![e] = env_free_list]
    /\ env_free_list' = e
    /\ UNCHANGED <<env_id, env_parent_id, infoVars, ipcVars, prioVars>>

\* Mutation of envid2env: a free slot is not rejected.
envid2envMut(c, id, checkperm) ==
    LET e   == ENVX(id)
        cur == cpu_env[c]
    IN IF id = NoId THEN cur
       ELSE IF \/ env_id[e] # id
               \/ checkperm /\ e # cur /\ env_parent_id[e] # env_id[cur]
            THEN NULL
            ELSE e

\* envid2env: the slot, or NULL for -E_BAD_ENV.
envid2env(c, id, checkperm) ==
    LET e   == ENVX(id)
        cur == cpu_env[c]
    IN IF id = NoId THEN cur
       ELSE IF \/ env_status[e] = "FREE"
               \/ env_id[e] # id
               \/ checkperm /\ e # cur /\ env_parent_id[e] # env_id[cur]
            THEN NULL
            ELSE e

\* env_destroy.  The environment of another CPU becomes a zombie.  Freeing a
\* slot that is free reads its null page directory: a fault in the kernel.
EnvDestroy(c, e) ==
    IF env_status[e] = "RUNNING" /\ cpu_env[c] # e
    THEN /\ env_status' = [env_status EXCEPT ![e] = "DYING"]
         /\ Goto(c, "ret")
         /\ UNCHANGED <<idVars, infoVars, ipcVars, prioVars, cpuVars>>
    ELSE IF env_status[e] = "FREE"
    THEN /\ Goto(c, "panic")
         /\ UNCHANGED <<envVars, cpuVars>>
    ELSE /\ EnvFree(e)
         /\ cpu_env' = [cpu_env EXCEPT ![c] = IF @ = e THEN NULL ELSE @]
         /\ Goto(c, IF cpu_env[c] = e THEN "sched" ELSE "ret")
         /\ UNCHANGED <<cpu_status, kernel_lock>>

\* Mutations of EnvRun: the environment that was running stays so ...
EnvRunMut(c, e) ==
    /\ env_status' = [env_status EXCEPT ![e] = "RUNNING"]
    /\ env_runs' = [env_runs EXCEPT ![e] = 1]
    /\ cpu_env' = [cpu_env EXCEPT ![c] = e]
    /\ kernel_lock' = NULL
    /\ Goto(c, "restore")
    /\ UNCHANGED <<idVars, env_cpunum, env_pgfault_upcall, ipcVars, cpu_status>>

\* ... and curenv is not set.
EnvRunMut2(c, e) ==
    /\ env_status' = [env_status EXCEPT ![e] = "RUNNING"]
    /\ env_runs' = [env_runs EXCEPT ![e] = 1]
    /\ kernel_lock' = NULL
    /\ Goto(c, "restore")
    /\ UNCHANGED <<idVars, env_cpunum, env_pgfault_upcall, ipcVars, cpu_status,
                   cpu_env>>

\* env_run up to unlock_kernel.  env_runs is capped at 1: only "has run"
\* matters.
EnvRun(c, e) ==
    LET cur == cpu_env[c]
    IN /\ env_status' = [s \in Slots |->
              IF s = e THEN "RUNNING"
              ELSE IF s = cur /\ env_status[s] = "RUNNING" THEN "RUNNABLE"
              ELSE env_status[s]]
       /\ env_runs' = [env_runs EXCEPT ![e] = 1]
       /\ cpu_env' = [cpu_env EXCEPT ![c] = e]
       /\ kernel_lock' = NULL
       /\ Goto(c, "restore")
       /\ UNCHANGED <<idVars, env_cpunum, env_pgfault_upcall, ipcVars,
                      cpu_status>>

\* env_run after unlock_kernel: record the CPU, restore the registers.
Restore(c) ==
    /\ pc[c] = "restore"
    /\ env_cpunum' = [env_cpunum EXCEPT ![cpu_env[c]] = c]
    /\ Goto(c, "user")
    /\ UNCHANGED <<env_status, idVars, env_runs, env_pgfault_upcall, ipcVars,
                   prioVars, cpuVars>>

-----------------------------------------------------------------------------
(* kern/sched.c                                                            *)

\* Mutation of Runnable: an environment that is running is a candidate too.
RunnableMut == {s \in Slots : env_status[s] \in {"RUNNABLE", "RUNNING"}}

Runnable == {s \in Slots : env_status[s] = "RUNNABLE"}

\* sched_halt.  With nothing left to run the CPU enters the monitor for ever
\* and keeps the lock; otherwise it releases the lock and halts.
SchedHalt(c) ==
    IF \A s \in Slots : env_status[s] \notin {"RUNNABLE", "RUNNING", "DYING"}
    THEN /\ Goto(c, "monitor")
         /\ UNCHANGED <<env_status, idVars, infoVars, ipcVars, cpuVars>>
    ELSE /\ cpu_env' = [cpu_env EXCEPT ![c] = NULL]
         /\ cpu_status' = [cpu_status EXCEPT ![c] = "HALTED"]
         /\ kernel_lock' = NULL
         /\ Goto(c, "idle")
         /\ UNCHANGED <<env_status, idVars, infoVars, ipcVars>>

\* Nothing is runnable: carry on with the current environment, or halt.
RunCurrentOrHalt(c) ==
    IF cpu_env[c] # NULL /\ env_status[cpu_env[c]] = "RUNNING"
    THEN EnvRun(c, cpu_env[c])
    ELSE SchedHalt(c)

\* Mutation of RRStart: every search starts at slot 0.
RRStartMut(c) == 0

\* sched_rr starts after the current environment, at 0 if there is none.
RRStart(c) == IF cpu_env[c] = NULL THEN 0 ELSE ENVX(env_id[cpu_env[c]]) + 1

\* How far the circular search goes before it meets slot s.
RRDistance(start, s) == (s - start) % NENV

SchedRR(c) ==
    /\ UNCHANGED prioVars
    /\ \/ \E s \in Runnable :
             /\ \A t \in Runnable :
                   RRDistance(RRStart(c), s) <= RRDistance(RRStart(c), t)
             /\ EnvRun(c, s)
       \/ Runnable = {} /\ RunCurrentOrHalt(c)

\* priority_sched boosts on every BOOST_CYCLES-th call ...
Boosting == boost_counter + 1 >= BOOST_CYCLES

Boosted(s) ==
    IF Boosting /\ s \in Runnable /\ priority[s] < DEFAULT_PRIORITY
    THEN DEFAULT_PRIORITY
    ELSE priority[s]

\* ... and takes the first runnable environment of the highest priority.
HighestPriority(s) ==
    \A t \in Runnable : /\ Boosted(t) <= Boosted(s)
                        /\ Boosted(t) = Boosted(s) => s <= t

PrioritySched(c) ==
    /\ boost_counter' = IF Boosting THEN 0 ELSE boost_counter + 1
    /\ \/ \E s \in Runnable :
             /\ HighestPriority(s)
             /\ priority' = [t \in Slots |->
                   IF t = s /\ Boosted(t) > 1 THEN Boosted(t) - 1
                   ELSE Boosted(t)]
             /\ EnvRun(c, s)
       \/ /\ Runnable = {}
          /\ priority' = [t \in Slots |-> Boosted(t)]
          /\ RunCurrentOrHalt(c)

SchedYield(c) ==
    /\ pc[c] = "sched"
    /\ \/ Policy = "rr" /\ SchedRR(c)
       \/ Policy = "pr" /\ PrioritySched(c)

-----------------------------------------------------------------------------
(* kern/trap.c                                                             *)

\* A trap taken from user mode, before lock_kernel: the timer, or something
\* that the environment did.  After a panic elsewhere the CPU stops.
TimerIrq(c) ==
    /\ pc[c] = "user"
    /\ Goto(c, IF Panicked THEN "hlt" ELSE "irq")
    /\ UNCHANGED <<envVars, cpuVars>>

UserTrap(c) ==
    /\ pc[c] = "user"
    /\ UserCalls # {}
    /\ Goto(c, IF Panicked THEN "hlt" ELSE "trap")
    /\ UNCHANGED <<envVars, cpuVars>>

\* The timer wakes a halted CPU, which goes for the lock it gave up.
TimerWake(c) ==
    /\ pc[c] = "idle"
    /\ IF Panicked
       THEN Goto(c, "hlt") /\ UNCHANGED cpu_status
       ELSE /\ Goto(c, "wake")
            /\ cpu_status' = [cpu_status EXCEPT ![c] = "STARTED"]
    /\ UNCHANGED <<envVars, cpu_env, kernel_lock>>

\* trap garbage-collects the environment of this CPU if it is a zombie.
TrapZombie(c) ==
    /\ pc[c] \in {"irq_k", "trap_k"}
    /\ env_status[cpu_env[c]] = "DYING"
    /\ EnvFree(cpu_env[c])
    /\ cpu_env' = [cpu_env EXCEPT ![c] = NULL]
    /\ Goto(c, "sched")
    /\ UNCHANGED <<cpu_status, kernel_lock>>

\* trap_dispatch of IRQ_TIMER.
TrapTimer(c) ==
    /\ pc[c] = "irq_k"
    /\ env_status[cpu_env[c]] # "DYING"
    /\ Goto(c, "sched")
    /\ UNCHANGED <<envVars, cpuVars>>

\* The end of trap: back to the current environment, or schedule.
TrapReturn(c) ==
    /\ pc[c] = "ret"
    /\ IF cpu_env[c] # NULL /\ env_status[cpu_env[c]] = "RUNNING"
       THEN EnvRun(c, cpu_env[c]) /\ UNCHANGED prioVars
       ELSE Goto(c, "sched") /\ UNCHANGED <<envVars, cpuVars>>

\* Mutation of Dispatch: trap does not look for a zombie.
DispatchMut(c, call) == pc[c] = "trap_k" /\ call \in UserCalls

\* A synchronous trap of kind call reaches trap_dispatch.
Dispatch(c, call) ==
    /\ pc[c] = "trap_k"
    /\ env_status[cpu_env[c]] # "DYING"
    /\ call \in UserCalls

\* A system call that changes nothing here: it failed, or it is one of
\* cputs, cgetc, getenvid, get_priority and the page calls.
Return(c) == Goto(c, "ret") /\ UNCHANGED <<envVars, cpuVars>>

SysOther(c) == Dispatch(c, "other") /\ Return(c)

\* T_BRKPT: no command of the monitor makes it return.
TrapBrkpt(c) ==
    /\ Dispatch(c, "brkpt")
    /\ Goto(c, "monitor")
    /\ UNCHANGED <<envVars, cpuVars>>

\* A page fault without an upcall or without a writable exception stack, an
\* unexpected trap, a bad pointer given to sys_cputs: destroy the caller.
UserFault(c) == Dispatch(c, "fault") /\ EnvDestroy(c, cpu_env[c])

\* page_fault_handler with an upcall: run it, on top of the exception stack.
\* When the new frame does not fit the kernel panics.
UserUpcall(c) ==
    /\ Dispatch(c, "fault")
    /\ env_pgfault_upcall[cpu_env[c]]
    /\ \/ EnvRun(c, cpu_env[c]) /\ UNCHANGED prioVars
       \/ /\ "overflow" \in Misuse
          /\ Goto(c, "panic")
          /\ UNCHANGED <<envVars, cpuVars>>

-----------------------------------------------------------------------------
(* kern/syscall.c                                                          *)

SysYield(c) ==
    /\ Dispatch(c, "yield")
    /\ Goto(c, "sched")
    /\ UNCHANGED <<envVars, cpuVars>>

\* sys_env_destroy.  Unless "redestroy", a parent that has asked for the
\* destruction of a child does not ask again while the child is a zombie.
SysEnvDestroy(c, id) ==
    LET e == envid2env(c, id, TRUE)
    IN /\ Dispatch(c, "destroy")
       /\ IF e = NULL THEN Return(c)
          ELSE /\ env_status[e] # "DYING" \/ "redestroy" \in Misuse
               /\ EnvDestroy(c, e)

\* sys_exofork fails without a slot, or without memory (SysOther).
SysExofork(c) ==
    /\ Dispatch(c, "exofork")
    /\ IF env_free_list = NULL THEN Return(c)
       ELSE /\ EnvAlloc(env_free_list, env_id[cpu_env[c]], "NOT_RUNNABLE")
            /\ Goto(c, "ret")
            /\ UNCHANGED cpuVars

\* A child that sys_exofork made and nobody has started.
Embryo(e) == env_status[e] = "NOT_RUNNABLE" /\ env_runs[e] = 0

\* sys_env_set_status.  Unless "restart", programs use it as lib/fork.c does,
\* on a child that has not started, or on themselves.
SysEnvSetStatus(c, id, status) ==
    LET e == envid2env(c, id, TRUE)
    IN /\ Dispatch(c, "set_status")
       /\ IF e = NULL THEN Return(c)
          ELSE /\ e = cpu_env[c] \/ Embryo(e) \/ "restart" \in Misuse
               /\ env_status' = [env_status EXCEPT ![e] = status]
               /\ Goto(c, "ret")
               /\ UNCHANGED <<idVars, infoVars, ipcVars, prioVars, cpuVars>>

\* sys_env_set_pgfault_upcall, when user_mem_assert finds func mapped ...
SysSetPgfaultUpcall(c, id) ==
    LET e == envid2env(c, id, TRUE)
    IN /\ Dispatch(c, "set_upcall")
       /\ IF e = NULL THEN Return(c)
          ELSE /\ env_pgfault_upcall' = [env_pgfault_upcall EXCEPT ![e] = TRUE]
               /\ Goto(c, "ret")
               /\ UNCHANGED <<env_status, idVars, env_runs, env_cpunum,
                              ipcVars, prioVars, cpuVars>>

\* ... and when it does not: env_destroy on the target.  (The upcall that is
\* then stored in a freed or dying target is cleared by env_alloc.)
SysSetPgfaultUpcallBad(c, id) ==
    LET e == envid2env(c, id, TRUE)
    IN /\ Dispatch(c, "set_upcall")
       /\ e # NULL
       /\ env_status[e] # "DYING" \/ "redestroy" \in Misuse
       /\ EnvDestroy(c, e)

\* sys_ipc_recv raises env_ipc_recving, and only then looks at dstva.
SysIpcRecv(c, dstvaOk) ==
    LET cur == cpu_env[c]
    IN /\ Dispatch(c, "recv")
       /\ dstvaOk \/ "badrecv" \in Misuse
       /\ env_ipc_recving' = [env_ipc_recving EXCEPT ![cur] = TRUE]
       /\ IF dstvaOk
          THEN /\ env_status' = [env_status EXCEPT ![cur] = "NOT_RUNNABLE"]
               /\ Goto(c, "sched")
          ELSE UNCHANGED env_status /\ Goto(c, "ret")
       /\ UNCHANGED <<idVars, infoVars, prioVars, cpuVars>>

\* sys_ipc_try_send to an environment that is receiving, when the transfer
\* of the page, if there is one, succeeds.
SysIpcTrySend(c, id) ==
    LET e == envid2env(c, id, FALSE)
    IN /\ Dispatch(c, "send")
       /\ IF e = NULL THEN Return(c)
          ELSE IF ~env_ipc_recving[e] THEN Return(c)
          ELSE /\ env_ipc_recving' = [env_ipc_recving EXCEPT ![e] = FALSE]
               /\ env_status' = [env_status EXCEPT ![e] = "RUNNABLE"]
               /\ Goto(c, "ret")
               /\ UNCHANGED <<idVars, infoVars, prioVars, cpuVars>>

\* sys_set_priority: the first slot whose env_id is id, free or not, and
\* whoever owns it; a priority can only be lowered.
SysSetPriority(c, id, p) ==
    /\ Dispatch(c, "set_priority")
    /\ Goto(c, "ret")
    /\ \/ /\ \A s \in Slots : env_id[s] # id
          /\ UNCHANGED priority
       \/ \E s \in Slots :
             /\ env_id[s] = id
             /\ \A t \in Slots : env_id[t] = id => s <= t
             /\ priority' = [priority EXCEPT ![s] = IF p < @ THEN p ELSE @]
    /\ UNCHANGED <<env_status, idVars, infoVars, ipcVars, boost_counter,
                   cpuVars>>

-----------------------------------------------------------------------------

\* The steps of CPU c with the lock held, which nothing outside delays.
KernelStep(c) ==
    \/ SchedYield(c)
    \/ TrapZombie(c)
    \/ TrapTimer(c)
    \/ TrapReturn(c)
    \/ SysOther(c)
    \/ TrapBrkpt(c)
    \/ UserFault(c)
    \/ UserUpcall(c)
    \/ SysYield(c)
    \/ SysExofork(c)
    \/ \E id \in EnvIds :
          \/ SysEnvDestroy(c, id)
          \/ SysSetPgfaultUpcall(c, id)
          \/ SysSetPgfaultUpcallBad(c, id)
          \/ SysIpcTrySend(c, id)
          \/ \E st \in {"RUNNABLE", "NOT_RUNNABLE"} : SysEnvSetStatus(c, id, st)
          \/ \E p \in UserPriorities : SysSetPriority(c, id, p)
    \/ \E ok \in BOOLEAN : SysIpcRecv(c, ok)

BootStep == ApsStarted \/ EnvCreate \/ BootDone

\* while (1) monitor(NULL)
Monitor(c) == pc[c] \in {"monitor", "panic"} /\ UNCHANGED vars

Next ==
    \/ BootStep
    \/ \E c \in CPUs :
          \/ StartAp(c)
          \/ MpMain(c)
          \/ LockKernel(c)
          \/ KernelStep(c)
          \/ Restore(c)
          \/ TimerIrq(c)
          \/ UserTrap(c)
          \/ TimerWake(c)
          \/ Monitor(c)

Spec == Init /\ [][Next]_vars

(***************************************************************************)
(* Fairness.  A CPU executes its instructions.  The local APIC keeps a     *)
(* timer interrupt pending until interrupts are enabled, so a CPU that is  *)
(* in user mode again and again takes it (strong fairness).  Nothing is    *)
(* assumed of what programs do, nor of who wins a race for the spin lock:  *)
(* weak fairness of LockKernel only says that a lock left free is taken.   *)
(***************************************************************************)
CpuFairness(c) ==
    /\ WF_vars(StartAp(c))
    /\ WF_vars(MpMain(c))
    /\ WF_vars(LockKernel(c))
    /\ WF_vars(KernelStep(c))
    /\ WF_vars(Restore(c))
    /\ WF_vars(TimerWake(c))
    /\ SF_vars(TimerIrq(c))

FairSpec == Spec /\ WF_vars(BootStep) /\ \A c \in CPUs : CpuFairness(c)

-----------------------------------------------------------------------------
(* Properties that hold whatever the programs do.                          *)

\* The big kernel lock: a CPU is inside the kernel exactly when it holds the
\* lock, so at most one is, no CPU waits for a lock it holds (spin_lock's
\* panic) and none releases a lock it does not hold (spin_unlock's panic).
BigKernelLock == \A c \in CPUs : pc[c] \in KernelPCs <=> kernel_lock = c

\* trap's assert(curenv): a CPU that runs an environment, or is on its way
\* out of one or back into one, has a current environment.
CurenvSet == \A c \in CPUs : pc[c] \in EnvPCs => cpu_env[c] # NULL

\* What the three say together is inductive.
KernelInv == TypeOK /\ BigKernelLock /\ CurenvSet

\* boot_aps waits for the APs with the lock held; each of them reports before
\* it asks for the lock, so the machine comes up.
BootCompletes == <>[](\A c \in CPUs : pc[c] \notin {"boot", "boot_aps", "off"})

-----------------------------------------------------------------------------
(* Properties of the kernel when programs keep to the library's protocol.  *)

Disciplined == Misuse \subseteq {"overflow"}

\* Never is one environment current on two CPUs: what sched_yield promises
\* with "Never choose an environment that's currently running on another CPU".
OneCpuPerEnv ==
    \A c, d \in CPUs : cpu_env[c] = cpu_env[d] /\ cpu_env[c] # NULL => c = d

\* The environment whose registers are live on a CPU is running, or was marked
\* dying by another CPU: env_run uses the Env after it has released the lock.
LiveEnvIsActive ==
    \A c \in CPUs :
        pc[c] \in EnvPCs => env_status[cpu_env[c]] \in {"RUNNING", "DYING"}

\* An environment marked running or dying is current on some CPU: none is
\* lost with a status that the scheduler never picks.
NoOrphan ==
    \A s \in Slots :
        env_status[s] \in {"RUNNING", "DYING"} => \E c \in CPUs : cpu_env[c] = s

\* env_ipc_recving is only raised on an environment that is blocked (or has
\* been freed while it was): sys_ipc_try_send makes a receiver runnable
\* without looking at its status.
RecvingIsBlocked ==
    \A s \in Slots :
        env_ipc_recving[s] => env_status[s] \in {"NOT_RUNNABLE", "FREE"}

\* The slots that one meets from env_free_list, in the order q of length n.
IsFreeList(n, q) ==
    /\ env_free_list = IF n = 0 THEN NULL ELSE q[1]
    /\ \A i \in 1..n : env_link[q[i]] = IF i = n THEN NULL ELSE q[i + 1]

\* env_free_list is a list that ends, and holds the free slots, each once:
\* env_alloc takes its head without looking at the status.
FreeListExact ==
    \E n \in 0..NENV : \E q \in [1..n -> Slots] :
        /\ IsFreeList(n, q)
        /\ \A i, j \in 1..n : q[i] = q[j] => i = j
        /\ \A s \in Slots : env_status[s] = "FREE" <=> \E i \in 1..n : q[i] = s

\* env_cpunum, written after the lock is released, names the CPU that runs
\* the environment whenever the environment can look at it.
CpunumIsRight ==
    \A c \in CPUs : pc[c] \in {"user", "irq", "trap"} => env_cpunum[cpu_env[c]] = c

\* What makes them inductive.  Outside the kernel a current environment is
\* running or dying; a CPU that is booting or idle has none; and past trap's
\* check for a zombie the current environment is neither dying nor free.
CurenvStatus ==
    \A c \in CPUs :
        /\ cpu_env[c] # NULL /\ kernel_lock # c
              => env_status[cpu_env[c]] \in {"RUNNING", "DYING"}
        /\ pc[c] \in {"boot", "off", "mp_main", "ap", "idle", "wake",
                      "boot_aps", "create"}
              => cpu_env[c] = NULL
        /\ pc[c] \in {"ret", "sched"} /\ cpu_env[c] # NULL
              => env_status[cpu_env[c]] \notin {"DYING", "FREE"}

\* An environment that has not run is neither running nor receiving.
RunsRecorded ==
    \A s \in Slots :
        env_status[s] \in {"RUNNING", "DYING"} \/ env_ipc_recving[s]
           => env_runs[s] = 1

\* What env.c, sched.c and trap.c keep true of every environment and CPU when
\* programs keep to the library's protocol: all of the above, inductively.
ProtocolInv ==
    /\ KernelInv
    /\ OneCpuPerEnv
    /\ LiveEnvIsActive
    /\ NoOrphan
    /\ RecvingIsBlocked
    /\ FreeListExact
    /\ CpunumIsRight
    /\ CurenvStatus
    /\ RunsRecorded

\* The kernel does not panic.
NoPanic == ~Panicked

\* A zombie is freed by the CPU it is on ("A zombie environment will be freed
\* the next time it traps to the kernel", env_destroy), not under its feet.
ZombieFreedByOwner ==
    [][\A s \in Slots :
          env_status[s] = "DYING" /\ env_status'[s] # "DYING"
             => /\ env_status'[s] = "FREE"
                /\ \E c \in CPUs : cpu_env[c] = s /\ kernel_lock = c]_vars

\* What sched.md says of the priority scheduler: "se selecciona el proceso
\* RUNNABLE con el valor de prioridad más bajo".
PicksLowestNumber ==
    [][\A c \in CPUs :
          pc[c] = "sched" /\ pc'[c] = "restore"
             => \A t \in Runnable : priority[cpu_env'[c]] <= priority[t]]_vars

\* A runnable environment is run: no starvation.
NoStarvation ==
    \A s \in Slots : env_status[s] = "RUNNABLE" ~> env_status[s] # "RUNNABLE"
=============================================================================
