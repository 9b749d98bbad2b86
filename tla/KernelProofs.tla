---------------------------- MODULE KernelProofs ----------------------------
(* Proofs about Kernel, for any number of CPUs and environments.           *)
EXTENDS Kernel, FiniteSetTheorems, TLAPS

\* envid2env returns a slot, or NULL.
LEMMA Envid2envType ==
    ASSUME TypeOK, NEW c \in CPUs, NEW id \in EnvIds, NEW chk \in BOOLEAN
    PROVE  envid2env(c, id, chk) \in Slots \cup {NULL}
  BY DEF TypeOK, envid2env, ENVX, EnvIds

\* The state that mp_init and env_init leave satisfies the invariant.
LEMMA KernelInvInit == Init => KernelInv
  <1> SUFFICES ASSUME Init PROVE KernelInv
    OBVIOUS
  <1>1. TypeOK
    BY SizeAssumption, PolicyAssumption
    DEF Init, TypeOK, Slots, CPUs, Statuses, EnvIds, NoId, OutsidePCs
  <1>2. BigKernelLock
    BY SizeAssumption DEF Init, BigKernelLock, CPUs, KernelPCs, NULL
  <1>3. CurenvSet
    BY DEF Init, CurenvSet, EnvPCs, CPUs
  <1> QED BY <1>1, <1>2, <1>3 DEF KernelInv

\* A handler that returns to trap, goes to the scheduler or enters the monitor
\* without changing anything but the program counter.
LEMMA GotoInv ==
    ASSUME KernelInv, NEW c \in CPUs, pc[c] \in KernelPCs,
           NEW label \in {"ret", "sched", "monitor", "panic"}, Goto(c, label),
           UNCHANGED <<envVars, cpuVars>>
    PROVE  KernelInv'
  BY DEF KernelInv, TypeOK, BigKernelLock, CurenvSet, envVars, idVars,
         infoVars, ipcVars, prioVars, cpuVars, OutsidePCs, KernelPCs, EnvPCs,
         Goto

\* A system call that changes nothing and goes back to trap.
LEMMA ReturnInv ==
    ASSUME KernelInv, NEW c \in CPUs, pc[c] \in KernelPCs, Return(c)
    PROVE  KernelInv'
  BY GotoInv DEF Return

\* env_run: the CPU releases the lock with a current environment.
LEMMA EnvRunInv ==
    ASSUME KernelInv, NEW c \in CPUs, pc[c] \in KernelPCs, NEW e \in Slots,
           EnvRun(c, e),
           priority' \in [Slots -> Int], boost_counter' \in 0..(BOOST_CYCLES - 1)
    PROVE  KernelInv'
  <1> USE DEF KernelInv
  <1>1. TypeOK'
    BY DEF TypeOK, EnvRun, idVars, ipcVars, Goto, Statuses, OutsidePCs
  <1>2. kernel_lock = c /\ kernel_lock' = NULL
    BY DEF BigKernelLock, EnvRun
  <1>3. /\ pc' = [pc EXCEPT ![c] = "restore"]
        /\ cpu_env' = [cpu_env EXCEPT ![c] = e]
    BY DEF EnvRun, Goto
  <1>4. BigKernelLock'
    BY <1>2, <1>3 DEF BigKernelLock, TypeOK, KernelPCs, CPUs, NULL
  <1>5. CurenvSet'
    BY <1>3 DEF CurenvSet, TypeOK, Slots, NULL
  <1> QED BY <1>1, <1>4, <1>5

\* env_destroy: the CPU keeps the lock, and leaves the dispatcher.
LEMMA EnvDestroyInv ==
    ASSUME KernelInv, NEW c \in CPUs, pc[c] \in KernelPCs, NEW e \in Slots,
           EnvDestroy(c, e)
    PROVE  KernelInv'
  <1> USE DEF KernelInv
  <1>1. CASE env_status[e] = "RUNNING" /\ cpu_env[c] # e
    BY <1>1 DEF EnvDestroy, TypeOK, BigKernelLock, CurenvSet, idVars,
                infoVars, ipcVars, prioVars, cpuVars, OutsidePCs, KernelPCs,
                EnvPCs, Goto, Statuses
  <1>2. CASE ~(env_status[e] = "RUNNING" /\ cpu_env[c] # e)
             /\ env_status[e] = "FREE"
    BY <1>2, GotoInv DEF EnvDestroy
  <1>3. CASE ~(env_status[e] = "RUNNING" /\ cpu_env[c] # e)
             /\ env_status[e] # "FREE"
    <2>1. /\ EnvFree(e)
          /\ cpu_env' = [cpu_env EXCEPT ![c] = IF @ = e THEN NULL ELSE @]
          /\ pc' = [pc EXCEPT ![c] = IF cpu_env[c] = e THEN "sched" ELSE "ret"]
          /\ UNCHANGED <<cpu_status, kernel_lock>>
      BY <1>3 DEF EnvDestroy, Goto
    <2>2. TypeOK'
      BY <2>1 DEF TypeOK, EnvFree, infoVars, ipcVars, prioVars, OutsidePCs,
                  KernelPCs, Statuses
    <2>3. BigKernelLock' /\ CurenvSet'
      BY <2>1 DEF TypeOK, BigKernelLock, CurenvSet, KernelPCs, EnvPCs
    <2> QED BY <2>2, <2>3
  <1> QED BY <1>1, <1>2, <1>3

\* env_alloc keeps the types of the environment table.
LEMMA EnvAllocInv ==
    ASSUME KernelInv, NEW e \in Slots \cup {NULL}, NEW parent \in EnvIds,
           NEW st \in Statuses, EnvAlloc(e, parent, st),
           NEW c \in CPUs, pc[c] \in KernelPCs,
           UNCHANGED pc \/ Goto(c, "ret"), UNCHANGED cpuVars
    PROVE  KernelInv'
  <1> USE DEF KernelInv
  <1>0. e \in Slots
    BY DEF EnvAlloc
  <1>1. <<NextGen(env_id[e][1]), e>> \in EnvIds
    <2>1. env_id[e] \in EnvIds
      BY <1>0 DEF TypeOK
    <2>2. env_id[e][1] \in 0..MaxGen
      BY <2>1 DEF EnvIds
    <2>3. NextGen(env_id[e][1]) \in 0..MaxGen
      BY <2>2, SizeAssumption DEF NextGen
    <2> QED BY <2>3, <1>0 DEF EnvIds
  <1>2. env_id' \in [Slots -> EnvIds]
    BY <1>1 DEF TypeOK, EnvAlloc
  <1>3. pc' \in [CPUs -> OutsidePCs \cup KernelPCs]
    BY DEF TypeOK, Goto, KernelPCs
  <1>4. TypeOK'
    BY <1>0, <1>2, <1>3, PolicyAssumption
    DEF TypeOK, EnvAlloc, cpuVars
  <1>5. BigKernelLock' /\ CurenvSet'
    BY DEF BigKernelLock, CurenvSet, TypeOK, cpuVars, Goto, KernelPCs, EnvPCs
  <1> QED BY <1>4, <1>5

\* The schedulers end in env_run, in the monitor or in a halt.
LEMMA RunCurrentOrHaltInv ==
    ASSUME KernelInv, NEW c \in CPUs, pc[c] \in KernelPCs,
           RunCurrentOrHalt(c),
           priority' \in [Slots -> Int], boost_counter' \in 0..(BOOST_CYCLES - 1)
    PROVE  KernelInv'
  <1>1. CASE cpu_env[c] # NULL /\ env_status[cpu_env[c]] = "RUNNING"
    BY <1>1, EnvRunInv DEF RunCurrentOrHalt, KernelInv, TypeOK
  <1>2. CASE ~(cpu_env[c] # NULL /\ env_status[cpu_env[c]] = "RUNNING")
    <2>1. SchedHalt(c)
      BY <1>2 DEF RunCurrentOrHalt
    <2>2. TypeOK'
      BY <2>1 DEF SchedHalt, KernelInv, TypeOK, idVars, infoVars, ipcVars,
                  cpuVars, Goto, OutsidePCs, KernelPCs
    <2>3. CASE Goto(c, "monitor") /\ UNCHANGED cpuVars
      BY <2>2, <2>3 DEF KernelInv, BigKernelLock, CurenvSet, TypeOK, cpuVars, Goto,
                  KernelPCs, EnvPCs
    <2>4. CASE /\ cpu_env' = [cpu_env EXCEPT ![c] = NULL]
               /\ kernel_lock' = NULL
               /\ Goto(c, "idle")
      <3>1. kernel_lock = c
        BY DEF KernelInv, BigKernelLock
      <3> QED BY <2>2, <2>4, <3>1 DEF KernelInv, BigKernelLock, CurenvSet, TypeOK,
                  Goto, KernelPCs, EnvPCs, CPUs, NULL
    <2> QED BY <2>1, <2>3, <2>4 DEF SchedHalt
  <1> QED BY <1>1, <1>2

\* sched_yield, with either scheduler.
LEMMA SchedYieldInv ==
    ASSUME KernelInv, NEW c \in CPUs, SchedYield(c)
    PROVE  KernelInv'
  <1>0. pc[c] \in KernelPCs
    BY DEF SchedYield, KernelPCs
  <1>1. CASE SchedRR(c)
    <2>1. /\ priority' \in [Slots -> Int]
          /\ boost_counter' \in 0..(BOOST_CYCLES - 1)
      BY <1>1 DEF SchedRR, prioVars, KernelInv, TypeOK
    <2>2. CASE Runnable = {} /\ RunCurrentOrHalt(c)
      BY <1>0, <2>1, <2>2, RunCurrentOrHaltInv
    <2>3. ASSUME NEW s \in Runnable, EnvRun(c, s) PROVE KernelInv'
      BY <1>0, <2>1, <2>3, EnvRunInv DEF Runnable
    <2> QED BY <1>1, <2>2, <2>3 DEF SchedRR
  <1>2. CASE PrioritySched(c)
    <2>1. boost_counter' \in 0..(BOOST_CYCLES - 1)
      BY <1>2, PolicyAssumption DEF PrioritySched, Boosting, KernelInv, TypeOK
    <2>2. \A t \in Slots : Boosted(t) \in Int
      BY PolicyAssumption DEF Boosted, KernelInv, TypeOK
    <2>3. priority' \in [Slots -> Int]
      BY <1>2, <2>2 DEF PrioritySched
    <2>4. CASE Runnable = {} /\ RunCurrentOrHalt(c)
      BY <1>0, <2>1, <2>3, <2>4, RunCurrentOrHaltInv
    <2>5. ASSUME NEW s \in Runnable, EnvRun(c, s) PROVE KernelInv'
      BY <1>0, <2>1, <2>3, <2>5, EnvRunInv DEF Runnable
    <2> QED BY <1>2, <2>4, <2>5 DEF PrioritySched
  <1> QED BY <1>1, <1>2 DEF SchedYield

\* Every step of every CPU keeps the invariant, one case per action.
LEMMA KernelInvStep == KernelInv /\ [Next]_vars => KernelInv'
  <1> SUFFICES ASSUME KernelInv, [Next]_vars
               PROVE  KernelInv'
    OBVIOUS
  <1>0. ASSUME NEW c \in CPUs, NEW call \in Calls, Dispatch(c, call)
        PROVE  pc[c] \in KernelPCs /\ cpu_env[c] \in Slots
    BY <1>0 DEF Dispatch, KernelInv, TypeOK, CurenvSet, KernelPCs, EnvPCs
  <1> USE SizeAssumption, PolicyAssumption
  <1>1. CASE UNCHANGED vars
    BY <1>1 DEF vars, KernelInv, TypeOK, BigKernelLock, CurenvSet, envVars,
                idVars, infoVars, ipcVars, prioVars, cpuVars
  <1>2. CASE ApsStarted
    BY <1>2 DEF KernelInv, TypeOK, BigKernelLock, CurenvSet, envVars, idVars,
                infoVars, ipcVars, prioVars, cpuVars, OutsidePCs, KernelPCs,
                EnvPCs, Goto, ApsStarted, CPUs
  <1>3. CASE BootDone
    BY <1>3, GotoInv DEF BootDone, CPUs, KernelPCs
  <1>4. CASE EnvCreate
    <2>1. NoId \in EnvIds /\ "RUNNABLE" \in Statuses /\ 0 \in CPUs
      BY DEF NoId, EnvIds, Slots, Statuses, CPUs
    <2>2. env_free_list \in Slots \cup {NULL} /\ pc[0] \in KernelPCs
      BY <1>4 DEF KernelInv, TypeOK, EnvCreate, KernelPCs
    <2> QED BY <1>4, <2>1, <2>2, EnvAllocInv DEF EnvCreate
  <1>5. ASSUME NEW c \in CPUs, StartAp(c) PROVE KernelInv'
    BY <1>5 DEF KernelInv, TypeOK, BigKernelLock, CurenvSet, envVars, idVars,
                infoVars, ipcVars, prioVars, cpuVars, OutsidePCs, KernelPCs,
                EnvPCs, Goto, StartAp
  <1>6. ASSUME NEW c \in CPUs, MpMain(c) PROVE KernelInv'
    BY <1>6 DEF KernelInv, TypeOK, BigKernelLock, CurenvSet, envVars, idVars,
                infoVars, ipcVars, prioVars, cpuVars, OutsidePCs, KernelPCs,
                EnvPCs, Goto, MpMain
  <1>7. ASSUME NEW c \in CPUs, Restore(c) PROVE KernelInv'
    BY <1>7 DEF KernelInv, TypeOK, BigKernelLock, CurenvSet, envVars, idVars,
                infoVars, ipcVars, prioVars, cpuVars, OutsidePCs, KernelPCs,
                EnvPCs, Goto, Restore
  <1>8. ASSUME NEW c \in CPUs, TimerIrq(c) PROVE KernelInv'
    BY <1>8 DEF KernelInv, TypeOK, BigKernelLock, CurenvSet, envVars, idVars,
                infoVars, ipcVars, prioVars, cpuVars, OutsidePCs, KernelPCs,
                EnvPCs, Goto, TimerIrq
  <1>9. ASSUME NEW c \in CPUs, UserTrap(c) PROVE KernelInv'
    BY <1>9 DEF KernelInv, TypeOK, BigKernelLock, CurenvSet, envVars, idVars,
                infoVars, ipcVars, prioVars, cpuVars, OutsidePCs, KernelPCs,
                EnvPCs, Goto, UserTrap
  <1>10. ASSUME NEW c \in CPUs, TimerWake(c) PROVE KernelInv'
    BY <1>10 DEF KernelInv, TypeOK, BigKernelLock, CurenvSet, envVars, idVars,
                infoVars, ipcVars, prioVars, cpuVars, OutsidePCs, KernelPCs,
                EnvPCs, Goto, TimerWake
  <1>11. ASSUME NEW c \in CPUs, LockKernel(c) PROVE KernelInv'
    BY <1>11 DEF KernelInv, TypeOK, BigKernelLock, CurenvSet, envVars, idVars,
                infoVars, ipcVars, prioVars, cpuVars, OutsidePCs, KernelPCs,
                EnvPCs, Goto, LockKernel,
                AfterLock, NULL, CPUs
  <1>12. ASSUME NEW c \in CPUs, Monitor(c) PROVE KernelInv'
    BY <1>12, <1>1 DEF Monitor
  <1>13. ASSUME NEW c \in CPUs, SchedYield(c) PROVE KernelInv'
    BY <1>13, SchedYieldInv
  <1>14. ASSUME NEW c \in CPUs, TrapZombie(c) PROVE KernelInv'
    BY <1>14 DEF KernelInv, TypeOK, BigKernelLock, CurenvSet, envVars, idVars,
                infoVars, ipcVars, prioVars, cpuVars, OutsidePCs, KernelPCs,
                EnvPCs, Goto, TrapZombie,
                EnvFree, Statuses
  <1>15. ASSUME NEW c \in CPUs, TrapTimer(c) PROVE KernelInv'
    BY <1>15, GotoInv DEF TrapTimer, KernelPCs
  <1>16. ASSUME NEW c \in CPUs, TrapReturn(c) PROVE KernelInv'
    <2>1. pc[c] \in KernelPCs
      BY <1>16 DEF TrapReturn, KernelPCs
    <2>2. CASE cpu_env[c] # NULL /\ env_status[cpu_env[c]] = "RUNNING"
      <3>1. /\ EnvRun(c, cpu_env[c])
            /\ UNCHANGED prioVars
            /\ cpu_env[c] \in Slots
        BY <1>16, <2>2 DEF TrapReturn, KernelInv, TypeOK
      <3> QED BY <2>1, <3>1, EnvRunInv DEF prioVars, KernelInv, TypeOK
    <2>3. CASE ~(cpu_env[c] # NULL /\ env_status[cpu_env[c]] = "RUNNING")
      BY <1>16, <2>1, <2>3, GotoInv DEF TrapReturn
    <2> QED BY <2>2, <2>3
  <1>17. ASSUME NEW c \in CPUs, SysOther(c) PROVE KernelInv'
    BY <1>17, <1>0, ReturnInv DEF SysOther, Calls
  <1>18. ASSUME NEW c \in CPUs, TrapBrkpt(c) PROVE KernelInv'
    BY <1>18, <1>0, GotoInv DEF TrapBrkpt, Calls
  <1>19. ASSUME NEW c \in CPUs, SysYield(c) PROVE KernelInv'
    BY <1>19, <1>0, GotoInv DEF SysYield, Calls
  <1>20. ASSUME NEW c \in CPUs, UserFault(c) PROVE KernelInv'
    BY <1>20, <1>0, EnvDestroyInv DEF UserFault, Calls
  <1>21. ASSUME NEW c \in CPUs, UserUpcall(c) PROVE KernelInv'
    <2>1. pc[c] \in KernelPCs /\ cpu_env[c] \in Slots
      BY <1>21, <1>0 DEF UserUpcall, Calls
    <2>2. CASE EnvRun(c, cpu_env[c]) /\ UNCHANGED prioVars
      BY <2>1, <2>2, EnvRunInv DEF prioVars, KernelInv, TypeOK
    <2>3. CASE Goto(c, "panic") /\ UNCHANGED <<envVars, cpuVars>>
      BY <2>1, <2>3, GotoInv
    <2> QED BY <1>21, <2>2, <2>3 DEF UserUpcall
  <1>22. ASSUME NEW c \in CPUs, SysExofork(c) PROVE KernelInv'
    <2>1. pc[c] \in KernelPCs /\ cpu_env[c] \in Slots
      BY <1>22, <1>0 DEF SysExofork, Calls
    <2>2. CASE env_free_list = NULL
      BY <1>22, <2>1, <2>2, ReturnInv DEF SysExofork
    <2>3. CASE env_free_list # NULL
      <3>1. /\ env_free_list \in Slots \cup {NULL}
            /\ env_id[cpu_env[c]] \in EnvIds
            /\ "NOT_RUNNABLE" \in Statuses
        BY <2>1 DEF KernelInv, TypeOK, Statuses
      <3> QED BY <1>22, <2>1, <2>3, <3>1, EnvAllocInv DEF SysExofork
    <2> QED BY <2>2, <2>3
  <1>23. ASSUME NEW c \in CPUs, NEW id \in EnvIds, SysEnvDestroy(c, id)
        PROVE  KernelInv'
    <2>1. pc[c] \in KernelPCs /\ cpu_env[c] \in Slots
      BY <1>23, <1>0 DEF SysEnvDestroy, Calls
    <2> DEFINE e == envid2env(c, id, TRUE)
    <2>2. e \in Slots \cup {NULL}
      BY Envid2envType DEF KernelInv
    <2>3. CASE e = NULL
      BY <1>23, <2>1, <2>3, ReturnInv DEF SysEnvDestroy
    <2>4. CASE e # NULL
      <3>1. EnvDestroy(c, e) /\ e \in Slots
        BY <1>23, <2>2, <2>4 DEF SysEnvDestroy
      <3> QED BY <2>1, <3>1, EnvDestroyInv
    <2> QED BY <2>3, <2>4
  <1>24. ASSUME NEW c \in CPUs, NEW id \in EnvIds, SysSetPgfaultUpcall(c, id)
        PROVE  KernelInv'
    <2>1. pc[c] \in KernelPCs /\ cpu_env[c] \in Slots
      BY <1>24, <1>0 DEF SysSetPgfaultUpcall, Calls
    <2> DEFINE e == envid2env(c, id, TRUE)
    <2>2. e \in Slots \cup {NULL}
      BY Envid2envType DEF KernelInv
    <2>3. CASE e = NULL
      BY <1>24, <2>1, <2>3, ReturnInv DEF SysSetPgfaultUpcall
    <2>4. CASE e # NULL
      <3>1. /\ env_pgfault_upcall' = [env_pgfault_upcall EXCEPT ![e] = TRUE]
            /\ Goto(c, "ret")
            /\ UNCHANGED <<env_status, idVars, env_runs, env_cpunum, ipcVars,
                           prioVars, cpuVars>>
        BY <1>24, <2>4 DEF SysSetPgfaultUpcall
      <3> HIDE DEF e
      <3> QED BY <2>1, <3>1
          DEF KernelInv, TypeOK, BigKernelLock, CurenvSet, idVars, ipcVars,
              prioVars, cpuVars, OutsidePCs, KernelPCs, EnvPCs, Goto
    <2> QED BY <2>3, <2>4
  <1>25. ASSUME NEW c \in CPUs, NEW id \in EnvIds, SysSetPgfaultUpcallBad(c, id)
        PROVE  KernelInv'
    <2>1. pc[c] \in KernelPCs
      BY <1>25, <1>0 DEF SysSetPgfaultUpcallBad, Calls
    <2> DEFINE e == envid2env(c, id, TRUE)
    <2>2. e \in Slots \cup {NULL}
      BY Envid2envType DEF KernelInv
    <2>3. EnvDestroy(c, e) /\ e \in Slots
      BY <1>25, <2>2 DEF SysSetPgfaultUpcallBad
    <2> QED BY <2>1, <2>3, EnvDestroyInv
  <1>26. ASSUME NEW c \in CPUs, NEW id \in EnvIds, SysIpcTrySend(c, id)
        PROVE  KernelInv'
    <2>1. pc[c] \in KernelPCs /\ cpu_env[c] \in Slots
      BY <1>26, <1>0 DEF SysIpcTrySend, Calls
    <2> DEFINE e == envid2env(c, id, FALSE)
    <2>2. e \in Slots \cup {NULL}
      BY Envid2envType DEF KernelInv
    <2>3. CASE e = NULL
      BY <1>26, <2>1, <2>3, ReturnInv DEF SysIpcTrySend
    <2>4. CASE e # NULL
      <3>1. CASE ~env_ipc_recving[e]
        BY <1>26, <2>1, <2>4, <3>1, ReturnInv DEF SysIpcTrySend
      <3>2. CASE env_ipc_recving[e]
        <4>1. /\ env_ipc_recving' = [env_ipc_recving EXCEPT ![e] = FALSE]
              /\ env_status' = [env_status EXCEPT ![e] = "RUNNABLE"]
              /\ Goto(c, "ret")
              /\ UNCHANGED <<idVars, infoVars, prioVars, cpuVars>>
          BY <1>26, <2>4, <3>2 DEF SysIpcTrySend
        <4> HIDE DEF e
        <4> QED BY <2>1, <4>1
            DEF KernelInv, TypeOK, BigKernelLock, CurenvSet, idVars, infoVars,
                prioVars, cpuVars, OutsidePCs, KernelPCs, EnvPCs, Goto, Statuses
      <3> QED BY <3>1, <3>2
    <2> QED BY <2>3, <2>4
  <1>27. ASSUME NEW c \in CPUs, NEW id \in EnvIds,
               NEW st \in {"RUNNABLE", "NOT_RUNNABLE"}, SysEnvSetStatus(c, id, st)
        PROVE  KernelInv'
    <2>1. pc[c] \in KernelPCs /\ cpu_env[c] \in Slots
      BY <1>27, <1>0 DEF SysEnvSetStatus, Calls
    <2> DEFINE e == envid2env(c, id, TRUE)
    <2>2. e \in Slots \cup {NULL}
      BY Envid2envType DEF KernelInv
    <2>3. CASE e = NULL
      BY <1>27, <2>1, <2>3, ReturnInv DEF SysEnvSetStatus
    <2>4. CASE e # NULL
      <3>1. /\ env_status' = [env_status EXCEPT ![e] = st]
            /\ Goto(c, "ret")
            /\ UNCHANGED <<idVars, infoVars, ipcVars, prioVars, cpuVars>>
        BY <1>27, <2>4 DEF SysEnvSetStatus
      <3> HIDE DEF e
      <3> QED BY <2>1, <3>1
          DEF KernelInv, TypeOK, BigKernelLock, CurenvSet, idVars, infoVars,
              ipcVars, prioVars, cpuVars, OutsidePCs, KernelPCs, EnvPCs, Goto,
              Statuses
    <2> QED BY <2>3, <2>4
  <1>28. ASSUME NEW c \in CPUs, NEW id \in EnvIds, NEW p \in UserPriorities,
               SysSetPriority(c, id, p)
        PROVE  KernelInv'
    BY <1>28 DEF KernelInv, TypeOK, BigKernelLock, CurenvSet, envVars, idVars,
                infoVars, ipcVars, prioVars, cpuVars, OutsidePCs, KernelPCs,
                EnvPCs, Goto, SysSetPriority,
                Dispatch
  <1>29. ASSUME NEW c \in CPUs, NEW ok \in BOOLEAN, SysIpcRecv(c, ok)
        PROVE  KernelInv'
    BY <1>29 DEF KernelInv, TypeOK, BigKernelLock, CurenvSet, envVars, idVars,
                infoVars, ipcVars, prioVars, cpuVars, OutsidePCs, KernelPCs,
                EnvPCs, Goto, SysIpcRecv,
                Dispatch, Statuses
  <1> QED BY <1>1, <1>2, <1>3, <1>4, <1>5, <1>6, <1>7, <1>8, <1>9, <1>10, <1>11, <1>12, <1>13, <1>14, <1>15, <1>16, <1>17, <1>18, <1>19, <1>20, <1>21, <1>22, <1>23, <1>24, <1>25, <1>26, <1>27, <1>28, <1>29
      DEF Next, KernelStep, BootStep

\* Whatever the programs do, types are kept, the big kernel lock excludes, and
\* trap finds a current environment.
THEOREM KernelSafe == Spec => []KernelInv
  <1>1. Init => KernelInv
    BY KernelInvInit
  <1>2. KernelInv /\ [Next]_vars => KernelInv'
    BY KernelInvStep
  <1> QED BY <1>1, <1>2, PTL DEF Spec

\* lock_kernel and unlock_kernel pair up on every path through the kernel: for
\* any number of CPUs and any programs, a CPU is inside exactly when it holds
\* the lock, so spin_lock and spin_unlock never panic.
THEOREM LockExcludes == Spec => []BigKernelLock
  <1>1. KernelInv => BigKernelLock
    BY DEF KernelInv
  <1> QED BY <1>1, KernelSafe, PTL

\* assert(curenv) in trap holds whatever programs do.
THEOREM TrapHasCurenv == Spec => []CurenvSet
  <1>1. KernelInv => CurenvSet
    BY DEF KernelInv
  <1> QED BY <1>1, KernelSafe, PTL

-----------------------------------------------------------------------------
(* Programs that keep to the library's protocol never get an environment   *)
(* onto two CPUs: the proof that ProtocolInv is an invariant.              *)

-----------------------------------------------------------------------------
(* The list of free environments.                                          *)

\* A step that leaves the list and the set of free slots alone.
LEMMA FreeListKeep ==
    ASSUME FreeListExact,
           env_link' = env_link, env_free_list' = env_free_list,
           \A s \in Slots : env_status'[s] = "FREE" <=> env_status[s] = "FREE"
    PROVE  FreeListExact'
  <1>1. PICK n \in 0..NENV : \E q \in [1..n -> Slots] :
            /\ IsFreeList(n, q)
            /\ \A i, j \in 1..n : q[i] = q[j] => i = j
            /\ \A s \in Slots : env_status[s] = "FREE" <=> \E i \in 1..n : q[i] = s
    BY DEF FreeListExact
  <1>2. PICK q \in [1..n -> Slots] :
            /\ IsFreeList(n, q)
            /\ \A i, j \in 1..n : q[i] = q[j] => i = j
            /\ \A s \in Slots : env_status[s] = "FREE" <=> \E i \in 1..n : q[i] = s
    BY <1>1
  <1>3. IsFreeList(n, q)'
    BY <1>2 DEF IsFreeList
  <1>4. \A s \in Slots : env_status'[s] = "FREE" <=> \E i \in 1..n : q[i] = s
    BY <1>2
  <1> QED BY <1>2, <1>3, <1>4 DEF FreeListExact

\* env_alloc takes a free slot off the head of the list.
LEMMA FreeListPop ==
    ASSUME TypeOK, FreeListExact, NEW e \in Slots, e = env_free_list,
           env_free_list' = env_link[e], env_link' = env_link,
           NEW st \in Statuses, st # "FREE",
           env_status' = [env_status EXCEPT ![e] = st]
    PROVE  env_status[e] = "FREE" /\ FreeListExact'
  <1>1. PICK n \in 0..NENV : \E q \in [1..n -> Slots] :
            /\ IsFreeList(n, q)
            /\ \A i, j \in 1..n : q[i] = q[j] => i = j
            /\ \A s \in Slots : env_status[s] = "FREE" <=> \E i \in 1..n : q[i] = s
    BY DEF FreeListExact
  <1>2. PICK q \in [1..n -> Slots] :
            /\ IsFreeList(n, q)
            /\ \A i, j \in 1..n : q[i] = q[j] => i = j
            /\ \A s \in Slots : env_status[s] = "FREE" <=> \E i \in 1..n : q[i] = s
    BY <1>1
  <1>3. n > 0 /\ n \in Nat /\ NENV \in Nat /\ q[1] = e
    BY <1>2, SizeAssumption DEF IsFreeList, Slots, NULL
  <1>4. env_status[e] = "FREE"
    BY <1>2, <1>3
  <1> DEFINE m == n - 1
             r == [i \in 1..m |-> q[i + 1]]
  <1>5. m \in 0..NENV /\ r \in [1..m -> Slots]
    BY <1>3
  <1>6. IsFreeList(m, r)'
    <2>1. env_free_list' = IF m = 0 THEN NULL ELSE r[1]
      <3>1. 1 \in 1..n /\ (1 = n <=> m = 0)
        BY <1>3
      <3>2. env_link[q[1]] = IF 1 = n THEN NULL ELSE q[1 + 1]
        BY <1>2, <3>1 DEF IsFreeList
      <3>3. m # 0 => r[1] = q[1 + 1]
        BY <1>3
      <3> QED BY <1>3, <3>1, <3>2, <3>3
    <2>2. \A i \in 1..m : env_link[r[i]] = IF i = m THEN NULL ELSE r[i + 1]
      BY <1>2, <1>3 DEF IsFreeList
    <2> HIDE DEF r, m
    <2> QED BY <2>1, <2>2 DEF IsFreeList
  <1>7. \A i, j \in 1..m : r[i] = r[j] => i = j
    BY <1>2, <1>3
  <1>8. ASSUME NEW s \in Slots
        PROVE  env_status'[s] = "FREE" <=> \E i \in 1..m : r[i] = s
    <2>1. CASE s = e
      BY <1>2, <1>3, <2>1 DEF TypeOK
    <2>2. CASE s # e
      <3>1. env_status'[s] = env_status[s]
        BY <2>2 DEF TypeOK
      <3>2. ASSUME NEW i \in 1..n, q[i] = s PROVE \E k \in 1..m : r[k] = s
        <4>1. i - 1 \in 1..m /\ r[i - 1] = s
          BY <1>3, <2>2, <3>2
        <4> QED BY <4>1
      <3>3. ASSUME NEW k \in 1..m, r[k] = s PROVE \E i \in 1..n : q[i] = s
        BY <1>3, <3>3
      <3> QED BY <1>2, <3>1, <3>2, <3>3
    <2> QED BY <2>1, <2>2
  <1> HIDE DEF r, m
  <1>9. FreeListExact'
    BY <1>5, <1>6, <1>7, <1>8 DEF FreeListExact
  <1> QED BY <1>4, <1>9

\* env_free puts a slot that was in use at the head of the list.
LEMMA FreeListPush ==
    ASSUME TypeOK, FreeListExact, NEW e \in Slots, env_status[e] # "FREE",
           env_status' = [env_status EXCEPT ![e] = "FREE"],
           env_link' = [env_link EXCEPT ![e] = env_free_list],
           env_free_list' = e
    PROVE  FreeListExact'
  <1>1. PICK n \in 0..NENV : \E q \in [1..n -> Slots] :
            /\ IsFreeList(n, q)
            /\ \A i, j \in 1..n : q[i] = q[j] => i = j
            /\ \A s \in Slots : env_status[s] = "FREE" <=> \E i \in 1..n : q[i] = s
    BY DEF FreeListExact
  <1>2. PICK q \in [1..n -> Slots] :
            /\ IsFreeList(n, q)
            /\ \A i, j \in 1..n : q[i] = q[j] => i = j
            /\ \A s \in Slots : env_status[s] = "FREE" <=> \E i \in 1..n : q[i] = s
    BY <1>1
  <1>3. n \in Nat /\ NENV \in Nat
    BY SizeAssumption
  <1>4. \A i \in 1..n : q[i] # e /\ q[i] \in Slots
    BY <1>2
  <1> DEFINE m == n + 1
             r == [i \in 1..m |-> IF i = 1 THEN e ELSE q[i - 1]]
  <1>5. r \in [1..m -> Slots]
    BY <1>3
  <1>6. \A i, j \in 1..m : r[i] = r[j] => i = j
    BY <1>2, <1>3, <1>4
  <1>7. m <= NENV
    <2>1. IsFiniteSet(1..m) /\ Cardinality(1..m) = m
      BY <1>3, FS_Interval
    <2>2. IsFiniteSet(Slots) /\ Cardinality(Slots) = NENV
      BY <1>3, SizeAssumption, FS_Interval DEF Slots
    <2>3. CASE NENV < m
      <3>1. \E i, j \in 1..m : i # j /\ r[i] = r[j]
        <4> HIDE DEF m, r
        <4> QED BY <1>5, <2>1, <2>2, <2>3, FS_PigeonHole
      <3> QED BY <1>6, <3>1
    <2> QED BY <1>3, <2>3
  <1>8. IsFreeList(m, r)'
    <2>1. env_free_list' = IF m = 0 THEN NULL ELSE r[1]
      BY <1>3
    <2>2. ASSUME NEW i \in 1..m
          PROVE  env_link'[r[i]] = IF i = m THEN NULL ELSE r[i + 1]
      <3>1. CASE i = 1
        BY <1>2, <1>3, <3>1 DEF IsFreeList, TypeOK
      <3>2. CASE i # 1
        <4>1. i - 1 \in 1..n /\ r[i] = q[i - 1]
          BY <1>3, <3>2
        <4>2. env_link'[r[i]] = env_link[q[i - 1]]
          BY <1>4, <4>1 DEF TypeOK
        <4> QED BY <1>2, <1>3, <4>1, <4>2 DEF IsFreeList
      <3> QED BY <3>1, <3>2
    <2> HIDE DEF r, m
    <2> QED BY <2>1, <2>2 DEF IsFreeList
  <1>9. ASSUME NEW s \in Slots
        PROVE  env_status'[s] = "FREE" <=> \E i \in 1..m : r[i] = s
    <2>1. CASE s = e
      <3>1. 1 \in 1..m /\ r[1] = e
        BY <1>3
      <3> QED BY <2>1, <3>1 DEF TypeOK
    <2>2. CASE s # e
      <3>1. env_status'[s] = env_status[s]
        BY <2>2 DEF TypeOK
      <3>2. ASSUME NEW i \in 1..n, q[i] = s PROVE \E k \in 1..m : r[k] = s
        <4>1. i + 1 \in 1..m /\ r[i + 1] = s
          BY <1>3, <3>2
        <4> QED BY <4>1
      <3>3. ASSUME NEW k \in 1..m, r[k] = s PROVE \E i \in 1..n : q[i] = s
        <4>1. k - 1 \in 1..n /\ q[k - 1] = s
          BY <1>3, <2>2, <3>3
        <4> QED BY <4>1
      <3> QED BY <1>2, <3>1, <3>2, <3>3
    <2> QED BY <2>1, <2>2
  <1>10. m \in 0..NENV
    BY <1>3, <1>7
  <1> HIDE DEF r, m
  <1> QED BY <1>5, <1>6, <1>8, <1>9, <1>10 DEF FreeListExact

-----------------------------------------------------------------------------
(* The parts of kern/ that several handlers share.                         *)

\* With CPU c in the kernel, what is current elsewhere is running or dying,
\* and is not current on c.
LEMMA ElsewhereActive ==
    ASSUME ProtocolInv, NEW c \in CPUs, pc[c] \in KernelPCs,
           NEW d \in CPUs, d # c, cpu_env[d] # NULL
    PROVE  /\ cpu_env[d] \in Slots
           /\ env_status[cpu_env[d]] \in {"RUNNING", "DYING"}
           /\ cpu_env[d] # cpu_env[c]
  BY DEF ProtocolInv, KernelInv, TypeOK, BigKernelLock, CurenvStatus,
         OneCpuPerEnv

\* env_run, of a runnable environment or of the one that was running.
LEMMA EnvRunProtocol ==
    ASSUME ProtocolInv, KernelInv', NEW c \in CPUs, pc[c] \in KernelPCs,
           NEW e \in Slots, EnvRun(c, e),
           \/ env_status[e] = "RUNNABLE"
           \/ e = cpu_env[c] /\ env_status[e] = "RUNNING",
           cpu_env[c] # NULL => env_status[cpu_env[c]] \notin {"DYING", "FREE"}
    PROVE  ProtocolInv'
  <1> USE DEF ProtocolInv
  <1>1. \A d \in CPUs : d # c /\ cpu_env[d] # NULL =>
              /\ cpu_env[d] \in Slots
              /\ env_status[cpu_env[d]] \in {"RUNNING", "DYING"}
              /\ cpu_env[d] # cpu_env[c]
              /\ cpu_env[d] # e
    BY ElsewhereActive
  <1>2. /\ cpu_env' = [cpu_env EXCEPT ![c] = e]
        /\ pc' = [pc EXCEPT ![c] = "restore"]
        /\ env_runs' = [env_runs EXCEPT ![e] = 1]
        /\ kernel_lock' = NULL
        /\ UNCHANGED <<env_cpunum, env_ipc_recving, env_link, env_free_list>>
    BY DEF EnvRun, Goto, idVars, ipcVars
  <1>3. /\ env_status'[e] = "RUNNING"
        /\ \A s \in Slots : s # e =>
              env_status'[s] = IF s = cpu_env[c] /\ env_status[s] = "RUNNING"
                               THEN "RUNNABLE" ELSE env_status[s]
    BY DEF EnvRun
  <1>4. /\ cpu_env'[c] = e /\ pc'[c] = "restore"
        /\ \A d \in CPUs : d # c => cpu_env'[d] = cpu_env[d] /\ pc'[d] = pc[d]
    BY <1>2 DEF KernelInv, TypeOK
  <1>5. OneCpuPerEnv'
    BY <1>1, <1>4 DEF OneCpuPerEnv
  <1>6. \A d \in CPUs : d # c /\ cpu_env[d] # NULL =>
              env_status'[cpu_env[d]] = env_status[cpu_env[d]]
    BY <1>1, <1>3
  <1>7. LiveEnvIsActive'
    <2> SUFFICES ASSUME NEW d \in CPUs, pc'[d] \in EnvPCs
                 PROVE  env_status'[cpu_env'[d]] \in {"RUNNING", "DYING"}
      BY DEF LiveEnvIsActive
    <2>1. CASE d = c
      BY <1>3, <1>4, <2>1
    <2>2. CASE d # c
      BY <1>1, <1>4, <1>6, <2>2 DEF LiveEnvIsActive, KernelInv, CurenvSet
    <2> QED BY <2>1, <2>2
  <1>8. NoOrphan'
    <2> SUFFICES ASSUME NEW s \in Slots, env_status'[s] \in {"RUNNING", "DYING"}
                 PROVE  \E d \in CPUs : cpu_env'[d] = s
      BY DEF NoOrphan
    <2>1. CASE s = e
      BY <1>4, <2>1
    <2>2. CASE s # e
      <3>1. env_status[s] \in {"RUNNING", "DYING"} /\ s # cpu_env[c]
        BY <1>3, <2>2 DEF Slots, NULL
      <3>2. PICK d \in CPUs : cpu_env[d] = s
        BY <3>1 DEF NoOrphan
      <3> QED BY <1>4, <3>1, <3>2
    <2> QED BY <2>1, <2>2
  <1>9. RecvingIsBlocked'
    BY <1>2, <1>3 DEF RecvingIsBlocked
  <1>10. FreeListExact'
    <2>1. \A s \in Slots : env_status'[s] = "FREE" <=> env_status[s] = "FREE"
      BY <1>3
    <2> QED BY <1>2, <2>1, FreeListKeep
  <1>11. CpunumIsRight'
    BY <1>2, <1>4 DEF CpunumIsRight
  <1>12. CurenvStatus'
    <2>1. \A d \in CPUs : d # c => kernel_lock # d
      BY DEF KernelInv, BigKernelLock
    <2> QED BY <1>1, <1>3, <1>4, <1>6, <2>1 DEF CurenvStatus
  <1>13. RunsRecorded'
    BY <1>2, <1>3 DEF RunsRecorded, KernelInv, TypeOK
  <1> QED BY <1>5, <1>7, <1>8, <1>9, <1>10, <1>11, <1>12, <1>13

\* The end of a handler on CPU c that keeps the lock and its current
\* environment, which is neither dying nor free, and leaves the environments
\* of the other CPUs alone.
LEMMA HandlerProtocol ==
    ASSUME ProtocolInv, KernelInv', NEW c \in CPUs, pc[c] \in KernelPCs,
           NEW label \in {"ret", "sched", "monitor", "panic"}, Goto(c, label),
           UNCHANGED <<cpu_env, kernel_lock, env_cpunum>>,
           \A d \in CPUs : d # c /\ cpu_env[d] # NULL
              => env_status'[cpu_env[d]] \in {"RUNNING", "DYING"},
           cpu_env[c] # NULL
              => env_status'[cpu_env[c]] \notin {"DYING", "FREE"},
           \A s \in Slots : env_status'[s] \in {"RUNNING", "DYING"}
              => env_status[s] \in {"RUNNING", "DYING"},
           RecvingIsBlocked', RunsRecorded', FreeListExact'
    PROVE  ProtocolInv'
  <1> USE DEF ProtocolInv
  <1>1. pc'[c] = label /\ \A d \in CPUs : d # c => pc'[d] = pc[d]
    BY DEF Goto, KernelInv, TypeOK
  <1>2. OneCpuPerEnv' /\ NoOrphan'
    BY DEF OneCpuPerEnv, NoOrphan
  <1>3. LiveEnvIsActive'
    BY <1>1 DEF LiveEnvIsActive, EnvPCs, KernelInv, CurenvSet
  <1>4. CpunumIsRight'
    BY <1>1 DEF CpunumIsRight
  <1>5. CurenvStatus'
    <2>1. kernel_lock = c /\ \A d \in CPUs : d # c => pc[d] \notin {"ret", "sched"}
      BY DEF KernelInv, BigKernelLock, KernelPCs
    <2> SUFFICES ASSUME NEW d \in CPUs
                 PROVE  /\ cpu_env'[d] # NULL /\ kernel_lock' # d
                              => env_status'[cpu_env'[d]] \in {"RUNNING", "DYING"}
                        /\ pc'[d] \in {"boot", "off", "mp_main", "ap", "idle",
                                       "wake", "boot_aps", "create"}
                              => cpu_env'[d] = NULL
                        /\ pc'[d] \in {"ret", "sched"} /\ cpu_env'[d] # NULL
                              => env_status'[cpu_env'[d]] \notin {"DYING", "FREE"}
      BY DEF CurenvStatus
    <2>2. CASE d = c
      BY <1>1, <2>1, <2>2
    <2>3. CASE d # c
      BY <1>1, <2>1, <2>3 DEF CurenvStatus
    <2> QED BY <2>2, <2>3
  <1> QED BY <1>2, <1>3, <1>4, <1>5

\* A handler that changes nothing but its program counter.
LEMMA GotoProtocol ==
    ASSUME ProtocolInv, KernelInv', NEW c \in CPUs, pc[c] \in KernelPCs,
           NEW label \in {"ret", "sched", "monitor", "panic"}, Goto(c, label),
           cpu_env[c] # NULL => env_status[cpu_env[c]] \notin {"DYING", "FREE"},
           UNCHANGED <<envVars, cpuVars>>
    PROVE  ProtocolInv'
  <1>1. /\ env_status' = env_status /\ env_link' = env_link
        /\ env_free_list' = env_free_list /\ env_runs' = env_runs
        /\ env_ipc_recving' = env_ipc_recving /\ env_cpunum' = env_cpunum
        /\ cpu_env' = cpu_env /\ kernel_lock' = kernel_lock
    BY DEF envVars, cpuVars, idVars, infoVars, ipcVars
  <1>2. FreeListExact'
    BY <1>1, FreeListKeep DEF ProtocolInv
  <1>3. RecvingIsBlocked' /\ RunsRecorded'
    BY <1>1 DEF ProtocolInv, RecvingIsBlocked, RunsRecorded
  <1>4. \A d \in CPUs : d # c /\ cpu_env[d] # NULL
              => env_status'[cpu_env[d]] \in {"RUNNING", "DYING"}
    BY <1>1, ElsewhereActive
  <1> QED BY <1>1, <1>2, <1>3, <1>4, HandlerProtocol

\* CPU c frees its own current environment and goes to the scheduler.
LEMMA FreeCurrentProtocol ==
    ASSUME ProtocolInv, KernelInv', NEW c \in CPUs, pc[c] \in KernelPCs,
           cpu_env[c] \in Slots, env_status[cpu_env[c]] # "FREE",
           EnvFree(cpu_env[c]), cpu_env' = [cpu_env EXCEPT ![c] = NULL],
           Goto(c, "sched"), UNCHANGED kernel_lock
    PROVE  ProtocolInv'
  <1> USE DEF ProtocolInv
  <1> DEFINE e == cpu_env[c]
  <1>1. \A d \in CPUs : d # c /\ cpu_env[d] # NULL =>
              /\ cpu_env[d] \in Slots
              /\ env_status[cpu_env[d]] \in {"RUNNING", "DYING"}
              /\ cpu_env[d] # e
    BY ElsewhereActive
  <1>2. /\ env_status' = [env_status EXCEPT ![e] = "FREE"]
        /\ env_link' = [env_link EXCEPT ![e] = env_free_list]
        /\ env_free_list' = e
        /\ UNCHANGED <<env_runs, env_cpunum, env_ipc_recving>>
    BY DEF EnvFree, infoVars, ipcVars
  <1>3. /\ cpu_env'[c] = NULL /\ pc'[c] = "sched"
        /\ \A d \in CPUs : d # c => cpu_env'[d] = cpu_env[d] /\ pc'[d] = pc[d]
    BY DEF Goto, KernelInv, TypeOK
  <1>4. /\ env_status'[e] = "FREE"
        /\ \A s \in Slots : s # e => env_status'[s] = env_status[s]
    BY <1>2 DEF KernelInv, TypeOK
  <1>5. FreeListExact'
    BY <1>2, FreeListPush DEF KernelInv
  <1> HIDE DEF e
  <1>6. OneCpuPerEnv'
    BY <1>3 DEF OneCpuPerEnv
  <1>7. LiveEnvIsActive'
    <2> SUFFICES ASSUME NEW d \in CPUs, pc'[d] \in EnvPCs
                 PROVE  env_status'[cpu_env'[d]] \in {"RUNNING", "DYING"}
      BY DEF LiveEnvIsActive
    <2>1. d # c /\ cpu_env[d] # NULL
      BY <1>3 DEF EnvPCs, KernelInv, CurenvSet
    <2> QED BY <1>1, <1>3, <1>4, <2>1
  <1>8. NoOrphan'
    BY <1>3, <1>4 DEF NoOrphan, e
  <1>9. RecvingIsBlocked' /\ RunsRecorded'
    BY <1>2, <1>4 DEF RecvingIsBlocked, RunsRecorded
  <1>10. CpunumIsRight'
    BY <1>2, <1>3 DEF CpunumIsRight
  <1>11. CurenvStatus'
    <2>1. \A d \in CPUs : d # c => pc[d] \notin {"ret", "sched"}
      BY DEF KernelInv, BigKernelLock, KernelPCs
    <2> QED BY <1>1, <1>3, <1>4, <2>1 DEF CurenvStatus
  <1> QED BY <1>5, <1>6, <1>7, <1>8, <1>9, <1>10, <1>11

\* env_destroy of an environment that is neither dying nor free.
LEMMA EnvDestroyProtocol ==
    ASSUME ProtocolInv, KernelInv', NEW c \in CPUs, pc[c] \in KernelPCs,
           NEW e \in Slots, env_status[e] \notin {"DYING", "FREE"},
           cpu_env[c] \in Slots, env_status[cpu_env[c]] = "RUNNING",
           EnvDestroy(c, e)
    PROVE  ProtocolInv'
  <1> USE DEF ProtocolInv
  <1>0. \A d \in CPUs : d # c /\ cpu_env[d] # NULL =>
              /\ cpu_env[d] \in Slots
              /\ env_status[cpu_env[d]] \in {"RUNNING", "DYING"}
              /\ cpu_env[d] # cpu_env[c]
    BY ElsewhereActive
  <1>1. CASE env_status[e] = "RUNNING" /\ cpu_env[c] # e
    <2>1. /\ env_status' = [env_status EXCEPT ![e] = "DYING"]
          /\ Goto(c, "ret")
          /\ UNCHANGED <<cpu_env, kernel_lock, env_cpunum, env_runs,
                         env_ipc_recving, env_link, env_free_list>>
      BY <1>1 DEF EnvDestroy, idVars, infoVars, ipcVars, cpuVars
    <2>2. /\ env_status'[e] = "DYING"
          /\ \A s \in Slots : s # e => env_status'[s] = env_status[s]
      BY <2>1 DEF KernelInv, TypeOK
    <2>3. FreeListExact'
      BY <1>1, <2>1, <2>2, FreeListKeep
    <2>4. RecvingIsBlocked' /\ RunsRecorded'
      BY <1>1, <2>1, <2>2 DEF RecvingIsBlocked, RunsRecorded
    <2> QED BY <1>0, <1>1, <2>1, <2>2, <2>3, <2>4, HandlerProtocol
  <1>2. CASE env_status[e] # "RUNNING" \/ cpu_env[c] = e
    <2>1. /\ EnvFree(e)
          /\ cpu_env' = [cpu_env EXCEPT ![c] = IF @ = e THEN NULL ELSE @]
          /\ Goto(c, IF cpu_env[c] = e THEN "sched" ELSE "ret")
          /\ UNCHANGED kernel_lock
      BY <1>2 DEF EnvDestroy
    <2>2. CASE cpu_env[c] = e
      BY <2>1, <2>2, FreeCurrentProtocol
    <2>3. CASE cpu_env[c] # e
      <3>1. /\ env_status' = [env_status EXCEPT ![e] = "FREE"]
            /\ env_link' = [env_link EXCEPT ![e] = env_free_list]
            /\ env_free_list' = e
            /\ UNCHANGED <<env_runs, env_cpunum, env_ipc_recving>>
        BY <2>1 DEF EnvFree, infoVars, ipcVars
      <3>2. cpu_env' = cpu_env /\ Goto(c, "ret")
        BY <2>1, <2>3 DEF KernelInv, TypeOK
      <3>3. /\ env_status'[e] = "FREE"
            /\ \A s \in Slots : s # e => env_status'[s] = env_status[s]
        BY <3>1 DEF KernelInv, TypeOK
      <3>4. FreeListExact'
        BY <3>1, FreeListPush DEF KernelInv
      <3>5. RecvingIsBlocked' /\ RunsRecorded'
        BY <3>1, <3>3 DEF RecvingIsBlocked, RunsRecorded
      <3>6. \A d \in CPUs : d # c /\ cpu_env[d] # NULL
                => env_status'[cpu_env[d]] \in {"RUNNING", "DYING"}
        BY <1>0, <1>2, <2>3, <3>3
      <3>7. env_status'[cpu_env[c]] = "RUNNING"
        BY <2>3, <3>3
      <3> QED BY <2>1, <3>1, <3>2, <3>3, <3>4, <3>5, <3>6, <3>7, HandlerProtocol
    <2> QED BY <2>2, <2>3
  <1> QED BY <1>1, <1>2

\* sched_halt, with nothing runnable and no running current environment.
LEMMA SchedHaltProtocol ==
    ASSUME ProtocolInv, KernelInv', NEW c \in CPUs, pc[c] = "sched",
           cpu_env[c] # NULL => env_status[cpu_env[c]] # "RUNNING",
           SchedHalt(c)
    PROVE  ProtocolInv'
  <1> USE DEF ProtocolInv
  <1>0. /\ pc[c] \in KernelPCs
        /\ cpu_env[c] # NULL => env_status[cpu_env[c]] \notin {"DYING", "FREE"}
    BY DEF KernelPCs, CurenvStatus
  <1>1. /\ env_status' = env_status /\ env_link' = env_link
        /\ env_free_list' = env_free_list /\ env_runs' = env_runs
        /\ env_ipc_recving' = env_ipc_recving /\ env_cpunum' = env_cpunum
    BY DEF SchedHalt, idVars, infoVars, ipcVars
  <1>2. FreeListExact'
    BY <1>1, FreeListKeep
  <1>3. RecvingIsBlocked' /\ RunsRecorded'
    BY <1>1 DEF RecvingIsBlocked, RunsRecorded
  <1>4. \A d \in CPUs : d # c /\ cpu_env[d] # NULL
              => env_status'[cpu_env[d]] \in {"RUNNING", "DYING"}
    BY <1>0, <1>1, ElsewhereActive
  <1>5. CASE Goto(c, "monitor") /\ UNCHANGED cpuVars
    BY <1>0, <1>1, <1>2, <1>3, <1>4, <1>5, HandlerProtocol DEF cpuVars
  <1>6. CASE /\ cpu_env' = [cpu_env EXCEPT ![c] = NULL]
             /\ kernel_lock' = NULL
             /\ Goto(c, "idle")
    <2>1. /\ cpu_env'[c] = NULL /\ pc'[c] = "idle"
          /\ \A d \in CPUs : d # c => cpu_env'[d] = cpu_env[d] /\ pc'[d] = pc[d]
      BY <1>6 DEF Goto, KernelInv, TypeOK
    <2>2. OneCpuPerEnv'
      BY <2>1 DEF OneCpuPerEnv
    <2>3. LiveEnvIsActive' /\ CpunumIsRight'
      BY <1>1, <2>1 DEF LiveEnvIsActive, CpunumIsRight, EnvPCs
    <2>4. NoOrphan'
      <3> SUFFICES ASSUME NEW s \in Slots, env_status[s] \in {"RUNNING", "DYING"}
                   PROVE  \E d \in CPUs : cpu_env'[d] = s
        BY <1>1 DEF NoOrphan
      <3>1. PICK d \in CPUs : cpu_env[d] = s
        BY DEF NoOrphan
      <3>2. d # c
        BY <1>0, <3>1 DEF Slots, NULL
      <3> QED BY <2>1, <3>1, <3>2
    <2>5. CurenvStatus'
      <3>1. \A d \in CPUs : d # c => pc[d] \notin {"ret", "sched"}
        BY <1>0 DEF KernelInv, BigKernelLock, KernelPCs
      <3> QED BY <1>1, <1>4, <2>1, <3>1 DEF CurenvStatus
    <2> QED BY <1>2, <1>3, <2>2, <2>3, <2>4, <2>5
  <1> QED BY <1>5, <1>6 DEF SchedHalt

-----------------------------------------------------------------------------
(* One step of the specification.                                          *)

\* A handler that has been dispatched: the caller is a running environment.
LEMMA DispatchFacts ==
    ASSUME ProtocolInv, NEW c \in CPUs, NEW call, Dispatch(c, call)
    PROVE  /\ pc[c] \in KernelPCs
           /\ cpu_env[c] \in Slots
           /\ env_status[cpu_env[c]] = "RUNNING"
  BY DEF ProtocolInv, KernelInv, TypeOK, CurenvSet, LiveEnvIsActive, Dispatch,
         KernelPCs, EnvPCs

\* What envid2env finds is not free.
LEMMA Envid2envFound ==
    ASSUME ProtocolInv, NEW c \in CPUs, NEW id \in EnvIds, NEW chk \in BOOLEAN,
           env_status[cpu_env[c]] = "RUNNING", cpu_env[c] \in Slots,
           envid2env(c, id, chk) # NULL
    PROVE  /\ envid2env(c, id, chk) \in Slots
           /\ env_status[envid2env(c, id, chk)] # "FREE"
  <1>1. envid2env(c, id, chk) \in Slots
    BY Envid2envType DEF ProtocolInv, KernelInv
  <1> QED BY <1>1 DEF envid2env

\* sched_yield: what it picks was runnable, or was running here.
LEMMA SchedYieldProtocol ==
    ASSUME ProtocolInv, KernelInv', NEW c \in CPUs, SchedYield(c)
    PROVE  ProtocolInv'
  <1>1. /\ pc[c] = "sched" /\ pc[c] \in KernelPCs
        /\ cpu_env[c] # NULL => env_status[cpu_env[c]] \notin {"DYING", "FREE"}
    BY DEF SchedYield, KernelPCs, ProtocolInv, CurenvStatus
  <1>2. ASSUME NEW s \in Runnable, EnvRun(c, s) PROVE ProtocolInv'
    BY <1>1, <1>2, EnvRunProtocol DEF Runnable
  <1>3. CASE RunCurrentOrHalt(c)
    <2>1. CASE cpu_env[c] # NULL /\ env_status[cpu_env[c]] = "RUNNING"
      <3>1. EnvRun(c, cpu_env[c]) /\ cpu_env[c] \in Slots
        BY <1>3, <2>1 DEF RunCurrentOrHalt, ProtocolInv, KernelInv, TypeOK
      <3> QED BY <1>1, <2>1, <3>1, EnvRunProtocol
    <2>2. CASE ~(cpu_env[c] # NULL /\ env_status[cpu_env[c]] = "RUNNING")
      BY <1>1, <1>3, <2>2, SchedHaltProtocol DEF RunCurrentOrHalt
    <2> QED BY <2>1, <2>2
  <1> QED BY <1>2, <1>3 DEF SchedYield, SchedRR, PrioritySched

\* A step outside the kernel: nothing but program counters, CPU states and
\* the lock changes.
LEMMA OutsideProtocol ==
    ASSUME ProtocolInv, KernelInv', UNCHANGED <<envVars, cpu_env>>,
           LiveEnvIsActive', CpunumIsRight', CurenvStatus'
    PROVE  ProtocolInv'
  <1>1. /\ env_status' = env_status /\ env_link' = env_link
        /\ env_free_list' = env_free_list /\ env_runs' = env_runs
        /\ env_ipc_recving' = env_ipc_recving /\ cpu_env' = cpu_env
    BY DEF envVars, idVars, infoVars, ipcVars
  <1>2. FreeListExact'
    BY <1>1, FreeListKeep DEF ProtocolInv
  <1>3. OneCpuPerEnv' /\ NoOrphan' /\ RecvingIsBlocked' /\ RunsRecorded'
    BY <1>1 DEF ProtocolInv, OneCpuPerEnv, NoOrphan, RecvingIsBlocked,
                RunsRecorded
  <1> QED BY <1>2, <1>3 DEF ProtocolInv

\* Every step keeps the invariant when programs keep to the protocol, one case
\* per action.
LEMMA ProtocolStep ==
    ASSUME Disciplined, ProtocolInv, [Next]_vars
    PROVE  ProtocolInv'
  <1>0. KernelInv'
    BY KernelInvStep DEF ProtocolInv
  <1> USE <1>0
  <1>1. CASE UNCHANGED vars
    BY <1>1, OutsideProtocol
    DEF vars, cpuVars, ProtocolInv, LiveEnvIsActive, CpunumIsRight,
        CurenvStatus, envVars, infoVars
  <1>2. CASE ApsStarted
    <2>1. LiveEnvIsActive' /\ CpunumIsRight' /\ CurenvStatus'
      BY <1>2 DEF ApsStarted, Goto, cpuVars, envVars, infoVars, ProtocolInv,
                   KernelInv, TypeOK, LiveEnvIsActive, CpunumIsRight,
                   CurenvStatus, EnvPCs, CPUs
    <2> QED BY <1>2, <2>1, OutsideProtocol DEF ApsStarted, cpuVars
  <1>3. CASE BootDone
    <2>1. 0 \in CPUs /\ pc[0] \in KernelPCs /\ cpu_env[0] = NULL
      BY <1>3, SizeAssumption DEF BootDone, CPUs, KernelPCs, ProtocolInv,
                                  CurenvStatus
    <2> QED BY <1>3, <2>1, GotoProtocol DEF BootDone
  <1>4. CASE EnvCreate
    <2> DEFINE e == env_free_list
    <2>1. EnvAlloc(e, NoId, "RUNNABLE") /\ UNCHANGED <<cpuVars, pc>>
      BY <1>4 DEF EnvCreate
    <2>2. /\ e \in Slots
          /\ 0 \in CPUs /\ pc[0] \in KernelPCs /\ cpu_env[0] = NULL
          /\ kernel_lock = 0
      BY <1>4, <2>1, SizeAssumption
      DEF EnvCreate, EnvAlloc, CPUs, KernelPCs, ProtocolInv, CurenvStatus,
          KernelInv, TypeOK, BigKernelLock
    <2>3. /\ env_status' = [env_status EXCEPT ![e] = "RUNNABLE"]
          /\ env_runs' = [env_runs EXCEPT ![e] = 0]
          /\ env_ipc_recving' = [env_ipc_recving EXCEPT ![e] = FALSE]
          /\ env_free_list' = env_link[e]
          /\ UNCHANGED <<env_link, env_cpunum, cpu_env, kernel_lock, pc>>
      BY <2>1 DEF EnvAlloc, cpuVars
    <2>4. env_status[e] = "FREE" /\ FreeListExact'
      BY <2>2, <2>3, FreeListPop DEF ProtocolInv, KernelInv, Statuses
    <2> HIDE DEF e
    <2>5. /\ env_status'[e] = "RUNNABLE" /\ ~env_ipc_recving'[e]
          /\ \A s \in Slots : s # e =>
                /\ env_status'[s] = env_status[s]
                /\ env_runs'[s] = env_runs[s]
                /\ env_ipc_recving'[s] = env_ipc_recving[s]
      BY <2>2, <2>3 DEF ProtocolInv, KernelInv, TypeOK
    <2>6. RecvingIsBlocked' /\ RunsRecorded'
      BY <2>5 DEF ProtocolInv, RecvingIsBlocked, RunsRecorded
    <2>7. OneCpuPerEnv' /\ NoOrphan' /\ CpunumIsRight'
      BY <2>3, <2>5 DEF ProtocolInv, OneCpuPerEnv, NoOrphan, CpunumIsRight
    <2>8. \A d \in CPUs : cpu_env[d] # NULL =>
              /\ cpu_env[d] # e /\ cpu_env[d] \in Slots
      BY <2>2, <2>4, ElsewhereActive
    <2>9. LiveEnvIsActive' /\ CurenvStatus'
      BY <2>3, <2>5, <2>8 DEF ProtocolInv, KernelInv, CurenvSet,
                              LiveEnvIsActive, CurenvStatus
    <2> QED BY <2>4, <2>6, <2>7, <2>9 DEF ProtocolInv
  <1>5. ASSUME NEW c \in CPUs, StartAp(c) PROVE ProtocolInv'
    <2>1. LiveEnvIsActive' /\ CpunumIsRight' /\ CurenvStatus'
      BY <1>5 DEF StartAp, Goto, cpuVars, envVars, infoVars, ProtocolInv,
                   KernelInv, TypeOK, LiveEnvIsActive, CpunumIsRight,
                   CurenvStatus, EnvPCs
    <2> QED BY <1>5, <2>1, OutsideProtocol DEF StartAp, cpuVars
  <1>6. ASSUME NEW c \in CPUs, MpMain(c) PROVE ProtocolInv'
    <2>1. LiveEnvIsActive' /\ CpunumIsRight' /\ CurenvStatus'
      BY <1>6 DEF MpMain, Goto, cpuVars, envVars, infoVars, ProtocolInv,
                   KernelInv, TypeOK, LiveEnvIsActive, CpunumIsRight,
                   CurenvStatus, EnvPCs
    <2> QED BY <1>6, <2>1, OutsideProtocol DEF MpMain, cpuVars
  <1>7. ASSUME NEW c \in CPUs, TimerIrq(c) PROVE ProtocolInv'
    <2>1. LiveEnvIsActive' /\ CpunumIsRight' /\ CurenvStatus'
      BY <1>7 DEF TimerIrq, Goto, cpuVars, envVars, infoVars, ProtocolInv,
                   KernelInv, TypeOK, LiveEnvIsActive, CpunumIsRight,
                   CurenvStatus, EnvPCs
    <2> QED BY <1>7, <2>1, OutsideProtocol DEF TimerIrq, cpuVars
  <1>8. ASSUME NEW c \in CPUs, UserTrap(c) PROVE ProtocolInv'
    <2>1. LiveEnvIsActive' /\ CpunumIsRight' /\ CurenvStatus'
      BY <1>8 DEF UserTrap, Goto, cpuVars, envVars, infoVars, ProtocolInv,
                   KernelInv, TypeOK, LiveEnvIsActive, CpunumIsRight,
                   CurenvStatus, EnvPCs
    <2> QED BY <1>8, <2>1, OutsideProtocol DEF UserTrap, cpuVars
  <1>9. ASSUME NEW c \in CPUs, TimerWake(c) PROVE ProtocolInv'
    <2>1. LiveEnvIsActive' /\ CpunumIsRight' /\ CurenvStatus'
      BY <1>9 DEF TimerWake, Goto, cpuVars, envVars, infoVars, ProtocolInv,
                   KernelInv, TypeOK, LiveEnvIsActive, CpunumIsRight,
                   CurenvStatus, EnvPCs
    <2> QED BY <1>9, <2>1, OutsideProtocol DEF TimerWake, cpuVars
  <1>10. ASSUME NEW c \in CPUs, LockKernel(c) PROVE ProtocolInv'
    <2>1. LiveEnvIsActive' /\ CpunumIsRight' /\ CurenvStatus'
      BY <1>10 DEF LockKernel, Goto, cpuVars, envVars, infoVars, ProtocolInv,
                   KernelInv, TypeOK, LiveEnvIsActive, CpunumIsRight,
                   CurenvStatus, EnvPCs,
                   AfterLock, NULL, CPUs
    <2> QED BY <1>10, <2>1, OutsideProtocol DEF LockKernel, cpuVars
  <1>11. ASSUME NEW c \in CPUs, Restore(c) PROVE ProtocolInv'
    <2> DEFINE e == cpu_env[c]
    <2>1. /\ pc' = [pc EXCEPT ![c] = "user"]
          /\ env_cpunum' = [env_cpunum EXCEPT ![e] = c]
          /\ UNCHANGED <<env_status, env_link, env_free_list, env_runs,
                         env_ipc_recving, cpu_env, kernel_lock>>
      BY <1>11 DEF Restore, Goto, idVars, ipcVars, cpuVars
    <2>2. e \in Slots
      BY <1>11 DEF Restore, EnvPCs, ProtocolInv, KernelInv, TypeOK, CurenvSet
    <2>3. FreeListExact'
      BY <2>1, FreeListKeep DEF ProtocolInv
    <2>4. /\ OneCpuPerEnv' /\ NoOrphan' /\ RecvingIsBlocked' /\ RunsRecorded'
      BY <2>1 DEF ProtocolInv, OneCpuPerEnv, NoOrphan, RecvingIsBlocked,
                  RunsRecorded
    <2>5. LiveEnvIsActive' /\ CurenvStatus'
      BY <1>11, <2>1 DEF Restore, ProtocolInv, KernelInv, TypeOK,
                          LiveEnvIsActive, CurenvStatus, EnvPCs
    <2>6. CpunumIsRight'
      <3> SUFFICES ASSUME NEW d \in CPUs, pc'[d] \in {"user", "irq", "trap"}
                   PROVE  env_cpunum'[cpu_env'[d]] = d
        BY DEF CpunumIsRight
      <3>1. CASE d = c
        BY <2>1, <2>2, <3>1 DEF ProtocolInv, KernelInv, TypeOK
      <3>2. CASE d # c
        <4>1. pc[d] \in {"user", "irq", "trap"}
          BY <2>1, <3>2 DEF ProtocolInv, KernelInv, TypeOK
        <4>2. cpu_env[d] # NULL /\ cpu_env[d] # e /\ cpu_env[d] \in Slots
          BY <3>2, <4>1 DEF ProtocolInv, KernelInv, TypeOK, CurenvSet, EnvPCs,
                            OneCpuPerEnv
        <4> QED BY <2>1, <4>1, <4>2 DEF ProtocolInv, KernelInv, TypeOK,
                                        CpunumIsRight
      <3> QED BY <3>1, <3>2
    <2> QED BY <2>3, <2>4, <2>5, <2>6 DEF ProtocolInv
  <1>12. ASSUME NEW c \in CPUs, Monitor(c) PROVE ProtocolInv'
    BY <1>12, <1>1 DEF Monitor
  <1>13. ASSUME NEW c \in CPUs, SchedYield(c) PROVE ProtocolInv'
    BY <1>13, SchedYieldProtocol
  <1>14. ASSUME NEW c \in CPUs, TrapZombie(c) PROVE ProtocolInv'
    <2>1. pc[c] \in KernelPCs /\ cpu_env[c] \in Slots
      BY <1>14 DEF TrapZombie, KernelPCs, EnvPCs, ProtocolInv, KernelInv, TypeOK,
                    CurenvSet
    <2> QED BY <1>14, <2>1, FreeCurrentProtocol DEF TrapZombie
  <1>15. ASSUME NEW c \in CPUs, TrapTimer(c) PROVE ProtocolInv'
    <2>1. /\ pc[c] \in KernelPCs
          /\ env_status[cpu_env[c]] = "RUNNING"
      BY <1>15 DEF TrapTimer, KernelPCs, EnvPCs, ProtocolInv, LiveEnvIsActive
    <2> QED BY <1>15, <2>1, GotoProtocol DEF TrapTimer
  <1>16. ASSUME NEW c \in CPUs, TrapReturn(c) PROVE ProtocolInv'
    <2>1. /\ pc[c] \in KernelPCs
          /\ cpu_env[c] # NULL => env_status[cpu_env[c]] \notin {"DYING", "FREE"}
      BY <1>16 DEF TrapReturn, KernelPCs, ProtocolInv, CurenvStatus
    <2>2. CASE cpu_env[c] # NULL /\ env_status[cpu_env[c]] = "RUNNING"
      <3>1. EnvRun(c, cpu_env[c]) /\ cpu_env[c] \in Slots
        BY <1>16, <2>2 DEF TrapReturn, ProtocolInv, KernelInv, TypeOK
      <3> QED BY <2>1, <2>2, <3>1, EnvRunProtocol
    <2>3. CASE ~(cpu_env[c] # NULL /\ env_status[cpu_env[c]] = "RUNNING")
      BY <1>16, <2>1, <2>3, GotoProtocol DEF TrapReturn
    <2> QED BY <2>2, <2>3
  <1>17. ASSUME NEW c \in CPUs, TrapBrkpt(c) PROVE ProtocolInv'
    BY <1>17, DispatchFacts, GotoProtocol DEF TrapBrkpt
  <1>18. ASSUME NEW c \in CPUs, SysYield(c) PROVE ProtocolInv'
    BY <1>18, DispatchFacts, GotoProtocol DEF SysYield
  <1>19. ASSUME NEW c \in CPUs, SysOther(c) PROVE ProtocolInv'
    BY <1>19, DispatchFacts, GotoProtocol DEF SysOther, Return
  <1>20. ASSUME NEW c \in CPUs, UserFault(c) PROVE ProtocolInv'
    BY <1>20, DispatchFacts, EnvDestroyProtocol DEF UserFault
  <1>21. ASSUME NEW c \in CPUs, UserUpcall(c) PROVE ProtocolInv'
    BY <1>21, DispatchFacts, EnvRunProtocol, GotoProtocol DEF UserUpcall
  <1>22. ASSUME NEW c \in CPUs, SysExofork(c) PROVE ProtocolInv'
    <2>1. /\ pc[c] \in KernelPCs /\ cpu_env[c] \in Slots
          /\ env_status[cpu_env[c]] = "RUNNING"
      BY <1>22, DispatchFacts DEF SysExofork
    <2>2. CASE env_free_list = NULL
      BY <1>22, <2>1, <2>2, GotoProtocol DEF SysExofork, Return
    <2>3. CASE env_free_list # NULL
      <3> DEFINE e == env_free_list
      <3>1. /\ env_status' = [env_status EXCEPT ![e] = "NOT_RUNNABLE"]
            /\ env_runs' = [env_runs EXCEPT ![e] = 0]
            /\ env_ipc_recving' = [env_ipc_recving EXCEPT ![e] = FALSE]
            /\ env_free_list' = env_link[e]
            /\ UNCHANGED <<env_link, env_cpunum, cpu_env, kernel_lock>>
            /\ Goto(c, "ret")
        BY <1>22, <2>3 DEF SysExofork, EnvAlloc, cpuVars
      <3>2. e \in Slots
        BY <2>3 DEF ProtocolInv, KernelInv, TypeOK
      <3>3. env_status[e] = "FREE" /\ FreeListExact'
        BY <3>1, <3>2, FreeListPop DEF ProtocolInv, KernelInv, Statuses
      <3> HIDE DEF e
      <3>4. /\ env_status'[e] = "NOT_RUNNABLE" /\ ~env_ipc_recving'[e]
            /\ \A s \in Slots : s # e =>
                  /\ env_status'[s] = env_status[s]
                  /\ env_runs'[s] = env_runs[s]
                  /\ env_ipc_recving'[s] = env_ipc_recving[s]
        BY <3>1, <3>2 DEF ProtocolInv, KernelInv, TypeOK
      <3>5. RecvingIsBlocked' /\ RunsRecorded'
        BY <3>4 DEF ProtocolInv, RecvingIsBlocked, RunsRecorded
      <3>6. \A d \in CPUs : d # c /\ cpu_env[d] # NULL
                => env_status'[cpu_env[d]] \in {"RUNNING", "DYING"}
        BY <2>1, <3>3, <3>4, ElsewhereActive
      <3>7. env_status'[cpu_env[c]] = "RUNNING"
        BY <2>1, <3>3, <3>4
      <3> QED BY <2>1, <3>1, <3>3, <3>4, <3>5, <3>6, <3>7, HandlerProtocol
    <2> QED BY <2>2, <2>3
  <1>23. ASSUME NEW c \in CPUs, NEW id \in EnvIds, SysEnvDestroy(c, id)
        PROVE  ProtocolInv'
    <2>1. /\ pc[c] \in KernelPCs /\ cpu_env[c] \in Slots
          /\ env_status[cpu_env[c]] = "RUNNING"
      BY <1>23, DispatchFacts DEF SysEnvDestroy
    <2> DEFINE e == envid2env(c, id, TRUE)
    <2>2. e # NULL => e \in Slots /\ env_status[e] # "FREE"
      BY <2>1, Envid2envFound
    <2>3. CASE e = NULL
      BY <1>23, <2>1, <2>3, GotoProtocol DEF SysEnvDestroy, Return
    <2>4. CASE e # NULL
      <3>1. EnvDestroy(c, e) /\ env_status[e] # "DYING"
        BY <1>23, <2>4 DEF SysEnvDestroy, Disciplined
      <3> QED BY <2>1, <2>2, <2>4, <3>1, EnvDestroyProtocol
    <2> QED BY <2>3, <2>4
  <1>24. ASSUME NEW c \in CPUs, NEW id \in EnvIds, SysSetPgfaultUpcallBad(c, id)
        PROVE  ProtocolInv'
    <2>1. /\ pc[c] \in KernelPCs /\ cpu_env[c] \in Slots
          /\ env_status[cpu_env[c]] = "RUNNING"
      BY <1>24, DispatchFacts DEF SysSetPgfaultUpcallBad
    <2> DEFINE e == envid2env(c, id, TRUE)
    <2>2. e # NULL => e \in Slots /\ env_status[e] # "FREE"
      BY <2>1, Envid2envFound
    <2>3. EnvDestroy(c, e) /\ e # NULL /\ env_status[e] # "DYING"
      BY <1>24 DEF SysSetPgfaultUpcallBad, Disciplined
    <2> QED BY <2>1, <2>2, <2>3, EnvDestroyProtocol
  <1>25. ASSUME NEW c \in CPUs, NEW id \in EnvIds, SysSetPgfaultUpcall(c, id)
        PROVE  ProtocolInv'
    <2>1. /\ pc[c] \in KernelPCs /\ cpu_env[c] \in Slots
          /\ env_status[cpu_env[c]] = "RUNNING"
      BY <1>25, DispatchFacts DEF SysSetPgfaultUpcall
    <2> DEFINE e == envid2env(c, id, TRUE)
    <2>2. e # NULL => e \in Slots /\ env_status[e] # "FREE"
      BY <2>1, Envid2envFound
    <2>3. CASE e = NULL
      BY <1>25, <2>1, <2>3, GotoProtocol DEF SysSetPgfaultUpcall, Return
    <2>4. CASE e # NULL
      <3>1. /\ Goto(c, "ret")
            /\ UNCHANGED <<env_status, env_link, env_free_list, env_runs,
                           env_ipc_recving, env_cpunum, cpu_env, kernel_lock>>
        BY <1>25, <2>4 DEF SysSetPgfaultUpcall, idVars, ipcVars, cpuVars
      <3>2. FreeListExact'
        BY <3>1, FreeListKeep DEF ProtocolInv
      <3>3. RecvingIsBlocked' /\ RunsRecorded'
        BY <3>1 DEF ProtocolInv, RecvingIsBlocked, RunsRecorded
      <3>4. \A d \in CPUs : d # c /\ cpu_env[d] # NULL
                => env_status'[cpu_env[d]] \in {"RUNNING", "DYING"}
        BY <2>1, <3>1, ElsewhereActive
      <3> QED BY <2>1, <3>1, <3>2, <3>3, <3>4, HandlerProtocol
    <2> QED BY <2>3, <2>4
  <1>26. ASSUME NEW c \in CPUs, NEW id \in EnvIds, NEW p \in UserPriorities,
               SysSetPriority(c, id, p)
        PROVE  ProtocolInv'
    <2>1. /\ pc[c] \in KernelPCs /\ cpu_env[c] \in Slots
          /\ env_status[cpu_env[c]] = "RUNNING"
      BY <1>26, DispatchFacts DEF SysSetPriority
    <2>2. /\ Goto(c, "ret")
          /\ UNCHANGED <<env_status, env_link, env_free_list, env_runs,
                         env_ipc_recving, env_cpunum, cpu_env, kernel_lock>>
      BY <1>26 DEF SysSetPriority, idVars, infoVars, ipcVars, cpuVars
    <2>3. FreeListExact'
      BY <2>2, FreeListKeep DEF ProtocolInv
    <2>4. RecvingIsBlocked' /\ RunsRecorded'
      BY <2>2 DEF ProtocolInv, RecvingIsBlocked, RunsRecorded
    <2>5. \A d \in CPUs : d # c /\ cpu_env[d] # NULL
              => env_status'[cpu_env[d]] \in {"RUNNING", "DYING"}
      BY <2>1, <2>2, ElsewhereActive
    <2> QED BY <2>1, <2>2, <2>3, <2>4, <2>5, HandlerProtocol
  <1>27. ASSUME NEW c \in CPUs, NEW id \in EnvIds, SysIpcTrySend(c, id)
        PROVE  ProtocolInv'
    <2>1. /\ pc[c] \in KernelPCs /\ cpu_env[c] \in Slots
          /\ env_status[cpu_env[c]] = "RUNNING"
      BY <1>27, DispatchFacts DEF SysIpcTrySend
    <2> DEFINE e == envid2env(c, id, FALSE)
    <2>2. e # NULL => e \in Slots /\ env_status[e] # "FREE"
      BY <2>1, Envid2envFound
    <2>3. CASE e = NULL
      BY <1>27, <2>1, <2>3, GotoProtocol DEF SysIpcTrySend, Return
    <2>4. CASE e # NULL
      <3>1. CASE ~env_ipc_recving[e]
        BY <1>27, <2>1, <2>4, <3>1, GotoProtocol DEF SysIpcTrySend, Return
      <3>2. CASE env_ipc_recving[e]
        <4>1. /\ env_ipc_recving' = [env_ipc_recving EXCEPT ![e] = FALSE]
              /\ env_status' = [env_status EXCEPT ![e] = "RUNNABLE"]
              /\ Goto(c, "ret")
              /\ UNCHANGED <<env_link, env_free_list, env_runs, env_cpunum,
                             cpu_env, kernel_lock>>
          BY <1>27, <2>4, <3>2 DEF SysIpcTrySend, idVars, infoVars, cpuVars
        <4>2. env_status[e] = "NOT_RUNNABLE"
          BY <2>2, <2>4, <3>2 DEF ProtocolInv, RecvingIsBlocked
        <4> HIDE DEF e
        <4>3. /\ env_status'[e] = "RUNNABLE" /\ ~env_ipc_recving'[e]
              /\ \A s \in Slots : s # e =>
                    /\ env_status'[s] = env_status[s]
                    /\ env_ipc_recving'[s] = env_ipc_recving[s]
          BY <2>2, <2>4, <4>1 DEF ProtocolInv, KernelInv, TypeOK
        <4>4. FreeListExact'
          BY <4>1, <4>2, <4>3, FreeListKeep DEF ProtocolInv
        <4>5. RecvingIsBlocked' /\ RunsRecorded'
          BY <4>1, <4>3 DEF ProtocolInv, RecvingIsBlocked, RunsRecorded
        <4>6. \A d \in CPUs : d # c /\ cpu_env[d] # NULL
                  => env_status'[cpu_env[d]] \in {"RUNNING", "DYING"}
          BY <2>1, <4>2, <4>3, ElsewhereActive
        <4>7. env_status'[cpu_env[c]] = "RUNNING"
          BY <2>1, <4>2, <4>3
        <4> QED BY <2>1, <4>1, <4>3, <4>4, <4>5, <4>6, <4>7, HandlerProtocol
      <3> QED BY <3>1, <3>2
    <2> QED BY <2>3, <2>4
  <1>28. ASSUME NEW c \in CPUs, NEW id \in EnvIds,
               NEW st \in {"RUNNABLE", "NOT_RUNNABLE"}, SysEnvSetStatus(c, id, st)
        PROVE  ProtocolInv'
    <2>1. /\ pc[c] \in KernelPCs /\ cpu_env[c] \in Slots
          /\ env_status[cpu_env[c]] = "RUNNING"
      BY <1>28, DispatchFacts DEF SysEnvSetStatus
    <2> DEFINE e == envid2env(c, id, TRUE)
    <2>2. e # NULL => e \in Slots /\ env_status[e] # "FREE"
      BY <2>1, Envid2envFound
    <2>3. CASE e = NULL
      BY <1>28, <2>1, <2>3, GotoProtocol DEF SysEnvSetStatus, Return
    <2>4. CASE e # NULL
      <3>1. /\ e = cpu_env[c] \/ Embryo(e)
            /\ env_status' = [env_status EXCEPT ![e] = st]
            /\ Goto(c, "ret")
            /\ UNCHANGED <<env_link, env_free_list, env_runs, env_cpunum,
                           env_ipc_recving, cpu_env, kernel_lock>>
        BY <1>28, <2>4 DEF SysEnvSetStatus, Disciplined, idVars, infoVars,
                            ipcVars, cpuVars
      <3>2. ~env_ipc_recving[e]
        <4> HIDE DEF e
        <4>1. CASE e = cpu_env[c]
          BY <2>1, <4>1 DEF ProtocolInv, RecvingIsBlocked
        <4>2. CASE Embryo(e)
          BY <2>2, <2>4, <4>2 DEF Embryo, ProtocolInv, RunsRecorded
        <4> QED BY <3>1, <4>1, <4>2
      <3> HIDE DEF e
      <3>3. /\ env_status'[e] = st
            /\ \A s \in Slots : s # e => env_status'[s] = env_status[s]
        BY <2>2, <2>4, <3>1 DEF ProtocolInv, KernelInv, TypeOK
      <3>4. FreeListExact'
        BY <2>2, <2>4, <3>1, <3>3, FreeListKeep DEF ProtocolInv
      <3>5. RecvingIsBlocked' /\ RunsRecorded'
        BY <3>1, <3>2, <3>3 DEF ProtocolInv, RecvingIsBlocked, RunsRecorded
      <3>6. \A d \in CPUs : d # c /\ cpu_env[d] # NULL
                => /\ cpu_env[d] # e
                   /\ env_status'[cpu_env[d]] \in {"RUNNING", "DYING"}
        BY <2>1, <3>1, <3>3, ElsewhereActive DEF Embryo
      <3>7. env_status'[cpu_env[c]] \notin {"DYING", "FREE"}
        BY <2>1, <3>3
      <3> QED BY <2>1, <3>1, <3>3, <3>4, <3>5, <3>6, <3>7, HandlerProtocol
    <2> QED BY <2>3, <2>4
  <1>29. ASSUME NEW c \in CPUs, NEW ok \in BOOLEAN, SysIpcRecv(c, ok)
        PROVE  ProtocolInv'
    <2>1. /\ pc[c] \in KernelPCs /\ cpu_env[c] \in Slots
          /\ env_status[cpu_env[c]] = "RUNNING"
      BY <1>29, DispatchFacts DEF SysIpcRecv
    <2> DEFINE e == cpu_env[c]
    <2>2. /\ env_ipc_recving' = [env_ipc_recving EXCEPT ![e] = TRUE]
          /\ env_status' = [env_status EXCEPT ![e] = "NOT_RUNNABLE"]
          /\ Goto(c, "sched")
          /\ UNCHANGED <<env_link, env_free_list, env_runs, env_cpunum,
                         cpu_env, kernel_lock>>
      BY <1>29 DEF SysIpcRecv, Disciplined, idVars, infoVars, cpuVars
    <2>3. /\ env_status'[e] = "NOT_RUNNABLE"
          /\ \A s \in Slots : s # e =>
                /\ env_status'[s] = env_status[s]
                /\ env_ipc_recving'[s] = env_ipc_recving[s]
      BY <2>1, <2>2 DEF ProtocolInv, KernelInv, TypeOK
    <2>4. FreeListExact'
      BY <2>1, <2>2, <2>3, FreeListKeep DEF ProtocolInv
    <2>5. RecvingIsBlocked' /\ RunsRecorded'
      BY <2>1, <2>2, <2>3 DEF ProtocolInv, RecvingIsBlocked, RunsRecorded
    <2>6. \A d \in CPUs : d # c /\ cpu_env[d] # NULL
              => env_status'[cpu_env[d]] \in {"RUNNING", "DYING"}
      BY <2>1, <2>3, ElsewhereActive
    <2> QED BY <2>1, <2>2, <2>3, <2>4, <2>5, <2>6, HandlerProtocol
  <1> QED BY <1>1, <1>2, <1>3, <1>4, <1>5, <1>6, <1>7, <1>8, <1>9, <1>10, <1>11, <1>12, <1>13, <1>14, <1>15, <1>16, <1>17, <1>18, <1>19, <1>20, <1>21, <1>22, <1>23, <1>24, <1>25, <1>26, <1>27, <1>28, <1>29
      DEF Next, KernelStep, BootStep

\* The state that mp_init and env_init leave: all slots free, in order.
LEMMA ProtocolInit == Init => ProtocolInv
  <1> SUFFICES ASSUME Init PROVE ProtocolInv
    OBVIOUS
  <1>1. KernelInv
    BY KernelInvInit
  <1>2. /\ OneCpuPerEnv /\ LiveEnvIsActive /\ NoOrphan /\ RecvingIsBlocked
        /\ CpunumIsRight /\ CurenvStatus /\ RunsRecorded
    BY DEF Init, OneCpuPerEnv, LiveEnvIsActive, NoOrphan, RecvingIsBlocked,
           CpunumIsRight, CurenvStatus, RunsRecorded, EnvPCs, NULL
  <1>3. FreeListExact
    <2> DEFINE q == [i \in 1..NENV |-> i - 1]
    <2>1. NENV \in 0..NENV /\ q \in [1..NENV -> Slots]
      BY SizeAssumption DEF Slots
    <2>2. env_free_list = IF NENV = 0 THEN NULL ELSE q[1]
      BY SizeAssumption DEF Init
    <2>3. ASSUME NEW i \in 1..NENV
          PROVE  env_link[q[i]] = IF i = NENV THEN NULL ELSE q[i + 1]
      BY SizeAssumption DEF Init, Slots
    <2>4. \A i, j \in 1..NENV : q[i] = q[j] => i = j
      BY SizeAssumption
    <2>5. ASSUME NEW s \in Slots
          PROVE  env_status[s] = "FREE" <=> \E i \in 1..NENV : q[i] = s
      <3>1. s + 1 \in 1..NENV /\ q[s + 1] = s
        BY SizeAssumption DEF Slots
      <3> QED BY <3>1 DEF Init
    <2> HIDE DEF q
    <2> QED BY <2>1, <2>2, <2>3, <2>4, <2>5 DEF FreeListExact, IsFreeList
  <1> QED BY <1>1, <1>2, <1>3 DEF ProtocolInv

\* For programs that keep to the library's protocol, an environment is never
\* current on two CPUs, never lost, never freed twice, and is blocked while
\* it receives.
THEOREM ProtocolSafe == Disciplined => (Spec => []ProtocolInv)
  <1> SUFFICES ASSUME Disciplined PROVE Spec => []ProtocolInv
    OBVIOUS
  <1>1. Init => ProtocolInv
    BY ProtocolInit
  <1>2. ProtocolInv /\ [Next]_vars => ProtocolInv'
    BY ProtocolStep
  <1> QED BY <1>1, <1>2, PTL DEF Spec

\* The main consequence, in the words of sched_yield: the scheduler never puts
\* on this CPU an environment that another CPU is running.
THEOREM NeverOnTwoCpus == Disciplined => (Spec => []OneCpuPerEnv)
  <1>1. ProtocolInv => OneCpuPerEnv
    BY DEF ProtocolInv
  <1> QED BY <1>1, ProtocolSafe, PTL

\* No environment is left running or dying without a CPU, where the scheduler
\* would never pick it and nobody would free it.
THEOREM NoneOrphaned == Disciplined => (Spec => []NoOrphan)
  <1>1. ProtocolInv => NoOrphan
    BY DEF ProtocolInv
  <1> QED BY <1>1, ProtocolSafe, PTL

-----------------------------------------------------------------------------
(* What a step may never do.                                               *)

\* env_destroy is only reached with an environment that is in use, so it does
\* not run into the null page directory of a free slot.
LEMMA DestroyKeepsNoPanic ==
    ASSUME KernelInv, NoPanic, NEW c \in CPUs, NEW e \in Slots,
           env_status[e] # "FREE", EnvDestroy(c, e)
    PROVE  NoPanic'
  BY DEF KernelInv, TypeOK, NoPanic, Panicked, EnvDestroy, Goto

\* A handler that goes elsewhere does not panic.
LEMMA GotoKeepsNoPanic ==
    ASSUME KernelInv, NoPanic, NEW c \in CPUs, NEW label, label # "panic",
           Goto(c, label)
    PROVE  NoPanic'
  BY DEF KernelInv, TypeOK, NoPanic, Panicked, Goto

\* The schedulers end in env_run, in the monitor or in a halt, none of which is
\* a panic.
LEMMA SchedKeepsNoPanic ==
    ASSUME KernelInv, NoPanic, NEW c \in CPUs, SchedYield(c)
    PROVE  NoPanic'
  <1>1. \E label \in {"restore", "monitor", "idle"} : Goto(c, label)
    BY DEF SchedYield, SchedRR, PrioritySched, RunCurrentOrHalt, SchedHalt, EnvRun
  <1> QED BY <1>1, GotoKeepsNoPanic

\* With programs that keep to the protocol and do not overflow their exception
\* stack, no step panics.
LEMMA NoPanicStep ==
    ASSUME Misuse = {}, ProtocolInv, NoPanic, [Next]_vars
    PROVE  NoPanic'
  <1>0. KernelInv
    BY DEF ProtocolInv
  <1>1. CASE UNCHANGED vars
    BY <1>1 DEF vars, NoPanic, Panicked
  <1>2. CASE BootStep
    <2>1. 0 \in CPUs
      BY SizeAssumption DEF CPUs
    <2> QED BY <1>0, <1>2, <2>1, GotoKeepsNoPanic
        DEF BootStep, ApsStarted, EnvCreate, BootDone, NoPanic, Panicked
  <1>3. ASSUME NEW c \in CPUs,
               \/ StartAp(c) \/ MpMain(c) \/ Restore(c) \/ TimerIrq(c)
               \/ UserTrap(c) \/ TimerWake(c) \/ TrapZombie(c) \/ TrapTimer(c)
               \/ SysOther(c) \/ TrapBrkpt(c) \/ SysYield(c)
        PROVE  NoPanic'
    <2>1. \E label \in {"mp_main", "ap", "user", "hlt", "irq", "trap", "wake",
                        "sched", "ret", "monitor"} : Goto(c, label)
      BY <1>3 DEF StartAp, MpMain, Restore, TimerIrq, UserTrap, TimerWake,
                  TrapZombie, TrapTimer, SysOther, TrapBrkpt, SysYield, Return
    <2> QED BY <1>0, <2>1, GotoKeepsNoPanic
  <1>4. ASSUME NEW c \in CPUs, LockKernel(c) PROVE NoPanic'
    <2>1. AfterLock(pc[c]) # "panic"
      BY <1>4 DEF LockKernel, AfterLock
    <2> QED BY <1>0, <1>4, <2>1, GotoKeepsNoPanic DEF LockKernel
  <1>5. ASSUME NEW c \in CPUs, Monitor(c) PROVE NoPanic'
    BY <1>1, <1>5 DEF Monitor
  <1>6. ASSUME NEW c \in CPUs, SchedYield(c) PROVE NoPanic'
    BY <1>0, <1>6, SchedKeepsNoPanic
  <1>7. ASSUME NEW c \in CPUs, TrapReturn(c) \/ UserUpcall(c) \/ SysExofork(c)
        PROVE  NoPanic'
    <2>1. \E label \in {"restore", "sched", "ret"} : Goto(c, label)
      BY <1>7 DEF TrapReturn, UserUpcall, SysExofork, Return, EnvRun
    <2> QED BY <1>0, <2>1, GotoKeepsNoPanic
  <1>8. ASSUME NEW c \in CPUs, UserFault(c) PROVE NoPanic'
    BY <1>0, <1>8, DispatchFacts, DestroyKeepsNoPanic DEF UserFault
  <1>9. ASSUME NEW c \in CPUs, NEW id \in EnvIds,
               SysEnvDestroy(c, id) \/ SysSetPgfaultUpcallBad(c, id)
        PROVE  NoPanic'
    <2> DEFINE e == envid2env(c, id, TRUE)
    <2>1. cpu_env[c] \in Slots /\ env_status[cpu_env[c]] = "RUNNING"
      BY <1>9, DispatchFacts DEF SysEnvDestroy, SysSetPgfaultUpcallBad
    <2>2. e # NULL => e \in Slots /\ env_status[e] # "FREE"
      BY <2>1, Envid2envFound
    <2>3. (e = NULL /\ Goto(c, "ret")) \/ (e # NULL /\ EnvDestroy(c, e))
      BY <1>9 DEF SysEnvDestroy, SysSetPgfaultUpcallBad, Return
    <2> HIDE DEF e
    <2> QED BY <1>0, <2>2, <2>3, GotoKeepsNoPanic, DestroyKeepsNoPanic
  <1>10. ASSUME NEW c \in CPUs, NEW id \in EnvIds,
                \/ SysSetPgfaultUpcall(c, id) \/ SysIpcTrySend(c, id)
                \/ \E st \in {"RUNNABLE", "NOT_RUNNABLE"} : SysEnvSetStatus(c, id, st)
                \/ \E p \in UserPriorities : SysSetPriority(c, id, p)
         PROVE  NoPanic'
    <2>1. Goto(c, "ret")
      BY <1>10 DEF SysSetPgfaultUpcall, SysIpcTrySend, SysEnvSetStatus,
                   SysSetPriority, Return
    <2> QED BY <1>0, <2>1, GotoKeepsNoPanic
  <1>11. ASSUME NEW c \in CPUs, NEW ok \in BOOLEAN, SysIpcRecv(c, ok)
         PROVE  NoPanic'
    <2>1. \E label \in {"sched", "ret"} : Goto(c, label)
      BY <1>11 DEF SysIpcRecv
    <2> QED BY <1>0, <2>1, GotoKeepsNoPanic
  <1> QED BY <1>1, <1>2, <1>3, <1>4, <1>5, <1>6, <1>7, <1>8, <1>9, <1>10, <1>11
      DEF Next, KernelStep

\* The kernel never panics under programs that keep to the protocol: in
\* particular env_destroy is never called for a slot that is free.
THEOREM NeverPanics == Misuse = {} => (Spec => []NoPanic)
  <1> SUFFICES ASSUME Misuse = {} PROVE Spec => []NoPanic
    OBVIOUS
  <1>1. Disciplined
    BY DEF Disciplined
  <1>2. Init => NoPanic
    BY DEF Init, NoPanic, Panicked
  <1>3. ProtocolInv /\ NoPanic /\ [Next]_vars => NoPanic'
    BY NoPanicStep
  <1>4. Spec => []ProtocolInv
    BY <1>1, ProtocolSafe
  <1> QED BY <1>2, <1>3, <1>4, PTL DEF Spec

\* A step that leaves DYING alone, or frees what is current on the CPU that
\* holds the lock.
ZombieStep ==
    \A s \in Slots :
        env_status[s] = "DYING" /\ env_status'[s] # "DYING"
           => /\ env_status'[s] = "FREE"
              /\ \E c \in CPUs : cpu_env[c] = s /\ kernel_lock = c

\* env_run only changes the status of what runs on this CPU.
LEMMA EnvRunZombie ==
    ASSUME ProtocolInv, NEW c \in CPUs, NEW e \in Slots, EnvRun(c, e),
           env_status[e] # "DYING"
    PROVE  ZombieStep
  BY DEF ProtocolInv, KernelInv, TypeOK, EnvRun, ZombieStep

\* env_destroy marks, or frees what is not a zombie.
LEMMA EnvDestroyZombie ==
    ASSUME ProtocolInv, NEW c \in CPUs, NEW e \in Slots, EnvDestroy(c, e),
           env_status[e] # "DYING"
    PROVE  ZombieStep
  BY DEF ProtocolInv, KernelInv, TypeOK, EnvDestroy, EnvFree, envVars, ZombieStep

\* env_alloc takes a slot from the free list, which holds no zombie.
LEMMA EnvAllocZombie ==
    ASSUME ProtocolInv, NEW parent, NEW st \in Statuses \ {"FREE"},
           EnvAlloc(env_free_list, parent, st)
    PROVE  ZombieStep
  <1> DEFINE e == env_free_list
  <1>1. e \in Slots
    BY DEF EnvAlloc, ProtocolInv, KernelInv, TypeOK
  <1>2. /\ env_free_list' = env_link[e] /\ env_link' = env_link
        /\ env_status' = [env_status EXCEPT ![e] = st]
    BY DEF EnvAlloc
  <1>3. env_status[e] = "FREE"
    BY <1>1, <1>2, FreeListPop DEF ProtocolInv, KernelInv
  <1> QED BY <1>1, <1>2, <1>3 DEF ZombieStep, ProtocolInv, KernelInv, TypeOK

\* The schedulers run what is runnable, or what already runs here.
LEMMA SchedZombie ==
    ASSUME ProtocolInv, NEW c \in CPUs, SchedYield(c)
    PROVE  ZombieStep
  <1>1. \/ \E s \in Runnable : EnvRun(c, s)
        \/ RunCurrentOrHalt(c)
    BY DEF SchedYield, SchedRR, PrioritySched
  <1>2. ASSUME NEW s \in Runnable, EnvRun(c, s) PROVE ZombieStep
    BY <1>2, EnvRunZombie DEF Runnable
  <1>3. CASE RunCurrentOrHalt(c)
    <2>1. CASE cpu_env[c] # NULL /\ env_status[cpu_env[c]] = "RUNNING"
      <3>1. EnvRun(c, cpu_env[c]) /\ cpu_env[c] \in Slots
        BY <1>3, <2>1 DEF RunCurrentOrHalt, ProtocolInv, KernelInv, TypeOK
      <3> QED BY <2>1, <3>1, EnvRunZombie
    <2>2. CASE ~(cpu_env[c] # NULL /\ env_status[cpu_env[c]] = "RUNNING")
      BY <1>3, <2>2 DEF RunCurrentOrHalt, SchedHalt, ZombieStep
    <2> QED BY <2>1, <2>2
  <1> QED BY <1>1, <1>2, <1>3

\* Every step of every CPU leaves zombies alone, but for the one that trap finds.
LEMMA ZombieNext ==
    ASSUME Disciplined, ProtocolInv, [Next]_vars
    PROVE  ZombieStep
  <1>1. CASE UNCHANGED env_status
    BY <1>1 DEF ZombieStep
  <1>2. CASE EnvCreate
    BY <1>2, EnvAllocZombie DEF EnvCreate, Statuses
  <1>3. ASSUME NEW c \in CPUs, SchedYield(c) PROVE ZombieStep
    BY <1>3, SchedZombie
  <1>4. ASSUME NEW c \in CPUs, TrapZombie(c) PROVE ZombieStep
    <2>1. kernel_lock = c /\ cpu_env[c] \in Slots
      BY <1>4 DEF TrapZombie, ProtocolInv, KernelInv, BigKernelLock, CurenvSet,
                  TypeOK, KernelPCs, EnvPCs
    <2> QED BY <1>4, <2>1 DEF TrapZombie, EnvFree, ZombieStep, ProtocolInv,
                              KernelInv, TypeOK
  <1>5. ASSUME NEW c \in CPUs, TrapReturn(c) PROVE ZombieStep
    <2>1. CASE cpu_env[c] # NULL /\ env_status[cpu_env[c]] = "RUNNING"
      <3>1. EnvRun(c, cpu_env[c]) /\ cpu_env[c] \in Slots
        BY <1>5, <2>1 DEF TrapReturn, ProtocolInv, KernelInv, TypeOK
      <3> QED BY <2>1, <3>1, EnvRunZombie
    <2>2. CASE ~(cpu_env[c] # NULL /\ env_status[cpu_env[c]] = "RUNNING")
      BY <1>1, <1>5, <2>2 DEF TrapReturn, envVars
    <2> QED BY <2>1, <2>2
  <1>6. ASSUME NEW c \in CPUs, UserFault(c) PROVE ZombieStep
    BY <1>6, DispatchFacts, EnvDestroyZombie DEF UserFault
  <1>7. ASSUME NEW c \in CPUs, UserUpcall(c) PROVE ZombieStep
    <2>1. cpu_env[c] \in Slots /\ env_status[cpu_env[c]] = "RUNNING"
      BY <1>7, DispatchFacts DEF UserUpcall
    <2>2. EnvRun(c, cpu_env[c]) \/ UNCHANGED env_status
      BY <1>7 DEF UserUpcall, envVars
    <2> QED BY <1>1, <2>1, <2>2, EnvRunZombie
  <1>8. ASSUME NEW c \in CPUs, SysExofork(c) PROVE ZombieStep
    <2>1. \/ UNCHANGED env_status
          \/ EnvAlloc(env_free_list, env_id[cpu_env[c]], "NOT_RUNNABLE")
      BY <1>8 DEF SysExofork, Return, envVars
    <2> QED BY <1>1, <2>1, EnvAllocZombie DEF Statuses
  <1>9. ASSUME NEW c \in CPUs, NEW id \in EnvIds,
               SysEnvDestroy(c, id) \/ SysSetPgfaultUpcallBad(c, id)
        PROVE  ZombieStep
    <2> DEFINE e == envid2env(c, id, TRUE)
    <2>1. e \in Slots \cup {NULL}
      BY Envid2envType DEF ProtocolInv, KernelInv
    <2>2. \/ UNCHANGED env_status
          \/ e # NULL /\ EnvDestroy(c, e) /\ env_status[e] # "DYING"
      BY <1>9 DEF SysEnvDestroy, SysSetPgfaultUpcallBad, Return, envVars, Disciplined
    <2> HIDE DEF e
    <2> QED BY <1>1, <2>1, <2>2, EnvDestroyZombie
  <1>10. ASSUME NEW c \in CPUs, NEW id \in EnvIds,
                NEW st \in {"RUNNABLE", "NOT_RUNNABLE"}, SysEnvSetStatus(c, id, st)
         PROVE  ZombieStep
    <2> DEFINE e == envid2env(c, id, TRUE)
    <2>1. env_status[cpu_env[c]] = "RUNNING"
      BY <1>10, DispatchFacts DEF SysEnvSetStatus
    <2>2. \/ UNCHANGED env_status
          \/ /\ e = cpu_env[c] \/ Embryo(e)
             /\ env_status' = [env_status EXCEPT ![e] = st]
      BY <1>10 DEF SysEnvSetStatus, Return, envVars, Disciplined
    <2> HIDE DEF e
    <2> QED BY <1>1, <2>1, <2>2 DEF Embryo, ZombieStep, ProtocolInv, KernelInv, TypeOK
  <1>11. ASSUME NEW c \in CPUs, NEW id \in EnvIds, SysIpcTrySend(c, id)
         PROVE  ZombieStep
    <2> DEFINE e == envid2env(c, id, FALSE)
    <2>1. e \in Slots \cup {NULL}
      BY Envid2envType DEF ProtocolInv, KernelInv
    <2>2. \/ UNCHANGED env_status
          \/ /\ e # NULL /\ env_ipc_recving[e]
             /\ env_status' = [env_status EXCEPT ![e] = "RUNNABLE"]
      BY <1>11 DEF SysIpcTrySend, Return, envVars
    <2> HIDE DEF e
    <2> QED BY <1>1, <2>1, <2>2
        DEF RecvingIsBlocked, ZombieStep, ProtocolInv, KernelInv, TypeOK
  <1>12. ASSUME NEW c \in CPUs, NEW ok \in BOOLEAN, SysIpcRecv(c, ok)
         PROVE  ZombieStep
    <2>1. env_status[cpu_env[c]] = "RUNNING"
      BY <1>12, DispatchFacts DEF SysIpcRecv
    <2> QED BY <1>1, <1>12, <2>1
        DEF SysIpcRecv, ZombieStep, ProtocolInv, KernelInv, TypeOK
  <1>13. ASSUME NEW c \in CPUs,
                \/ StartAp(c) \/ MpMain(c) \/ LockKernel(c) \/ Restore(c)
                \/ TimerIrq(c) \/ UserTrap(c) \/ TimerWake(c) \/ Monitor(c)
                \/ TrapTimer(c) \/ SysOther(c) \/ TrapBrkpt(c) \/ SysYield(c)
                \/ \E id \in EnvIds : \/ SysSetPgfaultUpcall(c, id)
                                      \/ \E p \in UserPriorities :
                                            SysSetPriority(c, id, p)
         PROVE  ZombieStep
    <2>1. UNCHANGED env_status
      BY <1>13 DEF StartAp, MpMain, LockKernel, Restore, TimerIrq, UserTrap,
                   TimerWake, Monitor, TrapTimer, SysOther, TrapBrkpt, SysYield,
                   SysSetPgfaultUpcall, SysSetPriority, Return, vars, envVars
    <2> QED BY <1>1, <2>1
  <1>14. CASE UNCHANGED vars \/ ApsStarted \/ BootDone
    BY <1>1, <1>14 DEF ApsStarted, BootDone, vars, envVars
  <1> QED BY <1>2, <1>3, <1>4, <1>5, <1>6, <1>7, <1>8, <1>9, <1>10, <1>11, <1>12,
             <1>13, <1>14
      DEF Next, KernelStep, BootStep

\* A zombie stays one until the CPU it is on traps and frees it: env_destroy by
\* another CPU, the scheduler, IPC and env_alloc leave it alone, so an
\* environment is never freed while its registers are live on a CPU.
THEOREM OwnerFreesZombie == Disciplined => (Spec => ZombieFreedByOwner)
  <1> SUFFICES ASSUME Disciplined PROVE Spec => ZombieFreedByOwner
    OBVIOUS
  <1>1. ProtocolInv /\ [Next]_vars => [ZombieStep]_vars
    BY ZombieNext
  <1>2. Spec => []ProtocolInv
    BY ProtocolSafe
  <1> QED BY <1>1, <1>2, PTL DEF Spec, ZombieFreedByOwner, ZombieStep
=============================================================================
