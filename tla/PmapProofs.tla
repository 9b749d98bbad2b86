----------------------------- MODULE PmapProofs -----------------------------
(* Proofs about Pmap: the counts of the pages and the translations of the  *)
(* CPUs, for any number of environments, pages, addresses and CPUs.        *)
EXTENDS Pmap, PageOpsProofs

\* No page is mapped as often as pp_ref can count.  Nothing in the kernel
\* checks it.
FewSharers == \A p \in Page : Cardinality(PteRefs(m, p)) < MaxRef

-----------------------------------------------------------------------------
(* The inductive invariant.                                                *)

\* The big kernel lock.
OneLocked ==
    \A c, d \in Cpu : pc[c] \in LockedPCs /\ pc[d] \in LockedPCs => c = d

\* An environment has a directory from env_alloc to the end of env_free.
HasDirectory == \A e \in Env : env_status[e] = "FREE" <=> m.env_pgdir[e] = NoPage

\* Who receives waits for it.
ReceiverWaits ==
    \A e \in Env : Recving(e) => env_status[e] = "NOT_RUNNABLE"

\* What a CPU has loaded, by the place it is at.
CpuAt(c) ==
    /\ pc[c] = "user" => /\ curenv[c] \in Env /\ cr3[c] = curenv[c]
                         /\ env_status[curenv[c]] \in {"RUNNING", "DYING"}
    /\ pc[c] = "ret" => /\ curenv[c] \in Env /\ cr3[c] = curenv[c]
                        /\ env_status[curenv[c]] = "RUNNING"
    /\ pc[c] \in {"halt", "boot"} => curenv[c] = NoEnv /\ cr3[c] = KernDir
    /\ pc[c] = "sched" =>
          /\ cr3[c] \in {curenv[c], KernDir}
          /\ curenv[c] \in Env => env_status[curenv[c]] \in {"RUNNING", "NOT_RUNNABLE"}
    /\ pc[c] = "load" => /\ curenv[c] = NoEnv /\ cr3[c] = victim
                         /\ victim \in Env /\ env_status[victim] = "RUNNABLE"
    /\ pc[c] = "free" =>
          /\ curenv[c] \in Env /\ victim \in Env /\ env_status[victim] # "FREE"
          /\ IF victim = curenv[c]
             THEN cr3[c] = KernDir
             ELSE /\ cr3[c] = curenv[c]
                  /\ env_status[curenv[c]] = "RUNNING"
                  /\ env_status[victim] \notin {"RUNNING", "DYING"}

CpusAt == \A c \in Cpu : CpuAt(c)

\* An environment is on one CPU at most.
OneCpu ==
    \A c, d \in Cpu : curenv[c] \in Env /\ curenv[c] = curenv[d] => c = d

Cr3Used == \A c \in Cpu : cr3[c] \in Env => env_status[cr3[c]] # "FREE"

PmapInv ==
    /\ TypeOK
    /\ MemInv(m)
    /\ OneLocked
    /\ HasDirectory
    /\ ReceiverWaits
    /\ CpusAt
    /\ OneCpu
    /\ Cr3Used

-----------------------------------------------------------------------------
(* What a step on one CPU leaves to the others.                            *)

\* CPU c has the kernel lock, or can take it.
Holds(c) == LockFree \/ pc[c] \in LockedPCs

\* Other CPUs stay where they are.
OnlyOn(c) ==
    \A d \in Cpu : d # c => /\ curenv'[d] = curenv[d] /\ cr3'[d] = cr3[d]
                            /\ pc'[d] = pc[d]

\* What runs elsewhere runs on, if only to die.
OthersRun(c) ==
    \A f \in Env : f # curenv[c] /\ env_status[f] \in {"RUNNING", "DYING"}
                      => env_status'[f] \in {"RUNNING", "DYING"}

\* The environment that comes to c runs nowhere else.
ComesFrom(c) ==
    curenv'[c] \in Env => \/ curenv'[c] = curenv[c]
                          \/ env_status[curenv'[c]] \notin {"RUNNING", "DYING"}

\* With the lock, the other CPUs are in user mode or asleep.
LEMMA OthersAway ==
    ASSUME OneLocked, TypeOK, NEW c \in Cpu, Holds(c), NEW d \in Cpu, d # c
    PROVE  pc[d] \notin LockedPCs /\ pc[d] \in {"user", "halt"}
  <1>1. pc[d] \in LockedPCs \cup {"user", "halt"}
    BY DEF TypeOK
  <1>2. pc[d] \notin LockedPCs
    BY DEF OneLocked, Holds, LockFree
  <1> QED BY <1>1, <1>2

\* What another CPU runs is in use, and not what c runs.
LEMMA OthersAt ==
    ASSUME PmapInv, NEW c \in Cpu, Holds(c), NEW d \in Cpu, d # c
    PROVE  \/ /\ pc[d] = "user" /\ curenv[d] \in Env /\ cr3[d] = curenv[d]
              /\ env_status[curenv[d]] \in {"RUNNING", "DYING"} /\ curenv[d] # curenv[c]
           \/ pc[d] = "halt" /\ curenv[d] = NoEnv /\ cr3[d] = KernDir
  <1>1. pc[d] \in {"user", "halt"}
    BY OthersAway DEF PmapInv
  <1>2. CpuAt(d)
    BY DEF PmapInv, CpusAt
  <1>3. curenv[d] \in Env => curenv[d] # curenv[c]
    BY DEF PmapInv, OneCpu
  <1> QED BY <1>1, <1>2, <1>3 DEF CpuAt

\* What a step of the CPU with the lock must show of itself for the facts about
\* all CPUs to stay true.
LEMMA CpuStep ==
    ASSUME PmapInv, NEW c \in Cpu, Holds(c), OnlyOn(c), OthersRun(c), ComesFrom(c),
           CpuAt(c)', cr3'[c] \in Env => env_status'[cr3'[c]] # "FREE"
    PROVE  OneLocked' /\ CpusAt' /\ OneCpu' /\ Cr3Used'
  <1>1. ASSUME NEW d \in Cpu, d # c
        PROVE  /\ pc'[d] \notin LockedPCs
               /\ curenv'[d] = curenv[d] /\ cr3'[d] = cr3[d] /\ pc'[d] = pc[d]
               /\ \/ /\ pc[d] = "user" /\ curenv[d] \in Env /\ cr3[d] = curenv[d]
                     /\ env_status'[curenv[d]] \in {"RUNNING", "DYING"}
                     /\ env_status[curenv[d]] \in {"RUNNING", "DYING"}
                     /\ curenv[d] # curenv[c]
                  \/ pc[d] = "halt" /\ curenv[d] = NoEnv /\ cr3[d] = KernDir
    <2>1. curenv'[d] = curenv[d] /\ cr3'[d] = cr3[d] /\ pc'[d] = pc[d]
      BY <1>1 DEF OnlyOn
    <2>2. \/ /\ pc[d] = "user" /\ curenv[d] \in Env /\ cr3[d] = curenv[d]
             /\ env_status[curenv[d]] \in {"RUNNING", "DYING"} /\ curenv[d] # curenv[c]
          \/ pc[d] = "halt" /\ curenv[d] = NoEnv /\ cr3[d] = KernDir
      BY <1>1, OthersAt
    <2>3. pc[d] \notin LockedPCs
      BY <1>1, OthersAway DEF PmapInv
    <2> QED BY <2>1, <2>2, <2>3 DEF OthersRun
  <1>2. OneLocked'
    BY <1>1 DEF OneLocked
  <1>3. CpusAt'
    <2> SUFFICES ASSUME NEW d \in Cpu PROVE CpuAt(d)'
      BY DEF CpusAt
    <2>1. CASE d = c
      BY <2>1
    <2>2. CASE d # c
      <3>1. \/ pc'[d] = "user" /\ curenv'[d] \in Env /\ cr3'[d] = curenv'[d]
               /\ env_status'[curenv'[d]] \in {"RUNNING", "DYING"}
            \/ pc'[d] = "halt" /\ curenv'[d] = NoEnv /\ cr3'[d] = KernDir
        BY <1>1, <2>2
      <3> QED BY <3>1 DEF CpuAt
    <2> QED BY <2>1, <2>2
  <1>4. OneCpu'
    <2> SUFFICES ASSUME NEW a \in Cpu, NEW b \in Cpu,
                        curenv'[a] \in Env, curenv'[a] = curenv'[b]
                 PROVE  a = b
      BY DEF OneCpu
    <2>1. CASE a # c /\ b # c
      BY <1>1, <2>1 DEF PmapInv, OneCpu
    <2>2. CASE a = c /\ b # c
      BY <1>1, <2>2, CpuAssumption DEF ComesFrom
    <2>3. CASE a # c /\ b = c
      BY <1>1, <2>3, CpuAssumption DEF ComesFrom
    <2> QED BY <2>1, <2>2, <2>3
  <1>5. Cr3Used'
    BY <1>1, CpuAssumption DEF Cr3Used
  <1> QED BY <1>2, <1>3, <1>4, <1>5

\* A count that is not at its limit.
LEMMA Countable ==
    ASSUME MemInv(m), FewSharers, NEW e \in Env, NEW va \in Va, Mapped(m, e, va),
           NEW p, p = m.pte[e][va].page
    PROVE  m.pp_ref[p] < MaxRef
  <1>1. Cardinality(PteRefs(m, p)) < MaxRef
    BY MappedPage DEF FewSharers
  <1> QED BY <1>1, CountOfMapped

-----------------------------------------------------------------------------
(* Every step keeps the invariant, and loses a page only with the last one. *)

Kept == PmapInv' /\ LosesLast(m, m')

\* Steps that leave the memory structures alone.
LEMMA MemorySame ==
    ASSUME PmapInv, UNCHANGED m
    PROVE  MemInv(m)' /\ LosesLast(m, m')
  BY DEF PmapInv, LosesLast

\* The state that boots satisfies PmapInv.
LEMMA InitInv == Init => PmapInv
  <1> SUFFICES ASSUME Init PROVE PmapInv
    OBVIOUS
  <1>1. PICK boot \in Cpu : pc = [c \in Cpu |-> IF c = boot THEN "boot" ELSE "halt"]
    BY DEF Init
  <1>2. /\ m.page_free_list = Page /\ m.pp_ref = [p \in Page |-> 0]
        /\ m.env_pgdir = [e \in Env |-> NoPage]
        /\ m.pde = [e \in Env |-> [x \in Pdx |-> NoPage]]
        /\ m.pte = [e \in Env |-> [va \in Va |-> Zero]]
        /\ m.double_free = FALSE
    BY DEF Init
  <1>3. MemInv(m)
    BY EmptyMemory DEF Init
  <1>4. m \in Memory
    BY <1>3 DEF MemInv
  <1>5. \A c \in Cpu : /\ curenv[c] = NoEnv /\ cr3[c] = KernDir
                        /\ pc[c] = IF c = boot THEN "boot" ELSE "halt"
    BY <1>1 DEF Init
  <1>6. TypeOK
    <2>1. NoTlb \in [Va -> PTE]
      BY DEF NoTlb, Zero, PTE
    <2>2. pc \in [Cpu -> LockedPCs \cup {"user", "halt"}]
      BY <1>1 DEF LockedPCs
    <2> QED BY <1>4, <2>1, <2>2 DEF TypeOK, Init
  <1>7. OneLocked
    BY <1>5 DEF OneLocked, LockedPCs
  <1>8. HasDirectory /\ ReceiverWaits
    BY <1>2 DEF HasDirectory, ReceiverWaits, Recving, Init
  <1>9. CpusAt
    <2> SUFFICES ASSUME NEW c \in Cpu PROVE CpuAt(c)
      BY DEF CpusAt
    <2>1. curenv[c] = NoEnv /\ cr3[c] = KernDir /\ pc[c] \in {"boot", "halt"}
      BY <1>5
    <2> QED BY <2>1 DEF CpuAt
  <1>10. OneCpu /\ Cr3Used
    BY <1>5, CpuAssumption DEF OneCpu, Cr3Used
  <1> QED BY <1>3, <1>6, <1>7, <1>8, <1>9, <1>10 DEF PmapInv

\* LoadCr3 on c.
LEMMA LoadCr3Effect ==
    ASSUME TypeOK, NEW c \in Cpu, NEW dir \in Env \cup {KernDir}, LoadCr3(c, dir)
    PROVE  /\ cr3' \in [Cpu -> Env \cup {KernDir}] /\ tlb' \in [Cpu -> [Va -> PTE]]
           /\ cr3'[c] = dir /\ \A d \in Cpu : d # c => cr3'[d] = cr3[d]
  <1>1. NoTlb \in [Va -> PTE]
    BY DEF NoTlb, Zero, PTE
  <1> QED BY <1>1 DEF LoadCr3, TypeOK

\* env_run of the environment that was here, or of one that is runnable.
LEMMA EnvRunKeeps ==
    ASSUME PmapInv, NEW c \in Cpu, pc[c] \in {"sched", "ret"}, NEW e \in Env,
           Resumable(c, e), EnvRun(c, e)
    PROVE  Kept
  <1>1. TypeOK /\ CpuAt(c) /\ Holds(c) /\ HasDirectory /\ ReceiverWaits
    BY DEF PmapInv, CpusAt, Holds, LockedPCs
  <1>2. MemInv(m)' /\ LosesLast(m, m')
    BY MemorySame DEF EnvRun
  <1>3. /\ curenv' = [curenv EXCEPT ![c] = e] /\ pc' = [pc EXCEPT ![c] = "user"]
        /\ m' = m /\ env_parent_id' = env_parent_id /\ env_ipc_dstva' = env_ipc_dstva
        /\ victim' = victim /\ LoadCr3(c, e)
    BY DEF EnvRun
  <1>4. /\ \A x \in Env : env_status'[x] =
              IF x = e THEN "RUNNING"
              ELSE IF x = curenv[c] /\ env_status[x] = "RUNNING" THEN "RUNNABLE"
              ELSE env_status[x]
        /\ env_status' \in [Env -> {"FREE", "DYING", "RUNNABLE", "RUNNING",
                                    "NOT_RUNNABLE"}]
    BY <1>1 DEF EnvRun, TypeOK
  <1>5. /\ cr3' \in [Cpu -> Env \cup {KernDir}] /\ tlb' \in [Cpu -> [Va -> PTE]]
        /\ cr3'[c] = e /\ \A d \in Cpu : d # c => cr3'[d] = cr3[d]
    BY <1>1, <1>3, LoadCr3Effect
  <1>6. /\ curenv' \in [Cpu -> Env \cup {NoEnv}] /\ curenv'[c] = e
        /\ \A d \in Cpu : d # c => curenv'[d] = curenv[d]
        /\ pc' \in [Cpu -> LockedPCs \cup {"user", "halt"}] /\ pc'[c] = "user"
        /\ \A d \in Cpu : d # c => pc'[d] = pc[d]
    BY <1>1, <1>3 DEF TypeOK
  <1>7. TypeOK'
    BY <1>1, <1>2, <1>3, <1>4, <1>5, <1>6 DEF TypeOK, MemInv
  <1>8. CpuAt(c)' /\ OnlyOn(c)
    BY <1>4, <1>5, <1>6 DEF CpuAt, OnlyOn
  <1>9. OthersRun(c)
    BY <1>4 DEF OthersRun
  <1>10. ComesFrom(c)
    BY <1>6 DEF ComesFrom, Resumable
  <1>11. cr3'[c] \in Env => env_status'[cr3'[c]] # "FREE"
    BY <1>4, <1>5
  <1>12. OneLocked' /\ CpusAt' /\ OneCpu' /\ Cr3Used'
    BY <1>1, <1>8, <1>9, <1>10, <1>11, CpuStep
  <1>13. HasDirectory'
    BY <1>1, <1>3, <1>4 DEF HasDirectory, Resumable
  <1>14. ReceiverWaits'
    BY <1>1, <1>3, <1>4 DEF ReceiverWaits, Resumable, Recving
  <1> QED BY <1>2, <1>7, <1>12, <1>13, <1>14 DEF PmapInv, Kept

\* sched_yield keeps PmapInv.
LEMMA SchedYieldKeeps ==
    ASSUME PmapInv, NEW c \in Cpu, SchedYield(c) PROVE Kept
  BY EnvRunKeeps DEF SchedYield

\* The return from a system call keeps PmapInv.
LEMMA RetKeeps ==
    ASSUME PmapInv, NEW c \in Cpu, Ret(c) PROVE Kept
  <1>1. curenv[c] \in Env /\ Resumable(c, curenv[c])
    BY DEF Ret, PmapInv, CpusAt, CpuAt, Resumable
  <1> QED BY <1>1, EnvRunKeeps DEF Ret

\* sched_halt keeps PmapInv.
LEMMA SchedHaltKeeps ==
    ASSUME PmapInv, NEW c \in Cpu, SchedHalt(c) PROVE Kept
  <1>1. TypeOK /\ CpuAt(c) /\ Holds(c) /\ HasDirectory /\ ReceiverWaits /\ Cr3Used
    BY DEF PmapInv, CpusAt, Holds, LockedPCs, SchedHalt
  <1>2. MemInv(m)' /\ LosesLast(m, m')
    BY MemorySame DEF SchedHalt
  <1>3. /\ m' = m /\ env_status' = env_status /\ env_parent_id' = env_parent_id
        /\ env_ipc_dstva' = env_ipc_dstva /\ victim' = victim
    BY DEF SchedHalt, envVars
  <1>4. OthersRun(c) /\ HasDirectory' /\ ReceiverWaits'
    BY <1>1, <1>3 DEF OthersRun, HasDirectory, ReceiverWaits, Recving
  <1>5. CASE /\ curenv' = [curenv EXCEPT ![c] = NoEnv]
             /\ LoadCr3(c, KernDir)
             /\ pc' = [pc EXCEPT ![c] = "halt"]
    <2>1. /\ cr3' \in [Cpu -> Env \cup {KernDir}] /\ tlb' \in [Cpu -> [Va -> PTE]]
          /\ cr3'[c] = KernDir /\ \A d \in Cpu : d # c => cr3'[d] = cr3[d]
      BY <1>1, <1>5, LoadCr3Effect
    <2>2. /\ curenv' \in [Cpu -> Env \cup {NoEnv}] /\ curenv'[c] = NoEnv
          /\ \A d \in Cpu : d # c => curenv'[d] = curenv[d]
          /\ pc' \in [Cpu -> LockedPCs \cup {"user", "halt"}] /\ pc'[c] = "halt"
          /\ \A d \in Cpu : d # c => pc'[d] = pc[d]
      BY <1>1, <1>5 DEF TypeOK
    <2>3. TypeOK'
      BY <1>1, <1>3, <2>1, <2>2 DEF TypeOK
    <2>4. CpuAt(c)' /\ OnlyOn(c)
      BY <2>1, <2>2 DEF CpuAt, OnlyOn
    <2>5. ComesFrom(c) /\ (cr3'[c] \in Env => env_status'[cr3'[c]] # "FREE")
      BY <2>1, <2>2, CpuAssumption DEF ComesFrom
    <2>6. OneLocked' /\ CpusAt' /\ OneCpu' /\ Cr3Used'
      BY <1>1, <1>4, <2>4, <2>5, CpuStep
    <2> QED BY <1>2, <1>4, <2>3, <2>6 DEF PmapInv, Kept
  <1>6. CASE pc' = [pc EXCEPT ![c] = "monitor"] /\ UNCHANGED cpuVars
    <2>1. curenv' = curenv /\ cr3' = cr3 /\ tlb' = tlb
      BY <1>6 DEF cpuVars
    <2>2. /\ pc' \in [Cpu -> LockedPCs \cup {"user", "halt"}] /\ pc'[c] = "monitor"
          /\ \A d \in Cpu : d # c => pc'[d] = pc[d]
      BY <1>1, <1>6 DEF TypeOK, LockedPCs
    <2>3. TypeOK'
      BY <1>1, <1>3, <2>1, <2>2 DEF TypeOK
    <2>4. CpuAt(c)' /\ OnlyOn(c)
      BY <2>1, <2>2 DEF CpuAt, OnlyOn
    <2>5. ComesFrom(c) /\ (cr3'[c] \in Env => env_status'[cr3'[c]] # "FREE")
      BY <1>1, <1>3, <2>1 DEF ComesFrom, Cr3Used
    <2>6. OneLocked' /\ CpusAt' /\ OneCpu' /\ Cr3Used'
      BY <1>1, <1>4, <2>4, <2>5, CpuStep
    <2> QED BY <1>2, <1>4, <2>3, <2>6 DEF PmapInv, Kept
  <1> QED BY <1>5, <1>6 DEF SchedHalt

\* The steps of c that change its pc alone, apart from memory and from what
\* waits.
MovesOn(c, to) ==
    /\ pc' = [pc EXCEPT ![c] = to]
    /\ UNCHANGED <<env_parent_id, curenv, cr3, victim>>
    /\ tlb' \in [Cpu -> [Va -> PTE]]

\* A step that leaves curenv and cr3 alone keeps PmapInv when
\* it keeps the memory and what it says of the environments.
LEMMA MoveKeeps ==
    ASSUME PmapInv, NEW c \in Cpu, Holds(c),
           NEW to \in LockedPCs \cup {"user", "halt"}, MovesOn(c, to),
           MemInv(m)', HasDirectory', ReceiverWaits', OthersRun(c), CpuAt(c)',
           env_status' \in [Env -> {"FREE", "DYING", "RUNNABLE", "RUNNING",
                                    "NOT_RUNNABLE"}],
           env_ipc_dstva' \in [Env -> Va \cup {NotRecving}],
           cr3[c] \in Env => env_status'[cr3[c]] # "FREE"
    PROVE  PmapInv'
  <1>1. TypeOK
    BY DEF PmapInv
  <1>2. /\ pc' \in [Cpu -> LockedPCs \cup {"user", "halt"}]
        /\ \A d \in Cpu : d # c => pc'[d] = pc[d]
        /\ curenv' = curenv /\ cr3' = cr3 /\ victim' = victim
        /\ env_parent_id' = env_parent_id
    BY <1>1 DEF TypeOK, MovesOn
  <1>3. TypeOK'
    BY <1>1, <1>2 DEF TypeOK, MovesOn, MemInv
  <1>4. OnlyOn(c) /\ ComesFrom(c) /\ (cr3'[c] \in Env => env_status'[cr3'[c]] # "FREE")
    BY <1>2 DEF OnlyOn, ComesFrom
  <1>5. OneLocked' /\ CpusAt' /\ OneCpu' /\ Cr3Used'
    BY <1>4, CpuStep
  <1> QED BY <1>3, <1>5 DEF PmapInv

\* A clock interrupt keeps PmapInv.
LEMMA TimerKeeps ==
    ASSUME PmapInv, NEW c \in Cpu, Timer(c) PROVE Kept
  <1>1. TypeOK /\ CpuAt(c) /\ Holds(c) /\ HasDirectory /\ ReceiverWaits /\ Cr3Used
    BY DEF PmapInv, CpusAt, Holds, Timer
  <1>2. MemInv(m)' /\ LosesLast(m, m')
    BY MemorySame DEF Timer
  <1>3. /\ m' = m /\ env_status' = env_status /\ env_parent_id' = env_parent_id
        /\ env_ipc_dstva' = env_ipc_dstva /\ victim' = victim /\ curenv' = curenv
        /\ cr3' = cr3 /\ tlb' = tlb /\ pc' = [pc EXCEPT ![c] = "sched"]
    BY DEF Timer, envVars, cpuVars
  <1>4. OthersRun(c) /\ HasDirectory' /\ ReceiverWaits'
    BY <1>1, <1>3 DEF OthersRun, HasDirectory, ReceiverWaits, Recving
  <1>5. pc'[c] = "sched" /\ pc[c] \in {"user", "halt"}
    BY <1>1, <1>3 DEF TypeOK, Timer, LockFree
  <1>6. CpuAt(c)'
    BY <1>1, <1>3, <1>5, CpuAssumption DEF CpuAt, Timer
  <1>7. MovesOn(c, "sched") /\ "sched" \in LockedPCs \cup {"user", "halt"}
    BY <1>1, <1>3 DEF MovesOn, TypeOK, LockedPCs
  <1>8. /\ env_status' \in [Env -> {"FREE", "DYING", "RUNNABLE", "RUNNING", "NOT_RUNNABLE"}]
        /\ env_ipc_dstva' \in [Env -> Va \cup {NotRecving}]
    BY <1>1, <1>3 DEF TypeOK
  <1>9. cr3[c] \in Env => env_status'[cr3[c]] # "FREE"
    BY <1>1, <1>3 DEF Cr3Used
  <1> QED BY <1>1, <1>2, <1>4, <1>6, <1>7, <1>8, <1>9, MoveKeeps DEF Kept

\* The MMU fills a TLB entry: PmapInv stays.
LEMMA TlbFillKeeps ==
    ASSUME PmapInv, NEW c \in Cpu, NEW va \in Va, TlbFill(c, va) PROVE Kept
  <1>1. TypeOK /\ CpuAt(c)
    BY DEF PmapInv, CpusAt
  <1>2. MemInv(m)' /\ LosesLast(m, m')
    BY MemorySame DEF TlbFill
  <1>3. /\ m' = m /\ env_status' = env_status /\ env_parent_id' = env_parent_id
        /\ env_ipc_dstva' = env_ipc_dstva /\ victim' = victim /\ curenv' = curenv
        /\ cr3' = cr3 /\ pc' = pc
    BY DEF TlbFill, envVars
  <1>4. cr3[c] \in Env
    BY <1>1 DEF CpuAt, TlbFill
  <1>5. m.pte[cr3[c]][va] \in PTE
    BY <1>1, <1>4, Entries DEF TypeOK
  <1>6. tlb' \in [Cpu -> [Va -> PTE]]
    BY <1>1, <1>5 DEF TypeOK, TlbFill
  <1>7. TypeOK'
    BY <1>1, <1>3, <1>6 DEF TypeOK
  <1>8. OneLocked' /\ HasDirectory' /\ ReceiverWaits' /\ OneCpu' /\ Cr3Used'
    BY <1>3 DEF PmapInv, OneLocked, HasDirectory, ReceiverWaits, Recving, OneCpu, Cr3Used
  <1>9. CpusAt'
    BY <1>3 DEF PmapInv, CpusAt, CpuAt
  <1> QED BY <1>2, <1>7, <1>8, <1>9 DEF PmapInv, Kept

-----------------------------------------------------------------------------
(* System calls.                                                           *)

\* Who calls runs on c.
LEMMA CallAt ==
    ASSUME PmapInv, NEW c \in Cpu, NEW e, Calls(c, e)
    PROVE  /\ TypeOK /\ Holds(c) /\ MemInv(m) /\ pc[c] = "user"
           /\ e \in Env /\ curenv[c] = e /\ cr3[c] = e /\ env_status[e] = "RUNNING"
           /\ m.env_pgdir[e] # NoPage
  <1>1. TypeOK /\ Holds(c) /\ MemInv(m) /\ CpuAt(c) /\ HasDirectory
    BY DEF PmapInv, CpusAt, Holds, Calls
  <1>2. pc[c] = "user" /\ curenv[c] = e /\ env_status[e] = "RUNNING"
    BY DEF Calls
  <1>3. e \in Env /\ cr3[c] = e
    BY <1>1, <1>2 DEF CpuAt
  <1> QED BY <1>1, <1>2, <1>3 DEF HasDirectory

\* A call that changes memory, statuses and receivers at most, and returns.
LEMMA ReturnKeeps ==
    ASSUME PmapInv, NEW c \in Cpu, NEW e, Calls(c, e), Return(c),
           UNCHANGED <<env_parent_id, curenv, cr3, victim>>,
           tlb' \in [Cpu -> [Va -> PTE]],
           MemInv(m)', HasDirectory', ReceiverWaits', OthersRun(c),
           env_status' \in [Env -> {"FREE", "DYING", "RUNNABLE", "RUNNING",
                                    "NOT_RUNNABLE"}],
           env_ipc_dstva' \in [Env -> Va \cup {NotRecving}],
           env_status'[e] = "RUNNING"
    PROVE  PmapInv'
  <1>1. /\ TypeOK /\ Holds(c) /\ pc[c] = "user"
        /\ e \in Env /\ curenv[c] = e /\ cr3[c] = e /\ env_status[e] = "RUNNING"
    BY CallAt
  <1>2. MovesOn(c, "ret") /\ "ret" \in LockedPCs \cup {"user", "halt"}
    BY DEF MovesOn, Return, LockedPCs
  <1>3. pc'[c] = "ret" /\ curenv'[c] = e /\ cr3'[c] = e
    BY <1>1 DEF TypeOK, Return
  <1>4. CpuAt(c)'
    BY <1>1, <1>3 DEF CpuAt
  <1>5. cr3[c] \in Env => env_status'[cr3[c]] # "FREE"
    BY <1>1
  <1> QED BY <1>1, <1>2, <1>4, <1>5, MoveKeeps

\* Nothing happens to the environments.
LEMMA EnvsSame ==
    ASSUME PmapInv, UNCHANGED <<env_status, env_ipc_dstva>>, m'.env_pgdir = m.env_pgdir
    PROVE  /\ HasDirectory' /\ ReceiverWaits' /\ \A c \in Cpu : OthersRun(c)
           /\ env_status' \in [Env -> {"FREE", "DYING", "RUNNABLE", "RUNNING",
                                       "NOT_RUNNABLE"}]
           /\ env_ipc_dstva' \in [Env -> Va \cup {NotRecving}]
  BY DEF PmapInv, TypeOK, HasDirectory, ReceiverWaits, Recving, OthersRun

\* tlb_invalidate leaves a TLB.
LEMMA TlbInvalidateType ==
    ASSUME TypeOK, NEW c \in Cpu, NEW t, NEW va \in Va,
           TlbInvalidate(c, t, va) \/ tlb' = tlb
    PROVE  tlb' \in [Cpu -> [Va -> PTE]]
  <1>1. Zero \in PTE
    BY DEF Zero, PTE
  <1>2. [tlb EXCEPT ![c][va] = Zero] \in [Cpu -> [Va -> PTE]]
    BY <1>1 DEF TypeOK
  <1> QED BY <1>2 DEF TlbInvalidate, TypeOK

\* sys_page_alloc keeps PmapInv.
LEMMA SysPageAllocKeeps ==
    ASSUME PmapInv, NEW c \in Cpu, NEW e \in Env, NEW t \in Env, NEW va \in Va,
           NEW perm \in Perms, SysPageAlloc(c, e, t, va, perm)
    PROVE  Kept
  <1> DEFINE r == env_page_alloc(m, t, va, perm)
  <1>1. /\ Calls(c, e) /\ m' = r.mem /\ Return(c)
        /\ UNCHANGED <<env_parent_id, curenv, cr3, victim>>
        /\ UNCHANGED <<env_status, env_ipc_dstva>>
        /\ TlbInvalidate(c, t, va) \/ tlb' = tlb
    BY DEF SysPageAlloc, envVars
  <1>2. TypeOK /\ MemInv(m) /\ env_status[e] = "RUNNING" /\ m.env_pgdir[t] # NoPage
    BY <1>1, CallAt DEF SysPageAlloc, Reaches, PmapInv, HasDirectory
  <1>3. perm \in SUBSET Flag
    BY CpuAssumption
  <1>4. MemInv(r.mem) /\ r.mem.env_pgdir = m.env_pgdir /\ LosesLast(m, r.mem)
    BY <1>2, <1>3, PageAllocKeeps
  <1> HIDE DEF r
  <1>5. MemInv(m)' /\ m'.env_pgdir = m.env_pgdir /\ LosesLast(m, m')
    BY <1>1, <1>4
  <1>6. tlb' \in [Cpu -> [Va -> PTE]]
    BY <1>1, <1>2, TlbInvalidateType
  <1>7. /\ HasDirectory' /\ ReceiverWaits' /\ OthersRun(c)
        /\ env_status' \in [Env -> {"FREE", "DYING", "RUNNABLE", "RUNNING",
                                    "NOT_RUNNABLE"}]
        /\ env_ipc_dstva' \in [Env -> Va \cup {NotRecving}]
    BY <1>1, <1>5, EnvsSame
  <1>8. env_status'[e] = "RUNNING"
    BY <1>1, <1>2
  <1>9. PmapInv'
    BY <1>1, <1>5, <1>6, <1>7, <1>8, ReturnKeeps
  <1> QED BY <1>5, <1>9 DEF Kept

\* sys_page_map keeps PmapInv while no page is shared MaxRef times.
LEMMA SysPageMapKeeps ==
    ASSUME PmapInv, FewSharers, NEW c \in Cpu, NEW e \in Env, NEW s \in Env, NEW sva \in Va,
           NEW t \in Env, NEW va \in Va,
           NEW perm \in Perms, SysPageMap(c, e, s, sva, t, va, perm)
    PROVE  Kept
  <1> DEFINE r == env_page_map(m, s, sva, t, va, perm)
  <1>1. /\ Calls(c, e) /\ m' = r.mem /\ Return(c)
        /\ UNCHANGED <<env_parent_id, curenv, cr3, victim>>
        /\ UNCHANGED <<env_status, env_ipc_dstva>>
        /\ TlbInvalidate(c, t, va) \/ tlb' = tlb
    BY DEF SysPageMap, envVars
  <1>2. TypeOK /\ MemInv(m) /\ env_status[e] = "RUNNING" /\ m.env_pgdir[t] # NoPage
    BY <1>1, CallAt DEF SysPageMap, Reaches, PmapInv, HasDirectory
  <1>3. perm \in SUBSET Flag
    BY CpuAssumption
  <1>a. Mapped(m, s, sva) => m.pp_ref[m.pte[s][sva].page] < MaxRef
    BY <1>2, Countable
  <1>4. MemInv(r.mem) /\ r.mem.env_pgdir = m.env_pgdir /\ Lost(r.mem) = Lost(m)
    BY <1>2, <1>3, <1>a, PageMapKeeps
  <1> HIDE DEF r
  <1>5. MemInv(m)' /\ m'.env_pgdir = m.env_pgdir /\ LosesLast(m, m')
    BY <1>1, <1>4 DEF LosesLast
  <1>6. tlb' \in [Cpu -> [Va -> PTE]]
    BY <1>1, <1>2, TlbInvalidateType
  <1>7. /\ HasDirectory' /\ ReceiverWaits' /\ OthersRun(c)
        /\ env_status' \in [Env -> {"FREE", "DYING", "RUNNABLE", "RUNNING",
                                    "NOT_RUNNABLE"}]
        /\ env_ipc_dstva' \in [Env -> Va \cup {NotRecving}]
    BY <1>1, <1>5, EnvsSame
  <1>8. env_status'[e] = "RUNNING"
    BY <1>1, <1>2
  <1>9. PmapInv'
    BY <1>1, <1>5, <1>6, <1>7, <1>8, ReturnKeeps
  <1> QED BY <1>5, <1>9 DEF Kept

\* sys_page_unmap keeps PmapInv.
LEMMA SysPageUnmapKeeps ==
    ASSUME PmapInv, NEW c \in Cpu, NEW e \in Env, NEW t \in Env, NEW va \in Va,
           SysPageUnmap(c, e, t, va)
    PROVE  Kept
  <1>1. /\ Calls(c, e) /\ m' = page_remove(m, t, va) /\ Return(c)
        /\ UNCHANGED <<env_parent_id, curenv, cr3, victim>>
        /\ UNCHANGED <<env_status, env_ipc_dstva>>
        /\ TlbInvalidate(c, t, va) \/ tlb' = tlb
    BY DEF SysPageUnmap, envVars
  <1>2. TypeOK /\ MemInv(m) /\ env_status[e] = "RUNNING"
    BY <1>1, CallAt
  <1>4. MemInv(m') /\ m'.env_pgdir = m.env_pgdir /\ Lost(m') = Lost(m)
    BY <1>1, <1>2, RemoveKeeps
  <1>5. MemInv(m)' /\ LosesLast(m, m')
    BY <1>1, <1>4 DEF LosesLast
  <1>6. tlb' \in [Cpu -> [Va -> PTE]]
    BY <1>1, <1>2, TlbInvalidateType
  <1>7. /\ HasDirectory' /\ ReceiverWaits' /\ OthersRun(c)
        /\ env_status' \in [Env -> {"FREE", "DYING", "RUNNABLE", "RUNNING",
                                    "NOT_RUNNABLE"}]
        /\ env_ipc_dstva' \in [Env -> Va \cup {NotRecving}]
    BY <1>1, <1>4, EnvsSame
  <1>8. env_status'[e] = "RUNNING"
    BY <1>1, <1>2
  <1>9. PmapInv'
    BY <1>1, <1>5, <1>6, <1>7, <1>8, ReturnKeeps
  <1> QED BY <1>5, <1>9 DEF Kept

\* sys_ipc_recv keeps PmapInv: the receiver sleeps with a directory.
LEMMA SysIpcRecvKeeps ==
    ASSUME PmapInv, NEW c \in Cpu, NEW e \in Env, NEW dstva \in Va, SysIpcRecv(c, e, dstva)
    PROVE  Kept
  <1>1. /\ Calls(c, e) /\ pc' = [pc EXCEPT ![c] = "sched"]
        /\ env_ipc_dstva' = [env_ipc_dstva EXCEPT ![e] = dstva]
        /\ env_status' = [env_status EXCEPT ![e] = "NOT_RUNNABLE"]
        /\ m' = m /\ env_parent_id' = env_parent_id /\ curenv' = curenv /\ cr3' = cr3
        /\ tlb' = tlb /\ victim' = victim
    BY DEF SysIpcRecv, cpuVars
  <1>2. /\ TypeOK /\ Holds(c) /\ pc[c] = "user"
        /\ curenv[c] = e /\ cr3[c] = e /\ env_status[e] = "RUNNING"
    BY <1>1, CallAt
  <1>3. MemInv(m)' /\ LosesLast(m, m')
    BY <1>1, MemorySame
  <1>4. /\ env_status' \in [Env -> {"FREE", "DYING", "RUNNABLE", "RUNNING", "NOT_RUNNABLE"}]
        /\ env_ipc_dstva' \in [Env -> Va \cup {NotRecving}]
        /\ env_status'[e] = "NOT_RUNNABLE" /\ pc'[c] = "sched"
        /\ \A f \in Env : f # e => /\ env_status'[f] = env_status[f]
                                   /\ env_ipc_dstva'[f] = env_ipc_dstva[f]
    BY <1>1, <1>2 DEF TypeOK
  <1>5. HasDirectory' /\ ReceiverWaits' /\ OthersRun(c)
    BY <1>1, <1>2, <1>4 DEF PmapInv, HasDirectory, ReceiverWaits, Recving, OthersRun
  <1>6. CpuAt(c)'
    BY <1>1, <1>2, <1>4 DEF CpuAt
  <1>7. MovesOn(c, "sched") /\ "sched" \in LockedPCs \cup {"user", "halt"}
    BY <1>1, <1>2 DEF MovesOn, TypeOK, LockedPCs
  <1>8. cr3[c] \in Env => env_status'[cr3[c]] # "FREE"
    BY <1>2, <1>4
  <1> QED BY <1>2, <1>3, <1>4, <1>5, <1>6, <1>7, <1>8, MoveKeeps DEF Kept

\* A receiver is woken.
LEMMA WakeEffect ==
    ASSUME PmapInv, NEW t \in Env, Recving(t), Wake(t), m'.env_pgdir = m.env_pgdir
    PROVE  /\ env_status' \in [Env -> {"FREE", "DYING", "RUNNABLE", "RUNNING",
                                       "NOT_RUNNABLE"}]
           /\ env_ipc_dstva' \in [Env -> Va \cup {NotRecving}]
           /\ HasDirectory' /\ ReceiverWaits' /\ \A c \in Cpu : OthersRun(c)
           /\ \A f \in Env : env_status[f] = "RUNNING" => env_status'[f] = "RUNNING"
  <1>1. TypeOK /\ env_status[t] = "NOT_RUNNABLE"
    BY DEF PmapInv, ReceiverWaits
  <1>2. /\ env_status' \in [Env -> {"FREE", "DYING", "RUNNABLE", "RUNNING", "NOT_RUNNABLE"}]
        /\ env_ipc_dstva' \in [Env -> Va \cup {NotRecving}]
        /\ env_status'[t] = "RUNNABLE" /\ env_ipc_dstva'[t] = NotRecving
        /\ \A f \in Env : f # t => /\ env_status'[f] = env_status[f]
                                   /\ env_ipc_dstva'[f] = env_ipc_dstva[f]
    BY <1>1 DEF Wake, TypeOK
  <1>3. HasDirectory'
    BY <1>1, <1>2 DEF PmapInv, HasDirectory
  <1>4. ReceiverWaits'
    BY <1>2 DEF PmapInv, ReceiverWaits, Recving
  <1>5. \A c \in Cpu : OthersRun(c)
    BY <1>1, <1>2 DEF OthersRun
  <1> QED BY <1>1, <1>2, <1>3, <1>4, <1>5

\* sys_ipc_try_send of a value keeps PmapInv.
LEMMA SysIpcSendValueKeeps ==
    ASSUME PmapInv, NEW c \in Cpu, NEW e \in Env, NEW t \in Env, SysIpcSendValue(c, e, t)
    PROVE  Kept
  <1>1. /\ Calls(c, e) /\ Recving(t) /\ Wake(t) /\ Return(c)
        /\ m' = m /\ tlb' = tlb
        /\ UNCHANGED <<env_parent_id, curenv, cr3, victim>>
    BY DEF SysIpcSendValue, cpuVars
  <1>2. TypeOK /\ env_status[e] = "RUNNING"
    BY <1>1, CallAt
  <1>3. MemInv(m)' /\ LosesLast(m, m')
    BY <1>1, MemorySame
  <1>4. tlb' \in [Cpu -> [Va -> PTE]]
    BY <1>1, <1>2 DEF TypeOK
  <1>5. /\ HasDirectory' /\ ReceiverWaits' /\ OthersRun(c) /\ env_status'[e] = "RUNNING"
        /\ env_status' \in [Env -> {"FREE", "DYING", "RUNNABLE", "RUNNING",
                                    "NOT_RUNNABLE"}]
        /\ env_ipc_dstva' \in [Env -> Va \cup {NotRecving}]
    BY <1>1, <1>2, WakeEffect
  <1>6. PmapInv'
    BY <1>1, <1>3, <1>4, <1>5, ReturnKeeps
  <1> QED BY <1>3, <1>6 DEF Kept

\* The page tables change for one address at most.
OneEntry(n, e, va) == n.pte = m.pte \/ \E z \in PTE : n.pte = Entered(m.pte, e, va, z)

\* The memory that sys_ipc_try_send leaves.
LEMMA IpcPageKeeps ==
    ASSUME PmapInv, FewSharers, NEW e \in Env, NEW t \in Env, e # t, Recving(t),
           NEW srcva \in Va, NEW perm \in SUBSET Flag,
           NEW r, r = IpcPage(e, t, srcva, perm)
    PROVE  /\ MemInv(r.mem) /\ r.mem.env_pgdir = m.env_pgdir /\ LosesLast(m, r.mem)
           /\ OneEntry(r.mem, t, env_ipc_dstva[t])
  <1> DEFINE dstva == env_ipc_dstva[t]
             a == env_page_alloc(m, t, dstva, perm)
             b == env_page_map(a.mem, e, srcva, t, dstva, perm)
  <1>1. r = IF dstva = 0 THEN [mem |-> m, ret |-> "ok"] ELSE IF a.ret # "ok" THEN a ELSE b
    BY DEF IpcPage
  <1>2. MemInv(m) /\ TypeOK /\ dstva \in Va /\ m.env_pgdir[t] # NoPage
    BY DEF PmapInv, TypeOK, Recving, HasDirectory
  <1>3. /\ MemInv(a.mem)
        /\ a.mem.env_pgdir = m.env_pgdir
        /\ a.ret = "ok" => \E p \in Page :
              a.mem.pte = Entered(m.pte, t, dstva, [page |-> p, perm |-> perm])
        /\ a.ret # "ok" => a.mem.pte = m.pte
        /\ a.ret = "ok" => Lost(a.mem) = Lost(m)
        /\ CountsFall(m, a.mem) /\ LosesLast(m, a.mem)
    BY <1>2, PageAllocKeeps
  <1> HIDE DEF a, b, dstva
  <1>4. CASE dstva = 0
    BY <1>1, <1>2, <1>4 DEF LosesLast, OneEntry
  <1>5. CASE dstva # 0 /\ a.ret # "ok"
    BY <1>1, <1>3, <1>5 DEF OneEntry
  <1>6. CASE dstva # 0 /\ a.ret = "ok"
    <2>1. PICK p \in Page :
              a.mem.pte = Entered(m.pte, t, dstva, [page |-> p, perm |-> perm])
      BY <1>3, <1>6
    <2>2. PtesDiffer(m, a.mem, t, dstva)
      BY <1>2, <2>1, EnteredIs DEF MemInv
    <2>3. a.mem.pte[e][srcva] = m.pte[e][srcva]
      BY <2>2 DEF PtesDiffer
    <2>4. Mapped(a.mem, e, srcva) => a.mem.pp_ref[a.mem.pte[e][srcva].page] < MaxRef
      <3> SUFFICES ASSUME Mapped(a.mem, e, srcva)
                   PROVE  a.mem.pp_ref[a.mem.pte[e][srcva].page] < MaxRef
        OBVIOUS
      <3> DEFINE q == m.pte[e][srcva].page
      <3>1. Mapped(m, e, srcva)
        BY <2>3 DEF Mapped
      <3>2. q \in Page /\ q \notin m.page_free_list
        BY <1>2, <3>1, MappedPage
      <3>3. m.pp_ref[q] < MaxRef
        BY <1>2, <3>1, Countable
      <3> HIDE DEF q
      <3>4. a.mem.pp_ref[q] <= m.pp_ref[q]
        BY <1>3, <3>2 DEF CountsFall
      <3>5. a.mem.pp_ref[q] \in Nat /\ m.pp_ref[q] \in Nat /\ MaxRef \in Nat
        BY <1>2, <1>3, <3>2, CountIs, PageAssumption
      <3>6. a.mem.pp_ref[q] < MaxRef
        BY <3>3, <3>4, <3>5
      <3> QED BY <2>3, <3>6 DEF q
    <2>5. a.mem.env_pgdir[t] # NoPage /\ b = env_page_map(a.mem, e, srcva, t, dstva, perm)
      BY <1>2, <1>3 DEF b
    <2>6. /\ MemInv(b.mem)
          /\ b.mem.env_pgdir = a.mem.env_pgdir
          /\ b.ret = "ok" => \E q \in Page :
                b.mem.pte = Entered(a.mem.pte, t, dstva, [page |-> q, perm |-> perm])
          /\ b.ret # "ok" => b.mem.pte = a.mem.pte
          /\ Lost(b.mem) = Lost(a.mem)
      BY <1>2, <1>3, <2>4, <2>5, PageMapKeeps
    <2>7. r.mem = b.mem
      BY <1>1, <1>6
    <2>8. LosesLast(m, b.mem)
      BY <1>3, <1>6, <2>6 DEF LosesLast
    <2>9. \A q \in Page : [page |-> q, perm |-> perm] \in PTE
      BY DEF PTE
    <2>10. OneEntry(b.mem, t, dstva)
      <3>1. CASE b.ret # "ok"
        BY <2>1, <2>6, <2>9, <3>1 DEF OneEntry
      <3>2. CASE b.ret = "ok"
        <4>1. PICK q \in Page :
                  b.mem.pte = Entered(a.mem.pte, t, dstva, [page |-> q, perm |-> perm])
          BY <2>6, <3>2
        <4>2. m.pte \in [Env -> [Va -> PTE]]
          BY <1>2, Fields DEF MemInv
        <4>3. b.mem.pte = Entered(m.pte, t, dstva, [page |-> q, perm |-> perm])
          BY <1>2, <2>1, <4>1, <4>2, EnterTwice
        <4> QED BY <2>9, <4>3 DEF OneEntry
      <3> QED BY <3>1, <3>2
    <2> QED BY <1>3, <2>6, <2>7, <2>8, <2>10 DEF dstva
  <1> QED BY <1>4, <1>5, <1>6

\* sys_ipc_try_send of a page keeps PmapInv.
LEMMA SysIpcSendPageKeeps ==
    ASSUME PmapInv, FewSharers, NEW c \in Cpu, NEW e \in Env, NEW t \in Env,
           NEW srcva \in Va, NEW perm \in Perms, SysIpcSendPage(c, e, t, srcva, perm)
    PROVE  Kept
  <1> DEFINE r == IpcPage(e, t, srcva, perm)
  <1>1. /\ Calls(c, e) /\ Recving(t) /\ Return(c) /\ m' = r.mem /\ tlb' = tlb
        /\ UNCHANGED <<env_parent_id, curenv, cr3, victim>>
        /\ Wake(t) \/ UNCHANGED <<env_status, env_ipc_dstva>>
    BY DEF SysIpcSendPage, cpuVars
  <1>2. TypeOK /\ env_status[e] = "RUNNING"
    BY <1>1, CallAt
  <1>3. e # t
    BY <1>1, <1>2 DEF PmapInv, ReceiverWaits
  <1>4. perm \in SUBSET Flag
    BY CpuAssumption
  <1>5. MemInv(r.mem) /\ r.mem.env_pgdir = m.env_pgdir /\ LosesLast(m, r.mem)
    BY <1>1, <1>3, <1>4, IpcPageKeeps
  <1> HIDE DEF r
  <1>6. MemInv(m)' /\ m'.env_pgdir = m.env_pgdir /\ LosesLast(m, m')
    BY <1>1, <1>5
  <1>7. tlb' \in [Cpu -> [Va -> PTE]]
    BY <1>1, <1>2 DEF TypeOK
  <1>8. /\ HasDirectory' /\ ReceiverWaits' /\ OthersRun(c) /\ env_status'[e] = "RUNNING"
        /\ env_status' \in [Env -> {"FREE", "DYING", "RUNNABLE", "RUNNING",
                                    "NOT_RUNNABLE"}]
        /\ env_ipc_dstva' \in [Env -> Va \cup {NotRecving}]
    <2>1. CASE Wake(t)
      BY <1>1, <1>2, <1>6, <2>1, WakeEffect
    <2>2. CASE UNCHANGED <<env_status, env_ipc_dstva>>
      BY <1>2, <1>6, <2>2, EnvsSame
    <2> QED BY <1>1, <2>1, <2>2
  <1>9. PmapInv'
    BY <1>1, <1>6, <1>7, <1>8, ReturnKeeps
  <1> QED BY <1>6, <1>9 DEF Kept

\* sys_ipc_try_send of a page that the sender does not have keeps PmapInv.
LEMMA SysIpcSendUnmappedKeeps ==
    ASSUME PmapInv, FewSharers, NEW c \in Cpu, NEW e \in Env, NEW t \in Env,
           NEW srcva \in Va, NEW perm \in Perms, SysIpcSendUnmapped(c, e, t, srcva, perm)
    PROVE  Kept
  <1> DEFINE r == IpcPage(e, t, srcva, perm)
  <1>1. /\ Calls(c, e) /\ Recving(t) /\ tlb' = tlb
        /\ UNCHANGED <<env_parent_id, curenv, cr3, victim>>
        /\ Wake(t) \/ UNCHANGED <<env_status, env_ipc_dstva>>
    BY DEF SysIpcSendUnmapped, cpuVars
  <1>2. /\ TypeOK /\ env_status[e] = "RUNNING" /\ Holds(c) /\ curenv[c] = e /\ cr3[c] = e
        /\ MemInv(m)
    BY <1>1, CallAt
  <1>3. e # t
    BY <1>1, <1>2 DEF PmapInv, ReceiverWaits
  <1>4. perm \in SUBSET Flag
    BY CpuAssumption
  <1>5. MemInv(r.mem) /\ r.mem.env_pgdir = m.env_pgdir /\ LosesLast(m, r.mem)
    BY <1>1, <1>3, <1>4, IpcPageKeeps
  <1>6. MemInv(m)' /\ m'.env_pgdir = m.env_pgdir /\ LosesLast(m, m')
    <2>1. m' = m \/ m' = r.mem
      BY DEF SysIpcSendUnmapped
    <2> HIDE DEF r
    <2> QED BY <1>2, <1>5, <2>1 DEF LosesLast
  <1>7. tlb' \in [Cpu -> [Va -> PTE]]
    BY <1>1, <1>2 DEF TypeOK
  <1>8. /\ HasDirectory' /\ ReceiverWaits' /\ OthersRun(c) /\ env_status'[e] = "RUNNING"
        /\ env_status' \in [Env -> {"FREE", "DYING", "RUNNABLE", "RUNNING",
                                    "NOT_RUNNABLE"}]
        /\ env_ipc_dstva' \in [Env -> Va \cup {NotRecving}]
    <2>1. CASE Wake(t)
      BY <1>1, <1>2, <1>6, <2>1, WakeEffect
    <2>2. CASE UNCHANGED <<env_status, env_ipc_dstva>>
      BY <1>2, <1>6, <2>2, EnvsSame
    <2> QED BY <1>1, <2>1, <2>2
  <1>9. CASE Return(c)
    <2>1. PmapInv'
      BY <1>1, <1>6, <1>7, <1>8, <1>9, ReturnKeeps
    <2> QED BY <1>6, <2>1 DEF Kept
  <1>10. CASE Panic(c)
    <2>1. MovesOn(c, "panic") /\ "panic" \in LockedPCs \cup {"user", "halt"}
      BY <1>1, <1>7, <1>10 DEF MovesOn, Panic, LockedPCs
    <2>2. pc'[c] = "panic"
      BY <1>2, <1>10 DEF Panic, TypeOK
    <2>3. CpuAt(c)'
      BY <2>2 DEF CpuAt
    <2>4. cr3[c] \in Env => env_status'[cr3[c]] # "FREE"
      BY <1>2, <1>8
    <2>5. PmapInv'
      BY <1>2, <1>6, <1>8, <2>1, <2>3, <2>4, MoveKeeps
    <2> QED BY <1>6, <2>5 DEF Kept
  <1> QED BY <1>9, <1>10 DEF SysIpcSendUnmapped

\* env_alloc: the slot was free, and gets a directory.
LEMMA EnvAllocKeeps ==
    ASSUME PmapInv, NEW t \in Env, NEW parent \in Env \cup {NoEnv},
           NEW status \in {"RUNNABLE", "NOT_RUNNABLE"}, EnvAlloc(t, parent, status)
    PROVE  /\ MemInv(m)' /\ LosesLast(m, m') /\ HasDirectory' /\ ReceiverWaits'
           /\ \A c \in Cpu : OthersRun(c)
           /\ env_status' \in [Env -> {"FREE", "DYING", "RUNNABLE", "RUNNING",
                                       "NOT_RUNNABLE"}]
           /\ env_parent_id' \in [Env -> Env \cup {NoEnv}]
           /\ env_ipc_dstva' \in [Env -> Va \cup {NotRecving}]
           /\ env_status'[t] = status /\ env_status[t] = "FREE"
           /\ \A f \in Env : f # t => env_status'[f] = env_status[f]
           /\ m'.pte = m.pte
  <1>1. TypeOK /\ MemInv(m) /\ HasDirectory /\ ReceiverWaits
    BY DEF PmapInv
  <1>2. /\ env_status[t] = "FREE" /\ HasFree(m) /\ m' = env_setup_vm(m, t)
        /\ env_status' = [env_status EXCEPT ![t] = status]
        /\ env_parent_id' = [env_parent_id EXCEPT ![t] = parent]
        /\ env_ipc_dstva' = [env_ipc_dstva EXCEPT ![t] = NotRecving]
    BY DEF EnvAlloc
  <1>3. m.env_pgdir[t] = NoPage
    BY <1>1, <1>2 DEF HasDirectory
  <1>4. /\ MemInv(m')
        /\ \E p \in Page : m'.env_pgdir = [m.env_pgdir EXCEPT ![t] = p]
        /\ m'.pte = m.pte /\ Lost(m') = Lost(m)
    BY <1>1, <1>2, <1>3, SetupKeeps
  <1>5. /\ env_status' \in [Env -> {"FREE", "DYING", "RUNNABLE", "RUNNING", "NOT_RUNNABLE"}]
        /\ env_parent_id' \in [Env -> Env \cup {NoEnv}]
        /\ env_ipc_dstva' \in [Env -> Va \cup {NotRecving}]
        /\ env_status'[t] = status /\ env_ipc_dstva'[t] = NotRecving
        /\ \A f \in Env : f # t => /\ env_status'[f] = env_status[f]
                                   /\ env_ipc_dstva'[f] = env_ipc_dstva[f]
    BY <1>1, <1>2 DEF TypeOK
  <1>6. m'.env_pgdir[t] # NoPage /\ \A f \in Env : f # t => m'.env_pgdir[f] = m.env_pgdir[f]
    <2>1. m.env_pgdir \in [Env -> Page \cup {NoPage}]
      BY <1>1, Fields DEF MemInv
    <2> QED BY <1>4, <2>1, NoPageIsNone
  <1>7. HasDirectory'
    BY <1>1, <1>5, <1>6 DEF HasDirectory
  <1>8. ReceiverWaits'
    BY <1>1, <1>5 DEF ReceiverWaits, Recving
  <1>9. \A c \in Cpu : OthersRun(c)
    BY <1>2, <1>5 DEF OthersRun
  <1> QED BY <1>2, <1>4, <1>5, <1>7, <1>8, <1>9 DEF LosesLast

\* sys_exofork keeps PmapInv.
LEMMA SysExoforkKeeps ==
    ASSUME PmapInv, NEW c \in Cpu, NEW e \in Env, NEW t \in Env, SysExofork(c, e, t)
    PROVE  Kept
  <1>1. /\ Calls(c, e) /\ EnvAlloc(t, e, "NOT_RUNNABLE") /\ Return(c)
        /\ curenv' = curenv /\ cr3' = cr3 /\ tlb' = tlb /\ victim' = victim
        /\ pc' = [pc EXCEPT ![c] = "ret"]
    BY DEF SysExofork, cpuVars, Return
  <1>2. /\ TypeOK /\ Holds(c) /\ pc[c] = "user"
        /\ curenv[c] = e /\ cr3[c] = e /\ env_status[e] = "RUNNING"
    BY <1>1, CallAt
  <1>3. /\ MemInv(m)' /\ LosesLast(m, m') /\ HasDirectory' /\ ReceiverWaits'
        /\ OthersRun(c)
        /\ env_status' \in [Env -> {"FREE", "DYING", "RUNNABLE", "RUNNING", "NOT_RUNNABLE"}]
        /\ env_parent_id' \in [Env -> Env \cup {NoEnv}]
        /\ env_ipc_dstva' \in [Env -> Va \cup {NotRecving}]
        /\ env_status[t] = "FREE"
        /\ \A f \in Env : f # t => env_status'[f] = env_status[f]
    BY <1>1, EnvAllocKeeps
  <1>4. /\ pc' \in [Cpu -> LockedPCs \cup {"user", "halt"}] /\ pc'[c] = "ret"
        /\ \A d \in Cpu : d # c => pc'[d] = pc[d]
    BY <1>1, <1>2 DEF TypeOK, LockedPCs
  <1>5. TypeOK'
    BY <1>1, <1>2, <1>3, <1>4 DEF TypeOK, MemInv
  <1>6. env_status'[e] = "RUNNING"
    BY <1>2, <1>3
  <1>7. CpuAt(c)' /\ OnlyOn(c) /\ ComesFrom(c)
    BY <1>1, <1>2, <1>4, <1>6 DEF CpuAt, OnlyOn, ComesFrom
  <1>8. cr3'[c] \in Env => env_status'[cr3'[c]] # "FREE"
    BY <1>1, <1>2, <1>6
  <1>9. OneLocked' /\ CpusAt' /\ OneCpu' /\ Cr3Used'
    BY <1>2, <1>3, <1>7, <1>8, CpuStep
  <1> QED BY <1>3, <1>5, <1>9 DEF PmapInv, Kept

\* sys_env_set_status keeps PmapInv.
LEMMA SysEnvSetStatusKeeps ==
    ASSUME PmapInv, NEW c \in Cpu, NEW e \in Env, NEW t \in Env, SysEnvSetStatus(c, e, t)
    PROVE  Kept
  <1>1. /\ Calls(c, e) /\ Return(c) /\ env_status[t] = "NOT_RUNNABLE" /\ ~Recving(t)
        /\ env_status' = [env_status EXCEPT ![t] = "RUNNABLE"]
        /\ UNCHANGED <<env_parent_id, curenv, cr3, victim>>
        /\ m' = m /\ tlb' = tlb /\ env_ipc_dstva' = env_ipc_dstva
    BY DEF SysEnvSetStatus, cpuVars
  <1>2. TypeOK /\ env_status[e] = "RUNNING"
    BY <1>1, CallAt
  <1>3. MemInv(m)' /\ LosesLast(m, m')
    BY <1>1, MemorySame
  <1>4. /\ env_status' \in [Env -> {"FREE", "DYING", "RUNNABLE", "RUNNING", "NOT_RUNNABLE"}]
        /\ env_ipc_dstva' \in [Env -> Va \cup {NotRecving}] /\ tlb' \in [Cpu -> [Va -> PTE]]
        /\ env_status'[t] = "RUNNABLE"
        /\ \A f \in Env : f # t => env_status'[f] = env_status[f]
    BY <1>1, <1>2 DEF TypeOK
  <1>5. HasDirectory' /\ ReceiverWaits' /\ OthersRun(c)
    BY <1>1, <1>4 DEF PmapInv, HasDirectory, ReceiverWaits, Recving, OthersRun
  <1>6. env_status'[e] = "RUNNING"
    BY <1>1, <1>2, <1>4
  <1>7. PmapInv'
    BY <1>1, <1>3, <1>4, <1>5, <1>6, ReturnKeeps
  <1> QED BY <1>3, <1>7 DEF Kept

-----------------------------------------------------------------------------
(* The end of an environment.                                              *)

\* env_free begins: PmapInv stays.
LEMMA StartFreeKeeps ==
    ASSUME PmapInv, NEW c \in Cpu, Holds(c), pc[c] = "user", NEW t \in Env,
           env_status[t] # "FREE",
           t = curenv[c] \/ /\ env_status[curenv[c]] = "RUNNING"
                            /\ env_status[t] \notin {"RUNNING", "DYING"},
           StartFree(c, t)
    PROVE  Kept
  <1>1. TypeOK /\ CpuAt(c) /\ Cr3Used
    BY DEF PmapInv, CpusAt
  <1>2. curenv[c] \in Env /\ cr3[c] = curenv[c]
    BY <1>1 DEF CpuAt
  <1>3. /\ m' = m /\ env_status' = env_status /\ env_parent_id' = env_parent_id
        /\ env_ipc_dstva' = env_ipc_dstva /\ curenv' = curenv /\ victim' = t
        /\ pc' = [pc EXCEPT ![c] = "free"]
        /\ IF t = curenv[c] THEN LoadCr3(c, KernDir) ELSE UNCHANGED <<cr3, tlb>>
    BY DEF StartFree, envVars
  <1>4. MemInv(m)' /\ LosesLast(m, m')
    BY <1>3, MemorySame
  <1>5. HasDirectory' /\ ReceiverWaits' /\ OthersRun(c)
    BY <1>3, EnvsSame
  <1>6. /\ cr3' \in [Cpu -> Env \cup {KernDir}] /\ tlb' \in [Cpu -> [Va -> PTE]]
        /\ cr3'[c] = IF t = curenv[c] THEN KernDir ELSE cr3[c]
        /\ \A d \in Cpu : d # c => cr3'[d] = cr3[d]
    <2>1. CASE t = curenv[c]
      BY <1>1, <1>3, <2>1, LoadCr3Effect
    <2>2. CASE t # curenv[c]
      BY <1>1, <1>3, <2>2 DEF TypeOK
    <2> QED BY <2>1, <2>2
  <1>7. /\ pc' \in [Cpu -> LockedPCs \cup {"user", "halt"}] /\ pc'[c] = "free"
        /\ \A d \in Cpu : d # c => pc'[d] = pc[d]
    BY <1>1, <1>3 DEF TypeOK, LockedPCs
  <1>8. TypeOK'
    BY <1>1, <1>3, <1>6, <1>7 DEF TypeOK
  <1>9. CpuAt(c)'
    BY <1>2, <1>3, <1>6, <1>7 DEF CpuAt
  <1>10. OnlyOn(c) /\ ComesFrom(c)
    BY <1>3, <1>6, <1>7 DEF OnlyOn, ComesFrom
  <1>11. cr3'[c] \in Env => env_status'[cr3'[c]] # "FREE"
    BY <1>1, <1>3, <1>6, CpuAssumption DEF Cr3Used
  <1>12. OneLocked' /\ CpusAt' /\ OneCpu' /\ Cr3Used'
    BY <1>5, <1>9, <1>10, <1>11, CpuStep
  <1> QED BY <1>4, <1>5, <1>8, <1>12 DEF PmapInv, Kept

\* env_destroy keeps PmapInv, whether the target runs elsewhere or not.
LEMMA EnvDestroyKeeps ==
    ASSUME PmapInv, NEW c \in Cpu, NEW e \in Env, NEW t \in Env, Calls(c, e),
           env_status[t] \notin {"FREE", "DYING"}, EnvDestroy(c, e, t)
    PROVE  Kept
  <1>1. /\ TypeOK /\ Holds(c) /\ pc[c] = "user" /\ curenv[c] = e /\ env_status[e] = "RUNNING"
    BY CallAt
  <1>2. CASE env_status[t] = "RUNNING" /\ t # e
    <2>1. /\ Return(c) /\ env_status' = [env_status EXCEPT ![t] = "DYING"]
          /\ UNCHANGED <<env_parent_id, curenv, cr3, victim>>
          /\ m' = m /\ tlb' = tlb /\ env_ipc_dstva' = env_ipc_dstva
      BY <1>2 DEF EnvDestroy, cpuVars
    <2>2. MemInv(m)' /\ LosesLast(m, m')
      BY <2>1, MemorySame
    <2>3. /\ env_status' \in [Env -> {"FREE", "DYING", "RUNNABLE", "RUNNING",
                                      "NOT_RUNNABLE"}]
          /\ env_ipc_dstva' \in [Env -> Va \cup {NotRecving}]
          /\ tlb' \in [Cpu -> [Va -> PTE]]
          /\ env_status'[t] = "DYING"
          /\ \A f \in Env : f # t => env_status'[f] = env_status[f]
      BY <1>1, <2>1 DEF TypeOK
    <2>4. HasDirectory' /\ OthersRun(c)
      BY <1>2, <2>1, <2>3 DEF PmapInv, HasDirectory, OthersRun
    <2>5. ReceiverWaits'
      BY <1>2, <2>1, <2>3 DEF PmapInv, ReceiverWaits, Recving
    <2>6. env_status'[e] = "RUNNING"
      BY <1>1, <1>2, <2>3
    <2>7. PmapInv'
      BY <2>1, <2>2, <2>3, <2>4, <2>5, <2>6, ReturnKeeps
    <2> QED BY <2>2, <2>7 DEF Kept
  <1>3. CASE ~(env_status[t] = "RUNNING" /\ t # e)
    <2>1. StartFree(c, t)
      BY <1>3 DEF EnvDestroy
    <2> QED BY <1>1, <1>3, <2>1, StartFreeKeeps
  <1> QED BY <1>2, <1>3

\* sys_env_destroy keeps PmapInv.
LEMMA SysEnvDestroyKeeps ==
    ASSUME PmapInv, NEW c \in Cpu, NEW e \in Env, NEW t \in Env, SysEnvDestroy(c, e, t)
    PROVE  Kept
  BY EnvDestroyKeeps DEF SysEnvDestroy

\* user_mem_assert, which destroys the caller of a bad address, keeps PmapInv.
LEMMA UserMemAssertKeeps ==
    ASSUME PmapInv, NEW c \in Cpu, NEW e \in Env, NEW t \in Env, NEW va, NEW perm,
           UserMemAssert(c, e, t, va, perm)
    PROVE  Kept
  <1>1. Calls(c, e) /\ env_status[t] \notin {"FREE", "DYING"}
    BY DEF UserMemAssert
  <1>2. CASE EnvDestroy(c, e, t)
    BY <1>1, <1>2, EnvDestroyKeeps
  <1>3. CASE Return(c) /\ UNCHANGED <<m, envVars, env_ipc_dstva, cpuVars, victim>>
    <2>1. /\ Return(c) /\ UNCHANGED <<env_status, env_ipc_dstva>>
          /\ UNCHANGED <<env_parent_id, curenv, cr3, victim>>
          /\ m' = m /\ tlb' = tlb
      BY <1>3 DEF cpuVars, envVars
    <2>2. TypeOK /\ env_status[e] = "RUNNING"
      BY <1>1, CallAt
    <2>3. MemInv(m)' /\ LosesLast(m, m')
      BY <2>1, MemorySame
    <2>4. /\ HasDirectory' /\ ReceiverWaits' /\ OthersRun(c)
          /\ env_status' \in [Env -> {"FREE", "DYING", "RUNNABLE", "RUNNING",
                                      "NOT_RUNNABLE"}]
          /\ env_ipc_dstva' \in [Env -> Va \cup {NotRecving}]
      BY <2>1, EnvsSame
    <2>5. tlb' \in [Cpu -> [Va -> PTE]] /\ env_status'[e] = "RUNNING"
      BY <2>1, <2>2 DEF TypeOK
    <2>6. PmapInv'
      BY <1>1, <2>1, <2>3, <2>4, <2>5, ReturnKeeps
    <2> QED BY <2>3, <2>6 DEF Kept
  <1> QED BY <1>2, <1>3 DEF UserMemAssert

\* A trap of an environment that another CPU marked dying keeps PmapInv.
LEMMA TrapDyingKeeps ==
    ASSUME PmapInv, NEW c \in Cpu, TrapDying(c) PROVE Kept
  <1>1. /\ Holds(c) /\ pc[c] = "user" /\ env_status[curenv[c]] = "DYING"
        /\ StartFree(c, curenv[c])
    BY DEF TrapDying, Holds
  <1>2. curenv[c] \in Env
    BY <1>1 DEF PmapInv, CpusAt, CpuAt
  <1> QED BY <1>1, <1>2, StartFreeKeeps

\* Where env_free is.
LEMMA FreeAt ==
    ASSUME PmapInv, NEW c \in Cpu, pc[c] = "free"
    PROVE  /\ TypeOK /\ Holds(c) /\ MemInv(m) /\ CpuAt(c)
           /\ curenv[c] \in Env /\ victim \in Env /\ env_status[victim] # "FREE"
           /\ m.env_pgdir[victim] # NoPage
  BY DEF PmapInv, CpusAt, CpuAt, Holds, LockedPCs, HasDirectory

\* An iteration of env_free.
LEMMA LoopKeeps ==
    ASSUME PmapInv, NEW c \in Cpu, pc[c] = "free",
           MemInv(m)', m'.env_pgdir = m.env_pgdir, tlb' \in [Cpu -> [Va -> PTE]],
           UNCHANGED <<env_status, env_ipc_dstva>>,
           UNCHANGED <<env_parent_id, curenv, cr3, pc, victim>>
    PROVE  PmapInv'
  <1>1. TypeOK /\ Holds(c) /\ CpuAt(c) /\ Cr3Used
    BY FreeAt DEF PmapInv
  <1>2. /\ HasDirectory' /\ ReceiverWaits' /\ OthersRun(c)
        /\ env_status' \in [Env -> {"FREE", "DYING", "RUNNABLE", "RUNNING", "NOT_RUNNABLE"}]
        /\ env_ipc_dstva' \in [Env -> Va \cup {NotRecving}]
    BY EnvsSame
  <1>3. MovesOn(c, "free") /\ "free" \in LockedPCs \cup {"user", "halt"}
    <2>1. pc = [pc EXCEPT ![c] = "free"]
      BY <1>1 DEF TypeOK
    <2> QED BY <2>1 DEF MovesOn, LockedPCs
  <1>4. CpuAt(c)'
    BY <1>1 DEF CpuAt
  <1>5. cr3[c] \in Env => env_status'[cr3[c]] # "FREE"
    BY <1>1 DEF Cr3Used
  <1> QED BY <1>1, <1>2, <1>3, <1>4, <1>5, MoveKeeps

\* env_free removes a page: PmapInv stays.
LEMMA FreePteKeeps ==
    ASSUME PmapInv, NEW c \in Cpu, NEW va \in Va, FreePte(c, va) PROVE Kept
  <1>1. /\ pc[c] = "free" /\ m' = page_remove(m, victim, va)
        /\ TlbInvalidate(c, victim, va)
        /\ UNCHANGED <<env_status, env_ipc_dstva>>
        /\ UNCHANGED <<env_parent_id, curenv, cr3, pc, victim>>
    BY DEF FreePte, envVars
  <1>2. TypeOK /\ MemInv(m) /\ victim \in Env
    BY <1>1, FreeAt
  <1>3. MemInv(m') /\ m'.env_pgdir = m.env_pgdir /\ Lost(m') = Lost(m)
    BY <1>1, <1>2, RemoveKeeps
  <1>4. tlb' \in [Cpu -> [Va -> PTE]]
    BY <1>1, <1>2, TlbInvalidateType
  <1>5. PmapInv'
    BY <1>1, <1>3, <1>4, LoopKeeps
  <1> QED BY <1>3, <1>5 DEF Kept, LosesLast

\* env_free drops a page table: PmapInv stays.
LEMMA FreeTableStepKeeps ==
    ASSUME PmapInv, NEW c \in Cpu, NEW x \in Pdx, FreeTable(c, x) PROVE Kept
  <1>1. /\ pc[c] = "free" /\ m' = free_table(m, victim, x) /\ m.pde[victim][x] # NoPage
        /\ \A va \in Va : PDX[va] = x => ~Mapped(m, victim, va)
        /\ UNCHANGED <<env_status, env_ipc_dstva>>
        /\ UNCHANGED <<env_parent_id, curenv, cr3, pc, victim>> /\ tlb' = tlb
    BY DEF FreeTable, envVars, cpuVars
  <1>2. TypeOK /\ MemInv(m) /\ victim \in Env
    BY <1>1, FreeAt
  <1>3. MemInv(m') /\ m'.env_pgdir = m.env_pgdir /\ Lost(m') = Lost(m)
    BY <1>1, <1>2, FreeTableKeeps
  <1>4. tlb' \in [Cpu -> [Va -> PTE]]
    BY <1>1, <1>2 DEF TypeOK
  <1>5. PmapInv'
    BY <1>1, <1>3, <1>4, LoopKeeps
  <1> QED BY <1>3, <1>5 DEF Kept, LosesLast

\* env_free drops the directory: PmapInv stays.
LEMMA FreeDirKeeps ==
    ASSUME PmapInv, NEW c \in Cpu, FreeDir(c) PROVE Kept
  <1> DEFINE v == victim
  <1>1. /\ pc[c] = "free" /\ m' = free_pgdir(m, v)
        /\ \A x \in Pdx : m.pde[v][x] = NoPage
        /\ env_status' = [env_status EXCEPT ![v] = "FREE"]
        /\ env_parent_id' = [t \in Env |-> IF env_parent_id[t] = v
                                           THEN NoEnv ELSE env_parent_id[t]]
        /\ IF v = curenv[c]
           THEN /\ curenv' = [curenv EXCEPT ![c] = NoEnv]
                /\ pc' = [pc EXCEPT ![c] = "sched"]
           ELSE pc' = [pc EXCEPT ![c] = "ret"] /\ curenv' = curenv
        /\ victim' = NoEnv /\ env_ipc_dstva' = env_ipc_dstva /\ cr3' = cr3 /\ tlb' = tlb
    BY DEF FreeDir, Return
  <1>2. /\ TypeOK /\ Holds(c) /\ MemInv(m) /\ CpuAt(c)
        /\ curenv[c] \in Env /\ v \in Env /\ env_status[v] # "FREE"
        /\ m.env_pgdir[v] # NoPage
    BY <1>1, FreeAt
  <1> HIDE DEF v
  <1>3. /\ MemInv(m')
        /\ m'.env_pgdir = [m.env_pgdir EXCEPT ![v] = NoPage]
        /\ m'.pte = m.pte /\ Lost(m') = Lost(m)
    BY <1>1, <1>2, FreePgdirKeeps
  <1>4. /\ env_status' \in [Env -> {"FREE", "DYING", "RUNNABLE", "RUNNING", "NOT_RUNNABLE"}]
        /\ env_status'[v] = "FREE"
        /\ \A f \in Env : f # v => env_status'[f] = env_status[f]
        /\ env_parent_id' \in [Env -> Env \cup {NoEnv}]
    BY <1>1, <1>2 DEF TypeOK
  <1>5. HasDirectory'
    <2>1. m.env_pgdir \in [Env -> Page \cup {NoPage}]
      BY <1>2, Fields DEF MemInv
    <2> QED BY <1>3, <1>4, <2>1 DEF PmapInv, HasDirectory
  <1>6. ReceiverWaits'
    BY <1>1, <1>4 DEF PmapInv, ReceiverWaits, Recving
  <1>7. /\ curenv' \in [Cpu -> Env \cup {NoEnv}]
        /\ curenv'[c] = IF v = curenv[c] THEN NoEnv ELSE curenv[c]
        /\ \A d \in Cpu : d # c => curenv'[d] = curenv[d]
        /\ pc' \in [Cpu -> LockedPCs \cup {"user", "halt"}]
        /\ pc'[c] = IF v = curenv[c] THEN "sched" ELSE "ret"
        /\ \A d \in Cpu : d # c => pc'[d] = pc[d]
    BY <1>1, <1>2 DEF TypeOK, LockedPCs
  <1>8. TypeOK'
    BY <1>1, <1>2, <1>3, <1>4, <1>7 DEF TypeOK, MemInv
  <1>9. IF v = curenv[c] THEN cr3[c] = KernDir
        ELSE /\ cr3[c] = curenv[c] /\ env_status[curenv[c]] = "RUNNING"
             /\ env_status[v] \notin {"RUNNING", "DYING"}
    BY <1>1, <1>2 DEF CpuAt, v
  <1>10. CpuAt(c)'
    BY <1>1, <1>2, <1>4, <1>7, <1>9, CpuAssumption DEF CpuAt
  <1>11. OnlyOn(c) /\ ComesFrom(c)
    BY <1>1, <1>7, CpuAssumption DEF OnlyOn, ComesFrom
  <1>12. OthersRun(c)
    BY <1>4, <1>9 DEF OthersRun
  <1>13. cr3'[c] \in Env => env_status'[cr3'[c]] # "FREE"
    BY <1>1, <1>4, <1>9, CpuAssumption
  <1>14. OneLocked' /\ CpusAt' /\ OneCpu' /\ Cr3Used'
    BY <1>2, <1>10, <1>11, <1>12, <1>13, CpuStep
  <1> QED BY <1>3, <1>5, <1>6, <1>8, <1>14 DEF PmapInv, Kept, LosesLast

-----------------------------------------------------------------------------
(* Boot.                                                                   *)

\* env_create keeps PmapInv.
LEMMA EnvCreateKeeps ==
    ASSUME PmapInv, NEW c \in Cpu, NEW e \in Env, EnvCreate(c, e) PROVE Kept
  <1>1. /\ pc[c] = "boot" /\ EnvAlloc(e, NoEnv, "RUNNABLE") /\ LoadCr3(c, e)
        /\ victim' = e /\ pc' = [pc EXCEPT ![c] = "load"] /\ curenv' = curenv
    BY DEF EnvCreate
  <1>2. TypeOK /\ Holds(c) /\ curenv[c] = NoEnv
    BY <1>1 DEF PmapInv, CpusAt, CpuAt, Holds, LockedPCs
  <1>3. /\ MemInv(m)' /\ LosesLast(m, m') /\ HasDirectory' /\ ReceiverWaits'
        /\ OthersRun(c)
        /\ env_status' \in [Env -> {"FREE", "DYING", "RUNNABLE", "RUNNING", "NOT_RUNNABLE"}]
        /\ env_parent_id' \in [Env -> Env \cup {NoEnv}]
        /\ env_ipc_dstva' \in [Env -> Va \cup {NotRecving}]
        /\ env_status'[e] = "RUNNABLE"
    BY <1>1, EnvAllocKeeps
  <1>4. /\ cr3' \in [Cpu -> Env \cup {KernDir}] /\ tlb' \in [Cpu -> [Va -> PTE]]
        /\ cr3'[c] = e /\ \A d \in Cpu : d # c => cr3'[d] = cr3[d]
    BY <1>1, <1>2, LoadCr3Effect
  <1>5. /\ pc' \in [Cpu -> LockedPCs \cup {"user", "halt"}] /\ pc'[c] = "load"
        /\ \A d \in Cpu : d # c => pc'[d] = pc[d]
    BY <1>1, <1>2 DEF TypeOK, LockedPCs
  <1>6. TypeOK'
    BY <1>1, <1>2, <1>3, <1>4, <1>5 DEF TypeOK, MemInv
  <1>7. CpuAt(c)' /\ OnlyOn(c) /\ ComesFrom(c)
    BY <1>1, <1>2, <1>3, <1>4, <1>5 DEF CpuAt, OnlyOn, ComesFrom
  <1>8. cr3'[c] \in Env => env_status'[cr3'[c]] # "FREE"
    BY <1>3, <1>4
  <1>9. OneLocked' /\ CpusAt' /\ OneCpu' /\ Cr3Used'
    BY <1>2, <1>3, <1>7, <1>8, CpuStep
  <1> QED BY <1>3, <1>6, <1>9 DEF PmapInv, Kept

\* Where load_icode is.
LEMMA LoadAt ==
    ASSUME PmapInv, NEW c \in Cpu, pc[c] = "load"
    PROVE  /\ TypeOK /\ Holds(c) /\ MemInv(m) /\ curenv[c] = NoEnv /\ cr3[c] = victim
           /\ victim \in Env /\ env_status[victim] = "RUNNABLE"
           /\ m.env_pgdir[victim] # NoPage
  BY DEF PmapInv, CpusAt, CpuAt, Holds, LockedPCs, HasDirectory

\* region_alloc keeps PmapInv.
LEMMA RegionAllocKeeps ==
    ASSUME PmapInv, NEW c \in Cpu, NEW va \in LoadVas, RegionAlloc(c, va) PROVE Kept
  <1> DEFINE r == env_page_alloc(m, victim, va, {"W"})
  <1>1. /\ pc[c] = "load" /\ m' = r.mem
        /\ UNCHANGED pc \/ Panic(c)
        /\ UNCHANGED <<env_status, env_ipc_dstva>>
        /\ UNCHANGED <<env_parent_id, curenv, cr3, victim>> /\ tlb' = tlb
    BY DEF RegionAlloc, envVars, cpuVars
  <1>2. /\ TypeOK /\ Holds(c) /\ MemInv(m) /\ curenv[c] = NoEnv /\ cr3[c] = victim
        /\ victim \in Env /\ env_status[victim] = "RUNNABLE" /\ m.env_pgdir[victim] # NoPage
    BY <1>1, LoadAt
  <1>3. va \in Va /\ {"W"} \in SUBSET Flag
    BY CpuAssumption DEF Flag
  <1>4. MemInv(r.mem) /\ r.mem.env_pgdir = m.env_pgdir /\ LosesLast(m, r.mem)
    BY <1>2, <1>3, PageAllocKeeps
  <1> HIDE DEF r
  <1>5. MemInv(m)' /\ m'.env_pgdir = m.env_pgdir /\ LosesLast(m, m')
    BY <1>1, <1>4
  <1>6. /\ HasDirectory' /\ ReceiverWaits' /\ OthersRun(c)
        /\ env_status' \in [Env -> {"FREE", "DYING", "RUNNABLE", "RUNNING", "NOT_RUNNABLE"}]
        /\ env_ipc_dstva' \in [Env -> Va \cup {NotRecving}]
    BY <1>1, <1>5, EnvsSame
  <1>7. cr3[c] \in Env => env_status'[cr3[c]] # "FREE"
    BY <1>1, <1>2
  <1>8. PICK to \in {"load", "panic"} : pc' = [pc EXCEPT ![c] = to]
    <2>1. pc = [pc EXCEPT ![c] = "load"]
      BY <1>1, <1>2 DEF TypeOK
    <2> QED BY <1>1, <2>1 DEF RegionAlloc, Panic
  <1>9. MovesOn(c, to) /\ to \in LockedPCs \cup {"user", "halt"} /\ pc'[c] = to
    BY <1>1, <1>2, <1>8 DEF MovesOn, TypeOK, LockedPCs
  <1>10. CpuAt(c)'
    BY <1>1, <1>2, <1>9 DEF CpuAt
  <1>11. PmapInv'
    BY <1>2, <1>5, <1>6, <1>7, <1>9, <1>10, MoveKeeps
  <1> QED BY <1>5, <1>11 DEF Kept

\* load_icode ends: PmapInv stays.
LEMMA LoadDoneKeeps ==
    ASSUME PmapInv, NEW c \in Cpu, LoadDone(c) PROVE Kept
  <1>1. /\ pc[c] = "load" /\ LoadCr3(c, KernDir) /\ victim' = NoEnv
        /\ pc' = [pc EXCEPT ![c] = "sched"]
        /\ m' = m /\ env_status' = env_status /\ env_parent_id' = env_parent_id
        /\ env_ipc_dstva' = env_ipc_dstva /\ curenv' = curenv
    BY DEF LoadDone, envVars
  <1>2. TypeOK /\ Holds(c) /\ curenv[c] = NoEnv
    BY <1>1, LoadAt
  <1>3. MemInv(m)' /\ LosesLast(m, m')
    BY <1>1, MemorySame
  <1>4. HasDirectory' /\ ReceiverWaits' /\ OthersRun(c)
    BY <1>1, EnvsSame
  <1>5. /\ cr3' \in [Cpu -> Env \cup {KernDir}] /\ tlb' \in [Cpu -> [Va -> PTE]]
        /\ cr3'[c] = KernDir /\ \A d \in Cpu : d # c => cr3'[d] = cr3[d]
    BY <1>1, <1>2, LoadCr3Effect
  <1>6. /\ pc' \in [Cpu -> LockedPCs \cup {"user", "halt"}] /\ pc'[c] = "sched"
        /\ \A d \in Cpu : d # c => pc'[d] = pc[d]
    BY <1>1, <1>2 DEF TypeOK, LockedPCs
  <1>7. TypeOK'
    BY <1>1, <1>2, <1>5, <1>6 DEF TypeOK
  <1>8. CpuAt(c)' /\ OnlyOn(c) /\ ComesFrom(c)
    BY <1>1, <1>2, <1>5, <1>6, CpuAssumption DEF CpuAt, OnlyOn, ComesFrom
  <1>9. cr3'[c] \in Env => env_status'[cr3'[c]] # "FREE"
    BY <1>5, CpuAssumption
  <1>10. OneLocked' /\ CpusAt' /\ OneCpu' /\ Cr3Used'
    BY <1>2, <1>4, <1>8, <1>9, CpuStep
  <1> QED BY <1>3, <1>4, <1>7, <1>10 DEF PmapInv, Kept

-----------------------------------------------------------------------------

\* Every step keeps PmapInv while no page is shared MaxRef times.
LEMMA NextKeeps ==
    ASSUME PmapInv, FewSharers, Next PROVE Kept
  <1>1. PICK c \in Cpu : \/ Boot(c) \/ Sched(c) \/ Free(c)
                         \/ \E va \in Va : TlbFill(c, va)
                         \/ \E e \in Env : PageCall(c, e) \/ IpcCall(c, e) \/ EnvCall(c, e)
    BY DEF Next
  <1>2. CASE Boot(c)
    BY <1>2, EnvCreateKeeps, RegionAllocKeeps, LoadDoneKeeps DEF Boot
  <1>3. CASE Sched(c)
    BY <1>3, SchedYieldKeeps, SchedHaltKeeps, TimerKeeps, RetKeeps DEF Sched
  <1>4. CASE \E va \in Va : TlbFill(c, va)
    BY <1>4, TlbFillKeeps
  <1>5. CASE \E e \in Env : PageCall(c, e)
    BY <1>5, SysPageAllocKeeps, SysPageMapKeeps, SysPageUnmapKeeps DEF PageCall
  <1>6. CASE \E e \in Env : IpcCall(c, e)
    BY <1>6, SysIpcRecvKeeps, SysIpcSendValueKeeps, SysIpcSendPageKeeps,
       SysIpcSendUnmappedKeeps DEF IpcCall
  <1>7. CASE \E e \in Env : EnvCall(c, e)
    BY <1>7, SysExoforkKeeps, SysEnvSetStatusKeeps, SysEnvDestroyKeeps,
       UserMemAssertKeeps DEF EnvCall
  <1>8. CASE Free(c)
    BY <1>8, FreePteKeeps, FreeTableStepKeeps, FreeDirKeeps, TrapDyingKeeps DEF Free
  <1> QED BY <1>1, <1>2, <1>3, <1>4, <1>5, <1>6, <1>7, <1>8

\* A step of the rest of the system keeps PmapInv.
LEMMA StutterKeeps ==
    ASSUME PmapInv, UNCHANGED vars PROVE Kept
  <1>1. /\ m' = m /\ env_status' = env_status /\ env_parent_id' = env_parent_id
        /\ env_ipc_dstva' = env_ipc_dstva /\ curenv' = curenv /\ cr3' = cr3
        /\ tlb' = tlb /\ pc' = pc /\ victim' = victim
    BY DEF vars, envVars, cpuVars
  <1>2. TypeOK' /\ OneLocked' /\ HasDirectory' /\ ReceiverWaits' /\ OneCpu' /\ Cr3Used'
    BY <1>1 DEF PmapInv, TypeOK, OneLocked, HasDirectory, ReceiverWaits, Recving, OneCpu,
                Cr3Used
  <1>3. CpusAt'
    BY <1>1 DEF PmapInv, CpusAt, CpuAt
  <1>4. MemInv(m)' /\ LosesLast(m, m')
    BY <1>1, MemorySame
  <1> QED BY <1>2, <1>3, <1>4 DEF PmapInv, Kept

\* As long as no page is mapped more often than pp_ref can count, the invariant
\* holds, whatever programs do.
THEOREM PmapSafe == Spec /\ []FewSharers => []PmapInv
  <1>1. Init => PmapInv
    BY InitInv
  <1>2. PmapInv /\ FewSharers /\ [Next]_vars => PmapInv'
    BY NextKeeps, StutterKeeps DEF Kept
  <1> QED BY <1>1, <1>2, PTL DEF Spec

\* A step of the kernel loses a page only when it takes the last free one.
THEOREM OnlyLastPageLost == Spec /\ []FewSharers => LostOnlyWhenFull
  <1>1. PmapInv /\ FewSharers /\ [Next]_vars =>
           [Lost(m') # Lost(m) => /\ m'.page_free_list = {} /\ m.page_free_list # {}]_vars
    BY NextKeeps, StutterKeeps DEF Kept, LosesLast
  <1> QED BY <1>1, PmapSafe, PTL DEF Spec, LostOnlyWhenFull

-----------------------------------------------------------------------------
(* What the invariant says about pages.                                    *)

\* pp_ref counts the references to a page, and no page is freed twice.
THEOREM CountsExact == Spec /\ []FewSharers => []RefsExact
  <1>1. PmapInv => RefsExact
    BY DEF PmapInv, MemInv, Exact, Refs, RefsExact
  <1> QED BY <1>1, PmapSafe, PTL

\* At most one element.
LEMMA AtMostOne ==
    ASSUME NEW S, \A a, b \in S : a = b
    PROVE  S = {} \/ Cardinality(S) = 1
  <1> SUFFICES ASSUME NEW a \in S PROVE Cardinality(S) = 1
    OBVIOUS
  <1>1. S = {a}
    OBVIOUS
  <1> QED BY <1>1, FS_Singleton

\* A page is one table or one directory at most, and then no environment maps it.
LEMMA PrivateIs ==
    ASSUME MemInv(m), NEW p \in Page
    PROVE  /\ Cardinality(PdeRefs(m, p)) + Cardinality(DirRefs(m, p)) <= 1
           /\ PteRefs(m, p) # {} => PdeRefs(m, p) = {} /\ DirRefs(m, p) = {}
  <1>0. OneOwner(m) /\ p # NoPage
    BY NoPageIsNone DEF MemInv
  <1>1. \A a, b \in PdeRefs(m, p) : a = b
    <2> SUFFICES ASSUME NEW a \in PdeRefs(m, p), NEW b \in PdeRefs(m, p) PROVE a = b
      OBVIOUS
    <2>1. /\ a \in Env \X Pdx /\ b \in Env \X Pdx
          /\ m.pde[a[1]][a[2]] = p /\ m.pde[b[1]][b[2]] = p
      BY DEF PdeRefs
    <2>2. a[1] = b[1] /\ a[2] = b[2]
      BY <1>0, <2>1 DEF OneOwner
    <2> QED BY <2>1, <2>2
  <1>2. \A a, b \in DirRefs(m, p) : a = b
    BY <1>0 DEF DirRefs, OneOwner
  <1>3. PdeRefs(m, p) = {} \/ DirRefs(m, p) = {}
    <2> SUFFICES ASSUME NEW a \in PdeRefs(m, p), NEW b \in DirRefs(m, p) PROVE FALSE
      OBVIOUS
    <2>1. a \in Env \X Pdx /\ m.pde[a[1]][a[2]] = p /\ b \in Env /\ m.env_pgdir[b] = p
      BY DEF PdeRefs, DirRefs
    <2> QED BY <1>0, <2>1 DEF OneOwner
  <1>4. Cardinality({}) = 0
    BY FS_EmptySet
  <1>5. Cardinality(PdeRefs(m, p)) \in {0, 1} /\ Cardinality(DirRefs(m, p)) \in {0, 1}
    BY <1>1, <1>2, <1>4, AtMostOne
  <1>6. Cardinality(PdeRefs(m, p)) + Cardinality(DirRefs(m, p)) <= 1
    BY <1>3, <1>4, <1>5
  <1>7. ASSUME PteRefs(m, p) # {} PROVE PdeRefs(m, p) = {} /\ DirRefs(m, p) = {}
    <2>1. PICK a \in PteRefs(m, p) : TRUE
      BY <1>7
    <2>2. a \in Env \X Va /\ m.pte[a[1]][a[2]].page = p
      BY <2>1 DEF PteRefs
    <2>3. NotTable(m, p)
      BY <1>0, <2>2 DEF OneOwner, Mapped
    <2> QED BY <2>3 DEF NotTable, PdeRefs, DirRefs
  <1> QED BY <1>6, <1>7

\* A page on the free list has no user, and a table or directory has one.
THEOREM PagesHaveOneUse == Spec /\ []FewSharers => []OneUse
  <1>1. PmapInv => OneUse
    <2> SUFFICES ASSUME PmapInv PROVE OneUse
      OBVIOUS
    <2>1. MemInv(m)
      BY DEF PmapInv
    <2>2. FreeListUnused
      <3> SUFFICES ASSUME NEW p \in m.page_free_list
                   PROVE  PteRefs(m, p) = {} /\ PdeRefs(m, p) = {} /\ DirRefs(m, p) = {}
        BY DEF FreeListUnused
      <3>1. Refs(m, p) = 0
        BY <2>1, ZeroRefs DEF MemInv, FreeUnused
      <3>2. /\ Cardinality(PteRefs(m, p)) = 0 /\ Cardinality(PdeRefs(m, p)) = 0
            /\ Cardinality(DirRefs(m, p)) = 0
        BY <3>1, RefsType DEF Refs
      <3> QED BY <3>2, RefsType, FS_EmptySet
    <2>3. TablesPrivate
      BY <2>1, PrivateIs DEF TablesPrivate
    <2> QED BY <2>2, <2>3 DEF OneUse
  <1> QED BY <1>1, PmapSafe, PTL

-----------------------------------------------------------------------------
(* The TLBs.                                                               *)

\* No TLB keeps more than it had, and none an entry of e at va.
Flushed(e, va) ==
    \A c \in Cpu : /\ \A v \in Va : tlb'[c][v] \in {Zero, tlb[c][v]}
                   /\ cr3[c] = e => tlb'[c][va] = Zero

\* Tables may change where no TLB remembers them.
LEMMA TlbEntry ==
    ASSUME TypeOK, TlbCoherent, NEW e \in Env, NEW va \in Va, OneEntry(m', e, va),
           Flushed(e, va), cr3' = cr3
    PROVE  TlbCoherent'
  <1> SUFFICES ASSUME NEW c \in Cpu, NEW v \in Va, tlb'[c][v] # Zero
               PROVE  cr3'[c] \in Env /\ tlb'[c][v] = m'.pte[cr3'[c]][v]
    BY DEF TlbCoherent
  <1>1. tlb'[c][v] = tlb[c][v] /\ (cr3[c] = e => v # va)
    BY DEF Flushed
  <1>2. cr3[c] \in Env /\ tlb[c][v] = m.pte[cr3[c]][v]
    BY <1>1 DEF TlbCoherent
  <1>3. CASE m'.pte = m.pte
    BY <1>1, <1>2, <1>3
  <1>4. CASE \E z \in PTE : m'.pte = Entered(m.pte, e, va, z)
    <2>1. PtesDiffer(m, m', e, va)
      BY <1>4, EnteredIs DEF TypeOK
    <2>2. m'.pte[cr3[c]][v] = m.pte[cr3[c]][v]
      BY <1>1, <1>2, <2>1 DEF PtesDiffer
    <2> QED BY <1>1, <1>2, <2>2
  <1> QED BY <1>3, <1>4 DEF OneEntry

\* The tables stay, and CPUs start with an empty TLB or keep what they have.
LEMMA TlbLoad ==
    ASSUME TypeOK, TlbCoherent, m'.pte = m.pte, NEW c \in Cpu, NEW dir, LoadCr3(c, dir)
    PROVE  TlbCoherent'
  <1> SUFFICES ASSUME NEW d \in Cpu, NEW v \in Va, tlb'[d][v] # Zero
               PROVE  cr3'[d] \in Env /\ tlb'[d][v] = m'.pte[cr3'[d]][v]
    BY DEF TlbCoherent
  <1>1. d # c /\ tlb'[d] = tlb[d] /\ cr3'[d] = cr3[d]
    BY DEF LoadCr3, TypeOK, NoTlb
  <1> QED BY <1>1 DEF TlbCoherent

\* TLBs and tables that stay agree.
LEMMA TlbSame ==
    ASSUME TlbCoherent, m'.pte = m.pte, tlb' = tlb, cr3' = cr3
    PROVE  TlbCoherent'
  BY DEF TlbCoherent

\* What no CPU has loaded is in no TLB.
LEMMA NotLoaded ==
    ASSUME NEW e \in Env, NEW va \in Va, tlb' = tlb, \A c \in Cpu : cr3[c] # e
    PROVE  Flushed(e, va)
  BY DEF Flushed

\* An environment that does not run is loaded on no CPU but perhaps the one that
\* holds the lock.
LEMMA NotElsewhere ==
    ASSUME PmapInv, NEW c \in Cpu, Holds(c), NEW e \in Env,
           e = curenv[c] \/ env_status[e] \notin {"RUNNING", "DYING"},
           NEW d \in Cpu, d # c
    PROVE  cr3[d] # e
  BY OthersAt, CpuAssumption

\* A page system call of c for itself, or for a child that does not run.
LEMMA CallFlushes ==
    ASSUME PmapInv, TlbCoherent, Misuse = {}, NEW c \in Cpu, NEW e \in Env, Calls(c, e),
           NEW t \in Env, Reaches(e, t), NEW va \in Va, TlbInvalidate(c, t, va)
    PROVE  Flushed(t, va)
  <1>1. TypeOK /\ MemInv(m) /\ Holds(c) /\ curenv[c] = e /\ cr3[c] = e
    BY CallAt
  <1>2. t = e \/ env_status[t] \notin {"RUNNING", "DYING"}
    BY DEF Reaches
  <1>3. \A d \in Cpu : d # c => cr3[d] # t
    BY <1>1, <1>2, NotElsewhere
  <1>4. CASE t = e /\ Mapped(m, t, va)
    <2>1. tlb' = [tlb EXCEPT ![c][va] = Zero]
      BY <1>1, <1>4 DEF TlbInvalidate
    <2> QED BY <1>1, <1>3, <2>1 DEF Flushed, TypeOK
  <1>5. CASE t = e /\ ~Mapped(m, t, va)
    <2>1. m.pte[t][va] = Zero
      BY <1>1, <1>5 DEF MemInv, Nested
    <2>2. tlb' = tlb /\ tlb[c][va] = Zero
      BY <1>1, <1>5, <2>1 DEF TlbInvalidate, TlbCoherent
    <2> QED BY <1>3, <2>2 DEF Flushed
  <1>6. CASE t # e
    <2>1. tlb' = tlb /\ cr3[c] # t
      BY <1>1, <1>6 DEF TlbInvalidate
    <2> QED BY <1>3, <2>1, NotLoaded
  <1> QED BY <1>4, <1>5, <1>6

\* sys_page_alloc in the own address space, or in that of a child that never ran,
\* leaves no stale TLB entry.
LEMMA TlbPageAlloc ==
    ASSUME PmapInv, TlbCoherent, Misuse = {}, NEW c \in Cpu, NEW e \in Env, NEW t \in Env,
           NEW va \in Va, NEW perm \in Perms, SysPageAlloc(c, e, t, va, perm)
    PROVE  TlbCoherent'
  <1> DEFINE r == env_page_alloc(m, t, va, perm)
  <1>1. /\ Calls(c, e) /\ Reaches(e, t) /\ m' = r.mem /\ cr3' = cr3
        /\ IF r.ret = "ok" THEN TlbInvalidate(c, t, va) ELSE tlb' = tlb
    BY DEF SysPageAlloc
  <1>2. TypeOK /\ MemInv(m) /\ m.env_pgdir[t] # NoPage /\ perm \in SUBSET Flag
    BY CpuAssumption DEF SysPageAlloc, Reaches, PmapInv, HasDirectory
  <1>3. /\ r.ret = "ok" => \E p \in Page :
              r.mem.pte = Entered(m.pte, t, va, [page |-> p, perm |-> perm])
        /\ r.ret # "ok" => r.mem.pte = m.pte
    BY <1>2, PageAllocKeeps
  <1> HIDE DEF r
  <1>4. CASE r.ret = "ok"
    <2>1. Flushed(t, va)
      BY <1>1, <1>4, CallFlushes
    <2>2. \A p \in Page : [page |-> p, perm |-> perm] \in PTE
      BY <1>2 DEF PTE
    <2>3. OneEntry(m', t, va)
      BY <1>1, <1>3, <1>4, <2>2 DEF OneEntry
    <2> QED BY <1>1, <1>2, <2>1, <2>3, TlbEntry
  <1>5. CASE r.ret # "ok"
    <2>1. m'.pte = m.pte /\ tlb' = tlb
      BY <1>1, <1>3, <1>5
    <2> QED BY <1>1, <2>1, TlbSame
  <1> QED BY <1>4, <1>5

\* The same for sys_page_map ...
LEMMA TlbPageMap ==
    ASSUME PmapInv, TlbCoherent, FewSharers, Misuse = {}, NEW c \in Cpu, NEW e \in Env,
           NEW s \in Env, NEW sva \in Va, NEW t \in Env,
           NEW va \in Va, NEW perm \in Perms, SysPageMap(c, e, s, sva, t, va, perm)
    PROVE  TlbCoherent'
  <1> DEFINE r == env_page_map(m, s, sva, t, va, perm)
  <1>1. /\ Calls(c, e) /\ Reaches(e, t) /\ m' = r.mem /\ cr3' = cr3
        /\ IF r.ret = "ok" THEN TlbInvalidate(c, t, va) ELSE tlb' = tlb
    BY DEF SysPageMap
  <1>2. TypeOK /\ MemInv(m) /\ m.env_pgdir[t] # NoPage /\ perm \in SUBSET Flag
    BY CpuAssumption DEF SysPageMap, Reaches, PmapInv, HasDirectory
  <1>a. Mapped(m, s, sva) => m.pp_ref[m.pte[s][sva].page] < MaxRef
    BY <1>2, Countable
  <1>r. r = env_page_map(m, s, sva, t, va, perm)
    OBVIOUS
  <1> HIDE DEF r
  <1>3. /\ r.ret = "ok" => \E p \in Page :
              r.mem.pte = Entered(m.pte, t, va, [page |-> p, perm |-> perm])
        /\ r.ret # "ok" => r.mem.pte = m.pte
    BY <1>r, <1>2, <1>a, PageMapKeeps
  <1>4. CASE r.ret = "ok"
    <2>1. Flushed(t, va)
      BY <1>1, <1>4, CallFlushes
    <2>2. \A p \in Page : [page |-> p, perm |-> perm] \in PTE
      BY <1>2 DEF PTE
    <2>3. OneEntry(m', t, va)
      BY <1>1, <1>3, <1>4, <2>2 DEF OneEntry
    <2> QED BY <1>1, <1>2, <2>1, <2>3, TlbEntry
  <1>5. CASE r.ret # "ok"
    <2>1. m'.pte = m.pte /\ tlb' = tlb
      BY <1>1, <1>3, <1>5
    <2> QED BY <1>1, <2>1, TlbSame
  <1> QED BY <1>4, <1>5

\* ... and for sys_page_unmap.
LEMMA TlbPageUnmap ==
    ASSUME PmapInv, TlbCoherent, Misuse = {}, NEW c \in Cpu, NEW e \in Env, NEW t \in Env,
           NEW va \in Va, SysPageUnmap(c, e, t, va)
    PROVE  TlbCoherent'
  <1>1. /\ Calls(c, e) /\ Reaches(e, t) /\ m' = page_remove(m, t, va) /\ cr3' = cr3
        /\ TlbInvalidate(c, t, va)
    BY DEF SysPageUnmap
  <1>2. TypeOK /\ MemInv(m) /\ Zero \in PTE
    BY DEF PmapInv, Zero, PTE
  <1>3. OneEntry(m', t, va)
    BY <1>1, <1>2, RemoveKeeps DEF OneEntry
  <1>4. Flushed(t, va)
    BY <1>1, CallFlushes
  <1> QED BY <1>1, <1>2, <1>3, <1>4, TlbEntry

\* A receiver is not loaded: it waits.
LEMMA TlbSendPage ==
    ASSUME PmapInv, TlbCoherent, FewSharers, NEW c \in Cpu, NEW e \in Env, NEW t \in Env,
           NEW srcva \in Va, NEW perm \in Perms, Calls(c, e), Recving(t),
           m' = IpcPage(e, t, srcva, perm).mem, tlb' = tlb, cr3' = cr3
    PROVE  TlbCoherent'
  <1>1. TypeOK /\ Holds(c) /\ curenv[c] = e /\ cr3[c] = e /\ env_status[e] = "RUNNING"
    BY CallAt
  <1>2. env_status[t] = "NOT_RUNNABLE" /\ e # t /\ perm \in SUBSET Flag
    BY <1>1, CpuAssumption DEF PmapInv, ReceiverWaits
  <1>3. OneEntry(m', t, env_ipc_dstva[t])
    BY <1>2, IpcPageKeeps
  <1>4. env_ipc_dstva[t] \in Va
    BY <1>1 DEF TypeOK, Recving
  <1>5. \A d \in Cpu : cr3[d] # t
    BY <1>1, <1>2, NotElsewhere
  <1>6. Flushed(t, env_ipc_dstva[t])
    BY <1>4, <1>5, NotLoaded
  <1> QED BY <1>1, <1>3, <1>4, <1>6, TlbEntry

\* load_icode fills what was not mapped.
LEMMA TlbRegionAlloc ==
    ASSUME PmapInv, TlbCoherent, NEW c \in Cpu, NEW va \in LoadVas, RegionAlloc(c, va)
    PROVE  TlbCoherent'
  <1> DEFINE perm == {"W"}
             r == env_page_alloc(m, victim, va, perm)
  <1>1. /\ pc[c] = "load" /\ m' = r.mem /\ ~Mapped(m, victim, va) /\ tlb' = tlb /\ cr3' = cr3
    BY DEF RegionAlloc, cpuVars
  <1>2. /\ TypeOK /\ Holds(c) /\ MemInv(m) /\ victim \in Env
        /\ env_status[victim] = "RUNNABLE" /\ m.env_pgdir[victim] # NoPage
    BY <1>1, LoadAt
  <1>3. va \in Va /\ perm \in SUBSET Flag
    BY CpuAssumption DEF Flag
  <1>r. r = env_page_alloc(m, victim, va, perm)
    OBVIOUS
  <1> HIDE DEF r, perm
  <1>4. /\ r.ret = "ok" => \E p \in Page :
              r.mem.pte = Entered(m.pte, victim, va, [page |-> p, perm |-> perm])
        /\ r.ret # "ok" => r.mem.pte = m.pte
    BY <1>r, <1>2, <1>3, PageAllocKeeps
  <1>5. OneEntry(m', victim, va)
    <2>1. \A p \in Page : [page |-> p, perm |-> perm] \in PTE
      BY <1>3 DEF PTE
    <2> QED BY <1>1, <1>4, <2>1 DEF OneEntry
  <1>6. m.pte[victim][va] = Zero
    BY <1>1, <1>2, <1>3 DEF MemInv, Nested
  <1>7. Flushed(victim, va)
    BY <1>1, <1>3, <1>6 DEF Flushed, TlbCoherent
  <1> QED BY <1>1, <1>2, <1>3, <1>5, <1>7, TlbEntry

\* env_free works in the kernel's address space.
LEMMA TlbFreePte ==
    ASSUME PmapInv, TlbCoherent, NEW c \in Cpu, NEW va \in Va, FreePte(c, va)
    PROVE  TlbCoherent'
  <1>1. /\ pc[c] = "free" /\ m' = page_remove(m, victim, va) /\ cr3' = cr3
        /\ TlbInvalidate(c, victim, va)
    BY DEF FreePte
  <1>2. TypeOK /\ MemInv(m) /\ Holds(c) /\ CpuAt(c) /\ victim \in Env /\ Zero \in PTE
    BY <1>1, FreeAt DEF Zero, PTE
  <1>3. OneEntry(m', victim, va)
    BY <1>1, <1>2, RemoveKeeps DEF OneEntry
  <1>4. /\ cr3[c] # victim
        /\ victim = curenv[c] \/ env_status[victim] \notin {"RUNNING", "DYING"}
    BY <1>1, <1>2, CpuAssumption DEF CpuAt
  <1>5. \A d \in Cpu : cr3[d] # victim
    BY <1>2, <1>4, NotElsewhere
  <1>6. \A d \in Cpu, v \in Va : tlb'[d][v] \in {Zero, tlb[d][v]}
    BY <1>1, <1>2 DEF TypeOK, TlbInvalidate
  <1>7. Flushed(victim, va)
    BY <1>5, <1>6 DEF Flushed
  <1> QED BY <1>1, <1>2, <1>3, <1>7, TlbEntry

\* env_free leaves the address space before it takes it apart.
LEMMA TlbStartFree ==
    ASSUME PmapInv, TlbCoherent, NEW c \in Cpu, NEW t, StartFree(c, t) PROVE TlbCoherent'
  <1>1. TypeOK /\ m'.pte = m.pte
    BY DEF StartFree, PmapInv
  <1>2. LoadCr3(c, KernDir) \/ (cr3' = cr3 /\ tlb' = tlb)
    BY DEF StartFree
  <1> QED BY <1>1, <1>2, TlbLoad, TlbSame

\* env_destroy leaves no stale TLB entry.
LEMMA TlbDestroy ==
    ASSUME PmapInv, TlbCoherent, NEW c \in Cpu, NEW e, NEW t, EnvDestroy(c, e, t)
    PROVE  TlbCoherent'
  <1>1. CASE StartFree(c, t)
    BY <1>1, TlbStartFree
  <1>2. CASE UNCHANGED <<m, env_parent_id, env_ipc_dstva, cpuVars, victim>>
    BY <1>2, TlbSame DEF cpuVars
  <1> QED BY <1>1, <1>2 DEF EnvDestroy

\* What the MMU fills in is what the table says.
LEMMA TlbFillCoherent ==
    ASSUME PmapInv, TlbCoherent, NEW c \in Cpu, NEW va \in Va, TlbFill(c, va)
    PROVE  TlbCoherent'
  <1>1. TypeOK /\ cr3[c] \in Env
    BY DEF PmapInv, CpusAt, CpuAt, TlbFill
  <1>2. m' = m /\ cr3' = cr3 /\ tlb' = [tlb EXCEPT ![c][va] = m.pte[cr3[c]][va]]
    BY DEF TlbFill
  <1>3. \A d \in Cpu, v \in Va : tlb'[d][v] =
           IF d = c /\ v = va THEN m.pte[cr3[c]][va] ELSE tlb[d][v]
    BY <1>1, <1>2 DEF TypeOK
  <1> QED BY <1>1, <1>2, <1>3 DEF TlbCoherent

\* No step leaves a stale TLB entry when environments change only what they may.
LEMMA TlbNext ==
    ASSUME PmapInv, TlbCoherent, FewSharers, Misuse = {}, Next PROVE TlbCoherent'
  <1>0. TypeOK
    BY DEF PmapInv
  <1>1. PICK c \in Cpu : \/ Boot(c) \/ Sched(c) \/ Free(c)
                         \/ \E va \in Va : TlbFill(c, va)
                         \/ \E e \in Env : PageCall(c, e) \/ IpcCall(c, e) \/ EnvCall(c, e)
    BY DEF Next
  <1>2. CASE Boot(c)
    <2>1. ASSUME NEW e \in Env, EnvCreate(c, e) PROVE TlbCoherent'
      <3>1. EnvAlloc(e, NoEnv, "RUNNABLE") /\ LoadCr3(c, e)
        BY <2>1 DEF EnvCreate
      <3>2. m'.pte = m.pte
        BY <3>1, EnvAllocKeeps
      <3> QED BY <1>0, <3>1, <3>2, TlbLoad
    <2>2. ASSUME LoadDone(c) PROVE TlbCoherent'
      BY <1>0, <2>2, TlbLoad DEF LoadDone
    <2> QED BY <1>2, <2>1, <2>2, TlbRegionAlloc DEF Boot
  <1>3. CASE Sched(c)
    <2>1. ASSUME NEW e, EnvRun(c, e) PROVE TlbCoherent'
      <3>1. m'.pte = m.pte /\ LoadCr3(c, e)
        BY <2>1 DEF EnvRun
      <3> QED BY <1>0, <3>1, TlbLoad
    <2>2. ASSUME SchedHalt(c) PROVE TlbCoherent'
      <3>1. m'.pte = m.pte /\ (LoadCr3(c, KernDir) \/ (cr3' = cr3 /\ tlb' = tlb))
        BY <2>2 DEF SchedHalt, cpuVars
      <3> QED BY <1>0, <3>1, TlbLoad, TlbSame
    <2>3. ASSUME Timer(c) PROVE TlbCoherent'
      BY <2>3, TlbSame DEF Timer, cpuVars
    <2> QED BY <1>3, <2>1, <2>2, <2>3 DEF Sched, SchedYield, Ret
  <1>4. CASE \E va \in Va : TlbFill(c, va)
    BY <1>4, TlbFillCoherent
  <1>5. CASE \E e \in Env : PageCall(c, e)
    BY <1>5, TlbPageAlloc, TlbPageMap, TlbPageUnmap DEF PageCall
  <1>6. CASE \E e \in Env : IpcCall(c, e)
    <2>1. ASSUME NEW e \in Env, NEW va \in Va, SysIpcRecv(c, e, va) PROVE TlbCoherent'
      BY <2>1, TlbSame DEF SysIpcRecv, cpuVars
    <2>2. ASSUME NEW e \in Env, NEW t \in Env, SysIpcSendValue(c, e, t) PROVE TlbCoherent'
      BY <2>2, TlbSame DEF SysIpcSendValue, cpuVars
    <2>3. ASSUME NEW e \in Env, NEW t \in Env, NEW va \in Va, NEW perm \in Perms,
                 SysIpcSendPage(c, e, t, va, perm)
          PROVE  TlbCoherent'
      <3>1. /\ Calls(c, e) /\ Recving(t) /\ m' = IpcPage(e, t, va, perm).mem
            /\ tlb' = tlb /\ cr3' = cr3
        BY <2>3 DEF SysIpcSendPage, cpuVars
      <3> QED BY <3>1, TlbSendPage
    <2>4. ASSUME NEW e \in Env, NEW t \in Env, NEW va \in Va, NEW perm \in Perms,
                 SysIpcSendUnmapped(c, e, t, va, perm)
          PROVE  TlbCoherent'
      <3>1. /\ Calls(c, e) /\ Recving(t) /\ tlb' = tlb /\ cr3' = cr3
            /\ m' = m \/ m' = IpcPage(e, t, va, perm).mem
        BY <2>4 DEF SysIpcSendUnmapped, cpuVars
      <3>2. CASE m' = m
        BY <3>1, <3>2, TlbSame
      <3>3. CASE m' = IpcPage(e, t, va, perm).mem
        BY <3>1, <3>3, TlbSendPage
      <3> QED BY <3>1, <3>2, <3>3
    <2> QED BY <1>6, <2>1, <2>2, <2>3, <2>4 DEF IpcCall
  <1>7. CASE \E e \in Env : EnvCall(c, e)
    <2>1. ASSUME NEW e \in Env, NEW t \in Env, SysExofork(c, e, t) PROVE TlbCoherent'
      <3>1. EnvAlloc(t, e, "NOT_RUNNABLE") /\ tlb' = tlb /\ cr3' = cr3
        BY <2>1 DEF SysExofork, cpuVars
      <3>2. m'.pte = m.pte
        BY <3>1, EnvAllocKeeps
      <3> QED BY <3>1, <3>2, TlbSame
    <2>2. ASSUME NEW e \in Env, NEW t \in Env, SysEnvSetStatus(c, e, t) PROVE TlbCoherent'
      BY <2>2, TlbSame DEF SysEnvSetStatus, cpuVars
    <2>3. ASSUME NEW e \in Env, NEW t \in Env, SysEnvDestroy(c, e, t) PROVE TlbCoherent'
      BY <2>3, TlbDestroy DEF SysEnvDestroy
    <2>4. ASSUME NEW e \in Env, NEW t \in Env, NEW va, NEW perm,
                 UserMemAssert(c, e, t, va, perm)
          PROVE  TlbCoherent'
      <3>1. EnvDestroy(c, e, t) \/ (m' = m /\ tlb' = tlb /\ cr3' = cr3)
        BY <2>4 DEF UserMemAssert, cpuVars
      <3> QED BY <3>1, TlbDestroy, TlbSame
    <2> QED BY <1>7, <2>1, <2>2, <2>3, <2>4 DEF EnvCall
  <1>8. CASE Free(c)
    <2>1. ASSUME NEW x \in Pdx, FreeTable(c, x) PROVE TlbCoherent'
      <3>1. /\ pc[c] = "free" /\ m' = free_table(m, victim, x) /\ m.pde[victim][x] # NoPage
            /\ \A va \in Va : PDX[va] = x => ~Mapped(m, victim, va)
            /\ tlb' = tlb /\ cr3' = cr3
        BY <2>1 DEF FreeTable, cpuVars
      <3>2. MemInv(m) /\ victim \in Env
        BY <3>1, FreeAt
      <3>3. m'.pte = m.pte
        BY <3>1, <3>2, FreeTableKeeps
      <3> QED BY <3>1, <3>3, TlbSame
    <2>2. ASSUME FreeDir(c) PROVE TlbCoherent'
      <3>1. /\ pc[c] = "free" /\ m' = free_pgdir(m, victim) /\ tlb' = tlb /\ cr3' = cr3
            /\ \A x \in Pdx : m.pde[victim][x] = NoPage
        BY <2>2 DEF FreeDir
      <3>2. MemInv(m) /\ victim \in Env /\ m.env_pgdir[victim] # NoPage
        BY <3>1, FreeAt
      <3>3. m'.pte = m.pte
        BY <3>1, <3>2, FreePgdirKeeps
      <3> QED BY <3>1, <3>3, TlbSame
    <2>3. ASSUME TrapDying(c) PROVE TlbCoherent'
      BY <2>3, TlbStartFree DEF TrapDying
    <2> QED BY <1>8, <2>1, <2>2, <2>3, TlbFreePte DEF Free
  <1> QED BY <1>1, <1>2, <1>3, <1>4, <1>5, <1>6, <1>7, <1>8

\* When programs leave the memory of a running child alone, a CPU translates
\* addresses as the tables say, and the directory it has loaded is allocated.
THEOREM TlbsAgree ==
    ASSUME Misuse = {}
    PROVE  Spec /\ []FewSharers => []MmuCoherent
  <1>1. Init => TlbCoherent
    BY DEF Init, TlbCoherent, NoTlb
  <1>2. PmapInv /\ FewSharers /\ TlbCoherent /\ [Next]_vars => TlbCoherent'
    <2>1. PmapInv /\ FewSharers /\ TlbCoherent /\ Next => TlbCoherent'
      BY TlbNext
    <2>2. TlbCoherent /\ UNCHANGED vars => TlbCoherent'
      BY TlbSame DEF vars, cpuVars
    <2> QED BY <2>1, <2>2
  <1>3. PmapInv /\ TlbCoherent => MmuCoherent
    BY DEF PmapInv, MmuCoherent, Cr3Live, Cr3Used, HasDirectory
  <1> QED BY <1>1, <1>2, <1>3, PmapSafe, PTL DEF Spec

-----------------------------------------------------------------------------
(* When the count cannot overflow.                                         *)

\* There are not more entries than pp_ref can count.
LEMMA FewEntries ==
    ASSUME Cardinality(Env) * NVA < MaxRef
    PROVE  FewSharers
  BY FewSlots DEF FewSharers

\* In a system with fewer user pages in all than pp_ref can count, the counts
\* are exact without a condition on what programs do.
THEOREM CountsExactWhenFew ==
    ASSUME Cardinality(Env) * NVA < MaxRef
    PROVE  Spec => [](RefsExact /\ OneUse)
  <1>1. FewSharers
    BY FewEntries
  <1> QED BY <1>1, CountsExact, PagesHaveOneUse, PTL
=============================================================================
